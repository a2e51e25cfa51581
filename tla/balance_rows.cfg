\* Three symbol codes around the asked-for one, amounts that fill 0 to 3
\* bytes, both faults.
CONSTANTS
    Symbols = {1, 2, 3}
    Target = 2
    Amounts = {0, 258, 16777215}
    Faults = {"transport", "except"}
    Messages = {"overdrawn balance", "no balance object found"}
    Expected = "overdrawn balance"
SPECIFICATION Spec
INVARIANT BalanceOfAnsweredRow
INVARIANT CheckErrVerdict
