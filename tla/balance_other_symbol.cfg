\* An account may hold tokens with a larger symbol code than the one asked for.
CONSTANTS
    Symbols = {1, 2, 3}
    Target = 2
    Amounts = {0, 258, 16777215}
    Faults = {}
    Messages = {"overdrawn balance", "no balance object found"}
    Expected = "overdrawn balance"
SPECIFICATION Spec
INVARIANT BalanceIsHolding
