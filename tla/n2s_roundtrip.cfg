\* Names with the characters '.', '1', '5', 'a' and 'z' at the first two and
\* the twelfth positions, and a 13th character of 0, 1 or 15: 375 names.
CONSTANTS
    Alphabet = {0, 1, 5, 6, 31}
    Positions = {1, 2, 12}
    Last = {0, 1, 15}
SPECIFICATION Spec
INVARIANT RoundTrip
