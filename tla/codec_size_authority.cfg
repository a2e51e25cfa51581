CONSTANTS
    Types <- AllTypes
    Domain <- MCDomain
    MaxItems = 1
    Faults = {}
    MaxCut = 0
    BadBytes = {}
    Hexes <- NoHexes
    Swaps = {}
SPECIFICATION Spec
INVARIANT SizeAgreement
