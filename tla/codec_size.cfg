CONSTANTS
    Types <- SizedTypes
    Domain <- MCDomain
    MaxItems = 2
    Faults = {"truncate"}
    MaxCut = 1
    BadBytes = {}
    Hexes <- NoHexes
    Swaps = {}
SPECIFICATION Spec
INVARIANT SizeAgreement
