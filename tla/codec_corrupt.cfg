CONSTANTS
    Types <- AllTypes
    Domain <- MCDomain
    MaxItems = 2
    Faults = {"truncate", "corrupt"}
    MaxCut = 1
    BadBytes = {1, 3, 255}
    Hexes <- NoHexes
    Swaps = {}
SPECIFICATION Spec
INVARIANT Canonical
