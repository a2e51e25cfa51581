CONSTANTS
    Types <- AllTypes
    Domain <- MCDomain
    MaxItems = 2
    Faults = {"truncate"}
    MaxCut = 2
    BadBytes = {}
    Hexes <- MCHexes
    Swaps <- MCSwaps
SPECIFICATION Spec
INVARIANT TypeOK
INVARIANT NoSpuriousAbort
INVARIANT FromHexExact
PROPERTY ChannelRefinement
