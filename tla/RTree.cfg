SPECIFICATION MCSpec
CONSTANTS
    Setups <- MCSetups
    Queries <- MCQueries
    Points <- MCPoints
    Grid <- MCGrid
INVARIANTS
    TypeOK
    OneTree
    TightBoxes
    QueryExact
    KNNNearest
    ChildrenAsShown
    CutsAsShown
    RowIsWhatStrategyDoes
PROPERTIES
    ContentsSpec
    EveryInsertionEnds
