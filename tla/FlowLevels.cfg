CONSTANTS
    Nodes <- MCNodes
    Ids <- MCIds
    EdgeLists <- MCEdgeLists
    Order <- MCOrder
SPECIFICATION CreateSpec
CHECK_DEADLOCK FALSE
INVARIANT TypesOK
INVARIANT CyclesExact
INVARIANT LevelsInOrder
INVARIANT LevelsTight
INVARIANT OnlyStuckLeftOut
INVARIANT FlowComplete
PROPERTY ImplementsGenerator
PROPERTY Ends
