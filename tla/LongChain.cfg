CONSTANTS
    Nodes <- MCLongNodes
    Ids <- MCLongIds
    EdgeLists <- MCChain
    Order <- MCLongOrder
SPECIFICATION CreateSpec
CHECK_DEADLOCK FALSE
INVARIANT FlowInOrder
