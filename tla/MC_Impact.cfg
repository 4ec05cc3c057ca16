SPECIFICATION Spec
CONSTANTS
    Node <- MCNode
    Kind <- MCKind
    Graphs <- MCGraphs
    RecordSets <- MCRecordSets
    ChangeSets <- MCChangeSets
    DepthLimit = {1, 2, 4}
    NodeLimit = {3, 5}
INVARIANTS
    BlastRadiusIsComplete
    RoutesCarryTheChange
    FindingsAreHonest
