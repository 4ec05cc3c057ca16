SPECIFICATION Spec
CONSTANTS
    Node <- MCNode
    Rel <- MCRel
    Start = 2
    Graphs <- MCGraphs
    Limit = {1, 3, 5}
    Target = 3
    Caps = {0, 2, 64}
INVARIANTS
    HonestAbsence
    ReportIsHonest
    PathsAreHonest
PROPERTIES
    ImplementsSearch
