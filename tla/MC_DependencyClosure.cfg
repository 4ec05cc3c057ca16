SPECIFICATION Spec
CONSTANTS
    Node <- MCNode
    Rel <- MCRel
    Subject = 2
    DirectSets <- MCDirectSets
    Limit = {1, 3, 5}
INVARIANTS
    SetIsComplete
    ClosureIsHonest
    ClosedIsPublishable
PROPERTIES
    ImplementsSearch
