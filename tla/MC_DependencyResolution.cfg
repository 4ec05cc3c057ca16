SPECIFICATION GraphSpec
CONSTANTS
    Subject <- MCSubject
    Contract <- MCContract
    Transaction <- MCTransaction
    Observed <- MCObserved
    Offered <- MCOffered
    ByHand <- MCByHand
    Named <- MCNamed
    MaxOperations = 4
INVARIANTS
    MergeIsConservative
    EveryObservationIsAnswered
    ResolvedIsPublishable
    GraphStaysSound
