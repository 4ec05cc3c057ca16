SPECIFICATION Spec
CONSTANTS
    Hash <- MCHash
    Txs <- MCTxs
    Histories <- MCHistories
    Requests <- MCRequests
    MaxOperations = 2
    Stage <- MCStage
INVARIANTS
    VerifiedCodeRan
    EvidenceIsAccounted
    LedgersAreRight
    GateIsHonest
    CommandsAgree
