SPECIFICATION ProvenanceSpec
CONSTANTS
    Stage = {1, 2, 3}
    Claim = {1, 2, 3}
    Requires <- MCRequires
    Id <- MCId
    Pool <- MCPool
    Batches <- MCBatches
    Recorded <- MCRecorded
INVARIANT
    MismatchIsAConflict
