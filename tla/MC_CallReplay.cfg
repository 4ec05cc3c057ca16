SPECIFICATION Spec
CONSTANTS
    a = a
    b = b
    f = f
    g = g
    None = None
    Contract <- MCContract
    Function <- MCFunction
    Envelopes <- MCEnvelopes
    Producers = {"topic", "field", "unreadable"}
    MaxCalls = 4
INVARIANTS
    CallersAreReal
    CallsAreRecovered
    SuccessIsEarned
