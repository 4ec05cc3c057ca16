SPECIFICATION NetSpec
CONSTANTS
    Policies <- MCPolicies
    Failures <- MCFailures
    Bits = 2
    Codes <- MCCodes
    Statuses <- MCStatuses
INVARIANTS
    AtMostOneLateRequest
    RetriesExactlyTheTransient
    WaitsWithinWorstCase
    AnswerIsTheEndpoints
PROPERTIES
    CallReturns
