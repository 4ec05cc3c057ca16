---------------------------- MODULE MC_RpcRetry ----------------------------
(***************************************************************************)
(* Policies of one to five attempts, with backoffs that reach the ceiling  *)
(* and ones that do not, a multiplier of so few bits that it reaches its   *)
(* end, and the codes and statuses at the borders of the ranges the        *)
(* classification tells apart.                                             *)
(***************************************************************************)
EXTENDS NetworkRequest

MCPolicies == {[max_attempts |-> 1, backoff |-> 0, max_backoff |-> 1],
               [max_attempts |-> 2, backoff |-> 0, max_backoff |-> 1],
               [max_attempts |-> 3, backoff |-> 1, max_backoff |-> 3],
               [max_attempts |-> 4, backoff |-> 2, max_backoff |-> 3],
               [max_attempts |-> 5, backoff |-> 1, max_backoff |-> 4]}
MCFailures == Transient \cup Permanent
MCCodes == {-32700, -32603, -32100, -32099, -32000, -31999}
MCStatuses == {200, 400, 404, 429, 503}
=============================================================================
