---------------------------- MODULE MC_EventScan ----------------------------
(***************************************************************************)
(* Chains of two to five ledgers with feeds of up to four events, one and  *)
(* three attempts per request, pages of two events.                        *)
(***************************************************************************)
EXTENDS EventScan

MCPolicies == {[max_attempts |-> 1, backoff |-> 1, max_backoff |-> 1],
               [max_attempts |-> 3, backoff |-> 1, max_backoff |-> 1]}

MCFailures == {"rejected"}

\* Quiet and busy contracts; bursts within a ledger and between two pages.
MCFeeds == {<<>>, <<5>>, <<1, 3, 4>>, <<3, 3, 4>>, <<4, 4, 4, 5>>, <<2, 4, 6>>, <<3, 4, 5, 6>>}

MCWindows == {[kind |-> "recent", ledgers |-> 1], [kind |-> "recent", ledgers |-> 2],
              [kind |-> "recent", ledgers |-> 9], [kind |-> "from", ledgers |-> 1],
              [kind |-> "from", ledgers |-> 4], [kind |-> "from", ledgers |-> 9]}

\* What the theorems assume of the constants holds of these.
ASSUME EndpointIsKnown == PagesAreHonoured /\ ChainIsMature
=============================================================================
