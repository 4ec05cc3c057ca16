----------------------------- MODULE EventScan -----------------------------
(***************************************************************************)
(* The bounded event scan of the network crate (`scan_events`), running    *)
(* its two kinds of request through the retry loop of RpcRetry against an  *)
(* endpoint whose chain goes on growing.                                   *)
(*                                                                         *)
(* The events of the contracts asked for form a feed in ledger order.  An  *)
(* event is its position in the feed and feed[i] the ledger it belongs to. *)
(***************************************************************************)
EXTENDS RpcRetry

CONSTANTS Feeds,        \* the feeds: nondecreasing sequences of ledgers
          Windows,      \* the windows asked for: [kind, ledgers] as in EventWindow
          Tips,         \* the newest ledgers a chain may have when the scan begins
          MaxCloses,    \* bound: how many ledgers close while the scan runs
          Retention,    \* how many ledgers the endpoint retains
          Drift,        \* how far its event index lags behind what it retains
          Margin,       \* EVENTS_START_LEDGER_MARGIN
          PageLimit,    \* the events asked for per page
          EndpointCap,  \* the most events the endpoint puts on a page
          MaxPages      \* the page bound

ASSUME ScanAssumption ==
    /\ \A f \in Feeds : f \in Seq(Nat \ {0}) /\ \A i, j \in 1..Len(f) : i < j => f[i] <= f[j]
    /\ Windows \subseteq [kind : {"recent", "from"}, ledgers : Nat \ {0}]
    /\ Tips \subseteq Nat \ {0}
    /\ {Retention, PageLimit, EndpointCap, MaxPages} \subseteq Nat \ {0}
    /\ {MaxCloses, Drift, Margin} \subseteq Nat
    /\ "rejected" \in Failures  \* the endpoint refuses a page outside its retention

\* Of the environment, where a theorem needs it.  The endpoint puts as many events on a
\* page as it is asked for.
PagesAreHonoured == PageLimit <= EndpointCap

\* The margin leaves something of the retained window, and no chain is so young that
\* its event index lags behind all of it.
ChainIsMature == Margin < Retention /\ \A t \in Tips : Drift < t

VARIABLES feed,       \* the events of the contracts, also those still to come
          tip,        \* the newest ledger of the chain
          closed,     \* how many ledgers closed since the scan began
          refused,    \* whether a page was asked for outside the retention
          window,     \* what the scan was asked to cover
          phase,      \* where the scan is
          status,     \* what the health request answered: [latest, oldest]
          hasCursor,  \* whether a cursor is in hand
          position,   \* and if so the event it stands before
          events,     \* the events received
          pages,      \* how many pages were read
          truncation, \* why the scan stopped, None while it did not
          result      \* None while it runs, then "scan" or "error"

chain == <<feed, tip, closed, refused>>
found == <<hasCursor, position, events, pages>>
vars == <<rpcVars, chain, window, phase, status, found, truncation, result>>

Least(x, y) == IF x < y THEN x ELSE y
Most(x, y) == IF x < y THEN y ELSE x

----------------------------------------------------------------------------
(* The endpoint.                                                           *)

Oldest == Most(1, tip - Retention + 1)

\* The event index covers the retained ledgers but for the drift.
IndexFloor == Least(Oldest + Drift, tip)

\* The events of the ledgers from..to.
EventsOf(from, to) == {i \in 1..Len(feed) : from <= feed[i] /\ feed[i] <= to}

\* A new ledger closes, and the oldest one may fall out of the window.
CloseLedger == /\ phase # "done"
               /\ closed < MaxCloses
               /\ tip' = tip + 1
               /\ closed' = closed + 1
               /\ UNCHANGED <<rpcVars, feed, refused, window, phase, status, found,
                              truncation, result>>

\* The page that begins at position p: as many of the events the chain has as
\* the request and the endpoint allow.
PageFrom(p) ==
    LET visible == Cardinality(EventsOf(1, tip))
        last == Least(visible, p + Least(PageLimit, EndpointCap) - 1)
    IN  [i \in 1..Most(0, last - p + 1) |-> p + i - 1]

----------------------------------------------------------------------------
(* What the scan asks for.                                                 *)

\* The first event at or after a ledger.
FirstAt(ledger) == 1 + Cardinality({i \in 1..Len(feed) : feed[i] < ledger})

RequestedFrom == IF window.kind = "recent"
                 THEN Most(0, status.latest - (window.ledgers - 1))
                 ELSE window.ledgers

\* (fault) The oldest ledger the endpoint stores, as it reports it.
FloorWithoutMargin == status.oldest

Floor == status.oldest + Margin

Clamped == RequestedFrom < Floor

ScannedFrom == Least(Most(RequestedFrom, Floor), status.latest)

\* (fault) Every page is asked for from the start of the scan.
AskFromStart == FirstAt(ScannedFrom)

\* EventStart: behind the cursor in hand, or from the ledger the scan starts at.
AskFrom == IF hasCursor THEN position ELSE FirstAt(ScannedFrom)

\* The ledger the endpoint has to look up for that.
AskedLedger == IF hasCursor THEN feed[position - 1] ELSE ScannedFrom

----------------------------------------------------------------------------
ScanInit == /\ RpcInit
            /\ feed \in Feeds
            /\ tip \in Tips
            /\ closed = 0
            /\ refused = FALSE
            /\ window \in Windows
            /\ phase = "entry"
            /\ status = [latest |-> 0, oldest |-> 0]
            /\ hasCursor = FALSE
            /\ position = 0
            /\ events = <<>>
            /\ pages = 0
            /\ truncation = None
            /\ result = None

\* A scan cancelled before it began is reported as a scan that stopped.
EnterCancelled == /\ phase = "entry"
                  /\ cancelled
                  /\ phase' = "done"
                  /\ truncation' = "cancelled"
                  /\ result' = "scan"
                  /\ UNCHANGED <<rpcVars, chain, window, status, found>>

AskHealth == /\ phase = "entry"
             /\ ~cancelled
             /\ phase' = "health"
             /\ Begin
             /\ UNCHANGED <<chain, window, status, found, truncation, result>>

HealthArrives == /\ phase = "health"
                 /\ Succeed
                 /\ status' = [latest |-> tip, oldest |-> Oldest]
                 /\ phase' = "loop"
                 /\ UNCHANGED <<chain, window, found, truncation, result>>

\* The condition of the page loop.
MorePages == pages < MaxPages

StopCancelled == /\ phase = "loop"
                 /\ MorePages
                 /\ cancelled
                 /\ truncation' = "cancelled"
                 /\ phase' = "finish"
                 /\ UNCHANGED <<rpcVars, chain, window, status, found, result>>

AskPage == /\ phase = "loop"
           /\ MorePages
           /\ ~cancelled
           /\ phase' = "page"
           /\ Begin
           /\ UNCHANGED <<chain, window, status, found, truncation, result>>

LeaveLoop == /\ phase = "loop"
             /\ ~MorePages
             /\ phase' = "finish"
             /\ UNCHANGED <<rpcVars, chain, window, status, found, truncation, result>>

Served == AskedLedger \in IndexFloor..tip

\* A page is read.  A short one ends the scan; a full one leads on if it comes
\* with a cursor, and otherwise the scan cannot know whether it is at the end.
PageArrives ==
    LET received == PageFrom(AskFrom)
    IN  /\ phase = "page"
        /\ Served
        /\ Succeed
        /\ events' = events \o received
        /\ pages' = pages + 1
        /\ \/ /\ Len(received) < PageLimit
              /\ hasCursor' = FALSE
              /\ phase' = "finish"
              /\ UNCHANGED <<position, truncation>>
           \/ /\ Len(received) >= PageLimit
              /\ hasCursor' = TRUE
              /\ position' = AskFrom + Len(received)
              /\ \/ phase' = "loop" /\ truncation' = truncation
                 \/ phase' = "finish" /\ truncation' = "evidence_unavailable"
        /\ UNCHANGED <<chain, window, status, result>>

\* getEvents fails when it is asked outside what the node retains.
PageRefused == /\ phase = "page"
               /\ ~Served
               /\ step = "in_flight"
               /\ refused' = TRUE
               /\ Answered("rejected")
               /\ UNCHANGED <<feed, tip, closed, window, phase, status, found, truncation, result>>

Asking == phase \in {"health", "page"}

\* The retry loop goes on, or the endpoint fails.
Attempt == /\ Asking
           /\ TaskStep
           /\ UNCHANGED <<chain, window, phase, status, found, truncation, result>>

RequestFails == /\ Asking
                /\ \E f \in Failures : Answered(f)
                /\ UNCHANGED <<chain, window, phase, status, found, truncation, result>>

\* `?`: the scan returns the failure, and nothing of what it has read.
Propagate == /\ Asking
             /\ step = "returned"
             /\ phase' = "done"
             /\ result' = "error"
             /\ UNCHANGED <<rpcVars, chain, window, status, found, truncation>>

\* (fault) The clamp is given as the reason first.
ReasonClampFirst == IF Clamped THEN "boundary_reached"
                    ELSE IF truncation # None THEN truncation
                    ELSE IF pages >= MaxPages /\ hasCursor THEN "max_nodes" ELSE None

FinalReason == IF truncation # None THEN truncation
               ELSE IF pages >= MaxPages /\ hasCursor THEN "max_nodes"
               ELSE IF Clamped THEN "boundary_reached" ELSE None

Finish == /\ phase = "finish"
          /\ truncation' = FinalReason
          /\ phase' = "done"
          /\ result' = "scan"
          /\ UNCHANGED <<rpcVars, chain, window, status, found>>

Cancelled == /\ Cancel
             /\ UNCHANGED <<chain, window, phase, status, found, truncation, result>>

Done == phase = "done" /\ UNCHANGED vars

ScanStep == \/ EnterCancelled \/ AskHealth
            \/ StopCancelled \/ AskPage \/ LeaveLoop
            \/ Attempt \/ Propagate
            \/ Finish

Next == \/ ScanStep
        \/ HealthArrives \/ PageArrives \/ PageRefused \/ RequestFails
        \/ CloseLedger
        \/ Cancelled
        \/ Done

Spec == ScanInit /\ [][Next]_vars

\* The runtime polls the scan's task while it is ready, and its timers fire.
FairSpec == Spec /\ WF_vars(ScanStep)

----------------------------------------------------------------------------
Received == {events[i] : i \in 1..Len(events)}

Reason == {"cancelled", "evidence_unavailable", "max_nodes", "boundary_reached"}

\* The types of the scan's locals and of the fields of its result.
TypeOK == /\ RpcTypeOK
          /\ feed \in Feeds
          /\ tip \in Nat /\ closed \in 0..MaxCloses /\ refused \in BOOLEAN
          /\ window \in Windows
          /\ phase \in {"entry", "health", "loop", "page", "finish", "done"}
          /\ status \in [latest : Nat, oldest : Nat]
          /\ hasCursor \in BOOLEAN
          /\ position \in 0..(Len(feed) + 1)
          /\ events \in Seq(1..Len(feed))
          /\ pages \in Nat
          /\ truncation \in Reason \cup {None}
          /\ result \in {None, "scan", "error"}

\* The scan receives the feed from where it starts, event by event: none is
\* skipped and none comes twice, though requests are retried, ledgers close
\* between two pages and the retention window moves.
ContiguousFeed ==
    \A i \in 1..Len(events) : events[i] = FirstAt(ScannedFrom) + i - 1

\* A scan that calls itself complete has every event of the range it was asked
\* to cover, up to the ledger the endpoint reported as its newest; one that was
\* stopped by the retention boundary alone has every event above it.
NothingSilentlyMissing ==
    result = "scan" =>
       /\ truncation = None => EventsOf(RequestedFrom, status.latest) \subseteq Received
       /\ truncation = "boundary_reached" => EventsOf(ScannedFrom, status.latest) \subseteq Received

\* The reason of a truncated scan is what stopped it: the flag is up, or all
\* the pages it was allowed came back full, or the last one came without a cursor.
ReasonIsHonest ==
    result = "scan" =>
       /\ truncation = "cancelled" => cancelled
       /\ truncation = "max_nodes" => Len(events) = MaxPages * PageLimit
       /\ truncation = "evidence_unavailable" => Len(events) = pages * PageLimit /\ pages > 0
       /\ truncation = "boundary_reached" => RequestedFrom < Floor

\* No page is asked for outside what the endpoint serves, as long as the index
\* lags and the window moves by no more than the margin while the scan runs.
NeverAsksOutsideRetention == closed + Drift <= Margin => ~refused

\* A scan that a moving window has overtaken, or that lost a page for good, ends
\* in an error: no scan is the result of a request that failed.
FailureIsNoResult ==
    result = "scan" => ~refused /\ outcome \in {None, "ok"}

\* A result can be taken at its word: what it covers, why it stopped, and that
\* nothing it was made from failed.
ResultIsHonest == TypeOK /\ NothingSilentlyMissing /\ ReasonIsHonest /\ FailureIsNoResult

\* The scan returns although the chain goes on growing.
ScanReturns == <>(phase = "done")

=============================================================================
