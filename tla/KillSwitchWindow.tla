-------------------------- MODULE KillSwitchWindow --------------------------
(***************************************************************************)
(* kill_switch.py for one bound identity: the rolling deny-rate window and *)
(* the block it writes to the shared database file.  GatewayLifecycle      *)
(* takes the verdict of evaluate() as a choice; this module is where it is *)
(* computed.  record_calls and evaluate each read the monotonic clock, so  *)
(* time may pass between them.                                             *)
(***************************************************************************)
EXTENDS Integers, Sequences, FiniteSets

CONSTANTS
    Window,          \* window_seconds, in ticks
    MinCalls,        \* min_calls
    DenyNum, DenyDen,\* deny_rate_threshold = DenyNum / DenyDen
    MaxInstant,      \* bound on the clock
    MaxCounted,      \* bound: calls recorded
    MaxLifts         \* bound: unblocks and restarts, together

VARIABLES
    events,       \* _events[agent]: <<time, is_deny>>, oldest first
    blockRow,     \* the identity has a row in kill_switch_blocks
    instant,      \* time.monotonic()
    history,      \* ghost: every call counted since the record last began afresh
    tripped,      \* ghost: a trip happened that no unblock has lifted
    counted, lifts

ksVars == <<events, blockRow, instant, history, tripped, counted, lifts>>

KsInit ==
    /\ events = <<>> /\ blockRow = FALSE /\ instant = 0
    /\ history = <<>> /\ tripped = FALSE /\ counted = 0 /\ lifts = 0

\* Defect: an event exactly one window old is dropped too.
PruneInclusive(q, now) == SelectSeq(q, LAMBDA e : e[1] > now - Window)

\* _prune: events are appended in time order, so dropping the leading ones with
\* time < cutoff drops all of them.
Prune(q, now) == SelectSeq(q, LAMBDA e : e[1] >= now - Window)

Outcomes(allowed, denied) ==
    [i \in 1 .. allowed + denied |-> <<instant, i > allowed>>]

RecordCalls(allowed, denied) ==
    /\ counted + allowed + denied <= MaxCounted
    /\ counted' = counted + allowed + denied
    /\ events' = Prune(events \o Outcomes(allowed, denied), instant)
    /\ history' = history \o Outcomes(allowed, denied)
    /\ UNCHANGED <<blockRow, instant, tripped, lifts>>

\* evaluate's decision on a pruned queue: deny_count / total >= threshold.
Exceeds(q) ==
    LET denies == Len(SelectSeq(q, LAMBDA e : e[2])) IN
    Len(q) >= MinCalls /\ denies * DenyDen >= DenyNum * Len(q)

EvaluateRate ==
    /\ events' = Prune(events, instant)
    /\ blockRow' = (blockRow \/ Exceeds(Prune(events, instant)))
    /\ tripped' = (tripped \/ Exceeds(Prune(events, instant)))
    /\ UNCHANGED <<instant, history, counted, lifts>>

\* block on operator instruction, whatever the rate.
TripByOperator ==
    /\ blockRow' = TRUE /\ tripped' = TRUE
    /\ UNCHANGED <<events, instant, history, counted, lifts>>

\* unblock clears the window whether or not there was a block.
Unblock ==
    /\ lifts < MaxLifts /\ lifts' = lifts + 1
    /\ events' = <<>> /\ history' = <<>>
    /\ blockRow' = FALSE /\ tripped' = FALSE
    /\ UNCHANGED <<instant, counted>>

\* A restart loses the window and keeps the block, which is read from the file.
RestartProcess ==
    /\ lifts < MaxLifts /\ lifts' = lifts + 1
    /\ events' = <<>> /\ history' = <<>>
    /\ UNCHANGED <<blockRow, instant, tripped, counted>>

Elapse ==
    /\ instant < MaxInstant /\ instant' = instant + 1
    /\ UNCHANGED <<events, blockRow, history, tripped, counted, lifts>>

KsNext ==
    \/ \E a, d \in 0 .. 2 : a + d > 0 /\ RecordCalls(a, d)
    \/ EvaluateRate \/ TripByOperator \/ Unblock \/ RestartProcess \/ Elapse

KsSpec == KsInit /\ [][KsNext]_ksVars
-----------------------------------------------------------------------------
\* The calls of the whole record that are at most one window old.
InWindow == {i \in DOMAIN history : history[i][1] >= instant - Window}

\* At every moment evaluate() would answer what the definition of the deny rate
\* answers over every call counted since the record began afresh: pruning as calls
\* arrive never drops a call that still counts nor keeps one that does not.  And the
\* identity is blocked exactly while a trip stands that no operator has lifted,
\* across restarts.
WindowExact ==
    /\ Exceeds(Prune(events, instant)) <=>
        /\ Cardinality(InWindow) >= MinCalls
        /\ Cardinality({i \in InWindow : history[i][2]}) * DenyDen
                >= DenyNum * Cardinality(InWindow)
    /\ blockRow = tripped
=============================================================================
