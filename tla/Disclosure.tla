----------------------------- MODULE Disclosure -----------------------------
(***************************************************************************)
(* disclosure.py: the gate that validates a release, consumes its request  *)
(* id in the shared replay store, records the attempt, rechecks the        *)
(* approval and only then hands the payload to the recipient.  Several     *)
(* gates (processes) share the store; every storage call can raise, every  *)
(* process can crash between two calls, and time passes while a storage    *)
(* call waits.  The gate is a library of the repository that the proxy     *)
(* does not call.                                                          *)
(***************************************************************************)
EXTENDS Integers, FiniteSets

CONSTANTS
    Gates,               \* processes running release
    ReleaseIds,          \* request ids presented
    ExpiresAt,           \* the approval is valid at 0 .. ExpiresAt - 1
    MaxClock,            \* bound on the clock
    MaxReleases,         \* bound: release calls begun
    MaxStorageFaults     \* bound: storage calls that raise

VARIABLES
    consumed,       \* the table disclosure_attempts
    auditRow,       \* the table disclosure_audit: event -> [disposition, delivery]
    gate,           \* per process: where release is, for which request
    clock,          \* int(time.time())
    delivered,      \* ghost: events whose deliver callback was entered
    returned,       \* ghost: the observations returned, as <<event, delivery>>
    releases,       \* ghost: release calls begun; also the event id of each
    storageFaults   \* ghost: storage calls that raised

discVars == <<consumed, auditRow, gate, clock, delivered, returned, releases, storageFaults>>

Idle == [at |-> "idle"]
NoEvent == [disposition |-> "none", delivery |-> "none"]
Events == 1 .. MaxReleases

DiscInit ==
    /\ consumed = {} /\ auditRow = [e \in Events |-> NoEvent]
    /\ gate = [g \in Gates |-> Idle]
    /\ clock = 0
    /\ delivered = {} /\ returned = {} /\ releases = 0 /\ storageFaults = 0

(***************************************************************************)
(* What release decides from the request, the gate's configuration and the *)
(* approval before it touches storage: the refusal reasons in the order    *)
(* the code tests them.  A request is the record of those facts.           *)
(***************************************************************************)
Requests ==
    [version: BOOLEAN,            \* request.policy_version is the gate's
     boundary: {"accepted", "other", "unknown"},  \* the recipient's, unknown also if unregistered
     scope: BOOLEAN,              \* source_scope is configured
     classified: BOOLEAN,         \* every label and the ceiling has a rank
     below: BOOLEAN,              \* every label at or below the ceiling
     approval: {"none", "unknown", "scope", "forged", "good"}]

Within(r) == r.boundary = "accepted" /\ r.below

\* _validity
Valid == 0 <= clock /\ clock < ExpiresAt

Admits(r) ==
    /\ r.version
    /\ r.boundary # "unknown"
    /\ r.scope
    /\ r.classified
    /\ Within(r) \/ (r.approval = "good" /\ Valid)

DispositionOf(r) == IF Within(r) THEN "unchanged" ELSE "authorized_disclosure"

\* The gate leaves release with an observation.
Observe(g, event, delivery) ==
    /\ gate' = [gate EXCEPT ![g] = Idle]
    /\ returned' = returned \cup {<<event, delivery>>}

Raises == storageFaults < MaxStorageFaults /\ storageFaults' = storageFaults + 1

\* release up to the store: a refusal returns at once and touches nothing.
BeginRelease(g, id, r) ==
    /\ gate[g] = Idle /\ releases < MaxReleases
    /\ releases' = releases + 1
    /\ Admits(r)
    /\ gate' = [gate EXCEPT ![g] = [at |-> "consume", id |-> id, event |-> releases + 1, req |-> r]]
    /\ UNCHANGED <<consumed, auditRow, clock, delivered, returned, storageFaults>>

RefuseRelease(g, r) ==
    /\ gate[g] = Idle /\ releases < MaxReleases
    /\ releases' = releases + 1
    /\ ~Admits(r)
    /\ Observe(g, releases + 1, "not_attempted")
    /\ UNCHANGED <<consumed, auditRow, clock, delivered, storageFaults>>

\* Defect: the insert is skipped when the id is there, and the release goes on.
ConsumeAnyway(g) ==
    /\ consumed' = consumed \cup {gate[g].id}
    /\ gate' = [gate EXCEPT ![g].at = "consumed"]
    /\ UNCHANGED <<returned, storageFaults>>

\* consume: the primary key admits one insert of the id, ever.
Consume(g) ==
    \/ /\ gate[g].id \notin consumed
       /\ consumed' = consumed \cup {gate[g].id}
       /\ gate' = [gate EXCEPT ![g].at = "consumed"]
       /\ UNCHANGED <<returned, storageFaults>>
    \/ /\ gate[g].id \in consumed
       /\ Observe(g, gate[g].event, "not_attempted")
       /\ UNCHANGED <<consumed, storageFaults>>
    \/ /\ Raises
       /\ Observe(g, gate[g].event, "not_attempted")
       /\ UNCHANGED consumed

CallConsume(g) ==
    /\ gate[g].at = "consume"
    /\ Consume(g)
    /\ UNCHANGED <<auditRow, clock, delivered, releases>>

\* The recheck the code makes when the release rests on an approval.
StillValid(g) == Within(gate[g].req) \/ Valid

\* The recheck after the reservation, and record_attempt with delivery "unknown".
RecordAttempt(g) ==
    /\ gate[g].at = "consumed"
    /\ \/ /\ ~StillValid(g)
          /\ Observe(g, gate[g].event, "not_attempted")
          /\ UNCHANGED <<auditRow, storageFaults>>
       \/ /\ StillValid(g)
          /\ auditRow' = [auditRow EXCEPT ![gate[g].event] =
                [disposition |-> DispositionOf(gate[g].req), delivery |-> "unknown"]]
          /\ gate' = [gate EXCEPT ![g].at = "recorded"]
          /\ UNCHANGED <<returned, storageFaults>>
       \/ /\ StillValid(g)
          /\ Raises
          /\ Observe(g, gate[g].event, "not_attempted")
          /\ UNCHANGED auditRow
    /\ UNCHANGED <<consumed, clock, delivered, releases>>

\* The last recheck fails: mark_not_attempted corrects the record, or raises and
\* leaves it "unknown".
MarkNotAttempted(g) ==
    /\ gate[g].at = "recorded" /\ ~StillValid(g)
    /\ \/ /\ auditRow' = [auditRow EXCEPT ![gate[g].event] =
                [disposition |-> "denied", delivery |-> "not_attempted"]]
          /\ Observe(g, gate[g].event, "not_attempted")
          /\ UNCHANGED storageFaults
       \/ /\ Raises
          /\ Observe(g, gate[g].event, "unknown")
          /\ UNCHANGED auditRow
    /\ UNCHANGED <<consumed, clock, delivered, releases>>

\* The last recheck passes and the callback is entered.  It returns, or raises and
\* leaves the outcome unknown.
Deliver(g) ==
    /\ gate[g].at = "recorded" /\ StillValid(g)
    /\ delivered' = delivered \cup {<<gate[g].event, gate[g].id, gate[g].req, clock>>}
    /\ \/ gate' = [gate EXCEPT ![g].at = "delivered"] /\ UNCHANGED returned
       \/ Observe(g, gate[g].event, "unknown")
    /\ UNCHANGED <<consumed, auditRow, clock, releases, storageFaults>>

Acknowledge(g) ==
    /\ gate[g].at = "delivered"
    /\ \/ /\ auditRow' = [auditRow EXCEPT ![gate[g].event].delivery = "acknowledged"]
          /\ Observe(g, gate[g].event, "acknowledged")
          /\ UNCHANGED storageFaults
       \/ /\ Raises
          /\ Observe(g, gate[g].event, "unknown")
          /\ UNCHANGED auditRow
    /\ UNCHANGED <<consumed, clock, delivered, releases>>

\* The process dies inside release; the tables stay, the caller sees nothing.
CrashGate(g) ==
    /\ gate[g] # Idle
    /\ gate' = [gate EXCEPT ![g] = Idle]
    /\ UNCHANGED <<consumed, auditRow, clock, delivered, returned, releases, storageFaults>>

Tick ==
    /\ clock < MaxClock
    /\ clock' = clock + 1
    /\ UNCHANGED <<consumed, auditRow, gate, delivered, returned, releases, storageFaults>>

DiscNext ==
    \/ \E g \in Gates :
        \/ \E r \in Requests : RefuseRelease(g, r) \/ \E id \in ReleaseIds : BeginRelease(g, id, r)
        \/ CallConsume(g) \/ RecordAttempt(g) \/ MarkNotAttempted(g) \/ Deliver(g)
        \/ Acknowledge(g) \/ CrashGate(g)
    \/ Tick

DiscSpec == DiscInit /\ [][DiscNext]_discVars
-----------------------------------------------------------------------------
EventsOf(id) == {d[1] : d \in {x \in delivered : x[2] = id}}
DeliveredEvents == {d[1] : d \in delivered}

\* However the gates interleave, fail and crash: a request id reaches a recipient at
\* most once; a release that rests on an approval reaches it only while the approval
\* is valid, and never a recipient of unknown boundary; the durable record never
\* understates (a delivered event has a row that is not "not_attempted") and never
\* overstates ("acknowledged" was delivered); and what release returns claims
\* "acknowledged" only when the stored row does, "not_attempted" only when nothing
\* left.
DisclosedOnce ==
    /\ \A id \in ReleaseIds : Cardinality(EventsOf(id)) <= 1
    /\ \A d \in delivered :
        /\ d[3].boundary # "unknown"
        /\ Within(d[3]) \/ (d[3].approval = "good" /\ d[4] < ExpiresAt)
        /\ auditRow[d[1]].delivery \in {"unknown", "acknowledged"}
    /\ \A e \in Events : auditRow[e].delivery = "acknowledged" => e \in DeliveredEvents
    /\ \A o \in returned :
        /\ o[2] = "acknowledged" => auditRow[o[1]].delivery = "acknowledged"
        /\ o[2] = "not_attempted" => o[1] \notin DeliveredEvents
=============================================================================
