-------------------------- MODULE GatewayLifecycle --------------------------
(***************************************************************************)
(* The session lifecycle of one gateway process: admission and drain of    *)
(* tool calls (CMCPProxy), the operator and client endpoints that close,   *)
(* reset, trip, unblock and shut down (MCPServer), and the bookkeeping     *)
(* they drive (SessionManager).                                            *)
(*                                                                         *)
(* The gateway runs on one asyncio event loop, so an action here is the    *)
(* code between two awaits.  A task is one HTTP request: a tool call or    *)
(* an endpoint handler.  A tool call that trips the kill switch goes on to *)
(* close the session itself and is then a handler whose operation is       *)
(* "seal".  Trip, close_session and the choice of a successor run without  *)
(* an await and are still three actions, one for each place where they can *)
(* fail: the lock is held and admission sealed throughout, so what another *)
(* task can do in between it can also do before or after.                  *)
(***************************************************************************)
EXTENDS Naturals, Sequences, FiniteSets

CONSTANTS
    Calls,               \* tool-call requests, each made once
    Handlers,            \* endpoint requests, each made once
    NoTask,              \* holder of a free lock
    Operations,          \* the endpoints the handlers may be requests for
    KillSwitchEnabled,   \* config.kill_switch.enabled
    BlockedAtStart,      \* may the block store hold blocks at startup
    AuditMayFail,        \* may the durable audit store refuse an append
    AttestationMayFail,  \* may a hardware session report be missing
    CleanupMayFail       \* may releasing upstream resources fail or be cancelled

Tasks == Calls \cup Handlers

ASSUME TasksAssumption ==
    /\ Calls \cap Handlers = {}
    /\ NoTask \notin Tasks

ASSUME OperationsAssumption ==
    Operations \subseteq {"close", "reset", "trip", "unblock", "shutdown"}

ASSUME SwitchesAssumption ==
    /\ KillSwitchEnabled \in BOOLEAN
    /\ BlockedAtStart \in BOOLEAN
    /\ AuditMayFail \in BOOLEAN
    /\ AttestationMayFail \in BOOLEAN
    /\ CleanupMayFail \in BOOLEAN

VARIABLES
    \* CMCPProxy: the admission gate
    rotating,            \* _session_rotation_in_progress: admission is sealed
    rebound,             \* _session_rebound
    closeCommitted,      \* _close_committed
    drainIncomplete,     \* _drain_incomplete
    cleanupIncomplete,   \* _cleanup_incomplete
    failedTerminal,      \* _failed_terminal_call is not None
    shuttingDown,        \* _shutting_down
    shutdownDrained,     \* _shutdown_drained
    halted,              \* _halted_identity
    lock,                \* holder of _transition_lock
    active,              \* _active_call_tasks; _active_calls is its size
    \* MCPServer
    pending,             \* _pending_close
    closedChains,        \* keys of _closed_chains
    storesClosed,        \* the durable stores were closed by shutdown
    \* SessionManager, SessionState, AuditChain, KillSwitchBlockStore
    sid,                 \* id of the current session (server and proxy agree)
    chain,               \* index of the current audit chain
    issued,              \* session ids issued so far: 1 .. issued
    length,              \* entries of each chain; a chain outlives a reset
    unbound,             \* chains opened without a session attestation report
    triggered,           \* kill_switch_triggered of the current SessionState
    window,              \* KillSwitchEvaluator._events is not empty for Agent
    blocked,             \* identities in kill_switch_blocks
    closing,             \* _closing_sessions
    claims,              \* signed TRACE claims
    \* Tasks
    pc,                  \* where each task waits
    op,                  \* what each task is a request for
    target,              \* the session id it named on arrival
    subject,             \* the identity an unblock names; the label a halt will use
    successor,           \* session and chain opened by the running transition
    ahead,               \* tasks queued on _transition_lock before each waiting task
    admittedTo,          \* chain a call was admitted to
    effects,             \* calls whose transport may have started
    terminal             \* entry type of each call's durable terminal entry

gate == <<rotating, rebound, closeCommitted, drainIncomplete,
          cleanupIncomplete, failedTerminal>>
stop == <<shuttingDown, shutdownDrained, halted>>
server == <<pending, closedChains, storesClosed>>
session == <<sid, chain, issued, length, unbound>>
killSwitch == <<blocked, triggered, window>>
books == <<closing, claims>>
request == <<op, target, subject, successor, ahead>>
outcome == <<admittedTo, effects, terminal>>

vars == <<gate, stop, lock, active, server, session, killSwitch, books, pc,
          request, outcome>>

-----------------------------------------------------------------------------
(***************************************************************************)
(* Values                                                                  *)
(***************************************************************************)
Agent == "agent"        \* the identity of the bound Agent Manifest
Other == "other"        \* an identity another gateway on the same store blocked
Unknown == "unknown"    \* the label _commit_close falls back to
NoAgent == "none"

NoSuccessor == [sid |-> 0, chain |-> 0]
NoClose == [sid |-> 0, next |-> NoSuccessor]

Successors == [sid : Nat, chain : Nat]

CloseOps == {"close", "trip", "seal"}
RotationOps == CloseOps \cup {"unblock"}
\* Operations that name a session and are refused when it is no longer current.
NamingOps == CloseOps \cup {"reset"}

\* Where a task that owns the transition lock can be.  In Section it may change
\* the session; the two drain stages only wait for admitted calls.
Draining == {"drain", "grace"}
Section == {"trip", "commit", "succeed", "unblock", "aclose", "apply", "exit"}

PCs == {"idle", "waiting", "running", "upstream", "leaving", "unwinding",
        "lock", "done"} \cup Draining \cup Section

InSection(t) == pc[t] \in Section
Owns(t) == pc[t] \in Draining \cup Section

FlagsOK ==
    /\ rotating \in BOOLEAN /\ rebound \in BOOLEAN /\ closeCommitted \in BOOLEAN
    /\ drainIncomplete \in BOOLEAN /\ cleanupIncomplete \in BOOLEAN
    /\ failedTerminal \in BOOLEAN
    /\ shuttingDown \in BOOLEAN /\ shutdownDrained \in BOOLEAN
    /\ triggered \in BOOLEAN /\ window \in BOOLEAN /\ storesClosed \in BOOLEAN

GateOK ==
    /\ halted \in {NoAgent, Agent, Unknown}
    /\ lock \in Tasks \cup {NoTask} /\ ahead \in [Tasks -> SUBSET Tasks]
    /\ active \subseteq Calls
    /\ blocked \subseteq {Agent, Other}

SessionOK ==
    /\ pending \in [sid : Nat, next : Successors]
    /\ closedChains \subseteq Nat
    /\ sid \in Nat /\ issued \in Nat
    /\ length \in Seq(Nat) /\ chain \in 1 .. Len(length)
    /\ unbound \subseteq Nat
    /\ closing \subseteq Nat
    /\ claims \subseteq [sid : Nat, chain : Nat, length : Nat, covers : SUBSET Calls]

TasksOK ==
    /\ pc \in [Tasks -> PCs]
    /\ op \in [Tasks -> Operations \cup {"none", "call", "seal"}]
    /\ target \in [Tasks -> Nat]
    /\ subject \in [Tasks -> {NoAgent, Agent, Other, Unknown}]
    /\ successor \in [Tasks -> Successors]
    /\ admittedTo \in [Calls -> Nat]
    /\ effects \subseteq Calls
    /\ terminal \in [Calls -> {"none", "tool_call", "fault"}]

\* Every variable has its type: in particular the current chain exists, so no append
\* goes to a chain that was never opened.
TypeOK == FlagsOK /\ GateOK /\ SessionOK /\ TasksOK

-----------------------------------------------------------------------------
(***************************************************************************)
(* build_server: a session is open.  An identity that was blocked before   *)
(* the process started gets a session that serves nothing, with a second   *)
(* audit entry that says so.                                               *)
(***************************************************************************)
Init ==
    /\ rotating = FALSE /\ rebound = FALSE /\ closeCommitted = FALSE
    /\ drainIncomplete = FALSE /\ cleanupIncomplete = FALSE
    /\ failedTerminal = FALSE
    /\ shuttingDown = FALSE /\ shutdownDrained = FALSE
    /\ lock = NoTask
    /\ active = {}
    /\ pending = NoClose /\ closedChains = {} /\ storesClosed = FALSE
    /\ sid = 1 /\ chain = 1 /\ issued = 1
    /\ unbound \in IF AttestationMayFail THEN {{}, {1}} ELSE {{}}
    /\ triggered = FALSE /\ window = FALSE
    /\ blocked \in IF BlockedAtStart THEN SUBSET {Agent, Other} ELSE {{}}
    /\ halted = IF Agent \in blocked THEN Agent ELSE NoAgent
    /\ length = IF Agent \in blocked THEN <<2>> ELSE <<1>>
    /\ closing = {} /\ claims = {}
    /\ pc = [t \in Tasks |-> "idle"]
    /\ op = [t \in Tasks |-> "none"]
    /\ target = [t \in Tasks |-> 0]
    /\ subject = [t \in Tasks |-> NoAgent]
    /\ successor = [t \in Tasks |-> NoSuccessor]
    /\ ahead = [t \in Tasks |-> {}]
    /\ admittedTo = [c \in Calls |-> 0]
    /\ effects = {}
    /\ terminal = [c \in Calls |-> "none"]

Goto(t, to) == pc' = [pc EXCEPT ![t] = to]

\* AuditChain.append on chain c: one more entry.
Appended(c) == length' = [length EXCEPT ![c] = @ + 1]

\* asyncio.Lock serves its waiters in the order of their arrival.
Enqueue(t) == ahead' = [ahead EXCEPT ![t] = {u \in Tasks : pc[u] = "lock"}]
Dequeue(t) == ahead' = [u \in Tasks |-> ahead[u] \ {t}]

-----------------------------------------------------------------------------
(***************************************************************************)
(* Tool calls: CMCPProxy._enter_call, call_tool, _leave_call               *)
(***************************************************************************)

\* The checks at the end of _enter_call, and the admission that follows them.
Admit(c) ==
    IF ~shuttingDown /\ halted = NoAgent /\ ~failedTerminal
    THEN /\ active' = active \cup {c}
         /\ admittedTo' = [admittedTo EXCEPT ![c] = chain]
         /\ Goto(c, "running")
    ELSE /\ Goto(c, "done")
         /\ UNCHANGED <<active, admittedTo>>

\* Mutant: the seal holds a call only while a transition owns the lock.
EnterCallUnlessOwned(c) ==
    /\ pc[c] = "idle"
    /\ op' = [op EXCEPT ![c] = "call"]
    /\ IF rotating /\ lock # NoTask
       THEN Goto(c, "waiting") /\ UNCHANGED <<active, admittedTo>>
       ELSE Admit(c)
    /\ UNCHANGED <<gate, stop, lock, server, session, killSwitch, books,
                   target, subject, successor, ahead, effects, terminal>>

\* A call arrives.  Behind a sealed gate it waits; otherwise it is checked now.
EnterCall(c) ==
    /\ pc[c] = "idle"
    /\ op' = [op EXCEPT ![c] = "call"]
    /\ IF rotating
       THEN Goto(c, "waiting") /\ UNCHANGED <<active, admittedTo>>
       ELSE Admit(c)
    /\ UNCHANGED <<gate, stop, lock, server, session, killSwitch, books,
                   target, subject, successor, ahead, effects, terminal>>

\* The wait's predicate holds: the call is checked against the state it wakes to.
WakeCall(c) ==
    /\ pc[c] = "waiting"
    /\ shuttingDown \/ failedTerminal \/ ~rotating
    /\ Admit(c)
    /\ UNCHANGED <<gate, stop, lock, server, session, killSwitch, books,
                   request, effects, terminal>>

\* The transition's own deadline and the grace passed: _raise_stuck_transition.
GiveUpWaiting(c) ==
    /\ pc[c] = "waiting" /\ rotating
    /\ Goto(c, "done")
    /\ UNCHANGED <<gate, stop, lock, active, server, session, killSwitch, books,
                   request, outcome>>

\* A decision is recorded in the call's only terminal entry, a tool_call entry, and the
\* call leaves, with a result or with an exception raised after the entry.  From "running"
\* it is a denial before transport; from "upstream" it is what the response led to.
RecordDecision(c) ==
    /\ pc[c] \in {"running", "upstream"}
    /\ terminal' = [terminal EXCEPT ![c] = "tool_call"]
    /\ Appended(chain)
    /\ Goto(c, "leaving")
    /\ UNCHANGED <<gate, stop, lock, active, server, sid, chain, issued, unbound,
                   killSwitch, books, request, admittedTo, effects>>

\* A failed health check or a drifted upstream refuses the call with no terminal.
RefuseUnrecorded(c) ==
    /\ pc[c] = "running"
    /\ Goto(c, "unwinding")
    /\ UNCHANGED <<gate, stop, lock, active, server, session, killSwitch, books,
                   request, outcome>>

\* _forward_to_upstream: from here the remote effect may have happened.
Forward(c) ==
    /\ pc[c] = "running"
    /\ effects' = effects \cup {c}
    /\ Goto(c, "upstream")
    /\ UNCHANGED <<gate, stop, lock, active, server, session, killSwitch, books,
                   request, admittedTo, terminal>>

\* An exception or an honoured cancellation before the terminal entry:
\* _finalize_unexpected_call_failure writes a fault terminal.
FinalizeUnexpectedCallFailure(c) ==
    /\ pc[c] \in {"running", "upstream"}
    /\ terminal' = [terminal EXCEPT ![c] = "fault"]
    /\ Appended(chain)
    /\ Goto(c, "unwinding")
    /\ UNCHANGED <<gate, stop, lock, active, server, sid, chain, issued, unbound,
                   killSwitch, books, request, admittedTo, effects>>

\* The fault terminal could not be persisted either: the outcome is lost.
LoseTerminal(c) ==
    /\ AuditMayFail
    /\ pc[c] \in {"running", "upstream"}
    /\ failedTerminal' = TRUE
    /\ Goto(c, "unwinding")
    /\ UNCHANGED <<rotating, rebound, closeCommitted, drainIncomplete,
                   cleanupIncomplete, stop, lock, active, server, session,
                   killSwitch, books, request, outcome>>

\* _leave_call, then observe_call in the same step, which the server calls after a result
\* and after an exception alike.  observe_call looks for the tool_call entry: a call with
\* a fault entry, or none, is neither counted nor evaluated.  Here the switch does not
\* trip.  A call cancelled between the two is counted by close_session instead, so it is
\* in the window all the same.
LeaveCall(c) ==
    /\ pc[c] \in {"leaving", "unwinding"}
    /\ active' = active \ {c}
    /\ window' = (window \/ (pc[c] = "leaving" /\ ~triggered))
    /\ Goto(c, "done")
    /\ UNCHANGED <<gate, stop, lock, server, session, blocked, triggered,
                   books, request, outcome>>

\* The counted call crosses the threshold: the identity is blocked, admission is
\* refused from this step on, and the task goes on to _seal_after_trip.
LeaveCallAndTrip(c) ==
    /\ KillSwitchEnabled /\ ~triggered
    /\ pc[c] = "leaving"
    /\ active' = active \ {c}
    /\ blocked' = blocked \cup {Agent}
    /\ triggered' = TRUE /\ window' = TRUE
    /\ \/ /\ Appended(chain)
          /\ halted' = Agent
          /\ op' = [op EXCEPT ![c] = "seal"]
          /\ target' = [target EXCEPT ![c] = sid]
          /\ Enqueue(c) /\ Goto(c, "lock")
       \/ /\ AuditMayFail   \* the break_glass_used append raised before mark_halted
          /\ Goto(c, "done")
          /\ UNCHANGED <<length, halted, op, target, ahead>>
    /\ UNCHANGED <<gate, shuttingDown, shutdownDrained, lock, server, sid,
                   chain, issued, unbound, books, subject, successor, outcome>>

-----------------------------------------------------------------------------
(***************************************************************************)
(* Endpoint requests: the checks a handler makes before it first waits     *)
(***************************************************************************)

\* A halted gateway whose session the trip already closed: close and trip answer 409.
ClosedByTrip == halted # NoAgent /\ sid \in closedChains

\* A request the handler does not refuse on arrival.  Refusals change nothing.
Accepts(o) ==
    CASE o = "close" -> ~ClosedByTrip
      [] o = "trip" -> KillSwitchEnabled /\ ~ClosedByTrip
      [] o = "reset" -> halted = NoAgent
      [] o = "unblock" -> TRUE
      [] o = "shutdown" -> \A t \in Tasks :    \* _shutdown_lock
                               op[t] = "shutdown" => pc[t] = "done"

\* The request names the session that is current when it arrives, then waits for
\* the transition lock.  shutdown refuses further admission before it waits.
Request(h) ==
    \E o \in Operations :
        /\ pc[h] = "idle" /\ Accepts(o)
        /\ op' = [op EXCEPT ![h] = o]
        /\ target' = [target EXCEPT ![h] = sid]
        /\ \E a \in IF o = "unblock" THEN {Agent, Other, Unknown} ELSE {NoAgent} :
               subject' = [subject EXCEPT ![h] = a]
        /\ shuttingDown' = (shuttingDown \/ o = "shutdown")
        /\ Enqueue(h) /\ Goto(h, "lock")
        /\ UNCHANGED <<gate, shutdownDrained, halted, lock, active, server, session,
                       killSwitch, books, successor, outcome>>

-----------------------------------------------------------------------------
(***************************************************************************)
(* The transition lock, the seal and the drain                             *)
(***************************************************************************)

\* Where an operation continues once admission is sealed and drained.
EntryPoint(o) ==
    CASE o \in {"close", "seal"} -> "commit"
      [] o = "trip" -> "trip"
      [] o = "unblock" -> "unblock"
      [] o \in {"reset", "shutdown"} -> "aclose"

\* Two mutants of the refusals below: requests that outlive a shutdown go on, and a
\* reset does not look for a committed close.
RefusedUnderLockIgnoringShutdown(t) ==
    /\ op[t] # "shutdown"
    /\ \/ op[t] \in NamingOps /\ target[t] # sid
       \/ op[t] = "reset" /\ (failedTerminal \/ closeCommitted
                               \/ (drainIncomplete /\ active # {}))

RefusedUnderLockIgnoringClose(t) ==
    /\ op[t] # "shutdown"
    /\ \/ shuttingDown
       \/ op[t] \in NamingOps /\ target[t] # sid
       \/ op[t] = "reset" /\ (failedTerminal \/ (drainIncomplete /\ active # {}))

\* The refusals between taking the lock and sealing: shutdown, a stale session id
\* and, for a reset, an outcome or a close that still needs recovery.
RefusedUnderLock(t) ==
    /\ op[t] # "shutdown"
    /\ \/ shuttingDown
       \/ op[t] \in NamingOps /\ target[t] # sid
       \/ op[t] = "reset" /\ (failedTerminal \/ closeCommitted
                               \/ (drainIncomplete /\ active # {}))

\* A refused reset has by then cleared a stale drain marker when no call is left.
RefuseTransition(t) ==
    /\ pc[t] = "lock" /\ lock = NoTask /\ ahead[t] = {}
    /\ RefusedUnderLock(t)
    /\ drainIncomplete' = (drainIncomplete /\ ~(op[t] = "reset" /\ active = {}
               /\ ~shuttingDown /\ target[t] = sid /\ ~failedTerminal))
    /\ Dequeue(t) /\ Goto(t, "done")
    /\ UNCHANGED <<rotating, rebound, closeCommitted, cleanupIncomplete,
                   failedTerminal, stop, lock, active, server, session, killSwitch,
                   books, op, target, subject, successor, outcome>>

\* A request is cancelled while it waits for the lock.
CancelWait(t) ==
    /\ pc[t] = "lock"
    /\ Dequeue(t) /\ Goto(t, "done")
    /\ UNCHANGED <<gate, stop, lock, active, server, session, killSwitch, books,
                   op, target, subject, successor, outcome>>

\* Mutant: an incomplete drain is taken for a committed close.
ResumeUndrainedClose(t) ==
    /\ pc[t] = "lock" /\ lock = NoTask /\ ahead[t] = {}
    /\ ~RefusedUnderLock(t)
    /\ op[t] \in RotationOps /\ (closeCommitted \/ drainIncomplete)
    /\ lock' = t
    /\ rotating' = TRUE /\ rebound' = FALSE
    /\ Dequeue(t) /\ Goto(t, EntryPoint(op[t]))
    /\ UNCHANGED <<closeCommitted, drainIncomplete, cleanupIncomplete,
                   failedTerminal, stop, active, server, session, killSwitch, books,
                   op, target, subject, successor, outcome>>

\* _begin_session_rotation of a committed close, which has already drained.
ResumeCommittedClose(t) ==
    /\ pc[t] = "lock" /\ lock = NoTask /\ ahead[t] = {}
    /\ ~RefusedUnderLock(t)
    /\ op[t] \in RotationOps /\ closeCommitted
    /\ lock' = t
    /\ rotating' = TRUE /\ rebound' = FALSE
    /\ Dequeue(t) /\ Goto(t, EntryPoint(op[t]))
    /\ UNCHANGED <<closeCommitted, drainIncomplete, cleanupIncomplete,
                   failedTerminal, stop, active, server, session, killSwitch, books,
                   op, target, subject, successor, outcome>>

\* _seal_and_drain, and the same two steps of shutdown: no call is admitted from here.
Seal(t) ==
    /\ pc[t] = "lock" /\ lock = NoTask /\ ahead[t] = {}
    /\ ~RefusedUnderLock(t)
    /\ op[t] \in RotationOps => ~closeCommitted
    /\ lock' = t
    /\ rotating' = TRUE
    /\ drainIncomplete' = (drainIncomplete /\ op[t] # "reset")
    /\ Dequeue(t) /\ Goto(t, "drain")
    /\ UNCHANGED <<rebound, closeCommitted, cleanupIncomplete, failedTerminal, stop,
                   active, server, session, killSwitch, books, op, target, subject,
                   successor, outcome>>

\* Mutant: the transition begins without _ensure_terminal_audit_complete.
DrainedUnchecked(t) ==
    /\ pc[t] \in Draining /\ active = {}
    /\ drainIncomplete' = FALSE
    /\ rebound' = (rebound /\ op[t] \notin RotationOps)
    /\ shutdownDrained' = (shutdownDrained \/ op[t] = "shutdown")
    /\ Goto(t, EntryPoint(op[t]))
    /\ UNCHANGED <<rotating, closeCommitted, cleanupIncomplete, failedTerminal,
                   shuttingDown, halted, lock, active, server, session, killSwitch,
                   books, request, outcome>>

\* _drain_calls succeeds, with every outcome recorded: the transition may begin.
Drained(t) ==
    /\ pc[t] \in Draining /\ active = {}
    /\ op[t] = "shutdown" \/ ~failedTerminal
    /\ drainIncomplete' = FALSE
    /\ rebound' = (rebound /\ op[t] \notin RotationOps)
    /\ shutdownDrained' = (shutdownDrained \/ op[t] = "shutdown")
    /\ Goto(t, EntryPoint(op[t]))
    /\ UNCHANGED <<rotating, closeCommitted, cleanupIncomplete, failedTerminal,
                   shuttingDown, halted, lock, active, server, session, killSwitch,
                   books, request, outcome>>

\* The calls drained but one lost its terminal entry: admission stays sealed.
DrainedWithLostTerminal(t) ==
    /\ pc[t] \in Draining /\ active = {}
    /\ op[t] # "shutdown" /\ failedTerminal
    /\ drainIncomplete' = FALSE
    /\ lock' = NoTask
    /\ Goto(t, "done")
    /\ UNCHANGED <<rotating, rebound, closeCommitted, cleanupIncomplete,
                   failedTerminal, stop, active, server, session, killSwitch, books,
                   request, outcome>>

\* The drain deadline: every admitted call is asked to cancel.  A call may fail at
\* any of its awaits in any case, so the request itself leaves no trace here.
DrainDeadline(t) ==
    /\ pc[t] = "drain" /\ active # {}
    /\ drainIncomplete' = TRUE
    /\ Goto(t, "grace")
    /\ UNCHANGED <<rotating, rebound, closeCommitted, cleanupIncomplete,
                   failedTerminal, stop, lock, active, server, session, killSwitch,
                   books, request, outcome>>

\* Mutant: the wait after the cancellations has no timeout of its own.
GraceNeverExpires(t) ==
    /\ pc[t] = "grace" /\ active = {}
    /\ lock' = NoTask
    /\ Goto(t, "done")
    /\ UNCHANGED <<gate, stop, active, server, session, killSwitch, books, request,
                   outcome>>

\* The grace also passes: SessionDrainIncomplete, with admission left sealed.
GraceExpires(t) ==
    /\ pc[t] = "grace" /\ active # {}
    /\ lock' = NoTask
    /\ Goto(t, "done")
    /\ UNCHANGED <<gate, stop, active, server, session, killSwitch, books, request,
                   outcome>>

\* Mutant: a cancelled drain keeps the seal.
CancelDrainKeepsSeal(t) ==
    /\ pc[t] \in Draining
    /\ lock' = NoTask
    /\ Goto(t, "done")
    /\ UNCHANGED <<gate, stop, active, server, session, killSwitch, books, request,
                   outcome>>

\* The handler is cancelled while it drains.  A seal that nothing else needs is lifted.
CancelDrain(t) ==
    /\ pc[t] \in Draining
    /\ rotating' = (op[t] = "shutdown" \/ drainIncomplete \/ cleanupIncomplete
                        \/ failedTerminal)
    /\ lock' = NoTask
    /\ Goto(t, "done")
    /\ UNCHANGED <<rebound, closeCommitted, drainIncomplete, cleanupIncomplete,
                   failedTerminal, stop, active, server, session, killSwitch, books,
                   request, outcome>>

\* The finally of session_rotation and exclude_session_transition: reopen admission
\* unless a failure still needs recovery.
ExitTransition(t) ==
    /\ pc[t] = "exit"
    /\ rotating' = (shuttingDown \/ drainIncomplete \/ cleanupIncomplete
                        \/ failedTerminal \/ (closeCommitted /\ ~rebound))
    /\ lock' = NoTask
    /\ Goto(t, "done")
    /\ UNCHANGED <<rebound, closeCommitted, drainIncomplete, cleanupIncomplete,
                   failedTerminal, stop, active, server, session, killSwitch, books,
                   request, outcome>>

-----------------------------------------------------------------------------
(***************************************************************************)
(* Closing a session: trip_identity, _commit_close, close_session          *)
(***************************************************************************)
Raise(t) == Goto(t, "exit")

\* trip_identity: the block is durable before the audit entry is written.
TripIdentity(t) ==
    /\ pc[t] = "trip"
    /\ blocked' = blocked \cup {Agent}
    /\ triggered' = TRUE
    /\ \/ Appended(chain) /\ Goto(t, "commit")
       \/ AuditMayFail /\ Raise(t) /\ UNCHANGED length
    /\ UNCHANGED <<gate, stop, lock, active, server, sid, chain, issued, unbound,
                   window, books, request, outcome>>

Signed(s) == \E cl \in claims : cl.sid = s

\* The terminal entries of chain c, to which a claim commits by the chain's tip and length.
TerminalsOn(c) == {k \in Calls : admittedTo[k] = c /\ terminal[k] # "none"}

\* _commit_close refuses to commit over another session's pending close.
RefuseSecondPending(t) ==
    /\ pc[t] = "commit"
    /\ pending # NoClose /\ pending.sid # target[t]
    /\ Raise(t)
    /\ UNCHANGED <<gate, stop, lock, active, server, session, killSwitch, books,
                   request, outcome>>

\* close_session runs to a signed claim.  The close-time kill switch count may trip,
\* which adds an entry after session_end and before the claim.
CloseSession(t) ==
    /\ pc[t] = "commit" /\ pending = NoClose
    /\ target[t] \notin closing
    /\ chain \notin unbound
    /\ closing' = closing \cup {target[t]}
    /\ closeCommitted' = TRUE
    /\ \E trips \in {FALSE, KillSwitchEnabled /\ ~triggered /\ window} :
           /\ triggered' = (triggered \/ trips)
           /\ blocked' = IF trips THEN blocked \cup {Agent} ELSE blocked
           /\ length' = [length EXCEPT ![chain] = @ + (IF trips THEN 2 ELSE 1)]
    /\ claims' = claims \cup {[sid |-> target[t], chain |-> chain,
                               length |-> length'[chain],
                               covers |-> TerminalsOn(chain)]}
    /\ closedChains' = closedChains \cup {target[t]}
    /\ Goto(t, "succeed")
    /\ UNCHANGED <<rotating, rebound, drainIncomplete, cleanupIncomplete,
                   failedTerminal, stop, lock, active, pending, storesClosed, sid,
                   chain, issued, unbound, window, request, outcome>>

\* close_session fails after it began: session_end cannot be appended, a hardware
\* claim would be unbound (TeeFault, after session_end), or the entry for a close-time
\* trip cannot be appended.  The session stays closing.
FailClose(t) ==
    /\ pc[t] = "commit" /\ pending = NoClose
    /\ target[t] \notin closing
    /\ \/ AuditMayFail /\ UNCHANGED <<length, blocked, triggered>>
       \/ chain \in unbound /\ Appended(chain) /\ UNCHANGED <<blocked, triggered>>
       \/ /\ AuditMayFail /\ chain \notin unbound
          /\ KillSwitchEnabled /\ ~triggered /\ window
          /\ blocked' = blocked \cup {Agent} /\ triggered' = TRUE
          /\ Appended(chain)
    /\ closing' = closing \cup {target[t]}
    /\ closeCommitted' = TRUE
    /\ Raise(t)
    /\ UNCHANGED <<rotating, rebound, drainIncomplete, cleanupIncomplete,
                   failedTerminal, stop, lock, active, server, sid, chain, issued,
                   unbound, window, claims, request, outcome>>

\* A close that began before: its stored claim is returned, or the retry is refused
\* because the earlier attempt never stored one.
RetryClose(t) ==
    /\ pc[t] = "commit" /\ pending = NoClose
    /\ target[t] \in closing
    /\ closeCommitted' = TRUE
    /\ \/ /\ Signed(target[t])
          /\ closedChains' = closedChains \cup {target[t]}
          /\ Goto(t, "succeed")
       \/ /\ ~Signed(target[t])
          /\ Raise(t)
          /\ UNCHANGED closedChains
    /\ UNCHANGED <<rotating, rebound, drainIncomplete, cleanupIncomplete,
                   failedTerminal, stop, lock, active, pending, storesClosed, session,
                   killSwitch, books, request, outcome>>

\* Mutant: the chain of a new session is named before its session_start opens it.
OpenSessionUnstarted(t) ==
    LET new == [sid |-> issued + 1, chain |-> Len(length) + 1] IN
    /\ issued' = issued + 1
    /\ unbound' \in IF AttestationMayFail THEN {unbound, unbound \cup {new.chain}}
                                          ELSE {unbound}
    /\ successor' = [successor EXCEPT ![t] = new]
    /\ UNCHANGED length

\* create_session: a new id and a new chain that holds its session_start entry.
OpenSession(t) ==
    LET new == [sid |-> issued + 1, chain |-> Len(length) + 1] IN
    /\ issued' = issued + 1
    /\ length' = Append(length, 1)
    /\ unbound' \in IF AttestationMayFail THEN {unbound, unbound \cup {new.chain}}
                                          ELSE {unbound}
    /\ successor' = [successor EXCEPT ![t] = new]

\* The label a gateway halted by this close will carry.
HaltLabel == IF Agent \in blocked THEN Agent ELSE Unknown

\* The signed session gets a successor, or none when its identity is blocked.
ChooseSuccessor(t) ==
    /\ pc[t] = "succeed"
    /\ \/ /\ Agent \in blocked
          /\ pending' = [sid |-> target[t], next |-> NoSuccessor]
          /\ subject' = [subject EXCEPT ![t] = HaltLabel]
          /\ Goto(t, "aclose")
          /\ UNCHANGED <<issued, length, unbound, successor>>
       \/ /\ Agent \notin blocked
          /\ OpenSession(t)
          /\ pending' = [sid |-> target[t], next |-> successor'[t]]
          /\ Goto(t, "aclose")
          /\ UNCHANGED subject
       \/ /\ Agent \notin blocked /\ AuditMayFail   \* session_start not appended
          /\ Raise(t)
          /\ UNCHANGED <<issued, length, unbound, successor, pending, subject>>
    /\ UNCHANGED <<gate, stop, lock, active, closedChains, storesClosed, sid, chain,
                   killSwitch, books, op, target, ahead, outcome>>

\* A retry of a close whose cleanup failed: the preserved successor is used again.
ReusePending(t) ==
    /\ pc[t] = "commit"
    /\ pending # NoClose /\ pending.sid = target[t]
    /\ successor' = [successor EXCEPT ![t] = pending.next]
    /\ subject' = [subject EXCEPT ![t] = HaltLabel]
    /\ Goto(t, "aclose")
    /\ UNCHANGED <<gate, stop, lock, active, server, session, killSwitch, books, op,
                   target, ahead, outcome>>

-----------------------------------------------------------------------------
(***************************************************************************)
(* Releasing upstream resources, and what follows: halt_session,           *)
(* rebind_session, resume_session, apply_reset, and the end of shutdown.   *)
(* halt_session and rebind_session also refuse a session with a lost       *)
(* terminal or one already rebound: see DrainedBeforeTransition.           *)
(***************************************************************************)

\* aclose fails or is cancelled: the resources are kept for a retry.
FailCleanup(t) ==
    /\ CleanupMayFail
    /\ pc[t] = "aclose" /\ op[t] # "shutdown"
    /\ cleanupIncomplete' = TRUE
    /\ Raise(t)
    /\ UNCHANGED <<rotating, rebound, closeCommitted, drainIncomplete,
                   failedTerminal, stop, lock, active, server, session, killSwitch,
                   books, request, outcome>>

\* The closed session ends with no successor; waiting calls will be refused.
HaltSession(t) ==
    /\ pc[t] = "aclose"
    /\ op[t] \in CloseOps /\ successor[t] = NoSuccessor
    /\ cleanupIncomplete' = FALSE
    /\ halted' = subject[t]
    /\ rebound' = TRUE /\ closeCommitted' = FALSE
    /\ pending' = NoClose
    /\ Goto(t, "exit")
    /\ UNCHANGED <<rotating, drainIncomplete, failedTerminal, shuttingDown,
                   shutdownDrained, lock, active, closedChains, storesClosed, session,
                   killSwitch, books, request, outcome>>

\* The proxy and then the server adopt the successor; nothing else runs in between.
Adopt(t) ==
    /\ sid' = successor[t].sid
    /\ chain' = successor[t].chain
    /\ triggered' = FALSE
    /\ rebound' = TRUE /\ closeCommitted' = FALSE
    /\ cleanupIncomplete' = FALSE

\* Mutant: the pending close is not cleared once its successor is adopted.
RebindKeepingPending(t) ==
    /\ pc[t] = "aclose"
    /\ op[t] \in CloseOps /\ successor[t] # NoSuccessor
    /\ Adopt(t)
    /\ Goto(t, "exit")
    /\ UNCHANGED <<rotating, drainIncomplete, failedTerminal, stop, lock, active,
                   server, issued, length, unbound, blocked, window, books, request,
                   outcome>>

\* Rebind to the successor that _commit_close opened; its close is no longer pending.
RebindSession(t) ==
    /\ pc[t] = "aclose"
    /\ op[t] \in CloseOps /\ successor[t] # NoSuccessor
    /\ Adopt(t)
    /\ pending' = NoClose
    /\ Goto(t, "exit")
    /\ UNCHANGED <<rotating, drainIncomplete, failedTerminal, stop, lock, active,
                   closedChains, storesClosed, issued, length, unbound, blocked,
                   window, books, request, outcome>>

\* An unblock resumes on a fresh session and records itself there.
ResumeSession(t) ==
    /\ pc[t] = "aclose" /\ op[t] = "unblock"
    /\ Adopt(t)
    /\ halted' = NoAgent
    /\ \/ Appended(chain')
       \/ AuditMayFail /\ UNCHANGED length
    /\ Goto(t, "exit")
    /\ UNCHANGED <<rotating, drainIncomplete, failedTerminal, shuttingDown,
                   shutdownDrained, lock, active, server, issued, unbound, blocked,
                   window, books, request, outcome>>

\* A reset released the old session's resources; apply_reset may now wait for the store.
ReleaseForReset(t) ==
    /\ pc[t] = "aclose" /\ op[t] = "reset"
    /\ cleanupIncomplete' = FALSE
    /\ Goto(t, "apply")
    /\ UNCHANGED <<rotating, rebound, closeCommitted, drainIncomplete,
                   failedTerminal, stop, lock, active, server, session, killSwitch,
                   books, request, outcome>>

\* apply_reset gives the session a new id on the same chain and the same SessionState;
\* the session_reset entry follows.  The store may fail before the id changes; when it
\* fails to write or to commit, or the entry cannot be appended, the id has changed.
ApplyReset(t) ==
    /\ pc[t] = "apply"
    /\ \/ /\ issued' = issued + 1 /\ sid' = issued + 1
          /\ Appended(chain) \/ UNCHANGED length
       \/ UNCHANGED <<issued, sid, length>>
    /\ Goto(t, "exit")
    /\ UNCHANGED <<gate, stop, lock, active, server, chain, unbound, killSwitch, books,
                   request, outcome>>

\* shutdown drained: whatever cleanup did, the durable stores are closed.
FinishShutdown(t) ==
    /\ pc[t] = "aclose" /\ op[t] = "shutdown"
    /\ cleanupIncomplete' \in {FALSE, CleanupMayFail}
    /\ storesClosed' = TRUE
    /\ lock' = NoTask
    /\ Goto(t, "done")
    /\ UNCHANGED <<rotating, rebound, closeCommitted, drainIncomplete,
                   failedTerminal, stop, active, pending, closedChains, session,
                   killSwitch, books, request, outcome>>

-----------------------------------------------------------------------------
(***************************************************************************)
(* _kill_switch_unblock, once the transition is drained                    *)
(***************************************************************************)

\* An identity that is not blocked, on a gateway it does not hold stopped: 404.
RefuseUnblock(t) ==
    /\ pc[t] = "unblock"
    /\ subject[t] \notin blocked /\ halted # subject[t]
    /\ window' = (window /\ subject[t] # Agent)
    /\ Goto(t, "exit")
    /\ UNCHANGED <<gate, stop, lock, active, server, session, blocked, triggered,
                   books, request, outcome>>

Lifted(t) == blocked \ {subject[t]}
Accepted(t) == subject[t] \in blocked \/ halted = subject[t]
\* Mutant: any accepted unblock resumes, whoever is still blocked.
ResumesAnyway(t) == halted # NoAgent
Resumes(t) == halted # NoAgent /\ Agent \notin Lifted(t)

\* The block is lifted and the gateway it stopped resumes on a fresh session, because
\* the trip closed the old one.
UnblockAndReopen(t) ==
    /\ pc[t] = "unblock"
    /\ Accepted(t) /\ Resumes(t) /\ sid \in closedChains
    /\ blocked' = Lifted(t)
    /\ window' = (window /\ subject[t] # Agent)
    /\ \/ OpenSession(t) /\ Goto(t, "aclose")
       \/ AuditMayFail /\ Raise(t) /\ UNCHANGED <<issued, length, unbound, successor>>
    /\ UNCHANGED <<gate, stop, lock, active, server, sid, chain, triggered, books,
                   op, target, subject, ahead, outcome>>

\* The block is lifted with no fresh session: the session is still open (lift_halt),
\* or the gateway was not stopped, or another block keeps it stopped.
UnblockInPlace(t) ==
    /\ pc[t] = "unblock"
    /\ Accepted(t) /\ (Resumes(t) => sid \notin closedChains)
    /\ blocked' = Lifted(t)
    /\ window' = (window /\ subject[t] # Agent)
    /\ halted' = IF Resumes(t) THEN NoAgent ELSE halted
    /\ \/ Appended(chain)
       \/ AuditMayFail /\ UNCHANGED length
    /\ Goto(t, "exit")
    /\ UNCHANGED <<gate, shuttingDown, shutdownDrained, lock, active, server, sid,
                   chain, issued, unbound, triggered, books, request, outcome>>

-----------------------------------------------------------------------------
(***************************************************************************)
(* The specification                                                       *)
(***************************************************************************)

\* Steps of an admitted call that depend on policy, upstream and the audit store.
ServeCall(c) ==
    \/ RecordDecision(c) \/ RefuseUnrecorded(c) \/ Forward(c)
    \/ FinalizeUnexpectedCallFailure(c) \/ LoseTerminal(c)

WaitingCall(c) == WakeCall(c) \/ GiveUpWaiting(c)
LeavingCall(c) == LeaveCall(c) \/ LeaveCallAndTrip(c)

CloseStep(t) ==
    \/ TripIdentity(t) \/ RefuseSecondPending(t) \/ CloseSession(t) \/ FailClose(t)
    \/ RetryClose(t) \/ ChooseSuccessor(t) \/ ReusePending(t)
    \/ HaltSession(t) \/ RebindSession(t)

UnblockStep(t) ==
    \/ RefuseUnblock(t) \/ UnblockAndReopen(t) \/ UnblockInPlace(t) \/ ResumeSession(t)

\* What the event loop and the drain timers do for a request that was accepted.
Progress(t) ==
    \/ RefuseTransition(t) \/ ResumeCommittedClose(t) \/ Seal(t)
    \/ Drained(t) \/ DrainedWithLostTerminal(t) \/ DrainDeadline(t) \/ GraceExpires(t)
    \/ CloseStep(t) \/ UnblockStep(t)
    \/ ReleaseForReset(t) \/ ApplyReset(t)
    \/ FailCleanup(t) \/ FinishShutdown(t) \/ ExitTransition(t)

\* Every request made so far was answered, and none has to be made.
Quiescent ==
    /\ \A t \in Tasks : pc[t] \in {"idle", "done"}
    /\ UNCHANGED vars

Next ==
    \/ \E c \in Calls :
          EnterCall(c) \/ WaitingCall(c) \/ ServeCall(c) \/ LeavingCall(c)
    \/ \E h \in Handlers : Request(h)
    \/ \E t \in Tasks : Progress(t) \/ CancelWait(t) \/ CancelDrain(t)
    \/ Quiescent

Spec == Init /\ [][Next]_vars

\* The event loop keeps running ready tasks and firing timers.  Nothing says that a
\* new request arrives, that an upstream answers, or that anything is cancelled.
Fairness ==
    /\ \A h \in Handlers : WF_vars(Progress(h))
    /\ \A c \in Calls : WF_vars(Progress(c) \/ WaitingCall(c) \/ LeavingCall(c))

LiveSpec == Spec /\ Fairness

-----------------------------------------------------------------------------
(***************************************************************************)
(* Properties                                                              *)
(***************************************************************************)

\* A task that may change the session (sign, rotate, halt, resume, reset or close the
\* stores) holds the transition lock with admission sealed and no admitted call left,
\* and every outcome is on the chain unless the gateway is shutting down
\* (_seal_and_drain, including the drain a committed close skips).  Where the session
\* is about to be rebound or halted it has not been already.
DrainedBeforeTransition ==
    \A t \in Tasks : InSection(t) =>
        /\ lock = t
        /\ rotating /\ active = {}
        /\ op[t] # "shutdown" => ~failedTerminal
        /\ op[t] \in RotationOps /\ pc[t] # "exit" => ~rebound

\* Whenever a claim is signed, it covers the terminal entry of every call whose
\* transport may have started on its chain: no remote effect is missing from the chain
\* that the signature commits to (close_session, _finalize_unexpected_call_failure,
\* _ensure_terminal_audit_complete).
SigningCoversEffects ==
    \A cl \in claims' \ claims : \A c \in effects :
        admittedTo[c] = cl.chain => c \in cl.covers

EffectsAccounted == [][SigningCoversEffects]_vars

\* After MCPServer.shutdown has closed the durable stores, no task appends to an audit
\* chain or changes the block store, however many requests were still waiting.
StoresQuiet == storesClosed => UNCHANGED <<length, blocked>>

NoWriteAfterStoresClosed == [][StoresQuiet]_vars

\* Admission is never left sealed by nobody: when no transition runs, the gateway is
\* shutting down or one of the recovery markers says what an operator must retry
\* (the finally blocks of session_rotation, exclude_session_transition and
\* _seal_and_drain).
SealHasCause ==
    rotating /\ lock = NoTask =>
        \/ shuttingDown \/ drainIncomplete \/ cleanupIncomplete
        \/ failedTerminal \/ closeCommitted

\* "The caller must keep that session closed to further mutations" (close_session):
\* the chain a claim was signed over never grows afterwards.
ClosedChainFrozen ==
    \A cl \in claims : length[cl.chain] = cl.length

\* "From the moment the trip starts no new call is admitted" (_kill_switch_trip): while
\* the bound identity is blocked, admission is sealed or refused.
BlockStopsAdmission ==
    Agent \in blocked => rotating \/ halted # NoAgent

\* "At most one close can be pending: admission stays sealed until it resolves"
\* (MCPServer._pending_close): a pending close is a close of the current session.
PendingNamesSession ==
    pending # NoClose => pending.sid = sid

\* Every accepted close, reset, trip, unblock or shutdown, and every close a tripping
\* call starts, is answered in the end, even when an upstream never answers and the
\* call it holds ignores cancellation: a request is made once, so from some point on
\* none waits for _transition_lock or owns it.
HandlersFinish ==
    <>[](\A t \in Tasks : pc[t] # "lock" /\ ~Owns(t))

=============================================================================
