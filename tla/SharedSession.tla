--------------------------- MODULE SharedSession ---------------------------
(***************************************************************************)
(* The accumulated session sensitivity when it lives in a SQLite file that *)
(* several gateway processes share: session/state.py (SessionState) over   *)
(* session/store.py (SqliteSessionStateStore).                             *)
(*                                                                         *)
(* A process holds a SessionState in memory and runs tool calls and resets *)
(* as asyncio tasks.  Every access to the store is an exclusive section:   *)
(* BEGIN IMMEDIATE, COMMIT and ROLLBACK are jobs of the process's thread   *)
(* pool, the body runs on the event loop between them and has no await.    *)
(* An action is the code between two awaits of a task, or a job.           *)
(*                                                                         *)
(* A sensitivity label is its rank; a session id is an element of Sessions *)
(* and uuid4() picks one never used.                                       *)
(***************************************************************************)
EXTENDS Naturals, FiniteSets, Sequences

CONSTANTS
    Instances,      \* gateway processes that share the database file
    Tasks,          \* asyncio tasks of all processes
    Home,           \* Home[t]: the process that runs t
    Sessions,       \* session identifiers uuid4() can return
    First,          \* the session the processes start with
    MaxLevel,       \* rank of the highest label; "public" has rank 0
    MaxResets,      \* bound on resets
    MaxFaults,      \* bound on cancellations, failing writes and crashes
    Workers,        \* threads of a process's default executor
    NoState, NoTask

ASSUME SharedAssumption ==
    /\ Home \in [Tasks -> Instances]
    /\ First \in Sessions
    /\ MaxLevel \in Nat /\ MaxResets \in Nat /\ MaxFaults \in Nat
    /\ Workers \in Nat \ {0}
    /\ NoTask \notin Tasks
    /\ Cardinality(Sessions) > MaxResets + MaxFaults

VARIABLES
    db,         \* committed tables: [rows |-> session_state, closed |-> closed_sessions]
    work,       \* the tables as the open transaction sees them
    holder,     \* the task whose transaction is open, or NoTask
    mem,        \* mem[i]: the SessionState of process i
    up,         \* up[i]: process i runs
    pc,         \* where each task is
    op,         \* hydrate, inspect or reset
    job,        \* the SQLite job the task waits for: begin, commit or rollback
    cancelled,  \* the task was cancelled while it waited for a job
    captured,   \* _CallFinalizationState.reset_count of the task's call
    verdict,    \* what apply_inspection returned for the task's call
    stale,      \* ghost: the call's session was closed by a committed reset since the capture
    pool,       \* pool[i]: tasks whose job process i's thread pool has not finished
    used,       \* session ids handed out so far
    resets, faults

storeVars == <<db, work, holder>>
taskVars == <<pc, op, job, cancelled, captured, verdict, stale>>
countVars == <<used, resets, faults>>
sharedVars == <<storeVars, mem, up, taskVars, pool, countVars>>

Levels == 0..MaxLevel
\* uuid4(): ids are only compared, so any unused one stands for all of them.
FreshId == CHOOSE s \in Sessions : s \notin used
MaxOf(a, b) == IF b > a THEN b ELSE a
StateRow(max, count) == [max |-> max, count |-> count]
RowType == [max : Levels, count : Nat] \cup {NoState}
TablesType == [rows : [Sessions -> RowType], closed : [Sessions -> RowType]]

\* The two tables of a new database, and a SessionState as it is constructed.
EmptyTables == [rows |-> [s \in Sessions |-> NoState], closed |-> [s \in Sessions |-> NoState]]
NewState(s) == [id |-> s, max |-> 0, count |-> 0]

SharedInit ==
    /\ db = EmptyTables
    /\ work = db
    /\ holder = NoTask
    /\ mem = [i \in Instances |-> NewState(First)]
    /\ up = [i \in Instances |-> TRUE]
    /\ pc = [t \in Tasks |-> "idle"]
    /\ op = [t \in Tasks |-> "hydrate"]
    /\ job = [t \in Tasks |-> "begin"]
    /\ cancelled = [t \in Tasks |-> FALSE]
    /\ captured = [t \in Tasks |-> 0]
    /\ verdict = [t \in Tasks |-> "none"]
    /\ stale = [t \in Tasks |-> FALSE]
    /\ pool = [i \in Instances |-> <<>>]
    /\ used = {First}
    /\ resets = 0
    /\ faults = 0

-----------------------------------------------------------------------------
(* The thread pool: run_in_executor queues a job and threads take jobs in  *)
(* that order, so the unfinished jobs that run are the first Workers ones. *)

Submit(t, j) ==
    /\ pc' = [pc EXCEPT ![t] = "waiting"]
    /\ job' = [job EXCEPT ![t] = j]
    /\ pool' = [pool EXCEPT ![Home[t]] = Append(@, t)]

Running(t, j) ==
    /\ job[t] = j
    /\ \E k \in 1..Len(pool[Home[t]]) : k <= Workers /\ pool[Home[t]][k] = t

JobDone(t) == pool' = [pool EXCEPT ![Home[t]] = SelectSeq(@, LAMBDA u : u # t)]

\* One more of the bounded number of faults: cancellations, failing writes, crashes.
Fault == faults < MaxFaults /\ faults' = faults + 1

\* An operation raised or returned for good: the call or the reset request is over and
\* what the task knew is gone.
Ends(t) ==
    /\ pc' = [pc EXCEPT ![t] = "idle"]
    /\ op' = [op EXCEPT ![t] = "hydrate"]
    /\ job' = [job EXCEPT ![t] = "begin"]
    /\ cancelled' = [cancelled EXCEPT ![t] = FALSE]
    /\ captured' = [captured EXCEPT ![t] = 0]
    /\ verdict' = [verdict EXCEPT ![t] = "none"]
    /\ stale' = [stale EXCEPT ![t] = FALSE]

-----------------------------------------------------------------------------
(* SqliteSessionStateStore.exclusive.                                      *)

\* _begin_immediate: the thread keeps waiting for _thread_lock and the RESERVED lock.
Begin(t) ==
    /\ Running(t, "begin")
    /\ holder = NoTask
    /\ holder' = t
    /\ work' = db
    /\ JobDone(t)
    /\ pc' = [pc EXCEPT ![t] = "begun"]
    /\ UNCHANGED <<db, mem, up, op, job, cancelled, captured, verdict, stale, countVars>>

\* busy_timeout expires while another process holds the RESERVED lock.
BeginFails(t) ==
    /\ Running(t, "begin")
    /\ holder # NoTask /\ Home[holder] # Home[t]
    /\ JobDone(t)
    /\ Ends(t)
    /\ UNCHANGED <<storeVars, mem, up, countVars>>

\* Calls of session s whose generation was captured and that have no verdict yet.
InFlight(s) ==
    {t \in Tasks : /\ pc[t] = "upstream" \/ (op[t] = "inspect" /\ pc[t] # "idle")
                   /\ verdict[t] = "none"
                   /\ mem[Home[t]].id = s}

\* _commit.  The ghost marks the calls whose session this commit closed.
Commit(t) ==
    /\ Running(t, "commit")
    /\ db' = work
    /\ holder' = NoTask
    /\ JobDone(t)
    /\ pc' = [pc EXCEPT ![t] = "committed"]
    /\ stale' = [u \in Tasks |->
            \/ stale[u]
            \/ \E s \in Sessions :
                 db.closed[s] = NoState /\ work.closed[s] # NoState /\ u \in InFlight(s)]
    /\ UNCHANGED <<work, mem, up, op, job, cancelled, captured, verdict, countVars>>

\* The transaction is over, the tables are as given, and the operation raises.
EndsWith(t, tables) ==
    /\ db' = tables
    /\ work' = tables
    /\ holder' = NoTask
    /\ JobDone(t)
    /\ Ends(t)
    /\ UNCHANGED <<mem, up, used, resets>>

\* COMMIT fails (disk full, I/O error) and SQLite rolls the transaction back.
CommitFails(t) == Running(t, "commit") /\ Fault /\ EndsWith(t, db)

\* Defect: a body that raised commits what it had written.
RollbackCommits(t) == Running(t, "rollback") /\ UNCHANGED faults /\ EndsWith(t, work)

\* _rollback, after a body that raised or a cancelled acquisition; then the exception propagates.
Rollback(t) == Running(t, "rollback") /\ UNCHANGED faults /\ EndsWith(t, db)

\* _finish_sqlite_operation retains a cancellation that arrives while the job runs.
Cancel(t) ==
    /\ pc[t] \in {"waiting", "begun", "committed"}
    /\ ~cancelled[t]
    /\ Fault
    /\ cancelled' = [cancelled EXCEPT ![t] = TRUE]
    /\ UNCHANGED <<storeVars, mem, up, pc, op, job, captured, verdict, stale, pool, used, resets>>

\* Defect: a cancelled acquisition is left to its worker and never rolled back.
CancelledBeginLeaks(t) ==
    /\ pc[t] = "begun" /\ cancelled[t]
    /\ Ends(t)
    /\ UNCHANGED <<storeVars, mem, up, pool, countVars>>

\* The acquisition was cancelled: the body never runs, the transaction is rolled back.
CancelledBegin(t) ==
    /\ pc[t] = "begun" /\ cancelled[t]
    /\ Submit(t, "rollback")
    /\ UNCHANGED <<storeVars, mem, up, op, cancelled, captured, verdict, stale, countVars>>

-----------------------------------------------------------------------------
(* SessionState: the bodies of the exclusive sections.                     *)

\* _adopt: only ever raises; no row leaves memory alone.
Adopted(m, row) ==
    IF row = NoState THEN m
    ELSE [m EXCEPT !.max = MaxOf(@, row.max), !.count = MaxOf(@, row.count)]

\* _stored
Stored(m) == StateRow(m.max, m.count)

InBody(t, o) == pc[t] = "begun" /\ op[t] = o /\ ~cancelled[t]

\* hydrate: adopt the stored row, or store the own value where there is none.
Hydrate(t) ==
    LET m == mem[Home[t]]
        row == work.rows[m.id]
    IN  /\ InBody(t, "hydrate")
        /\ mem' = [mem EXCEPT ![Home[t]] = Adopted(m, row)]
        /\ work' = IF row = NoState THEN [work EXCEPT !.rows[m.id] = Stored(m)] ELSE work
        /\ Submit(t, "commit")
        /\ UNCHANGED <<db, holder, up, op, cancelled, captured, verdict, stale, countVars>>

\* update_from_inspection on state m: drop a response of another generation, else fold
\* the tag in and save.
Fold(t, m) ==
    LET applied == captured[t] = m.count
    IN  /\ InBody(t, "inspect")
        /\ \E tag \in Levels :
             LET n == IF applied THEN [m EXCEPT !.max = MaxOf(@, tag)] ELSE m
             IN  /\ mem' = [mem EXCEPT ![Home[t]] = n]
                 /\ work' = IF applied THEN [work EXCEPT !.rows[n.id] = Stored(n)] ELSE work
        /\ verdict' = [verdict EXCEPT ![t] = IF applied THEN "applied" ELSE "dropped"]
        /\ Submit(t, "commit")
        /\ UNCHANGED <<db, holder, up, op, cancelled, captured, stale, countVars>>

\* Defect: the response is folded into the process's own copy, without reading the row back.
ApplyWithoutAdopt(t) == Fold(t, mem[Home[t]])

\* What the process knows after load and _adopt.
Reread(t) == Adopted(mem[Home[t]], work.rows[mem[Home[t]].id])

\* apply_inspection
ApplyInspection(t) == Fold(t, Reread(t))

\* Defect: the closed session's row keeps its generation.
ClosedRowUnchanged(m) == StateRow(m.max, m.count)

\* The closed session's row: the value it reached, the generation of its successor.
ClosedRow(m) == StateRow(m.max, m.count + 1)

\* What apply_reset leaves in the transaction after its first n writes: the closed
\* record, the old row's new generation, the successor's row.
ResetWrites(tables, m, new, n) ==
    LET one == [tables EXCEPT !.closed[m.id] = StateRow(m.max, m.count)]
        two == [one EXCEPT !.rows[m.id] = ClosedRow(m)]
    IN  CASE n = 0 -> tables
          [] n = 1 -> one
          [] n = 2 -> two
          [] n = 3 -> [two EXCEPT !.rows[new] = StateRow(0, m.count + 1)]

\* apply_reset: adopt, snapshot_for_close, reset (which already changes memory), three
\* writes.  A write that raises ends the body and the transaction is rolled back.
ApplyReset(t) ==
    LET m == Reread(t)
    IN  /\ InBody(t, "reset")
        /\ mem' = [mem EXCEPT ![Home[t]] = [id |-> FreshId, max |-> 0, count |-> m.count + 1]]
        /\ used' = used \cup {FreshId}
        /\ \E n \in 0..3 :
             /\ work' = ResetWrites(work, m, FreshId, n)
             /\ IF n = 3 THEN Submit(t, "commit") /\ UNCHANGED faults
                         ELSE Submit(t, "rollback") /\ Fault
        /\ UNCHANGED <<db, holder, up, op, cancelled, captured, verdict, stale, resets>>

\* The save of hydrate or apply_inspection raises; memory keeps what it adopted and folded.
SaveFails(t) ==
    LET m == Reread(t)
    IN  /\ pc[t] = "begun" /\ ~cancelled[t]
        /\ \/ op[t] = "hydrate" /\ work.rows[m.id] = NoState /\ UNCHANGED mem
           \/ /\ op[t] = "inspect" /\ captured[t] = m.count
              /\ \E tag \in Levels :
                   mem' = [mem EXCEPT ![Home[t]] = [m EXCEPT !.max = MaxOf(@, tag)]]
        /\ Fault
        /\ Submit(t, "rollback")
        /\ UNCHANGED <<storeVars, up, op, cancelled, captured, verdict, stale, used, resets>>

-----------------------------------------------------------------------------
(* The callers: MCPProxy.call_tool and the reset endpoint.                 *)

Resetting(i) == \E t \in Tasks : Home[t] = i /\ op[t] = "reset" /\ pc[t] # "idle"

\* call_tool enters and hydrates.
StartCall(t) ==
    /\ pc[t] = "idle" /\ up[Home[t]]
    /\ ~Resetting(Home[t])
    /\ Submit(t, "begin")
    /\ UNCHANGED <<storeVars, mem, up, op, cancelled, captured, verdict, stale, countVars>>

\* _session_reset: exclude_session_transition has drained this process's calls.
StartReset(t) ==
    /\ up[Home[t]]
    /\ \A u \in Tasks : Home[u] = Home[t] => pc[u] = "idle"
    /\ resets < MaxResets
    /\ resets' = resets + 1
    /\ op' = [op EXCEPT ![t] = "reset"]
    /\ Submit(t, "begin")
    /\ UNCHANGED <<storeVars, mem, up, cancelled, captured, verdict, stale, used, faults>>

\* The task resumes after its COMMIT: a retained cancellation is raised now, hydrate
\* returns and the call captures the generation, any other section ends the operation.
Resume(t) ==
    /\ pc[t] = "committed"
    /\ IF op[t] = "hydrate" /\ ~cancelled[t]
       THEN /\ captured' = [captured EXCEPT ![t] = mem[Home[t]].count]
            /\ pc' = [pc EXCEPT ![t] = "upstream"]
            /\ UNCHANGED <<op, job, cancelled, verdict, stale>>
       ELSE Ends(t)
    /\ UNCHANGED <<storeVars, mem, up, pool, countVars>>

\* The upstream response reaches apply_inspection.
Respond(t) ==
    /\ pc[t] = "upstream"
    /\ op' = [op EXCEPT ![t] = "inspect"]
    /\ Submit(t, "begin")
    /\ UNCHANGED <<storeVars, mem, up, cancelled, captured, verdict, stale, countVars>>

\* The call is denied, fails or is cancelled before there is a response to inspect.
Abandon(t) ==
    /\ pc[t] = "upstream"
    /\ Ends(t)
    /\ UNCHANGED <<storeVars, mem, up, pool, countVars>>

-----------------------------------------------------------------------------
\* f with the value of every task of process i forgotten.
Cleared(i, f, v) == [t \in Tasks |-> IF Home[t] = i THEN v ELSE f[t]]

\* The process dies: its connection closes and SQLite drops its open transaction.
Crash(i) ==
    /\ up[i]
    /\ Fault
    /\ up' = [up EXCEPT ![i] = FALSE]
    /\ holder' = IF holder # NoTask /\ Home[holder] = i THEN NoTask ELSE holder
    /\ work' = IF holder # NoTask /\ Home[holder] = i THEN db ELSE work
    /\ pc' = Cleared(i, pc, "idle")
    /\ op' = Cleared(i, op, "hydrate")
    /\ job' = Cleared(i, job, "begin")
    /\ cancelled' = Cleared(i, cancelled, FALSE)
    /\ captured' = Cleared(i, captured, 0)
    /\ verdict' = Cleared(i, verdict, "none")
    /\ stale' = Cleared(i, stale, FALSE)
    /\ pool' = [pool EXCEPT ![i] = <<>>]
    /\ UNCHANGED <<db, mem, used, resets>>

\* A new process serves a stored session again, or one of its own.
Restart(i) ==
    /\ ~up[i]
    /\ up' = [up EXCEPT ![i] = TRUE]
    /\ \E s \in {r \in used : db.rows[r] # NoState} \cup {FreshId} :
         /\ mem' = [mem EXCEPT ![i] = NewState(s)]
         /\ used' = used \cup {s}
    /\ UNCHANGED <<storeVars, taskVars, pool, resets, faults>>

Job(t) == Begin(t) \/ BeginFails(t) \/ Commit(t) \/ CommitFails(t) \/ Rollback(t)

RunBody(t) ==
    CancelledBegin(t) \/ Hydrate(t) \/ ApplyInspection(t) \/ ApplyReset(t) \/ SaveFails(t)

SharedNext ==
    \/ \E t \in Tasks :
         Job(t) \/ RunBody(t) \/ Resume(t) \/ StartCall(t) \/ StartReset(t)
         \/ Respond(t) \/ Abandon(t) \/ Cancel(t)
    \/ \E i \in Instances : Crash(i) \/ Restart(i)

\* The pool runs its jobs and the event loop resumes its tasks; nothing else is promised:
\* not that upstreams answer, that requests arrive, or that a waiter gets the lock.
SharedFairness ==
    \A t \in Tasks : WF_sharedVars(Commit(t) \/ CommitFails(t) \/ Rollback(t) \/ RunBody(t))

SharedSpec == SharedInit /\ [][SharedNext]_sharedVars /\ SharedFairness

-----------------------------------------------------------------------------
\* The type of the shared tables, the sessions in memory, the tasks and the pools.
SharedTypeOK ==
    /\ db \in TablesType
    /\ work \in TablesType
    /\ holder \in Tasks \cup {NoTask}
    /\ mem \in [Instances -> [id : Sessions, max : Levels, count : Nat]]
    /\ up \in [Instances -> BOOLEAN]
    /\ pc \in [Tasks -> {"idle", "waiting", "begun", "committed", "upstream"}]
    /\ op \in [Tasks -> {"hydrate", "inspect", "reset"}]
    /\ job \in [Tasks -> {"begin", "commit", "rollback"}]
    /\ captured \in [Tasks -> Nat]
    /\ pool \in [Instances -> Seq(Tasks)]

\* The stored ratchet: whatever processes interleave, cancel, fail, crash and restart, the
\* committed level and generation of a session never fall and its row never disappears
\* (apply_inspection's "greater-of comparison is made against the value every instance shares").
StoredRatchet ==
    [][\A s \in Sessions : db.rows[s] # NoState =>
          /\ db'.rows[s] # NoState
          /\ db'.rows[s].max >= db.rows[s].max
          /\ db'.rows[s].count >= db.rows[s].count]_sharedVars

\* A response whose session was closed by a reset committed on any process after the call
\* captured its generation is dropped: it raises neither the closed session nor a successor.
NoStaleFold == \A t \in Tasks : stale[t] => verdict[t] # "applied"

\* A reset is all or nothing on disk: a closed record, the advanced generation of the closed
\* row and a successor row of that generation are committed together, through failing writes,
\* failing commits, cancellation and crashes (apply_reset inside exclusive).
ResetAtomic ==
    \A s \in Sessions : db.closed[s] # NoState =>
        /\ db.rows[s] # NoState
        /\ db.rows[s].count > db.closed[s].count
        /\ db.rows[s].max >= db.closed[s].max
        /\ \E n \in Sessions \ {s} : db.rows[n] # NoState /\ db.rows[n].count > db.closed[s].count

\* An open transaction always ends, although the task that owns it may be cancelled at any
\* time (_finish_sqlite_operation: "finalization can release its lock").
TransactionEnds == []<>(holder = NoTask)
=============================================================================
