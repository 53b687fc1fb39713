-------------------------- MODULE ExecutionRegistry --------------------------
(***************************************************************************)
(* execution/registry.py: the durable record that keeps one execution id   *)
(* from invoking the upstream twice.  Several gateway processes may share  *)
(* the file; each method is one BEGIN IMMEDIATE transaction.  The registry *)
(* is exported and not yet called by the proxy, so its caller is modelled  *)
(* from the contract its methods document: admit, invoke when ADMITTED,    *)
(* finalize (again if that raised), recover() once at every start.         *)
(***************************************************************************)
EXTENDS Integers, FiniteSets

CONSTANTS
    Gateways,         \* processes that share the file
    Executions,       \* (agent_identity, execution_id) keys
    Bindings,         \* action digests
    MaxAdmissions,    \* bound: admit calls made
    MaxExecCrashes,   \* bound: process crashes
    NoRow             \* model value: the key has no row

VARIABLES
    executions,    \* the table: key -> NoRow or [state, binding]
    gateway,       \* per process: "down", or the call it is handling
    invoked,       \* ghost: the upstream invocations made, as <<call, key, binding>>
    admissions,    \* ghost: admit calls so far; also numbers the calls
    execCrashes    \* ghost: crashes so far

execVars == <<executions, gateway, invoked, admissions, execCrashes>>

Down == [at |-> "down"]
Ready == [at |-> "ready"]
Row(state, binding) == [state |-> state, binding |-> binding]

ExecInit ==
    /\ executions = [k \in Executions |-> NoRow]
    /\ gateway = [g \in Gateways |-> Down]
    /\ invoked = {} /\ admissions = 0 /\ execCrashes = 0

\* Defect: recovery releases the reservations of the run that stopped.
RecoverReleases ==
    [k \in Executions |->
        IF executions[k] # NoRow /\ executions[k].state = "in_flight" THEN NoRow ELSE executions[k]]

\* recover: every row still in_flight becomes outcome_unknown, whichever process
\* reserved it.
Sealed ==
    [k \in Executions |->
        IF executions[k] # NoRow /\ executions[k].state = "in_flight"
        THEN Row("outcome_unknown", executions[k].binding) ELSE executions[k]]

StartProcess(g) ==
    /\ gateway[g] = Down
    /\ gateway' = [gateway EXCEPT ![g] = Ready]
    /\ executions' = Sealed
    /\ UNCHANGED <<invoked, admissions, execCrashes>>

\* _classify_existing: a changed binding outranks the stored state.
ClassifyExisting(row, presented) ==
    CASE row.binding # presented -> "collision_changed_binding"
      [] row.state = "in_flight" -> "replay_in_flight"
      [] row.state = "outcome_unknown" -> "replay_outcome_unknown"
      [] OTHER -> "replay_terminal"

\* admit: reserve an absent key, or refuse.  A transaction that raises is rolled back
\* and reserves nothing; the caller sees the exception and goes no further.
Admit(g, k, b) ==
    /\ gateway[g].at \in {"ready", "refused"} /\ admissions < MaxAdmissions
    /\ admissions' = admissions + 1
    /\ \/ /\ executions[k] = NoRow
          /\ executions' = [executions EXCEPT ![k] = Row("in_flight", b)]
          /\ gateway' = [gateway EXCEPT ![g] =
                            [at |-> "admitted", call |-> admissions, key |-> k, binding |-> b]]
       \/ /\ executions[k] # NoRow
          /\ gateway' = [gateway EXCEPT ![g] = [at |-> "refused", key |-> k, binding |-> b,
                            status |-> ClassifyExisting(executions[k], b)]]
          /\ UNCHANGED executions
    /\ UNCHANGED <<invoked, execCrashes>>

\* The admitted caller invokes the upstream.  It learns the outcome or does not.
Invoke(g) ==
    /\ gateway[g].at = "admitted"
    /\ invoked' = invoked \cup {<<gateway[g].call, gateway[g].key, gateway[g].binding>>}
    /\ \E outcome \in {"completed", "outcome_unknown"} :
        gateway' = [gateway EXCEPT ![g] = [at |-> "invoked", call |-> @.call, key |-> @.key,
                                           binding |-> @.binding, outcome |-> outcome]]
    /\ UNCHANGED <<executions, admissions, execCrashes>>

\* The caller gives up before the upstream was reached and records that it cannot
\* tell (finalize knows no "not attempted").
GiveUp(g) ==
    /\ gateway[g].at = "admitted"
    /\ gateway' = [gateway EXCEPT ![g] = [at |-> "invoked", call |-> @.call, key |-> @.key,
                                          binding |-> @.binding, outcome |-> "outcome_unknown"]]
    /\ UNCHANGED <<executions, invoked, admissions, execCrashes>>

\* finalize: legal from in_flight only; a row another process's recovery sealed is
\* left as it is.  A raising transaction changes nothing and may be retried, which
\* is a stuttering step here.
Finalize(g) ==
    /\ gateway[g].at = "invoked"
    /\ LET k == gateway[g].key IN
        /\ executions[k] # NoRow
        /\ executions' = IF executions[k].state = "in_flight"
                         THEN [executions EXCEPT ![k].state = gateway[g].outcome]
                         ELSE executions
        /\ gateway' = [gateway EXCEPT ![g] = Ready]
    /\ UNCHANGED <<invoked, admissions, execCrashes>>

CrashProcess(g) ==
    /\ gateway[g] # Down /\ execCrashes < MaxExecCrashes
    /\ execCrashes' = execCrashes + 1
    /\ gateway' = [gateway EXCEPT ![g] = Down]
    /\ UNCHANGED <<executions, invoked, admissions>>

ExecNext ==
    \E g \in Gateways :
        \/ StartProcess(g) \/ Invoke(g) \/ GiveUp(g) \/ Finalize(g) \/ CrashProcess(g)
        \/ \E k \in Executions, b \in Bindings : Admit(g, k, b)

ExecSpec == ExecInit /\ [][ExecNext]_execVars
-----------------------------------------------------------------------------
\* However many gateways share the file, crash, restart (recover) and retry, an
\* execution id invokes the upstream at most once, with the action it was reserved
\* for, a row that says "completed" tells the truth, and a caller refused with
\* replay_terminal presented the very action that was invoked.
ExecutedAtMostOnce ==
    \A k \in Executions :
        LET runs == {i \in invoked : i[2] = k} IN
        /\ Cardinality(runs) <= 1
        /\ \A i \in runs : executions[k] # NoRow /\ executions[k].binding = i[3]
        /\ executions[k] # NoRow /\ executions[k].state = "completed" => runs # {}
        /\ \A g \in Gateways :
            gateway[g].at = "refused" /\ gateway[g].key = k
                /\ gateway[g].status = "replay_terminal"
            => \E i \in runs : i[3] = gateway[g].binding
=============================================================================
