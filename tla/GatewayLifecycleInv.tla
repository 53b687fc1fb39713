------------------------ MODULE GatewayLifecycleInv -------------------------
(***************************************************************************)
(* The inductive invariant behind the theorems of GatewayLifecycleProofs,  *)
(* conjunct by conjunct.                                                   *)
(***************************************************************************)
EXTENDS GatewayLifecycle

Admitted == {"running", "upstream", "leaving", "unwinding"}
LockOps == {"close", "reset", "trip", "unblock", "shutdown", "seal"}

\* A successor that was opened is a chain that exists; a halt has its label.
SuccessorInv ==
    /\ pending.next # NoSuccessor => pending.next.chain \in 1 .. Len(length)
    /\ \A t \in Tasks :
          /\ successor[t] # NoSuccessor => successor[t].chain \in 1 .. Len(length)
          /\ pc[t] = "aclose" /\ op[t] = "unblock" => successor[t] # NoSuccessor
          /\ pc[t] = "aclose" /\ op[t] \in CloseOps /\ successor[t] = NoSuccessor
                => subject[t] \in {Agent, Unknown}

\* The transition lock has one owner, and its position says so.
LockInv == \A t \in Tasks : Owns(t) <=> lock = t

\* _active_call_tasks is what the calls' own positions say.
ActiveInv == \A c \in Calls : c \in active <=> pc[c] \in Admitted

\* A task's position fits its operation.
OpInv ==
    \A t \in Tasks :
        /\ pc[t] \in {"lock", "aclose"} \cup Draining => op[t] \in LockOps
        /\ pc[t] = "exit" => op[t] \in LockOps \ {"shutdown"}
        /\ pc[t] \in {"commit", "succeed"} => op[t] \in CloseOps
        /\ pc[t] = "trip" => op[t] = "trip"
        /\ pc[t] = "unblock" => op[t] = "unblock"
        /\ pc[t] = "apply" => op[t] = "reset"

\* What the seal protects.  A committed close keeps the drained gate it was made under,
\* so that its retry may skip the drain.
GateInv ==
    /\ lock # NoTask => rotating
    /\ closeCommitted => rotating /\ active = {} /\ ~failedTerminal
    /\ \A t \in Tasks :
          /\ InSection(t) =>
                /\ active = {}
                /\ op[t] # "shutdown" => ~failedTerminal
                /\ op[t] \in RotationOps /\ pc[t] # "exit" => ~rebound
          /\ pc[t] \in Draining /\ op[t] # "shutdown" => ~closeCommitted
          /\ Owns(t) /\ op[t] = "reset" => ~closeCommitted
          /\ pc[t] = "exit" /\ rebound => ~closeCommitted

\* A call that may have had an effect has its terminal entry once it is past transport.
OutcomeInv ==
    \A c \in effects :
        /\ pc[c] \notin {"idle", "waiting", "running"}
        /\ pc[c] # "upstream" => terminal[c] # "none" \/ failedTerminal

\* Shutdown is for good, and the stores close with nobody left to write.
StopInv ==
    /\ \A t \in Tasks :
          /\ op[t] = "shutdown" => shuttingDown
          /\ pc[t] = "grace" => drainIncomplete
    /\ storesClosed =>
          /\ shuttingDown /\ active = {}
          /\ \A t \in Tasks : Owns(t) => op[t] = "shutdown"

\* A step takes task t to one of the positions in to and no other task anywhere.
Moves(t, to) == pc'[t] \in to /\ \A u \in Tasks \ {t} : pc'[u] = pc[u]

IInv ==
    /\ TypeOK /\ SuccessorInv /\ LockInv /\ ActiveInv /\ OpInv
    /\ GateInv /\ OutcomeInv /\ StopInv /\ SealHasCause

=============================================================================
