----------------------------- MODULE MCGateway -----------------------------
(***************************************************************************)
(* The safety of GatewayLifecycle in three deployments, one of which runs  *)
(* in a behaviour: focus says which.  "all" has every endpoint and every   *)
(* fault; "close" makes one request more, of closes, their retries, resets *)
(* and a shutdown; "kill switch" starts with the blocks an earlier process *)
(* left, and no store or cleanup fails.  The states are the sum of theirs. *)
(***************************************************************************)
EXTENDS GatewayGate, FiniteSets, TLC

VARIABLE focus

All == INSTANCE GatewayLifecycle WITH
    BlockedAtStart <- FALSE, AuditMayFail <- TRUE, CleanupMayFail <- TRUE

Close == INSTANCE GatewayLifecycle WITH
    Operations <- {"close", "reset", "shutdown"}, KillSwitchEnabled <- FALSE,
    BlockedAtStart <- FALSE, AuditMayFail <- TRUE, CleanupMayFail <- TRUE

GatewayInit ==
    \/ focus = "all" /\ All!Init
    \/ focus = "close" /\ Close!Init
    \/ focus = "kill switch" /\ Init

\* How many of the tasks have made their request.
Made(tasks) == Cardinality({t \in tasks : pc'[t] # "idle"})

GatewayNext ==
    /\ UNCHANGED focus
    /\ \/ focus = "all" /\ All!Next /\ Made(Tasks) <= 3
       \/ focus = "close" /\ Close!Next /\ Made(Tasks) <= 4
       \/ /\ focus = "kill switch" /\ Next /\ Made(Handlers) <= 2
          /\ \A h \in Handlers : op'[h] # "shutdown"

GatewaySpec == GatewayInit /\ [][GatewayNext]_<<focus, vars>>

\* Requests of one kind are interchangeable.
GatewaySymmetry == Permutations(Calls) \cup Permutations(Handlers)

-----------------------------------------------------------------------------
(* No identity was ever blocked by this process: op keeps what a task was  *)
(* a request for, and only an unblock lifts a block.                       *)
Untripped ==
    /\ focus # "kill switch" /\ blocked = {}
    /\ \A t \in Tasks : op[t] \notin {"trip", "unblock", "seal"}

(* ClosedChainFrozen of GatewayLifecycle as long as no kill switch         *)
(* tripped: the chain a claim was signed over never grows (close_session). *)
UntrippedChainFrozen == Untripped => ClosedChainFrozen

(* PendingNamesSession of GatewayLifecycle as long as no kill switch       *)
(* tripped: a pending close is one of the current session                  *)
(* (MCPServer._pending_close).                                             *)
UntrippedPendingNamesSession == Untripped => PendingNamesSession

(* BlockStopsAdmission of GatewayLifecycle where no store or cleanup       *)
(* fails: while the bound identity is blocked, nothing is admitted         *)
(* (_kill_switch_trip).                                                    *)
FaultlessBlockStopsAdmission == focus = "kill switch" => BlockStopsAdmission
=============================================================================
