----------------------------- MODULE MCTraffic -----------------------------
(***************************************************************************)
(* One instance for the path of two tool calls and for the endpoints of    *)
(* the gateway, which share no state here: focus says which of them runs   *)
(* in a behaviour, the other stays as it starts.  The states are the sum   *)
(* of theirs, not the product.                                             *)
(***************************************************************************)
EXTENDS MCCallPipeline

CONSTANTS
    GatewayCalls, Handlers, NoTask, Operations, KillSwitchEnabled, BlockedAtStart,
    AuditMayFail, AttestationMayFail, CleanupMayFail

VARIABLES
    rotating, rebound, closeCommitted, drainIncomplete, cleanupIncomplete, failedTerminal,
    shuttingDown, shutdownDrained, halted, lock, active, pending, closedChains,
    storesClosed, sid, chain, issued, length, unbound, triggered, window, blocked, closing,
    claims, pc, op, target, subject, successor, ahead, admittedTo, effects, terminal, focus

Gateway == INSTANCE GatewayLifecycle WITH Calls <- GatewayCalls

gatewayVars == <<
    rotating, rebound, closeCommitted, drainIncomplete, cleanupIncomplete, failedTerminal,
    shuttingDown, shutdownDrained, halted, lock, active, pending, closedChains,
    storesClosed, sid, chain, issued, length, unbound, triggered, window, blocked, closing,
    claims, pc, op, target, subject, successor, ahead, admittedTo, effects, terminal>>

trafficVars == <<focus, pipelineVars, gatewayVars>>

TrafficInit ==
    /\ focus \in {"call path", "endpoints"}
    /\ PipelineInit /\ Gateway!Init
    /\ focus = "endpoints" => mode \in PlainMode

EndpointsStay == UNCHANGED <<focus, gatewayVars>>
CallsStay == UNCHANGED <<focus, pipelineVars>>

TrafficNext ==
    \/ focus = "call path" /\ PipelineNext /\ EndpointsStay
    \/ focus = "endpoints" /\ Gateway!Next /\ CallsStay
    \/ focus = "call path" /\ UNCHANGED trafficVars      \* no call has to be made

(* PipelineFairness and the Fairness of GatewayLifecycle, of the component *)
(* that runs.                                                              *)
TrafficFairness ==
    /\ \A c \in Calls : WF_trafficVars(focus = "call path" /\ Continue(c) /\ EndpointsStay)
    /\ \A h \in Handlers : WF_trafficVars(focus = "endpoints" /\ Gateway!Progress(h) /\ CallsStay)
    /\ \A c \in GatewayCalls :
          WF_trafficVars(/\ focus = "endpoints"
                         /\ \/ Gateway!Progress(c)
                            \/ Gateway!WaitingCall(c) \/ Gateway!LeavingCall(c)
                         /\ CallsStay)

TrafficSpec == TrafficInit /\ [][TrafficNext]_trafficVars /\ TrafficFairness

(* HandlersFinish of GatewayLifecycle: every accepted request to close,    *)
(* reset, trip, unblock or shut down is answered in the end.               *)
EndpointsFinish == Gateway!HandlersFinish
=============================================================================
