----------------------------- MODULE MCServices -----------------------------
(***************************************************************************)
(* One instance for eight components that share no state with each other:   *)
(* focus says which of them runs in a behaviour, the others stay as they   *)
(* start.  The states are the sum of theirs, not the product.              *)
(***************************************************************************)
EXTENDS StdioTransport, AuditLog, ExecutionRegistry, Disclosure, KillSwitchWindow,
        RateLimiter, NvCertify, MCSharedSession

VARIABLE focus

Services ==
    {"stdio", "audit", "execution", "disclosure", "kill switch", "rate limit", "nv index",
     "session"}

services == <<focus, stdioVars, auditVars, execVars, discVars, ksVars, rateVars, nvVars,
              sharedVars>>

(* A component with several initial states starts in one of them when it   *)
(* does not run.                                                           *)
ServicesInit ==
    /\ focus \in Services
    /\ StdioInit /\ AuditInit /\ ExecInit /\ DiscInit /\ KsInit /\ RateInit /\ NvInit
    /\ SharedInit
    /\ focus # "stdio" => spawnOk

OthersStay ==
    /\ UNCHANGED focus
    /\ focus # "stdio" => UNCHANGED stdioVars
    /\ focus # "audit" => UNCHANGED auditVars
    /\ focus # "execution" => UNCHANGED execVars
    /\ focus # "disclosure" => UNCHANGED discVars
    /\ focus # "kill switch" => UNCHANGED ksVars
    /\ focus # "rate limit" => UNCHANGED rateVars
    /\ focus # "nv index" => UNCHANGED nvVars
    /\ focus # "session" => UNCHANGED sharedVars

ServicesNext ==
    \/ focus = "stdio" /\ StdioNext /\ OthersStay
    \/ focus = "audit" /\ AuditNext /\ OthersStay
    \/ focus = "execution" /\ ExecNext /\ OthersStay
    \/ focus = "disclosure" /\ DiscNext /\ OthersStay
    \/ focus = "kill switch" /\ KsNext /\ OthersStay
    \/ focus = "rate limit" /\ RateNext /\ OthersStay
    \/ focus = "nv index" /\ NvNext /\ OthersStay
    \/ focus = "session" /\ SharedNext /\ OthersStay
    \/ focus # "session" /\ UNCHANGED services      \* only these may stop anywhere

(* SharedFairness, in the behaviours in which SharedSession runs. *)
ServicesFairness ==
    \A t \in Tasks :
       WF_services(/\ focus = "session"
                   /\ Commit(t) \/ CommitFails(t) \/ Rollback(t) \/ RunBody(t)
                   /\ OthersStay)

ServicesSpec == ServicesInit /\ [][ServicesNext]_services /\ ServicesFairness
=============================================================================
