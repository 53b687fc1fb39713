----------------------------- MODULE GatewayGate -----------------------------
(***************************************************************************)
(* GatewayLifecycle implements SessionGate.                                *)
(***************************************************************************)
EXTENDS GatewayLifecycle

\* The task in its section.  While it drains, the holder of the lock owns nothing yet.
Owner == IF lock # NoTask /\ InSection(lock) THEN lock ELSE NoTask

\* What an admitted call relies on: the session it writes to, and that no claim over it
\* is signed and no store closed under it.
Served == <<sid, chain, pending, closedChains, closing, claims, storesClosed>>

Gate == INSTANCE SessionGate
            WITH Callers <- Calls, Changers <- Tasks, Nobody <- NoTask,
                 sealed <- rotating, inside <- active, owner <- Owner,
                 session <- Served

\* Admission, drain and the five session-changing requests of the proxy and the server
\* together keep the promise of SessionGate: while a call is admitted nobody rotates,
\* signs, resets or halts the session or closes the stores, and each of these happens
\* under one owner between a completed drain and the decision to reopen.
GateImplemented == Gate!Spec
=============================================================================
