------------------------- MODULE MCGatewayLifecycle -------------------------
(***************************************************************************)
(* Instances of GatewayLifecycle for TLC.                                  *)
(***************************************************************************)
EXTENDS GatewayGate, TLC

\* Requests of one kind are interchangeable: sound for the runs that check safety only.
TaskSymmetry == Permutations(Calls) \cup Permutations(Handlers)
=============================================================================
