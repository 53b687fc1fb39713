-------------------------- MODULE MCSharedSession --------------------------
(***************************************************************************)
(* Instances of SharedSession for TLC.                                     *)
(***************************************************************************)
EXTENDS SharedSession, TLC

CONSTANTS t1, t2, t3, i1, i2

\* Two calls of one process and a task of another.
TwoProcesses == t1 :> i1 @@ t2 :> i1 @@ t3 :> i2
\* Three calls of one process.
OneProcess == t1 :> i1 @@ t2 :> i1 @@ t3 :> i1
=============================================================================
