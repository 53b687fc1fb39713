--------------------------- MODULE MCCallPipeline ---------------------------
(***************************************************************************)
(* An instance of CallPipeline for TLC: a confidential tool on a pinned    *)
(* server and a public tool on another.                                    *)
(***************************************************************************)
EXTENDS CallPipeline, TLC

CONSTANTS c1, c2, s1, s2, lookup, export

TheServers == lookup :> s1 @@ export :> s2
TheLevels == lookup :> 1 @@ export :> 0
TheCeilings == lookup :> 1 @@ export :> 0
\* A declared class of rank 1 would be refused as Unrecognised is, or add nothing to lookup.
TheClasses == {NoClass, Unrecognised}

\* The deployments that differ: plain, sink policy in advisory mode, TRACE gate with sinks,
\* and a catalog other than the one the proxy was built for.
TheModes ==
    {[enforcing |-> TRUE, failClosed |-> TRUE, gated |-> FALSE, sinks |-> FALSE,
      sealed |-> TRUE, budget |-> 1],
     [enforcing |-> FALSE, failClosed |-> FALSE, gated |-> FALSE, sinks |-> TRUE,
      sealed |-> TRUE, budget |-> 2],
     [enforcing |-> TRUE, failClosed |-> TRUE, gated |-> TRUE, sinks |-> TRUE,
      sealed |-> TRUE, budget |-> 2],
     [enforcing |-> TRUE, failClosed |-> FALSE, gated |-> FALSE, sinks |-> FALSE,
      sealed |-> FALSE, budget |-> 1]}

\* The first of them alone.
PlainMode == {m \in TheModes : m.sealed /\ m.enforcing /\ ~m.gated}
=============================================================================
