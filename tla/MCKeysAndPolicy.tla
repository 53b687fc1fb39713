--------------------------- MODULE MCKeysAndPolicy ---------------------------
(***************************************************************************)
(* One instance for the sealed signing key, the policy store and the       *)
(* evidence of a session, which share no state: focus says which of them   *)
(* runs in a behaviour, the others stay as they start.  The states are the *)
(* sum of theirs, not the product.                                         *)
(***************************************************************************)
EXTENDS PolicyStore, SealedKey, ClaimEvidence

VARIABLE focus

keysAndPolicy == <<focus, sealedVars, policyVars, claimVars>>

TheVersions ==
    [h \in Hashes |-> CASE h = "v1" -> 1 [] h \in {"v2", "w2"} -> 2 [] OTHER -> 3]

Bun(h, s) == [hash |-> h, signer |-> s]

TheBundles ==
    {Bun("v1", "a"), Bun("v2", "a"), Bun("v2", "x"), Bun("w2", "b"), Bun("v3", "b")}

St(k, s) == [revokes |-> k, signer |-> s]

TheStatements ==
    {<<>>, <<St("a", "b")>>, <<St("a", "x"), St("a", "a")>>, <<St("b", "b"), St("a", "b")>>}

ThePolicyModes ==
    {[keyed |-> TRUE, pinned |-> TRUE, successor |-> s, reloading |-> TRUE, binding |-> b] :
        s \in BOOLEAN, b \in BOOLEAN}
    \cup {[keyed |-> FALSE, pinned |-> p, successor |-> FALSE, reloading |-> TRUE,
            binding |-> TRUE] : p \in BOOLEAN}

KeysAndPolicyInit ==
    /\ focus \in {"sealed key", "policy", "claim"}
    /\ SealedInit /\ PolicyInit /\ ClaimInit
    /\ focus # "policy" => policyMode.keyed /\ policyMode.successor /\ policyMode.binding
                          /\ shelf.hash = "v1"
    /\ focus # "claim" => provider = "tdx" /\ bound

SealedMoves(A) == focus = "sealed key" /\ A /\ UNCHANGED <<focus, policyVars, claimVars>>
PolicyMoves(A) == focus = "policy" /\ A /\ UNCHANGED <<focus, sealedVars, claimVars>>
ClaimMoves(A) == focus = "claim" /\ A /\ UNCHANGED <<focus, sealedVars, policyVars>>

KeysAndPolicyNext ==
    SealedMoves(SealedNext) \/ PolicyMoves(PolicyNext) \/ ClaimMoves(ClaimNext)

(* SealedFairness and PolicyFairness, of the component that runs. *)
KeysAndPolicyFairness ==
    /\ \A p \in Procs : WF_keysAndPolicy(SealedMoves(SealedStep(p)))
    /\ SF_keysAndPolicy(SealedMoves(\E p \in Procs : BeginStart(p)))
    /\ SF_keysAndPolicy(SealedMoves(\E p \in Procs : BeginRotate(p, installed)))
    /\ WF_keysAndPolicy(PolicyMoves(PolicyRuns))
    /\ WF_keysAndPolicy(PolicyMoves(IntervalElapses))

KeysAndPolicySpec ==
    KeysAndPolicyInit /\ [][KeysAndPolicyNext]_keysAndPolicy /\ KeysAndPolicyFairness

(* StartsAgain of SealedKey, in the behaviours in which it runs: from      *)
(* wherever a start stopped, a gateway runs again (open_sealed_key,        *)
(* rotate_sealed_key).                                                     *)
GatewayStartsAgain == focus = "sealed key" => StartsAgain
=============================================================================
