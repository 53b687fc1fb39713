---------------------------- MODULE PolicyStore ----------------------------
(***************************************************************************)
(* The policy bundle in force and the keys trusted to change it:           *)
(* policy/bundle.py (PolicySigningKeys, load_policy_bundle, PolicyStore),  *)
(* policy/evaluator.py, the re-attestation of tee/report_binding.py and    *)
(* the policy steps of startup.py.                                         *)
(*                                                                         *)
(* The evaluator runs on the event loop and never yields, so one call is   *)
(* handled at a time; but the bundle directory is written by others        *)
(* meanwhile, and a call reads it three times (the revocation statements,  *)
(* the bundle, and the files again for the measurement).  Each read is a   *)
(* step.  Hashes and signatures are abstract: a bundle is its content      *)
(* hash, which covers its version, and the key whose signature it carries. *)
(***************************************************************************)
EXTENDS Naturals, Sequences

LOCAL INSTANCE SequencesExt

CONSTANTS
    Hashes,         \* bundle content hashes
    VersionOf,      \* Hashes -> Nat: manifest.version
    PolicyKeys,     \* policy signing keys, and keys nobody pinned
    PolicyBundles,  \* bundles that get published: [hash, signer]
    First, Second,  \* CMCP_POLICY_SIGNING_KEY and the successor
    StatementFiles, \* revocation files: sequences of [revokes, signer]
    PolicyModes,    \* deployments: see PolicyModeType
    MaxWrites,      \* bound on writes to the bundle directory and failing hooks
    MaxRestarts,    \* bound on restarts
    NoPolicyKey, NoBundle

\* A signing key and a hash are pinned, a successor is, reloads are on, and the TEE
\* provider commits the measurement into report_data (binds_measurement_into_report_data:
\* SEV-SNP, Azure and TDX do, a TPM and the software provider do not).
PolicyModeType ==
    [keyed : BOOLEAN, pinned : BOOLEAN, successor : BOOLEAN, reloading : BOOLEAN,
     binding : BOOLEAN]

ASSUME PolicyAssumption ==
    /\ VersionOf \in [Hashes -> Nat]
    /\ PolicyBundles \subseteq [hash : Hashes, signer : PolicyKeys]
    /\ First \in PolicyKeys /\ Second \in PolicyKeys \ {First}
    /\ NoPolicyKey \notin PolicyKeys
    /\ <<>> \in StatementFiles
    /\ PolicyModes \subseteq PolicyModeType
    /\ MaxWrites \in Nat /\ MaxRestarts \in Nat

VARIABLES
    policyMode,  \* the deployment
    phase,       \* down, measured, ready, or the step of the call in progress
    keys,        \* PolicySigningKeys: current, successor, revoked
    shelf,       \* the bundle in the bundle directory, NoBundle while it is torn
    statements,  \* signing-key-revocations.json
    pinHash,     \* CMCP_POLICY_HASH
    running,     \* PolicyStore._bundle
    backend,     \* PolicyEvaluator._current_hash: what Cedar evaluates
    attested,    \* the bundle the attestation report commits
    due,         \* the reload interval has elapsed
    decision,    \* outcome of the last call: none, served or refused
    writes, restarts

policyVars == <<policyMode, phase, keys, shelf, statements, pinHash, running, backend,
                attested, due, decision, writes, restarts>>

Up == phase \notin {"down", "measured"}
PolicySigningKeys(current, successor) ==
    [current |-> current, successor |-> successor, revoked |-> {}]
NoKeys == PolicySigningKeys(NoPolicyKey, NoPolicyKey)

-----------------------------------------------------------------------------
(* PolicySigningKeys.                                                      *)

\* The keys pinned in the environment, nothing revoked.
PinnedKeys ==
    IF policyMode.keyed
    THEN PolicySigningKeys(First, IF policyMode.successor THEN Second ELSE NoPolicyKey)
    ELSE NoKeys

\* apply: only the current key can be revoked, by itself or by its successor, and the
\* successor takes its place.  A statement already applied or refused changes nothing.
Apply(k, s) ==
    IF /\ s.revokes \notin k.revoked
       /\ k.current # NoPolicyKey /\ s.revokes = k.current
       /\ s.signer \in {k.current, k.successor}
    THEN [current |-> k.successor, successor |-> NoPolicyKey,
          revoked |-> k.revoked \cup {k.current}]
    ELSE k

\* apply_file: the statements in order; a bad one does not stop the rest.
ApplyFile(k) == FoldLeft(Apply, k, statements)

-----------------------------------------------------------------------------
(* load_policy_bundle and the store.                                       *)

\* verify_bundle_signature, under the current key only.
SignedBy(b, k) == b.signer = k.current

\* Defect: the hash pinned for the first load is checked on every reload.
VerifiesPinned(b, k) ==
    /\ b # NoBundle
    /\ policyMode.pinned => b.hash = pinHash
    /\ policyMode.keyed => SignedBy(b, k)

\* The bundle is whole and, where a key is pinned, signed by the current one.
Verifies(b, k) ==
    /\ b # NoBundle
    /\ policyMode.keyed => SignedBy(b, k)

\* Defect: a policy whose key is revoked sets no floor.
NotADowngradeUnlessRevoked(b) ==
    policyMode.keyed =>
        \/ running.signer \in keys.revoked
        \/ VersionOf[b.hash] > VersionOf[running.hash]

\* _check_not_a_downgrade: the running version is the floor, its key revoked or not.
NotADowngrade(b) == policyMode.keyed => VersionOf[b.hash] > VersionOf[running.hash]

\* Defect: a policy with a revoked key stays in force until it is replaced.
TrustsAnything == TRUE

\* require_trusted.
Trusted == policyMode.keyed => running.signer \notin keys.revoked

-----------------------------------------------------------------------------
(* Startup, steps 3b and 4.                                                *)

PolicyInit ==
    /\ policyMode \in PolicyModes
    /\ phase = "down" /\ keys = NoKeys
    /\ shelf \in {b \in PolicyBundles : b.signer = First}
    /\ statements = <<>>
    /\ pinHash = shelf.hash
    /\ running = shelf /\ backend = shelf.hash /\ attested = shelf
    /\ due = FALSE /\ decision = "none"
    /\ writes = 0 /\ restarts = 0

\* The files are measured into the attestation report.
MeasureAtStart ==
    /\ phase = "down" /\ restarts <= MaxRestarts
    /\ phase' = "measured" /\ attested' = shelf
    /\ UNCHANGED <<policyMode, keys, shelf, statements, pinHash, running, backend, due,
                   decision, writes, restarts>>

\* Revocations first, then the bundle; a hash pinned together with reloads needs a key.
\* A refusal aborts the start.
LoadAtStart ==
    /\ phase = "measured"
    /\ LET k == ApplyFile(PinnedKeys) IN
       IF /\ policyMode.keyed => k.current # NoPolicyKey
          /\ policyMode.pinned /\ policyMode.reloading => policyMode.keyed
          /\ Verifies(shelf, k)
          /\ policyMode.pinned => shelf.hash = pinHash
       THEN /\ phase' = "ready" /\ keys' = k
            /\ running' = shelf /\ backend' = shelf.hash
       ELSE phase' = "down" /\ UNCHANGED <<keys, running, backend>>
    /\ UNCHANGED <<policyMode, shelf, statements, pinHash, attested, due, decision,
                   writes, restarts>>

-----------------------------------------------------------------------------
(* PolicyEvaluator.evaluate (authorize_egress is the same, twice).         *)

\* _maybe_reload: when the interval elapsed, the attempt is stamped and the revocation
\* statements are applied.
StartEvaluation ==
    /\ phase = "ready"
    /\ IF policyMode.reloading /\ due
       THEN /\ due' = FALSE /\ phase' = "load"
            /\ keys' = IF policyMode.keyed THEN ApplyFile(keys) ELSE keys
       ELSE phase' = "decide" /\ UNCHANGED <<due, keys>>
    /\ decision' = "none"
    /\ UNCHANGED <<policyMode, shelf, statements, pinHash, running, backend, attested,
                   writes, restarts>>

\* reload_if_stale: a bundle that verifies is installed when its hash differs and its
\* version increased; anything else keeps the current one.  The backend follows.
ReloadIfStale ==
    /\ phase = "load"
    /\ IF Verifies(shelf, keys) /\ (shelf.hash # running.hash => NotADowngrade(shelf))
       THEN /\ running' = IF shelf.hash # running.hash THEN shelf ELSE running
            /\ phase' = "hook"
       ELSE phase' = "decide" /\ UNCHANGED running
    /\ backend' = running'.hash
    /\ UNCHANGED <<policyMode, keys, shelf, statements, pinHash, attested, due, decision,
                   writes, restarts>>

\* _notify_reload, refresh_measurement_binding: where the provider commits the measurement
\* the files on disk are measured again and a new report commits them.
RefreshMeasurementBinding ==
    /\ phase = "hook"
    /\ attested' = IF policyMode.binding THEN shelf ELSE attested
    /\ phase' = "decide"
    /\ UNCHANGED <<policyMode, keys, shelf, statements, pinHash, running, backend, due,
                   decision, writes, restarts>>

\* The measurement or the TEE fails: logged, and the old report stays.
HookFails ==
    /\ phase = "hook" /\ policyMode.binding /\ writes < MaxWrites
    /\ writes' = writes + 1 /\ phase' = "decide"
    /\ UNCHANGED <<policyMode, keys, shelf, statements, pinHash, running, backend, attested,
                   due, decision, restarts>>

\* A revoked policy refuses the call in every mode; otherwise the backend decides.
DecideCall ==
    /\ phase = "decide"
    /\ decision' = IF Trusted THEN "served" ELSE "refused"
    /\ phase' = "ready"
    /\ UNCHANGED <<policyMode, keys, shelf, statements, pinHash, running, backend, attested,
                   due, writes, restarts>>

-----------------------------------------------------------------------------
(* The environment.                                                        *)

IntervalElapses ==
    /\ Up /\ policyMode.reloading /\ ~due
    /\ due' = TRUE
    /\ UNCHANGED <<policyMode, phase, keys, shelf, statements, pinHash, running, backend,
                   attested, decision, writes, restarts>>

\* Someone writes a bundle, or is half way through writing one.
Publish(b) ==
    /\ writes < MaxWrites /\ writes' = writes + 1
    /\ b # shelf /\ shelf' = b
    /\ decision' = "none"
    /\ UNCHANGED <<policyMode, phase, keys, statements, pinHash, running, backend, attested,
                   due, restarts>>

WriteStatements(f) ==
    /\ writes < MaxWrites /\ writes' = writes + 1
    /\ f # statements /\ statements' = f
    /\ decision' = "none"
    /\ UNCHANGED <<policyMode, phase, keys, shelf, pinHash, running, backend, attested, due,
                   restarts>>

\* Down, the operator may pin the hash of the bundle on disk.
Repin ==
    /\ phase = "down" /\ shelf # NoBundle
    /\ pinHash' = shelf.hash
    /\ UNCHANGED <<policyMode, phase, keys, shelf, statements, running, backend, attested,
                   due, decision, writes, restarts>>

\* The process ends; what it revoked, and the version floor, go with it.
StopPolicy ==
    /\ Up /\ restarts < MaxRestarts /\ restarts' = restarts + 1
    /\ phase' = "down" /\ keys' = NoKeys /\ due' = FALSE /\ decision' = "none"
    /\ UNCHANGED <<policyMode, shelf, statements, pinHash, running, backend, attested,
                   writes>>

PolicyRuns ==
    \/ LoadAtStart \/ StartEvaluation \/ ReloadIfStale \/ RefreshMeasurementBinding \/ DecideCall

PolicyNext ==
    \/ MeasureAtStart \/ PolicyRuns \/ HookFails \/ IntervalElapses \/ Repin \/ StopPolicy
    \/ \E b \in PolicyBundles \cup {NoBundle} : Publish(b)
    \/ \E f \in StatementFiles : WriteStatements(f)

\* Calls keep coming and the clock moves.
PolicyFairness == WF_policyVars(PolicyRuns) /\ WF_policyVars(IntervalElapses)

PolicySpec == PolicyInit /\ [][PolicyNext]_policyVars /\ PolicyFairness

-----------------------------------------------------------------------------
(* Properties.                                                             *)

\* No call is ever decided by a policy whose signing key this process has revoked, nor by
\* Cedar policies other than those of the bundle in force (require_trusted, _maybe_reload).
TrustedEvaluation ==
    decision = "served" /\ policyMode.keyed =>
        running.signer \notin keys.revoked /\ backend = running.hash

\* While a gateway runs with a signing key pinned, the policy in force only moves to a
\* higher version signed by the key trusted at that moment, whatever is replayed into the
\* bundle directory and whichever keys are revoked on the way.
NoDowngrade ==
    [][Up /\ Up' /\ policyMode.keyed /\ running' # running =>
          /\ VersionOf[running'.hash] > VersionOf[running.hash]
          /\ running'.signer = keys.current
          /\ running'.signer \notin keys.revoked]_policyVars

\* What PolicyStore would accept now.
Acceptable(b) ==
    /\ Up /\ policyMode.keyed /\ policyMode.reloading
    /\ shelf = b /\ b.signer = keys.current
    /\ VersionOf[b.hash] > VersionOf[running.hash]

\* A newer bundle of the trusted key that is left in place comes into force in the
\* evaluator and, where the provider commits the measurement into its report, in the
\* attestation report, though reloads and re-attestations fail in between; unless its key
\* is revoked, the bundle replaced, or the gateway stopped first (_maybe_reload,
\* refresh_measurement_binding).
PolicyTakesEffect ==
    \A b \in {b \in PolicyBundles : b.signer \in {First, Second}} :
        Acceptable(b) ~> \/ /\ running = b /\ backend = b.hash
                            /\ policyMode.binding => attested = b
                         \/ ~Up \/ shelf # b \/ b.signer \in keys.revoked

=============================================================================
