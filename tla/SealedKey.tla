----------------------------- MODULE SealedKey -----------------------------
(***************************************************************************)
(* The TRACE signing key sealed to the gateway digest on a TPM:            *)
(* tee/seal.py, the sealed start of startup.py, the measurement index of   *)
(* tee/measurement.py and the commands `cmcp key reseal` and `rotate`.     *)
(*                                                                         *)
(* Processes (gateway starts and operator commands) share one TPM and one  *)
(* state directory.  A TPM command and the atomic rename of the store are  *)
(* one step each; a process can die, or a command can fail, between any    *)
(* two of them.  The TPM is external: an index that is there or not, a     *)
(* gate with a value, and a blob that unseals exactly when the gate holds  *)
(* the digest it was sealed to.                                            *)
(***************************************************************************)
EXTENDS Naturals, Sequences, FiniteSets

CONSTANTS
    Procs,      \* processes: each a gateway or an operator command at a time
    Codes,      \* code and config halves of a gateway digest
    Policies,   \* policy halves of a gateway digest
    SigningKeys,\* signing keys
    MaxBlobs,   \* MAX_BLOBS
    MaxDeaths,  \* bound on deaths, failing TPM commands and lost state
    MaxEdits,   \* bound on upgrades and on commands for a gateway not installed
    NoGate, Unwritten, Sentinel,    \* gates that hold no digest
    NoStore, NoProc, NoKey

ASSUME SealedAssumption ==
    /\ MaxBlobs \in Nat \ {0} /\ MaxDeaths \in Nat /\ MaxEdits \in Nat
    /\ NoProc \notin Procs /\ NoKey \notin SigningKeys
    \* A key that is not known anywhere can always be generated.
    /\ Cardinality(SigningKeys) >= 4

VARIABLES
    index,      \* the measurement index: absent, defined or written
    tpmGate,    \* the gate: absent, never written, closed, or the digest it holds
    keyStore,   \* sealed-signing-key.json: public key and blobs, or NoStore
    flock,      \* the process that holds the state directory, or NoProc
    proc,       \* proc[p]: what process p does and holds
    installed,  \* digest of the code, config and policy on disk
    current,    \* ghost: the key relying parties know, NoKey on a blank host
    torn,       \* ghost: a process died, or failed to write, with the gate open
    deaths, edits

sealedVars == <<index, tpmGate, keyStore, flock, proc, installed, current, torn,
                deaths, edits>>

GatewayDigests == [code : Codes, policy : Policies]

\* A process record.  cmd is what it runs; digest what it measured, or the digest of
\* the blob it opens; target what it seals to (for a running gateway: the digest with
\* the policy it accepted); pub the key it committed; seed the key it holds; sealed
\* HeldSealedKey.sealed_digest; unsure (a ghost) that a write since then raised and
\* took effect all the same.
IdleAt(d) == [pc |-> "idle", cmd |-> "none", digest |-> d, target |-> d, sealed |-> d,
              pub |-> NoKey, seed |-> NoKey, unsure |-> FALSE]

SealedInit ==
    /\ index = "absent" /\ tpmGate = NoGate /\ keyStore = NoStore /\ flock = NoProc
    /\ installed = CHOOSE d \in GatewayDigests : TRUE
    /\ proc = [p \in Procs |-> IdleAt(installed)]
    /\ current = NoKey /\ torn = FALSE /\ deaths = 0 /\ edits = 0

AtPc(p, pc) == proc[p].pc = pc
Proceeds(p, pc) == proc' = [proc EXCEPT ![p].pc = pc]
Death == deaths < MaxDeaths /\ deaths' = deaths + 1

\* The process is gone; the kernel drops its flock.
Exit(p) ==
    /\ proc' = [proc EXCEPT ![p] = IdleAt(CHOOSE d \in GatewayDigests : TRUE)]
    /\ flock' = IF flock = p THEN NoProc ELSE flock

\* secrets.token_bytes: a key nobody knows yet.
FreshKey ==
    CHOOSE k \in SigningKeys : /\ k # current
                               /\ keyStore # NoStore => k # keyStore.pub
                               /\ \A p \in Procs : k \notin {proc[p].pub, proc[p].seed}

-----------------------------------------------------------------------------
(* The store: at most MaxBlobs blobs, oldest first.                        *)

Blob(digest, key) == [digest |-> digest, key |-> key]

\* StoreContents.blob_for: the blobs sealed to this digest.
BlobFor(digest) == SelectSeq(keyStore.blobs, LAMBDA b : b.digest = digest)

\* Defect: a full store keeps its oldest blobs.
WithBlobKeepsOldest(contents, blob) ==
    LET all == Append(SelectSeq(contents.blobs, LAMBDA b : b.digest # blob.digest), blob)
        last == IF Len(all) > MaxBlobs THEN MaxBlobs ELSE Len(all)
    IN  [contents EXCEPT !.blobs = SubSeq(all, 1, last)]

\* StoreContents.with_blob.
WithBlob(contents, blob) ==
    LET all == Append(SelectSeq(contents.blobs, LAMBDA b : b.digest # blob.digest), blob)
        first == IF Len(all) > MaxBlobs THEN Len(all) - MaxBlobs + 1 ELSE 1
    IN  [contents EXCEPT !.blobs = SubSeq(all, first, Len(all))]

\* SealedKeyStore.acquire: a held directory refuses the process.
Acquire(p) == flock = NoProc /\ flock' = p

-----------------------------------------------------------------------------
(* A gateway start up to its measurement.                                  *)

\* _begin_sealed_start: the key the attestation nonce will commit.
BeginStart(p) ==
    /\ AtPc(p, "idle")
    /\ Acquire(p)
    /\ proc' = [proc EXCEPT
          ![p].pc = "begun", ![p].cmd = "start",
          ![p].pub = IF keyStore # NoStore THEN keyStore.pub ELSE FreshKey]
    /\ UNCHANGED <<index, tpmGate, keyStore, installed, current, torn, deaths, edits>>

\* The gateway is measured, and the index defined where there is none.
MeasureAndDefine(p) ==
    /\ AtPc(p, "begun") /\ index = "absent"
    /\ index' = "defined"
    /\ proc' = [proc EXCEPT ![p].pc = "extend", ![p].digest = installed]
    /\ UNCHANGED <<tpmGate, keyStore, flock, installed, current, torn, deaths, edits>>

\* An index that is already there must have been written, or the start aborts.
MeasureExisting(p) ==
    /\ AtPc(p, "begun") /\ index # "absent"
    /\ IF index = "written"
       THEN /\ proc' = [proc EXCEPT ![p].pc = "extend", ![p].digest = installed]
            /\ UNCHANGED flock
       ELSE Exit(p)
    /\ UNCHANGED <<index, tpmGate, keyStore, installed, current, torn, deaths, edits>>

\* Certify, extend, certify.
Extend(p) ==
    /\ AtPc(p, "extend")
    /\ index' = "written"
    /\ Proceeds(p, "measured")
    /\ UNCHANGED <<tpmGate, keyStore, flock, installed, current, torn, deaths, edits>>

-----------------------------------------------------------------------------
(* open_sealed_key.                                                        *)

\* _check_gate: the index is the gate, and it was written.
GateUsable == tpmGate \notin {NoGate, Unwritten}

\* policy_nv_digest: the blob's policy compares the gate with the blob's own digest.
PolicyNv(digest) == tpmGate = digest

\* Defect: a gateway the store has no blob for is given a new key.
OpensMinting(p) ==
    IF keyStore = NoStore \/ tpmGate = NoGate \/ BlobFor(proc[p].digest) = <<>>
    THEN "provision" ELSE "unseal"

\* Only a host with no gate and no store is provisioned.  Every other state is an
\* unseal or one of the errors SealedKeyMissing, SealedKeyTpmChanged,
\* SealedKeyUnavailable and SealedKeyDigestMismatch.
Opens(p) ==
    IF keyStore = NoStore /\ tpmGate = NoGate THEN "provision"
    ELSE IF \/ keyStore = NoStore
            \/ ~GateUsable
            \/ BlobFor(proc[p].digest) = <<>>
         THEN "refuse" ELSE "unseal"

RefuseOpen(p) ==
    /\ AtPc(p, "measured") /\ Opens(p) = "refuse"
    /\ Exit(p)
    /\ UNCHANGED <<index, tpmGate, keyStore, installed, current, torn, deaths, edits>>

DefineGate(p) ==
    /\ AtPc(p, "measured") /\ Opens(p) = "provision"
    /\ tpmGate' = Unwritten
    /\ proc' = [proc EXCEPT ![p].pc = "define", ![p].target = proc[p].digest]
    /\ UNCHANGED <<index, keyStore, flock, installed, current, torn, deaths, edits>>

WriteSentinel(p) ==
    /\ AtPc(p, "define")
    /\ tpmGate' = Sentinel /\ torn' = FALSE
    /\ Proceeds(p, "seal")
    /\ UNCHANGED <<index, keyStore, flock, installed, current, deaths, edits>>

\* The start has its key: HeldSealedKey keeps it, and the lock, while the gateway runs.
Holds(p, key) ==
    proc' = [proc EXCEPT ![p].pc = "running", ![p].seed = key,
                         ![p].target = proc[p].digest, ![p].sealed = proc[p].digest]

\* _seal and store.write of the only blob: a first start, or the end of a rotation.
SealNewKey(p) ==
    /\ AtPc(p, "seal")
    /\ keyStore' = [pub |-> proc[p].pub, blobs |-> <<Blob(proc[p].target, proc[p].pub)>>]
    /\ current' = proc[p].pub
    /\ IF proc[p].cmd = "start" THEN Holds(p, proc[p].pub) /\ UNCHANGED flock ELSE Exit(p)
    /\ UNCHANGED <<index, tpmGate, installed, torn, deaths, edits>>

\* _open_gate_and_unseal: the blob's digest goes into the gate ...
OpenGate(p) ==
    /\ \/ AtPc(p, "measured") /\ Opens(p) = "unseal"
       \/ AtPc(p, "reseal")
    /\ tpmGate' = proc[p].digest
    /\ Proceeds(p, "opened")
    /\ UNCHANGED <<index, keyStore, flock, installed, current, torn, deaths, edits>>

\* ... the TPM releases the secret while it is there ...
Unseal(p) ==
    /\ AtPc(p, "opened")
    /\ PolicyNv(proc[p].digest)
    /\ proc' = [proc EXCEPT ![p].pc = "close", ![p].seed = BlobFor(proc[p].digest)[1].key]
    /\ UNCHANGED <<index, tpmGate, keyStore, flock, installed, current, torn, deaths, edits>>

\* Defect: the closing write is not in a finally block.
UnsealFailsOpen(p) ==
    /\ AtPc(p, "opened")
    /\ Death
    /\ Exit(p)
    /\ UNCHANGED <<index, tpmGate, keyStore, installed, current, torn, edits>>

\* ... or does not, and the gate is closed all the same ...
UnsealFails(p) ==
    /\ AtPc(p, "opened")
    /\ Death
    /\ Proceeds(p, "close")
    /\ UNCHANGED <<index, tpmGate, keyStore, flock, installed, current, torn, edits>>

\* ... and the sentinel closes the gate.  A key that is not the one the nonce commits,
\* or the store names, aborts.
CloseGate(p) ==
    /\ AtPc(p, "close")
    /\ tpmGate' = Sentinel /\ torn' = FALSE
    /\ IF proc[p].seed # proc[p].pub THEN Exit(p)
       ELSE /\ IF proc[p].cmd = "start" THEN Holds(p, proc[p].seed) ELSE Proceeds(p, "store")
            /\ UNCHANGED flock
    /\ UNCHANGED <<index, keyStore, installed, current, deaths, edits>>

-----------------------------------------------------------------------------
(* The running gateway: a verified policy reload, then its hook.           *)

\* PolicyStore accepted the bundle on disk, changed or not.
Reload(p) ==
    /\ AtPc(p, "running")
    /\ proc' = [proc EXCEPT ![p].pc = "reloaded", ![p].target.policy = installed.policy]
    /\ UNCHANGED <<index, tpmGate, keyStore, flock, installed, current, torn, deaths, edits>>

\* Defect: HeldSealedKey records the digest before the blob is written.
ResealFailsForgets(p) ==
    /\ AtPc(p, "reloaded")
    /\ Death
    /\ proc' = [proc EXCEPT ![p].pc = "running", ![p].sealed = proc[p].target]
    /\ UNCHANGED <<index, tpmGate, keyStore, flock, installed, current, torn, edits>>

\* The TPM fails the reseal, or the store before os.replace: logged and swallowed.
ResealFails(p) ==
    /\ AtPc(p, "reloaded")
    /\ Death
    /\ Proceeds(p, "running")
    /\ UNCHANGED <<index, tpmGate, keyStore, flock, installed, current, torn, edits>>

\* reseal_held_key: the key in memory is sealed to another digest, nothing is unsealed.
ResealHeldKey(p) == keyStore' = WithBlob(keyStore, Blob(proc[p].target, proc[p].seed))

\* The blob is in the store, but the directory's fsync raises: HeldSealedKey is not told.
ResealRaises(p) ==
    /\ AtPc(p, "reloaded")
    /\ installed.policy = proc[p].target.policy /\ proc[p].target # proc[p].sealed
    /\ Death
    /\ ResealHeldKey(p)
    /\ proc' = [proc EXCEPT ![p].pc = "running", ![p].unsure = TRUE]
    /\ UNCHANGED <<index, tpmGate, flock, installed, current, torn, edits>>

\* HeldSealedKey.reseal: a key already sealed to the digest is left alone.
ResealHeld(p) ==
    IF proc[p].target = proc[p].sealed THEN Proceeds(p, "running") /\ UNCHANGED keyStore
    ELSE /\ ResealHeldKey(p)
         /\ proc' = [proc EXCEPT ![p].pc = "running", ![p].sealed = proc[p].target,
                                 ![p].unsure = FALSE]

\* reseal_after_reload: the bundle is read once more and sealed only when it is the
\* accepted one.
ResealAfterReload(p) ==
    /\ AtPc(p, "reloaded")
    /\ IF installed.policy = proc[p].target.policy THEN ResealHeld(p)
       ELSE Proceeds(p, "running") /\ UNCHANGED keyStore
    /\ UNCHANGED <<index, tpmGate, flock, installed, current, torn, deaths, edits>>

-----------------------------------------------------------------------------
(* The operator, with the gateway stopped.                                 *)

\* The digest a command seals to: the installed gateway's, or --to-digest.
SealsTo(to) ==
    IF to = installed THEN UNCHANGED edits ELSE edits < MaxEdits /\ edits' = edits + 1

\* `cmcp key reseal`: the newest blob is opened under its own digest.
BeginReseal(p, to) ==
    /\ AtPc(p, "idle")
    /\ Acquire(p) /\ SealsTo(to)
    /\ keyStore # NoStore /\ GateUsable
    /\ proc' = [proc EXCEPT
          ![p].pc = "reseal", ![p].cmd = "reseal", ![p].target = to, ![p].pub = keyStore.pub,
          ![p].digest = keyStore.blobs[Len(keyStore.blobs)].digest]
    /\ UNCHANGED <<index, tpmGate, keyStore, installed, current, torn, deaths>>

FinishReseal(p) ==
    /\ AtPc(p, "store")
    /\ keyStore' = WithBlob(keyStore, Blob(proc[p].target, proc[p].seed))
    /\ Exit(p)
    /\ UNCHANGED <<index, tpmGate, installed, current, torn, deaths, edits>>

\* Defect: a rotation refuses a gate that was defined and never written.
RotateRefusesUnwritten(p, to) ==
    /\ AtPc(p, "idle")
    /\ Acquire(p) /\ SealsTo(to)
    /\ tpmGate # Unwritten
    /\ tpmGate' = IF tpmGate = NoGate THEN Unwritten ELSE tpmGate
    /\ proc' = [proc EXCEPT
          ![p].pc = IF tpmGate = NoGate THEN "define" ELSE "seal",
          ![p].cmd = "rotate", ![p].target = to, ![p].pub = FreshKey]
    /\ UNCHANGED <<index, keyStore, installed, current, torn, deaths>>

\* Defect: a rotation does not ask for the state directory.
RotateWithoutLock(p, to) ==
    /\ AtPc(p, "idle")
    /\ SealsTo(to)
    /\ tpmGate' = IF tpmGate = NoGate THEN Unwritten ELSE tpmGate
    /\ proc' = [proc EXCEPT
          ![p].pc = IF tpmGate \in {NoGate, Unwritten} THEN "define" ELSE "seal",
          ![p].cmd = "rotate", ![p].target = to, ![p].pub = FreshKey]
    /\ UNCHANGED <<index, keyStore, flock, installed, current, torn, deaths>>

\* `cmcp key rotate`: the gate is defined, or a half-made one finished, when it must be.
BeginRotate(p, to) ==
    /\ AtPc(p, "idle")
    /\ Acquire(p) /\ SealsTo(to)
    /\ tpmGate' = IF tpmGate = NoGate THEN Unwritten ELSE tpmGate
    /\ proc' = [proc EXCEPT
          ![p].pc = IF tpmGate \in {NoGate, Unwritten} THEN "define" ELSE "seal",
          ![p].cmd = "rotate", ![p].target = to, ![p].pub = FreshKey]
    /\ UNCHANGED <<index, keyStore, installed, current, torn, deaths>>

-----------------------------------------------------------------------------
(* The environment.                                                        *)

\* The process dies, or a command it cannot go on without fails.
Die(p) ==
    /\ ~AtPc(p, "idle")
    /\ Death
    /\ Exit(p)
    /\ torn' = (torn \/ proc[p].pc \in {"opened", "close"})
    /\ UNCHANGED <<index, tpmGate, keyStore, installed, current, edits>>

\* An orderly stop of a running gateway.
StopGateway(p) ==
    /\ AtPc(p, "running")
    /\ Exit(p)
    /\ UNCHANGED <<index, tpmGate, keyStore, installed, current, torn, deaths, edits>>

\* An upgrade or a new policy bundle.
Install(d) ==
    /\ edits < MaxEdits /\ edits' = edits + 1
    /\ installed' = d
    /\ UNCHANGED <<index, tpmGate, keyStore, flock, proc, current, torn, deaths>>

\* The state directory is lost, or the TPM is cleared, while nothing runs.  A cleared TPM
\* has no index and no gate, and loads none of its old blobs.
LoseState ==
    /\ flock = NoProc
    /\ Death
    /\ \/ keyStore' = NoStore /\ UNCHANGED <<index, tpmGate, torn>>
       \/ /\ index' = "absent" /\ tpmGate' = NoGate /\ torn' = FALSE
          /\ keyStore' = IF keyStore = NoStore THEN NoStore
                         ELSE [keyStore EXCEPT !.blobs =
                                 [i \in DOMAIN @ |-> Blob(@[i].digest, NoKey)]]
    /\ current' = IF keyStore' = NoStore /\ tpmGate' = NoGate THEN NoKey ELSE current
    /\ UNCHANGED <<flock, proc, installed, edits>>

SealedStep(p) ==
    \/ MeasureAndDefine(p) \/ MeasureExisting(p) \/ Extend(p)
    \/ RefuseOpen(p) \/ DefineGate(p) \/ WriteSentinel(p) \/ SealNewKey(p)
    \/ OpenGate(p) \/ Unseal(p) \/ CloseGate(p)
    \/ Reload(p) \/ ResealAfterReload(p) \/ FinishReseal(p)

SealedNext ==
    \/ \E p \in Procs :
          \/ BeginStart(p) \/ SealedStep(p)
          \/ UnsealFails(p) \/ ResealFails(p) \/ ResealRaises(p) \/ Die(p) \/ StopGateway(p)
          \/ \E d \in GatewayDigests : BeginReseal(p, d) \/ BeginRotate(p, d)
    \/ \E d \in GatewayDigests : Install(d)
    \/ LoseState

\* Processes run on; a service manager starts the gateway again and again, and an
\* operator rotates the key for the installed gateway when it does not start.
SealedFairness ==
    /\ \A p \in Procs : WF_sealedVars(SealedStep(p))
    /\ SF_sealedVars(\E p \in Procs : BeginStart(p))
    /\ SF_sealedVars(\E p \in Procs : BeginRotate(p, installed))

SealedSpec == SealedInit /\ [][SealedNext]_sealedVars /\ SealedFairness

-----------------------------------------------------------------------------
(* Properties.                                                             *)

\* The type of the TPM, the key store, the lock and the installed gateway.
SealedTypeOK ==
    /\ index \in {"absent", "defined", "written"}
    /\ tpmGate \in {NoGate, Unwritten, Sentinel} \cup GatewayDigests
    /\ \/ keyStore = NoStore
       \/ /\ keyStore.pub \in SigningKeys
          /\ Len(keyStore.blobs) \in 1..MaxBlobs
    /\ flock \in Procs \cup {NoProc}
    /\ installed \in GatewayDigests
    /\ current \in SigningKeys \cup {NoKey}

\* The gate holds a digest, so that a blob would unseal, only between the two writes of
\* _open_gate_and_unseal in the process that holds the store lock, or after a process
\* died (or could not write) between them and until the next closing write.
GateClosed ==
    tpmGate \in GatewayDigests =>
        torn \/ \E p \in Procs : flock = p /\ proc[p].pc \in {"opened", "close"}

\* open_sealed_key mints nothing to recover: a gateway that starts holds the key relying
\* parties know, whatever died, changed or was lost before, unless the host was blank.
KeyContinuity ==
    [][\A p \in Procs :
          proc[p].pc # "running" /\ proc[p].pc # "reloaded" /\ proc'[p].pc = "running" =>
              current = NoKey \/ proc'[p].seed = current]_sealedVars

\* The store lock keeps a running gateway's key the one in force: no rotation, and no
\* second gateway with another key, happens beneath it (_with_tpm, HeldSealedKey).
HeldKeyCurrent ==
    \A p \in Procs : AtPc(p, "running") => proc[p].seed = current

\* The store has a blob of the running gateway's key for the digest it runs.
CanRestart(p) ==
    \E i \in 1..Len(keyStore.blobs) : keyStore.blobs[i] = Blob(proc[p].target, proc[p].seed)

\* A gateway whose held key says it is sealed can die and start again: the blob for the
\* digest it runs is in the store, however many reseals filled it.  Excepted is a write
\* that raised after os.replace: its blob may have pushed out, from a full store, the one
\* the held key counts on.
Restartable ==
    \A p \in Procs :
        AtPc(p, "running") /\ proc[p].sealed = proc[p].target /\ ~proc[p].unsure =>
            CanRestart(p)

\* A reseal that failed, or was refused because the bundle changed under it, is made up
\* for by a later reload (reseal_after_reload runs after every verified one), unless the
\* gateway stops first (the same write excepted).
ResealCatchesUp ==
    \A p \in Procs :
        AtPc(p, "running") /\ ~CanRestart(p) /\ ~proc[p].unsure ~>
            proc[p].pc \notin {"running", "reloaded"} \/ CanRestart(p)

\* From wherever a start stopped, with starts retried and the key rotated by the
\* operator, a gateway runs again: the one exception is a start that died between the
\* definition of the measurement index and its first extend, which every later start
\* refuses.
StartsAgain ==
    []<>(\E p \in Procs : AtPc(p, "running")) \/ <>[](index = "defined")

=============================================================================
