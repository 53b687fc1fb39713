--------------------------- MODULE ClaimEvidence ---------------------------
(***************************************************************************)
(* One gateway from the opening of a session to its signed TRACE claim,    *)
(* against the relying party of TraceVerifier: the audit chain and its     *)
(* session epochs, the per-session attestation report of each platform,    *)
(* policy reloads, resets, kill-switch trips, the close that builds and    *)
(* signs the claim, the exported bundle and the refusal receipt.           *)
(*                                                                         *)
(* The claims of two other closed sessions exist beside it: an earlier one *)
(* of this gateway and one of another gateway on the same kind of machine. *)
(***************************************************************************)
EXTENDS TraceVerifier

CONSTANTS
  Self, Peer,      \* two gateways: each is its signing key and its machine
  Decisions,       \* policy decisions a tool_call entry may record
  MaxTrailCalls, MaxTrailResets, MaxPolicyReloads

VARIABLES
  provider,    \* the detected TEE provider
  atStartup,   \* the provider its startup report names
  bound,       \* BOOLEAN: an Agent Manifest is bound
  trail,       \* AuditChain._entries
  filed,       \* the chain's session id
  epoch,       \* SessionState.session_id
  report,      \* AuditChain._session_report, or Absent
  inForce,     \* the active policy bundle; 1 is the one loaded at startup
  triggered,  \* SessionState.kill_switch_triggered
  closing,     \* close_session has begun
  issued,      \* the signed claim, or Absent
  unrecorded   \* a session_reset entry could not be appended

claimVars == <<provider, atStartup, bound, trail, filed, epoch, report, inForce,
               triggered, closing, issued, unrecorded>>

-----------------------------------------------------------------------------
(* AuditChain.append: link to the last entry and hash. *)
Appending(t, body) ==
  LET prev == IF t = <<>> THEN GenesisHash ELSE t[Len(t)].hash
  IN Append(t, [body |-> body, prev |-> prev, hash |-> HashOf(prev, body)])

Body(kind, session) ==
  [kind |-> kind, session |-> session, decision |-> "n/a", closed |-> 0, to |-> 0]

(* make_audit_bound_nonce: the key's thumbprint, then the chain root. *)
MakeAuditBoundNonce(key, root) == <<key, root>>

(* What each provider returns for a nonce.  All machines of a platform run *)
(* the same approved image, so their measurement is named for it.  The     *)
(* certificate chain may be missing.                                       *)
AttestationReport(name, p, nonce, raw, sig, certs) ==
  [provider |-> name, nonce |-> nonce, meas |-> p, raw |-> raw, sig |-> sig, certs |-> certs]

RawReport(p, g, data) == [meas |-> p, data |-> data, by |-> g, ak |-> g, floor |-> g = Self]

Certificates(g) == {[leaf |-> g, ca |-> "vendor"], Absent}

SoftwareReport(p, nonce) ==
  { AttestationReport("software-only", p, nonce, Absent, Absent, Absent) }

(* Without a quote, or on the SHA-1 bank, a TPM report is software-only. *)
TpmReportWithoutQuote(nonce) == SoftwareReport("tpm", nonce)

(* A TPM quote commits the first half of the nonce only. *)
TpmReport(g, nonce) ==
  { AttestationReport("tpm", "tpm", nonce, RawReport("tpm", g, <<nonce[1]>>),
                      [over |-> <<"tpm", <<nonce[1]>> >>, by |-> g], certs) :
      certs \in Certificates(g) } \cup TpmReportWithoutQuote(nonce)

(* On Azure the SNP report commits the vTPM's key, which signs the nonce. *)
AzureCvmReport(g, nonce) ==
  { AttestationReport("azure-cvm-sev-snp", "azure-cvm-sev-snp", nonce,
                      RawReport("azure-cvm-sev-snp", g, <<g>>),
                      [over |-> nonce, by |-> g], certs) : certs \in Certificates(g) }

(* SNP and TDX reports carry the nonce itself and come without a chain. *)
SevSnpReport(g, nonce) ==
  { AttestationReport("sev-snp", "sev-snp", nonce, RawReport("sev-snp", g, nonce), Absent, Absent) }

TdxReport(g, nonce) ==
  { AttestationReport("tdx", "tdx", nonce, RawReport("tdx", g, nonce), Absent, Absent) }

(* The provider detect_provider chose. *)
Reports(p, g, nonce) ==
  CASE p = "tpm" -> TpmReport(g, nonce)
    [] p = "azure-cvm-sev-snp" -> AzureCvmReport(g, nonce)
    [] p = "sev-snp" -> SevSnpReport(g, nonce)
    [] p = "tdx" -> TdxReport(g, nonce)
    [] p = "software-only" -> SoftwareReport(p, nonce)

PlatformOf(p) ==
  CASE p = "tpm" -> "tpm2" [] p = "sev-snp" -> "amd-sev-snp"
    [] p = "tdx" -> "intel-tdx" [] OTHER -> p

(* _build_runtime and _build_evidence: a software-only report contributes  *)
(* neither its nonce nor a measurement.                                    *)
BuildRuntime(r) ==
  IF r.provider = "software-only"
  THEN [platform |-> "software-only", nonce |-> Absent, meas |-> "zero"]
  ELSE [platform |-> PlatformOf(r.provider), nonce |-> r.nonce, meas |-> r.meas]

(* generate_trace_claim over the chain t, signed with the gateway's key. *)
GenerateTraceClaim(g, t, session, r, policy, identity, killed) ==
  LET runtime == BuildRuntime(r)
      tip == t[Len(t)].hash
  IN [key |-> g, signer |-> g,
      platform |-> runtime.platform, nonce |-> runtime.nonce, meas |-> runtime.meas,
      raw |-> r.raw, sig |-> r.sig, certs |-> r.certs,
      root |-> t[1].hash, tip |-> tip, length |-> Len(t),
      transcript |-> tip, counts |-> Counted(t),
      session |-> session, policy |-> policy, catalog |-> "catalog",
      identity |-> identity, killed |-> killed]

(* The startup report, used when the per-session call failed and startup   *)
(* found no hardware, or a TPM it had to downgrade.                        *)
StartupReport ==
  [provider |-> "software-only", nonce |-> Absent, meas |-> "zero",
   raw |-> Absent, sig |-> Absent, certs |-> Absent]

(* The binding of startup; it carries no key, so the thumbprint is absent. *)
AgentIdentity ==
  IF bound
  THEN [agent |-> "agent", policy |-> 1, thumbprint |-> Absent, source |-> "config"]
  ELSE Absent

-----------------------------------------------------------------------------
(* The hardware providers in the order in which they are probed. *)
ProbeOrder == <<"azure-cvm-sev-snp", "tpm", "sev-snp", "tdx">>
Hardware == {ProbeOrder[i] : i \in 1..Len(ProbeOrder)}

(* detect_provider on a host with the hardware present: the requested      *)
(* provider, or the first one found; software only in development mode.    *)
(* Absent: the gateway does not start.                                     *)
DetectProvider(present, requested, devMode) ==
  LET found == SelectSeq(ProbeOrder, LAMBDA p : p \in present /\ requested \in {"auto", p})
  IN IF found # <<>> THEN Head(found)
     ELSE IF devMode /\ requested \in {"auto", "software-only"} THEN "software-only"
     ELSE Absent

ClaimInit ==
  /\ provider \in {DetectProvider(present, requested, devMode) :
                     present \in SUBSET Hardware, devMode \in BOOLEAN,
                     requested \in Hardware \cup {"auto", "software-only"}} \ {Absent}
  /\ bound \in BOOLEAN
  /\ atStartup \in {provider} \cup (IF provider = "tpm" THEN {"software-only"} ELSE {})
  /\ trail = <<>> /\ filed = 0 /\ epoch = 0 /\ report = Absent
  /\ inForce = 1 /\ triggered = FALSE /\ closing = FALSE
  /\ issued = Absent /\ unrecorded = FALSE

Resets == SelectSeq(trail, LAMBDA e : e.body.kind = "session_reset")

Serving == trail # <<>> /\ ~closing /\ ~triggered

(* _open_session: the chain starts, then the provider is asked for a       *)
(* report over a nonce that commits its root; a failed call leaves none.   *)
OpenSession ==
  /\ trail = <<>>
  /\ trail' = Appending(<<>>, Body("session_start", 1))
  /\ filed' = 1 /\ epoch' = 1
  /\ LET nonce == MakeAuditBoundNonce(Self, trail'[1].hash)
     IN report' \in Reports(provider, Self, nonce) \cup {Absent}
  /\ UNCHANGED <<provider, atStartup, bound, inForce, triggered, closing,
                 issued, unrecorded>>

BreakGlass(t) == Appending(t, Body("break_glass_used", filed))

(* A finished call, and observe_call: with a bound identity it may be the  *)
(* call after which the deny rate is over its threshold.                   *)
RecordToolCall(d) ==
  /\ Serving /\ Counted(trail).total < MaxTrailCalls
  /\ LET t == Appending(trail, [Body("tool_call", filed) EXCEPT !.decision = d])
     IN \E trips \in IF bound THEN BOOLEAN ELSE {FALSE} :
          /\ trail' = IF trips THEN BreakGlass(t) ELSE t
          /\ triggered' = trips
  /\ UNCHANGED <<provider, atStartup, bound, filed, epoch, report, inForce, closing, issued,
                 unrecorded>>

(* trip_identity: the operator's trip is recorded in the session. *)
TripIdentity ==
  /\ Serving /\ bound
  /\ trail' = BreakGlass(trail) /\ triggered' = TRUE
  /\ UNCHANGED <<provider, atStartup, bound, filed, epoch, report, inForce, closing, issued,
                 unrecorded>>

(* Defect: the chain moves to the successor before the boundary is filed. *)
ResetRotatesFirst ==
  /\ Serving /\ Len(Resets) < MaxTrailResets
  /\ epoch' = epoch + 1
  /\ filed' = epoch'
  /\ trail' = Appending(trail, [Body("session_reset", filed') EXCEPT
                                  !.closed = epoch, !.to = epoch'])
  /\ UNCHANGED <<provider, atStartup, bound, report, inForce, triggered, closing,
                 issued, unrecorded>>

(* _session_reset: the state takes its successor id, the boundary is filed *)
(* under the closed session, then the chain moves on.                      *)
ResetTo ==
  /\ Serving /\ Len(Resets) < MaxTrailResets
  /\ epoch' = epoch + 1
  /\ trail' = Appending(trail, [Body("session_reset", filed) EXCEPT
                                  !.closed = epoch, !.to = epoch'])
  /\ filed' = epoch'
  /\ UNCHANGED <<provider, atStartup, bound, report, inForce, triggered, closing,
                 issued, unrecorded>>

(* The boundary cannot be appended: apply_reset has happened, the rotation *)
(* of the chain's id has not.                                              *)
ResetNotRecorded ==
  /\ Serving /\ ~unrecorded
  /\ epoch' = epoch + 1 /\ unrecorded' = TRUE
  /\ UNCHANGED <<provider, atStartup, bound, trail, filed, report, inForce, triggered,
                 closing, issued>>

(* A policy reload swaps the bundle; the manifest binding stays. *)
ReloadPolicy ==
  /\ Serving /\ inForce <= MaxPolicyReloads
  /\ inForce' = inForce + 1
  /\ UNCHANGED <<provider, atStartup, bound, trail, filed, epoch, report, triggered, closing,
                 issued, unrecorded>>

Ended == Appending(trail, Body("session_end", filed))

(* close_session on a hardware provider without a session report: the      *)
(* session is ended and no claim is issued, now or on a retry.             *)
RefuseUnboundClaim ==
  /\ trail # <<>> /\ ~closing
  /\ report = Absent /\ atStartup # "software-only"
  /\ closing' = TRUE /\ trail' = Ended
  /\ UNCHANGED <<provider, atStartup, bound, filed, epoch, report, inForce, triggered, issued,
                 unrecorded>>

(* close_session: session_end, the close-time deny-rate evaluation for an  *)
(* identity not stopped yet, then the claim over the chain as it is now.   *)
CloseSession ==
  /\ trail # <<>> /\ ~closing
  /\ report # Absent \/ atStartup = "software-only"
  /\ closing' = TRUE
  /\ \E trips \in IF bound /\ ~triggered THEN BOOLEAN ELSE {FALSE} :
       /\ trail' = IF trips THEN BreakGlass(Ended) ELSE Ended
       /\ triggered' = (triggered \/ trips)
  /\ issued' = GenerateTraceClaim(Self, trail', epoch,
                 IF report = Absent THEN StartupReport ELSE report,
                 inForce, AgentIdentity, triggered')
  /\ UNCHANGED <<provider, atStartup, bound, filed, epoch, report, inForce, unrecorded>>

ClaimNext ==
  \/ OpenSession \/ TripIdentity \/ ResetTo \/ ResetNotRecorded
  \/ ReloadPolicy \/ RefuseUnboundClaim \/ CloseSession
  \/ \E d \in Decisions : RecordToolCall(d)

ClaimSpec == ClaimInit /\ [][ClaimNext]_claimVars

-----------------------------------------------------------------------------
(* get_audit_bundle: the entries so far, signed, if verify_chain passes. *)
AuditBundle(t) == [entries |-> t, signer |-> Self]

RefusalReceipt ==
  [agent |-> "agent", session |-> epoch, key |-> Self, signer |-> Self, digest |-> issued]

(* Closed sessions of this gateway and of the other one. *)
ClosedElsewhere(g, session) ==
  LET t == Appending(Appending(<<>>, Body("session_start", session)), Body("session_end", session))
  IN { GenerateTraceClaim(g, t, session, r, 2, Absent, FALSE) :
         r \in Reports(provider, g, MakeAuditBoundNonce(g, t[1].hash)) }

(* Relying parties that approve what the claim reports.  Some also give    *)
(* the digest of the approved build.                                       *)
Approving(c) ==
  [key : {Absent, c.key}, policy : {c.policy}, catalog : {c.catalog},
   manifest : IF bound /\ inForce = 1 THEN {Absent, 1} ELSE {Absent},
   late : {FALSE}, digest : {Absent, "build"}, ca : {Absent, "vendor"},
   launch : {Absent, {c.meas}}, floor : {FALSE}]

RootedInSilicon(c, rp) ==
  c.platform \in {"tpm2", "azure-cvm-sev-snp"} /\ c.certs # Absent /\ rp.ca # Absent

(* Whatever happened in the session (calls, resets, trips, a reload, a     *)
(* downgraded TPM, a missing certificate chain), the claim that            *)
(* close_session issues fails no check of a relying party that approves    *)
(* its policy, catalog and image; it is VERIFIED exactly when its evidence *)
(* reaches the pinned vendor root; the exported bundle verifies against    *)
(* it; and when the kill switch stopped the session the refusal receipt    *)
(* does too.  Three exceptions: a reset whose boundary entry could not be  *)
(* appended, for the bundle; a reload, for the manifest cross-check; and   *)
(* step 7c: a hardware claim always carries the session's own report,      *)
(* which commits the chain root where the digest of the build would be, so *)
(* a relying party that gives that digest gets MEASUREMENT_NOT_BOUND for   *)
(* every one of them (manager.py close_session, verify.py, kill_switch.py).*)
IssuedEvidenceVerifies ==
  issued # Absent =>
    /\ \A rp \in Approving(issued) :
         LET measured == rp.digest # Absent /\ ~IsSoftwareOnly(issued)
         IN /\ FailureReason(issued, rp) = IF measured THEN "MEASUREMENT_NOT_BOUND" ELSE "none"
            /\ (VerifyTraceClaim(issued, rp) = "VERIFIED")
                 <=> (RootedInSilicon(issued, rp) /\ rp.launch # Absent /\ ~measured)
    /\ unrecorded \/ VerifyAuditBundle(AuditBundle(trail), issued)
    /\ triggered <=> VerifyKillSwitchRefusal(RefusalReceipt, issued)

(* A document put together from the issued claim and the claim o of        *)
(* another session: runtime section, raw evidence, signature and           *)
(* certificates, and the gateway's own statements may each come from       *)
(* either.  It is signed by the gateway of the key it presents, or not at  *)
(* all.                                                                    *)
Assembled(o) ==
  { [[[[[d EXCEPT !.nonce = a.nonce, !.meas = a.meas, !.platform = a.platform]
            EXCEPT !.raw = e.raw]
            EXCEPT !.sig = s.sig, !.certs = s.certs]
            EXCEPT !.key = k.key]
            EXCEPT !.signer = signer] :
      d \in {issued, o}, a \in {issued, o}, e \in {issued, o}, s \in {issued, o},
      k \in {issued, o}, signer \in {Self, Peer, NoSigner} }

Demanding ==
  [key : {Absent}, policy : {1, 2}, catalog : {"catalog"}, manifest : {Absent},
   late : {FALSE}, digest : {Absent}, ca : {Absent, "vendor"},
   launch : {{provider}}, floor : BOOLEAN]

(* Bundles that are not the chain behind the claim: an earlier export, one *)
(* entry left out or one decision changed, as is or with the hashes        *)
(* recomputed.                                                             *)
Rehashed(bodies) ==
  [i \in 1..Len(bodies) |->
     [body |-> bodies[i], prev |-> SubSeq(bodies, 1, i - 1), hash |-> SubSeq(bodies, 1, i)]]

Doctored(t) ==
  LET bodies == [i \in 1..Len(t) |-> t[i].body]
      without(s, i) == SubSeq(s, 1, i - 1) \o SubSeq(s, i + 1, Len(s))
      changed == {[t EXCEPT ![i].body.decision = "allow"] : i \in 1..Len(t)}
      rewritten == {[bodies EXCEPT ![i].decision = "allow"] : i \in 1..Len(t)}
  IN {SubSeq(t, 1, i) : i \in 0..Len(t)} \cup {without(t, i) : i \in 1..Len(t)} \cup changed
       \cup {Rehashed(b) : b \in rewritten \cup {without(bodies, i) : i \in 1..Len(t)}}

(* What the platform's key signed: on Azure the vTPM's quote over the      *)
(* nonce, elsewhere the report's own data.                                 *)
HardwareSigned(c) == IF c.platform = "azure-cvm-sev-snp" THEN c.sig.over ELSE c.raw.data

(* What VERIFIED and an accepted bundle mean: of all documents assembled   *)
(* from the claims of several sessions, one that a relying party reports   *)
(* VERIFIED was signed by the key the hardware signed for, carries that    *)
(* machine's evidence and reports the approved policy; on Azure the        *)
(* hardware signed for its chain root too (for a TPM see                   *)
(* ChainRootAttested).  A bundle accepted with the claim is the whole      *)
(* chain up to the close (verify.py verify_trace_claim,                    *)
(* verify_audit_bundle).                                                   *)
VerifiedEvidenceBound ==
  issued # Absent =>
    /\ \A o \in ClosedElsewhere(Self, 7) \cup ClosedElsewhere(Peer, 8) :
         \A c \in Assembled(o), rp \in Demanding :
           VerifyTraceClaim(c, rp) = "VERIFIED" =>
             /\ c.signer = c.key /\ c.raw.by = c.key /\ c.policy = rp.policy
             /\ HardwareSigned(c)[1] = c.key
             /\ c.platform = "azure-cvm-sev-snp" =>
                  HardwareSigned(c) = MakeAuditBoundNonce(c.key, c.root)
    /\ \A t \in Doctored(trail) :
         VerifyAuditBundle(AuditBundle(t), issued) => t = trail

(* What create_session and step 7b say of hardware: in a VERIFIED claim    *)
(* the chain root was attested with the key, "the hardware-signed          *)
(* report_data binds BOTH the gateway key ... and this chain's root".      *)
ChainRootAttested ==
  issued # Absent =>
    \A rp \in Approving(issued) :
      VerifyTraceClaim(issued, rp) = "VERIFIED" =>
        HardwareSigned(issued) = MakeAuditBoundNonce(issued.key, issued.root)
=============================================================================
