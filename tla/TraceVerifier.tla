--------------------------- MODULE TraceVerifier ---------------------------
(***************************************************************************)
(* The relying party's side (cmcp_verify): what verify_trace_claim,        *)
(* verify_audit_bundle and verify_kill_switch_refusal accept.  Pure        *)
(* operators over a claim c, an exported bundle b, a refusal receipt r and *)
(* the relying party's own inputs rp.                                      *)
(*                                                                         *)
(* Digests are ideal: the hash of an entry is the sequence of the bodies   *)
(* up to it, a commitment is the value it commits to.  A signature is the  *)
(* name of the key that made it over what is presented; anything edited    *)
(* after signing carries NoSigner.                                         *)
(*                                                                         *)
(* A claim has the fields key, signer, platform, nonce, meas, raw, sig,    *)
(* certs, root, tip, length, transcript, counts, session, policy, catalog, *)
(* identity, killed.  A relying party has key, policy, catalog, manifest,  *)
(* late, digest, ca, launch, floor; Absent is what it did not supply.      *)
(***************************************************************************)
EXTENDS Naturals, Sequences

LOCAL INSTANCE SequencesExt

CONSTANTS
  Absent,     \* a field, a piece of evidence or a pin that is not there
  NoSigner    \* the signer of content edited after it was signed

(* The chain starts from the "genesis" hash. *)
GenesisHash == <<>>

HashOf(prev, body) == Append(prev, body)

-----------------------------------------------------------------------------
(* Steps 2 to 7c: the claim against itself and against the pins.           *)

VerifySignature(c) == c.signer = c.key

IsSoftwareOnly(c) == c.platform = "software-only"

(* CRYPTO-001: the first half of the attested nonce is the claim's key. *)
VerifyKeyBinding(c) ==
  IsSoftwareOnly(c) \/ (c.nonce # Absent /\ c.nonce[1] = c.key)

TrustedPublicKey(c, rp) == rp.key = Absent \/ rp.key = c.key

(* verify_agent_manifest_binding: the manifest names the policy it binds. *)
VerifyAgentManifestBinding(manifest, policy) == policy = manifest

(* The binding is recomputed with the policy hash the claim reports; the   *)
(* identity in the claim, made at startup, must equal it.                  *)
VerifyAgentManifest(c, rp) ==
  \/ rp.manifest = Absent
  \/ /\ c.identity # Absent
     /\ VerifyAgentManifestBinding(rp.manifest, c.policy)
     /\ c.identity.policy = c.policy

(* Step 5b (#425): a key thumbprint counts only for a subject that was     *)
(* authenticated live; asked whether or not a manifest is supplied.        *)
LiveAuthenticatedSubjectSources == {"svid"}

ThumbprintBound(c) ==
  \/ c.identity = Absent \/ c.identity.thumbprint = Absent
  \/ c.identity.source \in LiveAuthenticatedSubjectSources

CheckAttestationFreshness(rp) == ~rp.late

CheckAuditChain(c) == c.root # GenesisHash /\ c.tip # GenesisHash /\ c.length >= 1

(* AUDIT-006: the second half of the attested nonce is the chain root. *)
CheckAuditChainBinding(c) ==
  IF c.nonce = Absent THEN IsSoftwareOnly(c) ELSE c.nonce[2] = c.root

(* #552: the same half against the digest of the approved build, opt-in. *)
CheckMeasurementBinding(c, rp) ==
  \/ rp.digest = Absent
  \/ IF c.nonce = Absent THEN IsSoftwareOnly(c) ELSE c.nonce[2] = rp.digest

-----------------------------------------------------------------------------
(* Step 8: the platform evidence.  Each verifier says "verified" (rooted   *)
(* in the pinned vendor certificate), "unverified" (consistent, but the    *)
(* chain or the pin is missing) or "failed".                               *)

(* Defect: the quote is accepted for any key, as a blob that parses. *)
TpmMeasurementOfAnyKey(c) ==
  c.raw # Absent /\ c.raw.meas = c.meas

(* The quote commits the thumbprint of the claim's key and the PCR digest. *)
VerifyTpmMeasurement(c) ==
  c.raw # Absent /\ c.raw.meas = c.meas /\ c.raw.data = <<c.key>>

VerifyAkEkChain(c, rp) == c.certs.ca = rp.ca

VerifyQuoteSignature(c) ==
  c.sig.over = <<c.raw.meas, c.raw.data>> /\ c.sig.by = c.certs.leaf

TpmAttestation(c, rp) ==
  IF ~VerifyTpmMeasurement(c) THEN "failed"
  ELSE IF c.sig = Absent \/ c.certs = Absent \/ rp.ca = Absent THEN "unverified"
  ELSE IF VerifyAkEkChain(c, rp) /\ VerifyQuoteSignature(c) THEN "verified"
  ELSE "failed"

(* A required platform floor cannot be met without the certificate chain. *)
WithoutChain(rp) == IF rp.floor THEN "failed" ELSE "unverified"

VerifyVcekChain(c, rp) == c.certs.ca = rp.ca

VerifySnpReportSignature(c) == c.raw.by = c.certs.leaf

AppraisePlatform(c, rp) == rp.floor => c.raw.floor

(* The common end of both SNP verifiers: chain, report signature, floor. *)
SnpRoot(c, rp) ==
  IF c.certs = Absent \/ rp.ca = Absent THEN WithoutChain(rp)
  ELSE IF /\ VerifyVcekChain(c, rp)
          /\ VerifySnpReportSignature(c)
          /\ AppraisePlatform(c, rp) THEN "verified"
  ELSE "failed"

(* SEV-SNP: the signed report carries the measurement and the whole nonce. *)
VerifySevSnpMeasurement(c, rp) ==
  IF c.raw.meas = c.meas /\ c.raw.data = c.nonce THEN SnpRoot(c, rp) ELSE "failed"

SevSnpAttestation(c, rp) ==
  IF c.raw = Absent THEN "failed" ELSE VerifySevSnpMeasurement(c, rp)

(* The AK the SNP report commits to signed the quote over the nonce. *)
VerifyAkQuote(c) == c.raw.data = <<c.raw.ak>> /\ c.sig = [over |-> c.nonce, by |-> c.raw.ak]

(* Azure: silicon signs the AK, the AK signs the nonce. *)
VerifyAzureCvmMeasurement(c, rp) ==
  IF c.raw.meas = c.meas /\ VerifyAkQuote(c) THEN SnpRoot(c, rp) ELSE "failed"

AzureCvmAttestation(c, rp) ==
  IF c.raw = Absent \/ c.sig = Absent THEN "failed" ELSE VerifyAzureCvmMeasurement(c, rp)

(* TDX: a TDREPORT alone is unsigned, and a claim that fits the schema has *)
(* no field for the DCAP quote, so the best outcome is "unverified".       *)
VerifyTdxMeasurement(c) == c.raw.meas = c.meas /\ c.raw.data = c.nonce

TdxAttestation(c) ==
  IF c.raw # Absent /\ VerifyTdxMeasurement(c) THEN "unverified" ELSE "failed"

SupportedPlatforms ==
  {"software-only", "tpm2", "azure-cvm-sev-snp", "amd-sev-snp", "intel-tdx"}

HardwareAttestation(c, rp) ==
  CASE IsSoftwareOnly(c) -> "unverified"
    [] c.platform = "tpm2" -> TpmAttestation(c, rp)
    [] c.platform \notin SupportedPlatforms -> "unsupported"
    [] c.platform \in SupportedPlatforms \ {"tpm2"} /\ c.nonce = Absent -> "failed"
    [] c.platform = "azure-cvm-sev-snp" -> AzureCvmAttestation(c, rp)
    [] c.platform = "amd-sev-snp" -> SevSnpAttestation(c, rp)
    [] c.platform = "intel-tdx" -> TdxAttestation(c)

LaunchMeasurement(c, rp) ==
  CASE HardwareAttestation(c, rp) # "verified" -> "not asked"
    [] rp.launch = Absent -> "unverified"
    [] OTHER -> IF c.meas \in rp.launch THEN "verified" ELSE "failed"

PlatformFloor(c, rp) ==
  rp.floor => /\ c.platform \in {"azure-cvm-sev-snp", "amd-sev-snp"}
              /\ HardwareAttestation(c, rp) = "verified"

-----------------------------------------------------------------------------
(* The verdict: the first failure in the order of the steps, except that   *)
(* an unbound key overrides a bad signature.                               *)

Checks(c, rp) ==
  << <<"SIGNATURE_INVALID",           VerifySignature(c)>>,
     <<"PUBLIC_KEY_NOT_BOUND",        TrustedPublicKey(c, rp)>>,
     <<"POLICY_HASH_MISMATCH",        c.policy = rp.policy>>,
     <<"CATALOG_HASH_MISMATCH",       c.catalog = rp.catalog>>,
     <<"AGENT_MANIFEST_MISMATCH",     VerifyAgentManifest(c, rp)>>,
     <<"AGENT_KEY_THUMBPRINT_UNBOUND_SUBJECT", ThumbprintBound(c)>>,
     <<"ATTESTATION_STALE",           CheckAttestationFreshness(rp)>>,
     <<"CHAIN_BROKEN",                CheckAuditChain(c)>>,
     <<"CHAIN_ROOT_NOT_BOUND",        CheckAuditChainBinding(c)>>,
     <<"MEASUREMENT_NOT_BOUND",       CheckMeasurementBinding(c, rp)>>,
     <<"UNSUPPORTED_PROVIDER",        HardwareAttestation(c, rp) # "unsupported">>,
     <<"HARDWARE_ATTESTATION_FAILED", /\ HardwareAttestation(c, rp) # "failed"
                                      /\ LaunchMeasurement(c, rp) # "failed"
                                      /\ PlatformFloor(c, rp)>> >>

FailureReason(c, rp) ==
  LET failed == SelectSeq(Checks(c, rp), LAMBDA check : ~check[2])
  IN IF ~VerifyKeyBinding(c) THEN "PUBLIC_KEY_NOT_BOUND"
     ELSE IF failed = <<>> THEN "none" ELSE failed[1][1]

(* The schema of a claim modelled here is always valid, so a failed claim  *)
(* is PARTIALLY_VERIFIED and never UNVERIFIED.                             *)
VerifyTraceClaim(c, rp) ==
  IF /\ LaunchMeasurement(c, rp) = "verified"
     /\ FailureReason(c, rp) = "none"
  THEN "VERIFIED" ELSE "PARTIALLY_VERIFIED"

-----------------------------------------------------------------------------
(* An exported bundle: [entries, signer], each entry [body, prev, hash],   *)
(* each body [kind, session, decision, closed, to].                        *)

Intact(entries) ==
  \A i \in 1..Len(entries) :
    /\ entries[i].hash = HashOf(entries[i].prev, entries[i].body)
    /\ entries[i].prev = IF i = 1 THEN GenesisHash ELSE entries[i - 1].hash

(* Every change of session is a recorded reset; 0 is a broken boundary,    *)
(* otherwise the session the bundle ends in.                               *)
CheckSessionEpochs(entries) ==
  LET Follow(current, e) ==
        CASE e.body.session # current -> 0
          [] e.body.session = current /\ e.body.kind # "session_reset" -> current
          [] OTHER -> IF e.body.closed = current THEN e.body.to ELSE 0
  IN FoldLeft(Follow, entries[1].body.session, entries)

Calls(entries, decisions) ==
  Len(SelectSeq(entries, LAMBDA e : e.body.kind = "tool_call" /\ e.body.decision \in decisions))

(* The call summary both sides derive from the tool_call entries. *)
Counted(entries) ==
  [total   |-> Len(SelectSeq(entries, LAMBDA e : e.body.kind = "tool_call")),
   allowed |-> Calls(entries, {"allow"}),
   denied  |-> Calls(entries, {"deny", "advisory_deny"}),
   faulted |-> Calls(entries, {"fault"})]

MatchesClaim(entries, c) ==
  /\ c.transcript = c.tip
  /\ c.counts = Counted(entries)
  /\ c.root = entries[1].hash
  /\ c.tip = Last(entries).hash
  /\ c.length = Len(entries)

VerifyAuditBundle(b, c) ==
  /\ b.entries # <<>>
  /\ Intact(b.entries)
  /\ CheckSessionEpochs(b.entries) = c.session
  /\ MatchesClaim(b.entries, c)
  /\ b.signer = c.key

(* A refusal receipt [agent, session, key, signer, digest]: the digest is  *)
(* the claim it was issued after.                                          *)
VerifyKillSwitchRefusal(r, c) ==
  /\ VerifySignature(c)
  /\ r.key = c.key /\ r.signer = r.key
  /\ r.session = c.session
  /\ c.killed
  /\ r.digest = c
  /\ c.identity # Absent => r.agent = c.identity.agent
=============================================================================
