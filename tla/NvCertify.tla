------------------------------ MODULE NvCertify ------------------------------
(***************************************************************************)
(* The certified gateway measurement: tee/measurement.py brackets one      *)
(* TPM2_NV_Extend of the gateway's digest between two TPM2_NV_Certify, and *)
(* cmcp_verify/nv_certify.py appraises the pair.  Each TPM command is      *)
(* atomic and nothing holds the TPM between two commands, so the starts of *)
(* two gateways on one host interleave.  (A start that seals its key holds *)
(* the key store's lock throughout, SealedKey; this is the start that does *)
(* not.)                                                                   *)
(*                                                                         *)
(* The extend index holds H(... H(H(0 || d1) || d2) ...): with a           *)
(* collision-free hash that value is the sequence <<d1, d2, ...>>.         *)
(***************************************************************************)
EXTENDS Integers, Sequences, FiniteSets

CONSTANTS
    Starters,        \* gateway processes on the host
    Digests,         \* gateway measurements
    MaxStarts,       \* bound: starts made
    Seed             \* _INDEX_SEED, the first value extended into a new index

VARIABLES
    nv,            \* the NV index: "undefined", "defined" (never written), "written"
    nvValue,       \* its contents
    start,         \* per gateway: where its start is, and what it has read
    certs,         \* ghost: every blob the attestation key signed
    extends,       \* ghost: who made each extend, in order
    starts         \* ghost: starts made so far; also the nonce of each

nvVars == <<nv, nvValue, start, certs, extends, starts>>

Off == [at |-> "off"]

NvInit ==
    /\ nv = "undefined" /\ nvValue = <<>>
    /\ start = [g \in Starters |-> Off]
    /\ certs = {} /\ extends = <<>> /\ starts = 0

Move(g, at) == start' = [start EXCEPT ![g].at = at]

\* MeasurementUnavailable: the start is abandoned.
Unavailable(g) == start' = [start EXCEPT ![g] = Off]

\* _attestation_nonce: random, so no two starts share one.
AttestationNonce == starts + 1

\* _validate_measurement_nv_public of an index that is there.
IndexValid == nv = "written"

\* A start begins with its own nonce and the digest it measured.  An existing index
\* must validate as written; an absent one is defined.
BeginCertify(g, d) ==
    /\ start[g].at \in {"off", "started"} /\ starts < MaxStarts
    /\ starts' = starts + 1
    /\ LET s == [at |-> "certify_pre", nonce |-> AttestationNonce, digest |-> d] IN
        \/ /\ nv = "undefined"
           /\ start' = [start EXCEPT ![g] = [s EXCEPT !.at = "define"]]
        \/ /\ IndexValid
           /\ start' = [start EXCEPT ![g] = s]
        \/ nv # "undefined" /\ ~IndexValid /\ Unavailable(g)
    /\ UNCHANGED <<nv, nvValue, certs, extends>>

\* nv_define_space fails when the other start defined the index in between.
DefineExtendIndex(g) ==
    /\ start[g].at = "define"
    /\ \/ nv = "undefined" /\ nv' = "defined" /\ Move(g, "seed")
       \/ nv # "undefined" /\ Unavailable(g) /\ UNCHANGED nv
    /\ UNCHANGED <<nvValue, certs, extends, starts>>

NvExtend(g, d) ==
    /\ nv' = "written"
    /\ nvValue' = Append(nvValue, d)
    /\ extends' = Append(extends, start[g].nonce)

SeedIndex(g) ==
    /\ start[g].at = "seed"
    /\ NvExtend(g, Seed)
    /\ Move(g, "certify_pre")
    /\ UNCHANGED <<certs, starts>>

\* certify_qualifying_data binds the nonce and the phase into what the TPM signs.
Certificate(g, phase) == [nonce |-> start[g].nonce, phase |-> phase, value |-> nvValue]

CertifyPre(g) ==
    /\ start[g].at = "certify_pre"
    /\ certs' = certs \cup {Certificate(g, "pre")}
    /\ start' = [start EXCEPT ![g] =
                    [at |-> "read_before", nonce |-> @.nonce, digest |-> @.digest,
                     pre |-> Certificate(g, "pre")]]
    /\ UNCHANGED <<nv, nvValue, extends, starts>>

ReadBefore(g) ==
    /\ start[g].at = "read_before"
    /\ start' = [start EXCEPT ![g] =
                    [at |-> "extend", nonce |-> @.nonce, digest |-> @.digest, pre |-> @.pre,
                     before |-> nvValue]]
    /\ UNCHANGED <<nv, nvValue, certs, extends, starts>>

ExtendDigest(g) ==
    /\ start[g].at = "extend"
    /\ NvExtend(g, start[g].digest)
    /\ Move(g, "read_after")
    /\ UNCHANGED <<certs, starts>>

ReadAfter(g) ==
    /\ start[g].at = "read_after"
    /\ start' = [start EXCEPT ![g] =
                    [at |-> "certify_post", nonce |-> @.nonce, digest |-> @.digest, pre |-> @.pre,
                     before |-> @.before, after |-> nvValue]]
    /\ UNCHANGED <<nv, nvValue, certs, extends, starts>>

\* chains_from, on the two values the gateway read (not the two it certified).
ChainsFrom(g) == start[g].after = Append(start[g].before, start[g].digest)

CertifyPost(g) ==
    /\ start[g].at = "certify_post"
    /\ certs' = certs \cup {Certificate(g, "post")}
    /\ \/ /\ ChainsFrom(g)
          /\ start' = [start EXCEPT ![g] =
                [at |-> "started", nonce |-> @.nonce, digest |-> @.digest, pre |-> @.pre,
                 post |-> Certificate(g, "post")]]
       \/ ~ChainsFrom(g) /\ Unavailable(g)
    /\ UNCHANGED <<nv, nvValue, extends, starts>>

\* Any TPM command can fail, and the process can die, between two commands.
AbandonStart(g) ==
    /\ start[g].at # "off"
    /\ Unavailable(g)
    /\ UNCHANGED <<nv, nvValue, certs, extends, starts>>

NvNext ==
    \E g \in Starters :
        \/ \E d \in Digests : BeginCertify(g, d)
        \/ DefineExtendIndex(g) \/ SeedIndex(g) \/ CertifyPre(g) \/ ReadBefore(g)
        \/ ExtendDigest(g) \/ ReadAfter(g) \/ CertifyPost(g) \/ AbandonStart(g)

NvSpec == NvInit /\ [][NvNext]_nvVars
-----------------------------------------------------------------------------
\* build_envelope: the certified pair and the digest, as a claim carries them.
Envelope(pre, post, digest) == [pre |-> pre, post |-> post, digest |-> digest]

\* Defect: only the end of the post value is compared with the digest.
ExtendRelationOnTip(pre, post, digest) == post.value # <<>> /\ post.value[Len(post.value)] = digest

\* Step 8: the certified post value is the certified pre value extended by the digest.
ExtendRelation(pre, post, digest) == post.value = Append(pre.value, digest)

\* Step 5: each blob's phase and nonce are signed.
PhaseBound(pre, post, nonce) ==
    /\ pre.nonce = nonce /\ pre.phase = "pre"
    /\ post.nonce = nonce /\ post.phase = "post"

\* verify_gateway_measurement on an envelope [pre, post, digest], for a policy that
\* names the index (whose written Name, offset and size every blob here carries).
\* Steps 1-4 hold exactly for blobs the attestation key signed, which "certs" holds.
VerifyGatewayMeasurement(env, nonce, digest) ==
    /\ {env.pre, env.post} \subseteq certs
    /\ PhaseBound(env.pre, env.post, nonce)
    /\ env.digest = digest
    /\ ExtendRelation(env.pre, env.post, digest)

Between(pre, post) == (Len(pre.value) + 1) .. Len(post.value)

\* Whatever two signed blobs an envelope is put together from, the verifier accepts it
\* only if between the two certifications the index was extended exactly once, by the
\* start whose nonce it was given, with the digest the policy expects.  And it accepts
\* the pair of every gateway that came up unless another start extended the index
\* between that gateway's two certifications.
PairSound ==
    /\ \A pre, post \in certs, n \in 1 .. MaxStarts, d \in Digests :
        VerifyGatewayMeasurement(Envelope(pre, post, d), n, d) =>
            /\ Len(post.value) = Len(pre.value) + 1
            /\ extends[Len(post.value)] = n
            /\ nvValue[Len(post.value)] = d
    /\ \A g \in Starters :
        start[g].at = "started"
            /\ (\A i \in Between(start[g].pre, start[g].post) : extends[i] = start[g].nonce)
        => VerifyGatewayMeasurement(
                Envelope(start[g].pre, start[g].post, start[g].digest),
                start[g].nonce, start[g].digest)
=============================================================================
