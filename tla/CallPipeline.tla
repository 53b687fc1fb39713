---------------------------- MODULE CallPipeline ----------------------------
(***************************************************************************)
(* Concurrent tool calls of one session inside CMCPProxy: what call_tool   *)
(* and _call_tool_impl (mcp/proxy.py) do between admission and the result. *)
(* The admission gate itself is GatewayLifecycle's subject, the store      *)
(* behind the session's sensitivity is SharedSession's.                    *)
(*                                                                         *)
(* An action is the code between two awaits.  The only awaits of a call    *)
(* are the wait for a server's tools/list, the transport and the session   *)
(* update: from the drift verdict to the first transport byte nothing else *)
(* runs, so Decide and Forward belong to the action that has the verdict.  *)
(*                                                                         *)
(* A sensitivity label is its rank.  Policies, responses, tokens and       *)
(* provenance records are their verdicts, chosen by \E.                    *)
(***************************************************************************)
EXTENDS Integers, Sequences, FiniteSets

CONSTANTS
    Calls,          \* tool calls, each made once
    Tools,          \* tools of the attested catalog
    Servers,        \* upstream servers
    ServerOf,       \* ServerOf[tool]
    LevelOf,        \* LevelOf[tool]: catalogued sensitivity_level
    Ceiling,        \* Ceiling[tool]: tool_ceilings of the sink policy
    ReplyCeiling,   \* response_ceiling of the sink policy
    MaxLevel,       \* rank of the highest recognised label
    Pinned,         \* servers whose TLS certificate is pinned
    Declared,       \* declared_data_class values of the calls: see NoClass
    Modes,          \* configurations: see ModeType
    MaxReloads,     \* bound on policy reloads that install a bundle
    MaxLost,        \* bound on failing appends to the audit store
    NoTool, NoCall

\* enforcement_mode, drift_policy, TRACE gate, sink policy, whether the catalog has the hash
\* the proxy was built for, calls per session (max_tool_calls)
ModeType == [enforcing : BOOLEAN, failClosed : BOOLEAN, gated : BOOLEAN, sinks : BOOLEAN,
             sealed : BOOLEAN, budget : Nat]

ASSUME PipelineAssumption ==
    /\ ServerOf \in [Tools -> Servers]
    /\ MaxLevel \in Nat /\ MaxReloads \in Nat /\ MaxLost \in Nat
    /\ LevelOf \in [Tools -> 0..MaxLevel] /\ Ceiling \in [Tools -> 0..MaxLevel]
    /\ ReplyCeiling \in 0..MaxLevel
    /\ Pinned \subseteq Servers
    /\ Declared \subseteq -1..(MaxLevel + 1)
    /\ Modes \subseteq ModeType
    /\ NoTool \notin Tools /\ NoCall \notin Calls

VARIABLES
    mode,       \* the configuration the process was started with
    call,       \* call[c]: the frame of _call_tool_impl and its _CallFinalizationState
    trail,      \* trail[c]: terminal audit entries appended for c
    receipt,    \* receipt[c]: what the TRACE gate's ledger says of c
    left,       \* ghost: calls whose request bytes left the process
    logged,     \* calls in the session call log
    level,      \* session.max_sensitivity
    attestation,\* fresh; expired: older than its validity; stale: session.attestation_stale
    drift,      \* session.catalog_drift
    listing,    \* listing[s]: _advertised[s] as compared with the catalog
    asking,     \* asking[s]: the call that holds s's discovery lock
    checked,    \* _drift_checked
    spent,      \* calls the runtime gateway counted
    policy,     \* number of the bundle in force, standing for its hash
    failed,     \* _failed_terminal_call is set
    lost        \* appends that failed so far

sessionVars == <<level, attestation, drift>>
discoveryVars == <<listing, asking, checked>>
auditVars == <<trail, receipt, logged, failed, lost>>
pipelineVars == <<mode, call, auditVars, left, sessionVars, discoveryVars, spent, policy>>

\* A declared_data_class is a rank, NoClass when absent, or a label the order does not have:
\* the sink policy refuses such a label as it refuses one above every ceiling.
NoClass == -1
Unrecognised == MaxLevel + 1
MaxRank(S) == CHOOSE x \in S : \A y \in S : y <= x

Fresh == [pc |-> "idle", tool |-> NoTool, class |-> NoClass, before |-> 0,
          boundary |-> "pre_transport", handle |-> FALSE, digest |-> 0, result |-> "none"]

\* The frame is gone when the call returns or raises.
Ended(result) == [Fresh EXCEPT !.pc = "done", !.result = result]

PipelineInit ==
    /\ mode \in Modes
    /\ call = [c \in Calls |-> Fresh]
    /\ trail = [c \in Calls |-> <<>>]
    /\ receipt = [c \in Calls |-> "none"]
    /\ left = {} /\ logged = {}
    /\ level = 0 /\ attestation = "fresh" /\ drift = FALSE
    /\ listing = [s \in Servers |-> "unknown"]
    /\ asking = [s \in Servers |-> NoCall]
    /\ checked = {}
    /\ spent = 0 /\ policy = 0
    /\ failed = FALSE /\ lost = 0

-----------------------------------------------------------------------------
(* Terminal audit entries.                                                 *)

\* Defect: every fault is taken to have happened before the transport.
DispositionForgets(r) == "not_attempted"

Disposition(r) == IF r.boundary = "pre_transport" THEN "not_attempted" ELSE "outcome_unknown"

\* The TRACE ledger keeps the first receipt of a call.
Receipted(c, r, allowed) ==
    IF r.handle /\ receipt[c] = "none"
    THEN [receipt EXCEPT ![c] = IF allowed THEN "allow" ELSE "deny"]
    ELSE receipt

\* One append to the chain: it is durable when it returns, or it raises.
AppendFails == lost < MaxLost /\ lost' = lost + 1

\* _append_call_terminal: the receipt, given here as the ledger after it, precedes the entry.
Persist(c, r, kind, ledger) ==
    /\ trail' = [trail EXCEPT ![c] = Append(@, [kind |-> kind, disposition |-> Disposition(r)])]
    /\ receipt' = ledger
    /\ UNCHANGED failed

\* The exception travels to call_tool with the frame r.
Raising(c, r) == call' = [call EXCEPT ![c] = [r EXCEPT !.pc = "raise"]]

TerminalWritten(c, r, kind, result, ledger) ==
    /\ Persist(c, r, kind, ledger)
    /\ call' = [call EXCEPT ![c] = Ended(result)]
    /\ UNCHANGED lost

TerminalLost(c, r, ledger) ==
    /\ AppendFails
    /\ receipt' = ledger
    /\ Raising(c, r)
    /\ UNCHANGED <<trail, failed>>

\* The terminal, then the call's result; or its append raises.
Terminal(c, r, kind, result) ==
    LET ledger == Receipted(c, r, kind = "allow")
    IN  TerminalWritten(c, r, kind, result, ledger) \/ TerminalLost(c, r, ledger)

Raise(c, r) == Raising(c, r) /\ UNCHANGED <<trail, receipt, failed, lost>>

\* _record_call puts the call in the log, and may then find a suspicious sequence, whose
\* entry is an append like any other.
RecordCall(c) == logged' = logged \cup {c}

SuspiciousAppendFails(c, r) == RecordCall(c) /\ AppendFails /\ Raising(c, r)

\* The terminal and, once it is written, _record_call.
TerminalAndRecord(c, r, kind, result, ledger) ==
    \/ TerminalWritten(c, r, kind, result, ledger) /\ RecordCall(c)
    \/ Persist(c, r, kind, ledger) /\ SuspiciousAppendFails(c, r)
    \/ TerminalLost(c, r, ledger) /\ UNCHANGED logged

\* A refusal that returns a CallResult without an entry of its own.
Unrecorded(c) ==
    /\ call' = [call EXCEPT ![c] = Ended("refused")]
    /\ UNCHANGED <<trail, receipt, failed, lost>>

Denied(c, r) == TerminalAndRecord(c, r, "deny", "refused", Receipted(c, r, FALSE))

\* Defect: an exception is always given a fault entry.
FinalizeAgain(c) ==
    /\ call[c].pc = "raise"
    /\ trail' = [trail EXCEPT ![c] =
                    Append(@, [kind |-> "fault", disposition |-> Disposition(call[c])])]
    /\ call' = [call EXCEPT ![c] = Ended("error")]
    /\ receipt' = Receipted(c, call[c], FALSE)
    /\ UNCHANGED <<mode, left, logged, sessionVars, discoveryVars, spent, policy, failed, lost>>

\* _finalize_unexpected_call_failure as call_tool's except clause runs it.
FinalizeUnexpectedCallFailure(c) ==
    /\ call[c].pc = "raise"
    /\ call' = [call EXCEPT ![c] = Ended("error")]
    /\ \/ trail[c] # <<>> /\ UNCHANGED <<trail, receipt, failed, lost>>
       \/ /\ trail[c] = <<>>
          /\ trail' = [trail EXCEPT ![c] =
                          Append(@, [kind |-> "fault", disposition |-> Disposition(call[c])])]
          /\ receipt' = Receipted(c, call[c], FALSE)
          /\ UNCHANGED <<failed, lost>>
       \/ /\ trail[c] = <<>>
          /\ AppendFails
          /\ failed' = TRUE
          /\ receipt' = Receipted(c, call[c], FALSE)
          /\ UNCHANGED trail
    /\ UNCHANGED <<mode, left, logged, sessionVars, discoveryVars, spent, policy>>

-----------------------------------------------------------------------------
(* Sink policy and session sensitivity.                                    *)

Labels(r, session) ==
    {r.before, session, LevelOf[r.tool]} \cup (IF r.class = NoClass THEN {} ELSE {r.class})

SinkRefuses(r, ceiling, session) == mode.sinks /\ MaxRank(Labels(r, session)) > ceiling

\* _max_sensitivity over the tags of the response: an unrecognised label raises nothing.
Folded(r) ==
    MaxRank({level, LevelOf[r.tool]} \cup (IF r.class \in 0..MaxLevel THEN {r.class} ELSE {}))

-----------------------------------------------------------------------------
(* From admission to the drift check.                                      *)

\* call_tool after hydrate: the frame the pipeline starts with.  With a TRACE gate the
\* holder proof is bound to the policy digest of this moment.
Entered(tool, class) ==
    [Fresh EXCEPT !.tool = tool, !.class = class, !.before = level,
                  !.handle = mode.gated, !.digest = IF mode.gated THEN policy ELSE 0]

Unhealthy == attestation # "fresh" \/ drift \/ ~mode.sealed

EnterUnchanged == UNCHANGED <<mode, left, sessionVars, discoveryVars, spent, policy>>

\* hydrate or the serialization of the arguments raises.
FailOnEntry(c) ==
    /\ call[c].pc = "idle" /\ ~failed
    /\ \E tool \in Tools : Raise(c, [Entered(tool, NoClass) EXCEPT !.handle = FALSE])
    /\ EnterUnchanged /\ UNCHANGED logged

\* _trace_begin: the gate does not accept the holder proof.
RefuseCredentials(c) ==
    /\ call[c].pc = "idle" /\ ~failed
    /\ mode.gated
    /\ \E tool \in Tools :
          Terminal(c, [Entered(tool, NoClass) EXCEPT !.handle = FALSE], "deny", "refused")
    /\ EnterUnchanged /\ UNCHANGED logged

\* _check_execution_available: any execution_id is refused.
RefuseExecution(c) ==
    /\ call[c].pc = "idle" /\ ~failed
    /\ \E tool \in Tools : Denied(c, Entered(tool, NoClass))
    /\ EnterUnchanged

\* _check_health refuses without a terminal.  Its flag is set first; the first detection
\* then appends an entry of the session, which can fail.
Unhealthily(c, first) ==
    /\ call[c].pc = "idle" /\ ~failed
    /\ \/ Unrecorded(c)
       \/ /\ first /\ AppendFails
          /\ \E tool \in Tools : Raising(c, Entered(tool, NoClass))
          /\ UNCHANGED <<trail, receipt, failed>>
    /\ UNCHANGED <<mode, left, logged, level, discoveryVars, spent, policy>>

RefuseStale(c) ==
    /\ attestation # "fresh"
    /\ attestation' = "stale"
    /\ Unhealthily(c, attestation = "expired")
    /\ UNCHANGED drift

\* The session has drifted, or the catalog is not the one the proxy was built for.
RefuseDrifted(c) ==
    /\ attestation = "fresh"
    /\ drift \/ ~mode.sealed
    /\ drift' = TRUE
    /\ Unhealthily(c, ~drift)
    /\ UNCHANGED attestation

\* The tool is not in the attested catalog.
RefuseUnlisted(c) ==
    /\ call[c].pc = "idle" /\ ~failed
    /\ ~Unhealthy
    /\ Denied(c, Entered(NoTool, NoClass))
    /\ EnterUnchanged

\* Sink admission, before anything is asked of the server.
RefuseSink(c) ==
    /\ call[c].pc = "idle" /\ ~failed
    /\ ~Unhealthy
    /\ \E tool \in Tools, class \in Declared :
          /\ SinkRefuses(Entered(tool, class), Ceiling[tool], level)
          /\ Denied(c, Entered(tool, class))
    /\ EnterUnchanged

\* The call reaches _check_upstream_drift, where it may have to wait.
ReachDriftCheck(c) ==
    /\ call[c].pc = "idle" /\ ~failed
    /\ ~Unhealthy
    /\ \E tool \in Tools, class \in Declared :
          /\ ~SinkRefuses(Entered(tool, class), Ceiling[tool], level)
          /\ call' = [call EXCEPT ![c] = [Entered(tool, class) EXCEPT !.pc = "waiting"]]
    /\ UNCHANGED <<auditVars>>
    /\ EnterUnchanged

-----------------------------------------------------------------------------
(* From the drift verdict to the transport: no await.                      *)

SinkRecheck(r) == SinkRefuses(r, Ceiling[r.tool], level)

\* _trace_before_transport: recheck, allow receipt, recheck.
BeginTransport(c, r) ==
    /\ receipt' = Receipted(c, r, TRUE)
    /\ call' = [call EXCEPT ![c] = [r EXCEPT !.pc = "transport",
                                             !.boundary = "transport_may_have_started"]]
    /\ UNCHANGED <<trail, logged, failed, lost>>

\* The upstream failed: a fault with the disposition the effect boundary gives.
UpstreamFault(c, r) == TerminalAndRecord(c, r, "fault", "refused", Receipted(c, r, FALSE))

\* A token that is no longer good at the last recheck: the request stays unsent and the
\* allow receipt, committed a moment before, stays.
RecheckFails(c, r) ==
    /\ r.handle
    /\ TerminalAndRecord(c, r, "fault", "refused", Receipted(c, r, TRUE))

\* Step 5b: the TRACE token or its policy is no longer good.
TraceStale(c, r) ==
    /\ r.handle
    /\ Terminal(c, r, "deny", "refused")
    /\ UNCHANGED logged

\* Defect: the TRACE recheck compares nothing with the policy in force.
ForwardUngated(c, r, digest) == BeginTransport(c, r)

\* The TRACE recheck of step 5b, then _forward_to_upstream up to the first byte.
Forward(c, r, digest) ==
    \/ TraceStale(c, r)
    \/ UpstreamFault(c, r)                      \* provenance, client, token at transport
    \/ /\ r.handle => r.digest = digest
       /\ BeginTransport(c, r) \/ RecheckFails(c, r)

\* The evaluator raised: the fault entry is written here, and call_tool sees the exception too.
CedarFault(c, r) ==
    /\ call' = [call EXCEPT ![c] = [r EXCEPT !.pc = "raise"]]
    /\ receipt' = Receipted(c, r, FALSE)
    /\ \/ /\ trail' = [trail EXCEPT ![c] =
                          Append(@, [kind |-> "fault", disposition |-> Disposition(r)])]
          /\ UNCHANGED <<failed, lost>>
       \/ AppendFails /\ failed' = TRUE /\ UNCHANGED trail
    /\ UNCHANGED logged

\* intercept_tool_call: a tool off the allow list, a dangerous argument or a spent budget is
\* refused; a call that passes is counted.
InterceptToolCall(c, r, installed) ==
    \/ Denied(c, r) /\ UNCHANGED spent
    \/ /\ spent < mode.budget
       /\ spent' = spent + 1
       /\ Forward(c, r, installed)

\* Break-glass entry, sink recheck, policy evaluation (which may install a new bundle) and
\* the runtime gateway.
Evaluate(c, r) ==
    \E installed \in {policy, policy + 1} :
       /\ installed <= MaxReloads
       /\ policy' = installed
       /\ \/ /\ SinkRecheck(r)
             /\ installed = policy
             /\ Denied(c, r)
             /\ UNCHANGED spent
          \/ /\ AppendFails                      \* the break_glass_used entry
             /\ call' = [call EXCEPT ![c] = [r EXCEPT !.pc = "raise"]]
             /\ installed = policy
             /\ UNCHANGED <<trail, receipt, logged, failed, spent>>
          \/ /\ ~SinkRecheck(r)
             /\ \/ Denied(c, r) /\ UNCHANGED spent        \* Cedar, revoked signing key
                \/ CedarFault(c, r) /\ UNCHANGED spent
                \/ InterceptToolCall(c, r, installed)


\* What _check_upstream_drift returns.
Verdict(c) == drift'

Decide(c) ==
    IF Verdict(c)
    THEN /\ \/ Unrecorded(c) /\ RecordCall(c)
            \/ SuspiciousAppendFails(c, call[c]) /\ UNCHANGED <<trail, receipt, failed>>
         /\ UNCHANGED <<spent, policy>>
    ELSE Evaluate(c, call[c])

-----------------------------------------------------------------------------
(* _advertised_tools and _check_upstream_drift.                            *)

Server(c) == ServerOf[call[c].tool]

\* The comparison with the catalog: entries for unadmitted names and for every drifted tool
\* come first, and only then the flag and the mark.  An append that fails leaves neither.
Compare(c, found) ==
    \/ /\ drift' = (drift \/ (found = "drifted" /\ mode.failClosed))
       /\ checked' = checked \cup {Server(c)}
       /\ Decide(c)
    \/ /\ found # "unlisted"
       /\ AppendFails
       /\ call' = [call EXCEPT ![c].pc = "raise"]
       /\ UNCHANGED <<drift, checked, trail, receipt, logged, failed, spent, policy>>

\* The server was compared before: no wait.
AlreadyChecked(c) ==
    /\ call[c].pc = "waiting"
    /\ Server(c) \in checked
    /\ UNCHANGED <<drift, checked, listing>>
    /\ Decide(c)
    /\ UNCHANGED <<mode, left, level, attestation, asking>>

\* The discovery lock is free and nothing is cached: tools/list is sent.
StartDiscovery(c) ==
    /\ call[c].pc = "waiting"
    /\ Server(c) \notin checked
    /\ asking[Server(c)] = NoCall
    /\ listing[Server(c)] = "unknown"
    /\ asking' = [asking EXCEPT ![Server(c)] = c]
    /\ call' = [call EXCEPT ![c].pc = "discovering"]
    /\ UNCHANGED <<mode, auditVars, left, sessionVars, listing, checked, spent, policy>>

\* The listing is complete, or "unlisted" when the server would not say.
FinishDiscovery(c) ==
    /\ call[c].pc = "discovering"
    /\ \E found \in {"unlisted", "match", "drifted"} :
          /\ listing' = [listing EXCEPT ![Server(c)] = found]
          /\ asking' = [asking EXCEPT ![Server(c)] = NoCall]
          /\ Compare(c, found)
    /\ UNCHANGED <<mode, left, level, attestation>>

\* Another call cached the listing but did not complete the comparison.
CompareCached(c) ==
    /\ call[c].pc = "waiting"
    /\ Server(c) \notin checked
    /\ asking[Server(c)] = NoCall
    /\ listing[Server(c)] # "unknown"
    /\ UNCHANGED <<listing, asking>>
    /\ Compare(c, listing[Server(c)])
    /\ UNCHANGED <<mode, left, level, attestation>>

-----------------------------------------------------------------------------
(* Transport, response and session update.                                 *)

TransportUnchanged == UNCHANGED <<mode, sessionVars, discoveryVars, spent, policy>>

\* The request bytes are written; the proxy does not see this happen.
BytesLeave(c) ==
    /\ call[c].pc = "transport" /\ c \notin left
    /\ left' = left \cup {c}
    /\ UNCHANGED <<call, auditVars>> /\ TransportUnchanged

\* _client_for_upstream: the server's certificate is pinned.
PinEnforced(c) == Server(c) \in Pinned

\* The certificate is compared with the pin before the request is sent.
PinMismatch(c) ==
    /\ call[c].pc = "transport" /\ c \notin left
    /\ PinEnforced(c)
    /\ UpstreamFault(c, [call[c] EXCEPT !.boundary = "pre_transport"])
    /\ UNCHANGED left /\ TransportUnchanged

\* Deadline, transport error, invalid or error reply.
UpstreamFails(c) ==
    /\ call[c].pc = "transport"
    /\ UpstreamFault(c, call[c])
    /\ UNCHANGED left /\ TransportUnchanged

\* The response is over max_response_size_bytes.
ResponseTooLarge(c) ==
    /\ call[c].pc = "transport" /\ c \in left
    /\ Denied(c, [call[c] EXCEPT !.boundary = "transport_response_received"])
    /\ UNCHANGED left /\ TransportUnchanged

\* intercept_tool_response: findings of the scanner block the response.
Scanned == {"blocked", "update"}

\* A response within the limit is scanned, and its session update starts.
Respond(c) ==
    /\ call[c].pc = "transport" /\ c \in left
    /\ \E scanned \in Scanned :
          call' = [call EXCEPT ![c].pc = scanned,
                               ![c].boundary = "transport_response_received"]
    /\ UNCHANGED <<left, auditVars>> /\ TransportUnchanged

\* apply_inspection of a response the scanner blocked, then the denial.
UpdateBlocked(c) ==
    /\ call[c].pc = "blocked"
    /\ level' = Folded(call[c])
    /\ Denied(c, call[c])
    /\ UNCHANGED <<mode, left, attestation, drift, discoveryVars, spent, policy>>


EgressSinkRefuses(r, session) == SinkRefuses(r, ReplyCeiling, session)

EgressDenied(c) == Terminal(c, call[c], "egress_denied", "refused") /\ UNCHANGED logged

\* The terminal of a released response; advisory mode releases one the policy denied.
Release(c) ==
    \E kind \in {"allow"} \cup (IF mode.enforcing THEN {} ELSE {"advisory_deny"}) :
       TerminalAndRecord(c, call[c], kind, "response", Receipted(c, call[c], kind = "allow"))

\* authorize_egress: each of its evaluations may install a bundle; only a denial is handled
\* here, any other exception travels to call_tool.
AuthorizeEgress(c) ==
    /\ policy' \in policy..MaxReloads
    /\ \/ EgressDenied(c)
       \/ Raise(c, call[c]) /\ UNCHANGED logged
       \/ Release(c)

\* apply_inspection, the egress checks and the terminal.
UpdateAndRelease(c) ==
    /\ call[c].pc = "update"
    /\ level' = Folded(call[c])
    /\ \/ /\ EgressSinkRefuses(call[c], level')
          /\ EgressDenied(c)
          /\ UNCHANGED policy
       \/ /\ ~EgressSinkRefuses(call[c], level')
          /\ AuthorizeEgress(c)
    /\ UNCHANGED <<mode, left, attestation, drift, discoveryVars, spent>>

\* apply_inspection raises: the store refused the transaction.
UpdateFails(c) ==
    /\ call[c].pc \in {"blocked", "update"}
    /\ Raise(c, call[c])
    /\ UNCHANGED <<left, logged>> /\ TransportUnchanged

\* Defect: a cancelled discovery keeps the lock.
CancelKeepsLock(c) ==
    /\ call[c].pc \in {"waiting", "discovering", "transport", "blocked", "update"}
    /\ Raise(c, call[c])
    /\ UNCHANGED <<mode, left, logged, sessionVars, discoveryVars, spent, policy>>

\* Cancellation at an await: the discovery lock is released and nothing is cached.
Cancel(c) ==
    /\ call[c].pc \in {"waiting", "discovering", "transport", "blocked", "update"}
    /\ Raise(c, call[c])
    /\ asking' = [s \in Servers |-> IF asking[s] = c THEN NoCall ELSE asking[s]]
    /\ UNCHANGED <<mode, left, logged, sessionVars, listing, checked, spent, policy>>

\* Time passes the attestation's validity.
Expire ==
    /\ attestation = "fresh"
    /\ attestation' = "expired"
    /\ UNCHANGED <<mode, call, auditVars, left, level, drift, discoveryVars, spent, policy>>

Step(c) ==
    \/ RefuseCredentials(c) \/ RefuseExecution(c) \/ RefuseStale(c) \/ RefuseDrifted(c)
    \/ RefuseUnlisted(c) \/ RefuseSink(c) \/ FailOnEntry(c) \/ ReachDriftCheck(c)
    \/ AlreadyChecked(c) \/ StartDiscovery(c) \/ FinishDiscovery(c) \/ CompareCached(c)
    \/ BytesLeave(c) \/ PinMismatch(c) \/ UpstreamFails(c) \/ ResponseTooLarge(c) \/ Respond(c)
    \/ UpdateBlocked(c) \/ UpdateAndRelease(c) \/ UpdateFails(c)
    \/ FinalizeUnexpectedCallFailure(c)

PipelineNext == (\E c \in Calls : Step(c) \/ Cancel(c)) \/ Expire

\* What the event loop does for a call that was made.
Continue(c) ==
    \/ AlreadyChecked(c) \/ StartDiscovery(c) \/ CompareCached(c) \/ FinishDiscovery(c)
    \/ UpstreamFails(c) \/ Respond(c) \/ UpdateBlocked(c) \/ UpdateAndRelease(c)
    \/ FinalizeUnexpectedCallFailure(c)

\* The event loop runs every ready task.  A discovery request and an HTTP call have a
\* deadline, so a wait on the server ends; a call that was never made need not be.
PipelineFairness == \A c \in Calls : WF_pipelineVars(Continue(c))

PipelineSpec == PipelineInit /\ [][PipelineNext]_pipelineVars /\ PipelineFairness

-----------------------------------------------------------------------------
(* Properties.                                                             *)

Frame ==
    [pc : {"idle", "waiting", "discovering", "transport", "blocked", "update", "raise", "done"},
     tool : Tools \cup {NoTool}, class : Declared \cup {NoClass}, before : 0..MaxLevel,
     boundary : {"pre_transport", "transport_may_have_started", "transport_response_received"},
     handle : BOOLEAN, digest : 0..MaxReloads,
     result : {"none", "refused", "response", "error"}]

EntryType ==
    [kind : {"allow", "advisory_deny", "deny", "egress_denied", "fault"},
     disposition : {"not_attempted", "outcome_unknown"}]

\* The type of the pipeline's state: frames of _call_tool_impl, their audit entries, the
\* session flags and the discovery caches.
PipelineTypeOK ==
    /\ mode \in Modes
    /\ call \in [Calls -> Frame]
    /\ trail \in [Calls -> Seq(EntryType)]
    /\ receipt \in [Calls -> {"none", "allow", "deny"}]
    /\ left \subseteq Calls /\ logged \subseteq Calls
    /\ level \in 0..MaxLevel /\ attestation \in {"fresh", "expired", "stale"}
    /\ drift \in BOOLEAN
    /\ listing \in [Servers -> {"unknown", "unlisted", "match", "drifted"}]
    /\ asking \in [Servers -> Calls \cup {NoCall}]
    /\ checked \subseteq Servers
    /\ spent \in 0..mode.budget /\ policy \in 0..MaxReloads
    /\ failed \in BOOLEAN /\ lost \in 0..MaxLost

\* call_tool's "guarantee one terminal on failure or cancellation": however its stages raise,
\* are cancelled or fail to append, before or after the terminal is written, a call that
\* ended in an error, returned a response or sent its request has one terminal entry, unless
\* the loss is recorded in _failed_terminal_call.  No call ever gets two.
OneTerminal ==
    \A c \in Calls :
       /\ Len(trail[c]) <= 1
       /\ call[c].result \in {"error", "response"} \/ (c \in left /\ call[c].pc = "done") =>
             Len(trail[c]) = 1 \/ failed

\* "Every denied tool call produces exactly one audit entry" (AUDIT-002 of the conformance
\* suite; "Every call, denial, session event, and fault produces one entry", AuditChain).
DeniedCallRecorded == \A c \in Calls : call[c].result = "refused" => Len(trail[c]) = 1

\* The terminal entry does not launder an uncertain outcome: "not_attempted" is only ever
\* written for a call whose request bytes never left, and a response is returned only under
\* an entry that says it was released.
HonestDisposition ==
    \A c \in Calls :
       /\ \A k \in 1..Len(trail[c]) : trail[c][k].disposition = "not_attempted" => c \notin left
       /\ call[c].result = "response" =>
             \E k \in 1..Len(trail[c]) : trail[c][k].kind \in {"allow", "advisory_deny"}

Starts(c) == call[c].pc # "transport" /\ call'[c].pc = "transport"



\* With a TRACE gate a request starts only with a durable allow receipt and under the policy
\* bundle its holder proof was bound to, although evaluations of this and of other calls
\* install new bundles in between.
GatedTransport ==
    [][\A c \in Calls :
          mode.gated /\ Starts(c) => receipt'[c] = "allow" /\ call[c].digest = policy'
      ]_pipelineVars

\* Every admitted call ends: waiting behind another call's discovery, a server that does not
\* answer and failing appends all lead to a result or an error.  A call is made once and
\* stays done, so from some point on none is under way.
CallsFinish == <>[](\A c \in Calls : call[c].pc \in {"idle", "done"})

=============================================================================
