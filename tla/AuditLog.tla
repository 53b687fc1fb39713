------------------------------ MODULE AuditLog ------------------------------
(***************************************************************************)
(* The audit chain (audit/chain.py) over its SQLite store (audit/store.py) *)
(* across failed writes, session resets, closes, crashes and restarts of   *)
(* the gateway.  A chain is one hash-linked sequence; a reset goes on in   *)
(* the same chain under the successor's session id, a close ends it and    *)
(* the next session opens a new one.  A restart opens the same file and    *)
(* reports the sessions it finds unfinished (startup.py).                  *)
(*                                                                         *)
(* An entry's hash covers its body and its predecessor's hash, so with a   *)
(* collision-free hash the predecessor is identified by the pair (chain,   *)
(* sequence number); "prev" is that number, Genesis for the first entry.   *)
(***************************************************************************)
EXTENDS Integers, Sequences, FiniteSets

CONSTANTS
    MaxSessionIds,   \* bound: session ids ever issued
    MaxAppends,      \* bound: entries of one chain besides its end
    MaxWriteFaults,  \* bound: store writes that raise
    MaxStops         \* bound: times the gateway stops with no notice

VARIABLES
    entries,      \* the live chain in memory (AuditChain._entries)
    chainId,      \* which chain that is: the first session id it carries; 0 for none
    sessionId,    \* AuditChain._session_id: the id the next entry is filed under
    rows,         \* the table audit_entries, in rowid order
    upNow,        \* the process runs
    orphans,      \* what find_orphaned_sessions returned when it started
    issuedIds,    \* ghost: the number of session ids issued
    acked,        \* ghost: the entries whose append returned, over all runs
    stopped,      \* ghost: the chains live when the process stopped, per finished run
    writeFaults,  \* ghost: store writes that raised
    stops         \* ghost: stops so far

auditVars == <<entries, chainId, sessionId, rows, upNow, orphans, issuedIds, acked,
               stopped, writeFaults, stops>>

Genesis == 0

\* One audit entry: the fields the store and the verifier key on.
Entry(kind) ==
    [chain |-> chainId, session |-> sessionId, seq |-> Len(entries),
     prev |-> IF entries = <<>> THEN Genesis ELSE Len(entries), kind |-> kind]

(***************************************************************************)
(* append: the row is committed first; only then does the entry join the   *)
(* chain in memory and the caller go on.  A sink that raises is isolated,  *)
(* so telemetry takes no part in the outcome.                              *)
(***************************************************************************)
Appended(e) ==
    /\ rows' = Append(rows, e)
    /\ entries' = Append(entries, e)
    /\ acked' = acked \cup {e}

\* Defect: a failed store write is logged and the entry acknowledged all the same.
NotAppendedButAcked(e) ==
    /\ writeFaults < MaxWriteFaults
    /\ writeFaults' = writeFaults + 1
    /\ entries' = Append(entries, e)
    /\ acked' = acked \cup {e}
    /\ UNCHANGED rows

\* The store raises (SQLite rolls a failed write-ahead-log commit back) and the
\* exception leaves append before the chain in memory is touched.
NotAppended(e) ==
    /\ writeFaults < MaxWriteFaults
    /\ writeFaults' = writeFaults + 1
    /\ UNCHANGED <<rows, entries, acked>>

Live == upNow /\ chainId # 0

AuditInit ==
    /\ entries = <<>> /\ chainId = 0 /\ sessionId = 0 /\ rows = <<>>
    /\ upNow = FALSE /\ orphans = {}
    /\ issuedIds = 0 /\ acked = {} /\ stopped = {}
    /\ writeFaults = 0 /\ stops = 0

(***************************************************************************)
(* find_orphaned_sessions: ids with a session_start row and no session_end *)
(* row of the same id.                                                     *)
(***************************************************************************)
Ids(kind) == {rows[i].session : i \in {j \in DOMAIN rows : rows[j].kind = kind}}

\* Defect: any entry after the reset counts as the end of the session.
FindOrphanedAfterReset == Ids("session_start") \ (Ids("session_end") \cup Ids("session_reset"))

FindOrphanedSessions == Ids("session_start") \ Ids("session_end")

StartGateway ==
    /\ ~upNow
    /\ upNow' = TRUE
    /\ orphans' = FindOrphanedSessions
    /\ UNCHANGED <<entries, chainId, sessionId, rows, issuedIds, acked, stopped,
                   writeFaults, stops>>

\* AuditChain.__init__ on a fresh id: the constructor appends session_start, and
\* when that write raises there is no chain.
OpenChain ==
    /\ upNow /\ chainId = 0 /\ issuedIds < MaxSessionIds
    /\ issuedIds' = issuedIds + 1
    /\ LET id == issuedIds + 1
           first == [chain |-> id, session |-> id, seq |-> 0, prev |-> Genesis,
                     kind |-> "session_start"]
       IN  \/ /\ Appended(first)
              /\ chainId' = id /\ sessionId' = id
              /\ UNCHANGED writeFaults
           \/ /\ NotAppended(first)
              /\ UNCHANGED <<chainId, sessionId>>
    /\ UNCHANGED <<upNow, orphans, stopped, stops>>

AppendCall ==
    /\ Live /\ Len(entries) < MaxAppends
    /\ LET e == Entry("tool_call") IN
        \/ Appended(e) /\ UNCHANGED writeFaults
        \/ NotAppended(e)
    /\ UNCHANGED <<chainId, sessionId, upNow, orphans, issuedIds, stopped, stops>>

\* _session_reset: the session_reset entry is filed under the id it closes, then
\* rotate_session_id files the rest of the chain under the successor.
ResetSession ==
    /\ Live /\ Len(entries) < MaxAppends /\ issuedIds < MaxSessionIds
    /\ issuedIds' = issuedIds + 1
    /\ LET e == Entry("session_reset") IN
        \/ Appended(e) /\ sessionId' = issuedIds + 1 /\ UNCHANGED writeFaults
        \/ NotAppended(e) /\ UNCHANGED sessionId
    /\ UNCHANGED <<chainId, upNow, orphans, stopped, stops>>

\* close_session up to the retirement of the chain: session_end, then no chain.
CloseChain ==
    /\ Live
    /\ LET e == Entry("session_end") IN
        \/ /\ rows' = Append(rows, e) /\ acked' = acked \cup {e}
           /\ entries' = <<>> /\ chainId' = 0 /\ sessionId' = 0
           /\ UNCHANGED writeFaults
        \/ NotAppended(e) /\ UNCHANGED <<chainId, sessionId>>
    /\ UNCHANGED <<upNow, orphans, issuedIds, stopped, stops>>

\* The process stops without closing its session: a kill, a power cut, or an exit
\* (nothing on the way out appends to the chain).  The write-ahead log keeps every
\* committed row.
StopProcess ==
    /\ upNow /\ stops < MaxStops
    /\ stops' = stops + 1
    /\ stopped' = stopped \cup (IF chainId = 0 THEN {} ELSE {chainId})
    /\ upNow' = FALSE /\ orphans' = {}
    /\ entries' = <<>> /\ chainId' = 0 /\ sessionId' = 0
    /\ UNCHANGED <<rows, issuedIds, acked, writeFaults>>

AuditNext == StartGateway \/ OpenChain \/ AppendCall \/ ResetSession \/ CloseChain \/ StopProcess

AuditSpec == AuditInit /\ [][AuditNext]_auditVars
-----------------------------------------------------------------------------
\* The acknowledged entries of a chain, as the rows of the file order them.
Recovered(c) == SelectSeq(rows, LAMBDA r : r \in acked /\ r.chain = c)

\* Every entry the gateway acknowledged (AuditChain.append returned and the call
\* went on) is in the file, and the acknowledged entries of each chain are one
\* unbroken hash-linked sequence in the order of the rows: no failed write, reset,
\* close, crash or restart leaves a gap, a fork or two entries with one number.
AckedIsDurable ==
    /\ \A e \in acked : \E i \in DOMAIN rows : rows[i] = e
    /\ \A c \in {e.chain : e \in acked} : \A k \in DOMAIN Recovered(c) :
        /\ Recovered(c)[k].seq = k - 1
        /\ Recovered(c)[k].prev = IF k = 1 THEN Genesis ELSE Recovered(c)[k - 1].seq + 1

\* While a gateway runs, its start reported every chain that an earlier run of the
\* gateway left unfinished, under the id the chain began with, however often the
\* session was reset and whichever writes failed (find_orphaned_sessions).
InterruptedReported == upNow => stopped \subseteq orphans

\* The other half of "These represent sessions that were open when the gateway last
\* stopped" (find_orphaned_sessions): nothing else is reported.
OnlyInterruptedReported == orphans \subseteq stopped
=============================================================================
