--------------------------- MODULE StdioTransport ---------------------------
(***************************************************************************)
(* One spawned MCP server and the requests of concurrent calls on its two  *)
(* pipes: mcp/stdio.py, with the pagination of mcp/discovery.py.           *)
(*                                                                         *)
(* A step is the code between two awaits.  The child is external: it takes *)
(* requests in order and answers each under the id it was given, late or   *)
(* never; it may write a line that is no JSON-RPC reply, or exit.  A call  *)
(* has a unique id; a listing numbers its pages from 0 every time, so two  *)
(* listings use the same ids.  Two listings of one child do overlap: the   *)
(* discovery lock is per provenance key, the child per execution key.      *)
(*                                                                         *)
(* Closing is gradual.  The child is told to stop and its input is closed  *)
(* at once, but it may still answer what it has; a write to the closing    *)
(* pipe is dropped without an error until asyncio reports the connection   *)
(* lost; and its output stays readable to the end.                         *)
(***************************************************************************)
EXTENDS Naturals, Sequences, FiniteSets

CONSTANTS
    Requesters,     \* tasks
    Listers,        \* those that list tools; the others make one call
    MaxPages,       \* pages of a complete listing, at most
    MaxDiscoveryPages, \* MAX_DISCOVERY_PAGES
    MaxJunk,        \* bound on stray lines, exits and refused spawns
    NoRequester

ASSUME StdioAssumption ==
    /\ Listers \subseteq Requesters /\ NoRequester \notin Requesters
    /\ MaxPages \in Nat \ {0} /\ MaxDiscoveryPages \in Nat /\ MaxJunk \in Nat

VARIABLES
    spawnOk,    \* the executable matches its pin, or unmeasured spawns are allowed
    spawnLock,  \* _stdio_spawn_lock: the task that spawns
    spawned,    \* children started for this server in this session
    child,      \* the process: none yet, up, told to stop, or gone
    input,      \* its stdin as the gateway sees it: open, closing or lost
    handle,     \* StdioServer._proc is not None
    toChild,    \* stdin: requests the child has not taken
    toGateway,  \* stdout: lines the gateway has not read
    pipeLock,   \* _lock: the task that holds it
    request,    \* request[t]: where the task is, its page, what it was given
    junk        \* lines written that answer nothing

stdioVars == <<spawnOk, spawnLock, spawned, child, input, handle, toChild, toGateway, pipeLock,
               request, junk>>

spawnVars == <<spawnOk, spawnLock, spawned>>

StdioInit ==
    /\ spawnOk \in BOOLEAN /\ spawnLock = NoRequester /\ spawned = 0
    /\ child = "none" /\ input = "open" /\ handle = FALSE /\ toChild = <<>> /\ toGateway = <<>>
    /\ pipeLock = NoRequester
    /\ request = [t \in Requesters |-> [pc |-> "idle", page |-> 0, given |-> <<>>]]
    /\ junk = 0

\* The JSON-RPC id of the request a task has out, and the lines on stdout: a reply is
\* written for one request, and names its id.
IdOf(t) == IF t \in Listers THEN <<"page", request[t].page>> ELSE <<"call", t>>
Line(id, t, last) == [id |-> id, asker |-> t, last |-> last]
JunkLine == [id |-> <<"none">>, asker |-> NoRequester, last |-> TRUE]

At(t, pc) == request[t].pc = pc
To(t, pc) == [request EXCEPT ![t].pc = pc]

-----------------------------------------------------------------------------
(* _stdio_for and start.                                                   *)

\* A cached server is used at once, its process alive or not; the first use queues for
\* the spawn lock.
Enter(t) ==
    /\ At(t, "idle")
    /\ request' = To(t, IF handle THEN "queued" ELSE IF spawned > 0 THEN "failed" ELSE "spawning")
    /\ UNCHANGED <<spawnVars, child, input, handle, toChild, toGateway, pipeLock, junk>>

\* Defect: who waited for the lock does not look again.
FirstUse == TRUE

\* No other task has spawned it meanwhile.
StillUnspawned == spawned = 0

\* measure_executable: the file is there, can be read and has the pinned digest.
MeasuresAsPinned == spawnOk

\* Under the lock: a server spawned meanwhile is used; otherwise the executable is
\* measured against its pin, and the spawn refused or begun.
BeginSpawn(t) ==
    /\ At(t, "spawning") /\ spawnLock = NoRequester
    /\ IF ~StillUnspawned THEN request' = To(t, "idle") /\ UNCHANGED spawnLock
       ELSE IF MeasuresAsPinned THEN request' = To(t, "starting") /\ spawnLock' = t
       ELSE request' = To(t, "failed") /\ UNCHANGED spawnLock
    /\ UNCHANGED <<spawnOk, spawned, child, input, handle, toChild, toGateway, pipeLock, junk>>

\* The process is there: the server is cached and the lock released.
FinishSpawn(t) ==
    /\ At(t, "starting")
    /\ spawned' = spawned + 1 /\ spawnLock' = NoRequester
    /\ child' = "up" /\ handle' = TRUE
    /\ request' = To(t, "queued")
    /\ UNCHANGED <<spawnOk, input, toChild, toGateway, pipeLock, junk>>

-----------------------------------------------------------------------------
(* _request.                                                               *)

\* Under the lock the line is written and drained.  Only a lost connection or a dropped
\* handle raises; otherwise the task goes on to read, also when nothing reached the child.
WriteRequest(t) ==
    /\ At(t, "queued") /\ pipeLock = NoRequester
    /\ IF handle /\ input # "lost"
       THEN /\ pipeLock' = t
            /\ toChild' = IF input = "open" /\ child = "up"
                          THEN Append(toChild, [id |-> IdOf(t), asker |-> t]) ELSE toChild
            /\ request' = To(t, "reading")
       ELSE request' = To(t, "failed") /\ UNCHANGED <<pipeLock, toChild>>
    /\ UNCHANGED <<spawnVars, child, input, handle, toGateway, junk>>

\* What a reply of its own id gives: a result, or a page and the next one until the
\* server names no cursor.  Past the page budget the listing fails.
Given(t, line) ==
    LET r == [request[t] EXCEPT !.given = Append(@, line.asker)] IN
    IF t \notin Listers \/ line.last THEN [r EXCEPT !.pc = "ok"]
    ELSE IF r.page + 1 = MaxDiscoveryPages THEN [r EXCEPT !.pc = "failed"]
    ELSE [r EXCEPT !.pc = "idle", !.page = @ + 1]

\* The line is a reply to this request.
Answers(line, t) == line.id = IdOf(t)

\* Defect: a listing that is cancelled leaves the child as it is.
NotTerminated == UNCHANGED <<child, input>>

\* close, up to its await: the child's input is closed and the child told to stop.
Terminated ==
    /\ child' = IF child = "up" THEN "stopping" ELSE child
    /\ input' = IF input = "open" THEN "closing" ELSE input

\* A line is read and the lock released.  A line that is not this request's reply
\* desynchronises the stream, and the child is closed.
ReadReply(t) ==
    /\ At(t, "reading") /\ toGateway # <<>>
    /\ toGateway' = Tail(toGateway)
    /\ pipeLock' = NoRequester
    /\ IF Answers(Head(toGateway), t)
       THEN /\ request' = [request EXCEPT ![t] = Given(t, Head(toGateway))]
            /\ UNCHANGED <<child, input>>
       ELSE request' = To(t, "closing") /\ Terminated
    /\ UNCHANGED <<spawnVars, handle, toChild, junk>>

\* End of file: the child is gone, and nothing is left to read.
ReadNothing(t) ==
    /\ At(t, "reading") /\ toGateway = <<>> /\ child = "gone"
    /\ pipeLock' = NoRequester
    /\ request' = To(t, "failed")
    /\ UNCHANGED <<spawnVars, child, input, handle, toChild, toGateway, junk>>

-----------------------------------------------------------------------------
(* Cancellation and close.                                                 *)

\* Cancelled on the way to a process: a spawn that had begun is taken down by asyncio.
CancelSpawn(t) ==
    /\ request[t].pc \in {"spawning", "starting"}
    /\ spawnLock' = IF spawnLock = t THEN NoRequester ELSE spawnLock
    /\ request' = To(t, "cancelled")
    /\ UNCHANGED <<spawnOk, spawned, child, input, handle, toChild, toGateway, pipeLock, junk>>

\* The task is cancelled at an await: a listing closes the child on its way out, a
\* call leaves its reply to be refused by whoever reads it.
CancelRequest(t) ==
    /\ request[t].pc \in {"queued", "reading"}
    /\ pipeLock' = IF pipeLock = t THEN NoRequester ELSE pipeLock
    /\ IF t \in Listers
       THEN request' = To(t, "unwinding") /\ Terminated
       ELSE request' = To(t, "cancelled") /\ UNCHANGED <<child, input>>
    /\ UNCHANGED <<spawnVars, handle, toChild, toGateway, junk>>

\* The rest of close: the process is reaped and its handle dropped.  A task that is
\* reading keeps the stream.
Reap(t) ==
    /\ request[t].pc \in {"closing", "unwinding"} /\ child = "gone"
    /\ handle' = FALSE
    /\ request' = To(t, IF At(t, "closing") THEN "failed" ELSE "cancelled")
    /\ UNCHANGED <<spawnVars, child, input, toChild, toGateway, pipeLock, junk>>

\* Cancelled while it waits for the process: the handle is kept for a later close.
CancelReap(t) ==
    /\ request[t].pc \in {"closing", "unwinding"}
    /\ request' = To(t, "cancelled")
    /\ UNCHANGED <<spawnVars, child, input, handle, toChild, toGateway, pipeLock, junk>>

-----------------------------------------------------------------------------
(* The child and the pipe to it.                                           *)

\* connection_lost of the child's stdin, some turns of the event loop after it was closed
\* or the child exited.
InputLost ==
    /\ input = "closing" \/ (input = "open" /\ child = "gone")
    /\ input' = "lost"
    /\ UNCHANGED <<spawnVars, child, handle, toChild, toGateway, pipeLock, request, junk>>

\* It answers the oldest request; a page is the last one or not.
ChildAnswers ==
    /\ child \in {"up", "stopping"} /\ toChild # <<>>
    /\ \E last \in BOOLEAN :
          /\ Head(toChild).asker \in Listers
                => (last \/ request[Head(toChild).asker].page + 1 < MaxPages)
          /\ toGateway' = Append(toGateway, Line(Head(toChild).id, Head(toChild).asker, last))
    /\ toChild' = Tail(toChild)
    /\ UNCHANGED <<spawnVars, child, input, handle, pipeLock, request, junk>>

ChildLogs ==
    /\ child \in {"up", "stopping"} /\ junk < MaxJunk
    /\ junk' = junk + 1
    /\ toGateway' = Append(toGateway, JunkLine)
    /\ UNCHANGED <<spawnVars, child, input, handle, toChild, pipeLock, request>>

\* By itself, or because it was told to.
ChildExits ==
    /\ \/ child = "up" /\ junk < MaxJunk /\ junk' = junk + 1
       \/ child = "stopping" /\ UNCHANGED junk
    /\ child' = "gone" /\ toChild' = <<>>
    /\ UNCHANGED <<spawnVars, input, handle, toGateway, pipeLock, request>>

StdioRuns(t) ==
    Enter(t) \/ BeginSpawn(t) \/ FinishSpawn(t) \/ WriteRequest(t) \/ ReadReply(t)
    \/ ReadNothing(t) \/ Reap(t)

StdioNext ==
    \/ \E t \in Requesters : StdioRuns(t) \/ CancelSpawn(t) \/ CancelRequest(t) \/ CancelReap(t)
    \/ ChildAnswers \/ ChildLogs \/ ChildExits \/ InputLost

StdioSpec == StdioInit /\ [][StdioNext]_stdioVars

-----------------------------------------------------------------------------
(* Properties.                                                             *)

\* A call is only ever given the reply to its own request, whatever was cancelled before it
\* and left a reply in the pipe and however far the child is on its way out ("Do not let a
\* later tool call consume it as that call's response", list_tools).  A page of another
\* listing, which has the same id, is not taken before the child was closed.
ReplyAttribution ==
    \A t \in Requesters : \A i \in 1..Len(request[t].given) :
        request[t].given[i] = t \/ (t \in Listers /\ input # "open")

\* "No partial result escapes: every page must be attributable" (discovery.py): a complete
\* listing is made of the replies to its own requests.
ListingAttribution ==
    \A t \in Listers :
        At(t, "ok") => \A i \in 1..Len(request[t].given) : request[t].given[i] = t

\* A session starts at most one child per server, however many first calls race for it;
\* a child that was closed is not replaced behind the calls that used it (_stdio_for).
OneChild == spawned <= 1

=============================================================================
