----------------------------- MODULE RateLimiter -----------------------------
(***************************************************************************)
(* _RateLimitMiddleware (mcp/server.py): a sliding window of request times *)
(* per client address and a cap on the number of addresses remembered.     *)
(* Nothing awaits inside the locked section, and an unlocked asyncio.Lock  *)
(* is taken without a suspension, so one request is one step.              *)
(***************************************************************************)
EXTENDS Integers, Sequences, FiniteSets, Functions

CONSTANTS
    Clients,
    RateWindow,      \* _window, in ticks
    Limit,           \* requests_per_minute
    MaxClients,      \* max_clients
    MaxTime,         \* bound on the clock
    MaxRequests      \* bound: requests made

VARIABLES
    counts,       \* _counts: client -> the times of its requests in the window
    seconds,      \* time.monotonic()
    served,       \* ghost: every request let through, <<client, time, n>>
    refused,      \* ghost: the last request, when it was answered 429
    requests      \* ghost: requests made so far

rateVars == <<counts, seconds, served, refused, requests>>

NotRefused == <<>>

RateInit ==
    /\ counts = <<>> /\ seconds = 0 /\ served = {} /\ refused = NotRefused /\ requests = 0

Cutoff == seconds - RateWindow

\* Defect: a client is forgotten once its oldest request has left the window.
PruneByOldest(table) ==
    Restrict(table, {c \in DOMAIN table : table[c] # <<>> /\ table[c][1] > Cutoff})

\* _prune_inactive_clients: forget the clients whose last request left the window.
PruneInactiveClients(table) ==
    Restrict(table, {c \in DOMAIN table : table[c] # <<>> /\ table[c][Len(table[c])] > Cutoff})

Hits(table, c) ==
    IF c \in DOMAIN table THEN SelectSeq(table[c], LAMBDA t : t > Cutoff) ELSE <<>>

\* The table with client c at the given hits.
With(table, c, hits) == [d \in DOMAIN table \cup {c} |-> IF d = c THEN hits ELSE table[d]]

Dispatch(c) ==
    /\ requests < MaxRequests /\ requests' = requests + 1
    /\ LET table == PruneInactiveClients(counts)
           hits == Hits(table, c)
       IN  \/ /\ c \notin DOMAIN table /\ Cardinality(DOMAIN table) >= MaxClients
              /\ counts' = table
              /\ refused' = <<c>> /\ UNCHANGED served
           \/ /\ c \in DOMAIN table \/ Cardinality(DOMAIN table) < MaxClients
              /\ Len(hits) >= Limit
              /\ counts' = With(table, c, hits)
              /\ refused' = <<c>> /\ UNCHANGED served
           \/ /\ c \in DOMAIN table \/ Cardinality(DOMAIN table) < MaxClients
              /\ Len(hits) < Limit
              /\ counts' = With(table, c, Append(hits, seconds))
              /\ served' = served \cup {<<c, seconds, requests>>}
              /\ refused' = NotRefused
    /\ UNCHANGED seconds

Pass ==
    /\ seconds < MaxTime /\ seconds' = seconds + 1
    /\ refused' = NotRefused
    /\ UNCHANGED <<counts, served, requests>>

RateNext == Pass \/ \E c \in Clients : Dispatch(c)

RateSpec == RateInit /\ [][RateNext]_rateVars
-----------------------------------------------------------------------------
\* The requests of c let through in the window that ends at t.
InWindowOf(c, t) == {s \in served : s[1] = c /\ s[2] > t - RateWindow /\ s[2] <= t}

\* No client is let through more than Limit times in any window; the table never
\* outgrows its cap; and a request is refused only when its client used its limit in
\* the window that ends now, or the cap is full of clients that were let through in it.
RateExact ==
    /\ \A c \in Clients, t \in 0 .. MaxTime : Cardinality(InWindowOf(c, t)) <= Limit
    /\ Cardinality(DOMAIN counts) <= MaxClients
    /\ refused # NotRefused =>
        \/ Cardinality(InWindowOf(refused[1], seconds)) = Limit
        \/ Cardinality({c \in Clients : InWindowOf(c, seconds) # {}}) >= MaxClients
=============================================================================
