----------------------------- MODULE SessionGate -----------------------------
(***************************************************************************)
(* What the lifecycle gate promises to the rest of the gateway.            *)
(*                                                                         *)
(* Calls enter while the gate is open and work on one session.  A request  *)
(* that changes the session first shuts the gate, begins only when the     *)
(* last call has left, has the session to itself, and decides when it is   *)
(* done whether the gate opens again.  So a call sees the same session     *)
(* from the moment it enters until it leaves.                              *)
(***************************************************************************)
CONSTANTS
    Callers,    \* tool calls
    Changers,   \* requests that change the session
    Nobody

VARIABLES
    sealed,     \* is the gate shut
    inside,     \* the calls that entered and have not left
    owner,      \* who has the session to itself
    session     \* what a call relies on not to change

gateVars == <<sealed, inside, owner, session>>

Init ==
    /\ sealed = FALSE /\ inside = {} /\ owner = Nobody

Enter(c) ==
    /\ ~sealed
    /\ inside' = inside \cup {c}
    /\ UNCHANGED <<sealed, owner, session>>

Leave(c) ==
    /\ inside' = inside \ {c}
    /\ UNCHANGED <<sealed, owner, session>>

\* A drain begins, or ends with the seal lifted and nothing changed.
Turn ==
    /\ owner = Nobody
    /\ sealed' = ~sealed
    /\ UNCHANGED <<inside, owner, session>>

Begin(t) ==
    /\ sealed /\ inside = {} /\ owner = Nobody
    /\ owner' = t
    /\ UNCHANGED <<sealed, inside, session>>

Change ==
    /\ owner # Nobody /\ inside = {}
    /\ UNCHANGED <<sealed, inside, owner>>

\* The last change and the decision to reopen are one step.
Finish ==
    /\ owner # Nobody /\ inside = {}
    /\ owner' = Nobody
    /\ sealed' \in BOOLEAN
    /\ UNCHANGED inside

Next ==
    \/ \E c \in Callers : Enter(c) \/ Leave(c)
    \/ \E t \in Changers : Begin(t)
    \/ Turn \/ Change \/ Finish

Spec == Init /\ [][Next]_gateVars
=============================================================================
