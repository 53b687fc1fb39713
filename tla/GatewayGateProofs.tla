-------------------------- MODULE GatewayGateProofs --------------------------
(***************************************************************************)
(* The gateway implements SessionGate, for any sets of calls and handlers. *)
(* Three lemmas say who owns the session after a step, from where the      *)
(* acting task was and where it went; every action is then one step of the *)
(* abstract gate, or none.                                                 *)
(***************************************************************************)
EXTENDS GatewayGate, GatewayLifecycleProofs

\* A task that is in no section before or after its step, and leaves the lock alone,
\* leaves the owner alone.
LEMMA OutsideKeepsOwner ==
    ASSUME TypeOK, NEW t \in Tasks, lock' = lock,
           pc[t] \notin Section, Moves(t, PCs \ Section)
    PROVE  Owner' = Owner
  BY DEF TypeOK, GateOK, Owner, InSection, Moves

\* A task in its section owns the session.
LEMMA SectionOwns ==
    ASSUME TypeOK, LockInv, NEW t \in Tasks, pc[t] \in Section
    PROVE  Owner = t /\ t # NoTask /\ lock = t
  BY TasksAssumption DEF LockInv, Owns, Owner, InSection

\* It keeps it for as long as it stays there.
LEMMA InsideKeepsOwner ==
    ASSUME TypeOK, LockInv, NEW t \in Tasks, lock' = lock,
           pc[t] \in Section, Moves(t, Section)
    PROVE  Owner' = Owner
  BY SectionOwns DEF Owner, InSection, Moves

\* Nobody owns the session while the lock is free or its holder drains.
LEMMA DrainOwnsNothing ==
    ASSUME TypeOK, LockInv, NEW t \in Tasks, lock = NoTask \/ pc[t] \in Draining
    PROVE  Owner = NoTask
  BY DEF LockInv, Owns, Owner, InSection, Draining, Section

\* Every step of the gateway is a step of the gate, or leaves the gate as it is.
LEMMA GateStep ==
    ASSUME IInv, [Next]_vars
    PROVE  [Gate!Next]_(Gate!gateVars)
<1>. USE DEF IInv
<1>1. ASSUME NEW c \in Calls, EnterCall(c) PROVE [Gate!Next]_(Gate!gateVars)
  <2>1. c \in Tasks /\ pc[c] \notin Section /\ Moves(c, PCs \ Section)
    BY <1>1 DEF EnterCall, Moves, Goto, PCs, Section, Draining, TypeOK, TasksOK,
        Tasks, Admit
  <2>2. /\ UNCHANGED <<rotating, lock, Served>>
        /\ (~rotating /\ active' = active \cup {c}) \/ active' = active
    BY <1>1 DEF EnterCall, Served, gate, stop, server, session, books, Appended,
        FlagsOK, TypeOK, Admit
  <2>3. Owner' = Owner
    BY <2>1, <2>2, OutsideKeepsOwner
  <2>. QED
    BY <2>2, <2>3 DEF Gate!gateVars, Gate!Next, Gate!Enter, Gate!Leave
<1>2. ASSUME NEW c \in Calls, WakeCall(c) PROVE [Gate!Next]_(Gate!gateVars)
  <2>1. c \in Tasks /\ pc[c] \notin Section /\ Moves(c, PCs \ Section)
    BY <1>2 DEF WakeCall, Moves, Goto, PCs, Section, Draining, TypeOK, TasksOK, Tasks,
        Admit
  <2>2. /\ UNCHANGED <<rotating, lock, Served>>
        /\ (~rotating /\ active' = active \cup {c}) \/ active' = active
    BY <1>2 DEF WakeCall, Served, gate, stop, server, session, books, Appended,
        FlagsOK, TypeOK, Admit
  <2>3. Owner' = Owner
    BY <2>1, <2>2, OutsideKeepsOwner
  <2>. QED
    BY <2>2, <2>3 DEF Gate!gateVars, Gate!Next, Gate!Enter, Gate!Leave
<1>3. ASSUME NEW c \in Calls, LeaveCall(c) PROVE [Gate!Next]_(Gate!gateVars)
  <2>1. c \in Tasks /\ pc[c] \notin Section /\ Moves(c, PCs \ Section)
    BY <1>3 DEF LeaveCall, Moves, Goto, PCs, Section, Draining, TypeOK, TasksOK, Tasks
  <2>2. /\ UNCHANGED <<rotating, lock, Served>>
        /\ active' = active \ {c}
    BY <1>3 DEF LeaveCall, Served, gate, stop, server, session, books, Appended,
        FlagsOK, TypeOK
  <2>3. Owner' = Owner
    BY <2>1, <2>2, OutsideKeepsOwner
  <2>. QED
    BY <2>2, <2>3 DEF Gate!gateVars, Gate!Next, Gate!Enter, Gate!Leave
<1>4. ASSUME NEW c \in Calls, LeaveCallAndTrip(c) PROVE [Gate!Next]_(Gate!gateVars)
  <2>1. c \in Tasks /\ pc[c] \notin Section /\ Moves(c, PCs \ Section)
    BY <1>4 DEF LeaveCallAndTrip, Moves, Goto, PCs, Section, Draining, TypeOK,
        TasksOK, Tasks
  <2>2. /\ UNCHANGED <<rotating, lock, Served>>
        /\ active' = active \ {c}
    BY <1>4 DEF LeaveCallAndTrip, Served, gate, stop, server, session, books,
        Appended, FlagsOK, TypeOK
  <2>3. Owner' = Owner
    BY <2>1, <2>2, OutsideKeepsOwner
  <2>. QED
    BY <2>2, <2>3 DEF Gate!gateVars, Gate!Next, Gate!Enter, Gate!Leave
<1>5. ASSUME NEW c \in Calls, GiveUpWaiting(c) PROVE [Gate!Next]_(Gate!gateVars)
  <2>1. c \in Tasks /\ pc[c] \notin Section /\ Moves(c, PCs \ Section)
    BY <1>5 DEF GiveUpWaiting, Moves, Goto, PCs, Section, Draining, TypeOK, TasksOK,
        Tasks
  <2>2. UNCHANGED <<rotating, lock, active, Served>>
    BY <1>5 DEF GiveUpWaiting, Served, gate, stop, server, session, books, Appended
  <2>3. Owner' = Owner
    BY <2>1, <2>2, OutsideKeepsOwner
  <2>. QED
    BY <2>2, <2>3 DEF Gate!gateVars
<1>6. ASSUME NEW c \in Calls, RecordDecision(c) PROVE [Gate!Next]_(Gate!gateVars)
  <2>1. c \in Tasks /\ pc[c] \notin Section /\ Moves(c, PCs \ Section)
    BY <1>6 DEF RecordDecision, Moves, Goto, PCs, Section, Draining, TypeOK, TasksOK,
        Tasks
  <2>2. UNCHANGED <<rotating, lock, active, Served>>
    BY <1>6 DEF RecordDecision, Served, gate, stop, server, session, books, Appended
  <2>3. Owner' = Owner
    BY <2>1, <2>2, OutsideKeepsOwner
  <2>. QED
    BY <2>2, <2>3 DEF Gate!gateVars
<1>7. ASSUME NEW c \in Calls, RefuseUnrecorded(c) PROVE [Gate!Next]_(Gate!gateVars)
  <2>1. c \in Tasks /\ pc[c] \notin Section /\ Moves(c, PCs \ Section)
    BY <1>7 DEF RefuseUnrecorded, Moves, Goto, PCs, Section, Draining, TypeOK,
        TasksOK, Tasks
  <2>2. UNCHANGED <<rotating, lock, active, Served>>
    BY <1>7 DEF RefuseUnrecorded, Served, gate, stop, server, session, books, Appended
  <2>3. Owner' = Owner
    BY <2>1, <2>2, OutsideKeepsOwner
  <2>. QED
    BY <2>2, <2>3 DEF Gate!gateVars
<1>8. ASSUME NEW c \in Calls, Forward(c) PROVE [Gate!Next]_(Gate!gateVars)
  <2>1. c \in Tasks /\ pc[c] \notin Section /\ Moves(c, PCs \ Section)
    BY <1>8 DEF Forward, Moves, Goto, PCs, Section, Draining, TypeOK, TasksOK, Tasks
  <2>2. UNCHANGED <<rotating, lock, active, Served>>
    BY <1>8 DEF Forward, Served, gate, stop, server, session, books, Appended
  <2>3. Owner' = Owner
    BY <2>1, <2>2, OutsideKeepsOwner
  <2>. QED
    BY <2>2, <2>3 DEF Gate!gateVars
<1>9. ASSUME NEW c \in Calls, FinalizeUnexpectedCallFailure(c) PROVE [Gate!Next]_(Gate!gateVars)
  <2>1. c \in Tasks /\ pc[c] \notin Section /\ Moves(c, PCs \ Section)
    BY <1>9 DEF FinalizeUnexpectedCallFailure, Moves, Goto, PCs, Section, Draining,
        TypeOK, TasksOK, Tasks
  <2>2. UNCHANGED <<rotating, lock, active, Served>>
    BY <1>9 DEF FinalizeUnexpectedCallFailure, Served, gate, stop, server, session,
        books, Appended
  <2>3. Owner' = Owner
    BY <2>1, <2>2, OutsideKeepsOwner
  <2>. QED
    BY <2>2, <2>3 DEF Gate!gateVars
<1>10. ASSUME NEW c \in Calls, LoseTerminal(c) PROVE [Gate!Next]_(Gate!gateVars)
  <2>1. c \in Tasks /\ pc[c] \notin Section /\ Moves(c, PCs \ Section)
    BY <1>10 DEF LoseTerminal, Moves, Goto, PCs, Section, Draining, TypeOK, TasksOK,
        Tasks
  <2>2. UNCHANGED <<rotating, lock, active, Served>>
    BY <1>10 DEF LoseTerminal, Served, gate, stop, server, session, books, Appended
  <2>3. Owner' = Owner
    BY <2>1, <2>2, OutsideKeepsOwner
  <2>. QED
    BY <2>2, <2>3 DEF Gate!gateVars
<1>11. ASSUME NEW h \in Handlers, Request(h) PROVE [Gate!Next]_(Gate!gateVars)
  <2>1. h \in Tasks /\ pc[h] \notin Section /\ Moves(h, PCs \ Section)
    BY <1>11 DEF Request, Moves, Goto, PCs, Section, Draining, TypeOK, TasksOK, Tasks
  <2>2. UNCHANGED <<rotating, lock, active, Served>>
    BY <1>11 DEF Request, Served, gate, stop, server, session, books, Appended
  <2>3. Owner' = Owner
    BY <2>1, <2>2, OutsideKeepsOwner
  <2>. QED
    BY <2>2, <2>3 DEF Gate!gateVars
<1>12. ASSUME NEW t \in Tasks, RefuseTransition(t) PROVE [Gate!Next]_(Gate!gateVars)
  <2>1. t \in Tasks /\ pc[t] \notin Section /\ Moves(t, PCs \ Section)
    BY <1>12 DEF RefuseTransition, Moves, Goto, PCs, Section, Draining, TypeOK,
        TasksOK, Tasks
  <2>2. UNCHANGED <<rotating, lock, active, Served>>
    BY <1>12 DEF RefuseTransition, Served, gate, stop, server, session, books, Appended
  <2>3. Owner' = Owner
    BY <2>1, <2>2, OutsideKeepsOwner
  <2>. QED
    BY <2>2, <2>3 DEF Gate!gateVars
<1>13. ASSUME NEW t \in Tasks, CancelWait(t) PROVE [Gate!Next]_(Gate!gateVars)
  <2>1. t \in Tasks /\ pc[t] \notin Section /\ Moves(t, PCs \ Section)
    BY <1>13 DEF CancelWait, Moves, Goto, PCs, Section, Draining, TypeOK, TasksOK,
        Tasks
  <2>2. UNCHANGED <<rotating, lock, active, Served>>
    BY <1>13 DEF CancelWait, Served, gate, stop, server, session, books, Appended
  <2>3. Owner' = Owner
    BY <2>1, <2>2, OutsideKeepsOwner
  <2>. QED
    BY <2>2, <2>3 DEF Gate!gateVars
<1>14. ASSUME NEW t \in Tasks, DrainDeadline(t) PROVE [Gate!Next]_(Gate!gateVars)
  <2>1. t \in Tasks /\ pc[t] \notin Section /\ Moves(t, PCs \ Section)
    BY <1>14 DEF DrainDeadline, Moves, Goto, PCs, Section, Draining, TypeOK, TasksOK,
        Tasks
  <2>2. UNCHANGED <<rotating, lock, active, Served>>
    BY <1>14 DEF DrainDeadline, Served, gate, stop, server, session, books, Appended
  <2>3. Owner' = Owner
    BY <2>1, <2>2, OutsideKeepsOwner
  <2>. QED
    BY <2>2, <2>3 DEF Gate!gateVars
<1>15. ASSUME NEW t \in Tasks, Seal(t) PROVE [Gate!Next]_(Gate!gateVars)
  <2>1. Owner = NoTask
    BY <1>15, DrainOwnsNothing DEF Seal, Draining
  <2>2. Owner' = NoTask
    BY <1>15, TasksAssumption DEF Seal, Goto, Owner, InSection, Section, TypeOK,
        TasksOK
  <2>3. UNCHANGED <<active, Served>> /\ rotating' \in BOOLEAN /\ rotating \in BOOLEAN
    BY <1>15 DEF Seal, Served, gate, stop, server, session, books, TypeOK, FlagsOK
  <2>. QED
    BY <2>1, <2>2, <2>3 DEF Gate!gateVars, Gate!Next, Gate!Turn
<1>16. ASSUME NEW t \in Tasks, DrainedWithLostTerminal(t) PROVE [Gate!Next]_(Gate!gateVars)
  <2>1. Owner = NoTask
    BY <1>16, DrainOwnsNothing DEF DrainedWithLostTerminal, Draining
  <2>2. Owner' = NoTask
    BY <1>16, TasksAssumption DEF DrainedWithLostTerminal, Goto, Owner, InSection,
        Section, TypeOK, TasksOK
  <2>3. UNCHANGED <<active, Served>> /\ rotating' \in BOOLEAN /\ rotating \in BOOLEAN
    BY <1>16 DEF DrainedWithLostTerminal, Served, gate, stop, server, session, books,
        TypeOK, FlagsOK
  <2>. QED
    BY <2>1, <2>2, <2>3 DEF Gate!gateVars, Gate!Next, Gate!Turn
<1>17. ASSUME NEW t \in Tasks, GraceExpires(t) PROVE [Gate!Next]_(Gate!gateVars)
  <2>1. Owner = NoTask
    BY <1>17, DrainOwnsNothing DEF GraceExpires, Draining
  <2>2. Owner' = NoTask
    BY <1>17, TasksAssumption DEF GraceExpires, Goto, Owner, InSection, Section,
        TypeOK, TasksOK
  <2>3. UNCHANGED <<active, Served>> /\ rotating' \in BOOLEAN /\ rotating \in BOOLEAN
    BY <1>17 DEF GraceExpires, Served, gate, stop, server, session, books, TypeOK,
        FlagsOK
  <2>. QED
    BY <2>1, <2>2, <2>3 DEF Gate!gateVars, Gate!Next, Gate!Turn
<1>18. ASSUME NEW t \in Tasks, CancelDrain(t) PROVE [Gate!Next]_(Gate!gateVars)
  <2>1. Owner = NoTask
    BY <1>18, DrainOwnsNothing DEF CancelDrain, Draining
  <2>2. Owner' = NoTask
    BY <1>18, TasksAssumption DEF CancelDrain, Goto, Owner, InSection, Section, TypeOK,
        TasksOK
  <2>3. UNCHANGED <<active, Served>> /\ rotating' \in BOOLEAN /\ rotating \in BOOLEAN
    BY <1>18 DEF CancelDrain, Served, gate, stop, server, session, books, TypeOK,
        FlagsOK
  <2>. QED
    BY <2>1, <2>2, <2>3 DEF Gate!gateVars, Gate!Next, Gate!Turn
<1>19. ASSUME NEW t \in Tasks, ResumeCommittedClose(t) PROVE [Gate!Next]_(Gate!gateVars)
  <2>1. Owner = NoTask
    BY <1>19, DrainOwnsNothing DEF ResumeCommittedClose, Draining
  <2>2. pc'[t] \in Section /\ lock' = t
    BY <1>19 DEF ResumeCommittedClose, Goto, EntryPoint, Section, Draining,
        RotationOps, CloseOps, OpInv, LockOps, LockInv, Owns, TypeOK, TasksOK
  <2>3. Owner' = t
    BY <2>2, TasksAssumption DEF Owner, InSection
  <2>4. rotating /\ active = {} /\ UNCHANGED <<rotating, active, Served>>
    BY <1>19, TasksAssumption DEF ResumeCommittedClose, Served, gate, stop, server,
        session, books, GateInv, LockInv, Owns, TypeOK, FlagsOK
  <2>. QED
    BY <2>1, <2>3, <2>4 DEF Gate!Next, Gate!Begin
<1>20. ASSUME NEW t \in Tasks, Drained(t) PROVE [Gate!Next]_(Gate!gateVars)
  <2>1. Owner = NoTask
    BY <1>20, DrainOwnsNothing DEF Drained, Draining
  <2>2. pc'[t] \in Section /\ lock' = t
    BY <1>20 DEF Drained, Goto, EntryPoint, Section, Draining, RotationOps, CloseOps,
        OpInv, LockOps, LockInv, Owns, TypeOK, TasksOK
  <2>3. Owner' = t
    BY <2>2, TasksAssumption DEF Owner, InSection
  <2>4. rotating /\ active = {} /\ UNCHANGED <<rotating, active, Served>>
    BY <1>20, TasksAssumption DEF Drained, Served, gate, stop, server, session, books,
        GateInv, LockInv, Owns, TypeOK, FlagsOK
  <2>. QED
    BY <2>1, <2>3, <2>4 DEF Gate!Next, Gate!Begin
<1>21. ASSUME NEW t \in Tasks, TripIdentity(t) PROVE [Gate!Next]_(Gate!gateVars)
  <2>1. pc[t] \in Section /\ Moves(t, Section) /\ UNCHANGED <<rotating, lock, active>>
    BY <1>21 DEF TripIdentity, Moves, Goto, Raise, Section, gate, TypeOK, TasksOK
  <2>2. Owner # NoTask /\ Owner' = Owner /\ active = {}
    BY <2>1, SectionOwns, InsideKeepsOwner DEF GateInv, InSection
  <2>. QED
    BY <2>1, <2>2 DEF Gate!Next, Gate!Change
<1>22. ASSUME NEW t \in Tasks, RefuseSecondPending(t) PROVE [Gate!Next]_(Gate!gateVars)
  <2>1. pc[t] \in Section /\ Moves(t, Section) /\ UNCHANGED <<rotating, lock, active>>
    BY <1>22 DEF RefuseSecondPending, Moves, Goto, Raise, Section, gate, TypeOK,
        TasksOK
  <2>2. Owner # NoTask /\ Owner' = Owner /\ active = {}
    BY <2>1, SectionOwns, InsideKeepsOwner DEF GateInv, InSection
  <2>. QED
    BY <2>1, <2>2 DEF Gate!Next, Gate!Change
<1>23. ASSUME NEW t \in Tasks, CloseSession(t) PROVE [Gate!Next]_(Gate!gateVars)
  <2>1. pc[t] \in Section /\ Moves(t, Section) /\ UNCHANGED <<rotating, lock, active>>
    BY <1>23 DEF CloseSession, Moves, Goto, Raise, Section, gate, TypeOK, TasksOK
  <2>2. Owner # NoTask /\ Owner' = Owner /\ active = {}
    BY <2>1, SectionOwns, InsideKeepsOwner DEF GateInv, InSection
  <2>. QED
    BY <2>1, <2>2 DEF Gate!Next, Gate!Change
<1>24. ASSUME NEW t \in Tasks, FailClose(t) PROVE [Gate!Next]_(Gate!gateVars)
  <2>1. pc[t] \in Section /\ Moves(t, Section) /\ UNCHANGED <<rotating, lock, active>>
    BY <1>24 DEF FailClose, Moves, Goto, Raise, Section, gate, TypeOK, TasksOK
  <2>2. Owner # NoTask /\ Owner' = Owner /\ active = {}
    BY <2>1, SectionOwns, InsideKeepsOwner DEF GateInv, InSection
  <2>. QED
    BY <2>1, <2>2 DEF Gate!Next, Gate!Change
<1>25. ASSUME NEW t \in Tasks, RetryClose(t) PROVE [Gate!Next]_(Gate!gateVars)
  <2>1. pc[t] \in Section /\ Moves(t, Section) /\ UNCHANGED <<rotating, lock, active>>
    BY <1>25 DEF RetryClose, Moves, Goto, Raise, Section, gate, TypeOK, TasksOK
  <2>2. Owner # NoTask /\ Owner' = Owner /\ active = {}
    BY <2>1, SectionOwns, InsideKeepsOwner DEF GateInv, InSection
  <2>. QED
    BY <2>1, <2>2 DEF Gate!Next, Gate!Change
<1>26. ASSUME NEW t \in Tasks, ChooseSuccessor(t) PROVE [Gate!Next]_(Gate!gateVars)
  <2>1. pc[t] \in Section /\ Moves(t, Section) /\ UNCHANGED <<rotating, lock, active>>
    BY <1>26, Zenon DEF ChooseSuccessor, Moves, Goto, Raise, Section, gate, TypeOK,
        TasksOK
  <2>2. Owner # NoTask /\ Owner' = Owner /\ active = {}
    BY <2>1, SectionOwns, InsideKeepsOwner DEF GateInv, InSection
  <2>. QED
    BY <2>1, <2>2 DEF Gate!Next, Gate!Change
<1>27. ASSUME NEW t \in Tasks, ReusePending(t) PROVE [Gate!Next]_(Gate!gateVars)
  <2>1. pc[t] \in Section /\ Moves(t, Section) /\ UNCHANGED <<rotating, lock, active>>
    BY <1>27 DEF ReusePending, Moves, Goto, Raise, Section, gate, TypeOK, TasksOK
  <2>2. Owner # NoTask /\ Owner' = Owner /\ active = {}
    BY <2>1, SectionOwns, InsideKeepsOwner DEF GateInv, InSection
  <2>. QED
    BY <2>1, <2>2 DEF Gate!Next, Gate!Change
<1>28. ASSUME NEW t \in Tasks, FailCleanup(t) PROVE [Gate!Next]_(Gate!gateVars)
  <2>1. pc[t] \in Section /\ Moves(t, Section) /\ UNCHANGED <<rotating, lock, active>>
    BY <1>28 DEF FailCleanup, Moves, Goto, Raise, Section, gate, TypeOK, TasksOK
  <2>2. Owner # NoTask /\ Owner' = Owner /\ active = {}
    BY <2>1, SectionOwns, InsideKeepsOwner DEF GateInv, InSection
  <2>. QED
    BY <2>1, <2>2 DEF Gate!Next, Gate!Change
<1>29. ASSUME NEW t \in Tasks, HaltSession(t) PROVE [Gate!Next]_(Gate!gateVars)
  <2>1. pc[t] \in Section /\ Moves(t, Section) /\ UNCHANGED <<rotating, lock, active>>
    BY <1>29 DEF HaltSession, Moves, Goto, Raise, Section, gate, TypeOK, TasksOK
  <2>2. Owner # NoTask /\ Owner' = Owner /\ active = {}
    BY <2>1, SectionOwns, InsideKeepsOwner DEF GateInv, InSection
  <2>. QED
    BY <2>1, <2>2 DEF Gate!Next, Gate!Change
<1>30. ASSUME NEW t \in Tasks, RebindSession(t) PROVE [Gate!Next]_(Gate!gateVars)
  <2>1. pc[t] \in Section /\ Moves(t, Section) /\ UNCHANGED <<rotating, lock, active>>
    BY <1>30 DEF RebindSession, Moves, Goto, Raise, Section, gate, TypeOK, TasksOK,
        Adopt
  <2>2. Owner # NoTask /\ Owner' = Owner /\ active = {}
    BY <2>1, SectionOwns, InsideKeepsOwner DEF GateInv, InSection
  <2>. QED
    BY <2>1, <2>2 DEF Gate!Next, Gate!Change
<1>31. ASSUME NEW t \in Tasks, ResumeSession(t) PROVE [Gate!Next]_(Gate!gateVars)
  <2>1. pc[t] \in Section /\ Moves(t, Section) /\ UNCHANGED <<rotating, lock, active>>
    BY <1>31 DEF ResumeSession, Moves, Goto, Raise, Section, gate, TypeOK, TasksOK,
        Adopt
  <2>2. Owner # NoTask /\ Owner' = Owner /\ active = {}
    BY <2>1, SectionOwns, InsideKeepsOwner DEF GateInv, InSection
  <2>. QED
    BY <2>1, <2>2 DEF Gate!Next, Gate!Change
<1>32. ASSUME NEW t \in Tasks, ReleaseForReset(t) PROVE [Gate!Next]_(Gate!gateVars)
  <2>1. pc[t] \in Section /\ Moves(t, Section) /\ UNCHANGED <<rotating, lock, active>>
    BY <1>32 DEF ReleaseForReset, Moves, Goto, Raise, Section, gate, TypeOK, TasksOK
  <2>2. Owner # NoTask /\ Owner' = Owner /\ active = {}
    BY <2>1, SectionOwns, InsideKeepsOwner DEF GateInv, InSection
  <2>. QED
    BY <2>1, <2>2 DEF Gate!Next, Gate!Change
<1>33. ASSUME NEW t \in Tasks, ApplyReset(t) PROVE [Gate!Next]_(Gate!gateVars)
  <2>1. pc[t] \in Section /\ Moves(t, Section) /\ UNCHANGED <<rotating, lock, active>>
    BY <1>33 DEF ApplyReset, Moves, Goto, Raise, Section, gate, TypeOK, TasksOK
  <2>2. Owner # NoTask /\ Owner' = Owner /\ active = {}
    BY <2>1, SectionOwns, InsideKeepsOwner DEF GateInv, InSection
  <2>. QED
    BY <2>1, <2>2 DEF Gate!Next, Gate!Change
<1>34. ASSUME NEW t \in Tasks, RefuseUnblock(t) PROVE [Gate!Next]_(Gate!gateVars)
  <2>1. pc[t] \in Section /\ Moves(t, Section) /\ UNCHANGED <<rotating, lock, active>>
    BY <1>34 DEF RefuseUnblock, Moves, Goto, Raise, Section, gate, TypeOK, TasksOK
  <2>2. Owner # NoTask /\ Owner' = Owner /\ active = {}
    BY <2>1, SectionOwns, InsideKeepsOwner DEF GateInv, InSection
  <2>. QED
    BY <2>1, <2>2 DEF Gate!Next, Gate!Change
<1>35. ASSUME NEW t \in Tasks, UnblockAndReopen(t) PROVE [Gate!Next]_(Gate!gateVars)
  <2>1. pc[t] \in Section /\ Moves(t, Section) /\ UNCHANGED <<rotating, lock, active>>
    BY <1>35 DEF UnblockAndReopen, Moves, Goto, Raise, Section, gate, TypeOK, TasksOK
  <2>2. Owner # NoTask /\ Owner' = Owner /\ active = {}
    BY <2>1, SectionOwns, InsideKeepsOwner DEF GateInv, InSection
  <2>. QED
    BY <2>1, <2>2 DEF Gate!Next, Gate!Change
<1>36. ASSUME NEW t \in Tasks, UnblockInPlace(t) PROVE [Gate!Next]_(Gate!gateVars)
  <2>1. pc[t] \in Section /\ Moves(t, Section) /\ UNCHANGED <<rotating, lock, active>>
    BY <1>36 DEF UnblockInPlace, Moves, Goto, Raise, Section, gate, TypeOK, TasksOK
  <2>2. Owner # NoTask /\ Owner' = Owner /\ active = {}
    BY <2>1, SectionOwns, InsideKeepsOwner DEF GateInv, InSection
  <2>. QED
    BY <2>1, <2>2 DEF Gate!Next, Gate!Change
<1>37. ASSUME NEW t \in Tasks, ExitTransition(t) PROVE [Gate!Next]_(Gate!gateVars)
  <2>1. pc[t] \in Section /\ lock' = NoTask /\ rotating' \in BOOLEAN /\ active' = active
    BY <1>37 DEF ExitTransition, Section, TypeOK, FlagsOK
  <2>2. Owner # NoTask /\ active = {}
    BY <2>1, SectionOwns DEF GateInv, InSection
  <2>3. Owner' = NoTask
    BY <2>1 DEF Owner
  <2>. QED
    BY <2>1, <2>2, <2>3 DEF Gate!Next, Gate!Finish
<1>38. ASSUME NEW t \in Tasks, FinishShutdown(t) PROVE [Gate!Next]_(Gate!gateVars)
  <2>1. pc[t] \in Section /\ lock' = NoTask /\ rotating' \in BOOLEAN /\ active' = active
    BY <1>38 DEF FinishShutdown, Section, TypeOK, FlagsOK
  <2>2. Owner # NoTask /\ active = {}
    BY <2>1, SectionOwns DEF GateInv, InSection
  <2>3. Owner' = NoTask
    BY <2>1 DEF Owner
  <2>. QED
    BY <2>1, <2>2, <2>3 DEF Gate!Next, Gate!Finish
<1>39. CASE UNCHANGED vars
  <2>1. UNCHANGED <<rotating, lock, active, pc, Served>>
    BY <1>39 DEF vars, Served, gate, stop, server, session, books
  <2>2. Owner' = Owner
    BY <2>1 DEF Owner, InSection
  <2>. QED
    BY <2>1, <2>2 DEF Gate!gateVars
<1>. QED
  BY <1>1, <1>2, <1>3, <1>4, <1>5, <1>6, <1>7, <1>8, <1>9, <1>10, <1>11, <1>12,
      <1>13, <1>14, <1>15, <1>16, <1>17, <1>18, <1>19, <1>20, <1>21, <1>22, <1>23,
      <1>24, <1>25, <1>26, <1>27, <1>28, <1>29, <1>30, <1>31, <1>32, <1>33, <1>34,
      <1>35, <1>36, <1>37, <1>38, <1>39 DEF Next, WaitingCall, ServeCall,
      LeavingCall, Progress, CloseStep, UnblockStep, Quiescent

\* The gateway implements the gate it promises: a call is admitted only while the gate is
\* open, and the session it works on is rotated, signed, reset, halted or taken away by
\* one owner at a time and only when no call is inside.
THEOREM GatewayImplementsGate == Spec => GateImplemented
<1>1. Init => Gate!Init
  BY DEF Init, Gate!Init, Owner
<1>. QED
  BY <1>1, GateStep, Invariance, PTL DEF Spec, GateImplemented, Gate!Spec
=============================================================================
