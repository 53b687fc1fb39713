-------------------------- MODULE GatewayTypeProofs -------------------------
(***************************************************************************)
(* Every step of GatewayLifecycle preserves the types and the successors:  *)
(* TypeOK and SuccessorInv of the inductive invariant.                     *)
(***************************************************************************)
EXTENDS GatewayLifecycleInv, TLAPS

\* AuditChain.append keeps the chain lengths a sequence of naturals.
LEMMA AppendedType ==
    ASSUME length \in Seq(Nat), NEW c \in 1 .. Len(length), Appended(c)
    PROVE  length' \in Seq(Nat) /\ Len(length)' = Len(length)
  BY DEF Appended

\* create_session opens one chain more and hands it to the task.
LEMMA OpenedType ==
    ASSUME SessionOK, TasksOK, NEW t \in Tasks, OpenSession(t)
    PROVE  /\ length' \in Seq(Nat) /\ Len(length)' = Len(length) + 1
           /\ Len(length) \in Nat /\ issued' \in Nat /\ unbound' \subseteq Nat
           /\ successor' \in [Tasks -> Successors]
           /\ successor'[t] \in Successors /\ successor'[t] # NoSuccessor
           /\ successor'[t].chain = Len(length)'
           /\ \A u \in Tasks : u # t => successor'[u] = successor[u]
<1>. DEFINE new == [sid |-> issued + 1, chain |-> Len(length) + 1]
<1>1. new \in Successors /\ new # NoSuccessor /\ new.chain = Len(length) + 1
  BY DEF SessionOK, Successors, NoSuccessor
<1>2. length' = Append(length, 1) /\ length \in Seq(Nat)
  BY DEF OpenSession, SessionOK
<1>3. length' \in Seq(Nat) /\ Len(length)' = Len(length) + 1 /\ Len(length) \in Nat
  BY <1>2
<1>4. issued' \in Nat /\ unbound' \subseteq Nat
  BY DEF OpenSession, SessionOK
<1>5. successor' = [successor EXCEPT ![t] = new] /\ successor \in [Tasks -> Successors]
  BY DEF OpenSession, TasksOK
<1>. HIDE DEF new
<1>. QED
  BY <1>1, <1>3, <1>4, <1>5

\* The flags of the gate, of shutdown and of the kill switch stay Boolean.
LEMMA FlagsTypeInductive ==
    ASSUME FlagsOK, [Next]_vars
    PROVE  FlagsOK'
<1>1. ASSUME NEW c \in Calls,
               EnterCall(c) \/ WakeCall(c) \/ GiveUpWaiting(c) \/ RecordDecision(c)
                   \/ RefuseUnrecorded(c) \/ Forward(c) \/
                   FinalizeUnexpectedCallFailure(c)
     PROVE  UNCHANGED <<gate, shuttingDown, shutdownDrained, triggered, window, storesClosed>>
  BY <1>1 DEF EnterCall, WakeCall, GiveUpWaiting, RecordDecision, RefuseUnrecorded,
      Forward, FinalizeUnexpectedCallFailure, gate, stop, server, killSwitch
<1>2. ASSUME NEW c \in Calls, LoseTerminal(c) PROVE FlagsOK'
  BY <1>2, SwitchesAssumption DEF LoseTerminal, FlagsOK, gate, stop, server,
      killSwitch
<1>3. ASSUME NEW c \in Calls, LeaveCall(c) PROVE FlagsOK'
  BY <1>3, SwitchesAssumption DEF LeaveCall, FlagsOK, gate, stop, server, killSwitch
<1>4. ASSUME NEW c \in Calls, LeaveCallAndTrip(c) PROVE FlagsOK'
  BY <1>4, SwitchesAssumption DEF LeaveCallAndTrip, FlagsOK, gate, stop, server,
      killSwitch
<1>5. ASSUME NEW h \in Handlers, Request(h) PROVE FlagsOK'
  BY <1>5, SwitchesAssumption DEF Request, FlagsOK, gate, stop, server, killSwitch
<1>6. ASSUME NEW t \in Tasks,
               CancelWait(t) \/ GraceExpires(t) \/ RefuseSecondPending(t) \/
                   ChooseSuccessor(t) \/ ReusePending(t) \/ ApplyReset(t)
     PROVE  UNCHANGED <<gate, shuttingDown, shutdownDrained, triggered, window, storesClosed>>
  BY <1>6 DEF CancelWait, GraceExpires, RefuseSecondPending, ChooseSuccessor,
      ReusePending, ApplyReset, gate, stop, server, killSwitch
<1>7. ASSUME NEW t \in Tasks, RefuseTransition(t) PROVE FlagsOK'
  BY <1>7, SwitchesAssumption DEF RefuseTransition, FlagsOK, gate, stop, server,
      killSwitch
<1>8. ASSUME NEW t \in Tasks, ResumeCommittedClose(t) PROVE FlagsOK'
  BY <1>8, SwitchesAssumption, Zenon DEF ResumeCommittedClose, FlagsOK, gate, stop,
      server, killSwitch
<1>9. ASSUME NEW t \in Tasks, Seal(t) PROVE FlagsOK'
  BY <1>9, SwitchesAssumption DEF Seal, FlagsOK, gate, stop, server, killSwitch
<1>10. ASSUME NEW t \in Tasks, Drained(t) PROVE FlagsOK'
  BY <1>10, SwitchesAssumption, Zenon DEF Drained, FlagsOK, gate, stop, server,
      killSwitch
<1>11. ASSUME NEW t \in Tasks, DrainedWithLostTerminal(t) PROVE FlagsOK'
  BY <1>11, SwitchesAssumption, Zenon DEF DrainedWithLostTerminal, FlagsOK, gate,
      stop, server, killSwitch
<1>12. ASSUME NEW t \in Tasks, DrainDeadline(t) PROVE FlagsOK'
  BY <1>12, SwitchesAssumption DEF DrainDeadline, FlagsOK, gate, stop, server,
      killSwitch
<1>13. ASSUME NEW t \in Tasks, CancelDrain(t) PROVE FlagsOK'
  BY <1>13, SwitchesAssumption DEF CancelDrain, FlagsOK, gate, stop, server,
      killSwitch
<1>14. ASSUME NEW t \in Tasks, ExitTransition(t) PROVE FlagsOK'
  BY <1>14, SwitchesAssumption DEF ExitTransition, FlagsOK, gate, stop, server,
      killSwitch
<1>15. ASSUME NEW t \in Tasks, TripIdentity(t) PROVE FlagsOK'
  BY <1>15, SwitchesAssumption DEF TripIdentity, FlagsOK, gate, stop, server,
      killSwitch
<1>16. ASSUME NEW t \in Tasks, CloseSession(t) PROVE FlagsOK'
  BY <1>16, SwitchesAssumption DEF CloseSession, FlagsOK, gate, stop, server,
      killSwitch
<1>17. ASSUME NEW t \in Tasks, FailClose(t) PROVE FlagsOK'
  BY <1>17, SwitchesAssumption, Zenon DEF FailClose, FlagsOK, gate, stop, server,
      killSwitch
<1>18. ASSUME NEW t \in Tasks, RetryClose(t) PROVE FlagsOK'
  BY <1>18, SwitchesAssumption DEF RetryClose, FlagsOK, gate, stop, server,
      killSwitch
<1>19. ASSUME NEW t \in Tasks, FailCleanup(t) PROVE FlagsOK'
  BY <1>19, SwitchesAssumption DEF FailCleanup, FlagsOK, gate, stop, server,
      killSwitch
<1>20. ASSUME NEW t \in Tasks, HaltSession(t) PROVE FlagsOK'
  BY <1>20, SwitchesAssumption, Zenon DEF HaltSession, FlagsOK, gate, stop, server,
      killSwitch
<1>21. ASSUME NEW t \in Tasks, RebindSession(t) PROVE FlagsOK'
  BY <1>21, SwitchesAssumption, Zenon DEF RebindSession, FlagsOK, gate, stop,
      server, killSwitch, Adopt
<1>22. ASSUME NEW t \in Tasks, ResumeSession(t) PROVE FlagsOK'
  BY <1>22, SwitchesAssumption, Zenon DEF ResumeSession, FlagsOK, gate, stop,
      server, killSwitch, Adopt
<1>23. ASSUME NEW t \in Tasks, ReleaseForReset(t) PROVE FlagsOK'
  BY <1>23, SwitchesAssumption, Zenon DEF ReleaseForReset, FlagsOK, gate, stop,
      server, killSwitch
<1>24. ASSUME NEW t \in Tasks, FinishShutdown(t) PROVE FlagsOK'
  BY <1>24, SwitchesAssumption, Zenon DEF FinishShutdown, FlagsOK, gate, stop,
      server, killSwitch
<1>25. ASSUME NEW t \in Tasks, RefuseUnblock(t) PROVE FlagsOK'
  BY <1>25, SwitchesAssumption DEF RefuseUnblock, FlagsOK, gate, stop, server,
      killSwitch
<1>26. ASSUME NEW t \in Tasks, UnblockAndReopen(t) PROVE FlagsOK'
  BY <1>26, SwitchesAssumption DEF UnblockAndReopen, FlagsOK, gate, stop, server,
      killSwitch
<1>27. ASSUME NEW t \in Tasks, UnblockInPlace(t) PROVE FlagsOK'
  BY <1>27, SwitchesAssumption DEF UnblockInPlace, FlagsOK, gate, stop, server,
      killSwitch
<1>28. CASE UNCHANGED <<gate, shuttingDown, shutdownDrained, triggered, window, storesClosed>>
  BY <1>28 DEF FlagsOK, gate, stop, server, killSwitch
<1>29. CASE UNCHANGED vars
  BY <1>29, <1>28 DEF vars, gate, stop, server, killSwitch
<1>. QED
  BY <1>1, <1>2, <1>3, <1>4, <1>5, <1>6, <1>7, <1>8, <1>9, <1>10, <1>11, <1>12,
      <1>13, <1>14, <1>15, <1>16, <1>17, <1>18, <1>19, <1>20, <1>21, <1>22, <1>23,
      <1>24, <1>25, <1>26, <1>27, <1>28, <1>29 DEF Next, WaitingCall, ServeCall,
      LeavingCall, Progress, CloseStep, UnblockStep, Quiescent

\* The lock, the admitted calls and the blocks keep their types.
LEMMA GateTypeInductive ==
    ASSUME GateOK, SuccessorInv, [Next]_vars
    PROVE  GateOK'
<1>1. ASSUME NEW c \in Calls,
               GiveUpWaiting(c) \/ RecordDecision(c) \/ RefuseUnrecorded(c) \/
                   Forward(c) \/ FinalizeUnexpectedCallFailure(c) \/ LoseTerminal(c)
     PROVE  UNCHANGED <<halted, lock, ahead, active, blocked>>
  BY <1>1 DEF GiveUpWaiting, RecordDecision, RefuseUnrecorded, Forward,
      FinalizeUnexpectedCallFailure, LoseTerminal, stop, killSwitch, request
<1>2. ASSUME NEW c \in Calls,
               EnterCall(c) \/ WakeCall(c) \/ LeaveCall(c)
     PROVE  GateOK'
  BY <1>2 DEF EnterCall, WakeCall, LeaveCall, GateOK, stop, killSwitch, request,
      Tasks, Admit
<1>3. ASSUME NEW c \in Calls, LeaveCallAndTrip(c) PROVE GateOK'
  BY <1>3 DEF LeaveCallAndTrip, GateOK, stop, killSwitch, request, Tasks, Agent,
      Other, NoAgent, Unknown, Enqueue
<1>4. ASSUME NEW h \in Handlers, Request(h) PROVE GateOK'
  BY <1>4 DEF Request, GateOK, stop, killSwitch, request, Tasks, Enqueue
<1>5. ASSUME NEW t \in Tasks,
               Drained(t) \/ DrainDeadline(t) \/ RefuseSecondPending(t) \/
                   RetryClose(t) \/ ChooseSuccessor(t) \/ ReusePending(t) \/
                   FailCleanup(t) \/ RebindSession(t) \/ ReleaseForReset(t)
     PROVE  UNCHANGED <<halted, lock, ahead, active, blocked>>
  BY <1>5 DEF Drained, DrainDeadline, RefuseSecondPending, RetryClose,
      ChooseSuccessor, ReusePending, FailCleanup, RebindSession, ReleaseForReset,
      stop, killSwitch, request
<1>6. ASSUME NEW t \in Tasks,
               ApplyReset(t) \/ RefuseUnblock(t)
     PROVE  UNCHANGED <<halted, lock, ahead, active, blocked>>
  BY <1>6, Zenon DEF ApplyReset, RefuseUnblock, stop, killSwitch, request
<1>7. ASSUME NEW t \in Tasks,
               RefuseTransition(t) \/ CancelWait(t) \/ ResumeCommittedClose(t)
     PROVE  GateOK'
  BY <1>7 DEF RefuseTransition, CancelWait, ResumeCommittedClose, GateOK, stop,
      killSwitch, request, Tasks, Dequeue
<1>8. ASSUME NEW t \in Tasks,
               Seal(t) \/ DrainedWithLostTerminal(t) \/ GraceExpires(t)
     PROVE  GateOK'
  BY <1>8 DEF Seal, DrainedWithLostTerminal, GraceExpires, GateOK, stop, killSwitch,
      request, Tasks, Dequeue
<1>9. ASSUME NEW t \in Tasks,
               CancelDrain(t) \/ ExitTransition(t) \/ TripIdentity(t)
     PROVE  GateOK'
  BY <1>9, Zenon DEF CancelDrain, ExitTransition, TripIdentity, GateOK, stop,
      killSwitch, request, Tasks, Agent, Other
<1>10. ASSUME NEW t \in Tasks,
               CloseSession(t) \/ FailClose(t) \/ HaltSession(t)
     PROVE  GateOK'
  BY <1>10, Zenon DEF CloseSession, FailClose, HaltSession, GateOK, stop,
      killSwitch, request, Tasks, Agent, Other, SuccessorInv, Unknown, NoAgent
<1>11. ASSUME NEW t \in Tasks,
               ResumeSession(t) \/ FinishShutdown(t) \/ UnblockAndReopen(t)
     PROVE  GateOK'
  BY <1>11, Zenon DEF ResumeSession, FinishShutdown, UnblockAndReopen, GateOK, stop,
      killSwitch, request, Tasks, NoAgent, Agent, Unknown, Lifted
<1>12. ASSUME NEW t \in Tasks, UnblockInPlace(t) PROVE GateOK'
  BY <1>12, Zenon DEF UnblockInPlace, GateOK, stop, killSwitch, request, Tasks,
      Lifted, Resumes, NoAgent, Agent, Unknown
<1>13. CASE UNCHANGED <<halted, lock, ahead, active, blocked>>
  BY <1>13 DEF GateOK, stop, killSwitch, request, Tasks
<1>14. CASE UNCHANGED vars
  BY <1>14, <1>13 DEF vars, stop, killSwitch, request
<1>. QED
  BY <1>1, <1>2, <1>3, <1>4, <1>5, <1>6, <1>7, <1>8, <1>9, <1>10, <1>11, <1>12,
      <1>13, <1>14 DEF Next, WaitingCall, ServeCall, LeavingCall, Progress,
      CloseStep, UnblockStep, Quiescent

\* The session, its chains and the claims keep their types.
LEMMA SessionTypeInductive ==
    ASSUME SessionOK, TasksOK, SuccessorInv, [Next]_vars
    PROVE  SessionOK'
<1>1. ASSUME NEW c \in Calls,
               EnterCall(c) \/ WakeCall(c) \/ GiveUpWaiting(c) \/
                   RefuseUnrecorded(c) \/ Forward(c) \/ LoseTerminal(c) \/
                   LeaveCall(c)
     PROVE  UNCHANGED <<server, session, books>>
  BY <1>1 DEF EnterCall, WakeCall, GiveUpWaiting, RefuseUnrecorded, Forward,
      LoseTerminal, LeaveCall, server, session, books
<1>2. ASSUME NEW c \in Calls, RecordDecision(c) PROVE SessionOK'
  BY <1>2, AppendedType DEF RecordDecision, SessionOK, server, session, books
<1>3. ASSUME NEW c \in Calls, FinalizeUnexpectedCallFailure(c) PROVE SessionOK'
  BY <1>3, AppendedType DEF FinalizeUnexpectedCallFailure, SessionOK, server,
      session, books
<1>4. ASSUME NEW c \in Calls, LeaveCallAndTrip(c) PROVE SessionOK'
  <2>1. CASE Appended(chain)
    BY <1>4, <2>1, AppendedType DEF LeaveCallAndTrip, SessionOK, server, session, books
  <2>2. CASE UNCHANGED length
    BY <1>4, <2>2 DEF LeaveCallAndTrip, SessionOK, server, session, books
  <2>. QED BY <1>4, <2>1, <2>2 DEF LeaveCallAndTrip
<1>5. ASSUME NEW h \in Handlers, Request(h) PROVE UNCHANGED <<server, session, books>>
  BY <1>5 DEF Request, server, session, books
<1>6. ASSUME NEW t \in Tasks,
               RefuseTransition(t) \/ CancelWait(t) \/ ResumeCommittedClose(t) \/
                   Seal(t) \/ Drained(t) \/ DrainedWithLostTerminal(t) \/
                   DrainDeadline(t) \/ GraceExpires(t) \/ CancelDrain(t)
     PROVE  UNCHANGED <<server, session, books>>
  BY <1>6, Zenon DEF RefuseTransition, CancelWait, ResumeCommittedClose, Seal,
      Drained, DrainedWithLostTerminal, DrainDeadline, GraceExpires, CancelDrain,
      server, session, books
<1>7. ASSUME NEW t \in Tasks,
               ExitTransition(t) \/ RefuseSecondPending(t) \/ ReusePending(t) \/
                   FailCleanup(t) \/ ReleaseForReset(t) \/ RefuseUnblock(t)
     PROVE  UNCHANGED <<server, session, books>>
  BY <1>7, Zenon DEF ExitTransition, RefuseSecondPending, ReusePending, FailCleanup,
      ReleaseForReset, RefuseUnblock, server, session, books
<1>8. ASSUME NEW t \in Tasks, RetryClose(t) PROVE SessionOK'
  BY <1>8, Zenon DEF RetryClose, SessionOK, TasksOK, server, session, books
<1>9. ASSUME NEW t \in Tasks, HaltSession(t) PROVE SessionOK'
  BY <1>9, Zenon DEF HaltSession, SessionOK, NoClose, NoSuccessor, Successors,
      session, books
<1>10. ASSUME NEW t \in Tasks, FinishShutdown(t) PROVE SessionOK'
  BY <1>10, Zenon DEF FinishShutdown, SessionOK, session, books
<1>11. ASSUME NEW t \in Tasks, TripIdentity(t) PROVE SessionOK'
  <2>1. CASE Appended(chain)
    BY <1>11, <2>1, AppendedType DEF TripIdentity, SessionOK, server, session, books
  <2>2. CASE UNCHANGED length
    BY <1>11, <2>2 DEF TripIdentity, SessionOK, server, session, books
  <2>. QED BY <1>11, <2>1, <2>2 DEF TripIdentity
<1>12. ASSUME NEW t \in Tasks, CloseSession(t) PROVE SessionOK'
  <2>1. length' \in Seq(Nat) /\ Len(length)' = Len(length) /\ length'[chain] \in Nat
    BY <1>12 DEF CloseSession, SessionOK
  <2>2. claims' \subseteq [sid : Nat, chain : Nat, length : Nat, covers : SUBSET Calls]
    BY <1>12, <2>1 DEF CloseSession, SessionOK, TasksOK, TerminalsOn
  <2>. QED
    BY <1>12, <2>1, <2>2, Zenon DEF CloseSession, SessionOK, TasksOK
<1>13. ASSUME NEW t \in Tasks, FailClose(t) PROVE SessionOK'
  <2>1. CASE Appended(chain)
    BY <1>13, <2>1, AppendedType, Zenon DEF FailClose, SessionOK, server, session,
        books, TasksOK
  <2>2. CASE UNCHANGED length
    BY <1>13, <2>2, Zenon DEF FailClose, SessionOK, server, session, books, TasksOK
  <2>. QED BY <1>13, <2>1, <2>2 DEF FailClose
<1>14. ASSUME NEW t \in Tasks, ChooseSuccessor(t) PROVE SessionOK'
  <2>1. CASE OpenSession(t)
    <3>1. /\ length' \in Seq(Nat) /\ Len(length)' = Len(length) + 1
          /\ issued' \in Nat /\ unbound' \subseteq Nat /\ successor'[t] \in Successors
      BY <2>1, OpenedType
    <3>2. chain' \in 1 .. Len(length)'
      BY <1>14, <3>1 DEF ChooseSuccessor, SessionOK
    <3>3. target[t] \in Nat /\ NoSuccessor \in Successors
      BY DEF TasksOK, NoSuccessor, Successors
    <3>4. pending' \in [sid : Nat, next : Successors]
      <4>1. \E n \in Successors : pending' = [sid |-> target[t], next |-> n]
                \/ pending' = pending
        BY <1>14, <3>1, <3>3 DEF ChooseSuccessor
      <4>. QED
        BY <3>3, <4>1 DEF SessionOK
    <3>. QED
      <4>1. UNCHANGED <<closedChains, sid, closing, claims>>
        BY <1>14 DEF ChooseSuccessor, books
      <4>. QED
        BY <3>1, <3>2, <3>4, <4>1 DEF SessionOK
  <2>2. CASE UNCHANGED <<issued, length, unbound>>
    <3>1. target[t] \in Nat /\ NoSuccessor \in Successors /\ issued \in Nat
      BY DEF SessionOK, TasksOK, NoSuccessor, Successors
    <3>2. \/ pending' = pending
          \/ pending' = [sid |-> target[t], next |-> NoSuccessor]
      BY <1>14, <2>2, <3>1 DEF ChooseSuccessor, OpenSession
    <3>3. UNCHANGED <<closedChains, sid, chain, closing, claims>>
      BY <1>14 DEF ChooseSuccessor, books
    <3>. QED
      BY <2>2, <3>1, <3>2, <3>3 DEF SessionOK
  <2>. QED
    BY <1>14, <2>1, <2>2 DEF ChooseSuccessor
<1>15. ASSUME NEW t \in Tasks, RebindSession(t) PROVE SessionOK'
  <2>1. sid' \in Nat /\ chain' \in 1 .. Len(length)
    BY <1>15 DEF RebindSession, Adopt, SuccessorInv, TasksOK, Successors
  <2>2. pending' \in [sid : Nat, next : Successors]
    BY <1>15 DEF RebindSession, NoClose, NoSuccessor, Successors
  <2>. QED
    BY <1>15, <2>1, <2>2 DEF RebindSession, SessionOK, books
<1>16. ASSUME NEW t \in Tasks, ResumeSession(t) PROVE SessionOK'
  <2>1. sid' \in Nat /\ chain' \in 1 .. Len(length)
    BY <1>16 DEF ResumeSession, Adopt, SuccessorInv, TasksOK, Successors
  <2>2. length' \in Seq(Nat) /\ Len(length)' = Len(length)
    <3>1. PICK k \in 1 .. Len(length) : chain' = k
      BY <2>1
    <3>2. length \in Seq(Nat)
      BY DEF SessionOK
    <3>3. Appended(k) \/ UNCHANGED length
      BY <1>16, <3>1 DEF ResumeSession, Appended
    <3>. QED
      BY <3>2, <3>3, AppendedType
  <2>3. UNCHANGED <<pending, closedChains, issued, unbound, closing, claims>>
    BY <1>16, Zenon DEF ResumeSession, server, books
  <2>. QED
    BY <2>1, <2>2, <2>3 DEF SessionOK
<1>17. ASSUME NEW t \in Tasks, ApplyReset(t) PROVE SessionOK'
  <2>1. CASE Appended(chain)
    <3>1. length' \in Seq(Nat) /\ Len(length)' = Len(length)
      BY <2>1, AppendedType DEF SessionOK
    <3>2. sid' \in Nat /\ issued' \in Nat
      BY <1>17 DEF ApplyReset, SessionOK
    <3>3. UNCHANGED <<pending, closedChains, chain, unbound, closing, claims>>
      BY <1>17 DEF ApplyReset, server, books
    <3>. QED
      BY <3>1, <3>2, <3>3 DEF SessionOK
  <2>2. CASE UNCHANGED length
    BY <1>17, <2>2 DEF ApplyReset, SessionOK, server, session, books
  <2>. QED BY <1>17, <2>1, <2>2 DEF ApplyReset
<1>18. ASSUME NEW t \in Tasks, UnblockAndReopen(t) PROVE SessionOK'
  <2>1. CASE OpenSession(t)
    <3>1. /\ length' \in Seq(Nat) /\ Len(length)' = Len(length) + 1
          /\ issued' \in Nat /\ unbound' \subseteq Nat
      BY <2>1, OpenedType
    <3>2. chain' \in 1 .. Len(length)'
      BY <1>18, <3>1 DEF UnblockAndReopen, SessionOK
    <3>. QED
      <4>1. UNCHANGED <<pending, closedChains, sid, closing, claims>>
        BY <1>18 DEF UnblockAndReopen, server, books
      <4>2. /\ pending' \in [sid : Nat, next : Successors] /\ closedChains' \subseteq Nat
            /\ sid' \in Nat /\ closing' \subseteq Nat
            /\ claims' \subseteq
                  [sid : Nat, chain : Nat, length : Nat, covers : SUBSET Calls]
        BY <4>1 DEF SessionOK
      <4>. QED
        BY <3>1, <3>2, <4>2, Zenon DEF SessionOK
  <2>2. CASE UNCHANGED <<issued, length, unbound>>
    BY <1>18, <2>2 DEF UnblockAndReopen, SessionOK, server, books
  <2>. QED
    BY <1>18, <2>1, <2>2 DEF UnblockAndReopen
<1>19. ASSUME NEW t \in Tasks, UnblockInPlace(t) PROVE SessionOK'
  <2>1. CASE Appended(chain)
    BY <1>19, <2>1, AppendedType DEF UnblockInPlace, SessionOK, server, session, books
  <2>2. CASE UNCHANGED length
    BY <1>19, <2>2 DEF UnblockInPlace, SessionOK, server, session, books
  <2>. QED BY <1>19, <2>1, <2>2 DEF UnblockInPlace
<1>20. CASE UNCHANGED <<server, session, books>>
  BY <1>20 DEF SessionOK, server, session, books
<1>21. CASE UNCHANGED vars
  BY <1>21, <1>20 DEF vars, server, session, books
<1>. QED
  BY <1>1, <1>2, <1>3, <1>4, <1>5, <1>6, <1>7, <1>8, <1>9, <1>10, <1>11, <1>12,
      <1>13, <1>14, <1>15, <1>16, <1>17, <1>18, <1>19, <1>20, <1>21 DEF Next,
      WaitingCall, ServeCall, LeavingCall, Progress, CloseStep, UnblockStep,
      Quiescent

\* What is recorded of each task keeps its type.
LEMMA TaskTypeInductive ==
    ASSUME SessionOK, TasksOK, OpInv, [Next]_vars
    PROVE  TasksOK'
<1>1. ASSUME NEW c \in Calls,
               GiveUpWaiting(c) \/ RecordDecision(c) \/ RefuseUnrecorded(c) \/
                   Forward(c) \/ FinalizeUnexpectedCallFailure(c)
     PROVE  TasksOK'
  BY <1>1, OperationsAssumption DEF GiveUpWaiting, RecordDecision, RefuseUnrecorded,
      Forward, FinalizeUnexpectedCallFailure, TasksOK, Goto, request, outcome, PCs,
      Draining, Section, Tasks
<1>2. ASSUME NEW c \in Calls,
               LoseTerminal(c) \/ LeaveCall(c)
     PROVE  TasksOK'
  BY <1>2, OperationsAssumption DEF LoseTerminal, LeaveCall, TasksOK, Goto, request,
      outcome, PCs, Draining, Section, Tasks
<1>3. ASSUME NEW c \in Calls, EnterCall(c) PROVE TasksOK'
  <2>1. chain \in Nat
    BY DEF SessionOK
  <2>2. pc' \in [Tasks -> PCs] /\ op' \in [Tasks -> Operations \cup {"none", "call", "seal"}]
    BY <1>3 DEF EnterCall, Admit, Goto, TasksOK, PCs, Tasks, request
  <2>3. admittedTo' \in [Calls -> Nat]
    BY <1>3, <2>1 DEF EnterCall, Admit, TasksOK
  <2>. QED
    BY <1>3, <2>2, <2>3 DEF EnterCall, TasksOK, request
<1>4. ASSUME NEW c \in Calls, WakeCall(c) PROVE TasksOK'
  <2>1. chain \in Nat
    BY DEF SessionOK
  <2>2. pc' \in [Tasks -> PCs] /\ op' \in [Tasks -> Operations \cup {"none", "call", "seal"}]
    BY <1>4 DEF WakeCall, Admit, Goto, TasksOK, PCs, Tasks, request
  <2>3. admittedTo' \in [Calls -> Nat]
    BY <1>4, <2>1 DEF WakeCall, Admit, TasksOK
  <2>. QED
    BY <1>4, <2>2, <2>3 DEF WakeCall, TasksOK, request
<1>5. ASSUME NEW c \in Calls, LeaveCallAndTrip(c) PROVE TasksOK'
  <2>1. pc' \in [Tasks -> PCs] /\ op' \in [Tasks -> Operations \cup {"none", "call", "seal"}]
    BY <1>5 DEF LeaveCallAndTrip, Goto, TasksOK, PCs, Tasks
  <2>2. target' \in [Tasks -> Nat]
    BY <1>5 DEF LeaveCallAndTrip, TasksOK, SessionOK, Tasks
  <2>. QED
    BY <1>5, <2>1, <2>2 DEF LeaveCallAndTrip, TasksOK, outcome
<1>6. ASSUME NEW h \in Handlers, Request(h) PROVE TasksOK'
  BY <1>6, OperationsAssumption DEF Request, TasksOK, Goto, request, outcome, PCs,
      Draining, Section, Tasks, SessionOK, Agent, Other, Unknown, NoAgent
<1>7. ASSUME NEW t \in Tasks,
               RefuseTransition(t) \/ CancelWait(t) \/ ResumeCommittedClose(t) \/
                   Seal(t) \/ Drained(t)
     PROVE  TasksOK'
  BY <1>7, OperationsAssumption DEF RefuseTransition, CancelWait,
      ResumeCommittedClose, Seal, Drained, TasksOK, Goto, request, outcome, PCs,
      Draining, Section, Tasks, EntryPoint, RotationOps, CloseOps, OpInv, LockOps
<1>8. ASSUME NEW t \in Tasks,
               DrainedWithLostTerminal(t) \/ DrainDeadline(t) \/ GraceExpires(t) \/
                   CancelDrain(t) \/ ExitTransition(t)
     PROVE  TasksOK'
  BY <1>8, OperationsAssumption DEF DrainedWithLostTerminal, DrainDeadline,
      GraceExpires, CancelDrain, ExitTransition, TasksOK, Goto, request, outcome,
      PCs, Draining, Section, Tasks
<1>9. ASSUME NEW t \in Tasks,
               TripIdentity(t) \/ RefuseSecondPending(t) \/ CloseSession(t) \/
                   FailClose(t) \/ RetryClose(t)
     PROVE  TasksOK'
  BY <1>9, OperationsAssumption DEF TripIdentity, RefuseSecondPending, CloseSession,
      FailClose, RetryClose, TasksOK, Goto, request, outcome, PCs, Draining,
      Section, Tasks, Raise
<1>10. ASSUME NEW t \in Tasks,
               ReusePending(t) \/ FailCleanup(t) \/ HaltSession(t) \/
                   RebindSession(t) \/ ResumeSession(t)
     PROVE  TasksOK'
  BY <1>10, OperationsAssumption, Zenon DEF ReusePending, FailCleanup, HaltSession,
      RebindSession, ResumeSession, TasksOK, Goto, request, outcome, PCs, Draining,
      Section, Tasks, HaltLabel, Agent, Unknown, SessionOK, Raise
<1>11. ASSUME NEW t \in Tasks,
               ReleaseForReset(t) \/ ApplyReset(t) \/ FinishShutdown(t) \/
                   RefuseUnblock(t) \/ UnblockInPlace(t)
     PROVE  TasksOK'
  BY <1>11, OperationsAssumption, Zenon DEF ReleaseForReset, ApplyReset,
      FinishShutdown, RefuseUnblock, UnblockInPlace, TasksOK, Goto, request,
      outcome, PCs, Draining, Section, Tasks
<1>12. ASSUME NEW t \in Tasks, ChooseSuccessor(t) PROVE TasksOK'
  <2>1. pc' \in [Tasks -> PCs]
    BY <1>12 DEF ChooseSuccessor, Goto, Raise, TasksOK, PCs, Section
  <2>2. subject' \in [Tasks -> {NoAgent, Agent, Other, Unknown}]
    BY <1>12 DEF ChooseSuccessor, TasksOK, HaltLabel
  <2>3. successor' \in [Tasks -> Successors]
    BY <1>12, OpenedType DEF ChooseSuccessor, TasksOK
  <2>. QED
    BY <1>12, <2>1, <2>2, <2>3, Zenon DEF ChooseSuccessor, TasksOK, outcome
<1>13. ASSUME NEW t \in Tasks, UnblockAndReopen(t) PROVE TasksOK'
  <2>1. pc' \in [Tasks -> PCs]
    BY <1>13 DEF UnblockAndReopen, Goto, Raise, TasksOK, PCs, Section
  <2>2. successor' \in [Tasks -> Successors]
    BY <1>13, OpenedType DEF UnblockAndReopen, TasksOK
  <2>. QED
    BY <1>13, <2>1, <2>2 DEF UnblockAndReopen, TasksOK, outcome
<1>14. CASE UNCHANGED <<pc, request, outcome>>
  BY <1>14 DEF TasksOK, Goto, request, outcome, PCs, Draining, Section, Tasks
<1>15. CASE UNCHANGED vars
  BY <1>15, <1>14 DEF vars, request, outcome
<1>. QED
  BY <1>1, <1>2, <1>3, <1>4, <1>5, <1>6, <1>7, <1>8, <1>9, <1>10, <1>11, <1>12,
      <1>13, <1>14, <1>15 DEF Next, WaitingCall, ServeCall, LeavingCall, Progress,
      CloseStep, UnblockStep, Quiescent

\* A preserved successor stays adoptable: its chain exists until it is adopted.
LEMMA SuccessorInductive ==
    ASSUME SessionOK, TasksOK, OpInv, SuccessorInv, [Next]_vars
    PROVE  SuccessorInv'
<1>1. ASSUME NEW c \in Calls,
               EnterCall(c) \/ WakeCall(c) \/ GiveUpWaiting(c) \/
                   RefuseUnrecorded(c)
     PROVE  SuccessorInv'
  BY <1>1, Zenon DEF EnterCall, WakeCall, GiveUpWaiting, RefuseUnrecorded,
      SuccessorInv, Goto, TasksOK, Tasks, CloseOps, request, server, session, Admit
<1>2. ASSUME NEW c \in Calls,
               Forward(c) \/ LoseTerminal(c) \/ LeaveCall(c)
     PROVE  SuccessorInv'
  BY <1>2, Zenon DEF Forward, LoseTerminal, LeaveCall, SuccessorInv, Goto, TasksOK,
      Tasks, CloseOps, request, server, session
<1>3. ASSUME NEW c \in Calls, RecordDecision(c) PROVE SuccessorInv'
  <2>1. Len(length)' = Len(length)
    BY <1>3, AppendedType DEF RecordDecision, SessionOK
  <2>. QED
    BY <1>3, <2>1, Zenon DEF RecordDecision, SuccessorInv, Goto, Raise, TasksOK,
        Tasks, CloseOps, request, server
<1>4. ASSUME NEW c \in Calls, FinalizeUnexpectedCallFailure(c) PROVE SuccessorInv'
  <2>1. Len(length)' = Len(length)
    BY <1>4, AppendedType DEF FinalizeUnexpectedCallFailure, SessionOK
  <2>. QED
    BY <1>4, <2>1 DEF FinalizeUnexpectedCallFailure, SuccessorInv, Goto, Raise, TasksOK, Tasks, CloseOps, request, server
<1>5. ASSUME NEW c \in Calls, LeaveCallAndTrip(c) PROVE SuccessorInv'
  <2>1. Len(length)' = Len(length)
    BY <1>5, AppendedType, Zenon DEF LeaveCallAndTrip, SessionOK
  <2>. QED
    BY <1>5, <2>1 DEF LeaveCallAndTrip, SuccessorInv, Goto, Raise, TasksOK, Tasks, CloseOps, request, server
<1>6. ASSUME NEW h \in Handlers, Request(h) PROVE SuccessorInv'
  BY <1>6 DEF Request, SuccessorInv, Goto, TasksOK, Tasks, CloseOps, request,
      server, session
<1>7. ASSUME NEW t \in Tasks,
               RefuseTransition(t) \/ CancelWait(t) \/ ResumeCommittedClose(t) \/
                   Seal(t)
     PROVE  SuccessorInv'
  BY <1>7 DEF RefuseTransition, CancelWait, ResumeCommittedClose, Seal,
      SuccessorInv, Goto, TasksOK, Tasks, CloseOps, request, server, session,
      EntryPoint, RotationOps
<1>8. ASSUME NEW t \in Tasks,
               Drained(t) \/ DrainedWithLostTerminal(t) \/ DrainDeadline(t) \/
                   GraceExpires(t)
     PROVE  SuccessorInv'
  BY <1>8 DEF Drained, DrainedWithLostTerminal, DrainDeadline, GraceExpires,
      SuccessorInv, Goto, TasksOK, Tasks, CloseOps, request, server, session,
      EntryPoint, OpInv, LockOps
<1>9. ASSUME NEW t \in Tasks,
               CancelDrain(t) \/ ExitTransition(t) \/ RefuseSecondPending(t) \/
                   RetryClose(t)
     PROVE  SuccessorInv'
  BY <1>9, Zenon DEF CancelDrain, ExitTransition, RefuseSecondPending, RetryClose,
      SuccessorInv, Goto, TasksOK, Tasks, CloseOps, request, server, session, Raise
<1>10. ASSUME NEW t \in Tasks,
               FailCleanup(t) \/ ReleaseForReset(t) \/ FinishShutdown(t) \/
                   RefuseUnblock(t)
     PROVE  SuccessorInv'
  BY <1>10, Zenon DEF FailCleanup, ReleaseForReset, FinishShutdown, RefuseUnblock,
      SuccessorInv, Goto, TasksOK, Tasks, CloseOps, request, server, session, Raise
<1>11. ASSUME NEW t \in Tasks, TripIdentity(t) PROVE SuccessorInv'
  <2>1. Len(length)' = Len(length)
    BY <1>11, AppendedType DEF TripIdentity, SessionOK
  <2>. QED
    BY <1>11, <2>1, Zenon DEF TripIdentity, SuccessorInv, Goto, Raise, TasksOK,
        Tasks, CloseOps, request, server
<1>12. ASSUME NEW t \in Tasks, CloseSession(t) PROVE SuccessorInv'
  <2>1. Len(length)' = Len(length)
    <3>1. PICK n \in Nat : length' = [length EXCEPT ![chain] = @ + n]
      BY <1>12, Zenon DEF CloseSession
    <3>. QED
      BY <3>1 DEF SessionOK
  <2>. QED
    BY <1>12, <2>1, Zenon DEF CloseSession, SuccessorInv, Goto, TasksOK, Tasks,
        CloseOps, request
<1>13. ASSUME NEW t \in Tasks, FailClose(t) PROVE SuccessorInv'
  <2>1. Len(length)' = Len(length)
    BY <1>13, AppendedType, Zenon DEF FailClose, SessionOK
  <2>. QED
    BY <1>13, <2>1 DEF FailClose, SuccessorInv, Goto, Raise, TasksOK, Tasks, CloseOps, request, server
<1>14. ASSUME NEW t \in Tasks, ChooseSuccessor(t) PROVE SuccessorInv'
  <2>1. Moves(t, {"aclose", "exit"}) /\ op[t] \in CloseOps
    BY <1>14 DEF ChooseSuccessor, Moves, Goto, Raise, TasksOK, OpInv
  <2>2. CASE OpenSession(t) /\ Goto(t, "aclose")
               /\ pending' = [sid |-> target[t], next |-> successor'[t]]
               /\ UNCHANGED subject
    <3>1. /\ Len(length)' = Len(length) + 1 /\ Len(length) \in Nat
          /\ successor'[t] # NoSuccessor /\ successor'[t].chain = Len(length)'
          /\ \A u \in Tasks : u # t => successor'[u] = successor[u]
      BY <2>2, OpenedType
    <3>2. pending'.next = successor'[t]
      BY <2>2
    <3>3. ASSUME NEW u \in Tasks, successor'[u] # NoSuccessor
          PROVE  successor'[u].chain \in 1 .. Len(length)'
      BY <3>1, <3>3 DEF SuccessorInv
    <3>. QED
      BY <1>14, <2>1, <2>2, <3>1, <3>2, <3>3, Zenon DEF ChooseSuccessor, Moves,
          SuccessorInv, CloseOps
  <2>3. CASE pending' = [sid |-> target[t], next |-> NoSuccessor]
               /\ subject' = [subject EXCEPT ![t] = HaltLabel]
               /\ UNCHANGED <<issued, length, unbound, successor>>
    BY <1>14, <2>1, <2>3, Zenon DEF ChooseSuccessor, Moves, SuccessorInv, TasksOK,
        HaltLabel, CloseOps
  <2>4. CASE UNCHANGED <<issued, length, unbound, successor, pending, subject>> /\ Raise(t)
    BY <1>14, <2>4 DEF ChooseSuccessor, Raise, Goto, TasksOK, SuccessorInv, CloseOps
  <2>. QED
    BY <1>14, <2>2, <2>3, <2>4, Zenon DEF ChooseSuccessor
<1>15. ASSUME NEW t \in Tasks, ReusePending(t) PROVE SuccessorInv'
  <2>1. Moves(t, {"aclose"}) /\ op[t] \in CloseOps
    BY <1>15 DEF ReusePending, Moves, Goto, TasksOK, OpInv
  <2>2. /\ successor'[t] = pending.next /\ subject'[t] \in {Agent, Unknown}
        /\ \A u \in Tasks \ {t} : successor'[u] = successor[u] /\ subject'[u] = subject[u]
    BY <1>15 DEF ReusePending, TasksOK, HaltLabel
  <2>. QED
    BY <1>15, <2>1, <2>2, Zenon DEF ReusePending, Moves, SuccessorInv, CloseOps,
        server, session
<1>16. ASSUME NEW t \in Tasks, HaltSession(t) PROVE SuccessorInv'
  <2>1. Moves(t, {"exit"})
    BY <1>16 DEF HaltSession, Moves, Goto, TasksOK, Tasks
  <2>. QED
    BY <1>16, <2>1, Zenon DEF HaltSession, Moves, SuccessorInv, NoClose, request,
        session
<1>17. ASSUME NEW t \in Tasks, RebindSession(t) PROVE SuccessorInv'
  <2>1. Moves(t, {"exit"})
    BY <1>17 DEF RebindSession, Moves, Goto, TasksOK, Tasks
  <2>. QED
    BY <1>17, <2>1, Zenon DEF RebindSession, Moves, SuccessorInv, NoClose, request,
        session, Adopt
<1>18. ASSUME NEW t \in Tasks, ResumeSession(t) PROVE SuccessorInv'
  <2>1. Moves(t, {"exit"})
    BY <1>18 DEF ResumeSession, Moves, Goto, TasksOK, Tasks
  <2>2. chain' \in 1 .. Len(length)
    BY <1>18, Zenon DEF ResumeSession, Adopt, SuccessorInv, TasksOK, Successors
  <2>3. Appended(chain') => Len(length)' = Len(length)
    BY <2>2 DEF SessionOK, Appended
  <2>4. Len(length)' = Len(length)
    BY <1>18, <2>3, Zenon DEF ResumeSession
  <2>. QED
    BY <1>18, <2>1, <2>2, <2>3, <2>4, Zenon DEF ResumeSession, Moves, SuccessorInv,
        server, request
<1>19. ASSUME NEW t \in Tasks, ApplyReset(t) PROVE SuccessorInv'
  <2>1. Len(length)' = Len(length)
    BY <1>19, AppendedType DEF ApplyReset, SessionOK
  <2>. QED
    BY <1>19, <2>1, Zenon DEF ApplyReset, SuccessorInv, Goto, Raise, TasksOK, Tasks,
        CloseOps, request, server
<1>20. ASSUME NEW t \in Tasks, UnblockAndReopen(t) PROVE SuccessorInv'
  <2>1. Moves(t, {"aclose", "exit"}) /\ op[t] = "unblock"
    BY <1>20 DEF UnblockAndReopen, Moves, Goto, Raise, TasksOK, OpInv
  <2>2. CASE OpenSession(t)
    <3>1. /\ Len(length)' = Len(length) + 1 /\ Len(length) \in Nat
          /\ successor'[t] # NoSuccessor /\ successor'[t].chain = Len(length)'
          /\ \A u \in Tasks : u # t => successor'[u] = successor[u]
      BY <2>2, OpenedType
    <3>2. ASSUME NEW u \in Tasks, successor'[u] # NoSuccessor
          PROVE  successor'[u].chain \in 1 .. Len(length)'
      BY <3>1, <3>2 DEF SuccessorInv
    <3>3. pending' = pending /\ op' = op /\ subject' = subject
      BY <1>20 DEF UnblockAndReopen, server
    <3>4. pending.next # NoSuccessor => pending.next.chain \in 1 .. Len(length)'
      BY <3>1 DEF SuccessorInv
    <3>. QED
      BY <2>1, <3>1, <3>2, <3>3, <3>4, Zenon DEF Moves, SuccessorInv, CloseOps
  <2>3. CASE Raise(t) /\ UNCHANGED <<issued, length, unbound, successor>>
    BY <1>20, <2>3, Zenon DEF UnblockAndReopen, Raise, Goto, TasksOK, SuccessorInv,
        CloseOps, server
  <2>. QED
    BY <1>20, <2>2, <2>3, Zenon DEF UnblockAndReopen
<1>21. ASSUME NEW t \in Tasks, UnblockInPlace(t) PROVE SuccessorInv'
  <2>1. Len(length)' = Len(length)
    BY <1>21, AppendedType, Zenon DEF UnblockInPlace, SessionOK
  <2>. QED
    BY <1>21, <2>1, Zenon DEF UnblockInPlace, SuccessorInv, Goto, Raise, TasksOK,
        Tasks, CloseOps, request, server
<1>22. CASE UNCHANGED <<pending, length, pc, request>>
  BY <1>22, Zenon DEF SuccessorInv, Goto, TasksOK, Tasks, CloseOps, request
<1>23. CASE UNCHANGED vars
  BY <1>23, <1>22 DEF vars, server, session
<1>. QED
  BY <1>1, <1>2, <1>3, <1>4, <1>5, <1>6, <1>7, <1>8, <1>9, <1>10, <1>11, <1>12,
      <1>13, <1>14, <1>15, <1>16, <1>17, <1>18, <1>19, <1>20, <1>21, <1>22, <1>23
      DEF Next, WaitingCall, ServeCall, LeavingCall, Progress, CloseStep,
      UnblockStep, Quiescent

=============================================================================
