------------------------ MODULE GatewayControlProofs ------------------------
(***************************************************************************)
(* Every step of GatewayLifecycle preserves its control: who owns the      *)
(* transition lock, which calls are admitted, which step an operation is at, *)
(* and what the sealed gate protects.                                      *)
(***************************************************************************)
EXTENDS GatewayLifecycleInv, TLAPS

\* Taking and releasing _transition_lock is matched by the owner's position.
LEMMA LockInductive ==
    ASSUME TasksOK, GateOK, OpInv, LockInv, [Next]_vars
    PROVE  LockInv'
<1>1. ASSUME NEW c \in Calls,
               EnterCall(c) \/ WakeCall(c) \/ GiveUpWaiting(c) \/ RecordDecision(c)
                   \/ RefuseUnrecorded(c)
     PROVE  LockInv'
  BY <1>1, TasksAssumption DEF EnterCall, WakeCall, GiveUpWaiting, RecordDecision,
      RefuseUnrecorded, LockInv, Owns, Goto, TasksOK, Tasks, Draining, Section,
      Admit
<1>2. ASSUME NEW c \in Calls,
               Forward(c) \/ FinalizeUnexpectedCallFailure(c) \/ LoseTerminal(c) \/
                   LeaveCall(c) \/ LeaveCallAndTrip(c)
     PROVE  LockInv'
  BY <1>2, TasksAssumption DEF Forward, FinalizeUnexpectedCallFailure, LoseTerminal,
      LeaveCall, LeaveCallAndTrip, LockInv, Owns, Goto, TasksOK, Tasks, Draining,
      Section
<1>3. ASSUME NEW h \in Handlers, Request(h) PROVE LockInv'
  BY <1>3, TasksAssumption DEF Request, LockInv, Owns, Goto, TasksOK, Tasks,
      Draining, Section
<1>4. ASSUME NEW t \in Tasks,
               RefuseTransition(t) \/ CancelWait(t) \/ ResumeCommittedClose(t) \/
                   Seal(t) \/ Drained(t)
     PROVE  LockInv'
  BY <1>4, TasksAssumption DEF RefuseTransition, CancelWait, ResumeCommittedClose,
      Seal, Drained, LockInv, Owns, Goto, TasksOK, Tasks, Draining, Section,
      EntryPoint, RotationOps, CloseOps, OpInv, LockOps
<1>5. ASSUME NEW t \in Tasks,
               DrainedWithLostTerminal(t) \/ DrainDeadline(t) \/ GraceExpires(t) \/
                   CancelDrain(t) \/ ExitTransition(t)
     PROVE  LockInv'
  BY <1>5, TasksAssumption DEF DrainedWithLostTerminal, DrainDeadline, GraceExpires,
      CancelDrain, ExitTransition, LockInv, Owns, Goto, TasksOK, Tasks, Draining,
      Section
<1>6. ASSUME NEW t \in Tasks,
               TripIdentity(t) \/ RefuseSecondPending(t) \/ CloseSession(t) \/
                   FailClose(t) \/ RetryClose(t)
     PROVE  LockInv'
  BY <1>6, TasksAssumption DEF TripIdentity, RefuseSecondPending, CloseSession,
      FailClose, RetryClose, LockInv, Owns, Goto, TasksOK, Tasks, Draining, Section,
      Raise
<1>7. ASSUME NEW t \in Tasks,
               ChooseSuccessor(t) \/ ReusePending(t) \/ FailCleanup(t) \/
                   HaltSession(t) \/ RebindSession(t)
     PROVE  LockInv'
  BY <1>7, TasksAssumption DEF ChooseSuccessor, ReusePending, FailCleanup,
      HaltSession, RebindSession, LockInv, Owns, Goto, TasksOK, Tasks, Draining,
      Section, Raise
<1>8. ASSUME NEW t \in Tasks,
               ResumeSession(t) \/ ReleaseForReset(t) \/ ApplyReset(t) \/
                   FinishShutdown(t) \/ RefuseUnblock(t)
     PROVE  LockInv'
  <2>1. CASE ResumeSession(t) \/ ReleaseForReset(t)
    BY <2>1, TasksAssumption DEF ResumeSession, ReleaseForReset, LockInv, Owns,
        Goto, TasksOK, Tasks, Draining, Section
  <2>2. CASE ApplyReset(t)
    BY <2>2, TasksAssumption DEF ApplyReset, LockInv, Owns, Goto, TasksOK, Tasks,
        Draining, Section
  <2>3. CASE FinishShutdown(t) \/ RefuseUnblock(t)
    BY <2>3, TasksAssumption, Zenon DEF FinishShutdown, RefuseUnblock, LockInv,
        Owns, Goto, TasksOK, Tasks, Draining, Section
  <2>. QED
    BY <1>8, <2>1, <2>2, <2>3
<1>9. ASSUME NEW t \in Tasks,
               UnblockAndReopen(t) \/ UnblockInPlace(t)
     PROVE  LockInv'
  BY <1>9, TasksAssumption DEF UnblockAndReopen, UnblockInPlace, LockInv, Owns,
      Goto, TasksOK, Tasks, Draining, Section, Raise
<1>10. CASE UNCHANGED <<pc, lock>>
  BY <1>10 DEF LockInv, Owns, Goto, TasksOK, Tasks, Draining, Section
<1>11. CASE UNCHANGED vars
  BY <1>11, <1>10 DEF vars
<1>. QED
  BY <1>1, <1>2, <1>3, <1>4, <1>5, <1>6, <1>7, <1>8, <1>9, <1>10, <1>11 DEF Next,
      WaitingCall, ServeCall, LeavingCall, Progress, CloseStep, UnblockStep,
      Quiescent

\* _enter_call and _leave_call keep _active_call_tasks exact.
LEMMA ActiveInductive ==
    ASSUME TasksOK, GateOK, OpInv, ActiveInv, [Next]_vars
    PROVE  ActiveInv'
<1>1. ASSUME NEW c \in Calls,
               EnterCall(c) \/ WakeCall(c) \/ GiveUpWaiting(c) \/ RecordDecision(c)
                   \/ RefuseUnrecorded(c)
     PROVE  ActiveInv'
  BY <1>1, TasksAssumption DEF EnterCall, WakeCall, GiveUpWaiting, RecordDecision,
      RefuseUnrecorded, ActiveInv, Admitted, Goto, GateOK, TasksOK, Tasks, Draining,
      Admit
<1>2. ASSUME NEW c \in Calls,
               Forward(c) \/ FinalizeUnexpectedCallFailure(c) \/ LoseTerminal(c) \/
                   LeaveCall(c) \/ LeaveCallAndTrip(c)
     PROVE  ActiveInv'
  BY <1>2, TasksAssumption DEF Forward, FinalizeUnexpectedCallFailure, LoseTerminal,
      LeaveCall, LeaveCallAndTrip, ActiveInv, Admitted, Goto, GateOK, TasksOK,
      Tasks, Draining
<1>3. ASSUME NEW h \in Handlers, Request(h) PROVE ActiveInv'
  BY <1>3, TasksAssumption DEF Request, ActiveInv, Admitted, Goto, GateOK, TasksOK,
      Tasks, Draining
<1>4. ASSUME NEW t \in Tasks,
               RefuseTransition(t) \/ CancelWait(t) \/ ResumeCommittedClose(t) \/
                   Seal(t) \/ Drained(t)
     PROVE  ActiveInv'
  BY <1>4, TasksAssumption DEF RefuseTransition, CancelWait, ResumeCommittedClose,
      Seal, Drained, ActiveInv, Admitted, Goto, GateOK, TasksOK, Tasks, Draining,
      EntryPoint, RotationOps, CloseOps, OpInv, LockOps
<1>5. ASSUME NEW t \in Tasks,
               DrainedWithLostTerminal(t) \/ DrainDeadline(t) \/ GraceExpires(t) \/
                   CancelDrain(t) \/ ExitTransition(t)
     PROVE  ActiveInv'
  BY <1>5, TasksAssumption DEF DrainedWithLostTerminal, DrainDeadline, GraceExpires,
      CancelDrain, ExitTransition, ActiveInv, Admitted, Goto, GateOK, TasksOK,
      Tasks, Draining
<1>6. ASSUME NEW t \in Tasks,
               TripIdentity(t) \/ RefuseSecondPending(t) \/ CloseSession(t) \/
                   FailClose(t) \/ RetryClose(t)
     PROVE  ActiveInv'
  BY <1>6, TasksAssumption DEF TripIdentity, RefuseSecondPending, CloseSession,
      FailClose, RetryClose, ActiveInv, Admitted, Goto, GateOK, TasksOK, Tasks,
      Draining, Raise
<1>7. ASSUME NEW t \in Tasks,
               ChooseSuccessor(t) \/ ReusePending(t) \/ FailCleanup(t) \/
                   HaltSession(t) \/ RebindSession(t)
     PROVE  ActiveInv'
  BY <1>7, TasksAssumption DEF ChooseSuccessor, ReusePending, FailCleanup,
      HaltSession, RebindSession, ActiveInv, Admitted, Goto, GateOK, TasksOK, Tasks,
      Draining, Raise
<1>8. ASSUME NEW t \in Tasks,
               ResumeSession(t) \/ ReleaseForReset(t) \/ ApplyReset(t) \/
                   FinishShutdown(t) \/ RefuseUnblock(t)
     PROVE  ActiveInv'
  <2>1. CASE ResumeSession(t) \/ ReleaseForReset(t)
    BY <2>1, TasksAssumption DEF ResumeSession, ReleaseForReset, ActiveInv,
        Admitted, Goto, GateOK, TasksOK, Tasks, Draining
  <2>2. CASE ApplyReset(t)
    BY <2>2, TasksAssumption DEF ApplyReset, ActiveInv, Admitted, Goto, GateOK,
        TasksOK, Tasks, Draining
  <2>3. CASE FinishShutdown(t) \/ RefuseUnblock(t)
    BY <2>3, TasksAssumption, Zenon DEF FinishShutdown, RefuseUnblock, ActiveInv,
        Admitted, Goto, GateOK, TasksOK, Tasks, Draining
  <2>. QED
    BY <1>8, <2>1, <2>2, <2>3
<1>9. ASSUME NEW t \in Tasks,
               UnblockAndReopen(t) \/ UnblockInPlace(t)
     PROVE  ActiveInv'
  BY <1>9, TasksAssumption DEF UnblockAndReopen, UnblockInPlace, ActiveInv,
      Admitted, Goto, GateOK, TasksOK, Tasks, Draining, Raise
<1>10. CASE UNCHANGED <<pc, active>>
  BY <1>10 DEF ActiveInv, Admitted, Goto, GateOK, TasksOK, Tasks, Draining
<1>11. CASE UNCHANGED vars
  BY <1>11, <1>10 DEF vars
<1>. QED
  BY <1>1, <1>2, <1>3, <1>4, <1>5, <1>6, <1>7, <1>8, <1>9, <1>10, <1>11 DEF Next,
      WaitingCall, ServeCall, LeavingCall, Progress, CloseStep, UnblockStep,
      Quiescent

\* Each step of an operation leads to a position of the same operation.
LEMMA OpInductive ==
    ASSUME TasksOK, OpInv, [Next]_vars
    PROVE  OpInv'
<1>1. ASSUME NEW c \in Calls,
               EnterCall(c) \/ WakeCall(c) \/ GiveUpWaiting(c) \/ RecordDecision(c)
                   \/ RefuseUnrecorded(c)
     PROVE  OpInv'
  BY <1>1, OperationsAssumption DEF EnterCall, WakeCall, GiveUpWaiting,
      RecordDecision, RefuseUnrecorded, OpInv, LockOps, Goto, TasksOK, Tasks,
      Draining, CloseOps, RotationOps, request, Admit
<1>2. ASSUME NEW c \in Calls,
               Forward(c) \/ FinalizeUnexpectedCallFailure(c) \/ LoseTerminal(c) \/
                   LeaveCall(c) \/ LeaveCallAndTrip(c)
     PROVE  OpInv'
  BY <1>2, OperationsAssumption DEF Forward, FinalizeUnexpectedCallFailure,
      LoseTerminal, LeaveCall, LeaveCallAndTrip, OpInv, LockOps, Goto, TasksOK,
      Tasks, Draining, CloseOps, RotationOps, request
<1>3. ASSUME NEW h \in Handlers, Request(h) PROVE OpInv'
  BY <1>3, OperationsAssumption DEF Request, OpInv, LockOps, Goto, TasksOK, Tasks,
      Draining, CloseOps, RotationOps, request
<1>4. ASSUME NEW t \in Tasks,
               RefuseTransition(t) \/ CancelWait(t) \/ ResumeCommittedClose(t) \/
                   Seal(t) \/ Drained(t)
     PROVE  OpInv'
  BY <1>4, OperationsAssumption DEF RefuseTransition, CancelWait,
      ResumeCommittedClose, Seal, Drained, OpInv, LockOps, Goto, TasksOK, Tasks,
      Draining, CloseOps, RotationOps, request, EntryPoint
<1>5. ASSUME NEW t \in Tasks,
               DrainedWithLostTerminal(t) \/ DrainDeadline(t) \/ GraceExpires(t) \/
                   CancelDrain(t) \/ ExitTransition(t)
     PROVE  OpInv'
  BY <1>5, OperationsAssumption DEF DrainedWithLostTerminal, DrainDeadline,
      GraceExpires, CancelDrain, ExitTransition, OpInv, LockOps, Goto, TasksOK,
      Tasks, Draining, CloseOps, RotationOps, request
<1>6. ASSUME NEW t \in Tasks,
               TripIdentity(t) \/ RefuseSecondPending(t) \/ CloseSession(t) \/
                   FailClose(t) \/ RetryClose(t)
     PROVE  OpInv'
  BY <1>6, OperationsAssumption DEF TripIdentity, RefuseSecondPending, CloseSession,
      FailClose, RetryClose, OpInv, LockOps, Goto, TasksOK, Tasks, Draining,
      CloseOps, RotationOps, request, Raise
<1>7. ASSUME NEW t \in Tasks,
               ChooseSuccessor(t) \/ ReusePending(t) \/ FailCleanup(t) \/
                   HaltSession(t) \/ RebindSession(t)
     PROVE  OpInv'
  BY <1>7, OperationsAssumption DEF ChooseSuccessor, ReusePending, FailCleanup,
      HaltSession, RebindSession, OpInv, LockOps, Goto, TasksOK, Tasks, Draining,
      CloseOps, RotationOps, request, Raise
<1>8. ASSUME NEW t \in Tasks,
               ResumeSession(t) \/ ReleaseForReset(t) \/ ApplyReset(t) \/
                   FinishShutdown(t) \/ RefuseUnblock(t)
     PROVE  OpInv'
  <2>1. CASE ResumeSession(t) \/ ReleaseForReset(t)
    BY <2>1, OperationsAssumption DEF ResumeSession, ReleaseForReset, OpInv,
        LockOps, Goto, TasksOK, Tasks, Draining, CloseOps, RotationOps, request
  <2>2. CASE ApplyReset(t)
    BY <2>2, OperationsAssumption DEF ApplyReset, OpInv, LockOps, Goto, TasksOK,
        Tasks, Draining, CloseOps, RotationOps, request
  <2>3. CASE FinishShutdown(t)
    BY <2>3 DEF FinishShutdown, OpInv, Goto, TasksOK, Draining, request
  <2>4. CASE RefuseUnblock(t)
    BY <2>4 DEF RefuseUnblock, OpInv, LockOps, Goto, TasksOK, Draining, request
  <2>. QED
    BY <1>8, <2>1, <2>2, <2>3, <2>4
<1>9. ASSUME NEW t \in Tasks,
               UnblockAndReopen(t) \/ UnblockInPlace(t)
     PROVE  OpInv'
  BY <1>9, OperationsAssumption DEF UnblockAndReopen, UnblockInPlace, OpInv,
      LockOps, Goto, TasksOK, Tasks, Draining, CloseOps, RotationOps, request, Raise
<1>10. CASE UNCHANGED <<pc, op>>
  BY <1>10 DEF OpInv, LockOps, Goto, TasksOK, Tasks, Draining, CloseOps, RotationOps
<1>11. CASE UNCHANGED vars
  BY <1>11, <1>10 DEF vars, request
<1>. QED
  BY <1>1, <1>2, <1>3, <1>4, <1>5, <1>6, <1>7, <1>8, <1>9, <1>10, <1>11 DEF Next,
      WaitingCall, ServeCall, LeavingCall, Progress, CloseStep, UnblockStep,
      Quiescent

\* What the seal protects stays protected.
LEMMA GateInductive ==
    ASSUME TypeOK, SuccessorInv, LockInv, ActiveInv, OpInv, GateInv, [Next]_vars
    PROVE  GateInv'
<1>. USE DEF TypeOK
<1>1. ASSUME NEW c \in Calls, GiveUpWaiting(c) PROVE GateInv'
  BY <1>1, TasksAssumption DEF GiveUpWaiting, GateInv, InSection, Owns, Goto,
      FlagsOK, TasksOK, LockInv, Draining, Section, Tasks, RotationOps, CloseOps,
      OpInv, LockOps, gate, request
<1>2. ASSUME NEW c \in Calls, RecordDecision(c) PROVE GateInv'
  BY <1>2, TasksAssumption DEF RecordDecision, GateInv, InSection, Owns, Goto,
      FlagsOK, TasksOK, LockInv, Draining, Section, Tasks, RotationOps, CloseOps,
      OpInv, LockOps, gate, request
<1>3. ASSUME NEW c \in Calls, RefuseUnrecorded(c) PROVE GateInv'
  BY <1>3, TasksAssumption DEF RefuseUnrecorded, GateInv, InSection, Owns, Goto,
      FlagsOK, TasksOK, LockInv, Draining, Section, Tasks, RotationOps, CloseOps,
      OpInv, LockOps, gate, request
<1>4. ASSUME NEW c \in Calls, Forward(c) PROVE GateInv'
  BY <1>4, TasksAssumption DEF Forward, GateInv, InSection, Owns, Goto, FlagsOK,
      TasksOK, LockInv, Draining, Section, Tasks, RotationOps, CloseOps, OpInv,
      LockOps, gate, request
<1>5. ASSUME NEW c \in Calls, FinalizeUnexpectedCallFailure(c) PROVE GateInv'
  BY <1>5, TasksAssumption DEF FinalizeUnexpectedCallFailure, GateInv, InSection,
      Owns, Goto, FlagsOK, TasksOK, LockInv, Draining, Section, Tasks, RotationOps,
      CloseOps, OpInv, LockOps, gate, request
<1>6. ASSUME NEW c \in Calls, LeaveCall(c) PROVE GateInv'
  BY <1>6, TasksAssumption DEF LeaveCall, GateInv, InSection, Owns, Goto, FlagsOK,
      TasksOK, LockInv, Draining, Section, Tasks, RotationOps, CloseOps, OpInv,
      LockOps, gate, request
<1>7. ASSUME NEW c \in Calls, EnterCall(c) PROVE GateInv'
  <2>1. Moves(c, {"waiting", "running", "done"})
    BY <1>7 DEF EnterCall, Moves, Goto, TasksOK, Tasks, Admit
  <2>2. \/ active' = active
        \/ lock = NoTask /\ ~closeCommitted /\ \A u \in Tasks : ~Owns(u)
    BY <1>7, TasksAssumption DEF EnterCall, Admit, GateInv, LockInv
  <2>3. op[c] # op'[c] => ~Owns(c)
    BY <1>7 DEF EnterCall, Owns, Draining, Section, request
  <2>4. \A u \in Tasks \ {c} : op'[u] = op[u]
    BY <1>7 DEF EnterCall, TasksOK, request
  <2>. QED
    BY <1>7, <2>1, <2>2, <2>3, <2>4 DEF EnterCall, Moves, GateInv, InSection, Owns,
        LockInv, Draining, Section, Tasks, RotationOps, CloseOps, gate, request
<1>8. ASSUME NEW c \in Calls, WakeCall(c) PROVE GateInv'
  <2>1. Moves(c, {"running", "done"})
    BY <1>8 DEF WakeCall, Moves, Goto, TasksOK, Tasks, Admit
  <2>2. \/ active' = active
        \/ lock = NoTask /\ ~closeCommitted /\ \A u \in Tasks : ~Owns(u)
    BY <1>8, TasksAssumption DEF WakeCall, Admit, GateInv, LockInv
  <2>3. op[c] # op'[c] => ~Owns(c)
    BY <1>8 DEF WakeCall, Owns, Draining, Section, request
  <2>4. \A u \in Tasks \ {c} : op'[u] = op[u]
    BY <1>8 DEF WakeCall, TasksOK, request
  <2>. QED
    BY <1>8, <2>1, <2>2, <2>3, <2>4 DEF WakeCall, Moves, GateInv, InSection, Owns,
        LockInv, Draining, Section, Tasks, RotationOps, CloseOps, gate, request
<1>9. ASSUME NEW c \in Calls, LoseTerminal(c) PROVE GateInv'
  <2>1. Moves(c, {"unwinding"})
    BY <1>9 DEF LoseTerminal, Moves, Goto, TasksOK, Tasks
  <2>2. ~closeCommitted /\ \A u \in Tasks : ~InSection(u)
    BY <1>9 DEF LoseTerminal, ActiveInv, Admitted, GateInv
  <2>. QED
    BY <1>9, <2>1, <2>2, Zenon DEF LoseTerminal, Moves, GateInv, InSection, Owns,
        LockInv, Draining, Section, Tasks, RotationOps, CloseOps, request
<1>10. ASSUME NEW c \in Calls, LeaveCallAndTrip(c) PROVE GateInv'
  <2>1. Moves(c, {"lock", "done"})
    BY <1>10 DEF LeaveCallAndTrip, Moves, Goto, TasksOK, Tasks
  <2>2. c \in active /\ pc[c] = "leaving" /\ active # {}
    BY <1>10 DEF LeaveCallAndTrip, ActiveInv, Admitted
  <2>3. /\ ~closeCommitted
        /\ \A u \in Tasks : ~InSection(u)
        /\ \A u \in Tasks \ {c} : op'[u] = op[u]
    BY <1>10, <2>2 DEF LeaveCallAndTrip, GateInv, TasksOK
  <2>. QED
    BY <1>10, <2>1, <2>2, <2>3 DEF LeaveCallAndTrip, Moves, GateInv, InSection, Owns,
        LockInv, Draining, Section, Tasks, RotationOps, CloseOps, gate, OpInv,
        Admitted, ActiveInv
<1>11. ASSUME NEW h \in Handlers, Request(h) PROVE GateInv'
  BY <1>11, TasksAssumption DEF Request, GateInv, InSection, Owns, Goto, FlagsOK,
      TasksOK, LockInv, Draining, Section, Tasks, RotationOps, CloseOps, OpInv,
      LockOps, gate, request
<1>12. ASSUME NEW t \in Tasks, RefuseTransition(t) PROVE GateInv'
  BY <1>12, TasksAssumption, Zenon DEF RefuseTransition, GateInv, InSection, Owns,
      Goto, FlagsOK, TasksOK, LockInv, Draining, Section, Tasks, RotationOps,
      CloseOps, OpInv, LockOps, gate, request
<1>13. ASSUME NEW t \in Tasks, CancelWait(t) PROVE GateInv'
  BY <1>13, TasksAssumption DEF CancelWait, GateInv, InSection, Owns, Goto, FlagsOK,
      TasksOK, LockInv, Draining, Section, Tasks, RotationOps, CloseOps, OpInv,
      LockOps, gate, request
<1>14. ASSUME NEW t \in Tasks, ResumeCommittedClose(t) PROVE GateInv'
  BY <1>14, TasksAssumption DEF ResumeCommittedClose, GateInv, InSection, Owns,
      Goto, FlagsOK, TasksOK, LockInv, Draining, Section, Tasks, RotationOps,
      CloseOps, OpInv, LockOps, gate, request, EntryPoint
<1>15. ASSUME NEW t \in Tasks, DrainedWithLostTerminal(t) PROVE GateInv'
  BY <1>15, TasksAssumption DEF DrainedWithLostTerminal, GateInv, InSection, Owns,
      Goto, FlagsOK, TasksOK, LockInv, Draining, Section, Tasks, RotationOps,
      CloseOps, OpInv, LockOps, gate, request
<1>16. ASSUME NEW t \in Tasks, DrainDeadline(t) PROVE GateInv'
  BY <1>16, TasksAssumption DEF DrainDeadline, GateInv, InSection, Owns, Goto,
      FlagsOK, TasksOK, LockInv, Draining, Section, Tasks, RotationOps, CloseOps,
      OpInv, LockOps, gate, request
<1>17. ASSUME NEW t \in Tasks, GraceExpires(t) PROVE GateInv'
  BY <1>17, TasksAssumption DEF GraceExpires, GateInv, InSection, Owns, Goto,
      FlagsOK, TasksOK, LockInv, Draining, Section, Tasks, RotationOps, CloseOps,
      OpInv, LockOps, gate, request
<1>18. ASSUME NEW t \in Tasks, RefuseSecondPending(t) PROVE GateInv'
  BY <1>18, TasksAssumption DEF RefuseSecondPending, GateInv, InSection, Owns, Goto,
      FlagsOK, TasksOK, LockInv, Draining, Section, Tasks, RotationOps, CloseOps,
      OpInv, LockOps, gate, request, Raise
<1>19. ASSUME NEW t \in Tasks, CloseSession(t) PROVE GateInv'
  BY <1>19, TasksAssumption DEF CloseSession, GateInv, InSection, Owns, Goto,
      FlagsOK, TasksOK, LockInv, Draining, Section, Tasks, RotationOps, CloseOps,
      OpInv, LockOps, gate, request
<1>20. ASSUME NEW t \in Tasks, FailClose(t) PROVE GateInv'
  BY <1>20, TasksAssumption DEF FailClose, GateInv, InSection, Owns, Goto, FlagsOK,
      TasksOK, LockInv, Draining, Section, Tasks, RotationOps, CloseOps, OpInv,
      LockOps, gate, request, Raise
<1>21. ASSUME NEW t \in Tasks, ReusePending(t) PROVE GateInv'
  BY <1>21, TasksAssumption DEF ReusePending, GateInv, InSection, Owns, Goto,
      FlagsOK, TasksOK, LockInv, Draining, Section, Tasks, RotationOps, CloseOps,
      OpInv, LockOps, gate, request
<1>22. ASSUME NEW t \in Tasks, FailCleanup(t) PROVE GateInv'
  BY <1>22, TasksAssumption DEF FailCleanup, GateInv, InSection, Owns, Goto,
      FlagsOK, TasksOK, LockInv, Draining, Section, Tasks, RotationOps, CloseOps,
      OpInv, LockOps, gate, request, Raise
<1>23. ASSUME NEW t \in Tasks, ReleaseForReset(t) PROVE GateInv'
  BY <1>23, TasksAssumption DEF ReleaseForReset, GateInv, InSection, Owns, Goto,
      FlagsOK, TasksOK, LockInv, Draining, Section, Tasks, RotationOps, CloseOps,
      OpInv, LockOps, gate, request
<1>24. ASSUME NEW t \in Tasks, ApplyReset(t) PROVE GateInv'
  BY <1>24, TasksAssumption DEF ApplyReset, GateInv, InSection, Owns, Goto, FlagsOK,
      TasksOK, LockInv, Draining, Section, Tasks, RotationOps, CloseOps, OpInv,
      LockOps, gate, request
<1>25. ASSUME NEW t \in Tasks, FinishShutdown(t) PROVE GateInv'
  BY <1>25, TasksAssumption DEF FinishShutdown, GateInv, InSection, Owns, Goto,
      FlagsOK, TasksOK, LockInv, Draining, Section, Tasks, RotationOps, CloseOps,
      OpInv, LockOps, gate, request
<1>26. ASSUME NEW t \in Tasks, RefuseUnblock(t) PROVE GateInv'
  BY <1>26, TasksAssumption DEF RefuseUnblock, GateInv, InSection, Owns, Goto,
      FlagsOK, TasksOK, LockInv, Draining, Section, Tasks, RotationOps, CloseOps,
      OpInv, LockOps, gate, request
<1>27. ASSUME NEW t \in Tasks, UnblockInPlace(t) PROVE GateInv'
  BY <1>27, TasksAssumption DEF UnblockInPlace, GateInv, InSection, Owns, Goto,
      FlagsOK, TasksOK, LockInv, Draining, Section, Tasks, RotationOps, CloseOps,
      OpInv, LockOps, gate, request
<1>28. ASSUME NEW t \in Tasks, Seal(t) PROVE GateInv'
  <2>1. Moves(t, {"drain"})
    BY <1>28 DEF Seal, Moves, Goto, TasksOK, Tasks
  <2>2. op[t] # "shutdown" => ~closeCommitted
    BY <1>28, Zenon DEF Seal, RefusedUnderLock, OpInv, LockOps, RotationOps,
        CloseOps
  <2>3. \A u \in Tasks : ~Owns(u)
    BY <1>28, TasksAssumption, Zenon DEF Seal, LockInv
  <2>. QED
    BY <1>28, <2>1, <2>2, <2>3 DEF Seal, Moves, GateInv, InSection, Owns, LockInv,
        Draining, Section, Tasks, request
<1>29. ASSUME NEW t \in Tasks, Drained(t) PROVE GateInv'
  <2>1. op[t] \in LockOps
    BY <1>29, Zenon DEF Drained, OpInv
  <2>2. Moves(t, {EntryPoint(op[t])})
    BY <1>29 DEF Drained, Moves, Goto, TasksOK
  <2>3. /\ EntryPoint(op[t]) \in Section \ {"exit"}
        /\ op[t] \in {"close", "seal", "trip", "unblock"} <=> op[t] \in RotationOps
    BY <2>1 DEF EntryPoint, LockOps, RotationOps, CloseOps, Section
  <2>4. lock = t /\ lock' = t
    BY <1>29, Zenon DEF Drained, LockInv, Owns
  <2>5. ~closeCommitted \/ op[t] = "shutdown"
    BY <1>29 DEF Drained, GateInv
  <2>. QED
    BY <1>29, <2>2, <2>3, <2>4, <2>5, TasksAssumption, Zenon DEF Drained, Moves,
        GateInv, InSection, Owns, LockInv, Draining, Section, request
<1>30. ASSUME NEW t \in Tasks, CancelDrain(t) PROVE GateInv'
  <2>1. Moves(t, {"done"})
    BY <1>30 DEF CancelDrain, Moves, Goto, TasksOK, Tasks
  <2>. QED
    BY <1>30, <2>1, Zenon DEF CancelDrain, Moves, GateInv, InSection, Owns, LockInv,
        Draining, Section, Tasks, RotationOps, CloseOps, gate, request
<1>31. ASSUME NEW t \in Tasks, ExitTransition(t) PROVE GateInv'
  <2>1. Moves(t, {"done"})
    BY <1>31 DEF ExitTransition, Moves, Goto, TasksOK, Tasks
  <2>. QED
    BY <1>31, <2>1, Zenon DEF ExitTransition, Moves, GateInv, InSection, Owns,
        LockInv, Draining, Section, Tasks, RotationOps, CloseOps, request, FlagsOK
<1>32. ASSUME NEW t \in Tasks, TripIdentity(t) PROVE GateInv'
  <2>1. Moves(t, {"commit", "exit"})
    BY <1>32 DEF TripIdentity, Moves, Goto, TasksOK, Tasks, Raise
  <2>2. op[t] \in RotationOps /\ op[t] # "reset" /\ op[t] # "shutdown"
    BY <1>32 DEF TripIdentity, OpInv, RotationOps, CloseOps
  <2>3. lock = t /\ rotating /\ ~rebound /\ ~failedTerminal /\ active = {}
    BY <1>32, <2>2, TasksAssumption DEF TripIdentity, GateInv, LockInv, InSection, Owns, Section
  <2>. QED
    BY <1>32, <2>1, <2>2, <2>3 DEF TripIdentity, Moves, GateInv, InSection, Owns,
        LockInv, Draining, Section, Tasks, gate, request
<1>33. ASSUME NEW t \in Tasks, RetryClose(t) PROVE GateInv'
  <2>1. Moves(t, {"succeed", "exit"})
    BY <1>33 DEF RetryClose, Moves, Goto, TasksOK, Tasks, Raise
  <2>2. op[t] \in RotationOps /\ op[t] # "reset" /\ op[t] # "shutdown"
    BY <1>33 DEF RetryClose, OpInv, RotationOps, CloseOps
  <2>3. lock = t /\ rotating /\ ~rebound /\ ~failedTerminal /\ active = {}
    BY <1>33, <2>2, TasksAssumption DEF RetryClose, GateInv, LockInv, InSection, Owns, Section
  <2>. QED
    BY <1>33, <2>1, <2>2, <2>3 DEF RetryClose, Moves, GateInv, InSection, Owns,
        LockInv, Draining, Section, Tasks, gate, request
<1>34. ASSUME NEW t \in Tasks, ChooseSuccessor(t) PROVE GateInv'
  <2>1. Moves(t, {"aclose", "exit"})
    BY <1>34, Zenon DEF ChooseSuccessor, Moves, Goto, TasksOK, Tasks, Raise
  <2>2. op[t] \in RotationOps /\ op[t] # "reset" /\ op[t] # "shutdown"
    BY <1>34 DEF ChooseSuccessor, OpInv, RotationOps, CloseOps
  <2>3. lock = t /\ rotating /\ ~rebound /\ ~failedTerminal /\ active = {}
    BY <1>34, <2>2, TasksAssumption DEF ChooseSuccessor, GateInv, LockInv, InSection, Owns, Section
  <2>. QED
    BY <1>34, <2>1, <2>2, <2>3, Zenon DEF ChooseSuccessor, Moves, GateInv,
        InSection, Owns, LockInv, Draining, Section, Tasks, gate, request
<1>35. ASSUME NEW t \in Tasks, HaltSession(t) PROVE GateInv'
  <2>1. Moves(t, {"exit"})
    BY <1>35 DEF HaltSession, Moves, Goto, TasksOK, Tasks
  <2>. QED
    BY <1>35, <2>1 DEF HaltSession, Moves, GateInv, InSection, Owns, LockInv, Draining,
        Section, Tasks, RotationOps, CloseOps, request
<1>36. ASSUME NEW t \in Tasks, RebindSession(t) PROVE GateInv'
  <2>1. Moves(t, {"exit"})
    BY <1>36 DEF RebindSession, Moves, Goto, TasksOK, Tasks
  <2>. QED
    BY <1>36, <2>1 DEF RebindSession, Moves, GateInv, InSection, Owns, LockInv,
        Draining, Section, Tasks, RotationOps, CloseOps, Adopt, request
<1>37. ASSUME NEW t \in Tasks, ResumeSession(t) PROVE GateInv'
  <2>1. Moves(t, {"exit"})
    BY <1>37 DEF ResumeSession, Moves, Goto, TasksOK, Tasks
  <2>. QED
    BY <1>37, <2>1 DEF ResumeSession, Moves, GateInv, InSection, Owns, LockInv,
        Draining, Section, Tasks, RotationOps, CloseOps, Adopt, request
<1>38. ASSUME NEW t \in Tasks, UnblockAndReopen(t) PROVE GateInv'
  <2>1. Moves(t, {"aclose", "exit"})
    BY <1>38 DEF UnblockAndReopen, Moves, Goto, TasksOK, Tasks, Raise
  <2>2. op[t] \in RotationOps /\ op[t] # "reset" /\ op[t] # "shutdown"
    BY <1>38 DEF UnblockAndReopen, OpInv, RotationOps, CloseOps
  <2>3. lock = t /\ rotating /\ ~rebound /\ ~failedTerminal /\ active = {}
    BY <1>38, <2>2, TasksAssumption, Zenon DEF UnblockAndReopen, GateInv, LockInv,
        InSection, Owns, Section
  <2>. QED
    BY <1>38, <2>1, <2>2, <2>3, Zenon DEF UnblockAndReopen, Moves, GateInv,
        InSection, Owns, LockInv, Draining, Section, Tasks, gate, request
<1>39. CASE UNCHANGED <<gate, lock, active, pc, op>>
  BY <1>39 DEF GateInv, InSection, Owns, Goto, FlagsOK, TasksOK, LockInv, Draining,
      Section, Tasks, RotationOps, CloseOps, OpInv, LockOps, gate
<1>40. CASE UNCHANGED vars
  BY <1>40, <1>39 DEF vars, gate, request
<1>. QED
  BY <1>1, <1>2, <1>3, <1>4, <1>5, <1>6, <1>7, <1>8, <1>9, <1>10, <1>11, <1>12,
      <1>13, <1>14, <1>15, <1>16, <1>17, <1>18, <1>19, <1>20, <1>21, <1>22, <1>23,
      <1>24, <1>25, <1>26, <1>27, <1>28, <1>29, <1>30, <1>31, <1>32, <1>33, <1>34,
      <1>35, <1>36, <1>37, <1>38, <1>39, <1>40 DEF Next, WaitingCall, ServeCall,
      LeavingCall, Progress, CloseStep, UnblockStep, Quiescent

=============================================================================
