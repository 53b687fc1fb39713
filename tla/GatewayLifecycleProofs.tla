----------------------- MODULE GatewayLifecycleProofs -----------------------
(***************************************************************************)
(* The theorems about GatewayLifecycle, for any sets of calls and handlers, *)
(* any operations and any choice of faults.                                *)
(***************************************************************************)
EXTENDS GatewayTypeProofs, GatewayControlProofs

\* An effect keeps its terminal entry.
LEMMA OutcomeInductive ==
    ASSUME TypeOK, OpInv, OutcomeInv, [Next]_vars
    PROVE  OutcomeInv'
<1>. USE DEF TypeOK
<1>1. ASSUME NEW c \in Calls, GiveUpWaiting(c) PROVE OutcomeInv'
  BY <1>1, TasksAssumption DEF GiveUpWaiting, OutcomeInv, Goto, TasksOK, Tasks,
      gate, outcome
<1>2. ASSUME NEW c \in Calls, RefuseUnrecorded(c) PROVE OutcomeInv'
  BY <1>2, TasksAssumption DEF RefuseUnrecorded, OutcomeInv, Goto, TasksOK, Tasks,
      gate, outcome
<1>3. ASSUME NEW c \in Calls, LoseTerminal(c) PROVE OutcomeInv'
  BY <1>3, TasksAssumption DEF LoseTerminal, OutcomeInv, Goto, TasksOK, Tasks, gate,
      outcome
<1>4. ASSUME NEW c \in Calls, LeaveCall(c) PROVE OutcomeInv'
  BY <1>4, TasksAssumption DEF LeaveCall, OutcomeInv, Goto, TasksOK, Tasks, gate,
      outcome
<1>5. ASSUME NEW c \in Calls, EnterCall(c) PROVE OutcomeInv'
  <2>1. Moves(c, {"waiting", "running", "done"})
    BY <1>5 DEF EnterCall, Moves, Goto, TasksOK, Tasks, Admit
  <2>. QED
    BY <1>5, <2>1 DEF EnterCall, Moves, OutcomeInv, TasksOK, Tasks, gate, outcome,
        Admit
<1>6. ASSUME NEW c \in Calls, WakeCall(c) PROVE OutcomeInv'
  <2>1. Moves(c, {"running", "done"})
    BY <1>6 DEF WakeCall, Moves, Goto, TasksOK, Tasks, Admit
  <2>. QED
    BY <1>6, <2>1 DEF WakeCall, Moves, OutcomeInv, TasksOK, Tasks, gate, outcome,
        Admit
<1>7. ASSUME NEW c \in Calls, RecordDecision(c) PROVE OutcomeInv'
  <2>1. Moves(c, {"leaving"})
    BY <1>7 DEF RecordDecision, Moves, Goto, TasksOK, Tasks
  <2>. QED
    BY <1>7, <2>1 DEF RecordDecision, Moves, OutcomeInv, TasksOK, Tasks, gate, outcome
<1>8. ASSUME NEW c \in Calls, Forward(c) PROVE OutcomeInv'
  <2>1. Moves(c, {"upstream"})
    BY <1>8 DEF Forward, Moves, Goto, TasksOK, Tasks
  <2>. QED
    BY <1>8, <2>1 DEF Forward, Moves, OutcomeInv, TasksOK, Tasks, gate, outcome
<1>9. ASSUME NEW c \in Calls, FinalizeUnexpectedCallFailure(c) PROVE OutcomeInv'
  <2>1. Moves(c, {"unwinding"})
    BY <1>9 DEF FinalizeUnexpectedCallFailure, Moves, Goto, TasksOK, Tasks
  <2>. QED
    BY <1>9, <2>1 DEF FinalizeUnexpectedCallFailure, Moves, OutcomeInv, TasksOK,
        Tasks, gate, outcome
<1>10. ASSUME NEW c \in Calls, LeaveCallAndTrip(c) PROVE OutcomeInv'
  <2>1. Moves(c, {"lock", "done"})
    BY <1>10 DEF LeaveCallAndTrip, Moves, Goto, TasksOK, Tasks
  <2>. QED
    BY <1>10, <2>1 DEF LeaveCallAndTrip, Moves, OutcomeInv, TasksOK, Tasks, gate,
        outcome
<1>11. ASSUME NEW h \in Handlers, Request(h) PROVE OutcomeInv'
  BY <1>11, TasksAssumption DEF Request, OutcomeInv, Goto, TasksOK, Tasks, gate,
      outcome
<1>12. ASSUME NEW t \in Tasks, RefuseTransition(t) PROVE OutcomeInv'
  BY <1>12, TasksAssumption DEF RefuseTransition, OutcomeInv, Goto, TasksOK, Tasks,
      gate, outcome
<1>13. ASSUME NEW t \in Tasks, CancelWait(t) PROVE OutcomeInv'
  BY <1>13, TasksAssumption DEF CancelWait, OutcomeInv, Goto, TasksOK, Tasks, gate,
      outcome
<1>14. ASSUME NEW t \in Tasks, ResumeCommittedClose(t) PROVE OutcomeInv'
  BY <1>14, TasksAssumption DEF ResumeCommittedClose, OutcomeInv, Goto, TasksOK,
      Tasks, gate, outcome, EntryPoint, RotationOps, CloseOps
<1>15. ASSUME NEW t \in Tasks, Seal(t) PROVE OutcomeInv'
  BY <1>15, TasksAssumption DEF Seal, OutcomeInv, Goto, TasksOK, Tasks, gate,
      outcome
<1>16. ASSUME NEW t \in Tasks, DrainedWithLostTerminal(t) PROVE OutcomeInv'
  BY <1>16, TasksAssumption DEF DrainedWithLostTerminal, OutcomeInv, Goto, TasksOK,
      Tasks, gate, outcome
<1>17. ASSUME NEW t \in Tasks, DrainDeadline(t) PROVE OutcomeInv'
  BY <1>17, TasksAssumption DEF DrainDeadline, OutcomeInv, Goto, TasksOK, Tasks,
      gate, outcome
<1>18. ASSUME NEW t \in Tasks, GraceExpires(t) PROVE OutcomeInv'
  BY <1>18, TasksAssumption DEF GraceExpires, OutcomeInv, Goto, TasksOK, Tasks,
      gate, outcome
<1>19. ASSUME NEW t \in Tasks, ExitTransition(t) PROVE OutcomeInv'
  BY <1>19, TasksAssumption DEF ExitTransition, OutcomeInv, Goto, TasksOK, Tasks,
      gate, outcome
<1>20. ASSUME NEW t \in Tasks, RefuseSecondPending(t) PROVE OutcomeInv'
  BY <1>20, TasksAssumption DEF RefuseSecondPending, OutcomeInv, Goto, TasksOK,
      Tasks, gate, outcome, Raise
<1>21. ASSUME NEW t \in Tasks, CloseSession(t) PROVE OutcomeInv'
  BY <1>21, TasksAssumption DEF CloseSession, OutcomeInv, Goto, TasksOK, Tasks,
      gate, outcome
<1>22. ASSUME NEW t \in Tasks, FailClose(t) PROVE OutcomeInv'
  BY <1>22, TasksAssumption DEF FailClose, OutcomeInv, Goto, TasksOK, Tasks, gate,
      outcome, Raise
<1>23. ASSUME NEW t \in Tasks, ReusePending(t) PROVE OutcomeInv'
  BY <1>23, TasksAssumption DEF ReusePending, OutcomeInv, Goto, TasksOK, Tasks,
      gate, outcome
<1>24. ASSUME NEW t \in Tasks, FailCleanup(t) PROVE OutcomeInv'
  BY <1>24, TasksAssumption DEF FailCleanup, OutcomeInv, Goto, TasksOK, Tasks, gate,
      outcome, Raise
<1>25. ASSUME NEW t \in Tasks, HaltSession(t) PROVE OutcomeInv'
  BY <1>25, TasksAssumption DEF HaltSession, OutcomeInv, Goto, TasksOK, Tasks, gate,
      outcome
<1>26. ASSUME NEW t \in Tasks, RebindSession(t) PROVE OutcomeInv'
  BY <1>26, TasksAssumption DEF RebindSession, OutcomeInv, Goto, TasksOK, Tasks,
      gate, outcome
<1>27. ASSUME NEW t \in Tasks, ResumeSession(t) PROVE OutcomeInv'
  BY <1>27, TasksAssumption DEF ResumeSession, OutcomeInv, Goto, TasksOK, Tasks,
      gate, outcome
<1>28. ASSUME NEW t \in Tasks, ReleaseForReset(t) PROVE OutcomeInv'
  BY <1>28, TasksAssumption DEF ReleaseForReset, OutcomeInv, Goto, TasksOK, Tasks,
      gate, outcome
<1>29. ASSUME NEW t \in Tasks, ApplyReset(t) PROVE OutcomeInv'
  BY <1>29, TasksAssumption DEF ApplyReset, OutcomeInv, Goto, TasksOK, Tasks, gate,
      outcome
<1>30. ASSUME NEW t \in Tasks, FinishShutdown(t) PROVE OutcomeInv'
  BY <1>30, TasksAssumption DEF FinishShutdown, OutcomeInv, Goto, TasksOK, Tasks,
      gate, outcome
<1>31. ASSUME NEW t \in Tasks, RefuseUnblock(t) PROVE OutcomeInv'
  BY <1>31, TasksAssumption DEF RefuseUnblock, OutcomeInv, Goto, TasksOK, Tasks,
      gate, outcome
<1>32. ASSUME NEW t \in Tasks, UnblockInPlace(t) PROVE OutcomeInv'
  BY <1>32, TasksAssumption DEF UnblockInPlace, OutcomeInv, Goto, TasksOK, Tasks,
      gate, outcome
<1>33. ASSUME NEW t \in Tasks, Drained(t) PROVE OutcomeInv'
  <2>1. op[t] \in LockOps
    BY <1>33 DEF Drained, OpInv
  <2>2. Moves(t, {EntryPoint(op[t])})
    BY <1>33 DEF Drained, Moves, Goto, TasksOK
  <2>3. EntryPoint(op[t]) \notin {"idle", "waiting", "running", "upstream"}
    BY <2>1 DEF EntryPoint, LockOps
  <2>. QED
    BY <1>33, <2>2, <2>3 DEF Drained, Moves, OutcomeInv, TasksOK, Tasks, Draining, outcome
<1>34. ASSUME NEW t \in Tasks, CancelDrain(t) PROVE OutcomeInv'
  <2>1. Moves(t, {"done"})
    BY <1>34 DEF CancelDrain, Moves, Goto, TasksOK, Tasks
  <2>. QED
    BY <1>34, <2>1 DEF CancelDrain, Moves, OutcomeInv, TasksOK, Tasks, gate, outcome,
        Draining
<1>35. ASSUME NEW t \in Tasks, TripIdentity(t) PROVE OutcomeInv'
  <2>1. Moves(t, {"commit", "exit"})
    BY <1>35 DEF TripIdentity, Moves, Goto, TasksOK, Tasks, Raise
  <2>. QED
    BY <1>35, <2>1 DEF TripIdentity, Moves, OutcomeInv, TasksOK, Tasks, gate, outcome
<1>36. ASSUME NEW t \in Tasks, RetryClose(t) PROVE OutcomeInv'
  <2>1. Moves(t, {"succeed", "exit"})
    BY <1>36 DEF RetryClose, Moves, Goto, TasksOK, Tasks, Raise
  <2>. QED
    BY <1>36, <2>1 DEF RetryClose, Moves, OutcomeInv, TasksOK, Tasks, gate, outcome
<1>37. ASSUME NEW t \in Tasks, ChooseSuccessor(t) PROVE OutcomeInv'
  <2>1. Moves(t, {"aclose", "exit"})
    BY <1>37 DEF ChooseSuccessor, Moves, Goto, TasksOK, Tasks, Raise
  <2>. QED
    BY <1>37, <2>1 DEF ChooseSuccessor, Moves, OutcomeInv, TasksOK, Tasks, gate,
        outcome
<1>38. ASSUME NEW t \in Tasks, UnblockAndReopen(t) PROVE OutcomeInv'
  <2>1. Moves(t, {"aclose", "exit"})
    BY <1>38 DEF UnblockAndReopen, Moves, Goto, TasksOK, Tasks, Raise
  <2>. QED
    BY <1>38, <2>1 DEF UnblockAndReopen, Moves, OutcomeInv, TasksOK, Tasks, gate,
        outcome
<1>39. CASE UNCHANGED <<failedTerminal, pc, outcome>>
  BY <1>39 DEF OutcomeInv, Goto, TasksOK, Tasks, outcome
<1>40. CASE UNCHANGED vars
  BY <1>40, <1>39 DEF vars, gate, outcome
<1>. QED
  BY <1>1, <1>2, <1>3, <1>4, <1>5, <1>6, <1>7, <1>8, <1>9, <1>10, <1>11, <1>12,
      <1>13, <1>14, <1>15, <1>16, <1>17, <1>18, <1>19, <1>20, <1>21, <1>22, <1>23,
      <1>24, <1>25, <1>26, <1>27, <1>28, <1>29, <1>30, <1>31, <1>32, <1>33, <1>34,
      <1>35, <1>36, <1>37, <1>38, <1>39, <1>40 DEF Next, WaitingCall, ServeCall,
      LeavingCall, Progress, CloseStep, UnblockStep, Quiescent

\* Shutdown is final and the stores close after the last writer.
LEMMA StopInductive ==
    ASSUME TypeOK, LockInv, ActiveInv, OpInv, GateInv, StopInv, [Next]_vars
    PROVE  StopInv'
<1>. USE DEF TypeOK
<1>1. ASSUME NEW c \in Calls, GiveUpWaiting(c) PROVE StopInv'
  <2>1. Moves(c, {"done"})
    BY <1>1 DEF GiveUpWaiting, Moves, Goto, TasksOK, Tasks
  <2>. QED
    BY <1>1, <2>1, TasksAssumption DEF GiveUpWaiting, Moves, StopInv, Owns, LockInv,
        Draining, Section, FlagsOK, gate, stop, server, request, Tasks
<1>2. ASSUME NEW c \in Calls, RecordDecision(c) PROVE StopInv'
  <2>1. Moves(c, {"leaving"})
    BY <1>2 DEF RecordDecision, Moves, Goto, TasksOK, Tasks
  <2>. QED
    BY <1>2, <2>1, TasksAssumption DEF RecordDecision, Moves, StopInv, Owns,
        LockInv, Draining, Section, FlagsOK, gate, stop, server, request, Tasks
<1>3. ASSUME NEW c \in Calls, RefuseUnrecorded(c) PROVE StopInv'
  <2>1. Moves(c, {"unwinding"})
    BY <1>3 DEF RefuseUnrecorded, Moves, Goto, TasksOK, Tasks
  <2>. QED
    BY <1>3, <2>1, TasksAssumption DEF RefuseUnrecorded, Moves, StopInv, Owns,
        LockInv, Draining, Section, FlagsOK, gate, stop, server, request, Tasks
<1>4. ASSUME NEW c \in Calls, Forward(c) PROVE StopInv'
  <2>1. Moves(c, {"upstream"})
    BY <1>4 DEF Forward, Moves, Goto, TasksOK, Tasks
  <2>. QED
    BY <1>4, <2>1, TasksAssumption DEF Forward, Moves, StopInv, Owns, LockInv,
        Draining, Section, FlagsOK, gate, stop, server, request, Tasks
<1>5. ASSUME NEW c \in Calls, FinalizeUnexpectedCallFailure(c) PROVE StopInv'
  <2>1. Moves(c, {"unwinding"})
    BY <1>5 DEF FinalizeUnexpectedCallFailure, Moves, Goto, TasksOK, Tasks
  <2>. QED
    BY <1>5, <2>1, TasksAssumption DEF FinalizeUnexpectedCallFailure, Moves,
        StopInv, Owns, LockInv, Draining, Section, FlagsOK, gate, stop, server,
        request, Tasks
<1>6. ASSUME NEW c \in Calls, LoseTerminal(c) PROVE StopInv'
  <2>1. Moves(c, {"unwinding"})
    BY <1>6 DEF LoseTerminal, Moves, Goto, TasksOK, Tasks
  <2>. QED
    BY <1>6, <2>1, TasksAssumption DEF LoseTerminal, Moves, StopInv, Owns, LockInv,
        Draining, Section, FlagsOK, gate, stop, server, request, Tasks
<1>7. ASSUME NEW c \in Calls, LeaveCall(c) PROVE StopInv'
  <2>1. Moves(c, {"done"})
    BY <1>7 DEF LeaveCall, Moves, Goto, TasksOK, Tasks
  <2>. QED
    BY <1>7, <2>1, TasksAssumption DEF LeaveCall, Moves, StopInv, Owns, LockInv,
        Draining, Section, FlagsOK, gate, stop, server, request, Tasks
<1>8. ASSUME NEW c \in Calls, EnterCall(c) PROVE StopInv'
  <2>1. Moves(c, {"waiting", "running", "done"})
    BY <1>8 DEF EnterCall, Moves, Goto, TasksOK, Tasks, Admit
  <2>2. storesClosed => active' = active
    BY <1>8 DEF EnterCall, Admit, StopInv
  <2>3. op'[c] \in {op[c], "call"} /\ \A u \in Tasks \ {c} : op'[u] = op[u]
    BY <1>8 DEF EnterCall, TasksOK, Tasks, request
  <2>. QED
    BY <1>8, <2>1, <2>2, <2>3 DEF EnterCall, Moves, StopInv, Owns, LockInv, Draining,
        Section, gate, stop, server, Tasks
<1>9. ASSUME NEW c \in Calls, WakeCall(c) PROVE StopInv'
  <2>1. Moves(c, {"running", "done"})
    BY <1>9 DEF WakeCall, Moves, Goto, TasksOK, Tasks, Admit
  <2>2. storesClosed => active' = active
    BY <1>9 DEF WakeCall, Admit, StopInv
  <2>3. op'[c] \in {op[c], "call"} /\ \A u \in Tasks \ {c} : op'[u] = op[u]
    BY <1>9 DEF WakeCall, TasksOK, Tasks, request
  <2>. QED
    BY <1>9, <2>1, <2>2, <2>3 DEF WakeCall, Moves, StopInv, Owns, LockInv, Draining,
        Section, gate, stop, server, Tasks
<1>10. ASSUME NEW c \in Calls, LeaveCallAndTrip(c) PROVE StopInv'
  <2>1. Moves(c, {"lock", "done"})
    BY <1>10 DEF LeaveCallAndTrip, Moves, Goto, TasksOK, Tasks
  <2>2. c \in active
    BY <1>10 DEF LeaveCallAndTrip, ActiveInv, Admitted
  <2>3. op'[c] \in {op[c], "seal"} /\ \A u \in Tasks \ {c} : op'[u] = op[u]
    BY <1>10 DEF LeaveCallAndTrip, TasksOK, Tasks
  <2>. QED
    BY <1>10, <2>1, <2>2, <2>3 DEF LeaveCallAndTrip, Moves, StopInv, Owns, LockInv,
        Draining, Section, gate, server
<1>11. ASSUME NEW h \in Handlers, Request(h) PROVE StopInv'
  <2>1. Moves(h, {"lock"})
    BY <1>11 DEF Request, Moves, Goto, TasksOK, Tasks
  <2>2. /\ op'[h] = "shutdown" => shuttingDown'
        /\ shuttingDown => shuttingDown'
        /\ \A u \in Tasks \ {h} : op'[u] = op[u]
    BY <1>11, Zenon DEF Request, TasksOK, FlagsOK, Tasks
  <2>. QED
    BY <1>11, <2>1, <2>2 DEF Request, Moves, StopInv, Owns, LockInv, Draining, Section,
        gate, server, Tasks
<1>12. ASSUME NEW t \in Tasks, RefuseTransition(t) PROVE StopInv'
  <2>1. Moves(t, {"done"})
    BY <1>12, Zenon DEF RefuseTransition, Moves, Goto, TasksOK, Tasks
  <2>. QED
    BY <1>12, <2>1, TasksAssumption, Zenon DEF RefuseTransition, Moves, StopInv,
        Owns, LockInv, Draining, Section, FlagsOK, gate, stop, server, request,
        Tasks
<1>13. ASSUME NEW t \in Tasks, CancelWait(t) PROVE StopInv'
  <2>1. Moves(t, {"done"})
    BY <1>13 DEF CancelWait, Moves, Goto, TasksOK, Tasks
  <2>. QED
    BY <1>13, <2>1, TasksAssumption DEF CancelWait, Moves, StopInv, Owns, LockInv,
        Draining, Section, FlagsOK, gate, stop, server, request, Tasks
<1>14. ASSUME NEW t \in Tasks, DrainDeadline(t) PROVE StopInv'
  <2>1. Moves(t, {"grace"})
    BY <1>14 DEF DrainDeadline, Moves, Goto, TasksOK, Tasks
  <2>. QED
    BY <1>14, <2>1, TasksAssumption DEF DrainDeadline, Moves, StopInv, Owns,
        LockInv, Draining, Section, FlagsOK, gate, stop, server, request, Tasks
<1>15. ASSUME NEW t \in Tasks, GraceExpires(t) PROVE StopInv'
  <2>1. Moves(t, {"done"})
    BY <1>15 DEF GraceExpires, Moves, Goto, TasksOK, Tasks
  <2>. QED
    BY <1>15, <2>1, TasksAssumption DEF GraceExpires, Moves, StopInv, Owns, LockInv,
        Draining, Section, FlagsOK, gate, stop, server, request, Tasks
<1>16. ASSUME NEW t \in Tasks, CancelDrain(t) PROVE StopInv'
  <2>1. Moves(t, {"done"})
    BY <1>16 DEF CancelDrain, Moves, Goto, TasksOK, Tasks
  <2>. QED
    BY <1>16, <2>1, TasksAssumption DEF CancelDrain, Moves, StopInv, Owns, LockInv,
        Draining, Section, FlagsOK, gate, stop, server, request, Tasks
<1>17. ASSUME NEW t \in Tasks, ExitTransition(t) PROVE StopInv'
  <2>1. Moves(t, {"done"})
    BY <1>17 DEF ExitTransition, Moves, Goto, TasksOK, Tasks
  <2>. QED
    BY <1>17, <2>1, TasksAssumption DEF ExitTransition, Moves, StopInv, Owns,
        LockInv, Draining, Section, FlagsOK, gate, stop, server, request, Tasks
<1>18. ASSUME NEW t \in Tasks, RefuseSecondPending(t) PROVE StopInv'
  <2>1. Moves(t, {"exit"})
    BY <1>18 DEF RefuseSecondPending, Moves, Goto, TasksOK, Tasks, Raise
  <2>. QED
    BY <1>18, <2>1, TasksAssumption DEF RefuseSecondPending, Moves, StopInv, Owns,
        LockInv, Draining, Section, FlagsOK, gate, stop, server, request, Tasks
<1>19. ASSUME NEW t \in Tasks, CloseSession(t) PROVE StopInv'
  <2>1. Moves(t, {"succeed"})
    BY <1>19 DEF CloseSession, Moves, Goto, TasksOK, Tasks
  <2>. QED
    BY <1>19, <2>1, TasksAssumption DEF CloseSession, Moves, StopInv, Owns, LockInv,
        Draining, Section, FlagsOK, gate, stop, server, request, Tasks
<1>20. ASSUME NEW t \in Tasks, FailClose(t) PROVE StopInv'
  <2>1. Moves(t, {"exit"})
    BY <1>20 DEF FailClose, Moves, Goto, TasksOK, Tasks, Raise
  <2>. QED
    BY <1>20, <2>1, TasksAssumption, Zenon DEF FailClose, Moves, StopInv, Owns,
        LockInv, Draining, Section, FlagsOK, gate, stop, server, request, Tasks
<1>21. ASSUME NEW t \in Tasks, ReusePending(t) PROVE StopInv'
  <2>1. Moves(t, {"aclose"})
    BY <1>21 DEF ReusePending, Moves, Goto, TasksOK, Tasks
  <2>. QED
    BY <1>21, <2>1, TasksAssumption DEF ReusePending, Moves, StopInv, Owns, LockInv,
        Draining, Section, FlagsOK, gate, stop, server, request, Tasks
<1>22. ASSUME NEW t \in Tasks, FailCleanup(t) PROVE StopInv'
  <2>1. Moves(t, {"exit"})
    BY <1>22 DEF FailCleanup, Moves, Goto, TasksOK, Tasks, Raise
  <2>. QED
    BY <1>22, <2>1, TasksAssumption DEF FailCleanup, Moves, StopInv, Owns, LockInv,
        Draining, Section, FlagsOK, gate, stop, server, request, Tasks
<1>23. ASSUME NEW t \in Tasks, HaltSession(t) PROVE StopInv'
  <2>1. Moves(t, {"exit"})
    BY <1>23 DEF HaltSession, Moves, Goto, TasksOK, Tasks
  <2>. QED
    BY <1>23, <2>1, TasksAssumption DEF HaltSession, Moves, StopInv, Owns, LockInv,
        Draining, Section, FlagsOK, gate, stop, server, request, Tasks
<1>24. ASSUME NEW t \in Tasks, RebindSession(t) PROVE StopInv'
  <2>1. Moves(t, {"exit"})
    BY <1>24 DEF RebindSession, Moves, Goto, TasksOK, Tasks
  <2>. QED
    BY <1>24, <2>1, TasksAssumption DEF RebindSession, Moves, StopInv, Owns,
        LockInv, Draining, Section, FlagsOK, gate, stop, server, request, Tasks
<1>25. ASSUME NEW t \in Tasks, ResumeSession(t) PROVE StopInv'
  <2>1. Moves(t, {"exit"})
    BY <1>25 DEF ResumeSession, Moves, Goto, TasksOK, Tasks
  <2>. QED
    BY <1>25, <2>1, TasksAssumption, Zenon DEF ResumeSession, Moves, StopInv, Owns,
        LockInv, Draining, Section, FlagsOK, gate, stop, server, request, Tasks
<1>26. ASSUME NEW t \in Tasks, ReleaseForReset(t) PROVE StopInv'
  <2>1. Moves(t, {"apply"})
    BY <1>26 DEF ReleaseForReset, Moves, Goto, TasksOK, Tasks
  <2>. QED
    BY <1>26, <2>1, TasksAssumption DEF ReleaseForReset, Moves, StopInv, Owns,
        LockInv, Draining, Section, FlagsOK, gate, stop, server, request, Tasks
<1>27. ASSUME NEW t \in Tasks, ApplyReset(t) PROVE StopInv'
  <2>1. Moves(t, {"exit"})
    BY <1>27 DEF ApplyReset, Moves, Goto, TasksOK, Tasks
  <2>. QED
    BY <1>27, <2>1, TasksAssumption DEF ApplyReset, Moves, StopInv, Owns, LockInv,
        Draining, Section, FlagsOK, gate, stop, server, request, Tasks
<1>28. ASSUME NEW t \in Tasks, RefuseUnblock(t) PROVE StopInv'
  <2>1. Moves(t, {"exit"})
    BY <1>28 DEF RefuseUnblock, Moves, Goto, TasksOK, Tasks
  <2>. QED
    BY <1>28, <2>1, TasksAssumption DEF RefuseUnblock, Moves, StopInv, Owns,
        LockInv, Draining, Section, FlagsOK, gate, stop, server, request, Tasks
<1>29. ASSUME NEW t \in Tasks, UnblockInPlace(t) PROVE StopInv'
  <2>1. Moves(t, {"exit"})
    BY <1>29 DEF UnblockInPlace, Moves, Goto, TasksOK, Tasks
  <2>. QED
    BY <1>29, <2>1, TasksAssumption DEF UnblockInPlace, Moves, StopInv, Owns,
        LockInv, Draining, Section, FlagsOK, gate, stop, server, request, Tasks
<1>30. ASSUME NEW t \in Tasks, ResumeCommittedClose(t) PROVE StopInv'
  <2>1. Moves(t, {"commit", "trip", "unblock"})
    BY <1>30 DEF ResumeCommittedClose, Moves, Goto, TasksOK, Tasks, EntryPoint,
        RotationOps, CloseOps
  <2>. QED
    BY <1>30, <2>1, TasksAssumption, Zenon DEF ResumeCommittedClose, Moves, StopInv,
        Owns, LockInv, Draining, Section, stop, server, request, RefusedUnderLock
<1>31. ASSUME NEW t \in Tasks, Seal(t) PROVE StopInv'
  <2>1. Moves(t, {"drain"})
    BY <1>31 DEF Seal, Moves, Goto, TasksOK, Tasks
  <2>. QED
    BY <1>31, <2>1, TasksAssumption DEF Seal, Moves, StopInv, Owns, LockInv, Draining,
        Section, stop, server, request, RefusedUnderLock
<1>32. ASSUME NEW t \in Tasks, Drained(t) PROVE StopInv'
  <2>1. op[t] \in LockOps
    BY <1>32, Zenon DEF Drained, OpInv
  <2>2. Moves(t, {EntryPoint(op[t])})
    BY <1>32 DEF Drained, Moves, Goto, TasksOK
  <2>3. EntryPoint(op[t]) \in Section
    BY <2>1 DEF EntryPoint, LockOps, Section
  <2>4. lock = t
    BY <1>32, Zenon DEF Drained, LockInv, Owns
  <2>. QED
    BY <1>32, <2>2, <2>3, <2>4, Zenon DEF Drained, Moves, StopInv, LockInv, Owns,
        Draining, Section, server, request
<1>33. ASSUME NEW t \in Tasks, DrainedWithLostTerminal(t) PROVE StopInv'
  <2>1. Moves(t, {"done"})
    BY <1>33 DEF DrainedWithLostTerminal, Moves, Goto, TasksOK, Tasks
  <2>. QED
    BY <1>33, <2>1, TasksAssumption DEF DrainedWithLostTerminal, Moves, StopInv, Owns,
        LockInv, Draining, Section, stop, server, request
<1>34. ASSUME NEW t \in Tasks, TripIdentity(t) PROVE StopInv'
  <2>1. Moves(t, {"commit", "exit"})
    BY <1>34 DEF TripIdentity, Moves, Goto, TasksOK, Tasks, Raise
  <2>. QED
    BY <1>34, <2>1 DEF TripIdentity, Moves, StopInv, Owns, LockInv, Draining, Section,
        gate, stop, server, request
<1>35. ASSUME NEW t \in Tasks, RetryClose(t) PROVE StopInv'
  <2>1. Moves(t, {"succeed", "exit"})
    BY <1>35 DEF RetryClose, Moves, Goto, TasksOK, Tasks, Raise
  <2>. QED
    BY <1>35, <2>1, Zenon DEF RetryClose, Moves, StopInv, Owns, LockInv, Draining,
        Section, gate, stop, server, request
<1>36. ASSUME NEW t \in Tasks, ChooseSuccessor(t) PROVE StopInv'
  <2>1. Moves(t, {"aclose", "exit"})
    BY <1>36 DEF ChooseSuccessor, Moves, Goto, TasksOK, Tasks, Raise
  <2>. QED
    BY <1>36, <2>1 DEF ChooseSuccessor, Moves, StopInv, Owns, LockInv, Draining,
        Section, gate, stop, server, request
<1>37. ASSUME NEW t \in Tasks, FinishShutdown(t) PROVE StopInv'
  <2>1. Moves(t, {"done"})
    BY <1>37 DEF FinishShutdown, Moves, Goto, TasksOK, Tasks
  <2>2. lock = t /\ active = {} /\ shuttingDown
    BY <1>37 DEF FinishShutdown, LockInv, Owns, InSection, Section, GateInv, StopInv
  <2>. QED
    BY <1>37, <2>1, <2>2 DEF FinishShutdown, Moves, StopInv, Owns, LockInv, Draining,
        Section, stop, request, InSection
<1>38. ASSUME NEW t \in Tasks, UnblockAndReopen(t) PROVE StopInv'
  <2>1. Moves(t, {"aclose", "exit"})
    BY <1>38 DEF UnblockAndReopen, Moves, Goto, TasksOK, Tasks, Raise
  <2>. QED
    BY <1>38, <2>1 DEF UnblockAndReopen, Moves, StopInv, Owns, LockInv, Draining,
        Section, gate, stop, server, request
<1>39. CASE UNCHANGED <<shuttingDown, drainIncomplete, storesClosed, lock, active, pc, op>>
  BY <1>39 DEF StopInv, Owns, Goto, FlagsOK, TasksOK, Tasks, LockInv, Draining,
      Section
<1>40. CASE UNCHANGED vars
  BY <1>40, <1>39 DEF vars, gate, stop, server, request
<1>. QED
  BY <1>1, <1>2, <1>3, <1>4, <1>5, <1>6, <1>7, <1>8, <1>9, <1>10, <1>11, <1>12,
      <1>13, <1>14, <1>15, <1>16, <1>17, <1>18, <1>19, <1>20, <1>21, <1>22, <1>23,
      <1>24, <1>25, <1>26, <1>27, <1>28, <1>29, <1>30, <1>31, <1>32, <1>33, <1>34,
      <1>35, <1>36, <1>37, <1>38, <1>39, <1>40 DEF Next, WaitingCall, ServeCall,
      LeavingCall, Progress, CloseStep, UnblockStep, Quiescent

\* Admission is not left sealed without a cause.
LEMMA SealInductive ==
    ASSUME TypeOK, LockInv, GateInv, StopInv, SealHasCause, [Next]_vars
    PROVE  SealHasCause'
<1>. USE DEF TypeOK
<1>1. ASSUME NEW c \in Calls,
               EnterCall(c) \/ WakeCall(c) \/ GiveUpWaiting(c) \/ RecordDecision(c)
                   \/ RefuseUnrecorded(c) \/ Forward(c) \/
                   FinalizeUnexpectedCallFailure(c) \/ LeaveCall(c)
     PROVE  UNCHANGED <<gate, stop, lock>>
  BY <1>1 DEF EnterCall, WakeCall, GiveUpWaiting, RecordDecision, RefuseUnrecorded,
      Forward, FinalizeUnexpectedCallFailure, LeaveCall, gate, stop
<1>2. ASSUME NEW c \in Calls,
               LoseTerminal(c) \/ LeaveCallAndTrip(c)
     PROVE  SealHasCause'
  BY <1>2, TasksAssumption, Zenon DEF LoseTerminal, LeaveCallAndTrip, SealHasCause,
      FlagsOK, gate, stop
<1>3. ASSUME NEW h \in Handlers, Request(h) PROVE SealHasCause'
  BY <1>3, TasksAssumption DEF Request, SealHasCause, FlagsOK, gate
<1>4. ASSUME NEW t \in Tasks,
               CancelWait(t) \/ TripIdentity(t) \/ RefuseSecondPending(t) \/
                   ChooseSuccessor(t) \/ ReusePending(t) \/ ApplyReset(t) \/
                   RefuseUnblock(t) \/ UnblockAndReopen(t)
     PROVE  UNCHANGED <<gate, stop, lock>>
  BY <1>4, Zenon DEF CancelWait, TripIdentity, RefuseSecondPending, ChooseSuccessor,
      ReusePending, ApplyReset, RefuseUnblock, UnblockAndReopen, gate, stop
<1>5. ASSUME NEW t \in Tasks,
               RefuseTransition(t) \/ ResumeCommittedClose(t) \/ Seal(t) \/
                   Drained(t)
     PROVE  SealHasCause'
  BY <1>5, TasksAssumption, Zenon DEF RefuseTransition, ResumeCommittedClose, Seal,
      Drained, SealHasCause, FlagsOK, RefusedUnderLock, stop, gate, LockInv, Owns,
      Draining, Section
<1>6. ASSUME NEW t \in Tasks,
               DrainedWithLostTerminal(t) \/ DrainDeadline(t) \/ GraceExpires(t) \/
                   CancelDrain(t)
     PROVE  SealHasCause'
  BY <1>6, TasksAssumption, Zenon DEF DrainedWithLostTerminal, DrainDeadline,
      GraceExpires, CancelDrain, SealHasCause, FlagsOK, gate, stop, StopInv
<1>7. ASSUME NEW t \in Tasks,
               ExitTransition(t) \/ CloseSession(t) \/ FailClose(t) \/ RetryClose(t)
     PROVE  SealHasCause'
  BY <1>7, TasksAssumption, Zenon DEF ExitTransition, CloseSession, FailClose,
      RetryClose, SealHasCause, FlagsOK, gate, stop
<1>8. ASSUME NEW t \in Tasks,
               FailCleanup(t) \/ HaltSession(t) \/ RebindSession(t) \/
                   ResumeSession(t)
     PROVE  SealHasCause'
  BY <1>8, TasksAssumption, Zenon DEF FailCleanup, HaltSession, RebindSession,
      ResumeSession, SealHasCause, FlagsOK, gate, stop, LockInv, Owns, Draining,
      Section
<1>9. ASSUME NEW t \in Tasks,
               ReleaseForReset(t) \/ FinishShutdown(t) \/ UnblockInPlace(t)
     PROVE  SealHasCause'
  BY <1>9, TasksAssumption, Zenon DEF ReleaseForReset, FinishShutdown,
      UnblockInPlace, SealHasCause, FlagsOK, LockInv, Owns, Draining, Section, stop,
      StopInv, gate
<1>10. CASE UNCHANGED <<gate, stop, lock>>
  BY <1>10 DEF SealHasCause, FlagsOK, gate, stop
<1>11. CASE UNCHANGED vars
  BY <1>11, <1>10 DEF vars, gate, stop
<1>. QED
  BY <1>1, <1>2, <1>3, <1>4, <1>5, <1>6, <1>7, <1>8, <1>9, <1>10, <1>11 DEF Next,
      WaitingCall, ServeCall, LeavingCall, Progress, CloseStep, UnblockStep,
      Quiescent

-----------------------------------------------------------------------------
(***************************************************************************)
(* The theorems                                                            *)
(***************************************************************************)

\* build_server establishes the invariant.
LEMMA InitEstablishes == Init => IInv
<1>. SUFFICES ASSUME Init PROVE IInv
  OBVIOUS
<1>1. FlagsOK /\ GateOK
  BY SwitchesAssumption, Zenon DEF Init, FlagsOK, GateOK, Agent, Other, Unknown,
      NoAgent
<1>2. SessionOK
  <2>1. length \in Seq(Nat) /\ Len(length) = 1
    BY DEF Init
  <2>2. pending \in [sid : Nat, next : Successors] /\ unbound \subseteq Nat
    BY DEF Init, NoClose, NoSuccessor, Successors
  <2>. QED
    BY <2>1, <2>2 DEF Init, SessionOK
<1>3. TasksOK
  BY DEF Init, TasksOK, PCs, NoSuccessor, Successors, NoAgent
<1>4. SuccessorInv
  BY DEF Init, SuccessorInv, NoClose
<1>5. LockInv /\ ActiveInv /\ OpInv
  BY TasksAssumption DEF Init, LockInv, Owns, ActiveInv, Admitted, OpInv, Draining,
     Section, Tasks
<1>6. GateInv
  BY DEF Init, GateInv, InSection, Owns, Draining, Section
<1>7. OutcomeInv /\ StopInv /\ SealHasCause
  BY DEF Init, OutcomeInv, StopInv, SealHasCause
<1>. QED
  BY <1>1, <1>2, <1>3, <1>4, <1>5, <1>6, <1>7 DEF IInv, TypeOK

\* Every step of the gateway preserves the invariant.
LEMMA StepPreserves == IInv /\ [Next]_vars => IInv'
<1>. SUFFICES ASSUME IInv, [Next]_vars PROVE IInv'
  OBVIOUS
<1>1. TypeOK'
  BY FlagsTypeInductive, GateTypeInductive, SessionTypeInductive, TaskTypeInductive DEF IInv, TypeOK
<1>2. SuccessorInv'
  BY SuccessorInductive DEF IInv, TypeOK
<1>3. LockInv' /\ ActiveInv' /\ OpInv'
  BY LockInductive, ActiveInductive, OpInductive DEF IInv, TypeOK
<1>4. GateInv'
  BY GateInductive DEF IInv
<1>5. OutcomeInv' /\ StopInv' /\ SealHasCause'
  BY OutcomeInductive, StopInductive, SealInductive DEF IInv
<1>. QED
  BY <1>1, <1>2, <1>3, <1>4, <1>5 DEF IInv

\* The inductive invariant holds in every reachable state of the gateway.
THEOREM Invariance == Spec => []IInv
  BY InitEstablishes, StepPreserves, PTL DEF Spec

\* Every variable of the gateway keeps its type, for any calls, handlers and faults.
THEOREM TypeCorrectness == Spec => []TypeOK
  BY Invariance, PTL DEF IInv

\* Whoever changes the session holds the lock, with admission sealed, every admitted
\* call gone and its outcome recorded (_seal_and_drain and the retry that skips it).
THEOREM TransitionsAreDrained == Spec => []DrainedBeforeTransition
<1>1. IInv => DrainedBeforeTransition
  BY TasksAssumption DEF IInv, DrainedBeforeTransition, LockInv, GateInv, InSection, Owns
<1>. QED
  BY <1>1, Invariance, PTL

\* Admission is sealed with no transition running only for a recorded cause.
THEOREM SealsHaveCauses == Spec => []SealHasCause
  BY Invariance, PTL DEF IInv

\* close_session signs over a drained chain on which no outcome was lost.
LEMMA SigningStep ==
    ASSUME TypeOK, ActiveInv, OpInv, GateInv, OutcomeInv, [Next]_vars
    PROVE  SigningCoversEffects
<1>1. ASSUME NEW c \in Calls,
               EnterCall(c) \/ WakeCall(c) \/ GiveUpWaiting(c) \/ RecordDecision(c)
                   \/ RefuseUnrecorded(c) \/ Forward(c) \/
                   FinalizeUnexpectedCallFailure(c) \/ LoseTerminal(c) \/
                   LeaveCall(c)
     PROVE  UNCHANGED claims
  BY <1>1 DEF EnterCall, WakeCall, GiveUpWaiting, RecordDecision, RefuseUnrecorded,
      Forward, FinalizeUnexpectedCallFailure, LoseTerminal, LeaveCall, books
<1>2. ASSUME NEW c \in Calls, LeaveCallAndTrip(c) PROVE UNCHANGED claims
  BY <1>2, Zenon DEF LeaveCallAndTrip, books
<1>3. ASSUME NEW h \in Handlers, Request(h) PROVE UNCHANGED claims
  BY <1>3 DEF Request, books
<1>4. ASSUME NEW t \in Tasks,
               RefuseTransition(t) \/ CancelWait(t) \/ ResumeCommittedClose(t) \/
                   Seal(t) \/ Drained(t) \/ DrainedWithLostTerminal(t) \/
                   DrainDeadline(t) \/ GraceExpires(t) \/ CancelDrain(t)
     PROVE  UNCHANGED claims
  BY <1>4, Zenon DEF RefuseTransition, CancelWait, ResumeCommittedClose, Seal,
      Drained, DrainedWithLostTerminal, DrainDeadline, GraceExpires, CancelDrain,
      books
<1>5. ASSUME NEW t \in Tasks,
               ExitTransition(t) \/ TripIdentity(t) \/ RefuseSecondPending(t) \/
                   FailClose(t) \/ RetryClose(t) \/ ChooseSuccessor(t) \/
                   ReusePending(t) \/ FailCleanup(t) \/ HaltSession(t)
     PROVE  UNCHANGED claims
  BY <1>5, Zenon DEF ExitTransition, TripIdentity, RefuseSecondPending, FailClose,
      RetryClose, ChooseSuccessor, ReusePending, FailCleanup, HaltSession, books
<1>6. ASSUME NEW t \in Tasks,
               RebindSession(t) \/ ResumeSession(t) \/ ReleaseForReset(t) \/
                   ApplyReset(t) \/ FinishShutdown(t) \/ RefuseUnblock(t) \/
                   UnblockAndReopen(t) \/ UnblockInPlace(t)
     PROVE  UNCHANGED claims
  BY <1>6, Zenon DEF RebindSession, ResumeSession, ReleaseForReset, ApplyReset,
      FinishShutdown, RefuseUnblock, UnblockAndReopen, UnblockInPlace, books
<1>7. ASSUME NEW t \in Tasks, CloseSession(t) PROVE SigningCoversEffects
  <2>1. active = {} /\ ~failedTerminal
    BY <1>7, Zenon DEF CloseSession, OpInv, CloseOps, GateInv, InSection, Section
  <2>2. \A c \in effects : c \in Calls /\ terminal[c] # "none"
    BY <2>1 DEF OutcomeInv, ActiveInv, Admitted, TypeOK, TasksOK
  <2>3. \A cl \in claims' \ claims : cl.chain = chain /\ cl.covers = TerminalsOn(chain)
    <3>. DEFINE new == [sid |-> target[t], chain |-> chain, length |-> length'[chain],
                        covers |-> TerminalsOn(chain)]
    <3>1. claims' = claims \cup {new}
      BY <1>7, Zenon DEF CloseSession
    <3>2. new.chain = chain /\ new.covers = TerminalsOn(chain)
      OBVIOUS
    <3>. HIDE DEF new
    <3>. QED
      BY <3>1, <3>2
  <2>. QED
    BY <2>2, <2>3 DEF SigningCoversEffects, TerminalsOn
<1>8. CASE UNCHANGED claims
  BY <1>8 DEF SigningCoversEffects
<1>9. CASE UNCHANGED vars
  BY <1>9, <1>8 DEF vars, books
<1>. QED
  BY <1>1, <1>2, <1>3, <1>4, <1>5, <1>6, <1>7, <1>8, <1>9 DEF Next, WaitingCall,
      ServeCall, LeavingCall, Progress, CloseStep, UnblockStep, Quiescent

\* A signed claim covers every effect started on its chain.
THEOREM ClaimsCoverEffects == Spec => EffectsAccounted
<1>1. IInv /\ [Next]_vars => [SigningCoversEffects]_vars
  BY SigningStep DEF IInv
<1>. QED
  BY <1>1, Invariance, PTL DEF Spec, EffectsAccounted

\* Whoever appends or blocks is an admitted call or a transition other than shutdown.
LEMMA StoresQuietStep ==
    ASSUME ActiveInv, OpInv, StopInv, [Next]_vars
    PROVE  StoresQuiet
<1>1. ASSUME NEW c \in Calls,
               EnterCall(c) \/ WakeCall(c) \/ GiveUpWaiting(c) \/
                   RefuseUnrecorded(c) \/ Forward(c) \/ LoseTerminal(c) \/
                   LeaveCall(c)
     PROVE  UNCHANGED <<length, blocked>>
  BY <1>1 DEF EnterCall, WakeCall, GiveUpWaiting, RefuseUnrecorded, Forward,
      LoseTerminal, LeaveCall, session, killSwitch
<1>2. ASSUME NEW c \in Calls, RecordDecision(c) PROVE StoresQuiet
  <2>1. c \in active
    BY <1>2 DEF RecordDecision, ActiveInv, Admitted
  <2>. QED
    BY <2>1, Zenon DEF StoresQuiet, StopInv
<1>3. ASSUME NEW c \in Calls, FinalizeUnexpectedCallFailure(c) PROVE StoresQuiet
  <2>1. c \in active
    BY <1>3 DEF FinalizeUnexpectedCallFailure, ActiveInv, Admitted
  <2>. QED
    BY <2>1, Zenon DEF StoresQuiet, StopInv
<1>4. ASSUME NEW c \in Calls, LeaveCallAndTrip(c) PROVE StoresQuiet
  <2>1. c \in active
    BY <1>4 DEF LeaveCallAndTrip, ActiveInv, Admitted
  <2>. QED
    BY <2>1 DEF StoresQuiet, StopInv
<1>5. ASSUME NEW h \in Handlers, Request(h) PROVE UNCHANGED <<length, blocked>>
  BY <1>5 DEF Request, session, killSwitch
<1>6. ASSUME NEW t \in Tasks,
               RefuseTransition(t) \/ CancelWait(t) \/ ResumeCommittedClose(t) \/
                   Seal(t) \/ Drained(t) \/ DrainedWithLostTerminal(t) \/
                   DrainDeadline(t) \/ GraceExpires(t) \/ CancelDrain(t)
     PROVE  UNCHANGED <<length, blocked>>
  BY <1>6, Zenon DEF RefuseTransition, CancelWait, ResumeCommittedClose, Seal,
      Drained, DrainedWithLostTerminal, DrainDeadline, GraceExpires, CancelDrain,
      session, killSwitch
<1>7. ASSUME NEW t \in Tasks,
               ExitTransition(t) \/ RefuseSecondPending(t) \/ RetryClose(t) \/
                   ReusePending(t) \/ FailCleanup(t) \/ HaltSession(t) \/
                   RebindSession(t) \/ ReleaseForReset(t) \/ FinishShutdown(t)
     PROVE  UNCHANGED <<length, blocked>>
  BY <1>7, Zenon DEF ExitTransition, RefuseSecondPending, RetryClose, ReusePending,
      FailCleanup, HaltSession, RebindSession, ReleaseForReset, FinishShutdown,
      session, killSwitch
<1>8. ASSUME NEW t \in Tasks, RefuseUnblock(t) PROVE UNCHANGED <<length, blocked>>
  BY <1>8 DEF RefuseUnblock, session, killSwitch
<1>9. ASSUME NEW t \in Tasks, TripIdentity(t) PROVE StoresQuiet
  BY <1>9, Zenon DEF TripIdentity, StoresQuiet, OpInv, CloseOps, StopInv, Owns,
      Section
<1>10. ASSUME NEW t \in Tasks, CloseSession(t) PROVE StoresQuiet
  BY <1>10, Zenon DEF CloseSession, StoresQuiet, OpInv, CloseOps, StopInv, Owns,
      Section
<1>11. ASSUME NEW t \in Tasks, FailClose(t) PROVE StoresQuiet
  BY <1>11, Zenon DEF FailClose, StoresQuiet, OpInv, CloseOps, StopInv, Owns,
      Section
<1>12. ASSUME NEW t \in Tasks, ChooseSuccessor(t) PROVE StoresQuiet
  BY <1>12, Zenon DEF ChooseSuccessor, StoresQuiet, OpInv, CloseOps, StopInv, Owns,
      Section
<1>13. ASSUME NEW t \in Tasks, ResumeSession(t) PROVE StoresQuiet
  BY <1>13 DEF ResumeSession, StoresQuiet, OpInv, CloseOps, StopInv, Owns, Section
<1>14. ASSUME NEW t \in Tasks, ApplyReset(t) PROVE StoresQuiet
  BY <1>14, Zenon DEF ApplyReset, StoresQuiet, OpInv, CloseOps, StopInv, Owns,
      Section
<1>15. ASSUME NEW t \in Tasks, UnblockAndReopen(t) PROVE StoresQuiet
  BY <1>15, Zenon DEF UnblockAndReopen, StoresQuiet, OpInv, CloseOps, StopInv, Owns,
      Section
<1>16. ASSUME NEW t \in Tasks, UnblockInPlace(t) PROVE StoresQuiet
  BY <1>16, Zenon DEF UnblockInPlace, StoresQuiet, OpInv, CloseOps, StopInv, Owns,
      Section
<1>17. CASE UNCHANGED <<length, blocked>>
  BY <1>17 DEF StoresQuiet
<1>18. CASE UNCHANGED vars
  BY <1>18, <1>17 DEF vars, session, killSwitch
<1>. QED
  BY <1>1, <1>2, <1>3, <1>4, <1>5, <1>6, <1>7, <1>8, <1>9, <1>10, <1>11, <1>12,
      <1>13, <1>14, <1>15, <1>16, <1>17, <1>18 DEF Next, WaitingCall, ServeCall,
      LeavingCall, Progress, CloseStep, UnblockStep, Quiescent

\* Once shutdown has closed the durable stores nothing is appended or blocked.
THEOREM StoresStayQuiet == Spec => NoWriteAfterStoresClosed
<1>1. IInv /\ [Next]_vars => [StoresQuiet]_vars
  BY StoresQuietStep DEF IInv
<1>. QED
  BY <1>1, Invariance, PTL DEF Spec, NoWriteAfterStoresClosed

=============================================================================
