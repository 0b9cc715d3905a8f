---------------------- MODULE ContentModerationProofs ----------------------
(***************************************************************************)
(* Types, that a passed run was checked, and that no reported hit is       *)
(* forgotten while its process lives: for any surfaces and any number of   *)
(* faults and crashes.                                                     *)
(***************************************************************************)
EXTENDS ContentModeration, TLAPS

BeforeBarrier == handler.phase \in {"generating", "enqueueing", "waiting", "settling"}
Blocking == handler.phase \in {"blocking", "registering", "removing"}
AfterBarrier == handler.phase \in {"updating", "finishing", "finalizing", "persisting", "done"}

AllChecked == \A s \in Surface : task[s] \in {"none", "passed"}

\* What a check came to before the barrier shows in the coordinator.
Shown(s) ==
    \/ task[s] \in {"none", "queued", "found", "passed"}
    \/ task[s] = "failed" /\ coord.failedOpen
    \/ task[s] = "hit" /\ coord.info # None

NothingStarted == handler.phase = "idle" =>
    run.state # "passed" /\ \A s \in Surface : task[s] = "none"
NothingHidden == BeforeBarrier =>
    run.state # "passed" /\ ~coord.settled /\ \A s \in Surface : Shown(s)
WaitedForAll == handler.phase = "settling" =>
    coord.failedOpen \/ coord.info # None \/ AllChecked
VerdictIsRight ==
    /\ Blocking => handler.verdict = "blocked"
    /\ AfterBarrier /\ handler.verdict = "passed" => AllChecked

CheckInv == NothingStarted /\ NothingHidden /\ WaitedForAll /\ VerdictIsRight /\ PassedMeansChecked

\* Someone will withdraw the answer, or did.
Covered ==
    \/ run.withdrawn
    \/ pendingBlock # None
    \/ handler.phase \in {"blocking", "registering"}
    \/ \E s \in Surface : task[s] \in {"late", "registering"}

SettledAfterBarrier == Blocking \/ AfterBarrier => coord.settled
HitsAreCovered == coord.settled /\ (coord.blockHandled \/ Hits # {}) => Covered
RemovedWhenWithdrawn ==
    \/ run.withdrawn
    \/ /\ handler.phase # "removing"
       /\ recovery.phase # "removing"
       /\ \A s \in Surface : task[s] # "removing"

HitInv == SettledAfterBarrier /\ HitsAreCovered /\ RemovedWhenWithdrawn

\* What the rows' state may be.
States == {"not_required"} \cup Open \cup Verdicts

-----------------------------------------------------------------------------
\* What is written to the run's rows has their type, whether or not the write
\* reports an error.
LEMMA WriteType ==
    ASSUME run \in RunType, faults \in 0 .. MaxFaults,
           NEW rows \in RunType, NEW ok \in BOOLEAN, Write(rows, ok)
    PROVE  run' \in RunType /\ faults' \in 0 .. MaxFaults
  BY BoundsAssumption DEF Write, Call

LEMMA UpdateRunModerationType ==
    ASSUME run \in RunType, faults \in 0 .. MaxFaults,
           NEW state \in States, NEW ok \in BOOLEAN, UpdateRunModeration(state, ok)
    PROVE  run' \in RunType /\ faults' \in 0 .. MaxFaults
  <1>1. [run EXCEPT !.state = state, !.stale = FALSE] \in RunType
    BY DEF RunType, States
  <1>2. QED
    BY <1>1, WriteType DEF UpdateRunModeration

LEMMA ApplyRunBlockType ==
    ASSUME run \in RunType, faults \in 0 .. MaxFaults,
           NEW s, NEW ok \in BOOLEAN, ApplyRunBlock(s, ok)
    PROVE  run' \in RunType /\ faults' \in 0 .. MaxFaults
  <1>1. /\ (run.user \/ s \in Input) \in BOOLEAN
        /\ "blocked" \in States
    BY DEF States, Verdicts
  <1>2. [state |-> "blocked", user |-> run.user \/ s \in Input,
         withdrawn |-> TRUE, stale |-> FALSE] \in RunType
    BY <1>1 DEF RunType, States
  <1>3. QED
    BY <1>2, WriteType DEF ApplyRunBlock

\* A coordinator keeps its type when its flags or its block change.
LEMMA CoordFields ==
    ASSUME NEW c \in CoordType, NEW b \in BOOLEAN, NEW d \in BOOLEAN,
           NEW s \in Surface \cup {None}
    PROVE  /\ [c EXCEPT !.failedOpen = b] \in CoordType
           /\ [c EXCEPT !.settled = b, !.blockHandled = d] \in CoordType
           /\ [c EXCEPT !.info = s, !.blockHandled = b] \in CoordType
  BY DEF CoordType

\* Every step keeps the types.
LEMMA TypesKept == TypeOK /\ [Next]_vars => TypeOK'
  <1> SUFFICES ASSUME TypeOK, [Next]_vars
               PROVE  TypeOK'
    OBVIOUS
  <1> USE DEF TypeOK, HandlerGoto, TaskGoto, RecoveryGoto
  <1>0. /\ MaxFaults \in Nat /\ MaxCrashes \in Nat
        /\ {"pending", "moderating", "failed_open", "blocked"} \subseteq States
        /\ Verdicts \subseteq States
    BY BoundsAssumption DEF Open, Verdicts, States
  <1> USE <1>0
  <1>1. ASSUME NEW configured \in BOOLEAN, NEW ok \in BOOLEAN, BeginRun(configured, ok)
        PROVE  TypeOK'
    <2>0. coord' \in CoordType
      <3>1. [NewCoord EXCEPT !.live = TRUE] \in CoordType
        BY DEF NewCoord, CoordType
      <3>2. (~configured) \in BOOLEAN
        OBVIOUS
      <3>3. [[NewCoord EXCEPT !.live = TRUE] EXCEPT !.failedOpen = ~configured] \in CoordType
        BY <3>1, <3>2, CoordFields
      <3>4. QED
        BY <1>1, <3>3 DEF BeginRun
    <2>1. CASE configured
      <3>1. run' \in RunType /\ faults' \in 0 .. MaxFaults /\ UNCHANGED task
        BY <1>1, <2>1, UpdateRunModerationType DEF BeginRun
      <3>2. QED
        BY <1>1, <2>0, <2>1, <3>1 DEF BeginRun, HandlerPhases
    <2>2. CASE ~configured
      BY <1>1, <2>0, <2>2 DEF BeginRun, HandlerPhases, TaskPhases, Ended
    <2>3. QED
      BY <2>1, <2>2
  <1>2. ASSUME NEW ok \in BOOLEAN, AfterGeneration(ok)
        PROVE  TypeOK'
    BY <1>2, UpdateRunModerationType DEF AfterGeneration, HandlerPhases
  <1>3. ASSUME NEW ok \in BOOLEAN, ApplyBlock(ok)
        PROVE  TypeOK'
    BY <1>3, ApplyRunBlockType DEF ApplyBlock, HandlerPhases
  <1>4. ASSUME NEW ok \in BOOLEAN, UpdateRunState(ok)
        PROVE  TypeOK'
    BY <1>4, UpdateRunModerationType DEF UpdateRunState, HandlerPhases
  <1>5. ASSUME NEW ok \in BOOLEAN, FinalizeUserMessage(ok)
        PROVE  TypeOK'
    <2>1. [run EXCEPT !.user = FALSE] \in RunType
      BY DEF RunType
    <2>2. run' \in RunType /\ faults' \in 0 .. MaxFaults
      BY <1>5, <2>1, WriteType DEF FinalizeUserMessage
    <2>3. QED
      BY <1>5, <2>2 DEF FinalizeUserMessage, HandlerPhases
  <1>6. ASSUME NEW ok \in BOOLEAN, PersistRun(ok)
        PROVE  TypeOK'
    BY <1>6, UpdateRunModerationType DEF PersistRun, HandlerPhases
  <1>7. ASSUME NEW s \in Surface, StartTask(s)
        PROVE  TypeOK'
    BY <1>7 DEF StartTask, Enqueueing, TaskPhases
  <1>8. ASSUME NEW s \in Surface, SurfaceFails(s)
        PROVE  TypeOK'
    BY <1>8 DEF SurfaceFails, Enqueueing, HandlerPhases, TaskPhases, Ended, CoordType
  <1>9. ASSUME MarkOutputsEnqueued
        PROVE  TypeOK'
    BY <1>9 DEF MarkOutputsEnqueued, HandlerPhases, CoordType
  <1>10. ASSUME WaitAll
        PROVE  TypeOK'
    BY <1>10, CoordFields DEF WaitAll, AllDone, HandlerPhases
  <1>11. ASSUME Settle
        PROVE  TypeOK'
    <2>1. coord' \in CoordType
      BY <1>11, CoordFields DEF Settle
    <2>2. coord.info \in Surface \cup {None}
      BY DEF CoordType
    <2>3. CASE coord.info # None
      BY <1>11, <2>1, <2>2, <2>3 DEF Settle, HandlerPhases, Verdicts
    <2>4. CASE coord.info = None
      BY <1>11, <2>1, <2>4 DEF Settle, HandlerPhases, Verdicts
    <2>5. QED
      BY <2>3, <2>4
  <1>12. ASSUME RegisterBlock
        PROVE  TypeOK'
    BY <1>12 DEF RegisterBlock, HandlerPhases
  <1>13. ASSUME RemoveBlock
        PROVE  TypeOK'
    BY <1>13 DEF RemoveBlock, HandlerPhases
  <1>14. ASSUME FinishModeration
        PROVE  TypeOK'
    BY <1>14 DEF FinishModeration, HandlerPhases, CoordType
  <1>15. ASSUME NEW s \in Surface, CheckPasses(s)
        PROVE  TypeOK'
    BY <1>15 DEF CheckPasses, TaskPhases, LatePhases, Ended
  <1>16. ASSUME NEW s \in Surface, CheckFails(s)
        PROVE  TypeOK'
    BY <1>16, CoordFields DEF CheckFails, TaskPhases, LatePhases, Ended
  <1>17. ASSUME NEW s \in Surface, NEW ok \in BOOLEAN, RecordHit(s, ok)
        PROVE  TypeOK'
    BY <1>17 DEF RecordHit, Call, TaskPhases, LatePhases, Ended
  <1>18. ASSUME NEW s \in Surface, ReportHit(s)
        PROVE  TypeOK'
    <2> DEFINE late == coord.settled /\ (~coord.blockHandled \/ Preferred(s))
               first == ~coord.settled /\ (coord.info = None \/ Preferred(s))
               info == IF late \/ first THEN s ELSE coord.info
               handled == coord.blockHandled \/ late
    <2>1. info \in Surface \cup {None}
      BY DEF CoordType
    <2>2. handled \in BOOLEAN
      OBVIOUS
    <2>3. coord' = [coord EXCEPT !.info = info, !.blockHandled = handled]
      BY <1>18 DEF ReportHit
    <2> HIDE DEF info, handled
    <2>4. coord' \in CoordType
      BY <2>1, <2>2, <2>3, CoordFields
    <2>5. QED
      BY <1>18, <2>4 DEF ReportHit, TaskPhases, LatePhases, Ended
  <1>19. ASSUME NEW s \in Surface, NEW ok \in BOOLEAN, ApplyLateBlock(s, ok)
        PROVE  TypeOK'
    BY <1>19, ApplyRunBlockType DEF ApplyLateBlock, TaskPhases, LatePhases, Ended
  <1>20. ASSUME NEW s \in Surface, RegisterLateBlock(s)
        PROVE  TypeOK'
    BY <1>20 DEF RegisterLateBlock, TaskPhases, LatePhases, Ended
  <1>21. ASSUME NEW s \in Surface, NEW ok \in BOOLEAN, MarkLateBlock(s, ok)
        PROVE  TypeOK'
    BY <1>21, UpdateRunModerationType DEF MarkLateBlock, TaskPhases, LatePhases, Ended
  <1>22. ASSUME NEW s \in Surface, RemoveLateBlock(s)
        PROVE  TypeOK'
    BY <1>22 DEF RemoveLateBlock, TaskPhases, LatePhases, Ended
  <1>23. ASSUME SnapshotPendingBlock
        PROVE  TypeOK'
    BY <1>23 DEF SnapshotPendingBlock, RecoveryPhases
  <1>24. ASSUME NEW ok \in BOOLEAN, RetryPendingBlock(ok)
        PROVE  TypeOK'
    BY <1>24, ApplyRunBlockType DEF RetryPendingBlock, RecoveryPhases
  <1>25. ASSUME RemoveRecovered
        PROVE  TypeOK'
    BY <1>25 DEF RemoveRecovered, RecoveryPhases
  <1>26. ASSUME ListStaleModeratingRuns
        PROVE  TypeOK'
    BY <1>26 DEF ListStaleModeratingRuns, RecoveryPhases
  <1>27. ASSUME SkipLiveRun
        PROVE  TypeOK'
    BY <1>27 DEF SkipLiveRun, RecoveryPhases
  <1>28. ASSUME NEW ok \in BOOLEAN, LookUpHit(ok)
        PROVE  TypeOK'
    BY <1>28 DEF LookUpHit, Call, RecoveryPhases
  <1>29. ASSUME NEW ok \in BOOLEAN, BlockKnownHit(ok)
        PROVE  TypeOK'
    BY <1>29, ApplyRunBlockType DEF BlockKnownHit, RecoveryPhases
  <1>30. ASSUME RegisterKnownHit
        PROVE  TypeOK'
    BY <1>30 DEF RegisterKnownHit, RecoveryPhases
  <1>31. ASSUME NEW ok \in BOOLEAN, FailOpen(ok)
        PROVE  TypeOK'
    BY <1>31, UpdateRunModerationType DEF FailOpen, RecoveryPhases
  <1>32. ASSUME Age
        PROVE  TypeOK'
    BY <1>32 DEF Age, RecoveryPhases, RunType
  <1>33. ASSUME Crash
        PROVE  TypeOK'
    BY <1>33 DEF Crash, NewCoord, RecoveryPhases, TaskPhases, LatePhases, Ended,
       HandlerPhases, CoordType
  <1>34. CASE UNCHANGED vars
    BY <1>34 DEF vars
  <1>35. QED
    BY <1>1, <1>2, <1>3, <1>4, <1>5, <1>6, <1>7, <1>8, <1>9, <1>10, <1>11, <1>12,
       <1>13, <1>14, <1>15, <1>16, <1>17, <1>18, <1>19, <1>20, <1>21, <1>22, <1>23,
       <1>24, <1>25, <1>26, <1>27, <1>28, <1>29, <1>30, <1>31, <1>32, <1>33, <1>34
       DEF Next, HandlerNext, WorkerNext, RetryNext, StaleNext

LEMMA InitTypes == Init => TypeOK
  BY BoundsAssumption DEF Init, TypeOK, RunType, CoordType, NewCoord, TaskPhases,
     HandlerPhases,
     RecoveryPhases, Verdicts

\* TypeOK is an invariant: what the two goroutines that apply blocks carry is
\* always a surface.
THEOREM TypeCorrect == Spec => []TypeOK
  BY InitTypes, TypesKept, PTL DEF Spec

-----------------------------------------------------------------------------
\* The two writes, as far as the verdict and the withdrawal are concerned.
LEMMA UpdateRunModerationEffect ==
    ASSUME TypeOK, NEW state, NEW ok \in BOOLEAN, UpdateRunModeration(state, ok)
    PROVE  run'.state \in {run.state, state} /\ run'.withdrawn = run.withdrawn
  BY DEF TypeOK, RunType, UpdateRunModeration, Write

LEMMA ApplyRunBlockEffect ==
    ASSUME TypeOK, NEW s, NEW ok \in BOOLEAN, ApplyRunBlock(s, ok)
    PROVE  /\ run'.state \in {run.state, "blocked"}
           /\ run.withdrawn \/ ok => run'.withdrawn
  BY DEF ApplyRunBlock, Write

\* The recovery loop and the clock leave the run's goroutines alone, pass
\* nothing, and give nothing back.
LEMMA RecoveryEffect ==
    ASSUME TypeOK, RetryNext \/ StaleNext \/ Age
    PROVE  /\ UNCHANGED <<coord, task, handler>>
           /\ run'.state \in {run.state, "blocked", "failed_open"}
           /\ run.withdrawn => run'.withdrawn
  <1>1. CASE SnapshotPendingBlock \/ RemoveRecovered
    BY <1>1 DEF SnapshotPendingBlock, RemoveRecovered
  <1>2. CASE ListStaleModeratingRuns \/ SkipLiveRun \/ RegisterKnownHit
    BY <1>2 DEF ListStaleModeratingRuns, SkipLiveRun, RegisterKnownHit
  <1>3. ASSUME NEW ok \in BOOLEAN, RetryPendingBlock(ok) \/ BlockKnownHit(ok)
        PROVE  /\ UNCHANGED <<coord, task, handler>>
               /\ run'.state \in {run.state, "blocked", "failed_open"}
               /\ run.withdrawn => run'.withdrawn
    BY <1>3, ApplyRunBlockEffect DEF RetryPendingBlock, BlockKnownHit
  <1>4. ASSUME NEW ok \in BOOLEAN, LookUpHit(ok) \/ FailOpen(ok)
        PROVE  /\ UNCHANGED <<coord, task, handler>>
               /\ run'.state \in {run.state, "blocked", "failed_open"}
               /\ run.withdrawn => run'.withdrawn
    BY <1>4, UpdateRunModerationEffect DEF LookUpHit, FailOpen
  <1>5. CASE Age
    BY <1>5 DEF Age, TypeOK, RunType
  <1>6. QED
    BY <1>1, <1>2, <1>3, <1>4, <1>5 DEF RetryNext, StaleNext

-----------------------------------------------------------------------------
\* Until the barrier every check that found something, or could not be made,
\* shows in the coordinator; the verdict passed is given when none does and all
\* have reported; and after the barrier no check starts.
LEMMA CheckKept ==
    ASSUME TypeOK, CheckInv, [Next]_vars
    PROVE  CheckInv'
  <1> USE DEF CheckInv, NothingStarted, NothingHidden, WaitedForAll, VerdictIsRight,
         PassedMeansChecked, AllChecked, Shown, HandlerGoto, TaskGoto
  <1>1. ASSUME NEW configured \in BOOLEAN, NEW ok \in BOOLEAN, BeginRun(configured, ok)
        PROVE  CheckInv'
    BY <1>1, UpdateRunModerationEffect DEF BeginRun, BeforeBarrier, Blocking,
       AfterBarrier, NewCoord
  <1>2. ASSUME NEW ok \in BOOLEAN, AfterGeneration(ok)
        PROVE  CheckInv'
    BY <1>2, UpdateRunModerationEffect DEF AfterGeneration, BeforeBarrier, Blocking,
       AfterBarrier
  <1>3. ASSUME NEW ok \in BOOLEAN, ApplyBlock(ok)
        PROVE  CheckInv'
    BY <1>3, ApplyRunBlockEffect DEF ApplyBlock, BeforeBarrier, Blocking, AfterBarrier
  <1>4. ASSUME NEW ok \in BOOLEAN, UpdateRunState(ok)
        PROVE  CheckInv'
    BY <1>4, UpdateRunModerationEffect DEF UpdateRunState, BeforeBarrier, Blocking,
       AfterBarrier
  <1>5. ASSUME NEW ok \in BOOLEAN, FinalizeUserMessage(ok)
        PROVE  CheckInv'
    BY <1>5 DEF FinalizeUserMessage, BeforeBarrier, Blocking, AfterBarrier, Write,
       TypeOK, RunType
  <1>6. ASSUME NEW ok \in BOOLEAN, PersistRun(ok)
        PROVE  CheckInv'
    BY <1>6, UpdateRunModerationEffect DEF PersistRun, BeforeBarrier, Blocking,
       AfterBarrier
  <1>7. ASSUME NEW s \in Surface, StartTask(s)
        PROVE  CheckInv'
    BY <1>7 DEF StartTask, Enqueueing, BeforeBarrier, Blocking, AfterBarrier, TypeOK
  <1>8. ASSUME NEW s \in Surface, SurfaceFails(s)
        PROVE  CheckInv'
    BY <1>8 DEF SurfaceFails, Enqueueing, BeforeBarrier, Blocking, AfterBarrier, TypeOK,
       CoordType
  <1>9. ASSUME MarkOutputsEnqueued
        PROVE  CheckInv'
    BY <1>9 DEF MarkOutputsEnqueued, BeforeBarrier, Blocking, AfterBarrier, TypeOK,
       CoordType
  <1>10. ASSUME WaitAll
        PROVE  CheckInv'
    <2>1. /\ UNCHANGED <<run, task>> /\ handler.phase = "waiting"
          /\ handler'.phase = "settling" /\ handler'.verdict = handler.verdict
      BY <1>10 DEF WaitAll, TypeOK
    <2>2. coord'.info = coord.info /\ coord'.settled = coord.settled
          /\ (coord.failedOpen => coord'.failedOpen)
      BY <1>10 DEF WaitAll, TypeOK, CoordType
    <2>3. CASE AllDone
      <3>1. coord.failedOpen \/ coord.info # None \/ AllChecked
        BY <2>1, <2>3 DEF AllDone, BeforeBarrier
      <3>2. QED
        BY <2>1, <2>2, <3>1 DEF BeforeBarrier, Blocking, AfterBarrier
    <2>4. CASE ~AllDone
      <3>1. coord'.failedOpen \/ coord'.info # None
        BY <1>10, <2>4 DEF WaitAll, TypeOK, CoordType
      <3>2. QED
        BY <2>1, <2>2, <3>1 DEF BeforeBarrier, Blocking, AfterBarrier
    <2>5. QED
      BY <2>3, <2>4
  <1>11. ASSUME Settle
        PROVE  CheckInv'
    BY <1>11 DEF Settle, BeforeBarrier, Blocking, AfterBarrier, TypeOK, CoordType
  <1>12. ASSUME RegisterBlock
        PROVE  CheckInv'
    BY <1>12 DEF RegisterBlock, BeforeBarrier, Blocking, AfterBarrier
  <1>13. ASSUME RemoveBlock
        PROVE  CheckInv'
    BY <1>13 DEF RemoveBlock, BeforeBarrier, Blocking, AfterBarrier
  <1>14. ASSUME FinishModeration
        PROVE  CheckInv'
    BY <1>14 DEF FinishModeration, BeforeBarrier, Blocking, AfterBarrier, TypeOK,
       CoordType
  <1>15. ASSUME NEW s \in Surface, CheckPasses(s)
        PROVE  CheckInv'
    BY <1>15 DEF CheckPasses, BeforeBarrier, Blocking, AfterBarrier
  <1>16. ASSUME NEW s \in Surface, CheckFails(s)
        PROVE  CheckInv'
    BY <1>16 DEF CheckFails, BeforeBarrier, Blocking, AfterBarrier, TypeOK, CoordType
  <1>17. ASSUME NEW s \in Surface, NEW ok \in BOOLEAN, RecordHit(s, ok)
        PROVE  CheckInv'
    BY <1>17 DEF RecordHit, BeforeBarrier, Blocking, AfterBarrier
  <1>18. ASSUME NEW s \in Surface, ReportHit(s)
        PROVE  CheckInv'
    <2>1. /\ UNCHANGED <<run, handler>> /\ task[s] = "found" /\ s # None
          /\ task' = [task EXCEPT ![s] = task'[s]] /\ task'[s] \in {"late", "hit"}
          /\ coord'.failedOpen = coord.failedOpen /\ coord'.settled = coord.settled
      BY <1>18, NoneAssumption DEF ReportHit, TypeOK, CoordType
    <2>2. coord.info # None => coord'.info # None
      BY <1>18, <2>1 DEF ReportHit, TypeOK, CoordType
    <2>3. ~AllChecked /\ handler.phase # "idle" /\ run.state # "passed"
      BY <2>1
    <2>4. ~coord.settled => task'[s] = "hit" /\ coord'.info # None
      BY <1>18, <2>1 DEF ReportHit, TypeOK, CoordType
    <2>5. BeforeBarrier => NothingHidden'
      BY <2>1, <2>2, <2>4 DEF BeforeBarrier, TypeOK
    <2>6. QED
      BY <2>1, <2>2, <2>3, <2>5 DEF BeforeBarrier, Blocking, AfterBarrier
  <1>19. ASSUME NEW s \in Surface, NEW ok \in BOOLEAN, ApplyLateBlock(s, ok)
        PROVE  CheckInv'
    BY <1>19, ApplyRunBlockEffect DEF ApplyLateBlock, BeforeBarrier, Blocking,
       AfterBarrier
  <1>20. ASSUME NEW s \in Surface, RegisterLateBlock(s)
        PROVE  CheckInv'
    BY <1>20 DEF RegisterLateBlock, BeforeBarrier, Blocking, AfterBarrier
  <1>21. ASSUME NEW s \in Surface, NEW ok \in BOOLEAN, MarkLateBlock(s, ok)
        PROVE  CheckInv'
    BY <1>21, UpdateRunModerationEffect DEF MarkLateBlock, BeforeBarrier, Blocking,
       AfterBarrier
  <1>22. ASSUME NEW s \in Surface, RemoveLateBlock(s)
        PROVE  CheckInv'
    BY <1>22 DEF RemoveLateBlock, BeforeBarrier, Blocking, AfterBarrier
  <1>23. CASE RetryNext \/ StaleNext \/ Age
    BY <1>23, RecoveryEffect DEF BeforeBarrier, Blocking, AfterBarrier
  <1>24. CASE Crash
    BY <1>24 DEF Crash, Ended, BeforeBarrier, Blocking, AfterBarrier
  <1>25. CASE UNCHANGED vars
    BY <1>25 DEF vars, BeforeBarrier, Blocking, AfterBarrier
  <1>26. QED
    BY <1>1, <1>2, <1>3, <1>4, <1>5, <1>6, <1>7, <1>8, <1>9, <1>10, <1>11, <1>12,
       <1>13, <1>14, <1>15, <1>16, <1>17, <1>18, <1>19, <1>20, <1>21, <1>22, <1>23,
       <1>24, <1>25
       DEF Next, HandlerNext, WorkerNext

LEMMA InitChecks == Init => CheckInv
  BY DEF Init, CheckInv, NothingStarted, NothingHidden, WaitedForAll, VerdictIsRight,
     PassedMeansChecked, BeforeBarrier, Blocking, AfterBarrier

\* PassedMeansChecked is an invariant.
THEOREM PassedRunsWereChecked == Spec => []PassedMeansChecked
  <1>1. Init => TypeOK /\ CheckInv
    BY InitTypes, InitChecks
  <1>2. TypeOK /\ CheckInv /\ [Next]_vars => (TypeOK /\ CheckInv)'
    BY TypesKept, CheckKept
  <1>3. TypeOK /\ CheckInv => PassedMeansChecked
    BY DEF CheckInv
  <1>4. QED
    BY <1>1, <1>2, <1>3, PTL DEF Spec

-----------------------------------------------------------------------------
\* From the barrier on, a hit in the coordinator is covered: whoever takes it off
\* the list of those who will withdraw the answer puts another there, or has
\* withdrawn it.
LEMMA HitKept ==
    ASSUME TypeOK, CheckInv, HitInv, [Next]_vars
    PROVE  HitInv'
  <1> USE DEF HitInv, SettledAfterBarrier, HitsAreCovered, RemovedWhenWithdrawn, Covered,
         Hits, LatePhases, HandlerGoto, TaskGoto
  <1>1. ASSUME NEW configured \in BOOLEAN, NEW ok \in BOOLEAN, BeginRun(configured, ok)
        PROVE  HitInv'
    BY <1>1, UpdateRunModerationEffect DEF BeginRun, Blocking, AfterBarrier, TypeOK,
       NewCoord
  <1>2. ASSUME NEW ok \in BOOLEAN, AfterGeneration(ok)
        PROVE  HitInv'
    BY <1>2, UpdateRunModerationEffect DEF AfterGeneration, Blocking, AfterBarrier,
       TypeOK
  <1>3. ASSUME NEW ok \in BOOLEAN, ApplyBlock(ok)
        PROVE  HitInv'
    BY <1>3, ApplyRunBlockEffect DEF ApplyBlock, Blocking, AfterBarrier, TypeOK
  <1>4. ASSUME NEW ok \in BOOLEAN, UpdateRunState(ok)
        PROVE  HitInv'
    BY <1>4, UpdateRunModerationEffect DEF UpdateRunState, Blocking, AfterBarrier,
       TypeOK
  <1>5. ASSUME NEW ok \in BOOLEAN, FinalizeUserMessage(ok)
        PROVE  HitInv'
    BY <1>5 DEF FinalizeUserMessage, Blocking, AfterBarrier, Write, TypeOK, RunType
  <1>6. ASSUME NEW ok \in BOOLEAN, PersistRun(ok)
        PROVE  HitInv'
    BY <1>6, UpdateRunModerationEffect DEF PersistRun, Blocking, AfterBarrier, TypeOK
  <1>7. ASSUME NEW s \in Surface, StartTask(s)
        PROVE  HitInv'
    BY <1>7 DEF StartTask, Enqueueing, Blocking, AfterBarrier, TypeOK
  <1>8. ASSUME NEW s \in Surface, SurfaceFails(s)
        PROVE  HitInv'
    BY <1>8 DEF SurfaceFails, Enqueueing, Blocking, AfterBarrier, TypeOK, CoordType
  <1>9. ASSUME MarkOutputsEnqueued
        PROVE  HitInv'
    BY <1>9 DEF MarkOutputsEnqueued, Blocking, AfterBarrier, TypeOK, CoordType
  <1>10. ASSUME WaitAll
        PROVE  HitInv'
    BY <1>10 DEF WaitAll, AllDone, Blocking, AfterBarrier, TypeOK, CoordType
  <1>11. ASSUME Settle
        PROVE  HitInv'
    <2>1. /\ UNCHANGED <<run, task, recovery>>
          /\ coord'.settled /\ (coord'.blockHandled => coord.info # None)
          /\ handler'.phase = IF coord.info # None THEN "blocking" ELSE "updating"
      BY <1>11 DEF Settle, TypeOK, CoordType
    <2>2. coord.info = None => Hits = {}
      BY <1>11 DEF Settle, CheckInv, NothingHidden, BeforeBarrier, Shown
    <2>3. HitsAreCovered'
      BY <2>1, <2>2
    <2>4. QED
      BY <2>1, <2>3
  <1>12. ASSUME RegisterBlock
        PROVE  HitInv'
    BY <1>12 DEF RegisterBlock, Blocking, AfterBarrier, TypeOK
  <1>13. ASSUME RemoveBlock
        PROVE  HitInv'
    BY <1>13 DEF RemoveBlock, Blocking, AfterBarrier, TypeOK
  <1>14. ASSUME FinishModeration
        PROVE  HitInv'
    BY <1>14 DEF FinishModeration, Blocking, AfterBarrier, TypeOK, CoordType
  <1>15. ASSUME NEW s \in Surface, CheckPasses(s)
        PROVE  HitInv'
    BY <1>15 DEF CheckPasses, Blocking, AfterBarrier, TypeOK
  <1>16. ASSUME NEW s \in Surface, CheckFails(s)
        PROVE  HitInv'
    BY <1>16 DEF CheckFails, Blocking, AfterBarrier, TypeOK, CoordType
  <1>17. ASSUME NEW s \in Surface, NEW ok \in BOOLEAN, RecordHit(s, ok)
        PROVE  HitInv'
    BY <1>17 DEF RecordHit, Blocking, AfterBarrier, TypeOK
  <1>18. ASSUME NEW s \in Surface, ReportHit(s)
        PROVE  HitInv'
    BY <1>18 DEF ReportHit, Preferred, Blocking, AfterBarrier, TypeOK, CoordType
  <1>19. ASSUME NEW s \in Surface, NEW ok \in BOOLEAN, ApplyLateBlock(s, ok)
        PROVE  HitInv'
    BY <1>19, ApplyRunBlockEffect DEF ApplyLateBlock, Blocking, AfterBarrier, TypeOK
  <1>20. ASSUME NEW s \in Surface, RegisterLateBlock(s)
        PROVE  HitInv'
    BY <1>20, NoneAssumption DEF RegisterLateBlock, Blocking, AfterBarrier, TypeOK
  <1>21. ASSUME NEW s \in Surface, NEW ok \in BOOLEAN, MarkLateBlock(s, ok)
        PROVE  HitInv'
    BY <1>21, UpdateRunModerationEffect DEF MarkLateBlock, Blocking, AfterBarrier,
       TypeOK
  <1>22. ASSUME NEW s \in Surface, RemoveLateBlock(s)
        PROVE  HitInv'
    BY <1>22 DEF RemoveLateBlock, Blocking, AfterBarrier, TypeOK
  <1>23. CASE RetryNext \/ StaleNext \/ Age
    <2>1. /\ UNCHANGED <<coord, task, handler>>
          /\ run.withdrawn => run'.withdrawn
      BY <1>23, RecoveryEffect
    <2>2. pendingBlock # None => pendingBlock' # None \/ run'.withdrawn
      <3>1. CASE RemoveRecovered
        BY <3>1, <2>1 DEF RemoveRecovered
      <3>2. CASE RegisterKnownHit
        BY <3>2 DEF RegisterKnownHit, TypeOK
      <3>3. CASE RetryNext /\ ~RemoveRecovered
        BY <3>3 DEF RetryNext, SnapshotPendingBlock, RetryPendingBlock
      <3>4. CASE StaleNext /\ ~RegisterKnownHit
        BY <3>4 DEF StaleNext, ListStaleModeratingRuns, SkipLiveRun, LookUpHit,
           BlockKnownHit, FailOpen
      <3>5. CASE Age
        BY <3>5 DEF Age
      <3>6. QED
        BY <1>23, <3>1, <3>2, <3>3, <3>4, <3>5
    <2>3. recovery'.phase = "removing" => run'.withdrawn
      <3>1. ASSUME NEW ok \in BOOLEAN, RetryPendingBlock(ok) \/ BlockKnownHit(ok)
            PROVE  recovery'.phase = "removing" => run'.withdrawn
        BY <3>1, ApplyRunBlockEffect DEF RetryPendingBlock, BlockKnownHit, RecoveryGoto
      <3>2. CASE RetryNext /\ ~(\E ok \in BOOLEAN : RetryPendingBlock(ok))
        BY <3>2 DEF RetryNext, SnapshotPendingBlock, RemoveRecovered, RecoveryGoto
      <3>3. CASE StaleNext /\ ~(\E ok \in BOOLEAN : BlockKnownHit(ok))
        BY <3>3 DEF StaleNext, ListStaleModeratingRuns, SkipLiveRun, LookUpHit,
           RegisterKnownHit,
           FailOpen, RecoveryGoto
      <3>4. CASE Age
        BY <3>4, <2>1 DEF Age
      <3>5. QED
        BY <1>23, <3>1, <3>2, <3>3, <3>4
    <2>4. QED
      BY <2>1, <2>2, <2>3 DEF Blocking, AfterBarrier
  <1>24. CASE Crash
    BY <1>24 DEF Crash, NewCoord, Ended, Blocking, AfterBarrier, RecoveryGoto, TypeOK
  <1>25. CASE UNCHANGED vars
    BY <1>25 DEF vars, Blocking, AfterBarrier
  <1>26. QED
    BY <1>1, <1>2, <1>3, <1>4, <1>5, <1>6, <1>7, <1>8, <1>9, <1>10, <1>11, <1>12,
       <1>13, <1>14, <1>15, <1>16, <1>17, <1>18, <1>19, <1>20, <1>21, <1>22, <1>23,
       <1>24, <1>25
       DEF Next, HandlerNext, WorkerNext

\* NoHitForgotten is an invariant.
THEOREM HitsAreNotForgotten == Spec => []NoHitForgotten
  <1>1. Init => TypeOK /\ CheckInv /\ HitInv
    <2>1. Init => HitInv
      BY DEF Init, NewCoord, HitInv, SettledAfterBarrier, HitsAreCovered,
         RemovedWhenWithdrawn, Blocking, AfterBarrier
    <2>2. QED
      BY <2>1, InitTypes, InitChecks
  <1>2. TypeOK /\ CheckInv /\ HitInv /\ [Next]_vars => (TypeOK /\ CheckInv /\ HitInv)'
    BY TypesKept, CheckKept, HitKept
  <1>3. TypeOK /\ CheckInv /\ HitInv => NoHitForgotten
    <2> SUFFICES ASSUME TypeOK, CheckInv, HitInv, Hits # {}, handler.phase # "lost", coord.settled
                 PROVE  Covered
      BY DEF NoHitForgotten, Covered
    <2> QED
      BY DEF HitInv, HitsAreCovered
  <1>4. QED
    BY <1>1, <1>2, <1>3, PTL DEF Spec
=============================================================================
