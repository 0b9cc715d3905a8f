------------------------- MODULE ContentModeration -------------------------
(***************************************************************************)
(* The content moderation of one chat run: checks of the user's input and  *)
(* of the model's output run in worker goroutines while the request goes   *)
(* on; the barrier after the generation waits for them, for a while; hits  *)
(* that come later, and hits whose withdrawal failed, are compensated; and *)
(* a recovery loop ends what a dead process left behind.                   *)
(*                                                                         *)
(* The database outlives the process. The coordinator, the tasks, the      *)
(* pending blocks, the handler and the recovery loop do not.               *)
(***************************************************************************)
EXTENDS Naturals

CONSTANTS
    Surface,       \* what is checked: a text, an image
    Input,         \* the surfaces of the user's message
    MaxFaults,     \* bound: failed database calls in a behaviour
    MaxCrashes,    \* bound: deaths of the process
    None

ASSUME InputAssumption == Input \subseteq Surface
ASSUME BoundsAssumption == MaxFaults \in Nat /\ MaxCrashes \in Nat
ASSUME NoneAssumption == None \notin Surface

VARIABLES
    run,           \* the rows of the run: its state, its two messages
    lastHit,       \* the surface of the run's latest recorded hit
    coord,         \* the run's RunCoordinator
    task,          \* what became of each check
    handler,       \* the request's goroutine
    pendingBlock,  \* Service.pendingBlocks, the entry of this run
    recovery,      \* cleanupLoop
    faults, crashes

vars == <<run, lastHit, coord, task, handler, pendingBlock, recovery, faults, crashes>>

-----------------------------------------------------------------------------
Open == {"pending", "moderating"}
Verdicts == {"passed", "failed_open", "blocked"}

\* user: the user message has status blocked; withdrawn: the assistant's text,
\* attachments and traces are gone; stale: updated_at is two minutes ago.
RunType == [state : {"not_required"} \cup Open \cup Verdicts,
            user : BOOLEAN, withdrawn : BOOLEAN, stale : BOOLEAN]

\* live: registered in Service.coordinators; info: blockInfo, None while not
\* blocked; outputs: outputEnqueued.
CoordType == [live : BOOLEAN, info : Surface \cup {None}, failedOpen : BOOLEAN,
              outputs : BOOLEAN, settled : BOOLEAN, blockHandled : BOOLEAN]

\* found: a hit not yet reported; late, registering, marking, removing: the
\* calls of handleLateBlock; lost: the process died first.
Ended == {"passed", "failed", "hit", "lost"}
LatePhases == {"late", "registering", "marking", "removing"}
TaskPhases == {"none", "queued", "found"} \cup LatePhases \cup Ended

HandlerPhases == {"idle", "generating", "enqueueing", "waiting", "settling", "blocking",
                  "registering", "removing", "updating", "finishing", "finalizing",
                  "persisting", "done", "lost"}
RecoveryPhases == {"idle", "retrying", "listed", "lookup", "blocking", "registering",
                   "removing", "failing"}

NewCoord == [live |-> FALSE, info |-> None, failedOpen |-> FALSE,
             outputs |-> FALSE, settled |-> FALSE, blockHandled |-> FALSE]

Init ==
    /\ run = [state |-> "not_required", user |-> FALSE, withdrawn |-> FALSE, stale |-> FALSE]
    /\ lastHit = None
    /\ coord = NewCoord
    /\ task = [s \in Surface |-> "none"]
    /\ handler = [phase |-> "idle", info |-> None, verdict |-> "passed"]
    /\ pendingBlock = None
    /\ recovery = [phase |-> "idle", info |-> None]
    /\ faults = 0
    /\ crashes = 0

-----------------------------------------------------------------------------
\* A database call fails, or goes through.
Call(ok) ==
    /\ ok \/ faults < MaxFaults
    /\ faults' = IF ok THEN faults ELSE faults + 1

\* A write of the run's rows; one that reports an error may have committed.
Write(rows, ok) ==
    /\ Call(ok)
    /\ run' \in IF ok THEN {rows} ELSE {rows, run}

UpdateRunModeration(state, ok) ==
    Write([run EXCEPT !.state = state, !.stale = FALSE], ok)

\* One transaction: the assistant's message always, the user's for an input hit.
ApplyRunBlock(s, ok) ==
    Write([state |-> "blocked", user |-> run.user \/ s \in Input,
           withdrawn |-> TRUE, stale |-> FALSE], ok)

HandlerGoto(phase) == handler' = [handler EXCEPT !.phase = phase]
TaskGoto(s, phase) == task' = [task EXCEPT ![s] = phase]

\* preferBlockDirection: an input hit takes precedence over an output hit.
Preferred(s) == s \in Input /\ coord.info \notin Input

-----------------------------------------------------------------------------
\* The handler, up to the barrier.

\* startModerationRun. Without its configuration nothing can be checked, and
\* the run must not look as if it had been: no check ever starts.
BeginRun(configured, ok) ==
    /\ handler.phase = "idle"
    /\ HandlerGoto("generating")
    /\ coord' = [NewCoord EXCEPT !.live = TRUE, !.failedOpen = ~configured]
    /\ IF configured
       THEN UpdateRunModeration("pending", ok) /\ UNCHANGED task
       ELSE /\ ok
            /\ task' = [s \in Surface |-> "failed"]
            /\ UNCHANGED <<run, faults>>
    /\ UNCHANGED <<lastHit, pendingBlock, recovery, crashes>>

Enqueueing(s) ==
    /\ handler.phase = IF s \in Input THEN "generating" ELSE "enqueueing"
    /\ task[s] = "none"

StartTask(s) ==
    /\ Enqueueing(s)
    /\ TaskGoto(s, "queued")
    /\ UNCHANGED <<run, lastHit, coord, handler, pendingBlock, recovery, faults, crashes>>

\* The queue is full, or an image cannot be loaded (recordSurfaceFailure).
SurfaceFails(s) ==
    /\ Enqueueing(s)
    /\ TaskGoto(s, "failed")
    /\ coord' = [coord EXCEPT !.failedOpen = TRUE]
    /\ UNCHANGED <<run, lastHit, handler, pendingBlock, recovery, faults, crashes>>

AfterGeneration(ok) ==
    /\ handler.phase = "generating"
    /\ UpdateRunModeration("moderating", ok)
    /\ HandlerGoto("enqueueing")
    /\ UNCHANGED <<lastHit, coord, task, pendingBlock, recovery, crashes>>

\* Also WaitInputOnly, when there is no output to check.
MarkOutputsEnqueued ==
    /\ handler.phase \in {"generating", "enqueueing"}
    /\ coord' = [coord EXCEPT !.outputs = TRUE]
    /\ HandlerGoto("waiting")
    /\ UNCHANGED <<run, lastHit, task, pendingBlock, recovery, faults, crashes>>

AllDone == coord.outputs /\ \A s \in Surface : task[s] \notin {"queued", "found"}

\* Mutant: the deadline passes and nothing is noted.
MutWaitAll ==
    /\ handler.phase = "waiting"
    /\ HandlerGoto("settling")
    /\ UNCHANGED <<run, lastHit, coord, task, pendingBlock, recovery, faults, crashes>>

\* waitAll: every check reported, or the deadline passed.
WaitAll ==
    /\ handler.phase = "waiting"
    /\ \/ AllDone /\ UNCHANGED coord
       \/ coord' = [coord EXCEPT !.failedOpen = @ \/ coord.info = None]
    /\ HandlerGoto("settling")
    /\ UNCHANGED <<run, lastHit, task, pendingBlock, recovery, faults, crashes>>

Settle ==
    /\ handler.phase = "settling"
    /\ coord' = [coord EXCEPT !.settled = TRUE, !.blockHandled = coord.info # None]
    /\ handler' = IF coord.info # None
                  THEN [phase |-> "blocking", info |-> coord.info, verdict |-> "blocked"]
                  ELSE [phase |-> "updating", info |-> None,
                        verdict |-> IF coord.failedOpen THEN "failed_open" ELSE "passed"]
    /\ UNCHANGED <<run, lastHit, task, pendingBlock, recovery, faults, crashes>>

-----------------------------------------------------------------------------
\* The handler, after the barrier.

ApplyBlock(ok) ==
    /\ handler.phase = "blocking"
    /\ ApplyRunBlock(handler.info, ok)
    /\ HandlerGoto(IF ok THEN "removing" ELSE "registering")
    /\ UNCHANGED <<lastHit, coord, task, pendingBlock, recovery, crashes>>

RegisterBlock ==
    /\ handler.phase = "registering"
    /\ pendingBlock' = handler.info
    /\ HandlerGoto("finishing")
    /\ UNCHANGED <<run, lastHit, coord, task, recovery, faults, crashes>>

RemoveBlock ==
    /\ handler.phase = "removing"
    /\ pendingBlock' = None
    /\ HandlerGoto("finishing")
    /\ UNCHANGED <<run, lastHit, coord, task, recovery, faults, crashes>>

UpdateRunState(ok) ==
    /\ handler.phase = "updating"
    /\ UpdateRunModeration(handler.verdict, ok)
    /\ HandlerGoto("finishing")
    /\ UNCHANGED <<lastHit, coord, task, pendingBlock, recovery, crashes>>

FinishModeration ==
    /\ handler.phase = "finishing"
    /\ coord' = [coord EXCEPT !.live = FALSE]
    /\ HandlerGoto("finalizing")
    /\ UNCHANGED <<run, lastHit, task, pendingBlock, recovery, faults, crashes>>

\* The user message is the run's own. Its status becomes success or error, unless the verdict is blocked.
FinalizeUserMessage(ok) ==
    /\ handler.phase = "finalizing"
    /\ IF handler.verdict = "blocked"
       THEN ok /\ UNCHANGED <<run, faults>>
       ELSE Write([run EXCEPT !.user = FALSE], ok)
    /\ HandlerGoto("persisting")
    /\ UNCHANGED <<lastHit, coord, task, pendingBlock, recovery, crashes>>

\* UpdateConversationRun writes the verdict along with the run's other columns.
PersistRun(ok) ==
    /\ handler.phase = "persisting"
    /\ UpdateRunModeration(handler.verdict, ok)
    /\ HandlerGoto("done")
    /\ UNCHANGED <<lastHit, coord, task, pendingBlock, recovery, crashes>>

-----------------------------------------------------------------------------
\* The workers.

CheckPasses(s) ==
    /\ task[s] = "queued"
    /\ TaskGoto(s, "passed")
    /\ UNCHANGED <<run, lastHit, coord, handler, pendingBlock, recovery, faults, crashes>>

CheckFails(s) ==
    /\ task[s] = "queued"
    /\ TaskGoto(s, "failed")
    /\ coord' = [coord EXCEPT !.failedOpen = @ \/ ~coord.settled]
    /\ UNCHANGED <<run, lastHit, handler, pendingBlock, recovery, faults, crashes>>

\* The hit's event is written first. It is reported even if that failed.
RecordHit(s, ok) ==
    /\ task[s] = "queued"
    /\ Call(ok)
    /\ lastHit' \in IF ok THEN {s} ELSE {s, lastHit}
    /\ TaskGoto(s, "found")
    /\ UNCHANGED <<run, coord, handler, pendingBlock, recovery, crashes>>

\* Mutant: a hit that comes after the barrier is dropped.
MutReportHit(s) ==
    /\ task[s] = "found"
    /\ TaskGoto(s, "hit")
    /\ coord' = [coord EXCEPT !.info = IF ~coord.settled /\ (@ = None \/ Preferred(s)) THEN s ELSE @]
    /\ UNCHANGED <<run, lastHit, handler, pendingBlock, recovery, faults, crashes>>

\* onTaskResult with a hit.
ReportHit(s) ==
    /\ task[s] = "found"
    /\ LET late == coord.settled /\ (~coord.blockHandled \/ Preferred(s))
           first == ~coord.settled /\ (coord.info = None \/ Preferred(s))
       IN  /\ TaskGoto(s, IF late THEN "late" ELSE "hit")
           /\ coord' = [coord EXCEPT !.info = IF late \/ first THEN s ELSE @,
                                     !.blockHandled = @ \/ late]
    /\ UNCHANGED <<run, lastHit, handler, pendingBlock, recovery, faults, crashes>>

\* handleLateBlock.
ApplyLateBlock(s, ok) ==
    /\ task[s] = "late"
    /\ ApplyRunBlock(s, ok)
    /\ TaskGoto(s, IF ok THEN "removing" ELSE "registering")
    /\ UNCHANGED <<lastHit, coord, handler, pendingBlock, recovery, crashes>>

RegisterLateBlock(s) ==
    /\ task[s] = "registering"
    /\ pendingBlock' = s
    /\ TaskGoto(s, "marking")
    /\ UNCHANGED <<run, lastHit, coord, handler, recovery, faults, crashes>>

MarkLateBlock(s, ok) ==
    /\ task[s] = "marking"
    /\ UpdateRunModeration("moderating", ok)
    /\ TaskGoto(s, "hit")
    /\ UNCHANGED <<lastHit, coord, handler, pendingBlock, recovery, crashes>>

RemoveLateBlock(s) ==
    /\ task[s] = "removing"
    /\ pendingBlock' = None
    /\ TaskGoto(s, "hit")
    /\ UNCHANGED <<run, lastHit, coord, handler, recovery, faults, crashes>>

-----------------------------------------------------------------------------
\* The recovery loop: pending blocks first, then runs without a coordinator.

RecoveryGoto(phase, s) == recovery' = [phase |-> phase, info |-> s]

SnapshotPendingBlock ==
    /\ recovery.phase = "idle"
    /\ pendingBlock # None
    /\ RecoveryGoto("retrying", pendingBlock)
    /\ UNCHANGED <<run, lastHit, coord, task, handler, pendingBlock, faults, crashes>>

\* Mutant: the block is no longer pending, whether it was applied or not.
MutRetryPendingBlock(ok) ==
    /\ recovery.phase = "retrying"
    /\ ApplyRunBlock(recovery.info, ok)
    /\ RecoveryGoto("removing", None)
    /\ UNCHANGED <<lastHit, coord, task, handler, pendingBlock, crashes>>

RetryPendingBlock(ok) ==
    /\ recovery.phase = "retrying"
    /\ ApplyRunBlock(recovery.info, ok)
    /\ RecoveryGoto(IF ok THEN "removing" ELSE "idle", None)
    /\ UNCHANGED <<lastHit, coord, task, handler, pendingBlock, crashes>>

\* Mutant: only runs that reached the barrier are looked for.
MutListStaleModeratingRuns ==
    /\ recovery.phase = "idle"
    /\ run.state = "moderating"
    /\ run.stale
    /\ RecoveryGoto("listed", None)
    /\ UNCHANGED <<run, lastHit, coord, task, handler, pendingBlock, faults, crashes>>

ListStaleModeratingRuns ==
    /\ recovery.phase = "idle"
    /\ run.state \in Open
    /\ run.stale
    /\ RecoveryGoto("listed", None)
    /\ UNCHANGED <<run, lastHit, coord, task, handler, pendingBlock, faults, crashes>>

SkipLiveRun ==
    /\ recovery.phase = "listed"
    /\ RecoveryGoto(IF coord.live THEN "idle" ELSE "lookup", None)
    /\ UNCHANGED <<run, lastHit, coord, task, handler, pendingBlock, faults, crashes>>

\* Mutant: a failed lookup counts as no hit.
MutLookUpHit(ok) ==
    /\ recovery.phase = "lookup"
    /\ Call(ok)
    /\ IF ok /\ lastHit # None
       THEN RecoveryGoto("blocking", lastHit)
       ELSE RecoveryGoto("failing", None)
    /\ UNCHANGED <<run, lastHit, coord, task, handler, pendingBlock, crashes>>

\* Mutant: a lookup without a result is taken for a hit.
MutLookUpHitUnchecked(ok) ==
    /\ recovery.phase = "lookup"
    /\ Call(ok)
    /\ IF ok THEN RecoveryGoto("blocking", lastHit) ELSE RecoveryGoto("idle", None)
    /\ UNCHANGED <<run, lastHit, coord, task, handler, pendingBlock, crashes>>

\* A lookup that fails must not turn a hit into a failed open.
LookUpHit(ok) ==
    /\ recovery.phase = "lookup"
    /\ Call(ok)
    /\ IF ok /\ lastHit # None
       THEN RecoveryGoto("blocking", lastHit)
       ELSE RecoveryGoto(IF ok THEN "failing" ELSE "idle", None)
    /\ UNCHANGED <<run, lastHit, coord, task, handler, pendingBlock, crashes>>

BlockKnownHit(ok) ==
    /\ recovery.phase = "blocking"
    /\ ApplyRunBlock(recovery.info, ok)
    /\ RecoveryGoto(IF ok THEN "removing" ELSE "registering", recovery.info)
    /\ UNCHANGED <<lastHit, coord, task, handler, pendingBlock, crashes>>

RegisterKnownHit ==
    /\ recovery.phase = "registering"
    /\ pendingBlock' = recovery.info
    /\ RecoveryGoto("idle", None)
    /\ UNCHANGED <<run, lastHit, coord, task, handler, faults, crashes>>

RemoveRecovered ==
    /\ recovery.phase = "removing"
    /\ pendingBlock' = None
    /\ RecoveryGoto("idle", None)
    /\ UNCHANGED <<run, lastHit, coord, task, handler, faults, crashes>>

FailOpen(ok) ==
    /\ recovery.phase = "failing"
    /\ UpdateRunModeration("failed_open", ok)
    /\ RecoveryGoto("idle", None)
    /\ UNCHANGED <<lastHit, coord, task, handler, pendingBlock, crashes>>

-----------------------------------------------------------------------------
\* Two minutes pass.
Age ==
    /\ run.state \in Open
    /\ ~run.stale
    /\ run' = [run EXCEPT !.stale = TRUE]
    /\ UNCHANGED <<lastHit, coord, task, handler, pendingBlock, recovery, faults, crashes>>

Crash ==
    /\ handler.phase # "idle"
    /\ crashes < MaxCrashes
    /\ crashes' = crashes + 1
    /\ coord' = NewCoord
    /\ task' = [s \in Surface |-> IF task[s] \in Ended \cup {"none"} THEN task[s] ELSE "lost"]
    /\ HandlerGoto("lost")
    /\ pendingBlock' = None
    /\ RecoveryGoto("idle", None)
    /\ UNCHANGED <<run, lastHit, faults>>

HandlerNext ==
    \/ \E ok \in BOOLEAN :
           \/ AfterGeneration(ok)
           \/ ApplyBlock(ok)
           \/ UpdateRunState(ok)
           \/ FinalizeUserMessage(ok)
           \/ PersistRun(ok)
    \/ \E s \in Surface : StartTask(s) \/ SurfaceFails(s)
    \/ MarkOutputsEnqueued
    \/ WaitAll
    \/ Settle
    \/ RegisterBlock
    \/ RemoveBlock
    \/ FinishModeration

WorkerNext(s) ==
    \/ CheckPasses(s)
    \/ CheckFails(s)
    \/ ReportHit(s)
    \/ RegisterLateBlock(s)
    \/ RemoveLateBlock(s)
    \/ \E ok \in BOOLEAN :
           RecordHit(s, ok) \/ ApplyLateBlock(s, ok) \/ MarkLateBlock(s, ok)

RetryNext ==
    \/ SnapshotPendingBlock
    \/ \E ok \in BOOLEAN : RetryPendingBlock(ok)
    \/ RemoveRecovered

StaleNext ==
    \/ ListStaleModeratingRuns
    \/ SkipLiveRun
    \/ RegisterKnownHit
    \/ \E ok \in BOOLEAN : LookUpHit(ok) \/ BlockKnownHit(ok) \/ FailOpen(ok)

Next ==
    \/ \E configured, ok \in BOOLEAN : BeginRun(configured, ok)
    \/ HandlerNext
    \/ \E s \in Surface : WorkerNext(s)
    \/ RetryNext
    \/ StaleNext
    \/ Age
    \/ Crash

Spec == Init /\ [][Next]_vars

\* Upstream calls, database calls and checks all have timeouts; the recovery
\* loop ticks and time passes. A run need not begin, a process not die.
Fairness ==
    /\ WF_vars(HandlerNext)
    /\ \A s \in Surface : WF_vars(WorkerNext(s))
    /\ WF_vars(RetryNext)
    /\ WF_vars(StaleNext)
    /\ WF_vars(Age)

FairSpec == Spec /\ Fairness

-----------------------------------------------------------------------------
(* Properties *)

\* The rows, the coordinator, the tasks and the goroutines keep their types; who
\* is about to apply or register a block knows which.
TypeOK ==
    /\ run \in RunType
    /\ lastHit \in Surface \cup {None}
    /\ coord \in CoordType
    /\ task \in [Surface -> TaskPhases]
    /\ handler \in [phase : HandlerPhases, info : Surface \cup {None}, verdict : Verdicts]
    /\ pendingBlock \in Surface \cup {None}
    /\ recovery \in [phase : RecoveryPhases, info : Surface \cup {None}]
    /\ handler.phase \in {"blocking", "registering"} => handler.info # None
    /\ recovery.phase \in {"retrying", "blocking", "registering"} => recovery.info # None
    /\ faults \in 0 .. MaxFaults
    /\ crashes \in 0 .. MaxCrashes

\* Checks that found something and told the coordinator.
Hits == {s \in Surface : task[s] \in LatePhases \cup {"hit"}}

\* Once a hit was reported to the coordinator, and while its process lives, the
\* assistant's message is withdrawn or someone is still going to withdraw it: the
\* barrier, the handler, a worker with a late hit, or the pending block.
NoHitForgotten ==
    Hits # {} /\ handler.phase # "lost" =>
        \/ run.withdrawn
        \/ pendingBlock # None
        \/ ~coord.settled
        \/ handler.phase \in {"blocking", "registering"}
        \/ \E s \in Surface : task[s] \in {"late", "registering"}

\* A run is recorded as passed only if every check that its policy asked for
\* was made and found nothing: not after a timeout, a full queue, an image that
\* could not be loaded, a lost configuration, or a crash.
PassedMeansChecked ==
    run.state = "passed" => \A s \in Surface : task[s] \in {"none", "passed"}

\* No run stays pending or moderating, whatever fails on the way.
ModerationEnds == run.state \in Open ~> run.state \notin Open

\* What was reported as a hit is withdrawn in the end, even if the transaction
\* fails at first or the hit comes late, unless the process dies.
KnownHitHidden == Hits # {} ~> run.withdrawn \/ handler.phase = "lost"

\* If it dies while the run is open, a hit that was recorded is withdrawn by the
\* recovery loop of its successor.
OrphanedHitHidden ==
    handler.phase = "lost" /\ run.state \in Open /\ lastHit # None ~> run.withdrawn

\* The comment in finalizeUserMessage (service_run.go:198): the block path has
\* written the message's moderation state, which must not be overwritten.
BlockedUserMessageStays == [][run.user => run'.user]_vars
=============================================================================
