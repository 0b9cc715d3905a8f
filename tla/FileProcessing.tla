--------------------------- MODULE FileProcessing ---------------------------
(***************************************************************************)
(* The extraction queue: uploads that hand a file to it                    *)
(* (InitializeUploadedFile), the workers of several processes that lease   *)
(* its messages (runFileQueueWorker, handleProcessingMessage) and the file *)
(* rows the workers claim with the token of an attempt.                    *)
(*                                                                         *)
(* Every call to the database or to the queue is a step of its own and may *)
(* fail, before it took effect or after; a process may crash between any   *)
(* two.  There is no clock.  A message in flight that nobody handles may   *)
(* time out at any time; its handler renews the lease three times as often *)
(* as it expires, so that it loses the lease only when it is overtaken.    *)
(* MaxFaults bounds all of these together.                                 *)
(*                                                                         *)
(* A message is known by its file and its retry count: the queue gives     *)
(* each a fresh id and a requeue raises the count.  The token of an        *)
(* attempt is its worker: a worker handles one message at a time and uses  *)
(* its token only after the row took it.                                   *)
(***************************************************************************)
EXTENDS Integers, Sequences, FiniteSets

CONSTANTS
    File,
    Worker,
    None,           \* no worker, no message
    MaxRetries,     \* fileProcessingMaxRetries
    MaxFaults       \* bound on crashes, failed calls and actors overtaken

Message == File \X (0 .. MaxRetries)

ASSUME FileAssumption ==
    /\ None \notin Worker
    /\ None \notin Message
    /\ MaxRetries \in Nat
    /\ MaxFaults \in Nat

VARIABLES
    status,         \* processing_status of each file's row
    attempt,        \* its processing_attempt_id
    active,         \* is the row's status active, not deleted?
    upload,         \* where the request that uploads the file is
    queue,          \* messages nobody has read yet
    lease,          \* who holds each message in flight
    dead,           \* the dead letter queue
    pc,             \* where each worker is in handleProcessingMessage
    job,            \* the message it handles
    redelivered,    \* the message's Reclaimed
    result,         \* what processFile returned
    faults,         \* history: crashes and failed calls
    overtaken       \* history: actors overtaken by a timeout

rows == <<status, attempt, active>>
messages == <<queue, lease, dead>>
handlers == <<pc, job, redelivered, result>>
history == <<faults, overtaken>>
vars == <<rows, upload, messages, handlers, history>>

Finished == {"ready", "failed"}
Started == {"extracting", "embedding"}

\* processFile is running, and has claimed the file.
Processing == {"look", "claim", "extract", "embed"}
Claiming == {"extract", "embed", "verify", "reset", "finalize", "force"}

Place == Processing \cup Claiming \cup
            {"idle", "requeue", "overwrite", "lookup", "bury", "settle"}
Result == {"none", "done", "untouched", "refused", "error", "lost"}

FileTypeOK ==
    /\ status \in [File -> {"uploaded", "queued"} \cup Started \cup Finished]
    /\ attempt \in [File -> Worker \cup {None}]
    /\ active \in [File -> BOOLEAN]
    /\ upload \in [File -> {"new", "enqueue", "refuse", "accepted", "over"}]
    /\ queue \in Seq(Message)
    /\ lease \in [Message -> Worker \cup {None}]
    /\ dead \subseteq Message
    /\ pc \in [Worker -> Place]
    /\ job \in [Worker -> Message \cup {None}]
    /\ redelivered \in [Worker -> BOOLEAN]
    /\ result \in [Worker -> Result]
    /\ faults \in 0 .. MaxFaults
    /\ overtaken \in 0 .. MaxFaults

Init ==
    /\ status = [f \in File |-> "uploaded"]
    /\ attempt = [f \in File |-> None]
    /\ active = [f \in File |-> TRUE]
    /\ upload = [f \in File |-> "new"]
    /\ queue = <<>>
    /\ lease = [m \in Message |-> None]
    /\ dead = {}
    /\ pc = [w \in Worker |-> "idle"]
    /\ job = [w \in Worker |-> None]
    /\ redelivered = [w \in Worker |-> FALSE]
    /\ result = [w \in Worker |-> "none"]
    /\ faults = 0
    /\ overtaken = 0

FileOf(w) == job[w][1]

Handles(w, m) == pc[w] # "idle" /\ job[w] = m

\* A message in flight that nobody handles any more.
Abandoned(m) == lease[m] # None /\ ~Handles(lease[m], m)

\* How a call ends: it works, it fails, or it works and its answer is lost.
Answer == {"ok", "fails", "lost"}

Answers(a) ==
    /\ a # "ok" => faults + overtaken < MaxFaults
    /\ faults' = IF a = "ok" THEN faults ELSE faults + 1

\* Somebody was overtaken by a timeout in this step, if so.
OvertakenIf(so) ==
    /\ so => faults + overtaken < MaxFaults
    /\ overtaken' = IF so THEN overtaken + 1 ELSE overtaken

----------------------------------------------------------------------------
(* Uploads and other requests                                              *)

Uploads(f, from, to) ==
    /\ upload[f] = from
    /\ upload' = [upload EXCEPT ![f] = to]

\* A file that needs no extraction, or whose kind is not supported.
FinishAtOnce(f) ==
    /\ Uploads(f, "new", "over")
    /\ \E s \in Finished : status' = [status EXCEPT ![f] = s]
    /\ UNCHANGED <<attempt, active, messages, handlers, history>>

MarkQueued(f) ==
    /\ Uploads(f, "new", "enqueue")
    /\ status' = [status EXCEPT ![f] = "queued"]
    /\ UNCHANGED <<attempt, active, messages, handlers, history>>

EnqueueFileProcessing(f) ==
    /\ \E a \in Answer :
        /\ Answers(a)
        /\ OvertakenIf(a = "lost")
        /\ Uploads(f, "enqueue", IF a = "ok" THEN "accepted" ELSE "refuse")
        /\ queue' = IF a = "fails" THEN queue ELSE Append(queue, <<f, 0>>)
    /\ UNCHANGED <<rows, lease, dead, handlers>>

\* The queue has a limit, and carries files that are not in the model.
QueueFull(f) ==
    /\ Uploads(f, "enqueue", "refuse")
    /\ UNCHANGED <<rows, messages, handlers, history>>

MarkFailed(f) ==
    /\ Uploads(f, "refuse", "over")
    /\ \E a \in Answer :
        /\ Answers(a)
        /\ status' = IF a = "fails" THEN status ELSE [status EXCEPT ![f] = "failed"]
    /\ UNCHANGED <<attempt, active, messages, handlers, overtaken>>

\* The process of the upload ends: nothing looks for the file again.
CrashUpload(f) ==
    /\ upload[f] \in {"enqueue", "refuse"}
    /\ upload' = [upload EXCEPT ![f] = "over"]
    /\ Answers("fails")
    /\ UNCHANGED <<rows, messages, handlers, overtaken>>

DeleteFile(f) ==
    /\ active[f]
    /\ active' = [active EXCEPT ![f] = FALSE]
    /\ UNCHANGED <<status, attempt, upload, messages, handlers, history>>

\* A list of the user's files ends an embedding that started six minutes
\* ago; the embedding itself may take five.
MarkTimedOutEmbedding(f) ==
    /\ active[f]
    /\ status[f] = "embedding"
    /\ OvertakenIf(\E w \in Worker : pc[w] \in Claiming /\ attempt[f] = w)
    /\ status' = [status EXCEPT ![f] = "ready"]
    /\ UNCHANGED <<attempt, active, upload, messages, handlers, faults>>

----------------------------------------------------------------------------
(* Workers: delivery                                                       *)

Receive(w, m, again) ==
    /\ lease' = [lease EXCEPT ![m] = w]
    /\ pc' = [pc EXCEPT ![w] = "look"]
    /\ job' = [job EXCEPT ![w] = m]
    /\ redelivered' = [redelivered EXCEPT ![w] = again]
    /\ UNCHANGED <<rows, upload, dead, result, faults>>

ReadMessage(w) ==
    /\ pc[w] = "idle"
    /\ queue # <<>>
    /\ queue' = Tail(queue)
    /\ Receive(w, Head(queue), FALSE)
    /\ UNCHANGED overtaken

ClaimTimedOut(w, m) ==
    /\ pc[w] = "idle"
    /\ lease[m] # None
    /\ OvertakenIf(~Abandoned(m))
    /\ Receive(w, m, TRUE)
    /\ UNCHANGED queue

\* The handler of a message ends.
Return(w) ==
    /\ pc' = [pc EXCEPT ![w] = "idle"]
    /\ job' = [job EXCEPT ![w] = None]
    /\ redelivered' = [redelivered EXCEPT ![w] = FALSE]
    /\ result' = [result EXCEPT ![w] = "none"]

Goto(w, to) ==
    /\ pc' = [pc EXCEPT ![w] = to]
    /\ UNCHANGED <<job, redelivered, result>>

\* The process of a worker ends, or the answer of its delivery is lost.
Crash(w) ==
    /\ pc[w] # "idle"
    /\ Return(w)
    /\ Answers("fails")
    /\ UNCHANGED <<rows, upload, messages, overtaken>>

\* renewProcessingMessageLease finds that another consumer has the message.
OwnershipLost(w) ==
    /\ pc[w] \in Processing
    /\ lease[job[w]] # w
    /\ Return(w)
    /\ UNCHANGED <<rows, upload, messages, history>>

----------------------------------------------------------------------------
(* Workers: processFile and processClaimedFile                             *)

Yield(w, r) ==
    /\ pc' = [pc EXCEPT ![w] = "verify"]
    /\ result' = [result EXCEPT ![w] = r]
    /\ UNCHANGED <<job, redelivered>>

\* Mutant: a message whose file is finished is left where it is.
MutLookAtFile(w) ==
    /\ pc[w] = "look"
    /\ \E a \in {"ok", "fails"} :
        /\ Answers(a)
        /\ IF a # "ok" \/ ~active[FileOf(w)] \/ status[FileOf(w)] \in Finished
           THEN Yield(w, "refused")
           ELSE Goto(w, "claim")
    /\ UNCHANGED <<rows, upload, messages, overtaken>>

LookAtFile(w) ==
    /\ pc[w] = "look"
    /\ \E a \in {"ok", "fails"} :
        /\ Answers(a)
        /\ CASE a # "ok" \/ ~active[FileOf(w)] -> Yield(w, "refused")
             [] OTHER -> IF status[FileOf(w)] \in Finished
                         THEN Yield(w, "untouched")
                         ELSE Goto(w, "claim")
    /\ UNCHANGED <<rows, upload, messages, overtaken>>

\* Mutant: a file that was started is not claimed again.
MutClaimable(w) == status[FileOf(w)] = "queued"

Claimable(w) ==
    \/ status[FileOf(w)] = "queued"
    \/ redelivered[w] /\ status[FileOf(w)] \in Started

TryClaimFile(w) ==
    /\ pc[w] = "claim"
    /\ \E a \in Answer :
        /\ Answers(a)
        /\ IF a # "fails" /\ Claimable(w)
           THEN /\ status' = [status EXCEPT ![FileOf(w)] = "extracting"]
                /\ attempt' = [attempt EXCEPT ![FileOf(w)] = w]
           ELSE UNCHANGED <<status, attempt>>
        /\ CASE a # "ok" -> Yield(w, "refused")
             [] OTHER -> IF Claimable(w) THEN Goto(w, "extract") ELSE Yield(w, "untouched")
    /\ UNCHANGED <<active, upload, messages, overtaken>>

\* UpdateClaimedFileObjectProcessingState, for the holder of the attempt.
UpdateClaimed(w, a, s) ==
    /\ Answers(a)
    /\ IF a # "fails" /\ attempt[FileOf(w)] = w
       THEN /\ status' = [status EXCEPT ![FileOf(w)] = s]
            /\ attempt' = IF s \in Finished
                          THEN [attempt EXCEPT ![FileOf(w)] = None]
                          ELSE attempt
       ELSE UNCHANGED <<status, attempt>>
    /\ UNCHANGED <<active, upload, messages, overtaken>>

Written(w, a) ==
    CASE a # "ok" -> "error"
      [] OTHER -> IF attempt[FileOf(w)] = w THEN "done" ELSE "lost"

ExtractFile(w) ==
    /\ pc[w] = "extract"
    /\ \E a \in Answer, s \in {"embedding"} \cup Finished :
        /\ UpdateClaimed(w, a, s)
        /\ IF s = "embedding" /\ Written(w, a) = "done"
           THEN Goto(w, "embed")
           ELSE Yield(w, Written(w, a))

EmbedFile(w) ==
    /\ pc[w] = "embed"
    /\ \E a \in Answer :
        /\ UpdateClaimed(w, a, "ready")
        /\ Yield(w, Written(w, a))

\* The deadline of the run ends the embedding, and with it the last write.
EmbedTimesOut(w) ==
    /\ pc[w] = "embed"
    /\ Yield(w, "error")
    /\ UNCHANGED <<rows, upload, messages, history>>

----------------------------------------------------------------------------
(* Workers: what handleProcessingMessage does with the result              *)

\* Mutant: one retry too many.
MutConclude(w) ==
    CASE result[w] \in {"done", "lost"} -> Goto(w, "settle")
      [] result[w] = "refused" -> Return(w)
      [] result[w] = "error" ->
            Goto(w, IF job[w][2] <= MaxRetries THEN "reset" ELSE "finalize")
      [] OTHER -> Goto(w, IF job[w][2] < MaxRetries THEN "settle" ELSE "lookup")

Conclude(w) ==
    CASE result[w] \in {"done", "lost"} -> Goto(w, "settle")
      [] result[w] = "refused" -> Return(w)
      [] result[w] = "error" ->
            Goto(w, IF job[w][2] < MaxRetries THEN "reset" ELSE "finalize")
      [] OTHER -> Goto(w, IF job[w][2] < MaxRetries THEN "settle" ELSE "lookup")

VerifyLease(w) ==
    /\ pc[w] = "verify"
    /\ \E a \in {"ok", "fails"} :
        /\ Answers(a)
        /\ IF a = "ok" /\ lease[job[w]] = w THEN Conclude(w) ELSE Return(w)
    /\ UNCHANGED <<rows, upload, messages, overtaken>>

ResetForRetry(w) ==
    /\ pc[w] = "reset"
    /\ LET own == attempt[FileOf(w)] = w /\ status[FileOf(w)] \in Started IN
       \E a \in Answer :
        /\ Answers(a)
        /\ IF a # "fails" /\ own
           THEN /\ status' = [status EXCEPT ![FileOf(w)] = "queued"]
                /\ attempt' = [attempt EXCEPT ![FileOf(w)] = None]
           ELSE UNCHANGED <<status, attempt>>
        /\ IF a = "ok" /\ own THEN Goto(w, "requeue") ELSE Return(w)
    /\ UNCHANGED <<active, upload, messages, overtaken>>

\* A call of the message's consumer: the queue ignores anyone else's.  The
\* handler ends whatever the answer is.
Release(w, a) ==
    /\ Answers(a)
    /\ lease' = IF a = "ok" /\ lease[job[w]] = w
                THEN [lease EXCEPT ![job[w]] = None]
                ELSE lease
    /\ Return(w)
    /\ UNCHANGED <<rows, upload, overtaken>>

\* Mutant: who holds the message is not asked.
MutRequeue(w) ==
    /\ pc[w] = "requeue"
    /\ \E a \in {"ok", "fails"} :
        /\ Release(w, a)
        /\ queue' = IF a = "ok" THEN Append(queue, <<FileOf(w), job[w][2] + 1>>) ELSE queue
    /\ UNCHANGED dead

Requeue(w) ==
    /\ pc[w] = "requeue"
    /\ \E a \in {"ok", "fails"} :
        /\ Release(w, a)
        /\ queue' = IF a = "ok" /\ lease[job[w]] = w
                    THEN Append(queue, <<FileOf(w), job[w][2] + 1>>)
                    ELSE queue
    /\ UNCHANGED dead

Settle(w) ==
    /\ pc[w] = "settle"
    /\ \E a \in {"ok", "fails"} : Release(w, a)
    /\ UNCHANGED <<queue, dead>>

DeadLetter(w) ==
    /\ pc[w] = "bury"
    /\ \E a \in {"ok", "fails"} :
        /\ Release(w, a)
        /\ dead' = IF a = "ok" /\ lease[job[w]] = w
                   THEN dead \cup {job[w]}
                   ELSE dead
    /\ UNCHANGED queue

\* Mutant: the file may be finished already.
MutFinalizeFailed(w) ==
    /\ pc[w] = "finalize"
    /\ \E a \in {"ok", "fails"} :
        /\ Answers(a)
        /\ IF a # "ok" \/ ~active[FileOf(w)] THEN Return(w) ELSE Goto(w, "force")
    /\ UNCHANGED <<rows, upload, messages, overtaken>>

\* forceFinalizeFailed: a look at the file, the write of the attempt, and a
\* write in any case when the attempt is lost.
FinalizeFailed(w) ==
    /\ pc[w] = "finalize"
    /\ \E a \in {"ok", "fails"} :
        /\ Answers(a)
        /\ CASE a # "ok" \/ ~active[FileOf(w)] -> Return(w)
             [] OTHER -> Goto(w, IF status[FileOf(w)] \in Finished THEN "bury" ELSE "force")
    /\ UNCHANGED <<rows, upload, messages, overtaken>>

ForceFailed(w) ==
    /\ pc[w] = "force"
    /\ \E a \in Answer :
        /\ UpdateClaimed(w, a, "failed")
        /\ CASE Written(w, a) = "error" -> Return(w)
             [] OTHER -> Goto(w, IF Written(w, a) = "done" THEN "bury" ELSE "overwrite")

OverwriteFailed(w) ==
    /\ pc[w] = "overwrite"
    /\ \E a \in Answer :
        /\ Answers(a)
        /\ status' = IF a = "fails" THEN status ELSE [status EXCEPT ![FileOf(w)] = "failed"]
        /\ IF a = "ok" THEN Goto(w, "bury") ELSE Return(w)
    /\ UNCHANGED <<attempt, active, upload, messages, overtaken>>

\* A last delivery of a file that is finished already.
LookUpFailed(w) ==
    /\ pc[w] = "lookup"
    /\ \E a \in {"ok", "fails"} :
        /\ Answers(a)
        /\ CASE a # "ok" \/ ~active[FileOf(w)] -> Return(w)
             [] OTHER -> Goto(w, IF status[FileOf(w)] = "failed" THEN "bury" ELSE "settle")
    /\ UNCHANGED <<rows, upload, messages, overtaken>>

----------------------------------------------------------------------------

Handle(w) ==
    \/ OwnershipLost(w)
    \/ LookAtFile(w) \/ TryClaimFile(w) \/ ExtractFile(w)
    \/ EmbedFile(w) \/ EmbedTimesOut(w)
    \/ VerifyLease(w)
    \/ ResetForRetry(w) \/ Requeue(w)
    \/ FinalizeFailed(w) \/ ForceFailed(w) \/ OverwriteFailed(w) \/ DeadLetter(w)
    \/ LookUpFailed(w) \/ Settle(w)

Initialize(f) ==
    \/ FinishAtOnce(f) \/ MarkQueued(f)
    \/ EnqueueFileProcessing(f) \/ QueueFull(f) \/ MarkFailed(f)

Next ==
    \/ \E f \in File :
        \/ Initialize(f) \/ CrashUpload(f)
        \/ DeleteFile(f) \/ MarkTimedOutEmbedding(f)
    \/ \E w \in Worker :
        \/ ReadMessage(w) \/ Handle(w) \/ Crash(w)
        \/ \E m \in Message : ClaimTimedOut(w, m)

FileSafe == Init /\ [][Next]_vars

\* Workers poll the queue and handle what they get.  A lease that nobody
\* renews times out 45 seconds after it was taken, and the worker reads the
\* queue when none has: messages delivered over and over (those of deleted
\* files) wait as long each time, and keep it neither from the queue nor from
\* the others.  The queue in memory hands out the oldest of them, Redis the
\* one with the lowest id.
FileFair ==
    /\ \A w \in Worker : WF_vars(Handle(w))
    /\ SF_vars(\E w \in Worker : ReadMessage(w))
    /\ \A m \in Message :
        SF_vars(\E w \in Worker : Abandoned(m) /\ ClaimTimedOut(w, m))

FileSpec == FileSafe /\ FileFair

----------------------------------------------------------------------------
(* Properties                                                              *)

InFlight(m) == lease[m] # None
InQueue(m) == \E i \in 1 .. Len(queue) : queue[i] = m
Waiting(m) == InQueue(m) \/ InFlight(m)

\* Unless somebody was overtaken, a file that was handed to the queue and is
\* not finished has a message: neither a crash between two calls nor a failed
\* call makes handleProcessingMessage settle the last one of an open file.
NoFileLost ==
    overtaken = 0 =>
        \A f \in File :
            upload[f] = "accepted" /\ status[f] \notin Finished =>
                \E n \in 0 .. MaxRetries : Waiting(<<f, n>>)

\* A file never has two messages, whatever was delivered twice or requeued.
OneMessagePerFile ==
    /\ \A i, j \in 1 .. Len(queue) : queue[i][1] = queue[j][1] => i = j
    /\ \A m \in Message : InFlight(m) =>
        /\ \A i \in 1 .. Len(queue) : queue[i][1] # m[1]
        /\ \A n \in Message : InFlight(n) /\ n[1] = m[1] => n = m

\* The file row and the queue together keep the promise of FileOutcome.
Outcome(f) ==
    CASE ~active[f] -> "deleted"
      [] OTHER ->
            IF status[f] \in Finished THEN status[f]
            ELSE IF upload[f] = "accepted" THEN "pending" ELSE "none"

Promise == INSTANCE FileOutcome
    WITH outcome <- [f \in File |-> Outcome(f)], trusted <- overtaken = 0

\* Handed to the queue a file stays pending until it is decided, is decided
\* once, and is decided in the end: as long as nobody is overtaken, and
\* however many deliveries crash.
KeepsPromise == Promise!Spec

\* A message ends: it is settled or a dead letter, retried at most MaxRetries
\* times, unless its file was deleted: then processFile only ever returns
\* ErrFileNotFound, and the message is delivered for ever.
MessagesEnd ==
    \A f \in File :
        (\E n \in 0 .. MaxRetries : Waiting(<<f, n>>)) ~>
            (~active[f] \/ \A n \in 0 .. MaxRetries : ~Waiting(<<f, n>>))

=============================================================================
