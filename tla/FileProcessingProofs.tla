------------------------ MODULE FileProcessingProofs ------------------------
(***************************************************************************)
(* The extraction queue, for any number of files, workers and faults:      *)
(* types, that a file never has two messages, that a file handed to the    *)
(* queue is not lost, and that the queue implements the safety part of     *)
(* FileOutcome.                                                            *)
(***************************************************************************)
EXTENDS FileProcessing, TLAPS

\* No message of a file waits before its upload enqueues it.
NotYetQueued ==
    \A f \in File : upload[f] \in {"new", "enqueue"} =>
        \A n \in 0 .. MaxRetries : ~Waiting(<<f, n>>)

QueueInv == OneMessagePerFile /\ NotYetQueued

\* A handler has a message, which it retries only up to the limit.
JobsFit ==
    \A w \in Worker :
        /\ pc[w] # "idle" => job[w] \in Message
        /\ pc[w] \in {"reset", "requeue"} => job[w][2] < MaxRetries

\* The rest holds until somebody is overtaken.  A handler has the lease of
\* its message,
HandlersHold == \A w \in Worker : pc[w] # "idle" => lease[job[w]] = w

\* only accepted files have messages, or are being processed,
OnlyAccepted ==
    \A f \in File : upload[f] # "accepted" =>
        /\ \A n \in 0 .. MaxRetries : ~Waiting(<<f, n>>)
        /\ status[f] \notin Started
        /\ upload[f] = "new" => status[f] = "uploaded"
        /\ upload[f] \in {"enqueue", "refuse"} => status[f] = "queued"

\* a file whose message was not delivered before has not been started,
FirstDelivery ==
    /\ \A f \in File : upload[f] = "accepted" => status[f] # "uploaded"
    /\ \A m \in Message : InQueue(m) => status[m[1]] \notin Started
    /\ \A w \in Worker :
        pc[w] \in {"look", "claim"} /\ ~redelivered[w] => status[FileOf(w)] \notin Started

\* and a handler is where its file's row says.
OwnClaim(w) == attempt[FileOf(w)] = w /\ status[FileOf(w)] \in Started
Over(w) == status[FileOf(w)] \in Finished

InPlace(w) ==
    /\ pc[w] \in {"extract", "embed", "force"} => OwnClaim(w)
    /\ pc[w] \in {"reset", "finalize"} => OwnClaim(w) \/ Over(w)
    /\ pc[w] \in {"bury", "settle", "lookup"} => Over(w)
    /\ pc[w] = "requeue" => status[FileOf(w)] = "queued"
    /\ pc[w] = "verify" =>
        /\ result[w] \in {"done", "untouched", "error", "refused"}
        /\ result[w] \in {"done", "untouched"} => Over(w)
        /\ result[w] = "error" => OwnClaim(w) \/ Over(w)
    /\ pc[w] # "overwrite"

HandlersInPlace == \A w \in Worker : InPlace(w)

Calm ==
    /\ HandlersHold
    /\ OnlyAccepted
    /\ FirstDelivery
    /\ HandlersInPlace
    /\ NoFileLost

FileInv ==
    /\ FileTypeOK
    /\ JobsFit
    /\ QueueInv
    /\ overtaken = 0 => Calm

-----------------------------------------------------------------------------
(***************************************************************************)
(* Types.                                                                  *)
(***************************************************************************)
LEMMA MessageParts ==
    ASSUME NEW m \in Message
    PROVE  m[1] \in File /\ m[2] \in 0 .. MaxRetries /\ m = <<m[1], m[2]>>
  BY DEF Message

LEMMA AppendIndex ==
    ASSUME NEW q \in Seq(Message), NEW m \in Message, NEW r, r = Append(q, m)
    PROVE  /\ r \in Seq(Message)
           /\ Len(q) \in Nat /\ Len(r) = Len(q) + 1
           /\ r[Len(q) + 1] = m
           /\ \A i \in 1 .. Len(q) : r[i] = q[i]
  OBVIOUS

LEMMA TailIndex ==
    ASSUME NEW q \in Seq(Message), q # <<>>
    PROVE  /\ Tail(q) \in Seq(Message) /\ Head(q) \in Message
           /\ Head(q) = q[1]
           /\ Len(q) \in Nat \ {0} /\ Len(Tail(q)) = Len(q) - 1
           /\ \A i \in 1 .. Len(Tail(q)) : Tail(q)[i] = q[i + 1]
  OBVIOUS

LEMMA AnswersType ==
    ASSUME FileTypeOK, NEW a, Answers(a)
    PROVE  faults' \in 0 .. MaxFaults
  BY FileAssumption DEF FileTypeOK, Answers

LEMMA OvertakenType ==
    ASSUME FileTypeOK, NEW so, OvertakenIf(so)
    PROVE  overtaken' \in 0 .. MaxFaults
  BY FileAssumption DEF FileTypeOK, OvertakenIf

\* Where a handler goes, and the message it then has.
Typed == FileTypeOK /\ JobsFit

HandlersTyped ==
    /\ pc \in [Worker -> Place]
    /\ job \in [Worker -> Message \cup {None}]
    /\ redelivered \in [Worker -> BOOLEAN]
    /\ result \in [Worker -> Result]
    /\ JobsFit

LEMMA ReturnType ==
    ASSUME Typed, NEW w \in Worker, Return(w)
    PROVE  HandlersTyped'
  BY DEF Typed, FileTypeOK, JobsFit, Return, HandlersTyped, Place, Result

LEMMA GotoType ==
    ASSUME Typed, NEW w \in Worker, NEW to \in Place, Goto(w, to), pc[w] # "idle",
           to \in {"reset", "requeue"} => job[w][2] < MaxRetries
    PROVE  HandlersTyped'
  BY DEF Typed, FileTypeOK, JobsFit, Goto, HandlersTyped

LEMMA YieldType ==
    ASSUME Typed, NEW w \in Worker, NEW r \in Result, Yield(w, r), pc[w] # "idle"
    PROVE  HandlersTyped'
  BY DEF Typed, FileTypeOK, JobsFit, Yield, HandlersTyped, Place, Claiming

LEMMA ConcludeType ==
    ASSUME Typed, NEW w \in Worker, pc[w] = "verify", Conclude(w)
    PROVE  HandlersTyped'
<1>1. CASE result[w] \in {"done", "lost"}
  BY <1>1, GotoType DEF Conclude, Place
<1>2. CASE result[w] = "refused"
  BY <1>2, ReturnType DEF Conclude
<1>3. CASE result[w] = "error"
  <2>1. job[w][2] < MaxRetries => Goto(w, "reset")
    BY <1>3 DEF Conclude
  <2>2. ~(job[w][2] < MaxRetries) => Goto(w, "finalize")
    BY <1>3 DEF Conclude
  <2> QED BY <2>1, <2>2, GotoType DEF Place, Claiming
<1>4. CASE result[w] \notin {"done", "lost", "refused", "error"}
  BY <1>4, GotoType DEF Conclude, Place
<1> QED BY <1>1, <1>2, <1>3, <1>4

LEMMA WrittenType ==
    ASSUME NEW w, NEW a PROVE Written(w, a) \in {"done", "lost", "error"}
  BY DEF Written

\* The rows after a write of the holder of an attempt.
LEMMA ClaimedRowsType ==
    ASSUME Typed, NEW w \in Worker, NEW a \in Answer,
           NEW s \in {"embedding"} \cup Finished, UpdateClaimed(w, a, s)
    PROVE  /\ status' \in [File -> {"uploaded", "queued"} \cup Started \cup Finished]
           /\ attempt' \in [File -> Worker \cup {None}]
           /\ faults' \in 0 .. MaxFaults
  BY AnswersType DEF Typed, FileTypeOK, UpdateClaimed, Started, Finished

LEMMA UploadType ==
    ASSUME Typed, NEW f \in File, Initialize(f) \/ CrashUpload(f)
    PROVE  Typed'
<1>1. CASE FinishAtOnce(f) \/ MarkQueued(f) \/ QueueFull(f) \/ CrashUpload(f)
  BY <1>1, AnswersType
  DEF Typed, FileTypeOK, JobsFit, FinishAtOnce, MarkQueued, QueueFull, CrashUpload, Uploads,
      rows, messages, handlers, history, Finished
<1>2. CASE EnqueueFileProcessing(f)
  <2>1. PICK a \in Answer :
          /\ Answers(a) /\ OvertakenIf(a = "lost")
          /\ Uploads(f, "enqueue", IF a = "ok" THEN "accepted" ELSE "refuse")
          /\ queue' = IF a = "fails" THEN queue ELSE Append(queue, <<f, 0>>)
    BY <1>2 DEF EnqueueFileProcessing
  <2>2. queue' \in Seq(Message)
    BY <2>1, FileAssumption DEF Typed, FileTypeOK, Message
  <2>3. faults' \in 0 .. MaxFaults /\ overtaken' \in 0 .. MaxFaults
    BY <2>1, AnswersType, OvertakenType DEF Typed
  <2>4. upload' \in [File -> {"new", "enqueue", "refuse", "accepted", "over"}]
    BY <2>1 DEF Typed, FileTypeOK, Uploads
  <2> QED BY <1>2, <2>2, <2>3, <2>4
      DEF Typed, FileTypeOK, JobsFit, EnqueueFileProcessing, rows, handlers
<1>3. CASE MarkFailed(f)
  <2>1. faults' \in 0 .. MaxFaults
    BY <1>3, AnswersType DEF MarkFailed, Typed
  <2> QED BY <1>3, <2>1
      DEF Typed, FileTypeOK, JobsFit, MarkFailed, Uploads, messages, handlers, Finished
<1> QED BY <1>1, <1>2, <1>3 DEF Initialize

LEMMA OthersType ==
    ASSUME Typed, NEW f \in File, DeleteFile(f) \/ MarkTimedOutEmbedding(f)
    PROVE  Typed'
<1>1. CASE DeleteFile(f)
  BY <1>1 DEF Typed, FileTypeOK, JobsFit, DeleteFile, messages, handlers, history
<1>2. CASE MarkTimedOutEmbedding(f)
  BY <1>2, OvertakenType
  DEF Typed, FileTypeOK, JobsFit, MarkTimedOutEmbedding, messages, handlers, Finished
<1> QED BY <1>1, <1>2

LEMMA ReceiveType ==
    ASSUME Typed, NEW w \in Worker, NEW m \in Message, NEW again \in BOOLEAN,
           Receive(w, m, again), queue' \in Seq(Message), overtaken' \in 0 .. MaxFaults
    PROVE  Typed'
  BY DEF Typed, FileTypeOK, JobsFit, Receive, rows, Place, Processing

LEMMA DeliveryType ==
    ASSUME Typed, NEW w \in Worker,
           ReadMessage(w) \/ \E m \in Message : ClaimTimedOut(w, m)
    PROVE  Typed'
<1>1. CASE ReadMessage(w)
  <2>1. Tail(queue) \in Seq(Message) /\ Head(queue) \in Message
    BY <1>1, TailIndex DEF Typed, FileTypeOK, ReadMessage
  <2> QED BY <1>1, <2>1, ReceiveType DEF ReadMessage, Typed, FileTypeOK
<1>2. ASSUME NEW m \in Message, ClaimTimedOut(w, m) PROVE Typed'
  BY <1>2, ReceiveType, OvertakenType DEF ClaimTimedOut, Typed, FileTypeOK
<1> QED BY <1>1, <1>2

\* A step of a handler that changes no message.
LEMMA HandlerType ==
    ASSUME Typed, HandlersTyped', UNCHANGED <<active, upload, messages>>,
           status' \in [File -> {"uploaded", "queued"} \cup Started \cup Finished],
           attempt' \in [File -> Worker \cup {None}],
           faults' \in 0 .. MaxFaults, overtaken' \in 0 .. MaxFaults
    PROVE  Typed'
  BY DEF Typed, FileTypeOK, HandlersTyped, messages

LEMMA ProcessType ==
    ASSUME Typed, NEW w \in Worker,
           \/ Crash(w) \/ OwnershipLost(w) \/ LookAtFile(w) \/ TryClaimFile(w)
           \/ ExtractFile(w) \/ EmbedFile(w) \/ EmbedTimesOut(w)
    PROVE  Typed'
<1> USE DEF Place, Processing, Claiming, Result
<1>1. CASE Crash(w) \/ OwnershipLost(w)
  <2>1. HandlersTyped'
    BY <1>1, ReturnType DEF Crash, OwnershipLost
  <2> QED BY <1>1, <2>1, HandlerType, AnswersType
      DEF Crash, OwnershipLost, Typed, FileTypeOK, rows, history
<1>2. CASE LookAtFile(w)
  <2>1. HandlersTyped'
    BY <1>2, GotoType, YieldType DEF LookAtFile
  <2> QED BY <1>2, <2>1, HandlerType, AnswersType DEF LookAtFile, Typed, FileTypeOK, rows
<1>3. CASE TryClaimFile(w)
  <2>1. HandlersTyped'
    BY <1>3, GotoType, YieldType DEF TryClaimFile
  <2> QED BY <1>3, <2>1, HandlerType, AnswersType
      DEF TryClaimFile, Typed, FileTypeOK, Started
<1>4. CASE ExtractFile(w)
  <2>1. PICK a \in Answer, s \in {"embedding"} \cup Finished :
          /\ UpdateClaimed(w, a, s)
          /\ IF s = "embedding" /\ Written(w, a) = "done"
             THEN Goto(w, "embed")
             ELSE Yield(w, Written(w, a))
    BY <1>4 DEF ExtractFile
  <2>2. HandlersTyped'
    BY <1>4, <2>1, GotoType, YieldType, WrittenType DEF ExtractFile
  <2> QED BY <2>1, <2>2, HandlerType, ClaimedRowsType DEF UpdateClaimed, Typed, FileTypeOK
<1>5. CASE EmbedFile(w)
  <2>1. PICK a \in Answer : UpdateClaimed(w, a, "ready") /\ Yield(w, Written(w, a))
    BY <1>5 DEF EmbedFile
  <2>2. HandlersTyped'
    BY <1>5, <2>1, YieldType, WrittenType DEF EmbedFile
  <2> QED BY <2>1, <2>2, HandlerType, ClaimedRowsType
      DEF UpdateClaimed, Typed, FileTypeOK, Finished
<1>6. CASE EmbedTimesOut(w)
  <2>1. HandlersTyped'
    BY <1>6, YieldType DEF EmbedTimesOut
  <2> QED BY <1>6, <2>1, HandlerType DEF EmbedTimesOut, Typed, FileTypeOK, rows, history
<1> QED BY <1>1, <1>2, <1>3, <1>4, <1>5, <1>6

LEMMA ResultType ==
    ASSUME Typed, NEW w \in Worker,
           \/ VerifyLease(w) \/ ResetForRetry(w) \/ FinalizeFailed(w)
           \/ ForceFailed(w) \/ OverwriteFailed(w) \/ LookUpFailed(w)
    PROVE  Typed'
<1> USE DEF Place, Processing, Claiming, Result
<1>1. CASE VerifyLease(w)
  <2>1. HandlersTyped'
    BY <1>1, ReturnType, ConcludeType DEF VerifyLease
  <2> QED BY <1>1, <2>1, HandlerType, AnswersType DEF VerifyLease, Typed, FileTypeOK, rows
<1>2. CASE ResetForRetry(w)
  <2>1. job[w][2] < MaxRetries
    BY <1>2 DEF ResetForRetry, Typed, JobsFit
  <2>2. HandlersTyped'
    BY <1>2, <2>1, ReturnType, GotoType DEF ResetForRetry
  <2> QED BY <1>2, <2>2, HandlerType, AnswersType DEF ResetForRetry, Typed, FileTypeOK
<1>3. CASE FinalizeFailed(w) \/ LookUpFailed(w)
  <2>1. HandlersTyped'
    BY <1>3, ReturnType, GotoType DEF FinalizeFailed, LookUpFailed
  <2> QED BY <1>3, <2>1, HandlerType, AnswersType
      DEF FinalizeFailed, LookUpFailed, Typed, FileTypeOK, rows
<1>4. CASE ForceFailed(w)
  <2>1. PICK a \in Answer :
          /\ UpdateClaimed(w, a, "failed")
          /\ CASE Written(w, a) = "error" -> Return(w)
               [] OTHER -> Goto(w, IF Written(w, a) = "done" THEN "bury" ELSE "overwrite")
    BY <1>4 DEF ForceFailed
  <2>2. HandlersTyped'
    BY <1>4, <2>1, ReturnType, GotoType DEF ForceFailed
  <2> QED BY <2>1, <2>2, HandlerType, ClaimedRowsType
      DEF UpdateClaimed, Typed, FileTypeOK, Finished
<1>5. CASE OverwriteFailed(w)
  <2>1. HandlersTyped'
    BY <1>5, ReturnType, GotoType DEF OverwriteFailed
  <2> QED BY <1>5, <2>1, HandlerType, AnswersType
      DEF OverwriteFailed, Typed, FileTypeOK, Finished
<1> QED BY <1>1, <1>2, <1>3, <1>4, <1>5

LEMMA ReleaseType ==
    ASSUME Typed, NEW w \in Worker, Requeue(w) \/ Settle(w) \/ DeadLetter(w)
    PROVE  Typed'
<1>1. PICK a \in {"ok", "fails"} : Release(w, a)
  BY DEF Requeue, Settle, DeadLetter
<1>2. HandlersTyped' /\ job[w] \in Message
  BY <1>1, ReturnType DEF Release, Requeue, Settle, DeadLetter, Typed, JobsFit
<1>3. lease' \in [Message -> Worker \cup {None}] /\ faults' \in 0 .. MaxFaults
  BY <1>1, AnswersType DEF Release, Typed, FileTypeOK
<1>4. queue' \in Seq(Message) /\ dead' \subseteq Message
  <2>1. CASE Requeue(w)
    <3>1. <<FileOf(w), job[w][2] + 1>> \in Message
      BY <1>2, <2>1, MessageParts, FileAssumption DEF Requeue, FileOf, Message, Typed, JobsFit
    <3> QED BY <2>1, <3>1, AppendIndex DEF Requeue, Typed, FileTypeOK
  <2>2. CASE Settle(w) \/ DeadLetter(w)
    BY <1>2, <2>2 DEF Settle, DeadLetter, Typed, FileTypeOK
  <2> QED BY <2>1, <2>2
<1> QED BY <1>1, <1>2, <1>3, <1>4 DEF Release, rows, Typed, FileTypeOK, HandlersTyped

LEMMA TypeStep == ASSUME Typed, [Next]_vars PROVE Typed'
<1>1. CASE UNCHANGED vars
  BY <1>1 DEF Typed, FileTypeOK, JobsFit, vars, rows, messages, handlers, history
<1>2. CASE Next
  BY <1>2, UploadType, OthersType, DeliveryType, ProcessType, ResultType, ReleaseType
  DEF Next, Handle
<1> QED BY <1>1, <1>2

\* Rows, messages and handlers have their types.
THEOREM FileTypes == FileSafe => []FileTypeOK
<1>1. Init => Typed
  BY FileAssumption
  DEF Init, Typed, FileTypeOK, JobsFit, Place, Result
<1>2. Typed /\ [Next]_vars => Typed'
  BY TypeStep
<1>3. Typed => FileTypeOK
  BY DEF Typed
<1> QED BY <1>1, <1>2, <1>3, PTL DEF FileSafe

-----------------------------------------------------------------------------
(***************************************************************************)
(* A file never has two messages.                                          *)
(***************************************************************************)
\* No file is uploaded again.
LEMMA QueueUnchanged ==
    ASSUME Typed, QueueInv, UNCHANGED <<queue, lease>>,
           upload' \in [File -> {"new", "enqueue", "refuse", "accepted", "over"}],
           \A f \in File : upload'[f] \in {"new", "enqueue"} => upload[f] \in {"new", "enqueue"}
    PROVE  QueueInv'
  BY DEF QueueInv, OneMessagePerFile, NotYetQueued, Waiting, InQueue, InFlight

\* A message moves from the queue to a worker, or from one to another.
LEMMA DeliveryKeepsOne ==
    ASSUME Typed, QueueInv, NEW w \in Worker,
           ReadMessage(w) \/ \E m \in Message : ClaimTimedOut(w, m)
    PROVE  QueueInv'
<1>1. CASE ReadMessage(w)
  <2> DEFINE head == Head(queue)
  <2>1. /\ head \in Message /\ head = queue[1] /\ Len(queue) \in Nat \ {0}
        /\ Len(queue') = Len(queue) - 1
        /\ \A i \in 1 .. Len(queue') : queue'[i] = queue[i + 1] /\ i + 1 \in 2 .. Len(queue)
    BY <1>1, TailIndex DEF ReadMessage, Typed, FileTypeOK
  <2>2. lease' = [lease EXCEPT ![head] = w] /\ UNCHANGED upload
    BY <1>1 DEF ReadMessage, Receive
  <2>3. \A m \in Message : InFlight(m)' => InFlight(m) \/ m = head
    BY <2>2 DEF InFlight, Typed, FileTypeOK
  <2>4. InQueue(head)
    BY <2>1 DEF InQueue
  <2>5. \A m \in Message : Waiting(m)' => Waiting(m)
    BY <2>1, <2>3, <2>4 DEF Waiting, InQueue
  <2>6. NotYetQueued'
    BY <2>2, <2>5 DEF QueueInv, NotYetQueued, Message
  <2>7. \A i, j \in 1 .. Len(queue') : queue'[i][1] = queue'[j][1] => i = j
    BY <2>1 DEF QueueInv, OneMessagePerFile
  <2>8. ASSUME NEW m \in Message, InFlight(m)'
        PROVE  /\ \A i \in 1 .. Len(queue') : queue'[i][1] # m[1]
               /\ \A n \in Message : InFlight(n)' /\ n[1] = m[1] => n = m
    <3>1. CASE m = head
      BY <2>1, <2>3, <2>8, <3>1 DEF QueueInv, OneMessagePerFile
    <3>2. CASE m # head
      BY <2>1, <2>3, <2>8, <3>2 DEF QueueInv, OneMessagePerFile
    <3> QED BY <3>1, <3>2
  <2> QED BY <2>6, <2>7, <2>8 DEF QueueInv, OneMessagePerFile
<1>2. ASSUME NEW m \in Message, ClaimTimedOut(w, m) PROVE QueueInv'
  <2>1. \A n \in Message : InFlight(n)' <=> InFlight(n)
    BY <1>2, FileAssumption DEF ClaimTimedOut, Receive, InFlight, Typed, FileTypeOK
  <2> QED BY <1>2, <2>1
      DEF ClaimTimedOut, Receive, QueueInv, OneMessagePerFile, NotYetQueued, Waiting, InQueue, Message
<1> QED BY <1>1, <1>2

\* The first message of a file.
LEMMA EnqueueKeepsOne ==
    ASSUME Typed, QueueInv, NEW f \in File, EnqueueFileProcessing(f)
    PROVE  QueueInv'
<1> DEFINE first == <<f, 0>>
<1>1. first \in Message /\ 0 \in 0 .. MaxRetries
  BY FileAssumption DEF Message
<1>2. /\ upload[f] = "enqueue" /\ upload'[f] \in {"accepted", "refuse"}
      /\ \A g \in File : g # f => upload'[g] = upload[g]
      /\ UNCHANGED lease
  BY DEF EnqueueFileProcessing, Uploads, Typed, FileTypeOK
<1>3. \A m \in Message : m[1] = f => ~InQueue(m) /\ ~InFlight(m)
  BY <1>2, MessageParts DEF QueueInv, NotYetQueued, Waiting
<1>4. \A i \in 1 .. Len(queue) : queue[i] \in Message /\ queue[i][1] # f
  BY <1>3 DEF InQueue, Typed, FileTypeOK
<1>5. CASE queue' = queue
  BY <1>2, <1>5 DEF QueueInv, OneMessagePerFile, NotYetQueued, Waiting, InQueue, InFlight
<1>6. CASE queue' = Append(queue, first)
  <2>1. /\ Len(queue) \in Nat /\ Len(queue') = Len(queue) + 1
        /\ queue'[Len(queue) + 1] = first
        /\ \A i \in 1 .. Len(queue) : queue'[i] = queue[i]
    BY <1>1, <1>6, AppendIndex DEF Typed, FileTypeOK
  <2>2. \A i \in 1 .. Len(queue') : i \in 1 .. Len(queue) \/ i = Len(queue) + 1
    BY <2>1
  <2>3. \A i, j \in 1 .. Len(queue') : queue'[i][1] = queue'[j][1] => i = j
    BY <1>4, <2>1, <2>2 DEF QueueInv, OneMessagePerFile
  <2>4. \A m \in Message : InFlight(m)' =>
          /\ \A i \in 1 .. Len(queue') : queue'[i][1] # m[1]
          /\ \A n \in Message : InFlight(n)' /\ n[1] = m[1] => n = m
    BY <1>2, <1>3, <2>1, <2>2 DEF QueueInv, OneMessagePerFile, InFlight
  <2>5. \A m \in Message : m[1] # f => (Waiting(m)' => Waiting(m))
    BY <1>2, <2>1, <2>2 DEF Waiting, InQueue, InFlight
  <2>6. NotYetQueued'
    BY <1>2, <2>5 DEF QueueInv, NotYetQueued, Message
  <2> QED BY <2>3, <2>4, <2>6 DEF QueueInv, OneMessagePerFile
<1>7. queue' = queue \/ queue' = Append(queue, first)
  BY DEF EnqueueFileProcessing
<1> QED BY <1>5, <1>6, <1>7

\* A message is released, or replaced by its next one.
LEMMA ReleaseKeepsOne ==
    ASSUME Typed, QueueInv, NEW w \in Worker, Requeue(w) \/ Settle(w) \/ DeadLetter(w)
    PROVE  QueueInv'
<1>0. PICK m \in Message : m = job[w]
  BY DEF Requeue, Settle, DeadLetter, Typed, JobsFit
<1> DEFINE next == <<m[1], m[2] + 1>>
<1>1. /\ UNCHANGED upload
      /\ lease' = lease \/ (lease[m] = w /\ lease' = [lease EXCEPT ![m] = None])
      /\ queue' = queue \/ (Requeue(w) /\ lease[m] = w /\ queue' = Append(queue, next)
                                       /\ lease' = [lease EXCEPT ![m] = None])
  BY <1>0 DEF Requeue, Settle, DeadLetter, Release, FileOf
<1>2. \A n \in Message : InFlight(n)' => InFlight(n)
  BY <1>1 DEF InFlight, Typed, FileTypeOK
<1>3. CASE queue' = queue
  BY <1>1, <1>2, <1>3 DEF QueueInv, OneMessagePerFile, NotYetQueued, Waiting, InQueue, Message
<1>4. CASE /\ Requeue(w) /\ lease[m] = w /\ queue' = Append(queue, next)
           /\ lease' = [lease EXCEPT ![m] = None]
  <2>1. next \in Message /\ next[1] = m[1] /\ InFlight(m) /\ ~InFlight(m)'
    <3>1. m[1] \in File /\ m[2] \in 0 .. MaxRetries /\ m[2] < MaxRetries
      BY <1>0, <1>4, MessageParts DEF Requeue, Typed, JobsFit
    <3>2. next \in Message /\ next[1] = m[1]
      BY <3>1, FileAssumption DEF Message
    <3>3. InFlight(m) /\ ~InFlight(m)'
      BY <1>1, <1>4, FileAssumption DEF Typed, FileTypeOK, InFlight
    <3> QED BY <3>2, <3>3
  <2>2. /\ Len(queue) \in Nat /\ Len(queue') = Len(queue) + 1
        /\ queue'[Len(queue) + 1] = next
        /\ \A i \in 1 .. Len(queue) : queue'[i] = queue[i]
    BY <1>4, <2>1, AppendIndex DEF Typed, FileTypeOK
  <2>3. \A i \in 1 .. Len(queue') : i \in 1 .. Len(queue) \/ i = Len(queue) + 1
    BY <2>2
  <2>4. \A i \in 1 .. Len(queue) : queue[i][1] # m[1]
    BY <1>1, <2>1 DEF QueueInv, OneMessagePerFile
  <2>5. \A n \in Message : InFlight(n)' => n[1] # m[1]
    BY <1>1, <1>2, <2>1 DEF QueueInv, OneMessagePerFile, InFlight
  <2>6. \A i, j \in 1 .. Len(queue') : queue'[i][1] = queue'[j][1] => i = j
    BY <2>1, <2>2, <2>3, <2>4 DEF QueueInv, OneMessagePerFile
  <2>7. \A n \in Message : InFlight(n)' =>
          /\ \A i \in 1 .. Len(queue') : queue'[i][1] # n[1]
          /\ \A k \in Message : InFlight(k)' /\ k[1] = n[1] => k = n
    BY <1>2, <2>1, <2>2, <2>3, <2>5 DEF QueueInv, OneMessagePerFile
  <2>8. \A n \in Message : n[1] # m[1] => (Waiting(n)' => Waiting(n))
    BY <1>2, <2>1, <2>2, <2>3 DEF Waiting, InQueue
  <2>9. upload[m[1]] \notin {"new", "enqueue"}
    BY <1>1, <2>1, MessageParts DEF QueueInv, NotYetQueued, Waiting
  <2>10. NotYetQueued'
    BY <1>1, <2>8, <2>9 DEF QueueInv, NotYetQueued, Message
  <2> QED BY <2>6, <2>7, <2>10 DEF QueueInv, OneMessagePerFile
<1> QED BY <1>1, <1>3, <1>4

LEMMA QueueStep == ASSUME Typed, QueueInv, [Next]_vars PROVE QueueInv'
<1>1. Typed'
  BY TypeStep
<1>2. CASE UNCHANGED <<queue, lease, upload>>
  BY <1>1, <1>2, QueueUnchanged DEF Typed, FileTypeOK
<1>3. ASSUME NEW f \in File, Initialize(f) \/ CrashUpload(f) PROVE QueueInv'
  <2>1. CASE EnqueueFileProcessing(f)
    BY <2>1, EnqueueKeepsOne
  <2>2. CASE FinishAtOnce(f) \/ MarkQueued(f) \/ QueueFull(f) \/ MarkFailed(f) \/ CrashUpload(f)
    BY <1>1, <2>2, QueueUnchanged
    DEF FinishAtOnce, MarkQueued, QueueFull, MarkFailed, CrashUpload, Uploads, messages,
        Typed, FileTypeOK
  <2> QED BY <1>3, <2>1, <2>2 DEF Initialize
<1>4. ASSUME NEW f \in File, DeleteFile(f) \/ MarkTimedOutEmbedding(f) PROVE QueueInv'
  BY <1>2, <1>4 DEF DeleteFile, MarkTimedOutEmbedding, messages
<1>5. ASSUME NEW w \in Worker,
             \/ Crash(w) \/ OwnershipLost(w) \/ LookAtFile(w) \/ TryClaimFile(w)
             \/ ExtractFile(w) \/ EmbedFile(w) \/ EmbedTimesOut(w)
             \/ VerifyLease(w) \/ ResetForRetry(w) \/ FinalizeFailed(w)
             \/ ForceFailed(w) \/ OverwriteFailed(w) \/ LookUpFailed(w)
      PROVE  QueueInv'
  BY <1>2, <1>5
  DEF Crash, OwnershipLost, LookAtFile, TryClaimFile, ExtractFile, EmbedFile, EmbedTimesOut,
      VerifyLease, ResetForRetry, FinalizeFailed, ForceFailed, OverwriteFailed, LookUpFailed,
      UpdateClaimed, messages
<1>6. CASE Next
  BY <1>3, <1>4, <1>5, <1>6, DeliveryKeepsOne, ReleaseKeepsOne DEF Next, Handle
<1> QED BY <1>2, <1>6 DEF vars, messages

\* However often a message is delivered, requeued or settled, and whoever is
\* overtaken, a file has at most one message.
THEOREM OneMessage == FileSafe => []OneMessagePerFile
<1>1. Init => Typed /\ QueueInv
  BY FileAssumption
  DEF Init, Typed, FileTypeOK, JobsFit, Place, Result, QueueInv, OneMessagePerFile,
      NotYetQueued, Waiting, InQueue, InFlight, Message
<1>2. Typed /\ QueueInv /\ [Next]_vars => (Typed /\ QueueInv)'
  BY TypeStep, QueueStep
<1>3. QueueInv => OneMessagePerFile
  BY DEF QueueInv
<1> QED BY <1>1, <1>2, <1>3, PTL DEF FileSafe

-----------------------------------------------------------------------------
(***************************************************************************)
(* No file is lost: Calm lasts until somebody is overtaken.                *)
(***************************************************************************)
\* A file that is being handled was accepted, has one handler, and its
\* message is in flight.
LEMMA OneHandler ==
    ASSUME FileInv, overtaken = 0, NEW w \in Worker, pc[w] # "idle"
    PROVE  /\ job[w] \in Message /\ FileOf(w) \in File
           /\ lease[job[w]] = w /\ InFlight(job[w])
           /\ upload[FileOf(w)] = "accepted"
           /\ \A m \in Message : InQueue(m) => m[1] # FileOf(w)
           /\ \A m \in Message : InFlight(m) /\ m[1] = FileOf(w) => m = job[w]
           /\ \A v \in Worker : v # w /\ pc[v] # "idle" => FileOf(v) # FileOf(w)
           /\ \E n \in 0 .. MaxRetries : Waiting(<<FileOf(w), n>>)
<1>1. PICK m \in Message : m = job[w]
  BY DEF FileInv, JobsFit
<1>2. lease[m] = w /\ InFlight(m)
  BY <1>1, FileAssumption DEF FileInv, Calm, HandlersHold, InFlight
<1>3. m[1] \in File /\ m[2] \in 0 .. MaxRetries /\ m = <<m[1], m[2]>> /\ FileOf(w) = m[1]
  BY <1>1, MessageParts DEF FileOf
<1>4. Waiting(<<m[1], m[2]>>)
  BY <1>2, <1>3 DEF Waiting
<1>5. upload[m[1]] = "accepted"
  BY <1>3, <1>4 DEF FileInv, Calm, OnlyAccepted
<1>6. \A n \in Message : InQueue(n) => n[1] # m[1]
  BY <1>2 DEF FileInv, QueueInv, OneMessagePerFile, InQueue
<1>7. \A n \in Message : InFlight(n) /\ n[1] = m[1] => n = m
  BY <1>2 DEF FileInv, QueueInv, OneMessagePerFile
<1>8. ASSUME NEW v \in Worker, v # w, pc[v] # "idle" PROVE FileOf(v) # m[1]
  <2>1. job[v] \in Message /\ lease[job[v]] = v
    BY <1>8 DEF FileInv, JobsFit, Calm, HandlersHold
  <2>2. InFlight(job[v])
    BY <2>1, FileAssumption DEF InFlight
  <2> QED BY <1>2, <1>7, <1>8, <2>1, <2>2 DEF FileOf
<1> QED BY <1>1, <1>2, <1>3, <1>4, <1>5, <1>6, <1>7, <1>8

\* A step of the handler w that changes no message.
OnlyFile(f) ==
    /\ \A g \in File : g # f => status'[g] = status[g] /\ attempt'[g] = attempt[g]
    /\ status'[f] # "uploaded"

OnlyHandler(w) ==
    \A v \in Worker : v # w =>
        /\ pc'[v] = pc[v] /\ job'[v] = job[v]
        /\ redelivered'[v] = redelivered[v] /\ result'[v] = result[v]

SameJob(w) == job'[w] = job[w] \/ pc'[w] = "idle"

Fresh(w) ==
    pc[w] \in {"look", "claim"} /\ ~redelivered[w] => status[FileOf(w)] \notin Started

LEMMA StepKeepsCalm ==
    ASSUME FileInv, Typed', overtaken = 0, NEW w \in Worker, pc[w] # "idle",
           UNCHANGED <<upload, queue, lease>>,
           OnlyFile(FileOf(w)), OnlyHandler(w), SameJob(w),
           pc'[w] # "idle" => InPlace(w)' /\ Fresh(w)'
    PROVE  (overtaken = 0 => Calm)'
<1> SUFFICES ASSUME overtaken' = 0 PROVE Calm'
  OBVIOUS
<1>1. PICK m \in Message : m = job[w]
  BY DEF FileInv, JobsFit
<1>2. /\ FileOf(w) = m[1] /\ m[1] \in File
      /\ lease[m] = w /\ upload[m[1]] = "accepted"
      /\ \A n \in Message : InQueue(n) => n[1] # m[1]
      /\ \A v \in Worker : v # w /\ pc[v] # "idle" => FileOf(v) # m[1]
      /\ \E n \in 0 .. MaxRetries : Waiting(<<m[1], n>>)
  BY <1>1, OneHandler DEF FileOf
<1>3. \A n \in Message : (InQueue(n)' <=> InQueue(n)) /\ (Waiting(n)' <=> Waiting(n))
  BY DEF Waiting, InQueue, InFlight
<1>4. \A g \in File : g # m[1] => status'[g] = status[g] /\ attempt'[g] = attempt[g]
  BY <1>2 DEF OnlyFile
<1>5. \A v \in Worker : v # w =>
        /\ pc'[v] = pc[v] /\ job'[v] = job[v] /\ FileOf(v)' = FileOf(v)
        /\ redelivered'[v] = redelivered[v] /\ result'[v] = result[v]
        /\ pc[v] # "idle" => /\ FileOf(v) \in File
                             /\ status'[FileOf(v)] = status[FileOf(v)]
                             /\ attempt'[FileOf(v)] = attempt[FileOf(v)]
  BY <1>2, <1>4, OneHandler DEF OnlyHandler, FileOf
<1>6. HandlersHold'
  BY <1>1, <1>2, <1>5 DEF HandlersHold, SameJob, FileInv, Calm
<1>7. OnlyAccepted'
  BY <1>2, <1>3, <1>4 DEF OnlyAccepted, FileInv, Calm, Message
<1>8. FirstDelivery'
  <2>1. \A g \in File : upload'[g] = "accepted" => status'[g] # "uploaded"
    BY <1>2, <1>4 DEF OnlyFile, FirstDelivery, FileInv, Calm
  <2>2. \A n \in Message : InQueue(n)' => status'[n[1]] \notin Started
    BY <1>2, <1>3, <1>4, MessageParts DEF FirstDelivery, FileInv, Calm
  <2>3. \A v \in Worker :
          pc'[v] \in {"look", "claim"} /\ ~redelivered'[v] => status'[FileOf(v)'] \notin Started
    BY <1>5 DEF Fresh, FirstDelivery, FileInv, Calm
  <2> QED BY <2>1, <2>2, <2>3 DEF FirstDelivery
<1>9. HandlersInPlace'
  <2>1. ASSUME NEW v \in Worker, v # w PROVE InPlace(v)'
    BY <1>5, <2>1 DEF InPlace, OwnClaim, Over, HandlersInPlace, FileInv, Calm
  <2>2. pc'[w] = "idle" => InPlace(w)'
    BY DEF InPlace
  <2> QED BY <2>1, <2>2 DEF HandlersInPlace
<1>10. NoFileLost'
  <2>1. ASSUME NEW g \in File, upload'[g] = "accepted", status'[g] \notin Finished
        PROVE  \E n \in 0 .. MaxRetries : Waiting(<<g, n>>)
    BY <1>2, <1>4, <2>1 DEF NoFileLost, FileInv, Calm
  <2>2. \A g \in File, n \in 0 .. MaxRetries : Waiting(<<g, n>>)' <=> Waiting(<<g, n>>)
    BY <1>3 DEF Message
  <2> QED BY <2>1, <2>2 DEF NoFileLost
<1> QED BY <1>6, <1>7, <1>8, <1>9, <1>10 DEF Calm

\* How the step ends.
LEMMA ReturnEnds ==
    ASSUME Typed, NEW w \in Worker, Return(w)
    PROVE  OnlyHandler(w) /\ SameJob(w) /\ pc'[w] = "idle"
  BY DEF Return, OnlyHandler, SameJob, Typed, FileTypeOK

LEMMA GotoEnds ==
    ASSUME Typed, NEW w \in Worker, NEW to \in Place, Goto(w, to)
    PROVE  /\ OnlyHandler(w) /\ SameJob(w) /\ FileOf(w)' = FileOf(w)
           /\ pc'[w] = to /\ redelivered'[w] = redelivered[w]
  BY DEF Goto, OnlyHandler, SameJob, FileOf, Typed, FileTypeOK

LEMMA YieldEnds ==
    ASSUME Typed, NEW w \in Worker, NEW r \in Result, Yield(w, r)
    PROVE  /\ OnlyHandler(w) /\ SameJob(w) /\ FileOf(w)' = FileOf(w)
           /\ pc'[w] = "verify" /\ result'[w] = r
  BY DEF Yield, OnlyHandler, SameJob, FileOf, Typed, FileTypeOK

\* What the write of an attempt leaves in the rows.
LEMMA ClaimedWrite ==
    ASSUME Typed, NEW w \in Worker, FileOf(w) \in File, NEW a \in Answer,
           NEW s \in {"embedding"} \cup Finished, UpdateClaimed(w, a, s), OwnClaim(w)
    PROVE  /\ OnlyFile(FileOf(w))
           /\ Written(w, a) \in {"done", "error"}
           /\ Written(w, a) = "done" /\ s \in Finished => status'[FileOf(w)] \in Finished
           /\ \/ attempt'[FileOf(w)] = w /\ status'[FileOf(w)] \in Started
              \/ status'[FileOf(w)] \in Finished
           /\ s = "embedding" => attempt'[FileOf(w)] = w /\ status'[FileOf(w)] \in Started
  BY DEF Typed, FileTypeOK, UpdateClaimed, OwnClaim, OnlyFile, Written, Answer, Started, Finished

LEMMA ProcessKeepsCalm ==
    ASSUME FileInv, Typed', overtaken = 0, NEW w \in Worker,
           \/ Crash(w) \/ OwnershipLost(w) \/ LookAtFile(w) \/ TryClaimFile(w)
           \/ ExtractFile(w) \/ EmbedFile(w) \/ EmbedTimesOut(w)
    PROVE  (overtaken = 0 => Calm)'
<1> USE DEF Result, Place, Processing
<1>0. /\ pc[w] # "idle" /\ UNCHANGED <<upload, queue, lease>> /\ Typed
      /\ InPlace(w) /\ Fresh(w)
  BY DEF Crash, OwnershipLost, LookAtFile, TryClaimFile, ExtractFile, EmbedFile, EmbedTimesOut,
         UpdateClaimed, messages, FileInv, Typed, Calm, HandlersInPlace, FirstDelivery, Fresh
<1>1. FileOf(w) \in File /\ upload[FileOf(w)] = "accepted" /\ status[FileOf(w)] # "uploaded"
  BY <1>0, OneHandler DEF FileInv, Calm, FirstDelivery
<1>2. UNCHANGED <<status, attempt>> => OnlyFile(FileOf(w))
  BY <1>1 DEF OnlyFile
<1>3. CASE Crash(w) \/ OwnershipLost(w)
  BY <1>0, <1>2, <1>3, ReturnEnds, StepKeepsCalm DEF Crash, OwnershipLost, rows
<1>4. CASE LookAtFile(w)
  <2>1. UNCHANGED <<status, attempt>>
    BY <1>4 DEF LookAtFile, rows
  <2>2. CASE Yield(w, "refused")
    BY <1>0, <1>2, <2>1, <2>2, YieldEnds, StepKeepsCalm DEF InPlace, Fresh
  <2>3. CASE Over(w) /\ Yield(w, "untouched")
    BY <1>0, <1>2, <2>1, <2>3, YieldEnds, StepKeepsCalm DEF InPlace, Fresh, Over
  <2>4. CASE Goto(w, "claim")
    BY <1>0, <1>2, <1>4, <2>1, <2>4, GotoEnds, StepKeepsCalm DEF InPlace, Fresh, LookAtFile
  <2> QED BY <1>4, <2>2, <2>3, <2>4 DEF LookAtFile, Over
<1>5. CASE TryClaimFile(w)
  <2>1. PICK a \in Answer :
          /\ IF a # "fails" /\ Claimable(w)
             THEN /\ status' = [status EXCEPT ![FileOf(w)] = "extracting"]
                  /\ attempt' = [attempt EXCEPT ![FileOf(w)] = w]
             ELSE UNCHANGED <<status, attempt>>
          /\ CASE a # "ok" -> Yield(w, "refused")
               [] OTHER -> IF Claimable(w) THEN Goto(w, "extract") ELSE Yield(w, "untouched")
    BY <1>5 DEF TryClaimFile
  <2>2. OnlyFile(FileOf(w))
    BY <1>1, <1>2, <2>1 DEF OnlyFile, Typed, FileTypeOK, FileInv
  <2>3. CASE a # "ok"
    BY <1>0, <2>1, <2>2, <2>3, YieldEnds, StepKeepsCalm DEF InPlace, Fresh
  <2>4. CASE a = "ok" /\ Claimable(w)
    <3>1. attempt'[FileOf(w)] = w /\ status'[FileOf(w)] \in Started
      BY <1>1, <2>1, <2>4 DEF FileInv, FileTypeOK, Started
    <3> QED BY <1>0, <2>1, <2>2, <2>4, <3>1, GotoEnds, StepKeepsCalm
        DEF InPlace, Fresh, OwnClaim, Claiming
  <2>5. CASE a = "ok" /\ ~Claimable(w)
    <3>1. status[FileOf(w)] \in Finished
      BY <1>0, <1>1, <1>5, <2>5
      DEF Claimable, Fresh, TryClaimFile, FileInv, FileTypeOK, Started, Finished
    <3>2. status'[FileOf(w)] \in Finished /\ Yield(w, "untouched")
      BY <2>1, <2>5, <3>1
    <3> QED BY <1>0, <2>2, <3>2, YieldEnds, StepKeepsCalm DEF InPlace, Fresh, Over
  <2> QED BY <2>3, <2>4, <2>5
<1>6. CASE ExtractFile(w)
  <2>1. PICK a \in Answer, s \in {"embedding"} \cup Finished :
          /\ UpdateClaimed(w, a, s)
          /\ IF s = "embedding" /\ Written(w, a) = "done"
             THEN Goto(w, "embed")
             ELSE Yield(w, Written(w, a))
    BY <1>6 DEF ExtractFile
  <2>2. OwnClaim(w)
    BY <1>0, <1>6 DEF ExtractFile, InPlace
  <2>3. CASE s = "embedding" /\ Written(w, a) = "done"
    BY <1>0, <1>1, <2>1, <2>2, <2>3, ClaimedWrite, GotoEnds, StepKeepsCalm
    DEF InPlace, Fresh, OwnClaim
  <2>4. CASE ~(s = "embedding" /\ Written(w, a) = "done")
    BY <1>0, <1>1, <2>1, <2>2, <2>4, ClaimedWrite, YieldEnds, StepKeepsCalm
    DEF InPlace, Fresh, OwnClaim, Over
  <2> QED BY <2>3, <2>4
<1>7. CASE EmbedFile(w)
  <2>1. PICK a \in Answer : UpdateClaimed(w, a, "ready") /\ Yield(w, Written(w, a))
    BY <1>7 DEF EmbedFile
  <2>2. OwnClaim(w) /\ "ready" \in Finished
    BY <1>0, <1>7 DEF EmbedFile, InPlace, Finished
  <2> QED BY <1>0, <1>1, <2>1, <2>2, ClaimedWrite, YieldEnds, StepKeepsCalm
      DEF InPlace, Fresh, OwnClaim, Over
<1>8. CASE EmbedTimesOut(w)
  <2>1. OwnClaim(w) /\ UNCHANGED <<status, attempt>> /\ Yield(w, "error")
    BY <1>0, <1>8 DEF EmbedTimesOut, InPlace, rows
  <2> QED BY <1>0, <1>2, <2>1, YieldEnds, StepKeepsCalm DEF InPlace, Fresh, OwnClaim
<1> QED BY <1>3, <1>4, <1>5, <1>6, <1>7, <1>8

LEMMA ConcludeKeepsCalm ==
    ASSUME FileInv, Typed', overtaken = 0, NEW w \in Worker,
           \/ VerifyLease(w) \/ ResetForRetry(w) \/ FinalizeFailed(w)
           \/ ForceFailed(w) \/ OverwriteFailed(w) \/ LookUpFailed(w)
    PROVE  (overtaken = 0 => Calm)'
<1> USE DEF Result, Place
<1>0. pc[w] # "idle" /\ UNCHANGED <<upload, queue, lease>> /\ Typed /\ InPlace(w)
  BY DEF VerifyLease, ResetForRetry, FinalizeFailed, ForceFailed, OverwriteFailed, LookUpFailed,
         UpdateClaimed, messages, FileInv, Typed, Calm, HandlersInPlace
<1>1. FileOf(w) \in File /\ upload[FileOf(w)] = "accepted" /\ status[FileOf(w)] # "uploaded"
  BY <1>0, OneHandler DEF FileInv, Calm, FirstDelivery
<1>2. UNCHANGED <<status, attempt>> => OnlyFile(FileOf(w))
  BY <1>1 DEF OnlyFile
<1>3. Return(w) /\ OnlyFile(FileOf(w)) => (overtaken = 0 => Calm)'
  BY <1>0, ReturnEnds, StepKeepsCalm
<1>4. CASE VerifyLease(w)
  <2>1. OnlyFile(FileOf(w)) /\ UNCHANGED <<status, attempt>> /\ pc[w] = "verify"
    BY <1>2, <1>4 DEF VerifyLease, rows
  <2>2. CASE Return(w)
    BY <1>3, <2>1, <2>2
  <2>3. CASE result[w] \in {"done", "lost"} /\ Goto(w, "settle")
    BY <1>0, <2>1, <2>3, GotoEnds, StepKeepsCalm DEF InPlace, Fresh, Over
  <2>4. CASE result[w] = "error" /\ (Goto(w, "reset") \/ Goto(w, "finalize"))
    BY <1>0, <2>1, <2>4, GotoEnds, StepKeepsCalm DEF InPlace, Fresh, OwnClaim, Over, Claiming
  <2>5. CASE result[w] \notin {"done", "lost", "error", "refused"}
             /\ (Goto(w, "settle") \/ Goto(w, "lookup"))
    BY <1>0, <2>1, <2>5, GotoEnds, StepKeepsCalm DEF InPlace, Fresh, Over
  <2> QED BY <1>4, <2>2, <2>3, <2>4, <2>5 DEF VerifyLease, Conclude
<1>5. CASE ResetForRetry(w)
  <2>1. OnlyFile(FileOf(w))
    BY <1>1, <1>2, <1>5 DEF ResetForRetry, OnlyFile, FileInv, FileTypeOK
  <2>2. CASE Return(w)
    BY <1>3, <2>1, <2>2
  <2>3. CASE Goto(w, "requeue") /\ status'[FileOf(w)] = "queued"
    BY <1>0, <2>1, <2>3, GotoEnds, StepKeepsCalm DEF InPlace, Fresh
  <2> QED BY <1>1, <1>5, <2>2, <2>3 DEF ResetForRetry, FileInv, FileTypeOK
<1>6. CASE FinalizeFailed(w)
  <2>1. OnlyFile(FileOf(w)) /\ UNCHANGED <<status, attempt>> /\ pc[w] = "finalize"
    BY <1>2, <1>6 DEF FinalizeFailed, rows
  <2>2. CASE Return(w)
    BY <1>3, <2>1, <2>2
  <2>3. CASE Over(w) /\ Goto(w, "bury")
    BY <1>0, <2>1, <2>3, GotoEnds, StepKeepsCalm DEF InPlace, Fresh, Over
  <2>4. CASE ~Over(w) /\ Goto(w, "force")
    BY <1>0, <2>1, <2>4, GotoEnds, StepKeepsCalm DEF InPlace, Fresh, Over, OwnClaim, Claiming
  <2> QED BY <1>6, <2>2, <2>3, <2>4 DEF FinalizeFailed, Over
<1>7. CASE ForceFailed(w)
  <2>1. PICK a \in Answer :
          /\ UpdateClaimed(w, a, "failed")
          /\ CASE Written(w, a) = "error" -> Return(w)
               [] OTHER -> Goto(w, IF Written(w, a) = "done" THEN "bury" ELSE "overwrite")
    BY <1>7 DEF ForceFailed
  <2>2. OwnClaim(w) /\ "failed" \in Finished
    BY <1>0, <1>7 DEF ForceFailed, InPlace, Finished
  <2>3. CASE Return(w)
    BY <1>0, <1>1, <1>3, <2>1, <2>2, <2>3, ClaimedWrite
  <2>4. CASE Written(w, a) = "done" /\ Goto(w, "bury")
    BY <1>0, <1>1, <2>1, <2>2, <2>4, ClaimedWrite, GotoEnds, StepKeepsCalm DEF InPlace, Fresh, Over
  <2>5. Written(w, a) \in {"done", "error"}
    BY <1>0, <1>1, <2>1, <2>2, ClaimedWrite
  <2> QED BY <2>1, <2>3, <2>4, <2>5
<1>8. CASE OverwriteFailed(w)
  BY <1>0, <1>8 DEF OverwriteFailed, InPlace
<1>9. CASE LookUpFailed(w)
  <2>1. OnlyFile(FileOf(w)) /\ UNCHANGED <<status, attempt>> /\ pc[w] = "lookup"
    BY <1>2, <1>9 DEF LookUpFailed, rows
  <2>2. CASE Return(w)
    BY <1>3, <2>1, <2>2
  <2>3. CASE Goto(w, "bury") \/ Goto(w, "settle")
    BY <1>0, <2>1, <2>3, GotoEnds, StepKeepsCalm DEF InPlace, Fresh, Over
  <2> QED BY <1>9, <2>2, <2>3 DEF LookUpFailed
<1> QED BY <1>4, <1>5, <1>6, <1>7, <1>8, <1>9

\* A message in the queue, or one that nobody handles, is given to w.
LEMMA DeliveryKeepsCalm ==
    ASSUME FileInv, Typed', overtaken = 0, NEW w \in Worker, NEW m \in Message,
           NEW again \in BOOLEAN, pc[w] = "idle", Receive(w, m, again),
           Waiting(m), InFlight(m) => Abandoned(m),
           ~again => InQueue(m),
           \A n \in Message : InQueue(n)' => InQueue(n),
           \A n \in Message : InQueue(n) => n = m \/ InQueue(n)'
    PROVE  (overtaken = 0 => Calm)'
<1>1. /\ lease' = [lease EXCEPT ![m] = w] /\ pc' = [pc EXCEPT ![w] = "look"]
      /\ job' = [job EXCEPT ![w] = m] /\ redelivered' = [redelivered EXCEPT ![w] = again]
      /\ UNCHANGED <<status, attempt, upload, result>>
  BY DEF Receive, rows
<1>2. /\ pc'[w] = "look" /\ job'[w] = m /\ redelivered'[w] = again
      /\ FileOf(w)' = m[1] /\ lease'[m] = w
  BY <1>1 DEF FileInv, FileTypeOK, FileOf
<1>3. \A v \in Worker : v # w =>
        /\ pc'[v] = pc[v] /\ job'[v] = job[v] /\ FileOf(v)' = FileOf(v)
        /\ redelivered'[v] = redelivered[v]
  BY <1>1 DEF FileInv, FileTypeOK, FileOf
<1>4. \A n \in Message : n # m => lease'[n] = lease[n]
  BY <1>1 DEF FileInv, FileTypeOK
<1>5. \A n \in Message : Waiting(n)' <=> Waiting(n)
  <2>1. InFlight(m)'
    BY <1>2, FileAssumption DEF InFlight
  <2> QED BY <1>4, <2>1 DEF Waiting, InFlight
<1>6. HandlersHold'
  <2>1. ASSUME NEW v \in Worker, v # w, pc[v] # "idle" PROVE lease'[job[v]] = v
    <3>1. /\ job[v] \in Message /\ lease[job[v]] = v /\ InFlight(job[v])
          /\ \A n \in Message : InQueue(n) => n[1] # job[v][1]
      BY <2>1, OneHandler DEF FileOf
    <3>2. job[v] # m
      BY <2>1, <3>1 DEF Waiting, Abandoned, Handles
    <3> QED BY <1>4, <3>1, <3>2
  <2> QED BY <1>2, <1>3, <2>1 DEF HandlersHold
<1>7. OnlyAccepted'
  BY <1>1, <1>5 DEF OnlyAccepted, FileInv, Calm, Message
<1>8. FirstDelivery'
  BY <1>1, <1>2, <1>3 DEF FirstDelivery, FileInv, Calm
<1>9. HandlersInPlace'
  BY <1>1, <1>2, <1>3 DEF HandlersInPlace, InPlace, OwnClaim, Over, FileInv, Calm
<1>10. NoFileLost'
  <2>1. \A g \in File, n \in 0 .. MaxRetries : Waiting(<<g, n>>)' <=> Waiting(<<g, n>>)
    BY <1>5 DEF Message
  <2> QED BY <1>1, <2>1 DEF NoFileLost, FileInv, Calm
<1> QED BY <1>6, <1>7, <1>8, <1>9, <1>10 DEF Calm

LEMMA ReadKeepsCalm ==
    ASSUME FileInv, Typed', overtaken = 0, NEW w \in Worker, ReadMessage(w)
    PROVE  (overtaken = 0 => Calm)'
<1>1. PICK m \in Message : m = Head(queue) /\ m = queue[1]
  BY TailIndex DEF ReadMessage, FileInv, FileTypeOK
<1>2. /\ Len(queue) \in Nat \ {0} /\ Len(queue') = Len(queue) - 1
      /\ \A i \in 1 .. Len(queue') : queue'[i] = queue[i + 1] /\ i + 1 \in 1 .. Len(queue)
  BY TailIndex DEF ReadMessage, FileInv, FileTypeOK
<1>3. InQueue(m) /\ ~InFlight(m)
  BY <1>1, <1>2 DEF InQueue, FileInv, QueueInv, OneMessagePerFile
<1>4. \A n \in Message : InQueue(n)' => InQueue(n)
  BY <1>2 DEF InQueue
<1>5. ASSUME NEW n \in Message, InQueue(n), n # m PROVE InQueue(n)'
  <2>1. PICK i \in 1 .. Len(queue) : queue[i] = n
    BY <1>5 DEF InQueue
  <2>2. i - 1 \in 1 .. Len(queue') /\ queue'[i - 1] = queue[(i - 1) + 1]
    BY <1>1, <1>2, <1>5, <2>1
  <2> QED BY <2>1, <2>2 DEF InQueue
<1> QED BY <1>1, <1>3, <1>4, <1>5, DeliveryKeepsCalm DEF ReadMessage, Waiting

LEMMA ClaimKeepsCalm ==
    ASSUME FileInv, Typed', overtaken = 0, NEW w \in Worker, NEW m \in Message,
           ClaimTimedOut(w, m)
    PROVE  (overtaken = 0 => Calm)'
<1>1. CASE Abandoned(m)
  <2>1. \A n \in Message : InQueue(n)' <=> InQueue(n)
    BY DEF ClaimTimedOut, InQueue
  <2> QED BY <1>1, <2>1, DeliveryKeepsCalm DEF ClaimTimedOut, Waiting, InFlight
<1>2. CASE ~Abandoned(m)
  BY <1>2 DEF ClaimTimedOut, OvertakenIf
<1> QED BY <1>1, <1>2

\* A message goes once its file is finished, or a new one takes its place.
LEMMA ReleaseKeepsCalm ==
    ASSUME FileInv, QueueInv', Typed', overtaken = 0, NEW w \in Worker,
           Requeue(w) \/ Settle(w) \/ DeadLetter(w)
    PROVE  (overtaken = 0 => Calm)'
<1>1. PICK m \in Message : m = job[w] /\ pc[w] # "idle"
  BY DEF Requeue, Settle, DeadLetter, FileInv, JobsFit
<1>2. /\ FileOf(w) = m[1] /\ m[1] \in File /\ upload[m[1]] = "accepted"
      /\ InFlight(m)
      /\ \A n \in Message : InFlight(n) /\ n[1] = m[1] => n = m
      /\ \A v \in Worker : v # w /\ pc[v] # "idle" => FileOf(v) # m[1]
  BY <1>1, OneHandler DEF FileOf
<1>3. /\ Return(w) /\ UNCHANGED <<status, attempt, upload>>
      /\ lease' = lease \/ lease' = [lease EXCEPT ![m] = None]
  BY <1>1 DEF Requeue, Settle, DeadLetter, Release, rows
<1>4. pc'[w] = "idle" /\ OnlyHandler(w)
  BY <1>3, ReturnEnds DEF FileInv, Typed
<1>5. \A v \in Worker : v # w => FileOf(v)' = FileOf(v)
  BY <1>4 DEF OnlyHandler, FileOf
<1>6. HandlersHold'
  <2>1. ASSUME NEW v \in Worker, v # w, pc[v] # "idle" PROVE lease'[job[v]] = v
    <3>1. job[v] # m /\ job[v] \in Message /\ lease[job[v]] = v
      BY <1>2, <2>1, OneHandler DEF FileOf
    <3> QED BY <1>3, <3>1 DEF FileInv, FileTypeOK
  <2> QED BY <1>4, <2>1 DEF HandlersHold, OnlyHandler
<1>7. HandlersInPlace'
  BY <1>3, <1>4, <1>5 DEF HandlersInPlace, InPlace, OwnClaim, Over, OnlyHandler, FileInv, Calm
<1>8. \A n \in Message : n[1] # m[1] => (Waiting(n)' <=> Waiting(n)) /\ (InQueue(n)' => InQueue(n))
  <2>1. \A n \in Message : n[1] # m[1] => (InFlight(n)' <=> InFlight(n))
    BY <1>3 DEF InFlight, FileInv, FileTypeOK
  <2>2. CASE queue' = queue
    BY <2>1, <2>2 DEF Waiting, InQueue
  <2>3. CASE queue' = Append(queue, <<m[1], m[2] + 1>>) /\ Requeue(w)
    <3>1. <<m[1], m[2] + 1>> \in Message
      BY <1>1, <2>3, MessageParts, FileAssumption DEF Requeue, Message, FileInv, JobsFit
    <3>2. /\ Len(queue) \in Nat /\ Len(queue') = Len(queue) + 1
          /\ queue'[Len(queue) + 1] = <<m[1], m[2] + 1>>
          /\ \A i \in 1 .. Len(queue) : queue'[i] = queue[i]
      BY <2>3, <3>1, AppendIndex DEF FileInv, FileTypeOK
    <3>3. \A i \in 1 .. Len(queue') : i \in 1 .. Len(queue) \/ i = Len(queue) + 1
      BY <3>2
    <3> QED BY <2>1, <3>2, <3>3 DEF Waiting, InQueue
  <2> QED BY <1>1, <1>2, <2>2, <2>3 DEF Requeue, Settle, DeadLetter
<1>9. OnlyAccepted'
  BY <1>2, <1>3, <1>8 DEF OnlyAccepted, FileInv, Calm, Message
<1>10. CASE Settle(w) \/ DeadLetter(w)
  <2>1. status[m[1]] \in Finished /\ queue' = queue
    BY <1>2, <1>10 DEF Settle, DeadLetter, FileInv, Calm, HandlersInPlace, InPlace, Over
  <2>2. FirstDelivery'
    BY <1>3, <1>4, <1>5, <2>1 DEF FirstDelivery, OnlyHandler, InQueue, FileInv, Calm
  <2>3. ASSUME NEW g \in File, upload[g] = "accepted", status[g] \notin Finished
        PROVE  \E n \in 0 .. MaxRetries : Waiting(<<g, n>>)'
    <3>1. PICK n \in 0 .. MaxRetries : Waiting(<<g, n>>)
      BY <2>3 DEF NoFileLost, FileInv, Calm
    <3>2. <<g, n>> \in Message /\ <<g, n>>[1] # m[1]
      BY <2>1, <2>3 DEF Message
    <3> QED BY <1>8, <3>1, <3>2
  <2>4. NoFileLost'
    BY <1>3, <2>3 DEF NoFileLost
  <2> QED BY <1>6, <1>7, <1>9, <2>2, <2>4 DEF Calm
<1>11. CASE Requeue(w)
  <2>1. status[m[1]] = "queued"
    BY <1>2, <1>11 DEF Requeue, FileInv, Calm, HandlersInPlace, InPlace
  <2>2. FirstDelivery'
    <3>1. \A n \in Message : InQueue(n)' => status'[n[1]] \notin Started
      BY <1>3, <1>8, <2>1 DEF FirstDelivery, FileInv, Calm, Started
    <3> QED BY <1>3, <1>4, <1>5, <3>1 DEF FirstDelivery, OnlyHandler, FileInv, Calm
  <2>3. \E n \in 0 .. MaxRetries : Waiting(<<m[1], n>>)'
    <3>1. CASE lease' = lease
      BY <1>2, <3>1, MessageParts DEF Waiting, InFlight
    <3>2. CASE queue' = Append(queue, <<m[1], m[2] + 1>>)
      <4>1. <<m[1], m[2] + 1>> \in Message /\ m[2] + 1 \in 0 .. MaxRetries
        BY <1>1, <1>11, MessageParts, FileAssumption DEF Requeue, Message, FileInv, JobsFit
      <4>2. /\ Len(queue) \in Nat /\ Len(queue') = Len(queue) + 1
            /\ queue'[Len(queue) + 1] = <<m[1], m[2] + 1>>
        BY <3>2, <4>1, AppendIndex DEF FileInv, FileTypeOK
      <4>3. Len(queue) + 1 \in 1 .. Len(queue')
        BY <4>2
      <4> QED BY <4>1, <4>2, <4>3 DEF Waiting, InQueue
    <3> QED BY <1>1, <1>2, <1>11, <3>1, <3>2 DEF Requeue, Release
  <2>4. ASSUME NEW g \in File, g # m[1], upload[g] = "accepted", status[g] \notin Finished
        PROVE  \E n \in 0 .. MaxRetries : Waiting(<<g, n>>)'
    <3>1. PICK n \in 0 .. MaxRetries : Waiting(<<g, n>>)
      BY <2>4 DEF NoFileLost, FileInv, Calm
    <3>2. <<g, n>> \in Message /\ <<g, n>>[1] # m[1]
      BY <2>4 DEF Message
    <3> QED BY <1>8, <3>1, <3>2
  <2>5. NoFileLost'
    BY <1>3, <2>3, <2>4 DEF NoFileLost
  <2> QED BY <1>6, <1>7, <1>9, <2>2, <2>5 DEF Calm
<1> QED BY <1>10, <1>11

\* A request changes the row of a file that nobody handles, and perhaps adds
\* its first message.
LEMMA RequestKeepsCalm ==
    ASSUME FileInv, Typed', overtaken = 0, NEW f \in File,
           UNCHANGED <<attempt, lease, handlers>>,
           \A g \in File : g # f => status'[g] = status[g] /\ upload'[g] = upload[g],
           \A w \in Worker : pc[w] # "idle" => FileOf(w) # f,
           \A m \in Message : m[1] # f => (InQueue(m)' <=> InQueue(m)),
           status'[f] \notin Started,
           upload'[f] # "accepted" =>
               /\ \A n \in 0 .. MaxRetries : ~Waiting(<<f, n>>)'
               /\ upload'[f] = "new" => status'[f] = "uploaded"
               /\ upload'[f] \in {"enqueue", "refuse"} => status'[f] = "queued",
           upload'[f] = "accepted" =>
               /\ status'[f] # "uploaded"
               /\ status'[f] \notin Finished => \E n \in 0 .. MaxRetries : Waiting(<<f, n>>)'
    PROVE  (overtaken = 0 => Calm)'
<1>1. \A w \in Worker : /\ pc'[w] = pc[w] /\ FileOf(w)' = FileOf(w)
                        /\ redelivered'[w] = redelivered[w] /\ result'[w] = result[w]
                        /\ pc[w] # "idle" => /\ FileOf(w) \in File
                                             /\ status'[FileOf(w)] = status[FileOf(w)]
  BY OneHandler DEF handlers, FileOf
<1>2. \A m \in Message : m[1] # f => (Waiting(m)' <=> Waiting(m))
  BY DEF Waiting, InFlight
<1>3. HandlersHold'
  BY DEF HandlersHold, handlers, FileInv, Calm
<1>4. OnlyAccepted'
  <2>1. \A g \in File, n \in 0 .. MaxRetries :
          <<g, n>> \in Message /\ (g # f => (Waiting(<<g, n>>)' <=> Waiting(<<g, n>>)))
    BY <1>2 DEF Message
  <2> QED BY <2>1 DEF OnlyAccepted, FileInv, Calm
<1>5. FirstDelivery'
  <2>1. \A w \in Worker :
          pc'[w] \in {"look", "claim"} /\ ~redelivered'[w] => status'[FileOf(w)'] \notin Started
    BY <1>1 DEF FirstDelivery, FileInv, Calm
  <2>2. \A m \in Message : InQueue(m)' => status'[m[1]] \notin Started
    BY MessageParts DEF FirstDelivery, FileInv, Calm
  <2>3. \A g \in File : upload'[g] = "accepted" => status'[g] # "uploaded"
    BY DEF FirstDelivery, FileInv, Calm
  <2> QED BY <2>1, <2>2, <2>3 DEF FirstDelivery
<1>6. HandlersInPlace'
  BY <1>1 DEF HandlersInPlace, InPlace, OwnClaim, Over, FileInv, Calm
<1>7. NoFileLost'
  <2>1. \A g \in File, n \in 0 .. MaxRetries :
          <<g, n>> \in Message /\ (g # f => (Waiting(<<g, n>>)' <=> Waiting(<<g, n>>)))
    BY <1>2 DEF Message
  <2> QED BY <2>1 DEF NoFileLost, FileInv, Calm
<1> QED BY <1>3, <1>4, <1>5, <1>6, <1>7 DEF Calm

LEMMA UploadKeepsCalm ==
    ASSUME FileInv, Typed', overtaken = 0, NEW f \in File, Initialize(f) \/ CrashUpload(f)
    PROVE  (overtaken = 0 => Calm)'
<1>1. /\ upload[f] \in {"new", "enqueue", "refuse"}
      /\ UNCHANGED <<attempt, lease, handlers>>
      /\ \A g \in File : g # f => status'[g] = status[g] /\ upload'[g] = upload[g]
  BY DEF Initialize, FinishAtOnce, MarkQueued, EnqueueFileProcessing, QueueFull, MarkFailed,
         CrashUpload, Uploads, rows, messages, FileInv, FileTypeOK
<1>2. /\ \A n \in 0 .. MaxRetries : ~Waiting(<<f, n>>)
      /\ status[f] \notin Started
      /\ upload[f] \in {"enqueue", "refuse"} => status[f] = "queued"
  BY <1>1 DEF FileInv, Calm, OnlyAccepted
<1>3. \A w \in Worker : pc[w] # "idle" => FileOf(w) # f
  BY <1>1, OneHandler
<1>4. CASE EnqueueFileProcessing(f) /\ queue' # queue
  <2>1. SUFFICES ASSUME overtaken' = 0 PROVE (overtaken = 0 => Calm)'
    OBVIOUS
  <2>2. /\ queue' = Append(queue, <<f, 0>>) /\ UNCHANGED status
        /\ upload[f] = "enqueue" /\ upload'[f] = "accepted"
    BY <1>4, <2>1 DEF EnqueueFileProcessing, OvertakenIf, Uploads, rows, Answer, FileInv, FileTypeOK
  <2>3. <<f, 0>> \in Message /\ 0 \in 0 .. MaxRetries
    BY FileAssumption DEF Message
  <2>4. /\ Len(queue) \in Nat /\ Len(queue') = Len(queue) + 1
        /\ queue'[Len(queue) + 1] = <<f, 0>>
        /\ \A i \in 1 .. Len(queue) : queue'[i] = queue[i]
    BY <2>2, <2>3, AppendIndex DEF FileInv, FileTypeOK
  <2>5. /\ Len(queue) + 1 \in 1 .. Len(queue')
        /\ \A i \in 1 .. Len(queue') : i \in 1 .. Len(queue) \/ i = Len(queue) + 1
    BY <2>4
  <2>6. \A m \in Message : m[1] # f => (InQueue(m)' <=> InQueue(m))
    BY <2>4, <2>5 DEF InQueue
  <2>7. Waiting(<<f, 0>>)'
    BY <2>4, <2>5 DEF Waiting, InQueue
  <2> QED BY <1>1, <1>2, <1>3, <2>2, <2>3, <2>6, <2>7, RequestKeepsCalm
<1>5. CASE ~(EnqueueFileProcessing(f) /\ queue' # queue)
  <2>1. UNCHANGED queue
    BY <1>5 DEF Initialize, FinishAtOnce, MarkQueued, EnqueueFileProcessing, QueueFull, MarkFailed,
                CrashUpload, messages
  <2>2. \A m : (InQueue(m)' <=> InQueue(m)) /\ (Waiting(m)' <=> Waiting(m))
    BY <1>1, <2>1 DEF Waiting, InQueue, InFlight
  <2>3. /\ status'[f] = status[f] \/ status'[f] \in Finished \cup {"queued"}
        /\ upload'[f] # "new"
        /\ upload'[f] \in {"enqueue", "refuse"} => status'[f] = "queued"
    BY <1>1, <1>2 DEF Initialize, FinishAtOnce, MarkQueued, EnqueueFileProcessing, QueueFull, MarkFailed,
                CrashUpload, Uploads, rows, Finished, FileInv, FileTypeOK
  <2>4. upload'[f] = "accepted" => EnqueueFileProcessing(f) /\ queue' = Append(queue, <<f, 0>>)
    BY <1>1 DEF Initialize, FinishAtOnce, MarkQueued, EnqueueFileProcessing, QueueFull, MarkFailed,
                CrashUpload, Uploads, FileInv, FileTypeOK
  <2>5. <<f, 0>> \in Message
    BY FileAssumption DEF Message
  <2>6. upload'[f] # "accepted"
    BY <1>5, <2>4, <2>5, AppendIndex DEF FileInv, FileTypeOK
  <2> QED BY <1>1, <1>2, <1>3, <2>2, <2>3, <2>6, RequestKeepsCalm DEF Started, Finished
<1> QED BY <1>4, <1>5

\* An embedding timed out whose worker is gone; the row of a deleted file.
LEMMA OthersKeepCalm ==
    ASSUME FileInv, Typed', overtaken = 0, NEW f \in File,
           DeleteFile(f) \/ MarkTimedOutEmbedding(f)
    PROVE  (overtaken = 0 => Calm)'
<1>1. UNCHANGED <<attempt, upload, queue, lease, handlers>>
  BY DEF DeleteFile, MarkTimedOutEmbedding, messages
<1>2. \A m : (InQueue(m)' <=> InQueue(m)) /\ (Waiting(m)' <=> Waiting(m))
  BY <1>1 DEF Waiting, InQueue, InFlight
<1>3. CASE DeleteFile(f)
  BY <1>1, <1>2, <1>3
  DEF DeleteFile, Calm, HandlersHold, OnlyAccepted, FirstDelivery, HandlersInPlace, InPlace,
      OwnClaim, Over, NoFileLost, handlers, history, FileOf, FileInv
<1>4. CASE MarkTimedOutEmbedding(f)
  <2> SUFFICES ASSUME overtaken' = 0 PROVE Calm'
    OBVIOUS
  <2>1. /\ status[f] = "embedding" /\ status'[f] = "ready"
        /\ \A g \in File : g # f => status'[g] = status[g]
        /\ \A w \in Worker : pc[w] \in Claiming => attempt[f] # w
    BY <1>4 DEF MarkTimedOutEmbedding, OvertakenIf, FileInv, FileTypeOK
  <2>2. \A w \in Worker : pc[w] # "idle" => FileOf(w) \in File
    BY OneHandler
  <2>3. HandlersHold'
    BY <1>1 DEF HandlersHold, handlers, FileInv, Calm
  <2>4. OnlyAccepted' /\ NoFileLost'
    BY <1>1, <1>2, <2>1 DEF OnlyAccepted, NoFileLost, FileInv, Calm, Started, Finished
  <2>5. FirstDelivery'
    BY <1>1, <1>2, <2>1, <2>2, MessageParts
    DEF FirstDelivery, FileInv, Calm, Started, Finished, FileOf, handlers
  <2>6. ASSUME NEW w \in Worker PROVE InPlace(w)'
    <3>1. InPlace(w) /\ (pc[w] # "idle" => FileOf(w) \in File)
      BY <2>2 DEF FileInv, Calm, HandlersInPlace
    <3>2. CASE pc[w] = "idle"
      BY <1>1, <3>2 DEF InPlace, handlers
    <3>3. CASE pc[w] # "idle" /\ FileOf(w) # f
      BY <1>1, <2>1, <3>1, <3>3 DEF InPlace, OwnClaim, Over, FileOf, handlers
    <3>4. CASE pc[w] # "idle" /\ FileOf(w) = f
      <4>1. FileOf(w)' = FileOf(w) /\ pc'[w] = pc[w] /\ result'[w] = result[w]
        BY <1>1 DEF FileOf, handlers
      <4>2. status[f] \in Started /\ status[f] \notin Finished /\ Over(w)'
        BY <2>1, <3>4, <4>1 DEF Over, Started, Finished
      <4>3. pc[w] \in Claiming => ~OwnClaim(w)
        BY <2>1, <3>4 DEF OwnClaim
      <4> QED BY <2>1, <3>1, <3>4, <4>1, <4>2, <4>3 DEF InPlace, Over, Claiming
    <3> QED BY <3>2, <3>3, <3>4
  <2> QED BY <2>3, <2>4, <2>5, <2>6 DEF Calm, HandlersInPlace
<1> QED BY <1>3, <1>4

LEMMA CalmStep == ASSUME FileInv, Typed', QueueInv', [Next]_vars PROVE (overtaken = 0 => Calm)'
<1>1. CASE UNCHANGED vars
  <2>1. \A m : (InQueue(m)' <=> InQueue(m)) /\ (Waiting(m)' <=> Waiting(m))
    BY <1>1 DEF vars, messages, Waiting, InQueue, InFlight
  <2> QED BY <1>1, <2>1
      DEF vars, rows, messages, handlers, history, Calm, HandlersHold, OnlyAccepted,
          FirstDelivery, HandlersInPlace, InPlace, OwnClaim, Over, NoFileLost, FileOf, FileInv
<1>2. CASE Next /\ overtaken = 0
  BY <1>2, UploadKeepsCalm, OthersKeepCalm, ReadKeepsCalm, ClaimKeepsCalm, ProcessKeepsCalm,
     ConcludeKeepsCalm, ReleaseKeepsCalm
  DEF Next, Handle
<1>3. CASE Next /\ overtaken # 0
  <2>1. ASSUME NEW so, OvertakenIf(so) PROVE overtaken' # 0
    BY <1>3, <2>1 DEF OvertakenIf, FileInv, FileTypeOK
  <2>2. overtaken' # 0
    BY <1>3, <2>1
    DEF Next, Initialize, FinishAtOnce, MarkQueued, EnqueueFileProcessing, QueueFull, MarkFailed,
        CrashUpload, DeleteFile, MarkTimedOutEmbedding, ReadMessage, ClaimTimedOut, Crash, Handle,
        OwnershipLost, LookAtFile, TryClaimFile, ExtractFile, EmbedFile, EmbedTimesOut, VerifyLease,
        ResetForRetry, Requeue, FinalizeFailed, ForceFailed, OverwriteFailed, DeadLetter,
        LookUpFailed, Settle, UpdateClaimed, Release, history
  <2> QED BY <2>2
<1> QED BY <1>1, <1>2, <1>3

LEMMA FileInvHolds == FileSafe => []FileInv
<1>1. Init => FileInv
  BY FileAssumption
  DEF Init, FileInv, FileTypeOK, JobsFit, Place, Result, QueueInv, OneMessagePerFile,
      NotYetQueued, Waiting, InQueue, InFlight, Message, Calm, HandlersHold, OnlyAccepted,
      FirstDelivery, HandlersInPlace, InPlace, NoFileLost, Started
<1>2. FileInv /\ [Next]_vars => FileInv'
  BY TypeStep, QueueStep, CalmStep DEF FileInv, Typed
<1> QED BY <1>1, <1>2, PTL DEF FileSafe

\* As long as nobody is overtaken, a file that was handed to the queue and is
\* not finished has a message: whatever crashes, fails or is delivered twice.
THEOREM NoFileIsLost == FileSafe => []NoFileLost
<1>1. FileInv => NoFileLost
  BY DEF FileInv, Calm, NoFileLost
<1> QED BY <1>1, FileInvHolds, PTL

-----------------------------------------------------------------------------
(***************************************************************************)
(* The queue keeps the safety part of FileOutcome.                         *)
(***************************************************************************)
\* A step that changes the row of one file, and finished ones only when the
\* promise is void.
LEMMA OneFileChanges ==
    ASSUME FileTypeOK, FileTypeOK', NEW f \in File,
           \A g \in File : g # f =>
               status'[g] = status[g] /\ active'[g] = active[g] /\ upload'[g] = upload[g],
           active'[f] => active[f],
           upload[f] = "accepted" => upload'[f] = "accepted",
           overtaken = 0 /\ status[f] \in Finished => status'[f] = status[f],
           overtaken' = overtaken
    PROVE  [Promise!Next]_(Promise!vars)
<1> DEFINE o == [g \in File |-> Outcome(g)]
<1>1. \A g \in File : g # f => Outcome(g)' = Outcome(g)
  BY DEF Outcome
<1>2. o' = [o EXCEPT ![f] = Outcome(f)']
  BY <1>1
<1>3. Outcome(f) \in {"none", "pending", "deleted"} \cup Finished
  BY DEF Outcome, FileTypeOK
<1>4. Outcome(f)' \in {"none", "pending", "deleted"} \cup Finished
  BY DEF Outcome, FileTypeOK
<1>5. /\ Outcome(f) = "deleted" => Outcome(f)' = "deleted"
      /\ Outcome(f) = "pending" => Outcome(f)' # "none"
      /\ overtaken = 0 /\ Outcome(f) \in Finished => Outcome(f)' \in {Outcome(f), "deleted"}
  BY DEF Outcome, Finished
<1>6. CASE Outcome(f)' = Outcome(f)
  BY <1>1, <1>6 DEF Promise!vars
<1>7. CASE Outcome(f)' = "deleted" /\ Outcome(f) # "deleted"
  BY <1>2, <1>7 DEF Promise!Next, Promise!Delete, Promise!Becomes
<1>8. CASE Outcome(f) \in {"none", "pending"} /\ Outcome(f)' \in Finished
  BY <1>2, <1>8 DEF Promise!Next, Promise!Decide, Promise!Becomes, Promise!Decided, Finished
<1>9. CASE Outcome(f) = "none" /\ Outcome(f)' = "pending"
  BY <1>2, <1>9 DEF Promise!Next, Promise!Accept, Promise!Becomes
<1>10. CASE Outcome(f) \in Finished /\ Outcome(f)' \in {"none", "pending"} \cup Finished
            /\ Outcome(f)' # Outcome(f)
  <2>1. overtaken # 0
    BY <1>5, <1>10 DEF Finished
  <2> QED BY <1>2, <1>10, <2>1
      DEF Promise!Next, Promise!DecideAgain, Promise!Becomes, Promise!Decided, Finished
<1> QED BY <1>3, <1>4, <1>5, <1>6, <1>7, <1>8, <1>9, <1>10

PromiseStep == [Promise!Next]_(Promise!vars)

LEMMA RowsUnchanged ==
    ASSUME UNCHANGED <<status, active, upload, overtaken>>
    PROVE  PromiseStep
  BY DEF PromiseStep, Promise!vars, Outcome

LEMMA UploadKeepsPromise ==
    ASSUME FileInv, FileTypeOK', NEW f \in File, Initialize(f) \/ CrashUpload(f)
    PROVE  PromiseStep
<1>1. /\ upload[f] \in {"new", "enqueue", "refuse"} /\ UNCHANGED active
      /\ \A g \in File : g # f => status'[g] = status[g] /\ upload'[g] = upload[g]
  BY DEF Initialize, FinishAtOnce, MarkQueued, EnqueueFileProcessing, QueueFull, MarkFailed,
         CrashUpload, Uploads, rows, FileInv, FileTypeOK
<1>2. overtaken = 0 => status[f] \notin Finished
  BY <1>1 DEF FileInv, Calm, OnlyAccepted, Finished
<1>3. CASE overtaken' = overtaken
  BY <1>1, <1>2, <1>3, OneFileChanges DEF FileInv, PromiseStep
<1>4. CASE overtaken' # overtaken
  <2>1. /\ EnqueueFileProcessing(f) /\ UNCHANGED rows
        /\ upload[f] = "enqueue" /\ upload'[f] # "accepted"
        /\ overtaken' # 0
    BY <1>4
    DEF Initialize, FinishAtOnce, MarkQueued, EnqueueFileProcessing, QueueFull, MarkFailed,
        CrashUpload, Uploads, OvertakenIf, history, FileInv, FileTypeOK
  <2>2. \A g \in File : Outcome(g)' = Outcome(g)
    BY <1>1, <2>1 DEF rows, Outcome
  <2>3. [g \in File |-> Outcome(g)]' = [g \in File |-> Outcome(g)]
    BY <2>2
  <2> QED BY <2>1, <2>3 DEF PromiseStep, Promise!Next, Promise!Overtake
<1> QED BY <1>3, <1>4

LEMMA OthersKeepPromise ==
    ASSUME FileInv, FileTypeOK', NEW f \in File, DeleteFile(f) \/ MarkTimedOutEmbedding(f)
    PROVE  PromiseStep
<1>1. UNCHANGED upload
  BY DEF DeleteFile, MarkTimedOutEmbedding
<1>2. CASE DeleteFile(f)
  BY <1>1, <1>2, OneFileChanges DEF DeleteFile, history, FileInv, FileTypeOK, PromiseStep
<1>3. CASE MarkTimedOutEmbedding(f)
  <2>1. /\ status[f] = "embedding" /\ status' = [status EXCEPT ![f] = "ready"]
        /\ active[f] /\ UNCHANGED active
        /\ overtaken' = overtaken \/ overtaken' = overtaken + 1
    BY <1>3 DEF MarkTimedOutEmbedding, OvertakenIf
  <2>2. CASE overtaken' = overtaken
    BY <1>1, <2>1, <2>2, OneFileChanges DEF FileInv, FileTypeOK, PromiseStep, Finished
  <2>3. CASE overtaken' = overtaken + 1 /\ overtaken # 0
    <3>1. /\ \A g \in File : g # f => Outcome(g)' = Outcome(g)
          /\ Outcome(f) \in {"none", "pending"} /\ Outcome(f)' = "ready"
      BY <1>1, <2>1 DEF Outcome, FileInv, FileTypeOK, Finished
    <3>2. [g \in File |-> Outcome(g)]' = [[g \in File |-> Outcome(g)] EXCEPT ![f] = "ready"]
      BY <3>1
    <3>3. overtaken' # 0
      BY <2>3 DEF FileInv, FileTypeOK
    <3> QED BY <2>3, <3>1, <3>2, <3>3
        DEF PromiseStep, Promise!Next, Promise!Decide, Promise!Becomes, Promise!Decided
  <2>4. CASE overtaken' = overtaken + 1 /\ overtaken = 0
    <3>1. upload[f] = "accepted"
      BY <2>1, <2>4 DEF FileInv, Calm, OnlyAccepted, Started
    <3>2. /\ \A g \in File : g # f => Outcome(g)' = Outcome(g)
          /\ Outcome(f) = "pending" /\ Outcome(f)' = "ready"
      BY <1>1, <2>1, <3>1 DEF Outcome, FileInv, FileTypeOK, Finished
    <3>3. [g \in File |-> Outcome(g)]' = [[g \in File |-> Outcome(g)] EXCEPT ![f] = "ready"]
      BY <3>2
    <3> QED BY <2>4, <3>2, <3>3
        DEF PromiseStep, Promise!Next, Promise!Overtake, Promise!Becomes, Promise!Decided
  <2> QED BY <2>1, <2>2, <2>3, <2>4
<1> QED BY <1>2, <1>3

LEMMA DeliveryKeepsPromise ==
    ASSUME FileInv, NEW w \in Worker,
           ReadMessage(w) \/ \E m \in Message : ClaimTimedOut(w, m)
    PROVE  PromiseStep
<1>1. UNCHANGED <<status, active, upload>>
  BY DEF ReadMessage, ClaimTimedOut, Receive, rows
<1>2. overtaken' = overtaken \/ overtaken' = overtaken + 1
  BY DEF ReadMessage, ClaimTimedOut, OvertakenIf
<1>3. [g \in File |-> Outcome(g)]' = [g \in File |-> Outcome(g)]
  BY <1>1 DEF Outcome
<1>4. CASE overtaken' = overtaken
  BY <1>1, <1>4, RowsUnchanged
<1>5. CASE overtaken' = overtaken + 1
  <2>1. overtaken' # 0
    BY <1>5 DEF FileInv, FileTypeOK
  <2> QED BY <1>3, <2>1 DEF PromiseStep, Promise!Next, Promise!Overtake
<1> QED BY <1>2, <1>4, <1>5

LEMMA HandlerKeepsPromise ==
    ASSUME FileInv, FileTypeOK', NEW w \in Worker, Handle(w) \/ Crash(w)
    PROVE  PromiseStep
<1>1. pc[w] # "idle" /\ FileOf(w) \in File
  <2>1. pc[w] # "idle"
    BY DEF Handle, Crash, OwnershipLost, LookAtFile, TryClaimFile, ExtractFile, EmbedFile,
           EmbedTimesOut, VerifyLease, ResetForRetry, Requeue, FinalizeFailed, ForceFailed,
           OverwriteFailed, DeadLetter, LookUpFailed, Settle, Processing
  <2> QED BY <2>1, MessageParts DEF FileInv, JobsFit, FileOf
<1>2. UNCHANGED <<active, upload, overtaken>>
  BY DEF Handle, Crash, OwnershipLost, LookAtFile, TryClaimFile, ExtractFile, EmbedFile,
         EmbedTimesOut, VerifyLease, ResetForRetry, Requeue, FinalizeFailed, ForceFailed,
         OverwriteFailed, DeadLetter, LookUpFailed, Settle, UpdateClaimed, Release, rows, history
<1>3. CASE UNCHANGED status
  BY <1>2, <1>3, RowsUnchanged
<1>4. CASE status' # status
  <2>1. \/ TryClaimFile(w) \/ ExtractFile(w) \/ EmbedFile(w) \/ ResetForRetry(w)
        \/ ForceFailed(w) \/ OverwriteFailed(w)
    BY <1>4 DEF Handle, Crash, OwnershipLost, LookAtFile, EmbedTimesOut, VerifyLease, Requeue,
                FinalizeFailed, DeadLetter, LookUpFailed, Settle, Release, rows
  <2>2. \E s : status' = [status EXCEPT ![FileOf(w)] = s]
    BY <1>4, <2>1 DEF TryClaimFile, ExtractFile, EmbedFile, ResetForRetry, ForceFailed,
                      OverwriteFailed, UpdateClaimed
  <2>3. overtaken = 0 => status[FileOf(w)] \notin Finished
    <3> SUFFICES ASSUME overtaken = 0 PROVE status[FileOf(w)] \notin Finished
      OBVIOUS
    <3>1. InPlace(w)
      BY DEF FileInv, Calm, HandlersInPlace
    <3>2. CASE TryClaimFile(w)
      BY <1>4, <3>2 DEF TryClaimFile, Claimable, Started, Finished
    <3>3. CASE ExtractFile(w) \/ EmbedFile(w) \/ ForceFailed(w)
      BY <3>1, <3>3 DEF ExtractFile, EmbedFile, ForceFailed, InPlace, OwnClaim, Started, Finished
    <3>4. CASE ResetForRetry(w)
      BY <1>4, <3>4 DEF ResetForRetry, Started, Finished
    <3>5. CASE OverwriteFailed(w)
      BY <3>1, <3>5 DEF OverwriteFailed, InPlace
    <3> QED BY <2>1, <3>2, <3>3, <3>4, <3>5
  <2>4. \A g \in File : g # FileOf(w) => status'[g] = status[g]
    BY <2>2 DEF FileInv, FileTypeOK
  <2> QED BY <1>1, <1>2, <2>3, <2>4, OneFileChanges DEF FileInv, PromiseStep
<1> QED BY <1>3, <1>4

\* What the rows say of a file changes as FileOutcome allows: a file that was
\* handed to the queue stays pending until it is decided, and is decided once
\* unless somebody is overtaken.
THEOREM KeepsPromiseSafely == FileSafe => Promise!Safe
<1>1. Init => Promise!Init
  BY DEF Init, Promise!Init, Outcome, Finished
<1>2. FileInv /\ FileInv' /\ [Next]_vars => [Promise!Next]_(Promise!vars)
  <2>1. FileInv /\ UNCHANGED vars => PromiseStep
    BY RowsUnchanged DEF vars, rows, history
  <2>2. FileInv /\ FileInv' /\ Next => PromiseStep
    <3> SUFFICES ASSUME FileInv, FileTypeOK', Next PROVE PromiseStep
      BY DEF FileInv
    <3> QED BY UploadKeepsPromise, OthersKeepPromise, DeliveryKeepsPromise, HandlerKeepsPromise
        DEF Next
  <2> QED BY <2>1, <2>2 DEF PromiseStep
<1> QED BY <1>1, <1>2, FileInvHolds, PTL DEF FileSafe, Promise!Safe

=============================================================================
