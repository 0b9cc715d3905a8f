-------------------------- MODULE GenerationStream --------------------------
(***************************************************************************)
(* The event stream of one generation run: the registries of several       *)
(* processes (generationStreamRegistry), the store they share (the Redis   *)
(* scripts of conversation_cache.go) and the assistant messages that the   *)
(* run, a cancel request and a client that resumes the stream all write.   *)
(*                                                                         *)
(* An execution is one request's attempt to run: acquireRun gives it a     *)
(* fresh execution id, register claims the stream for it.  The unique run  *)
(* row refuses most duplicates before they get here; the registry and the  *)
(* store are held to their contract for whatever comes, as their tests do. *)
(*                                                                         *)
(* There is no clock.  The lease of an execution that renews it expires    *)
(* only when its process stalls or cannot reach the store for the whole    *)
(* lease (30 s); ownership, which every renewal extends by two hours, does *)
(* not expire under an execution that still renews, or will learn at its   *)
(* next renewal (within 10 s) that its lease is gone.  MaxFaults bounds    *)
(* stalls, failed calls and crashes together.                              *)
(***************************************************************************)
EXTENDS Integers

CONSTANTS
    Execution,      \* execution ids
    Node,           \* processes, each with its registry
    None,
    MaxFaults       \* bound on stalls, failed calls and crashes

ASSUME StreamAssumption ==
    /\ None \notin Execution
    /\ MaxFaults \in Nat

VARIABLES
    stream,         \* the store's record of the run
    phase,          \* where each execution's request is
    node,           \* the process it runs in
    live,           \* is its context not canceled?
    message,        \* status of its assistant message
    final,          \* its completion in the store: finalizeGeneration
    local,          \* the run's entry in each registry (r.active)
    closed,         \* has the registry been closed?
    faults,         \* history: failed calls and crashes
    stalls,         \* history: leases lost by executions that renew them
    unwritten       \* history: executions whose outcome could not be written

runs == <<phase, node, live>>
registries == <<local, closed>>
history == <<faults, stalls, unwritten>>
vars == <<stream, runs, message, final, registries, history>>

\* What becomes of the message: "stopped" is error, interrupted or canceled.
Outcome == {"success", "stopped"}

\* Inside register: registrationWG counts these.
Registering == {"claiming", "claimed", "abandoning", "enrolled"}

Phase == {"idle", "generating", "returned", "finishing", "done", "dead"}
            \cup Registering \cup Outcome

Stream == [owned : BOOLEAN,                     \* owner and conversation keys
           exec : Execution \cup {None},        \* the lease: execution key
           cancel : BOOLEAN,                    \* cancel marker
           log : SUBSET Execution]              \* whose events are retained

GenerationTypeOK ==
    /\ stream \in Stream
    /\ phase \in [Execution -> Phase]
    /\ node \in [Execution -> Node]
    /\ live \in [Execution -> BOOLEAN]
    /\ message \in [Execution -> {"none", "pending"} \cup Outcome]
    /\ final \in [Execution ->
                    {"none", "trying", "queued", "done", "dropped", "expired"}]
    /\ local \in [Node -> Execution \cup {None}]
    /\ closed \in [Node -> BOOLEAN]
    /\ faults \in 0 .. MaxFaults
    /\ stalls \in 0 .. MaxFaults
    /\ unwritten \subseteq Execution

NoStream == [owned |-> FALSE, exec |-> None, cancel |-> FALSE, log |-> {}]

Init ==
    /\ stream = NoStream
    /\ phase = [e \in Execution |-> "idle"]
    /\ node \in [Execution -> Node]
    /\ live = [e \in Execution |-> FALSE]
    /\ message = [e \in Execution |-> "none"]
    /\ final = [e \in Execution |-> "none"]
    /\ local = [n \in Node |-> None]
    /\ closed = [n \in Node |-> FALSE]
    /\ faults = 0
    /\ stalls = 0
    /\ unwritten = {}

Goes(e, from, to) ==
    /\ phase[e] = from
    /\ phase' = [phase EXCEPT ![e] = to]

Keeps == live' = live
Canceled(e) == live' = [live EXCEPT ![e] = FALSE]

NoFault == UNCHANGED history
Fault ==
    /\ faults + stalls < MaxFaults
    /\ faults' = faults + 1
    /\ UNCHANGED <<stalls, unwritten>>

\* The run's entry in the registry of e's process is e's.
Registered(e) == local[node[e]] = e

\* A request of this process is inside register.
Busy(n) == \E e \in Execution : node[e] = n /\ phase[e] \in Registering

----------------------------------------------------------------------------
(* The store                                                               *)

\* Mutant: a stream is free as soon as its lease is.
MutClaimable == stream.exec = None

Claimable == stream.exec = None /\ ~stream.owned

Taken(e) == [NoStream EXCEPT !.owned = TRUE, !.exec = e]

Abandoned(e) == IF stream.exec = e THEN NoStream ELSE stream

\* Mutant: whoever completes the stream releases its lease.
MutCompleted(e) == IF stream.owned THEN [stream EXCEPT !.exec = None] ELSE stream

\* CompleteGenerationStream: the lease goes, the events stay for a while.
Completed(e) ==
    IF stream.owned /\ stream.exec \in {e, None}
    THEN [stream EXCEPT !.exec = None]
    ELSE stream

Appended(e) == [stream EXCEPT !.log = @ \cup {e}]

\* A call with this effect works, or fails before or after it took effect.
Works(effect) == NoFault /\ stream' = effect
Fails(effect) == Fault /\ stream' \in {stream, effect}

----------------------------------------------------------------------------
(* register                                                                *)

\* AcquireMessageGenerationLifecycle, and register up to its store call.
Start(e) ==
    /\ ~closed[node[e]]
    /\ Goes(e, "idle", "claiming")
    /\ live' = [live EXCEPT ![e] = TRUE]
    /\ UNCHANGED <<stream, node, message, final, registries, history>>

Claim(e) ==
    /\ Claimable
    /\ Goes(e, "claiming", "claimed")
    /\ Works(Taken(e))
    /\ UNCHANGED <<node, live, message, final, registries>>

ClaimRefused(e) ==
    /\ ~Claimable
    /\ Goes(e, "claiming", "done")
    /\ Canceled(e)
    /\ UNCHANGED <<stream, node, message, final, registries, history>>

\* Closing the registry cancels the call's context.
ClaimFails(e) ==
    /\ Goes(e, "claiming", "abandoning")
    /\ IF closed[node[e]] THEN NoFault ELSE Fault
    /\ stream' \in {stream} \cup (IF Claimable THEN {Taken(e)} ELSE {})
    /\ UNCHANGED <<node, live, message, final, registries>>

\* The second critical section of register.
Enrol(e) ==
    /\ ~closed[node[e]]
    /\ local[node[e]] = None
    /\ Goes(e, "claimed", "enrolled")
    /\ local' = [local EXCEPT ![node[e]] = e]
    /\ UNCHANGED <<stream, node, live, message, final, closed, history>>

EnrolRefused(e) ==
    /\ closed[node[e]] \/ local[node[e]] # None
    /\ Goes(e, "claimed", "abandoning")
    /\ UNCHANGED <<stream, node, live, message, final, registries, history>>

Abandon(e) ==
    /\ Goes(e, "abandoning", "done")
    /\ Canceled(e)
    /\ Works(Abandoned(e)) \/ Fails(Abandoned(e))
    /\ UNCHANGED <<node, message, final, registries>>

\* register returns: to the messages of the run, or with an error.
Confirm(e) ==
    /\ IF Registered(e) /\ ~closed[node[e]] /\ live[e]
       THEN /\ Goes(e, "enrolled", "generating")
            /\ message' = [message EXCEPT ![e] = "pending"]
            /\ Keeps
       ELSE /\ Goes(e, "enrolled", "returned")
            /\ Canceled(e)
            /\ UNCHANGED message
    /\ UNCHANGED <<stream, node, final, registries, history>>

----------------------------------------------------------------------------
(* The run                                                                 *)

\* Mutant: the store does not look at the execution that appends.
MutHolds(e) == Registered(e)

Holds(e) == Registered(e) /\ stream.exec = e

\* An event is appended for the execution that holds the lease ...
Publish(e) ==
    /\ phase[e] = "generating" /\ live[e] /\ ~stream.cancel
    /\ Holds(e)
    /\ Works(Appended(e)) \/ Fails(Appended(e))
    /\ UNCHANGED <<runs, message, final, registries>>

\* ... and ends any other.
PublishRefused(e) ==
    /\ live[e] /\ ~stream.cancel
    /\ ~Holds(e)
    /\ Goes(e, "generating", "stopped")
    /\ Canceled(e)
    /\ UNCHANGED <<stream, node, message, final, registries, history>>

\* The context ended, or handleStreamEvent sees the cancel marker.
ObserveCancel(e) ==
    /\ ~live[e] \/ stream.cancel
    /\ Goes(e, "generating", "stopped")
    /\ UNCHANGED <<stream, node, live, message, final, registries, history>>

UpstreamEnds(e) ==
    /\ live[e]
    /\ \E o \in Outcome : Goes(e, "generating", o)
    /\ UNCHANGED <<stream, node, live, message, final, registries, history>>

\* Mutant: a run that still generates writes where it is.
MutWriteOutcome(e) ==
    /\ phase[e] \in Outcome \cup {"generating"}
    /\ message' = [message EXCEPT ![e] = phase[e]]
    /\ Goes(e, phase[e], "returned")
    /\ UNCHANGED <<stream, node, live, final, registries, history>>

\* Written by id, whatever the status is by now.
WriteOutcome(e) ==
    /\ phase[e] \in Outcome
    /\ message' = [message EXCEPT ![e] = phase[e]]
    /\ Goes(e, phase[e], "returned")
    /\ UNCHANGED <<stream, node, live, final, registries, history>>

\* The answer is not written, or the reply is lost: with the generation's
\* context, which may have ended, or because the database failed.  The run then
\* ends with an error.
AnswerLost(e) ==
    /\ Goes(e, "success", "stopped")
    /\ message' \in {message, [message EXCEPT ![e] = "success"]}
    /\ IF live[e] THEN Fault ELSE NoFault
    /\ UNCHANGED <<stream, node, live, final, registries>>

\* The database fails to write an error, an interruption or a cancellation:
\* this is logged, and the run returns all the same.
OutcomeLost(e) ==
    /\ Goes(e, "stopped", "returned")
    /\ faults + stalls < MaxFaults
    /\ faults' = faults + 1
    /\ unwritten' = unwritten \cup {e}
    /\ UNCHANGED <<stream, node, live, message, final, registries, stalls>>

\* The handler's last event; a closed registry has canceled its context.
EndStream(e) ==
    /\ Goes(e, "returned", "finishing")
    /\ IF Holds(e) /\ ~closed[node[e]]
       THEN Works(Appended(e)) \/ Fails(Appended(e))
       ELSE UNCHANGED <<stream, history>>
    /\ UNCHANGED <<node, live, message, final, registries>>

Leaves(e) ==
    /\ local' = [local EXCEPT ![node[e]] = None]
    /\ final' = [final EXCEPT ![e] = "trying"]

\* Mutant: Finish completes the stream whoever removed its entry.
MutFinish(e) ==
    /\ Goes(e, "finishing", "done")
    /\ Canceled(e)
    /\ Leaves(e)
    /\ UNCHANGED <<stream, node, message, closed, history>>

\* FinishMessageGeneration, then the request's context is released.
Finish(e) ==
    /\ Goes(e, "finishing", "done")
    /\ Canceled(e)
    /\ IF Registered(e) THEN Leaves(e) ELSE UNCHANGED <<local, final>>
    /\ UNCHANGED <<stream, node, message, closed, history>>

----------------------------------------------------------------------------
(* The lease worker, and the completion in the store                       *)

\* removeActiveExecution and what its callers do before they finalize.
Remove(e) ==
    /\ Registered(e)
    /\ Leaves(e)
    /\ Canceled(e)
    /\ UNCHANGED <<stream, phase, node, message, closed, history>>

\* A renewal is refused.
LeaseLost(e) == stream.exec # e /\ Remove(e)

\* ActiveTTL has passed.
RunExpires(e) == Remove(e)

\* Mutant: a completion that failed is given up.
MutComplete(e, from) ==
    /\ final[e] = from
    /\ \/ /\ Works(Completed(e))
          /\ final' = [final EXCEPT ![e] = "done"]
       \/ /\ Fails(Completed(e))
          /\ final' = [final EXCEPT ![e] = "dropped"]
    /\ UNCHANGED <<runs, message, registries>>

\* The attempts of completeGenerationStream, all of which may fail.
Complete(e, from) ==
    /\ final[e] = from
    /\ \/ /\ Works(Completed(e))
          /\ final' = [final EXCEPT ![e] = "done"]
       \/ /\ Fails(Completed(e))
          /\ final' = [final EXCEPT ![e] =
                            IF closed[node[e]] THEN "dropped" ELSE "queued"]
    /\ UNCHANGED <<runs, message, registries>>

FinalizeGeneration(e) == Complete(e, "trying")

\* runCompletionWorker
RetryCompletion(e) == ~closed[node[e]] /\ Complete(e, "queued")

CompletionGone(e, to) ==
    /\ final[e] = "queued"
    /\ final' = [final EXCEPT ![e] = to]
    /\ UNCHANGED <<stream, runs, message, registries>>

\* The outage that queued it lasts for two hours.
CompletionExpires(e) == NoFault /\ CompletionGone(e, "expired")

CompletionDropped(e) == closed[node[e]] /\ NoFault /\ CompletionGone(e, "dropped")

----------------------------------------------------------------------------
(* Processes                                                               *)

\* close, up to registrationWG.Wait.
Close(n) ==
    /\ ~closed[n]
    /\ closed' = [closed EXCEPT ![n] = TRUE]
    /\ live' = [e \in Execution |-> live[e] /\ node[e] # n]
    /\ UNCHANGED <<stream, phase, node, message, final, local, history>>

\* The entries left when every registration has returned.
RemoveOrphan(e) ==
    /\ closed[node[e]] /\ ~Busy(node[e])
    /\ Remove(e)

\* The process ends, closed or not; one that replaces it is another node.
Stop(n) ==
    /\ IF closed[n] /\ ~Busy(n) /\ local[n] = None THEN NoFault ELSE Fault
    /\ phase' = [e \in Execution |->
            IF node[e] = n /\ phase[e] # "idle" THEN "dead" ELSE phase[e]]
    /\ live' = [e \in Execution |-> live[e] /\ node[e] # n]
    /\ final' = [e \in Execution |->
            IF node[e] = n /\ final[e] \in {"trying", "queued"}
            THEN "dropped" ELSE final[e]]
    /\ local' = [local EXCEPT ![n] = None]
    /\ closed' = [closed EXCEPT ![n] = TRUE]
    /\ UNCHANGED <<stream, node, message>>

----------------------------------------------------------------------------
(* Time                                                                    *)

\* e has claimed the stream and not left it.
Stays(e) == phase[e] = "claimed" \/ Registered(e)

LeaseExpires ==
    /\ stream.exec # None
    /\ stream' = [stream EXCEPT !.exec = None]
    /\ IF Stays(stream.exec)
       THEN /\ faults + stalls < MaxFaults
            /\ stalls' = stalls + 1
            /\ UNCHANGED <<faults, unwritten>>
       ELSE NoFault
    /\ UNCHANGED <<runs, message, final, registries>>

\* The marker, which lives for a shorter time, is gone by then.
OwnershipExpires ==
    /\ stream.owned /\ stream.exec = None
    /\ \A e \in Execution : ~(Stays(e) /\ live[e])
    /\ stream' = [stream EXCEPT !.owned = FALSE, !.cancel = FALSE]
    /\ UNCHANGED <<runs, message, final, registries, history>>

CancelMarkerExpires ==
    /\ stream.cancel
    /\ stream' = [stream EXCEPT !.cancel = FALSE]
    /\ UNCHANGED <<runs, message, final, registries, history>>

----------------------------------------------------------------------------
(* Requests about the run, in any process                                  *)

\* CancelMessageGeneration: the marker and the local execution.
RequestCancel(n) ==
    /\ stream.owned /\ stream.exec # None
    /\ \/ /\ Works([stream EXCEPT !.cancel = TRUE])
          /\ live' = [e \in Execution |-> live[e] /\ local[n] # e]
       \/ /\ Fails([stream EXCEPT !.cancel = TRUE])
          /\ UNCHANGED live
    /\ UNCHANGED <<phase, node, message, final, registries>>

\* A cancel request goes on to the pending messages of the run, and so does a
\* resume request that found no stream to follow.  Either may have looked at
\* the stream long ago: one that resumes, before the run was registered.
StopPendingMessages ==
    /\ message' = [e \in Execution |->
                    IF message[e] = "pending" THEN "stopped" ELSE message[e]]
    /\ UNCHANGED <<stream, runs, final, registries, history>>

----------------------------------------------------------------------------

Register(e) ==
    \/ Claim(e) \/ ClaimRefused(e) \/ ClaimFails(e)
    \/ Enrol(e) \/ EnrolRefused(e) \/ Abandon(e) \/ Confirm(e)

GenerationEnds(e) == PublishRefused(e) \/ ObserveCancel(e) \/ UpstreamEnds(e)

Returns(e) ==
    \/ WriteOutcome(e) \/ AnswerLost(e) \/ OutcomeLost(e)
    \/ EndStream(e) \/ Finish(e)

Completion(e) ==
    FinalizeGeneration(e) \/ RetryCompletion(e) \/ CompletionDropped(e)

Next ==
    \/ \E e \in Execution :
        \/ Start(e) \/ Register(e)
        \/ Publish(e) \/ GenerationEnds(e) \/ Returns(e)
        \/ LeaseLost(e) \/ RunExpires(e)
        \/ Completion(e) \/ CompletionExpires(e)
        \/ RemoveOrphan(e)
    \/ \E n \in Node : Close(n) \/ Stop(n) \/ RequestCancel(n)
    \/ LeaseExpires \/ OwnershipExpires \/ CancelMarkerExpires
    \/ StopPendingMessages

StreamSafe == Init /\ [][Next]_vars

\* A request that has started takes its next step, an upstream call ends, and
\* so do the calls of the workers.  Nothing makes a client cancel or resume, a
\* process close, or a request come.
StreamFair ==
    \A e \in Execution :
        /\ WF_vars(Register(e))
        /\ WF_vars(GenerationEnds(e))
        /\ WF_vars(Returns(e))
        /\ WF_vars(Completion(e))

StreamSpec == StreamSafe /\ StreamFair

----------------------------------------------------------------------------
(* Properties                                                              *)

Generating(e) == phase[e] = "generating" /\ live[e]

\* The retained events of the run are of one execution, and while one holds
\* the lease they are its own: a client that resumes never replays a mixture.
EventsOfOneExecution ==
    /\ \A e, f \in stream.log : e = f
    /\ stream.exec # None => stream.log \subseteq {stream.exec}

\* Two executions never generate for the same run: the second starts when the
\* first has ended, or has been told to, whatever leases were lost before.
OneRunner ==
    \A e, f \in Execution : Generating(e) /\ Generating(f) => e = f

\* An execution that generates loses its lease to a stall only: no refused
\* registration, late completion or cleanup of another one releases it.
LeaseKept ==
    [][\A e \in Execution :
        Generating(e) /\ stream.exec = e /\ stream'.exec # e
            => stalls' = stalls + 1]_vars

\* What the run wrote stands, although cancels and resumes may still be under
\* way (a message that it failed to write is theirs to stop), and the run is
\* finalized once, by whoever removed it from its registry.
EndsStand ==
    [][\A e \in Execution :
        /\ /\ phase[e] \in {"returned", "finishing", "done"}
           /\ e \in unwritten => message[e] # "pending"
           => message'[e] = message[e]
        /\ final[e] # "none" => final'[e] \notin {"none", "trying"} \/ final'[e] = final[e]
      ]_vars

\* A run that entered a registry leaves no message pending, unless the write
\* of its error failed (service_run.go:248: a later cancel or resume stops the
\* message), and its completion is recorded however often the store failed,
\* unless its process closes or the retries time out; all this unless its
\* process dies.
RunsEnd ==
    \A e \in Execution :
        Registered(e) ~>
            \/ /\ message[e] # "pending" \/ e \in unwritten
               /\ final[e] \in {"done", "expired"} \/ closed[node[e]]
            \/ phase[e] = "dead"

=============================================================================
