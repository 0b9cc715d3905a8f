----------------------- MODULE GenerationStreamProofs -----------------------
(***************************************************************************)
(* Theorems about GenerationStream.  The invariant says what each place of *)
(* an execution implies for the registry's entry, the completion and the   *)
(* message, and that an execution which claimed the stream and was not     *)
(* told to end keeps the run's ownership, so that nobody can claim it.     *)
(***************************************************************************)
EXTENDS GenerationStream, TLAPS

Entry(e) ==
    /\ Generating(e) => Registered(e)
    /\ final[e] # "none" => ~live[e] /\ ~Registered(e)
    /\ phase[e] \in {"idle", "claiming", "claimed", "abandoning"}
            => final[e] = "none" /\ ~Registered(e)
    /\ message[e] = "pending" =>
            \/ phase[e] \in {"generating", "dead"} \cup Outcome
            \/ e \in unwritten

Entries == \A e \in Execution : Entry(e)

Owner(e) == Stays(e) /\ live[e]

Owners ==
    /\ \A e \in Execution :
        Owner(e) => stream.owned /\ stream.exec \in {e, None}
    /\ \A e, f \in Execution : Owner(e) /\ Owner(f) => e = f

StreamInv ==
    /\ GenerationTypeOK
    /\ EventsOfOneExecution
    /\ Entries
    /\ Owners

LEMMA StartKeeps ==
    ASSUME NEW e \in Execution, StreamInv, Start(e)
    PROVE  StreamInv'
<1> USE StreamAssumption DEF Start, Goes, runs, registries, history
<1>1. GenerationTypeOK'
  BY DEF StreamInv, GenerationTypeOK, Phase, Stream, Registering, Outcome,
      Registered
<1>2. EventsOfOneExecution'
  BY DEF StreamInv, GenerationTypeOK, EventsOfOneExecution, Stream, Phase,
      Registering, Registered
<1>3. Entries'
  BY DEF StreamInv, GenerationTypeOK, Entries, Entry, Registered,
      Generating, Outcome, Phase, Stream, Registering
<1>4. Owners'
  BY DEF StreamInv, GenerationTypeOK, Owners, Entries, Entry, Owner, Stays,
      Registered, Phase, Stream, Registering
<1> QED BY <1>1, <1>2, <1>3, <1>4 DEF StreamInv

LEMMA ClaimKeeps ==
    ASSUME NEW e \in Execution, StreamInv, Claim(e)
    PROVE  StreamInv'
<1> USE StreamAssumption DEF Claim, Claimable, Taken, NoStream, Works,
    NoFault, Goes, runs, registries, history
<1>1. GenerationTypeOK'
  BY DEF StreamInv, GenerationTypeOK, Phase, Stream, Registering, Outcome,
      Registered
<1>2. EventsOfOneExecution'
  BY DEF StreamInv, GenerationTypeOK, EventsOfOneExecution, Stream, Phase,
      Registering, Registered
<1>3. Entries'
  BY DEF StreamInv, GenerationTypeOK, Entries, Entry, Registered,
      Generating, Outcome, Phase, Stream, Registering
<1>4. Owners'
  BY DEF StreamInv, GenerationTypeOK, Owners, Entries, Entry, Owner, Stays,
      Registered, Phase, Stream, Registering
<1> QED BY <1>1, <1>2, <1>3, <1>4 DEF StreamInv

LEMMA ClaimRefusedKeeps ==
    ASSUME NEW e \in Execution, StreamInv, ClaimRefused(e)
    PROVE  StreamInv'
<1> USE StreamAssumption DEF ClaimRefused, Goes, Canceled, runs, registries,
    history
<1>1. GenerationTypeOK'
  BY DEF StreamInv, GenerationTypeOK, Phase, Stream, Registering, Outcome,
      Registered
<1>2. EventsOfOneExecution'
  BY DEF StreamInv, GenerationTypeOK, EventsOfOneExecution, Stream, Phase,
      Registering, Registered
<1>3. Entries'
  BY DEF StreamInv, GenerationTypeOK, Entries, Entry, Registered,
      Generating, Outcome, Phase, Stream, Registering
<1>4. Owners'
  BY DEF StreamInv, GenerationTypeOK, Owners, Entries, Entry, Owner, Stays,
      Registered, Phase, Stream, Registering
<1> QED BY <1>1, <1>2, <1>3, <1>4 DEF StreamInv

LEMMA ClaimFailsKeeps ==
    ASSUME NEW e \in Execution, StreamInv, ClaimFails(e)
    PROVE  StreamInv'
<1> USE StreamAssumption DEF ClaimFails, Claimable, Taken, NoStream, NoFault,
    Fault, Goes, runs, registries, history
<1>1. GenerationTypeOK'
  <2>1. stream' \in Stream
    BY DEF StreamInv, GenerationTypeOK, Phase, Stream, Registering, Outcome
  <2>2. phase' \in [Execution -> Phase] /\ node' \in [Execution -> Node]
    BY DEF StreamInv, GenerationTypeOK, Phase, Stream, Registering, Outcome
  <2>3. live' \in [Execution -> BOOLEAN]
    BY DEF StreamInv, GenerationTypeOK, Phase, Stream, Registering, Outcome
  <2>4. message' \in [Execution -> {"none", "pending"} \cup Outcome]
    BY DEF StreamInv, GenerationTypeOK, Phase, Stream, Registering, Outcome
  <2>5. final' \in [Execution ->
                {"none", "trying", "queued", "done", "dropped", "expired"}]
    BY DEF StreamInv, GenerationTypeOK, Phase, Stream, Registering, Outcome
  <2>6. local' \in [Node -> Execution \cup {None}] /\ closed' \in [Node -> BOOLEAN]
    BY DEF StreamInv, GenerationTypeOK, Phase, Stream, Registering, Outcome
  <2>7. /\ faults' \in 0 .. MaxFaults /\ stalls' \in 0 .. MaxFaults
        /\ unwritten' \subseteq Execution
    BY DEF StreamInv, GenerationTypeOK, Phase, Stream, Registering, Outcome
  <2> QED BY <2>1, <2>2, <2>3, <2>4, <2>5, <2>6, <2>7 DEF GenerationTypeOK
<1>2. EventsOfOneExecution'
  BY DEF StreamInv, GenerationTypeOK, EventsOfOneExecution, Stream, Phase,
      Registering, Registered
<1>3. Entries'
  BY DEF StreamInv, GenerationTypeOK, Entries, Entry, Registered,
      Generating, Outcome, Phase, Stream, Registering
<1>4. Owners'
  BY DEF StreamInv, GenerationTypeOK, Owners, Entries, Entry, Owner, Stays,
      Registered, Phase, Stream, Registering
<1> QED BY <1>1, <1>2, <1>3, <1>4 DEF StreamInv

LEMMA EnrolKeeps ==
    ASSUME NEW e \in Execution, StreamInv, Enrol(e)
    PROVE  StreamInv'
<1> USE StreamAssumption DEF Enrol, Goes, runs, registries, history
<1>1. GenerationTypeOK'
  BY DEF StreamInv, GenerationTypeOK, Phase, Stream, Registering, Outcome,
      Registered
<1>2. EventsOfOneExecution'
  BY DEF StreamInv, GenerationTypeOK, EventsOfOneExecution, Stream, Phase,
      Registering, Registered
<1>3. Entries'
  BY DEF StreamInv, GenerationTypeOK, Entries, Entry, Registered,
      Generating, Outcome, Phase, Stream, Registering
<1>4. Owners'
  BY DEF StreamInv, GenerationTypeOK, Owners, Entries, Entry, Owner, Stays,
      Registered, Phase, Stream, Registering
<1> QED BY <1>1, <1>2, <1>3, <1>4 DEF StreamInv

LEMMA EnrolRefusedKeeps ==
    ASSUME NEW e \in Execution, StreamInv, EnrolRefused(e)
    PROVE  StreamInv'
<1> USE StreamAssumption DEF EnrolRefused, Goes, runs, registries, history
<1>1. GenerationTypeOK'
  BY DEF StreamInv, GenerationTypeOK, Phase, Stream, Registering, Outcome,
      Registered
<1>2. EventsOfOneExecution'
  BY DEF StreamInv, GenerationTypeOK, EventsOfOneExecution, Stream, Phase,
      Registering, Registered
<1>3. Entries'
  BY DEF StreamInv, GenerationTypeOK, Entries, Entry, Registered,
      Generating, Outcome, Phase, Stream, Registering
<1>4. Owners'
  BY DEF StreamInv, GenerationTypeOK, Owners, Entries, Entry, Owner, Stays,
      Registered, Phase, Stream, Registering
<1> QED BY <1>1, <1>2, <1>3, <1>4 DEF StreamInv

LEMMA AbandonKeeps ==
    ASSUME NEW e \in Execution, StreamInv, Abandon(e)
    PROVE  StreamInv'
<1> USE StreamAssumption DEF Abandon, Abandoned, NoStream, Works, Fails,
    NoFault, Fault, Goes, Canceled, runs, registries, history
<1>1. GenerationTypeOK'
  <2>1. stream' \in Stream
    <3>1. NoStream \in Stream
      BY DEF Stream
    <3>2. stream' \in {stream, NoStream}
      OBVIOUS
    <3> QED BY <3>1, <3>2 DEF StreamInv, GenerationTypeOK
  <2>2. phase' \in [Execution -> Phase] /\ node' \in [Execution -> Node]
    BY DEF StreamInv, GenerationTypeOK, Phase, Stream, Registering, Outcome
  <2>3. live' \in [Execution -> BOOLEAN]
    BY DEF StreamInv, GenerationTypeOK, Phase, Stream, Registering, Outcome
  <2>4. message' \in [Execution -> {"none", "pending"} \cup Outcome]
    BY DEF StreamInv, GenerationTypeOK, Phase, Stream, Registering, Outcome
  <2>5. final' \in [Execution ->
                {"none", "trying", "queued", "done", "dropped", "expired"}]
    BY DEF StreamInv, GenerationTypeOK, Phase, Stream, Registering, Outcome
  <2>6. local' \in [Node -> Execution \cup {None}] /\ closed' \in [Node -> BOOLEAN]
    BY DEF StreamInv, GenerationTypeOK, Phase, Stream, Registering, Outcome
  <2>7. /\ faults' \in 0 .. MaxFaults /\ stalls' \in 0 .. MaxFaults
        /\ unwritten' \subseteq Execution
    BY DEF StreamInv, GenerationTypeOK, Phase, Stream, Registering, Outcome
  <2> QED BY <2>1, <2>2, <2>3, <2>4, <2>5, <2>6, <2>7 DEF GenerationTypeOK
<1>2. EventsOfOneExecution'
  BY DEF StreamInv, GenerationTypeOK, EventsOfOneExecution, Stream, Phase,
      Registering, Registered
<1>3. Entries'
  BY DEF StreamInv, GenerationTypeOK, Entries, Entry, Registered,
      Generating, Outcome, Phase, Stream, Registering
<1>4. Owners'
  BY DEF StreamInv, GenerationTypeOK, Owners, Entries, Entry, Owner, Stays,
      Registered, Phase, Stream, Registering
<1> QED BY <1>1, <1>2, <1>3, <1>4 DEF StreamInv

LEMMA ConfirmKeeps ==
    ASSUME NEW e \in Execution, StreamInv, Confirm(e)
    PROVE  StreamInv'
<1> USE StreamAssumption DEF Confirm, Goes, Keeps, Canceled, runs, registries,
    history
<1>1. GenerationTypeOK'
  <2>1. stream' \in Stream
    BY DEF StreamInv, GenerationTypeOK, Phase, Stream, Registering, Outcome
  <2>2. phase' \in [Execution -> Phase] /\ node' \in [Execution -> Node]
    BY DEF StreamInv, GenerationTypeOK, Phase, Stream, Registering, Outcome
  <2>3. live' \in [Execution -> BOOLEAN]
    BY DEF StreamInv, GenerationTypeOK, Phase, Stream, Registering, Outcome
  <2>4. message' \in [Execution -> {"none", "pending"} \cup Outcome]
    BY DEF StreamInv, GenerationTypeOK, Phase, Stream, Registering, Outcome
  <2>5. final' \in [Execution ->
                {"none", "trying", "queued", "done", "dropped", "expired"}]
    BY DEF StreamInv, GenerationTypeOK, Phase, Stream, Registering, Outcome
  <2>6. local' \in [Node -> Execution \cup {None}] /\ closed' \in [Node -> BOOLEAN]
    BY DEF StreamInv, GenerationTypeOK, Phase, Stream, Registering, Outcome
  <2>7. /\ faults' \in 0 .. MaxFaults /\ stalls' \in 0 .. MaxFaults
        /\ unwritten' \subseteq Execution
    BY DEF StreamInv, GenerationTypeOK, Phase, Stream, Registering, Outcome
  <2> QED BY <2>1, <2>2, <2>3, <2>4, <2>5, <2>6, <2>7 DEF GenerationTypeOK
<1>2. EventsOfOneExecution'
  BY DEF StreamInv, GenerationTypeOK, EventsOfOneExecution, Stream, Phase,
      Registering, Registered
<1>3. Entries'
  BY DEF StreamInv, GenerationTypeOK, Entries, Entry, Registered,
      Generating, Outcome, Phase, Stream, Registering
<1>4. Owners'
  BY DEF StreamInv, GenerationTypeOK, Owners, Entries, Entry, Owner, Stays,
      Registered, Phase, Stream, Registering
<1> QED BY <1>1, <1>2, <1>3, <1>4 DEF StreamInv

LEMMA PublishKeeps ==
    ASSUME NEW e \in Execution, StreamInv, Publish(e)
    PROVE  StreamInv'
<1> USE StreamAssumption DEF Publish, Holds, Appended, Works, Fails, NoFault,
    Fault, runs, registries, history
<1>1. GenerationTypeOK'
  BY DEF StreamInv, GenerationTypeOK, Phase, Stream, Registering, Outcome,
      Registered
<1>2. EventsOfOneExecution'
  BY DEF StreamInv, GenerationTypeOK, EventsOfOneExecution, Stream, Phase,
      Registering, Registered
<1>3. Entries'
  BY DEF StreamInv, GenerationTypeOK, Entries, Entry, Registered,
      Generating, Outcome, Phase, Stream, Registering
<1>4. Owners'
  BY DEF StreamInv, GenerationTypeOK, Owners, Entries, Entry, Owner, Stays,
      Registered, Phase, Stream, Registering
<1> QED BY <1>1, <1>2, <1>3, <1>4 DEF StreamInv

LEMMA PublishRefusedKeeps ==
    ASSUME NEW e \in Execution, StreamInv, PublishRefused(e)
    PROVE  StreamInv'
<1> USE StreamAssumption DEF PublishRefused, Holds, Goes, Canceled, runs,
    registries, history
<1>1. GenerationTypeOK'
  BY DEF StreamInv, GenerationTypeOK, Phase, Stream, Registering, Outcome,
      Registered
<1>2. EventsOfOneExecution'
  BY DEF StreamInv, GenerationTypeOK, EventsOfOneExecution, Stream, Phase,
      Registering, Registered
<1>3. Entries'
  BY DEF StreamInv, GenerationTypeOK, Entries, Entry, Registered,
      Generating, Outcome, Phase, Stream, Registering
<1>4. Owners'
  BY DEF StreamInv, GenerationTypeOK, Owners, Entries, Entry, Owner, Stays,
      Registered, Phase, Stream, Registering
<1> QED BY <1>1, <1>2, <1>3, <1>4 DEF StreamInv

LEMMA ObserveCancelKeeps ==
    ASSUME NEW e \in Execution, StreamInv, ObserveCancel(e)
    PROVE  StreamInv'
<1> USE StreamAssumption DEF ObserveCancel, Goes, runs, registries, history
<1>1. GenerationTypeOK'
  BY DEF StreamInv, GenerationTypeOK, Phase, Stream, Registering, Outcome,
      Registered
<1>2. EventsOfOneExecution'
  BY DEF StreamInv, GenerationTypeOK, EventsOfOneExecution, Stream, Phase,
      Registering, Registered
<1>3. Entries'
  BY DEF StreamInv, GenerationTypeOK, Entries, Entry, Registered,
      Generating, Outcome, Phase, Stream, Registering
<1>4. Owners'
  BY DEF StreamInv, GenerationTypeOK, Owners, Entries, Entry, Owner, Stays,
      Registered, Phase, Stream, Registering
<1> QED BY <1>1, <1>2, <1>3, <1>4 DEF StreamInv

LEMMA UpstreamEndsKeeps ==
    ASSUME NEW e \in Execution, StreamInv, UpstreamEnds(e)
    PROVE  StreamInv'
<1> USE StreamAssumption DEF UpstreamEnds, Goes, Outcome, runs, registries,
    history
<1>1. GenerationTypeOK'
  BY DEF StreamInv, GenerationTypeOK, Phase, Stream, Registering, Registered
<1>2. EventsOfOneExecution'
  BY DEF StreamInv, GenerationTypeOK, EventsOfOneExecution, Stream, Phase,
      Registering, Registered
<1>3. Entries'
  BY DEF StreamInv, GenerationTypeOK, Entries, Entry, Registered,
      Generating, Phase, Stream, Registering
<1>4. Owners'
  BY DEF StreamInv, GenerationTypeOK, Owners, Entries, Entry, Owner, Stays,
      Registered, Phase, Stream, Registering
<1> QED BY <1>1, <1>2, <1>3, <1>4 DEF StreamInv

LEMMA WriteOutcomeKeeps ==
    ASSUME NEW e \in Execution, StreamInv, WriteOutcome(e)
    PROVE  StreamInv'
<1> USE StreamAssumption DEF WriteOutcome, Goes, Outcome, runs, registries,
    history
<1>1. GenerationTypeOK'
  BY DEF StreamInv, GenerationTypeOK, Phase, Stream, Registering, Registered
<1>2. EventsOfOneExecution'
  BY DEF StreamInv, GenerationTypeOK, EventsOfOneExecution, Stream, Phase,
      Registering, Registered
<1>3. Entries'
  BY DEF StreamInv, GenerationTypeOK, Entries, Entry, Registered,
      Generating, Phase, Stream, Registering
<1>4. Owners'
  BY DEF StreamInv, GenerationTypeOK, Owners, Entries, Entry, Owner, Stays,
      Registered, Phase, Stream, Registering
<1> QED BY <1>1, <1>2, <1>3, <1>4 DEF StreamInv

LEMMA AnswerLostKeeps ==
    ASSUME NEW e \in Execution, StreamInv, AnswerLost(e)
    PROVE  StreamInv'
<1> USE StreamAssumption DEF AnswerLost, NoFault, Fault, Goes, Outcome, runs, registries,
    history
<1>1. GenerationTypeOK'
  BY DEF StreamInv, GenerationTypeOK, Phase, Stream, Registering, Registered
<1>2. EventsOfOneExecution'
  BY DEF StreamInv, GenerationTypeOK, EventsOfOneExecution, Stream, Phase,
      Registering, Registered
<1>3. Entries'
  BY DEF StreamInv, GenerationTypeOK, Entries, Entry, Registered,
      Generating, Phase, Stream, Registering
<1>4. Owners'
  BY DEF StreamInv, GenerationTypeOK, Owners, Entries, Entry, Owner, Stays,
      Registered, Phase, Stream, Registering
<1> QED BY <1>1, <1>2, <1>3, <1>4 DEF StreamInv

LEMMA OutcomeLostKeeps ==
    ASSUME NEW e \in Execution, StreamInv, OutcomeLost(e)
    PROVE  StreamInv'
<1> USE StreamAssumption DEF OutcomeLost, Goes, Outcome, runs, registries,
    history
<1>1. GenerationTypeOK'
  BY DEF StreamInv, GenerationTypeOK, Phase, Stream, Registering, Registered
<1>2. EventsOfOneExecution'
  BY DEF StreamInv, GenerationTypeOK, EventsOfOneExecution, Stream, Phase,
      Registering, Registered
<1>3. Entries'
  BY DEF StreamInv, GenerationTypeOK, Entries, Entry, Registered,
      Generating, Phase, Stream, Registering
<1>4. Owners'
  BY DEF StreamInv, GenerationTypeOK, Owners, Entries, Entry, Owner, Stays,
      Registered, Phase, Stream, Registering
<1> QED BY <1>1, <1>2, <1>3, <1>4 DEF StreamInv

LEMMA EndStreamKeeps ==
    ASSUME NEW e \in Execution, StreamInv, EndStream(e)
    PROVE  StreamInv'
<1> USE StreamAssumption DEF EndStream, Holds, Appended, Works, Fails,
    NoFault, Fault, Goes, runs, registries, history
<1>1. GenerationTypeOK'
  BY DEF StreamInv, GenerationTypeOK, Phase, Stream, Registering, Outcome,
      Registered
<1>2. EventsOfOneExecution'
  BY DEF StreamInv, GenerationTypeOK, EventsOfOneExecution, Stream, Phase,
      Registering, Registered
<1>3. Entries'
  BY DEF StreamInv, GenerationTypeOK, Entries, Entry, Registered,
      Generating, Outcome, Phase, Stream, Registering
<1>4. Owners'
  BY DEF StreamInv, GenerationTypeOK, Owners, Entries, Entry, Owner, Stays,
      Registered, Phase, Stream, Registering
<1> QED BY <1>1, <1>2, <1>3, <1>4 DEF StreamInv

LEMMA FinishKeeps ==
    ASSUME NEW e \in Execution, StreamInv, Finish(e)
    PROVE  StreamInv'
<1> USE StreamAssumption DEF Finish, Leaves, Goes, Canceled, runs, registries,
    history
<1>1. GenerationTypeOK'
  BY DEF StreamInv, GenerationTypeOK, Phase, Stream, Registering, Outcome,
      Registered
<1>2. EventsOfOneExecution'
  BY DEF StreamInv, GenerationTypeOK, EventsOfOneExecution, Stream, Phase,
      Registering, Registered
<1>3. Entries'
  BY DEF StreamInv, GenerationTypeOK, Entries, Entry, Registered,
      Generating, Outcome, Phase, Stream, Registering
<1>4. Owners'
  BY DEF StreamInv, GenerationTypeOK, Owners, Entries, Entry, Owner, Stays,
      Registered, Phase, Stream, Registering
<1> QED BY <1>1, <1>2, <1>3, <1>4 DEF StreamInv

LEMMA LeaseLostKeeps ==
    ASSUME NEW e \in Execution, StreamInv, LeaseLost(e)
    PROVE  StreamInv'
<1> USE StreamAssumption DEF LeaseLost, Remove, Leaves, Canceled, runs,
    registries, history
<1>1. GenerationTypeOK'
  BY DEF StreamInv, GenerationTypeOK, Phase, Stream, Registering, Outcome,
      Registered
<1>2. EventsOfOneExecution'
  BY DEF StreamInv, GenerationTypeOK, EventsOfOneExecution, Stream, Phase,
      Registering, Registered
<1>3. Entries'
  BY DEF StreamInv, GenerationTypeOK, Entries, Entry, Registered,
      Generating, Outcome, Phase, Stream, Registering
<1>4. Owners'
  BY DEF StreamInv, GenerationTypeOK, Owners, Entries, Entry, Owner, Stays,
      Registered, Phase, Stream, Registering
<1> QED BY <1>1, <1>2, <1>3, <1>4 DEF StreamInv

LEMMA RunExpiresKeeps ==
    ASSUME NEW e \in Execution, StreamInv, RunExpires(e)
    PROVE  StreamInv'
<1> USE StreamAssumption DEF RunExpires, Remove, Leaves, Canceled, runs,
    registries, history
<1>1. GenerationTypeOK'
  BY DEF StreamInv, GenerationTypeOK, Phase, Stream, Registering, Outcome,
      Registered
<1>2. EventsOfOneExecution'
  BY DEF StreamInv, GenerationTypeOK, EventsOfOneExecution, Stream, Phase,
      Registering, Registered
<1>3. Entries'
  BY DEF StreamInv, GenerationTypeOK, Entries, Entry, Registered,
      Generating, Outcome, Phase, Stream, Registering
<1>4. Owners'
  BY DEF StreamInv, GenerationTypeOK, Owners, Entries, Entry, Owner, Stays,
      Registered, Phase, Stream, Registering
<1> QED BY <1>1, <1>2, <1>3, <1>4 DEF StreamInv

LEMMA FinalizeGenerationKeeps ==
    ASSUME NEW e \in Execution, StreamInv, FinalizeGeneration(e)
    PROVE  StreamInv'
<1> USE StreamAssumption DEF FinalizeGeneration, Complete, Completed, Works,
    Fails, NoFault, Fault, runs, registries, history
<1>1. GenerationTypeOK'
  BY DEF StreamInv, GenerationTypeOK, Phase, Stream, Registering, Outcome,
      Registered
<1>2. EventsOfOneExecution'
  BY DEF StreamInv, GenerationTypeOK, EventsOfOneExecution, Stream, Phase,
      Registering, Registered
<1>3. Entries'
  BY DEF StreamInv, GenerationTypeOK, Entries, Entry, Registered,
      Generating, Outcome, Phase, Stream, Registering
<1>4. Owners'
  BY DEF StreamInv, GenerationTypeOK, Owners, Entries, Entry, Owner, Stays,
      Registered, Phase, Stream, Registering
<1> QED BY <1>1, <1>2, <1>3, <1>4 DEF StreamInv

LEMMA RetryCompletionKeeps ==
    ASSUME NEW e \in Execution, StreamInv, RetryCompletion(e)
    PROVE  StreamInv'
<1> USE StreamAssumption DEF RetryCompletion, Complete, Completed, Works,
    Fails, NoFault, Fault, runs, registries, history
<1>1. GenerationTypeOK'
  BY DEF StreamInv, GenerationTypeOK, Phase, Stream, Registering, Outcome,
      Registered
<1>2. EventsOfOneExecution'
  BY DEF StreamInv, GenerationTypeOK, EventsOfOneExecution, Stream, Phase,
      Registering, Registered
<1>3. Entries'
  BY DEF StreamInv, GenerationTypeOK, Entries, Entry, Registered,
      Generating, Outcome, Phase, Stream, Registering
<1>4. Owners'
  BY DEF StreamInv, GenerationTypeOK, Owners, Entries, Entry, Owner, Stays,
      Registered, Phase, Stream, Registering
<1> QED BY <1>1, <1>2, <1>3, <1>4 DEF StreamInv

LEMMA CompletionDroppedKeeps ==
    ASSUME NEW e \in Execution, StreamInv, CompletionDropped(e)
    PROVE  StreamInv'
<1> USE StreamAssumption DEF CompletionDropped, CompletionGone, NoFault, runs,
    registries, history
<1>1. GenerationTypeOK'
  BY DEF StreamInv, GenerationTypeOK, Phase, Stream, Registering, Outcome,
      Registered
<1>2. EventsOfOneExecution'
  BY DEF StreamInv, GenerationTypeOK, EventsOfOneExecution, Stream, Phase,
      Registering, Registered
<1>3. Entries'
  BY DEF StreamInv, GenerationTypeOK, Entries, Entry, Registered,
      Generating, Outcome, Phase, Stream, Registering
<1>4. Owners'
  BY DEF StreamInv, GenerationTypeOK, Owners, Entries, Entry, Owner, Stays,
      Registered, Phase, Stream, Registering
<1> QED BY <1>1, <1>2, <1>3, <1>4 DEF StreamInv

LEMMA CompletionExpiresKeeps ==
    ASSUME NEW e \in Execution, StreamInv, CompletionExpires(e)
    PROVE  StreamInv'
<1> USE StreamAssumption DEF CompletionExpires, CompletionGone, NoFault, runs,
    registries, history
<1>1. GenerationTypeOK'
  BY DEF StreamInv, GenerationTypeOK, Phase, Stream, Registering, Outcome,
      Registered
<1>2. EventsOfOneExecution'
  BY DEF StreamInv, GenerationTypeOK, EventsOfOneExecution, Stream, Phase,
      Registering, Registered
<1>3. Entries'
  BY DEF StreamInv, GenerationTypeOK, Entries, Entry, Registered,
      Generating, Outcome, Phase, Stream, Registering
<1>4. Owners'
  BY DEF StreamInv, GenerationTypeOK, Owners, Entries, Entry, Owner, Stays,
      Registered, Phase, Stream, Registering
<1> QED BY <1>1, <1>2, <1>3, <1>4 DEF StreamInv

LEMMA RemoveOrphanKeeps ==
    ASSUME NEW e \in Execution, StreamInv, RemoveOrphan(e)
    PROVE  StreamInv'
<1> USE StreamAssumption DEF RemoveOrphan, Remove, Leaves, Canceled, runs,
    registries, history
<1>1. GenerationTypeOK'
  BY DEF StreamInv, GenerationTypeOK, Phase, Stream, Registering, Outcome,
      Registered
<1>2. EventsOfOneExecution'
  BY DEF StreamInv, GenerationTypeOK, EventsOfOneExecution, Stream, Phase,
      Registering, Registered
<1>3. Entries'
  BY DEF StreamInv, GenerationTypeOK, Entries, Entry, Registered,
      Generating, Outcome, Phase, Stream, Registering
<1>4. Owners'
  BY DEF StreamInv, GenerationTypeOK, Owners, Entries, Entry, Owner, Stays,
      Registered, Phase, Stream, Registering
<1> QED BY <1>1, <1>2, <1>3, <1>4 DEF StreamInv

LEMMA CloseKeeps ==
    ASSUME NEW n \in Node, StreamInv, Close(n)
    PROVE  StreamInv'
<1> USE StreamAssumption DEF Close, runs, registries, history
<1>1. GenerationTypeOK'
  BY DEF StreamInv, GenerationTypeOK, Phase, Stream, Registering, Outcome,
      Registered
<1>2. EventsOfOneExecution'
  BY DEF StreamInv, GenerationTypeOK, EventsOfOneExecution, Stream, Phase,
      Registering, Registered
<1>3. Entries'
  BY DEF StreamInv, GenerationTypeOK, Entries, Entry, Registered,
      Generating, Outcome, Phase, Stream, Registering
<1>4. Owners'
  BY DEF StreamInv, GenerationTypeOK, Owners, Entries, Entry, Owner, Stays,
      Registered, Phase, Stream, Registering
<1> QED BY <1>1, <1>2, <1>3, <1>4 DEF StreamInv

LEMMA StopKeeps ==
    ASSUME NEW n \in Node, StreamInv, Stop(n)
    PROVE  StreamInv'
<1> USE StreamAssumption DEF Stop, NoFault, Fault, runs, registries, history
<1>1. GenerationTypeOK'
  BY DEF StreamInv, GenerationTypeOK, Phase, Stream, Registering, Outcome,
      Registered
<1>2. EventsOfOneExecution'
  BY DEF StreamInv, GenerationTypeOK, EventsOfOneExecution, Stream, Phase,
      Registering, Registered
<1>3. Entries'
  BY DEF StreamInv, GenerationTypeOK, Entries, Entry, Registered,
      Generating, Outcome, Phase, Stream, Registering
<1>4. Owners'
  BY DEF StreamInv, GenerationTypeOK, Owners, Entries, Entry, Owner, Stays,
      Registered, Phase, Stream, Registering
<1> QED BY <1>1, <1>2, <1>3, <1>4 DEF StreamInv

LEMMA RequestCancelKeeps ==
    ASSUME NEW n \in Node, StreamInv, RequestCancel(n)
    PROVE  StreamInv'
<1> USE StreamAssumption DEF RequestCancel, Works, Fails, NoFault, Fault,
    runs, registries, history
<1>1. GenerationTypeOK'
  <2>1. stream' \in Stream
    BY DEF StreamInv, GenerationTypeOK, Phase, Stream, Registering, Outcome
  <2>2. phase' \in [Execution -> Phase] /\ node' \in [Execution -> Node]
    BY DEF StreamInv, GenerationTypeOK, Phase, Stream, Registering, Outcome
  <2>3. live' \in [Execution -> BOOLEAN]
    BY DEF StreamInv, GenerationTypeOK, Phase, Stream, Registering, Outcome
  <2>4. message' \in [Execution -> {"none", "pending"} \cup Outcome]
    BY DEF StreamInv, GenerationTypeOK, Phase, Stream, Registering, Outcome
  <2>5. final' \in [Execution ->
                {"none", "trying", "queued", "done", "dropped", "expired"}]
    BY DEF StreamInv, GenerationTypeOK, Phase, Stream, Registering, Outcome
  <2>6. local' \in [Node -> Execution \cup {None}] /\ closed' \in [Node -> BOOLEAN]
    BY DEF StreamInv, GenerationTypeOK, Phase, Stream, Registering, Outcome
  <2>7. /\ faults' \in 0 .. MaxFaults /\ stalls' \in 0 .. MaxFaults
        /\ unwritten' \subseteq Execution
    BY DEF StreamInv, GenerationTypeOK, Phase, Stream, Registering, Outcome
  <2> QED BY <2>1, <2>2, <2>3, <2>4, <2>5, <2>6, <2>7 DEF GenerationTypeOK
<1>2. EventsOfOneExecution'
  BY DEF StreamInv, GenerationTypeOK, EventsOfOneExecution, Stream, Phase,
      Registering, Registered
<1>3. Entries'
  BY DEF StreamInv, GenerationTypeOK, Entries, Entry, Registered,
      Generating, Outcome, Phase, Stream, Registering
<1>4. Owners'
  BY DEF StreamInv, GenerationTypeOK, Owners, Entries, Entry, Owner, Stays,
      Registered, Phase, Stream, Registering
<1> QED BY <1>1, <1>2, <1>3, <1>4 DEF StreamInv

LEMMA LeaseExpiresKeeps ==
    ASSUME StreamInv, LeaseExpires
    PROVE  StreamInv'
<1> USE StreamAssumption DEF LeaseExpires, Stays, NoFault, runs, registries,
    history
<1>1. GenerationTypeOK'
  BY DEF StreamInv, GenerationTypeOK, Phase, Stream, Registering, Outcome,
      Registered
<1>2. EventsOfOneExecution'
  BY DEF StreamInv, GenerationTypeOK, EventsOfOneExecution, Stream, Phase,
      Registering, Registered
<1>3. Entries'
  BY DEF StreamInv, GenerationTypeOK, Entries, Entry, Registered,
      Generating, Outcome, Phase, Stream, Registering
<1>4. Owners'
  BY DEF StreamInv, GenerationTypeOK, Owners, Entries, Entry, Owner,
      Registered, Phase, Stream, Registering
<1> QED BY <1>1, <1>2, <1>3, <1>4 DEF StreamInv

LEMMA OwnershipExpiresKeeps ==
    ASSUME StreamInv, OwnershipExpires
    PROVE  StreamInv'
<1> USE StreamAssumption DEF OwnershipExpires, runs, registries, history
<1>1. GenerationTypeOK'
  BY DEF StreamInv, GenerationTypeOK, Phase, Stream, Registering, Outcome,
      Registered
<1>2. EventsOfOneExecution'
  BY DEF StreamInv, GenerationTypeOK, EventsOfOneExecution, Stream, Phase,
      Registering, Registered
<1>3. Entries'
  BY DEF StreamInv, GenerationTypeOK, Entries, Entry, Registered,
      Generating, Outcome, Phase, Stream, Registering
<1>4. Owners'
  BY DEF StreamInv, GenerationTypeOK, Owners, Entries, Entry, Owner, Stays,
      Registered, Phase, Stream, Registering
<1> QED BY <1>1, <1>2, <1>3, <1>4 DEF StreamInv

LEMMA CancelMarkerExpiresKeeps ==
    ASSUME StreamInv, CancelMarkerExpires
    PROVE  StreamInv'
<1> USE StreamAssumption DEF CancelMarkerExpires, runs, registries, history
<1>1. GenerationTypeOK'
  BY DEF StreamInv, GenerationTypeOK, Phase, Stream, Registering, Outcome,
      Registered
<1>2. EventsOfOneExecution'
  BY DEF StreamInv, GenerationTypeOK, EventsOfOneExecution, Stream, Phase,
      Registering, Registered
<1>3. Entries'
  BY DEF StreamInv, GenerationTypeOK, Entries, Entry, Registered,
      Generating, Outcome, Phase, Stream, Registering
<1>4. Owners'
  BY DEF StreamInv, GenerationTypeOK, Owners, Entries, Entry, Owner, Stays,
      Registered, Phase, Stream, Registering
<1> QED BY <1>1, <1>2, <1>3, <1>4 DEF StreamInv

LEMMA StopPendingMessagesKeeps ==
    ASSUME StreamInv, StopPendingMessages
    PROVE  StreamInv'
<1> USE StreamAssumption DEF StopPendingMessages, runs, registries, history
<1>1. GenerationTypeOK'
  BY DEF StreamInv, GenerationTypeOK, Phase, Stream, Registering, Outcome,
      Registered
<1>2. EventsOfOneExecution'
  BY DEF StreamInv, GenerationTypeOK, EventsOfOneExecution, Stream, Phase,
      Registering, Registered
<1>3. Entries'
  BY DEF StreamInv, GenerationTypeOK, Entries, Entry, Registered,
      Generating, Outcome, Phase, Stream, Registering
<1>4. Owners'
  BY DEF StreamInv, GenerationTypeOK, Owners, Entries, Entry, Owner, Stays,
      Registered, Phase, Stream, Registering
<1> QED BY <1>1, <1>2, <1>3, <1>4 DEF StreamInv

LEMMA StutterKeeps ==
    ASSUME StreamInv, UNCHANGED vars
    PROVE  StreamInv'
BY DEF vars, runs, registries, history, StreamInv, GenerationTypeOK,
    EventsOfOneExecution, Entries, Entry, Owners, Owner, Stays, Registered, Generating

----------------------------------------------------------------------------
(* The theorems                                                            *)

LEMMA StreamInitially == Init => StreamInv
<1> SUFFICES ASSUME Init PROVE StreamInv
  OBVIOUS
<1>1. GenerationTypeOK
  BY StreamAssumption DEF Init, NoStream, GenerationTypeOK, Stream, Phase
<1>2. EventsOfOneExecution /\ Entries /\ Owners
  BY StreamAssumption DEF Init, NoStream, EventsOfOneExecution, Entries, Entry,
        Owners, Owner, Stays, Registered, Generating
<1> QED BY <1>1, <1>2 DEF StreamInv

LEMMA StreamSteps == StreamInv /\ [Next]_vars => StreamInv'
<1> SUFFICES ASSUME StreamInv, [Next]_vars PROVE StreamInv'
  OBVIOUS
<1>1. ASSUME NEW e \in Execution, Start(e) \/ Register(e)
      PROVE  StreamInv'
  BY <1>1, StartKeeps, ClaimKeeps, ClaimRefusedKeeps, ClaimFailsKeeps,
        EnrolKeeps, EnrolRefusedKeeps, AbandonKeeps, ConfirmKeeps DEF Register
<1>2. ASSUME NEW e \in Execution, Publish(e) \/ GenerationEnds(e) \/ Returns(e)
      PROVE  StreamInv'
  BY <1>2, PublishKeeps, PublishRefusedKeeps, ObserveCancelKeeps,
        UpstreamEndsKeeps, WriteOutcomeKeeps, AnswerLostKeeps,
        OutcomeLostKeeps, EndStreamKeeps, FinishKeeps
     DEF GenerationEnds, Returns
<1>3. ASSUME NEW e \in Execution,
             \/ LeaseLost(e) \/ RunExpires(e) \/ RemoveOrphan(e)
             \/ Completion(e) \/ CompletionExpires(e)
      PROVE  StreamInv'
  BY <1>3, LeaseLostKeeps, RunExpiresKeeps, RemoveOrphanKeeps,
        FinalizeGenerationKeeps, RetryCompletionKeeps, CompletionDroppedKeeps,
        CompletionExpiresKeeps DEF Completion
<1>4. ASSUME NEW n \in Node, Close(n) \/ Stop(n) \/ RequestCancel(n)
      PROVE  StreamInv'
  BY <1>4, CloseKeeps, StopKeeps, RequestCancelKeeps
<1>5. CASE LeaseExpires \/ OwnershipExpires \/ CancelMarkerExpires \/ StopPendingMessages
  BY <1>5, LeaseExpiresKeeps, OwnershipExpiresKeeps, CancelMarkerExpiresKeeps,
        StopPendingMessagesKeeps
<1>6. CASE UNCHANGED vars
  BY <1>6, StutterKeeps
<1> QED BY <1>1, <1>2, <1>3, <1>4, <1>5, <1>6 DEF Next

\* The invariant holds in every state, with or without fairness.
THEOREM StreamInvariant == StreamSafe => []StreamInv
BY StreamInitially, StreamSteps, PTL DEF StreamSafe

\* Every variable of the registries, the store and the messages keeps its type.
THEOREM GenerationTypes == StreamSafe => []GenerationTypeOK
<1>1. StreamInv => GenerationTypeOK
  BY DEF StreamInv
<1> QED BY <1>1, StreamInvariant, PTL

\* The events the store retains are never a mixture of two executions
\* (AppendGenerationStreamEvent checks who appends, a claim clears the rest).
THEOREM OneExecutionsEvents == StreamSafe => []EventsOfOneExecution
<1>1. StreamInv => EventsOfOneExecution
  BY DEF StreamInv
<1> QED BY <1>1, StreamInvariant, PTL

\* Two executions never generate for the same run, for any number of processes
\* and of stalls, failed calls and crashes.
THEOREM OneRunnerAtATime == StreamSafe => []OneRunner
<1>1. StreamInv => OneRunner
  BY DEF StreamInv, OneRunner, Owners, Owner, Entries, Entry, Stays, Generating
<1> QED BY <1>1, StreamInvariant, PTL

LEMMA StepKeepsLease ==
    ASSUME StreamInv, Next, NEW e \in Execution,
           Generating(e), stream.exec = e, stream'.exec # e
    PROVE  stalls' = stalls + 1
<1> USE StreamAssumption DEF NoStream, Taken, Works, Fails, NoFault, Fault
<1>1. phase[e] = "generating" /\ final[e] = "none" /\ Registered(e) /\ e # None
  BY DEF StreamInv, Entries, Entry, Generating
<1>2. ASSUME NEW f \in Execution, Start(f) \/ Register(f) PROVE FALSE
  <2>1. stream' = stream \/ (stream' = Abandoned(f) /\ phase[f] = "abandoning")
    BY <1>1, <1>2 DEF Start, Register, Claim, ClaimRefused, ClaimFails,
        Claimable,
        Enrol, EnrolRefused, Abandon, Confirm, Goes
  <2>2. f # e => Abandoned(f) = stream
    BY DEF Abandoned
  <2> QED BY <2>1, <2>2, <1>1
<1>3. ASSUME NEW f \in Execution, Publish(f) \/ GenerationEnds(f) \/ Returns(f)
      PROVE  FALSE
  <2>1. stream' = stream \/ stream' = Appended(f)
    BY <1>3 DEF Publish, GenerationEnds, PublishRefused, ObserveCancel,
        UpstreamEnds, Returns, WriteOutcome, AnswerLost, OutcomeLost,
        EndStream, Finish
  <2>2. stream'.exec = stream.exec
    BY <2>1 DEF Appended, StreamInv, GenerationTypeOK, Stream
  <2> QED BY <2>2
<1>4. ASSUME NEW f \in Execution,
             \/ LeaseLost(f) \/ RunExpires(f) \/ RemoveOrphan(f)
             \/ Completion(f) \/ CompletionExpires(f)
      PROVE  FALSE
  <2>1. stream' = stream \/ (stream' = Completed(f) /\ final[f] # "none")
    BY <1>4 DEF LeaseLost, RunExpires, RemoveOrphan, Remove, Completion,
        FinalizeGeneration, RetryCompletion, Complete, CompletionDropped,
        CompletionExpires, CompletionGone
  <2>2. f # e => Completed(f) = stream
    BY <1>1 DEF Completed
  <2> QED BY <2>1, <2>2, <1>1
<1>5. ASSUME NEW n \in Node, Close(n) \/ Stop(n) \/ RequestCancel(n)
      PROVE  FALSE
  <2>1. stream' = stream \/ stream' = [stream EXCEPT !.cancel = TRUE]
    BY <1>5 DEF Close, Stop, RequestCancel
  <2> QED BY <2>1 DEF StreamInv, GenerationTypeOK, Stream
<1>6. CASE LeaseExpires
  BY <1>1, <1>6 DEF LeaseExpires, Stays
<1>7. CASE OwnershipExpires \/ CancelMarkerExpires \/ StopPendingMessages
  BY <1>1, <1>7 DEF OwnershipExpires, CancelMarkerExpires, StopPendingMessages,
        StreamInv, GenerationTypeOK, Stream
<1> QED BY <1>2, <1>3, <1>4, <1>5, <1>6, <1>7 DEF Next

\* While an execution generates, its lease ends by a stall only: nothing that
\* others do to the stream releases it.
THEOREM LeaseIsKept == StreamSafe => LeaseKept
<1>1. StreamInv /\ [Next]_vars =>
        [\A e \in Execution :
            Generating(e) /\ stream.exec = e /\ stream'.exec # e
                => stalls' = stalls + 1]_vars
  BY StepKeepsLease
<1> QED BY <1>1, StreamInvariant, PTL DEF StreamSafe, LeaseKept

LEMMA StepKeepsMessage ==
    ASSUME StreamInv, Next, NEW e \in Execution,
           phase[e] \in {"returned", "finishing", "done"},
           e \in unwritten => message[e] # "pending"
    PROVE  message'[e] = message[e]
<1>1. message[e] # "pending" /\ message \in [Execution -> {"none", "pending"} \cup Outcome]
  BY DEF StreamInv, Entries, Entry, Outcome, GenerationTypeOK
<1>2. CASE \E f \in Execution : Confirm(f) \/ WriteOutcome(f) \/ AnswerLost(f)
  BY <1>1, <1>2 DEF Confirm, WriteOutcome, AnswerLost, Goes, Outcome, StreamInv,
      GenerationTypeOK
<1>3. CASE StopPendingMessages
  BY <1>1, <1>3 DEF StopPendingMessages
<1>4. CASE UNCHANGED message
  BY <1>4
<1> QED
  BY <1>2, <1>3, <1>4 DEF Next, Start, Register, Claim, ClaimRefused,
      ClaimFails,
        Enrol, EnrolRefused, Abandon, Publish, GenerationEnds, PublishRefused,
        ObserveCancel, UpstreamEnds, Returns, OutcomeLost, EndStream, Finish,
        LeaseLost,
        RunExpires, Remove, Completion, FinalizeGeneration, RetryCompletion,
        Complete, CompletionDropped, CompletionExpires, CompletionGone,
        RemoveOrphan, Close, Stop, RequestCancel, LeaseExpires,
        OwnershipExpires, CancelMarkerExpires, runs

LEMMA StepFinalizesOnce ==
    ASSUME StreamInv, Next, NEW e \in Execution, final[e] # "none"
    PROVE  final'[e] \notin {"none", "trying"} \/ final'[e] = final[e]
<1>1. ~Registered(e) /\ final \in [Execution ->
                {"none", "trying", "queued", "done", "dropped", "expired"}]
  BY DEF StreamInv, Entries, Entry, GenerationTypeOK
<1>2. CASE UNCHANGED final
  BY <1>2
<1>3. ASSUME NEW f \in Execution, Registered(f), Leaves(f)
      PROVE  final'[e] = final[e]
  BY <1>1, <1>3 DEF Leaves
<1>4. ASSUME NEW f \in Execution, Completion(f) \/ CompletionExpires(f)
      PROVE  final'[e] \notin {"none", "trying"} \/ final'[e] = final[e]
  BY <1>1, <1>4 DEF Completion, FinalizeGeneration, RetryCompletion, Complete,
        CompletionDropped, CompletionExpires, CompletionGone
<1>5. CASE \E n \in Node : Stop(n)
  BY <1>1, <1>5 DEF Stop
<1> QED
  BY <1>2, <1>3, <1>4, <1>5 DEF Next, Start, Register, Claim, ClaimRefused,
        ClaimFails, Enrol, EnrolRefused, Abandon, Confirm, Publish,
        GenerationEnds, PublishRefused, ObserveCancel, UpstreamEnds, Returns,
        WriteOutcome, AnswerLost, OutcomeLost, EndStream, Finish, LeaseLost,
        RunExpires, RemoveOrphan,
        Remove, Close, RequestCancel, LeaseExpires, OwnershipExpires,
        CancelMarkerExpires, StopPendingMessages, runs

\* What a run wrote as its message's status stands whatever cancels and resumes
\* are under way (only a message whose last write failed may still be stopped),
\* and its completion starts once.
THEOREM EndsDoStand == StreamSafe => EndsStand
<1>1. StreamInv /\ [Next]_vars =>
        [\A e \in Execution :
            /\ /\ phase[e] \in {"returned", "finishing", "done"}
               /\ e \in unwritten => message[e] # "pending"
               => message'[e] = message[e]
            /\ final[e] # "none" =>
                    final'[e] \notin {"none", "trying"} \/ final'[e] = final[e]]_vars
  BY StepKeepsMessage, StepFinalizesOnce
<1> QED BY <1>1, StreamInvariant, PTL DEF StreamSafe, EndsStand

=============================================================================
