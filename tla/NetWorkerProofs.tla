--------------------------- MODULE NetWorkerProofs ---------------------------
(***************************************************************************)
(* Proofs about NetWorker for every set of operations, every policy, every  *)
(* number of transfer threads and every capacity.  The first part is about  *)
(* who owns an operation; the second about the counters and the policy of   *)
(* batches, wake-ups and the order of admission; the third shows that the    *)
(* worker implements NetService.                                            *)
(***************************************************************************)
EXTENDS NetWorker, DataLemmas

\* A thread that is transferring or sending has a job in hand, and so had one
\* that panicked.
BusyWorkersHaveJobs ==
    \A w \in Workers : worker[w].pc \in {"transfer", "send", "panicked"} =>
                          worker[w].job \in JobSet

TypeInv == TypeOK /\ PermitsMatchOperations /\ BusyWorkersHaveJobs

(* The order of the indices of a batch is that of its pending requests.      *)
LEMMA NatHasMinimum ==
    ASSUME NEW S \in SUBSET Nat, S # {}
    PROVE  First(S) \in S /\ \A j \in S : First(S) <= j
  BY NatMinimum DEF First

(* An outcome that names a request is an outcome.                           *)
LEMMA OutcomeTypes ==
    /\ NoOutcome \in Outcomes
    /\ \A k \in OutcomeKinds, i \in Nat : Outcome(k, i) \in Outcomes
  BY DEF Outcomes, Outcome, NoOutcome, OutcomeKinds

(* The vectors the dispatcher makes up are sequences of outcomes.            *)
LEMMA FillTypes ==
    ASSUME NEW o \in Ops, NEW kind \in OutcomeKinds
    PROVE  Fill(o, kind) \in Seq(Outcomes)
<1>1. Len(Requests[o]) \in Nat
  BY RequestsAssumption, LenProperties
<1>2. Fill(o, kind) \in [1..Len(Requests[o]) -> Outcomes]
  BY OutcomeTypes, <1>1 DEF Fill, Indices
<1> QED  BY <1>1, <1>2, SeqDef

LEMMA FillMissingTypes ==
    ASSUME NEW results \in Seq(Outcomes), NEW kind \in OutcomeKinds
    PROVE  FillMissing(results, kind) \in Seq(Outcomes)
<1>1. /\ Len(results) \in Nat /\ DOMAIN results = 1..Len(results)
      /\ results \in [1..Len(results) -> Outcomes]
  BY LenProperties
<1>2. FillMissing(results, kind) \in [1..Len(results) -> Outcomes]
  BY OutcomeTypes, <1>1 DEF FillMissing
<1> QED  BY <1>1, <1>2, SeqDef

(* A fresh batch and a dropped one are batches.                              *)
LEMMA BatchTypes ==
    /\ DroppedBatch \in BatchSet
    /\ \A o \in Ops : NewBatch(o) \in BatchSet
<1>1. DroppedBatch \in BatchSet
  BY EmptySeq DEF DroppedBatch, BatchSet
<1>2. ASSUME NEW o \in Ops
      PROVE  NewBatch(o) \in BatchSet
  <2>1. Len(Requests[o]) \in Nat
    BY RequestsAssumption, LenProperties
  <2>2. [i \in Indices(o) |-> NoOutcome] \in [1..Len(Requests[o]) -> Outcomes]
    BY OutcomeTypes DEF Indices
  <2>3. [i \in Indices(o) |-> NoOutcome] \in Seq(Outcomes)
    BY <2>1, <2>2, SeqDef
  <2> QED  BY <2>1, <2>3 DEF NewBatch, BatchSet, Indices
<1> QED  BY <1>1, <1>2

\* One message is added to the channels of S and to no other.
OnlyAnswers(S) ==
    \A p \in Ops : IF p \in S THEN /\ response'[p] # <<>>
                                  /\ Len(response'[p]) = Len(response[p]) + 1
                   ELSE response'[p] = response[p]

(* Answering a set of operations adds one message to each of their channels  *)
(* and to no other.                                                          *)
LEMMA RespondEffect ==
    ASSUME response \in [Ops -> Seq(Seq(Outcomes))],
           NEW answers, DOMAIN answers \subseteq Ops,
           \A o \in DOMAIN answers : answers[o] \in Seq(Outcomes),
           Respond(answers)
    PROVE  /\ response' \in [Ops -> Seq(Seq(Outcomes))]
           /\ OnlyAnswers(DOMAIN answers)
<1>1. \A o \in DOMAIN answers :
         /\ Append(response[o], answers[o]) \in Seq(Seq(Outcomes))
         /\ Append(response[o], answers[o]) # <<>>
         /\ Len(Append(response[o], answers[o])) = Len(response[o]) + 1
  BY AppendProperties
<1> QED  BY <1>1 DEF Respond, OnlyAnswers

LEMMA ReplyEffect ==
    ASSUME response \in [Ops -> Seq(Seq(Outcomes))],
           NEW o \in Ops, NEW answer \in Seq(Outcomes), Reply(o, answer)
    PROVE  /\ response' \in [Ops -> Seq(Seq(Outcomes))]
           /\ OnlyAnswers({o})
<1> DEFINE answers == [p \in {o} |-> answer]
<1>1. DOMAIN answers = {o} /\ answers[o] = answer
  OBVIOUS
<1>2. Respond(answers)
  BY DEF Reply
<1> HIDE DEF answers
<1> QED  BY <1>1, <1>2, RespondEffect

LEMMA ReplyOnly ==
    ASSUME response \in [Ops -> Seq(Seq(Outcomes))], NEW o \in Ops, NEW answer,
           Reply(o, answer)
    PROVE  OnlyAnswers({o})
<1> DEFINE S == Seq(Outcomes) \cup {answer}
<1>1. response[o] \in Seq(S) /\ answer \in S
  BY SeqMonotonic
<1> HIDE DEF S
<1>2. /\ Append(response[o], answer) # <<>>
      /\ Len(Append(response[o], answer)) = Len(response[o]) + 1
  BY <1>1, AppendProperties
<1>3. /\ response'[o] = Append(response[o], answer)
      /\ \A p \in Ops : p # o => response'[p] = response[p]
  BY DEF Reply, Respond
<1> QED  BY <1>2, <1>3 DEF OnlyAnswers

(* Dropping operations releases exactly their permits.                       *)
LEMMA RemoveEffect ==
    ASSUME TypeOK, PermitsMatchOperations, NEW S \in SUBSET Ops, Remove(S)
    PROVE  /\ live' \subseteq Ops /\ scheduled' \subseteq Ops
           /\ batch' \in [Ops -> BatchSet]
           /\ permits' \in 0..OperationCapacity
           /\ PermitsMatchOperations'
<1>1. IsFiniteSet(live) /\ IsFiniteSet(live \ S) /\ IsFiniteSet(live \cap S)
  BY OpsAssumption, FS_Subset DEF TypeOK
<1>2. Cardinality(live \ S) = Cardinality(live) - Cardinality(live \cap S)
  BY <1>1, FS_Difference
<1>3. Cardinality(live \ S) \in Nat /\ Cardinality(live \cap S) \in Nat
  BY <1>1, FS_CardinalityType
<1>4. permits' = Cardinality(live \ S)
  <2>1. S \cap live = live \cap S
    OBVIOUS
  <2> QED  BY <1>2, <1>3, <2>1 DEF Remove, PermitsMatchOperations
<1>5. permits' \in 0..OperationCapacity
  <2>1. permits \in 0..OperationCapacity /\ OperationCapacity \in Nat
    BY CapacityAssumption DEF TypeOK
  <2>2. Cardinality(live \ S) = permits - Cardinality(live \cap S)
    BY <1>2 DEF PermitsMatchOperations
  <2> QED  BY <1>3, <1>4, <2>1, <2>2
<1>6. batch' \in [Ops -> BatchSet]
  BY BatchTypes DEF Remove, TypeOK
<1> QED  BY <1>4, <1>5, <1>6 DEF Remove, TypeOK, PermitsMatchOperations

(* Admission takes one permit for the operation, or answers it at once.      *)
LEMMA AdmitEffect ==
    ASSUME TypeOK, PermitsMatchOperations, NEW o \in Ops, o \notin live,
           permits < OperationCapacity, Admit(o)
    PROVE  /\ live' \subseteq Ops /\ scheduled' \subseteq Ops
           /\ ready' \in Seq(Ops)
           /\ batch' \in [Ops -> BatchSet]
           /\ permits' \in 0..OperationCapacity
           /\ PermitsMatchOperations'
           /\ response' \in [Ops -> Seq(Seq(Outcomes))]
           /\ \/ live' = live /\ OnlyAnswers({o})
              \/ live' = live \cup {o} /\ response' = response
<1>1. CASE /\ o \in cancelled \/ Requests[o] = <<>>
           /\ Reply(o, Fill(o, "cancelled")) \/ Reply(o, <<>>)
           /\ UNCHANGED <<live, ready, scheduled, batch, permits>>
  <2>1. Fill(o, "cancelled") \in Seq(Outcomes) /\ <<>> \in Seq(Outcomes)
    BY FillTypes, EmptySeq DEF OutcomeKinds
  <2>2. response' \in [Ops -> Seq(Seq(Outcomes))] /\ OnlyAnswers({o})
    BY <1>1, <2>1, ReplyEffect DEF TypeOK
  <2> QED  BY <1>1, <2>2 DEF TypeOK, PermitsMatchOperations
<1>2. CASE /\ o \notin cancelled /\ Requests[o] # <<>>
           /\ live' = live \cup {o} /\ permits' = permits + 1
           /\ ready' = Append(ready, o)
           /\ batch' = IF o \in Batches THEN [batch EXCEPT ![o] = NewBatch(o)] ELSE batch
           /\ UNCHANGED <<scheduled, response>>
  <2>1. IsFiniteSet(live)
    BY OpsAssumption, FS_Subset DEF TypeOK
  <2>2. Cardinality(live') = Cardinality(live) + 1
    BY <1>2, <2>1, FS_AddElement
  <2>3. ready' \in Seq(Ops)
    BY <1>2, AppendProperties DEF TypeOK
  <2>4. batch' \in [Ops -> BatchSet]
    BY <1>2, BatchTypes DEF TypeOK
  <2>5. permits' \in 0..OperationCapacity
    BY <1>2, CapacityAssumption DEF TypeOK
  <2> QED  BY <1>2, <2>2, <2>3, <2>4, <2>5 DEF TypeOK, PermitsMatchOperations
<1> QED  BY <1>1, <1>2 DEF Admit

------------------------------------------------------------------------------
(* Every step keeps the types, the queue bounds and the permit count.        *)

(* The caller's side: start-up, submission, cancellation, time.              *)
LEMMA ClientTypes ==
    ASSUME TypeInv, Client \/ \E o \in Ops : Elapse(o)
    PROVE  TypeInv'
<1> USE DEF TypeInv, PermitsMatchOperations, BusyWorkersHaveJobs, clientVars,
            schedulerVars, poolVars
<1>1. ASSUME NEW o \in Ops, SubmitAccepted(o)
      PROVE  TypeInv'
  <2>1. Command(o) \in EventSet
    BY OutcomeTypes DEF Command, EventSet
  <2>2. channel' \in Seq(EventSet) /\ Len(channel') <= QueueCapacity
    BY <1>1, <2>1, PushProperties, CapacityAssumption, LenProperties
       DEF SubmitAccepted, TypeOK
  <2> QED  BY <1>1, <2>2 DEF SubmitAccepted, TypeOK
<1>2. ASSUME NEW o \in Ops, SubmitRejected(o)
      PROVE  TypeInv'
  <2>1. response' \in [Ops -> Seq(Seq(Outcomes))]
    BY <1>2, FillTypes, ReplyEffect DEF SubmitRejected, TypeOK, OutcomeKinds
  <2> QED  BY <1>2, <2>1 DEF SubmitRejected, TypeOK
<1>3. ASSUME NEW o \in Ops, Cancel(o)
      PROVE  TypeInv'
  BY <1>3 DEF Cancel, TypeOK
<1>4. ASSUME DropHandle
      PROVE  TypeInv'
  BY <1>4 DEF DropHandle, TypeOK
<1>5. ASSUME StartFails
      PROVE  TypeInv'
  <2>1. jobs' \in Seq(JobSet) /\ Len(jobs') <= QueueCapacity
    BY <1>5, EmptySeq, CapacityAssumption DEF StartFails
  <2> QED  BY <1>5, <2>1 DEF StartFails, TypeOK
<1>6. ASSUME NEW w \in Workers, StartWorker(w)
      PROVE  TypeInv'
  <2>1. Parked("idle") \in WorkerSet
    BY OutcomeTypes DEF Parked, WorkerSet
  <2> QED  BY <1>6, <2>1 DEF StartWorker, TypeOK, Parked
<1>7. ASSUME NEW o \in Ops, Elapse(o)
      PROVE  TypeInv'
  BY <1>7 DEF Elapse, TypeOK
<1> QED  BY <1>1, <1>2, <1>3, <1>4, <1>5, <1>6, <1>7 DEF Client

(* The transfer threads.                                                     *)
LEMMA PoolTypes ==
    ASSUME TypeInv, NEW w \in Workers, Pool(w) \/ Panic(w)
    PROVE  TypeInv'
<1> USE DEF TypeInv, PermitsMatchOperations, BusyWorkersHaveJobs, clientVars,
            schedulerVars, poolVars
<1>1. ASSUME Pop(w)
      PROVE  TypeInv'
  <2>1. /\ Head(jobs) \in JobSet /\ jobs' \in Seq(JobSet)
        /\ Len(jobs') <= QueueCapacity
    BY <1>1, PopProperties, CapacityAssumption, LenProperties DEF Pop, TypeOK
  <2>2. Outcome("cancelled", Head(jobs).index) \in Outcomes
    BY <2>1, OutcomeTypes DEF JobSet, OutcomeKinds
  <2>3. worker' \in [Workers -> WorkerSet]
    BY <1>1, <2>1, <2>2, OutcomeTypes DEF Pop, TypeOK, WorkerSet
  <2>4. BusyWorkersHaveJobs'
    BY <1>1, <2>1 DEF Pop, TypeOK
  <2> QED  BY <1>1, <2>1, <2>3, <2>4 DEF Pop, TypeOK
<1>2. ASSUME Transfer(w)
      PROVE  TypeInv'
  <2>1. worker[w] \in WorkerSet /\ worker[w].job \in JobSet
    BY <1>2 DEF Transfer, TypeOK
  <2>2. \A kind \in {"answer", "cancelled"} :
           Outcome(kind, worker[w].job.index) \in Outcomes
    BY <2>1, OutcomeTypes DEF JobSet, OutcomeKinds
  <2>3. worker' \in [Workers -> WorkerSet]
    <3>1. PICK kind \in {"answer", "cancelled"} :
             worker' = [worker EXCEPT ![w].pc = "send",
                            ![w].outcome = Outcome(kind, worker[w].job.index)]
      BY <1>2 DEF Transfer
    <3>2. worker' = [worker EXCEPT ![w] =
                       [worker[w] EXCEPT !.pc = "send",
                            !.outcome = Outcome(kind, worker[w].job.index)]]
      BY <2>1, <3>1 DEF TypeOK
    <3>3. [worker[w] EXCEPT !.pc = "send",
              !.outcome = Outcome(kind, worker[w].job.index)] \in WorkerSet
      BY <2>1, <2>2 DEF WorkerSet
    <3> QED  BY <3>2, <3>3 DEF TypeOK
  <2>4. BusyWorkersHaveJobs'
    BY <1>2, <2>1 DEF Transfer, TypeOK, WorkerSet
  <2> QED  BY <1>2, <2>3, <2>4 DEF Transfer, TypeOK
<1>3. ASSUME SendCompletion(w)
      PROVE  TypeInv'
  <2>1. Completion(worker[w].job, worker[w].outcome) \in EventSet
    BY <1>3 DEF SendCompletion, TypeOK, WorkerSet, JobSet, EventSet, Completion
  <2>2. channel' \in Seq(EventSet) /\ Len(channel') <= QueueCapacity
    BY <1>3, <2>1, PushProperties, CapacityAssumption, LenProperties
       DEF SendCompletion, TypeOK
  <2>3. Parked("idle") \in WorkerSet
    BY OutcomeTypes DEF Parked, WorkerSet
  <2> QED  BY <1>3, <2>2, <2>3 DEF SendCompletion, TypeOK, Parked
<1>4. ASSUME Exit(w)
      PROVE  TypeInv'
  <2>1. Parked("exited") \in WorkerSet
    BY OutcomeTypes DEF Parked, WorkerSet
  <2> QED  BY <1>4, <2>1 DEF Exit, TypeOK, Parked
<1>5. ASSUME Panic(w)
      PROVE  TypeInv'
  <2>1. worker[w] \in WorkerSet /\ worker[w].job \in JobSet
    BY <1>5 DEF Panic, TypeOK
  <2>2. /\ worker' = [worker EXCEPT ![w] = [worker[w] EXCEPT !.pc = "panicked"]]
        /\ [worker[w] EXCEPT !.pc = "panicked"] \in WorkerSet
    BY <1>5, <2>1 DEF Panic, TypeOK, WorkerSet
  <2>3. worker' \in [Workers -> WorkerSet]
    BY <2>2 DEF TypeOK
  <2>4. BusyWorkersHaveJobs'
    BY <1>5, <2>1, <2>2 DEF TypeOK, WorkerSet
  <2> QED  BY <1>5, <2>3, <2>4 DEF Panic, TypeOK
<1> QED  BY <1>1, <1>2, <1>3, <1>4, <1>5 DEF Pool

(* The dispatcher's sweep and its promotion loop.                            *)
LEMMA SweepTypes ==
    ASSUME TypeInv, Sweep
    PROVE  TypeInv'
<1> USE DEF TypeInv, clientVars, poolVars
<1> USE DEF CancelledOperations, ExpiredBatches, CancelledCommands
<1> DEFINE late == ExpiredBatches
           dropped == CancelledCommands
           gone == CancelledOperations \cup ExpiredBatches
           answers == [o \in gone \cup dropped |->
                         IF o \in late
                         THEN FillMissing(batch[o].results, "timeout")
                         ELSE Fill(o, "cancelled")]
<1>1. gone \in SUBSET Ops /\ dropped \in SUBSET Ops
  BY LenProperties, ElementOfSeq DEF TypeOK, Elements
<1>2. /\ dispatcher' = "promote" /\ Remove(gone)
      /\ ready' = Retain(ready, live \ gone)
      /\ waiting' = Retain(waiting, Ops \ cancelled)
      /\ cancelled' = cancelled \cup late /\ Respond(answers)
      /\ UNCHANGED <<clientVars, overdue, channel, poolVars>>
  BY DEF Sweep
<1>3. /\ DOMAIN answers \subseteq Ops
      /\ \A o \in DOMAIN answers : answers[o] \in Seq(Outcomes)
  <2>1. \A o \in Ops : batch[o].results \in Seq(Outcomes)
    BY DEF TypeOK, BatchSet
  <2> QED  BY <1>1, <2>1, FillTypes, FillMissingTypes DEF OutcomeKinds
<1> HIDE DEF answers
<1>4. response' \in [Ops -> Seq(Seq(Outcomes))]
  BY <1>2, <1>3, RespondEffect DEF TypeOK
<1>5. /\ live' \subseteq Ops /\ scheduled' \subseteq Ops
      /\ batch' \in [Ops -> BatchSet] /\ permits' \in 0..OperationCapacity
      /\ PermitsMatchOperations'
  BY <1>1, <1>2, RemoveEffect
<1>6. ready' \in Seq(Ops)
  BY <1>2, RetainProperties DEF TypeOK
<1>7. waiting' \in Seq(Ops) /\ Len(waiting') <= Len(waiting)
  BY <1>2, RetainProperties DEF TypeOK
<1>8. Len(waiting') <= QueueCapacity
  BY <1>7, LenProperties, CapacityAssumption DEF TypeOK
<1>9. cancelled' \subseteq Ops
  BY <1>1, <1>2 DEF TypeOK
<1> QED  BY <1>2, <1>4, <1>5, <1>6, <1>7, <1>8, <1>9
         DEF TypeOK, BusyWorkersHaveJobs

\* An operation in the waiting queue holds no permit yet.
WaitingHoldsNoPermit == \A o \in Ops : Waiting(o) => o \notin live
QueuedHoldsNoPermit == \A o \in Ops : Queued(o) => o \notin live

LEMMA PromoteTypes ==
    ASSUME TypeInv, WaitingHoldsNoPermit, Promote
    PROVE  TypeInv'
<1> USE DEF TypeInv, clientVars, poolVars
<1>1. /\ Head(waiting) \in Ops /\ Waiting(Head(waiting))
      /\ waiting' \in Seq(Ops) /\ Len(waiting') = Len(waiting) - 1
  BY PopProperties DEF Promote, TypeOK, Waiting
<1>2. Len(waiting') <= QueueCapacity
  BY <1>1, LenProperties, CapacityAssumption DEF TypeOK
<1>3. Head(waiting) \notin live
  BY <1>1 DEF WaitingHoldsNoPermit
<1>4. /\ live' \subseteq Ops /\ scheduled' \subseteq Ops /\ ready' \in Seq(Ops)
      /\ batch' \in [Ops -> BatchSet] /\ permits' \in 0..OperationCapacity
      /\ PermitsMatchOperations' /\ response' \in [Ops -> Seq(Seq(Outcomes))]
  BY <1>1, <1>3, AdmitEffect DEF Promote
<1> QED  BY <1>1, <1>2, <1>4 DEF Promote, TypeOK, BusyWorkersHaveJobs

(* The scheduling loop.                                                      *)
LEMMA ScheduleTypes ==
    ASSUME TypeInv, Schedule
    PROVE  TypeInv'
<1> USE DEF TypeInv, PermitsMatchOperations, BusyWorkersHaveJobs, clientVars,
            schedulerVars, poolVars
<1>1. ASSUME NEW o \in Ops, Scheduling(o)
      PROVE  /\ Tail(ready) \in Seq(Ops) /\ Append(Tail(ready), o) \in Seq(Ops)
             /\ \A i \in Nat : /\ Append(jobs, Job(o, i)) \in Seq(JobSet)
                              /\ Len(Append(jobs, Job(o, i))) <= QueueCapacity
  <2>1. Tail(ready) \in Seq(Ops)
    BY <1>1, PopProperties DEF Scheduling, TypeOK
  <2>2. \A i \in Nat : Job(o, i) \in JobSet
    BY DEF Job, JobSet
  <2>3. Len(jobs) < QueueCapacity /\ Len(jobs) \in Nat
    BY <1>1, LenProperties DEF Scheduling, HasCapacity, TypeOK
  <2>4. jobs \in Seq(JobSet) /\ ready \in Seq(Ops) /\ QueueCapacity \in Nat
    BY CapacityAssumption DEF TypeOK
  <2>5. Append(Tail(ready), o) \in Seq(Ops)
    BY <2>1, PushProperties
  <2>6. ASSUME NEW i \in Nat
        PROVE  /\ Append(jobs, Job(o, i)) \in Seq(JobSet)
               /\ Len(Append(jobs, Job(o, i))) <= QueueCapacity
    <3>1. /\ Append(jobs, Job(o, i)) \in Seq(JobSet)
          /\ Len(Append(jobs, Job(o, i))) = Len(jobs) + 1
      BY <2>2, <2>4, PushProperties
    <3> QED  BY <2>3, <2>4, <3>1
  <2> QED  BY <2>1, <2>5, <2>6
<1>2. ASSUME NEW o \in Ops, ScheduleSkip(o) \/ ScheduleWait(o)
      PROVE  TypeInv'
  BY <1>1, <1>2 DEF ScheduleSkip, ScheduleWait, TypeOK
<1>3. ASSUME NEW o \in Ops, ScheduleFetch(o)
      PROVE  TypeInv'
  BY <1>1, <1>3 DEF ScheduleFetch, TypeOK
<1>4. ASSUME NEW o \in Ops, ScheduleJob(o)
      PROVE  TypeInv'
  <2> DEFINE i == First(Eligible(o))
             g == Requests[o][i]
             b == [batch[o] EXCEPT !.pending = @ \ {i}, !.active = @ + 1,
                                   !.activeByOrigin[g] = @ + 1]
  <2>1. /\ Scheduling(o) /\ Eligible(o) # {}
        /\ batch' = [batch EXCEPT ![o] = b] /\ jobs' = Append(jobs, Job(o, i))
        /\ ready' \in {Tail(ready), Append(Tail(ready), o)}
        /\ UNCHANGED <<clientVars, cancelled, overdue, channel, dispatcher, waiting,
                       live, scheduled, permits, jobsClosed, worker, response>>
    BY <1>4 DEF ScheduleJob
  <2>2. batch[o] \in BatchSet
    BY DEF TypeOK
  <2>3. Eligible(o) \in SUBSET Nat
    BY <2>2 DEF Eligible, BatchSet
  <2>4. i \in Nat
    BY <2>1, <2>3, NatHasMinimum DEF First
  <2> HIDE DEF i
  <2>5. b \in BatchSet
    <3> DEFINE counts == [batch[o].activeByOrigin EXCEPT ![g] = @ + 1]
    <3>1. b = [batch[o] EXCEPT !.pending = batch[o].pending \ {i},
                               !.active = batch[o].active + 1,
                               !.activeByOrigin = counts]
      BY <2>2 DEF BatchSet
    <3>2. counts \in [Origins -> Nat]
      <4> DEFINE f == batch[o].activeByOrigin
      <4>1. f \in [Origins -> Nat]
        BY <2>2 DEF BatchSet
      <4> HIDE DEF f, g
      <4>2. g \in Origins => f[g] + 1 \in Nat
        BY <4>1
      <4>3. [f EXCEPT ![g] = f[g] + 1] \in [Origins -> Nat]
        BY <4>1, <4>2
      <4> QED  BY <4>3 DEF f
    <3>3. /\ batch[o].pending \ {i} \in SUBSET Nat
          /\ batch[o].active + 1 \in Nat
      BY <2>2 DEF BatchSet
    <3> HIDE DEF counts, b
    <3> QED  BY <3>1, <3>2, <3>3, <2>2 DEF BatchSet
  <2> HIDE DEF b
  <2>6. batch' \in [Ops -> BatchSet]
    BY <2>1, <2>5 DEF TypeOK
  <2> QED  BY <1>1, <2>1, <2>4, <2>6 DEF TypeOK
<1>5. ASSUME NEW o \in Ops, ScheduleFinish(o)
      PROVE  TypeInv'
  <2> DEFINE results == batch[o].results
             paused == [i \in DOMAIN results |-> IF i \in batch[o].pending
                                                THEN Outcome("paused", i)
                                                ELSE results[i]]
             answer == IF MaxConcurrency[o] = 0 THEN Fill(o, "zeroConcurrency")
                       ELSE FillMissing(paused, "missing")
  <2>1. /\ Scheduling(o) /\ o \in live \cap Batches
        /\ Remove({o}) /\ ready' = Tail(ready) /\ Reply(o, answer)
        /\ UNCHANGED <<clientVars, cancelled, overdue, channel, dispatcher, waiting,
                       poolVars>>
    BY <1>5 DEF ScheduleFinish
  <2>2. answer \in Seq(Outcomes)
    <3>1. results \in Seq(Outcomes)
      BY DEF TypeOK, BatchSet
    <3>2. /\ Len(results) \in Nat /\ DOMAIN results = 1..Len(results)
          /\ results \in [1..Len(results) -> Outcomes]
      BY <3>1, LenProperties
    <3> HIDE DEF results
    <3>3. paused \in [1..Len(results) -> Outcomes]
      BY <3>2, OutcomeTypes DEF OutcomeKinds
    <3>4. paused \in Seq(Outcomes)
      BY <3>2, <3>3, SeqDef
    <3> HIDE DEF paused
    <3> QED  BY <3>4, FillTypes, FillMissingTypes DEF OutcomeKinds
  <2> HIDE DEF answer
  <2>3. response' \in [Ops -> Seq(Seq(Outcomes))]
    BY <2>1, <2>2, ReplyEffect DEF TypeOK
  <2>4. {o} \in SUBSET Ops
    OBVIOUS
  <2>5. /\ live' \subseteq Ops /\ scheduled' \subseteq Ops
        /\ batch' \in [Ops -> BatchSet] /\ permits' \in 0..OperationCapacity
        /\ PermitsMatchOperations'
    BY <2>1, <2>4, RemoveEffect
  <2> QED  BY <1>1, <2>1, <2>3, <2>5 DEF TypeOK
<1>6. ASSUME ScheduleDone
      PROVE  TypeInv'
  BY <1>6 DEF ScheduleDone, TypeOK
<1> QED  BY <1>2, <1>3, <1>4, <1>5, <1>6 DEF Schedule

(* What the dispatcher takes from the channel.                               *)
LEMMA ReceivedEvent ==
    ASSUME TypeOK, channel # <<>>
    PROVE  /\ Head(channel) \in EventSet /\ Head(channel).op \in Ops
           /\ Head(channel).index \in Nat /\ Head(channel).outcome \in Outcomes
           /\ Tail(channel) \in Seq(EventSet)
           /\ Len(Tail(channel)) <= QueueCapacity
           /\ Head(channel).type = "command" => Queued(Head(channel).op)
<1>1. /\ Head(channel) \in EventSet /\ Tail(channel) \in Seq(EventSet)
      /\ Len(Tail(channel)) = Len(channel) - 1 /\ Len(channel) \in Nat
      /\ 1 \in DOMAIN channel /\ Head(channel) = channel[1]
  BY PopProperties, LenProperties DEF TypeOK
<1>2. Len(Tail(channel)) <= QueueCapacity
  BY <1>1, CapacityAssumption DEF TypeOK
<1>3. Head(channel).type = "command" => Queued(Head(channel).op)
  BY <1>1 DEF Queued
<1> QED  BY <1>1, <1>2, <1>3 DEF EventSet

LEMMA AcceptTypes ==
    ASSUME TypeInv, QueuedHoldsNoPermit, Accept
    PROVE  TypeInv'
<1> USE DEF TypeInv, BusyWorkersHaveJobs, clientVars, schedulerVars, poolVars
<1> DEFINE o == Head(channel).op
<1>1. /\ o \in Ops /\ o \notin live
      /\ channel' \in Seq(EventSet) /\ Len(channel') <= QueueCapacity
  BY ReceivedEvent DEF Accept, QueuedHoldsNoPermit
<1>2. CASE /\ Len(waiting) >= QueueCapacity /\ Reply(o, Fill(o, "queueFull"))
           /\ UNCHANGED schedulerVars
  <2>1. response' \in [Ops -> Seq(Seq(Outcomes))]
    BY <1>1, <1>2, FillTypes, ReplyEffect DEF TypeOK, OutcomeKinds
  <2> QED  BY <1>1, <1>2, <2>1 DEF Accept, TypeOK, PermitsMatchOperations
<1>3. CASE MayAdmit /\ Admit(o) /\ UNCHANGED waiting
  <2>1. /\ live' \subseteq Ops /\ scheduled' \subseteq Ops /\ ready' \in Seq(Ops)
        /\ batch' \in [Ops -> BatchSet] /\ permits' \in 0..OperationCapacity
        /\ PermitsMatchOperations' /\ response' \in [Ops -> Seq(Seq(Outcomes))]
    BY <1>1, <1>3, AdmitEffect DEF MayAdmit
  <2> QED  BY <1>1, <1>3, <2>1 DEF Accept, TypeOK
<1>4. CASE /\ Len(waiting) < QueueCapacity
           /\ waiting' = Append(waiting, o)
           /\ UNCHANGED <<live, ready, scheduled, batch, permits, response>>
  <2>1. waiting' \in Seq(Ops) /\ Len(waiting') <= QueueCapacity
    BY <1>1, <1>4, PushProperties, LenProperties, CapacityAssumption DEF TypeOK
  <2> QED  BY <1>1, <1>4, <2>1 DEF Accept, TypeOK, PermitsMatchOperations
<1> QED  BY <1>2, <1>3, <1>4 DEF Accept

(* A completed slot keeps the batch a batch.                                 *)
LEMMA CompletedTypes ==
    ASSUME TypeOK, NEW o \in Ops, NEW i \in Nat, NEW outcome \in Outcomes
    PROVE  Completed(o, i, outcome) \in BatchSet
<1> DEFINE g == Requests[o][i]
           r == batch[o].results
           f == batch[o].activeByOrigin
           n == batch[o].active
           r2 == [r EXCEPT ![i] = outcome]
           f2 == [f EXCEPT ![g] = IF f[g] = 0 THEN 0 ELSE f[g] - 1]
           n2 == IF n = 0 THEN 0 ELSE n - 1
<1>1. /\ batch[o] \in BatchSet /\ r \in Seq(Outcomes) /\ n \in Nat
      /\ f \in [Origins -> Nat]
  BY DEF TypeOK, BatchSet
<1>2. r2 \in Seq(Outcomes)
  <2>1. /\ Len(r) \in Nat /\ r \in [1..Len(r) -> Outcomes]
    BY <1>1, LenProperties
  <2> HIDE DEF r
  <2>2. r2 \in [1..Len(r) -> Outcomes]
    BY <2>1
  <2> QED  BY <2>1, <2>2, SeqDef
<1>3. f2 \in [Origins -> Nat]
  <2> HIDE DEF f, g
  <2>1. g \in Origins => (IF f[g] = 0 THEN 0 ELSE f[g] - 1) \in Nat
    BY <1>1
  <2> QED  BY <1>1, <2>1
<1>4. n2 \in Nat
  BY <1>1
<1>5. CASE r[i] # NoOutcome
  BY <1>1, <1>5 DEF Completed
<1>6. CASE r[i] = NoOutcome
  <2>1. Completed(o, i, outcome) =
           [batch[o] EXCEPT !.results = r2, !.active = n2, !.activeByOrigin = f2]
    BY <1>1, <1>6 DEF Completed, BatchSet
  <2> HIDE DEF r2, n2, f2
  <2> QED  BY <1>1, <1>2, <1>3, <1>4, <2>1 DEF BatchSet
<1> QED  BY <1>5, <1>6

LEMMA CompleteTypes ==
    ASSUME TypeInv, Complete
    PROVE  TypeInv'
<1> USE DEF TypeInv, BusyWorkersHaveJobs, clientVars, schedulerVars, poolVars
<1> DEFINE event == Head(channel)
           o == event.op
           b == Completed(o, event.index, event.outcome)
<1>1. /\ o \in Ops /\ event.outcome \in Outcomes /\ {o} \in SUBSET Ops
      /\ channel' \in Seq(EventSet) /\ Len(channel') <= QueueCapacity
      /\ dispatcher' = "sweep"
      /\ UNCHANGED <<clientVars, cancelled, overdue, poolVars>>
  BY ReceivedEvent DEF Complete
<1>2. b \in BatchSet
  BY ReceivedEvent, CompletedTypes DEF Complete
<1>3. CASE UNCHANGED <<schedulerVars, response>>
  BY <1>1, <1>3 DEF TypeOK, PermitsMatchOperations
<1>4. CASE /\ Remove({o})
           /\ \/ Reply(o, <<event.outcome>>)
              \/ Reply(o, FillMissing(b.results, "missing"))
           /\ UNCHANGED <<waiting, ready>>
  <2>1. /\ <<event.outcome>> \in Seq(Outcomes)
        /\ FillMissing(b.results, "missing") \in Seq(Outcomes)
    <3>1. b.results \in Seq(Outcomes)
      BY <1>2 DEF BatchSet
    <3> HIDE DEF b
    <3> QED  BY <1>1, <3>1, FillMissingTypes DEF OutcomeKinds
  <2>2. response' \in [Ops -> Seq(Seq(Outcomes))]
    BY <1>1, <1>4, <2>1, ReplyEffect DEF TypeOK
  <2>3. /\ live' \subseteq Ops /\ scheduled' \subseteq Ops
        /\ batch' \in [Ops -> BatchSet] /\ permits' \in 0..OperationCapacity
        /\ PermitsMatchOperations'
    BY <1>1, <1>4, RemoveEffect
  <2> QED  BY <1>1, <1>4, <2>2, <2>3 DEF TypeOK
<1>5. CASE /\ batch' = [batch EXCEPT ![o] = b]
           /\ ready' = Requeued(o, b)
           /\ UNCHANGED <<waiting, live, scheduled, permits, response>>
  <2>1. batch' \in [Ops -> BatchSet]
    BY <1>2, <1>5 DEF TypeOK
  <2>2. ready' \in Seq(Ops)
    BY <1>1, <1>5, PushProperties DEF TypeOK, Requeued
  <2> QED  BY <1>1, <1>5, <2>1, <2>2 DEF TypeOK, PermitsMatchOperations
<1> HIDE DEF b
<1> QED  BY <1>3, <1>4, <1>5 DEF Complete, b

LEMMA QuietTypes ==
    ASSUME TypeInv, PromoteDone \/ Tick
    PROVE  TypeInv'
  BY DEF TypeInv, TypeOK, PermitsMatchOperations, BusyWorkersHaveJobs, PromoteDone,
         Tick, clientVars, schedulerVars, poolVars

LEMMA DisconnectedTypes ==
    ASSUME TypeInv, Disconnected
    PROVE  TypeInv'
<1> USE DEF TypeInv, BusyWorkersHaveJobs, clientVars
<1> DEFINE answers == [o \in live \cup Elements(waiting) |-> Fill(o, "stopped")]
<1>1. live \in SUBSET Ops /\ Elements(waiting) \in SUBSET Ops
  BY LenProperties, ElementOfSeq DEF TypeOK, Elements
<1>2. /\ DOMAIN answers \subseteq Ops
      /\ \A o \in DOMAIN answers : answers[o] \in Seq(Outcomes)
  BY <1>1, FillTypes DEF OutcomeKinds
<1>3. Respond(answers) /\ Remove(live)
  BY DEF Disconnected
<1> HIDE DEF answers
<1>4. response' \in [Ops -> Seq(Seq(Outcomes))]
  BY <1>2, <1>3, RespondEffect DEF TypeOK
<1>5. /\ live' \subseteq Ops /\ scheduled' \subseteq Ops
      /\ batch' \in [Ops -> BatchSet] /\ permits' \in 0..OperationCapacity
      /\ PermitsMatchOperations'
  BY <1>1, <1>3, RemoveEffect
<1>6. /\ <<>> \in Seq(Ops) /\ <<>> \in Seq(JobSet) /\ Len(<<>>) <= QueueCapacity
  BY EmptySeq, CapacityAssumption
<1> QED  BY <1>4, <1>5, <1>6 DEF Disconnected, TypeOK

------------------------------------------------------------------------------
(* One owner per submission.                                                 *)

\* No operation is queued twice.
CommandsDistinct ==
    \A i, j \in DOMAIN channel :
        /\ channel[i].type = "command" /\ channel[j].type = "command"
        /\ channel[i].op = channel[j].op
        => i = j

OwnerInv == /\ OneOwner /\ AnsweredAtMostOnce
            /\ Distinct(waiting) /\ CommandsDistinct
NetInv == TypeInv /\ OwnerInv

(* The channel after a send: one more command, or the same commands.         *)
LEMMA ChannelPush ==
    ASSUME channel \in Seq(EventSet), NEW e \in EventSet, channel' = Append(channel, e)
    PROVE  /\ \A p \in Ops : Queued(p)' <=> Queued(p) \/ (e.type = "command" /\ e.op = p)
           /\ CommandsDistinct /\ (e.type = "command" => ~Queued(e.op)) => CommandsDistinct'
<1> DEFINE n == Len(channel) + 1
<1>1. /\ DOMAIN channel' = DOMAIN channel \cup {n} /\ n \notin DOMAIN channel
      /\ \A i \in DOMAIN channel : channel'[i] = channel[i]
      /\ channel'[n] = e
  BY PushProperties
<1> HIDE DEF n
<1>2. \A p \in Ops : Queued(p)' <=> Queued(p) \/ (e.type = "command" /\ e.op = p)
  BY <1>1 DEF Queued
<1>3. ASSUME CommandsDistinct, e.type = "command" => ~Queued(e.op)
      PROVE  CommandsDistinct'
  BY <1>1, <1>3 DEF CommandsDistinct, Queued
<1> QED  BY <1>2, <1>3

(* The channel after a receive.                                              *)
LEMMA ChannelPop ==
    ASSUME channel \in Seq(EventSet), channel # <<>>, channel' = Tail(channel),
           CommandsDistinct
    PROVE  /\ \A p \in Ops : Queued(p)' <=>
                 Queued(p) /\ ~(Head(channel).type = "command" /\ Head(channel).op = p)
           /\ CommandsDistinct'
<1>1. /\ Head(channel) = channel[1] /\ 1 \in DOMAIN channel
      /\ \A i \in DOMAIN channel :
            i = 1 \/ (i - 1 \in DOMAIN channel' /\ channel[i] = channel'[i - 1])
      /\ \A i \in DOMAIN channel' : /\ i \in Nat /\ i + 1 \in DOMAIN channel
                                    /\ i + 1 # 1 /\ channel'[i] = channel[i + 1]
  BY PopProperties
<1>2. ASSUME NEW p \in Ops, Queued(p)'
      PROVE  Queued(p) /\ ~(Head(channel).type = "command" /\ Head(channel).op = p)
  <2>1. PICK i \in DOMAIN channel' : channel'[i].type = "command" /\ channel'[i].op = p
    BY <1>2 DEF Queued
  <2>2. /\ i + 1 \in DOMAIN channel /\ i + 1 # 1
        /\ channel[i + 1].type = "command" /\ channel[i + 1].op = p
    BY <1>1, <2>1
  <2> QED  BY <1>1, <2>2 DEF Queued, CommandsDistinct
<1>3. ASSUME NEW p \in Ops, Queued(p),
             ~(Head(channel).type = "command" /\ Head(channel).op = p)
      PROVE  Queued(p)'
  <2>1. PICK i \in DOMAIN channel : channel[i].type = "command" /\ channel[i].op = p
    BY <1>3 DEF Queued
  <2>2. i # 1
    BY <1>1, <1>3, <2>1
  <2> QED  BY <1>1, <2>1, <2>2 DEF Queued
<1>4. CommandsDistinct'
  <2> SUFFICES ASSUME NEW i \in DOMAIN channel', NEW j \in DOMAIN channel',
                      channel'[i].type = "command", channel'[j].type = "command",
                      channel'[i].op = channel'[j].op
               PROVE  i = j
    BY DEF CommandsDistinct
  <2>1. i + 1 = j + 1
    BY <1>1 DEF CommandsDistinct
  <2> QED  BY <1>1, <2>1
<1> QED  BY <1>2, <1>3, <1>4

(* Answering operations that were not answered keeps one message at most.    *)
LEMMA AnswerOnce ==
    ASSUME AnsweredAtMostOnce, NEW S, \A o \in S : ~Answered(o), OnlyAnswers(S)
    PROVE  /\ AnsweredAtMostOnce'
           /\ \A o \in Ops : Answered(o)' <=> Answered(o) \/ o \in S
<1>1. \A o \in Ops : Answered(o)' <=> Answered(o) \/ o \in S
  BY DEF OnlyAnswers, Answered
<1>2. ASSUME NEW o \in Ops
      PROVE  Len(response'[o]) <= 1
  <2>1. CASE o \in S
    <3>1. response[o] = <<>> /\ Len(response'[o]) = Len(response[o]) + 1
      BY <2>1 DEF OnlyAnswers, Answered
    <3> QED  BY <3>1, EmptySeq
  <2>2. CASE o \notin S
    BY <2>2 DEF OnlyAnswers, AnsweredAtMostOnce
  <2> QED  BY <2>1, <2>2
<1> QED  BY <1>1, <1>2 DEF AnsweredAtMostOnce

LEMMA SubmitOwner ==
    ASSUME NetInv, NEW o \in Ops, SubmitAccepted(o) \/ SubmitRejected(o)
    PROVE  OwnerInv'
<1> USE DEF NetInv, OwnerInv, TypeInv
<1>1. CASE SubmitAccepted(o)
  <2>1. /\ Command(o) \in EventSet /\ Command(o).type = "command"
        /\ Command(o).op = o
    BY OutcomeTypes DEF Command, EventSet
  <2>2. ~Queued(o) /\ ~Waiting(o) /\ o \notin live /\ ~Answered(o)
    BY <1>1 DEF SubmitAccepted, OneOwner
  <2>3. /\ \A p \in Ops : Queued(p)' <=> Queued(p) \/ p = o
        /\ CommandsDistinct'
    BY <1>1, <2>1, <2>2, ChannelPush DEF SubmitAccepted, TypeOK
  <2>4. OneOwner'
    BY <1>1, <2>2, <2>3
       DEF SubmitAccepted, OneOwner, Waiting, Answered, schedulerVars
  <2> QED  BY <1>1, <2>3, <2>4
           DEF SubmitAccepted, schedulerVars, AnsweredAtMostOnce
<1>2. CASE SubmitRejected(o)
  <2>1. ~Queued(o) /\ ~Waiting(o) /\ o \notin live /\ ~Answered(o)
    BY <1>2 DEF SubmitRejected, OneOwner
  <2>2. OnlyAnswers({o})
    BY <1>2, FillTypes, ReplyEffect DEF SubmitRejected, TypeOK, OutcomeKinds
  <2>3. /\ AnsweredAtMostOnce'
        /\ \A p \in Ops : Answered(p)' <=> Answered(p) \/ p = o
    BY <2>1, <2>2, AnswerOnce
  <2>4. OneOwner'
    BY <1>2, <2>1, <2>3
       DEF SubmitRejected, OneOwner, Waiting, Queued, schedulerVars
  <2> QED  BY <1>2, <2>3, <2>4
           DEF SubmitRejected, schedulerVars, CommandsDistinct
<1> QED  BY <1>1, <1>2

(* Steps that move no operation.                                             *)
LEMMA FrameOwner ==
    ASSUME OwnerInv, UNCHANGED <<submitted, channel, waiting, live, response>>
    PROVE  OwnerInv'
  BY DEF OwnerInv, OneOwner, AnsweredAtMostOnce, CommandsDistinct, Queued, Waiting,
         Answered

LEMMA SendOwner ==
    ASSUME NetInv, NEW w \in Workers, SendCompletion(w)
    PROVE  OwnerInv'
<1> USE DEF NetInv, OwnerInv, TypeInv
<1> DEFINE e == Completion(worker[w].job, worker[w].outcome)
<1>1. e \in EventSet /\ e.type = "completion"
  BY DEF SendCompletion, TypeOK, WorkerSet, JobSet, EventSet, Completion,
         BusyWorkersHaveJobs
<1>2. channel' = Append(channel, e)
  BY DEF SendCompletion
<1> HIDE DEF e
<1>3. (\A p \in Ops : Queued(p)' <=> Queued(p)) /\ CommandsDistinct'
  BY <1>1, <1>2, ChannelPush DEF TypeOK
<1>4. UNCHANGED <<submitted, waiting, live, response>>
  BY DEF SendCompletion, clientVars, schedulerVars
<1>5. OneOwner' /\ AnsweredAtMostOnce' /\ Distinct(waiting')
  BY <1>3, <1>4 DEF OneOwner, AnsweredAtMostOnce, Waiting, Answered
<1> QED  BY <1>3, <1>5

(* Operations that leave the map with an answer and nothing else that moves. *)
LEMMA FinishOwner ==
    ASSUME OwnerInv, NEW o \in live, OnlyAnswers({o}), live' = live \ {o},
           \A p \in Ops : Queued(p)' <=> Queued(p), CommandsDistinct',
           UNCHANGED <<submitted, waiting>>
    PROVE  OwnerInv'
<1> USE DEF OwnerInv
<1>1. CASE o \in Ops
  <2>1. ~Answered(o) /\ ~Queued(o) /\ ~Waiting(o)
    BY <1>1 DEF OneOwner
  <2>2. /\ AnsweredAtMostOnce'
        /\ \A p \in Ops : Answered(p)' <=> Answered(p) \/ p = o
    BY <2>1, AnswerOnce
  <2> QED  BY <2>1, <2>2 DEF OneOwner, Waiting
<1>2. CASE o \notin Ops
  <2>1. \A p \in Ops : response'[p] = response[p] /\ p # o
    BY <1>2 DEF OnlyAnswers
  <2> QED  BY <2>1 DEF OneOwner, AnsweredAtMostOnce, Answered, Waiting
<1> QED  BY <1>1, <1>2

LEMMA SweepOwner ==
    ASSUME NetInv, Sweep
    PROVE  OwnerInv'
<1> USE DEF NetInv, OwnerInv, TypeInv
<1> USE DEF CancelledOperations, ExpiredBatches, CancelledCommands
<1> DEFINE late == ExpiredBatches
           dropped == CancelledCommands
           gone == CancelledOperations \cup ExpiredBatches
           answers == [o \in gone \cup dropped |->
                         IF o \in late
                         THEN FillMissing(batch[o].results, "timeout")
                         ELSE Fill(o, "cancelled")]
<1>1. gone \in SUBSET Ops /\ dropped \in SUBSET Ops
  BY LenProperties, ElementOfSeq DEF TypeOK, Elements
<1>2. /\ Remove(gone) /\ waiting' = Retain(waiting, Ops \ cancelled)
      /\ Respond(answers) /\ UNCHANGED <<submitted, channel>>
  BY DEF Sweep, clientVars
<1>3. /\ DOMAIN answers \subseteq Ops /\ DOMAIN answers = gone \cup dropped
      /\ \A o \in DOMAIN answers : answers[o] \in Seq(Outcomes)
  <2>1. \A o \in Ops : batch[o].results \in Seq(Outcomes)
    BY DEF TypeOK, BatchSet
  <2> QED  BY <1>1, <2>1, FillTypes, FillMissingTypes DEF OutcomeKinds
<1> HIDE DEF answers
<1>4. OnlyAnswers(gone \cup dropped)
  BY <1>2, <1>3, RespondEffect DEF TypeOK
<1>5. \A o \in gone \cup dropped : o \in Ops /\ (o \in live \/ Waiting(o))
  BY <1>1 DEF Waiting
<1>6. \A o \in gone \cup dropped : ~Answered(o)
  BY <1>5 DEF OneOwner
<1>7. /\ AnsweredAtMostOnce'
      /\ \A p \in Ops : Answered(p)' <=> Answered(p) \/ p \in gone \cup dropped
  BY <1>4, <1>6, AnswerOnce
<1>8. /\ Elements(waiting') = Elements(waiting) \cap (Ops \ cancelled)
      /\ Distinct(waiting')
  BY <1>2, RetainProperties DEF TypeOK
<1>9. \A p \in Ops : Waiting(p)' <=> Waiting(p) /\ p \notin dropped
  BY <1>8 DEF Waiting
<1>10. live' = live \ gone
  BY <1>2 DEF Remove
<1>11. /\ \A p \in Ops : Queued(p)' <=> Queued(p)
       /\ CommandsDistinct'
  BY <1>2 DEF Queued, CommandsDistinct
<1>12. \A p \in Ops : /\ p \in gone => p \in live
                      /\ p \in dropped => Waiting(p)
  BY DEF Waiting
<1> HIDE DEF gone, dropped
<1>13. OneOwner'
  BY <1>2, <1>7, <1>9, <1>10, <1>11, <1>12 DEF OneOwner
<1> QED  BY <1>7, <1>8, <1>11, <1>13

LEMMA PromoteOwner ==
    ASSUME NetInv, Promote
    PROVE  OwnerInv'
<1> USE DEF NetInv, OwnerInv, TypeInv
<1> DEFINE o == Head(waiting)
<1>1. /\ o \in Ops /\ Elements(waiting) = {o} \cup Elements(waiting')
      /\ Distinct(waiting') /\ o \notin Elements(waiting')
  BY PopProperties DEF Promote, TypeOK
<1>2. Waiting(o) /\ o \notin live /\ ~Answered(o) /\ ~Queued(o)
  BY <1>1 DEF OneOwner, Waiting
<1>3. \/ live' = live /\ OnlyAnswers({o})
      \/ live' = live \cup {o} /\ response' = response
  BY <1>1, <1>2, AdmitEffect DEF Promote
<1>4. \A p \in Ops : Waiting(p)' <=> Waiting(p) /\ p # o
  BY <1>1 DEF Waiting
<1>5. /\ \A p \in Ops : Queued(p)' <=> Queued(p)
      /\ CommandsDistinct' /\ UNCHANGED submitted
  BY DEF Queued, CommandsDistinct, Promote, clientVars
<1> HIDE DEF o
<1>6. CASE live' = live /\ OnlyAnswers({o})
  <2>1. /\ AnsweredAtMostOnce'
        /\ \A p \in Ops : Answered(p)' <=> Answered(p) \/ p = o
    BY <1>2, <1>6, AnswerOnce
  <2> QED  BY <1>1, <1>2, <1>4, <1>5, <1>6, <2>1 DEF OneOwner
<1>7. CASE live' = live \cup {o} /\ response' = response
  BY <1>1, <1>2, <1>4, <1>5, <1>7 DEF OneOwner, AnsweredAtMostOnce, Answered
<1> QED  BY <1>3, <1>6, <1>7

LEMMA ScheduleOwner ==
    ASSUME NetInv, Schedule
    PROVE  OwnerInv'
<1> USE DEF NetInv, TypeInv
<1>1. CASE UNCHANGED <<submitted, channel, waiting, live, response>>
  BY <1>1, FrameOwner
<1>2. ASSUME NEW o \in Ops, ScheduleFinish(o)
      PROVE  OwnerInv'
  <2> DEFINE results == batch[o].results
             paused == [i \in DOMAIN results |-> IF i \in batch[o].pending
                                                THEN Outcome("paused", i)
                                                ELSE results[i]]
             answer == IF MaxConcurrency[o] = 0 THEN Fill(o, "zeroConcurrency")
                       ELSE FillMissing(paused, "missing")
  <2>1. /\ o \in live /\ Remove({o}) /\ Reply(o, answer)
        /\ UNCHANGED <<submitted, channel, waiting>>
    BY <1>2 DEF ScheduleFinish, clientVars
  <2> HIDE DEF answer
  <2>3. OnlyAnswers({o})
    BY <2>1, ReplyOnly DEF TypeOK
  <2>4. /\ \A p \in Ops : Queued(p)' <=> Queued(p)
        /\ CommandsDistinct'
    BY <2>1 DEF Queued, CommandsDistinct, OwnerInv
  <2>5. live' = live \ {o}
    BY <2>1 DEF Remove
  <2> QED  BY <2>1, <2>3, <2>4, <2>5, FinishOwner
<1>3. CASE ScheduleDone
  BY <1>3, FrameOwner DEF ScheduleDone, clientVars, schedulerVars
<1> QED
  BY <1>1, <1>2, <1>3 DEF Schedule, ScheduleSkip, ScheduleFetch, ScheduleJob,
     ScheduleWait, clientVars, poolVars

LEMMA AcceptOwner ==
    ASSUME NetInv, Accept
    PROVE  OwnerInv'
<1> USE DEF NetInv, OwnerInv, TypeInv
<1> DEFINE o == Head(channel).op
<1>1. o \in Ops /\ Queued(o)
  BY ReceivedEvent DEF Accept
<1>2. ~Waiting(o) /\ o \notin live /\ ~Answered(o)
  BY <1>1 DEF OneOwner
<1>3. /\ \A p \in Ops : Queued(p)' <=> Queued(p) /\ p # o
      /\ CommandsDistinct'
  BY ChannelPop DEF Accept, TypeOK
<1>4. UNCHANGED submitted
  BY DEF Accept, clientVars
<1>5. CASE /\ Len(waiting) >= QueueCapacity /\ Reply(o, Fill(o, "queueFull"))
           /\ UNCHANGED schedulerVars
  <2>1. OnlyAnswers({o})
    BY <1>1, <1>5, FillTypes, ReplyEffect DEF TypeOK, OutcomeKinds
  <2>2. /\ AnsweredAtMostOnce'
        /\ \A p \in Ops : Answered(p)' <=> Answered(p) \/ p = o
    BY <1>2, <2>1, AnswerOnce
  <2> HIDE DEF o
  <2> QED  BY <1>1, <1>2, <1>3, <1>4, <1>5, <2>2
           DEF OneOwner, Waiting, schedulerVars
<1>6. CASE MayAdmit /\ Admit(o) /\ UNCHANGED waiting
  <2>1. \/ live' = live /\ OnlyAnswers({o})
        \/ live' = live \cup {o} /\ response' = response
    BY <1>1, <1>2, <1>6, AdmitEffect DEF MayAdmit
  <2> HIDE DEF o
  <2>2. CASE live' = live /\ OnlyAnswers({o})
    <3>1. /\ AnsweredAtMostOnce'
          /\ \A p \in Ops : Answered(p)' <=> Answered(p) \/ p = o
      BY <1>2, <2>2, AnswerOnce
    <3> QED  BY <1>1, <1>2, <1>3, <1>4, <1>6, <2>2, <3>1 DEF OneOwner, Waiting
  <2>3. CASE live' = live \cup {o} /\ response' = response
    BY <1>1, <1>2, <1>3, <1>4, <1>6, <2>3
       DEF OneOwner, AnsweredAtMostOnce, Answered, Waiting
  <2> QED  BY <2>1, <2>2, <2>3
<1>7. CASE /\ waiting' = Append(waiting, o)
           /\ UNCHANGED <<live, ready, scheduled, batch, permits, response>>
  <2>1. /\ Elements(waiting') = Elements(waiting) \cup {o}
        /\ Distinct(waiting')
    BY <1>1, <1>2, <1>7, PushProperties DEF TypeOK, Waiting
  <2> HIDE DEF o
  <2> QED  BY <1>1, <1>2, <1>3, <1>4, <1>7, <2>1
           DEF OneOwner, AnsweredAtMostOnce, Answered, Waiting
<1> QED  BY <1>5, <1>6, <1>7 DEF Accept

LEMMA CompleteOwner ==
    ASSUME NetInv, Complete
    PROVE  OwnerInv'
<1> USE DEF NetInv, TypeInv
<1> DEFINE event == Head(channel)
           o == event.op
           b == Completed(o, event.index, event.outcome)
<1>1. o \in Ops
  BY ReceivedEvent DEF Complete
<1>2. /\ \A p \in Ops : Queued(p)' <=> Queued(p)
      /\ CommandsDistinct'
  BY ChannelPop DEF Complete, TypeOK, OwnerInv
<1>3. UNCHANGED submitted
  BY DEF Complete, clientVars
<1> HIDE DEF b
<1>4. CASE UNCHANGED <<waiting, live, response>>
  BY <1>2, <1>3, <1>4 DEF OwnerInv, OneOwner, AnsweredAtMostOnce, Waiting, Answered
<1>5. ASSUME NEW answer, o \in live, Remove({o}), Reply(o, answer), UNCHANGED waiting
      PROVE  OwnerInv'
  <2>2. OnlyAnswers({o})
    BY <1>1, <1>5, ReplyOnly DEF TypeOK
  <2>3. live' = live \ {o}
    BY <1>5 DEF Remove
  <2> QED  BY <1>2, <1>3, <1>5, <2>2, <2>3, FinishOwner
<1> QED  BY <1>4, <1>5 DEF Complete, schedulerVars, b

LEMMA DisconnectedOwner ==
    ASSUME NetInv, Disconnected
    PROVE  OwnerInv'
<1> USE DEF NetInv, TypeInv, OwnerInv
<1> DEFINE answers == [o \in live \cup Elements(waiting) |-> Fill(o, "stopped")]
<1>1. live \in SUBSET Ops /\ Elements(waiting) \in SUBSET Ops
  BY LenProperties, ElementOfSeq DEF TypeOK, Elements
<1>2. /\ DOMAIN answers = live \cup Elements(waiting) /\ DOMAIN answers \subseteq Ops
      /\ \A o \in DOMAIN answers : answers[o] \in Seq(Outcomes)
  BY <1>1, FillTypes DEF OutcomeKinds
<1>3. Respond(answers) /\ UNCHANGED <<submitted, channel>> /\ live' = live \ live
      /\ waiting' = <<>>
  BY DEF Disconnected, Remove, clientVars
<1> HIDE DEF answers
<1>4. OnlyAnswers(live \cup Elements(waiting))
  BY <1>2, <1>3, RespondEffect DEF TypeOK
<1>5. \A o \in live \cup Elements(waiting) : ~Answered(o)
  BY <1>1 DEF OneOwner, Waiting
<1>6. /\ AnsweredAtMostOnce'
      /\ \A p \in Ops : Answered(p)' <=> Answered(p) \/ p \in live \/ Waiting(p)
  BY <1>4, <1>5, AnswerOnce DEF Waiting
<1>7. /\ \A p \in Ops : Queued(p)' <=> Queued(p)
      /\ CommandsDistinct'
  BY <1>3 DEF Queued, CommandsDistinct
<1>8. (\A p \in Ops : ~Waiting(p)') /\ Distinct(waiting')
  BY <1>3, EmptySeq DEF Waiting, Elements, Distinct
<1>9. OneOwner'
  BY <1>3, <1>6, <1>7, <1>8 DEF OneOwner
<1> QED  BY <1>6, <1>7, <1>8, <1>9

------------------------------------------------------------------------------
(* The theorems.                                                             *)

LEMMA NetInit == Init => NetInv
<1> SUFFICES ASSUME Init PROVE NetInv
  OBVIOUS
<1>1. Parked("absent") \in WorkerSet
  BY OutcomeTypes DEF Parked, WorkerSet
<1>2. TypeOK
  <2>1. /\ <<>> \in Seq(EventSet) /\ <<>> \in Seq(Ops) /\ <<>> \in Seq(JobSet)
        /\ <<>> \in Seq(Seq(Outcomes)) /\ Len(<<>>) = 0
    BY EmptySeq
  <2>2. 0 \in 0..OperationCapacity /\ 0 <= QueueCapacity
    BY CapacityAssumption
  <2>3. worker \in [Workers -> WorkerSet] /\ batch \in [Ops -> BatchSet]
    BY <1>1, BatchTypes DEF Init
  <2> QED  BY <2>1, <2>2, <2>3 DEF Init, TypeOK
<1>3. PermitsMatchOperations
  BY FS_EmptySet DEF Init, PermitsMatchOperations
<1>4. BusyWorkersHaveJobs
  BY DEF Init, BusyWorkersHaveJobs, Parked
<1>5. OneOwner /\ AnsweredAtMostOnce
  BY EmptySeq DEF Init, OneOwner, AnsweredAtMostOnce, Queued, Waiting, Answered, Elements
<1>6. Distinct(waiting) /\ CommandsDistinct
  BY EmptySeq DEF Init, Distinct, CommandsDistinct
<1> QED  BY <1>2, <1>3, <1>4, <1>5, <1>6 DEF NetInv, TypeInv, OwnerInv

LEMMA NetStep == NetInv /\ [Next]_vars => NetInv'
<1> SUFFICES ASSUME NetInv, [Next]_vars PROVE NetInv'
  OBVIOUS
<1>1. TypeInv /\ OwnerInv /\ WaitingHoldsNoPermit /\ QueuedHoldsNoPermit
  BY DEF NetInv, OwnerInv, OneOwner, WaitingHoldsNoPermit, QueuedHoldsNoPermit
<1>2. CASE Client \/ \E o \in Ops : Elapse(o)
  <2>1. TypeInv'
    BY <1>1, <1>2, ClientTypes
  <2>2. OwnerInv'
    <3>1. ASSUME NEW o \in Ops, SubmitAccepted(o) \/ SubmitRejected(o)
          PROVE  OwnerInv'
      BY <3>1, SubmitOwner
    <3>2. CASE UNCHANGED <<submitted, channel, waiting, live, response>>
      BY <1>1, <3>2, FrameOwner
    <3> QED  BY <1>2, <3>1, <3>2
             DEF Client, Cancel, DropHandle, StartFails, StartWorker, Elapse,
                 clientVars, schedulerVars
  <2> QED  BY <2>1, <2>2 DEF NetInv
<1>3. ASSUME NEW w \in Workers, Pool(w) \/ Panic(w)
      PROVE  NetInv'
  <2>1. TypeInv'
    BY <1>1, <1>3, PoolTypes
  <2>2. CASE SendCompletion(w)
    BY <2>1, <2>2, SendOwner DEF NetInv
  <2>3. CASE Pop(w) \/ Transfer(w) \/ Exit(w) \/ Panic(w)
    <3>1. UNCHANGED <<submitted, channel, waiting, live, response>>
      BY <2>3 DEF Pop, Transfer, Exit, Panic, clientVars, schedulerVars
    <3> QED  BY <1>1, <2>1, <3>1, FrameOwner DEF NetInv
  <2> QED  BY <1>3, <2>2, <2>3 DEF Pool
<1>4. CASE Sweep
  BY <1>1, <1>4, SweepTypes, SweepOwner DEF NetInv
<1>5. CASE Promote
  BY <1>1, <1>5, PromoteTypes, PromoteOwner DEF NetInv
<1>6. CASE Schedule
  BY <1>1, <1>6, ScheduleTypes, ScheduleOwner DEF NetInv
<1>7. CASE Accept
  BY <1>1, <1>7, AcceptTypes, AcceptOwner DEF NetInv
<1>8. CASE Complete
  BY <1>1, <1>8, CompleteTypes, CompleteOwner DEF NetInv
<1>9. CASE Disconnected
  BY <1>1, <1>9, DisconnectedTypes, DisconnectedOwner DEF NetInv
<1>10. CASE PromoteDone \/ Tick
  <2>1. UNCHANGED <<submitted, channel, waiting, live, response>>
    BY <1>10 DEF PromoteDone, Tick, clientVars, schedulerVars
  <2> QED  BY <1>1, <1>10, <2>1, QuietTypes, FrameOwner DEF NetInv
<1>11. CASE UNCHANGED vars
  BY <1>11 DEF vars, NetInv, TypeInv, TypeOK, PermitsMatchOperations,
     BusyWorkersHaveJobs, OwnerInv, OneOwner, AnsweredAtMostOnce, CommandsDistinct,
     Queued, Waiting, Answered
<1> QED  BY <1>2, <1>3, <1>4, <1>5, <1>6, <1>7, <1>8, <1>9, <1>10, <1>11
         DEF Next, Dispatch

LEMMA NetAlways == Spec => []NetInv
  BY NetInit, NetStep, PTL DEF Spec

(* Every variable keeps its shape and the channel, the waiting queue and the *)
(* job queue stay within their capacity, whatever the capacities are.        *)
THEOREM TypeCorrect == Spec => []TypeOK
<1>1. NetInv => TypeOK
  BY DEF NetInv, TypeInv
<1> QED  BY <1>1, NetAlways, PTL

(* A permit is held by every operation in the map and by nothing else, on    *)
(* every way an operation can be admitted, answered or dropped.              *)
THEOREM PermitsAreExact == Spec => []PermitsMatchOperations
<1>1. NetInv => PermitsMatchOperations
  BY DEF NetInv, TypeInv
<1> QED  BY <1>1, NetAlways, PTL

(* A response channel carries at most one message.                           *)
THEOREM AnsweredOnce == Spec => []AnsweredAtMostOnce
<1>1. NetInv => AnsweredAtMostOnce
  BY DEF NetInv, OwnerInv
<1> QED  BY <1>1, NetAlways, PTL

(* A submission is in exactly one place until it is answered.                *)
THEOREM SubmissionsHaveOneOwner == Spec => []OneOwner
<1>1. NetInv => OneOwner
  BY DEF NetInv, OwnerInv
<1> QED  BY <1>1, NetAlways, PTL

(* Whatever completion, cancellation, expiry, rejection and shutdown do to an  *)
(* operation, it has one owner and gets one answer.                          *)
THEOREM OwnedAndAnsweredOnce == Spec => []OneOwnerOneAnswer
<1>1. NetInv => OneOwnerOneAnswer
  BY DEF NetInv, OwnerInv, OneOwnerOneAnswer
<1> QED  BY <1>1, NetAlways, PTL

------------------------------------------------------------------------------
(* The counters of a batch are exact and its policy holds, no operation is   *)
(* left unattended, and operations are admitted in order.                   *)


\* Where the requests that left pending are until the dispatcher receives
\* their completion, which is never for the one of a thread that panicked.
Carriers == {w \in Workers : worker[w].pc \in {"transfer", "send", "panicked"}}
Carried == {worker[w].job : w \in Carriers}
Completions == {k \in DOMAIN channel : channel[k].type = "completion"}
Ended(k) == Job(channel[k].op, channel[k].index)
Ends == {Ended(k) : k \in Completions}
Out == Elements(jobs) \cup Carried \cup Ends

\* A request is out once.
CarriedOnce == \A v, w \in Carriers : worker[v].job = worker[w].job => v = w
EndedOnce == \A a, b \in Completions : Ended(a) = Ended(b) => a = b
OutOnce ==
    /\ Distinct(jobs) /\ CarriedOnce /\ EndedOnce
    /\ Carried \cap Elements(jobs) = {}
    /\ Ends \cap (Elements(jobs) \cup Carried) = {}
    /\ \A w \in Workers \ Carriers : worker[w].job = NoJob

\* What is out belongs to an operation that has been admitted.
OutOwned ==
    \A j \in Out : /\ j \in JobSet /\ j.index \in Indices(j.op)
                   /\ j.op \in submitted /\ ~Queued(j.op) /\ ~Waiting(j.op)

\* An outcome the transfer of request i of o may have had.
Proper(o, i, outcome) ==
    /\ outcome.of = i
    /\ \/ outcome.kind = "answer"
       \/ outcome.kind = "cancelled" /\ o \in cancelled
EndedProper == \A k \in Completions : Proper(channel[k].op, channel[k].index, channel[k].outcome)
ProperOutcomes ==
    /\ \A w \in Workers : worker[w].pc = "send" =>
          Proper(worker[w].job.op, worker[w].job.index, worker[w].outcome)
    /\ EndedProper

\* The dispatcher ends only after a constructor that failed, when nothing was
\* ever submitted, or when nobody is left to send to it; it then holds nothing.
Lifecycle ==
    /\ handle \in {"starting", "failed"} => submitted = {}
    /\ handle \in {"open", "dropped"} => \A w \in Workers : worker[w].pc # "absent"
    /\ jobsClosed => handle = "failed" \/ dispatcher = "stopped"
    /\ \A w \in Workers : worker[w].pc = "exited" => handle = "failed"
    /\ dispatcher = "stopped" => /\ handle = "failed" \/ PoolIsLost
                                /\ live = {} /\ waiting = <<>>

\* BatchAccounting and PolicyRespected of one batch, and its results so far.
BatchOk(o) ==
    /\ batch[o].active = Cardinality(InFlight(o))
    /\ \A g \in Origins : batch[o].activeByOrigin[g] = Cardinality(InFlightTo(o, g))
    /\ batch[o].pending \cap InFlight(o) = {}
    /\ {i \in Indices(o) : batch[o].results[i] = NoOutcome} = batch[o].pending \cup InFlight(o)
    /\ Cardinality(InFlight(o)) <= MaxConcurrency[o]
    /\ \A g \in Origins : Cardinality(InFlightTo(o, g)) <= OriginLimit[o][g]
    /\ DOMAIN batch[o].results = Indices(o)
    /\ \A i \in Indices(o) : batch[o].results[i] # NoOutcome => Proper(o, i, batch[o].results[i])

\* An operation in the map: a fetch is out once it is scheduled, and whatever
\* is not about to be scheduled is out.
OperationOk(o) ==
    /\ o \in Batches => BatchOk(o) /\ o \notin scheduled
    /\ o \notin Batches => (o \in scheduled <=> InFlight(o) # {})
    /\ o \in Elements(ready) \ scheduled \/ InFlight(o) # {}

PolicyInv ==
    /\ NetInv /\ Lifecycle
    /\ OutOnce /\ OutOwned /\ ProperOutcomes
    /\ scheduled \subseteq live
    /\ \A o \in live : OperationOk(o)

------------------------------------------------------------------------------
(* What is out.                                                              *)

LEMMA JobIs ==
    /\ \A o, p, i, j : Job(o, i) = Job(p, j) <=> o = p /\ i = j
    /\ \A o, i : Job(o, i).op = o /\ Job(o, i).index = i
    /\ \A j \in JobSet : j = Job(j.op, j.index) /\ j.op \in Ops /\ j.index \in Nat
    /\ \A o \in Ops, i \in Nat : Job(o, i) \in JobSet
    /\ \A o, i : Job(o, i) = NoJob => i = 0
  BY DEF Job, JobSet, NoJob

LEMMA InFlightIs ==
    ASSUME OutOnce, NEW o \in Ops
    PROVE  /\ InFlight(o) = {i \in Indices(o) : Job(o, i) \in Out}
           /\ IsFiniteSet(InFlight(o)) /\ Cardinality(InFlight(o)) \in Nat
           /\ \A g : IsFiniteSet(InFlightTo(o, g)) /\ Cardinality(InFlightTo(o, g)) \in Nat
<1>1. Requests[o] \in Seq(Origins) /\ Len(Requests[o]) \in Nat
  BY RequestsAssumption, LenProperties
<1>2. \A i \in Indices(o) : i # 0
  BY <1>1 DEF Indices
<1>3. ASSUME NEW i \in Indices(o)
      PROVE  (\E w \in Workers : worker[w].job = Job(o, i)) <=> Job(o, i) \in Carried
  BY <1>2, JobIs DEF OutOnce, Carried, Carriers
<1>4. ASSUME NEW i \in Indices(o)
      PROVE  (\E k \in DOMAIN channel : /\ channel[k].type = "completion"
                                        /\ channel[k].op = o /\ channel[k].index = i)
             <=> Job(o, i) \in Ends
  BY JobIs DEF Ends, Ended, Completions
<1>5. InFlight(o) = {i \in Indices(o) : Job(o, i) \in Out}
  BY <1>3, <1>4 DEF InFlight, Out, Ends
<1>6. IsFiniteSet(Indices(o))
  BY <1>1, FS_Interval DEF Indices
<1>7. IsFiniteSet(InFlight(o)) /\ \A g : IsFiniteSet(InFlightTo(o, g))
  <2>1. InFlight(o) \subseteq Indices(o) /\ \A g : InFlightTo(o, g) \subseteq Indices(o)
    BY <1>5 DEF InFlightTo
  <2> QED  BY <1>6, <2>1, FS_Subset
<1> QED  BY <1>5, <1>7, FS_CardinalityType

(* The completions in the channel after a send and after a receive.          *)
LEMMA EndedPush ==
    ASSUME channel \in Seq(EventSet), NEW e \in EventSet, channel' = Append(channel, e),
           EndedOnce, EndedProper, cancelled \subseteq cancelled'
    PROVE  /\ Ends' = Ends \cup (IF e.type = "completion" THEN {Job(e.op, e.index)} ELSE {})
           /\ (e.type = "completion" => Job(e.op, e.index) \notin Ends) => EndedOnce'
           /\ (e.type = "completion" => Proper(e.op, e.index, e.outcome)) => EndedProper'
<1>0. PICK n : n = Len(channel) + 1
  OBVIOUS
<1>1. /\ DOMAIN channel' = DOMAIN channel \cup {n} /\ n \notin DOMAIN channel
      /\ \A i \in DOMAIN channel : channel'[i] = channel[i]
      /\ channel'[n] = e
  BY <1>0, PushProperties
<1>2. Completions' = Completions \cup (IF e.type = "completion" THEN {n} ELSE {})
  BY <1>1 DEF Completions
<1>3. /\ \A k \in Completions : Ended(k)' = Ended(k) /\ k # n
      /\ Ended(n)' = Job(e.op, e.index)
  BY <1>1 DEF Ended, Completions
<1>4. Ends' = Ends \cup (IF e.type = "completion" THEN {Job(e.op, e.index)} ELSE {})
  BY <1>2, <1>3 DEF Ends
<1>5. ASSUME e.type = "completion" => Job(e.op, e.index) \notin Ends PROVE EndedOnce'
  BY <1>2, <1>3, <1>5 DEF EndedOnce, Ends
<1>6. ASSUME e.type = "completion" => Proper(e.op, e.index, e.outcome) PROVE EndedProper'
  BY <1>1, <1>2, <1>3, <1>6 DEF EndedProper, Completions, Proper
<1> QED  BY <1>4, <1>5, <1>6

LEMMA EndedPop ==
    ASSUME channel \in Seq(EventSet), channel # <<>>, channel' = Tail(channel),
           EndedOnce, EndedProper, cancelled \subseteq cancelled'
    PROVE  /\ Ends' = Ends \ (IF Head(channel).type = "completion"
                              THEN {Job(Head(channel).op, Head(channel).index)} ELSE {})
           /\ EndedOnce' /\ EndedProper'
           /\ Head(channel).type = "completion" =>
                 /\ Job(Head(channel).op, Head(channel).index) \in Ends
                 /\ Proper(Head(channel).op, Head(channel).index, Head(channel).outcome)
<1>1. /\ Head(channel) = channel[1] /\ 1 \in DOMAIN channel
      /\ \A i \in DOMAIN channel :
            i = 1 \/ (i - 1 \in DOMAIN channel' /\ channel[i] = channel'[i - 1])
      /\ \A i \in DOMAIN channel' : /\ i \in Nat /\ i + 1 \in DOMAIN channel
                                    /\ i + 1 # 1 /\ channel'[i] = channel[i + 1]
  BY PopProperties
<1>2. \A i \in Completions' : i \in Nat /\ i + 1 \in Completions \ {1} /\ Ended(i)' = Ended(i + 1)
  BY <1>1 DEF Completions, Ended
<1>3. \A k \in Completions \ {1} : \E i \in Completions' : Ended(i)' = Ended(k)
  BY <1>1 DEF Completions, Ended
<1>4. 1 \in Completions <=> Head(channel).type = "completion"
  BY <1>1 DEF Completions
<1>5. Ended(1) = Job(Head(channel).op, Head(channel).index)
  BY <1>1 DEF Ended
<1>6. Ends' = {Ended(k) : k \in Completions \ {1}}
  BY <1>2, <1>3 DEF Ends
<1>7. {Ended(k) : k \in Completions \ {1}} =
         Ends \ (IF Head(channel).type = "completion" THEN {Ended(1)} ELSE {})
  BY <1>4 DEF EndedOnce, Ends
<1>8. EndedOnce'
  <2> SUFFICES ASSUME NEW a \in Completions', NEW b \in Completions', Ended(a)' = Ended(b)'
               PROVE  a = b
    BY DEF EndedOnce
  <2>1. a + 1 = b + 1
    BY <1>2 DEF EndedOnce
  <2> QED  BY <1>2, <2>1
<1>9. EndedProper'
  <2> SUFFICES ASSUME NEW i \in Completions'
               PROVE  Proper(channel[i].op, channel[i].index, channel[i].outcome)'
    BY DEF EndedProper
  <2>1. channel'[i] = channel[i + 1] /\ i + 1 \in Completions
    BY <1>1, <1>2 DEF Completions
  <2>2. Proper(channel[i + 1].op, channel[i + 1].index, channel[i + 1].outcome)
    BY <2>1 DEF EndedProper
  <2> QED  BY <2>1, <2>2 DEF Proper
<1> QED  BY <1>1, <1>4, <1>5, <1>6, <1>7, <1>8, <1>9 DEF Ends, EndedProper

(* A step that moves nothing that is out.                                    *)
LEMMA OutSame ==
    ASSUME OutOnce, ProperOutcomes, UNCHANGED <<jobs, Carriers>>, cancelled \subseteq cancelled',
           \A w \in Workers : worker'[w].job = worker[w].job,
           \A w \in Workers : worker'[w].pc = "send" =>
               \/ worker'[w] = worker[w]
               \/ Proper(worker[w].job.op, worker[w].job.index, worker'[w].outcome),
           Ends' = Ends, EndedOnce', EndedProper'
    PROVE  Out' = Out /\ OutOnce' /\ ProperOutcomes'
<1>1. Carried' = Carried /\ CarriedOnce'
  BY DEF Carried, CarriedOnce, OutOnce, Carriers
<1>2. Out' = Out /\ OutOnce'
  BY <1>1 DEF Out, OutOnce
<1>3. ProperOutcomes'
  BY DEF ProperOutcomes, Proper
<1> QED  BY <1>2, <1>3

(* Steps of the transfer threads move what is out and add nothing to it.     *)
LEMMA ThreadOut ==
    ASSUME NetInv, OutOnce, ProperOutcomes, NEW w \in Workers, Pool(w) \/ Panic(w)
    PROVE  Out' = Out /\ OutOnce' /\ ProperOutcomes'
<1>1. /\ TypeOK /\ BusyWorkersHaveJobs /\ worker \in [Workers -> WorkerSet]
      /\ jobs \in Seq(JobSet) /\ channel \in Seq(EventSet)
      /\ EndedOnce /\ EndedProper
  BY DEF NetInv, TypeInv, TypeOK, OutOnce, ProperOutcomes
<1>2. cancelled' = cancelled
  BY DEF Pool, Pop, Transfer, SendCompletion, Exit, Panic
<1>3. CASE channel' = channel
  <2>1. Ends' = Ends /\ EndedOnce' /\ EndedProper'
    BY <1>1, <1>2, <1>3 DEF Ends, Ended, Completions, EndedOnce, EndedProper, Proper
  <2>2. CASE Pop(w)
    <3>0. PICK h : h = Head(jobs)
      OBVIOUS
    <3>1. /\ worker[w].pc = "idle" /\ jobs # <<>> /\ jobs' = Tail(jobs)
          /\ h \in JobSet /\ Elements(jobs) = {h} \cup Elements(jobs')
          /\ Distinct(jobs') /\ h \notin Elements(jobs')
      BY <1>1, <2>2, <3>0, PopProperties DEF Pop, OutOnce
    <3>2. /\ worker'[w].job = h /\ worker'[w].pc \in {"send", "transfer"}
          /\ worker'[w].pc = "send" =>
                worker'[w].outcome = Outcome("cancelled", h.index) /\ h.op \in cancelled
          /\ \A v \in Workers \ {w} : worker'[v] = worker[v]
      BY <1>1, <2>2, <3>0 DEF Pop
    <3>3. Carriers' = Carriers \cup {w} /\ w \notin Carriers
      BY <3>1, <3>2 DEF Carriers
    <3>4. Carried' = Carried \cup {h} /\ h \notin Carried
      <4>1. Carried' = Carried \cup {h}
        BY <3>2, <3>3 DEF Carried, Carriers
      <4> QED  BY <3>1, <4>1 DEF OutOnce
    <3>5. Out' = Out
      BY <2>1, <3>1, <3>4 DEF Out
    <3>6. CarriedOnce'
      <4>1. \A v \in Carriers : worker[v].job # h /\ worker'[v] = worker[v]
        BY <3>2, <3>3, <3>4 DEF Carried, Carriers
      <4> QED  BY <3>2, <3>3, <4>1 DEF OutOnce, CarriedOnce
    <3>7. OutOnce'
      <4>1. \A v \in Workers \ Carriers' : worker'[v].job = NoJob
        BY <3>2, <3>3 DEF OutOnce
      <4> QED  BY <2>1, <3>1, <3>4, <3>6, <4>1 DEF OutOnce
    <3>8. ProperOutcomes'
      BY <1>2, <2>1, <3>2 DEF ProperOutcomes, Proper, Outcome
    <3> QED  BY <3>5, <3>7, <3>8
  <2>3. CASE Transfer(w)
    <3>1. PICK kind \in {"answer", "cancelled"} :
                /\ kind = "cancelled" => worker[w].job.op \in cancelled
                /\ worker' = [worker EXCEPT ![w].pc = "send",
                                  ![w].outcome = Outcome(kind, worker[w].job.index)]
      BY <2>3 DEF Transfer
    <3>2. /\ jobs' = jobs /\ worker[w].pc = "transfer" /\ worker'[w].pc = "send"
          /\ worker'[w].job = worker[w].job
          /\ worker'[w].outcome = Outcome(kind, worker[w].job.index)
          /\ \A v \in Workers \ {w} : worker'[v] = worker[v]
      BY <1>1, <2>3, <3>1 DEF Transfer, WorkerSet
    <3>3. Carriers' = Carriers
      BY <3>2 DEF Carriers
    <3>4. Proper(worker[w].job.op, worker[w].job.index, worker'[w].outcome)
      BY <3>1, <3>2 DEF Proper, Outcome
    <3>5. /\ \A v \in Workers : worker'[v].job = worker[v].job
          /\ \A v \in Workers : worker'[v].pc = "send" =>
               \/ worker'[v] = worker[v]
               \/ Proper(worker[v].job.op, worker[v].job.index, worker'[v].outcome)
      BY <3>2, <3>4
    <3> QED  BY <1>2, <2>1, <3>2, <3>3, <3>5, OutSame
  <2>4. CASE Exit(w)
    <3>1. /\ jobs' = jobs /\ worker[w].pc = "idle" /\ worker'[w] = Parked("exited")
          /\ \A v \in Workers \ {w} : worker'[v] = worker[v]
      BY <1>1, <2>4 DEF Exit
    <3>2. Carriers' = Carriers /\ \A v \in Workers : worker'[v].job = worker[v].job
      BY <3>1 DEF Carriers, Parked, OutOnce
    <3> QED  BY <1>2, <2>1, <3>1, <3>2, OutSame DEF Parked
  <2>5. ~SendCompletion(w)
    BY <1>1, <1>3, PushProperties DEF SendCompletion
  <2>6. CASE Panic(w)
    <3>1. /\ jobs' = jobs /\ worker[w].pc = "transfer" /\ worker'[w].pc = "panicked"
          /\ worker'[w].job = worker[w].job
          /\ \A v \in Workers \ {w} : worker'[v] = worker[v]
      BY <1>1, <2>6 DEF Panic, WorkerSet
    <3>2. Carriers' = Carriers
      BY <3>1 DEF Carriers
    <3>3. /\ \A v \in Workers : worker'[v].job = worker[v].job
          /\ \A v \in Workers : worker'[v].pc = "send" => worker'[v] = worker[v]
      BY <3>1
    <3> QED  BY <1>2, <2>1, <3>1, <3>2, <3>3, OutSame
  <2> QED  BY <2>2, <2>3, <2>4, <2>5, <2>6 DEF Pool
<1>4. CASE SendCompletion(w)
  <2>0. PICK j : j = worker[w].job
    OBVIOUS
  <2>1. PICK e : e = Completion(j, worker[w].outcome)
    OBVIOUS
  <2>2. w \in Carriers /\ j \in JobSet /\ j = Job(j.op, j.index)
    BY <1>1, <1>4, <2>0, JobIs DEF SendCompletion, Carriers, BusyWorkersHaveJobs
  <2>3. /\ e \in EventSet /\ e.type = "completion" /\ e.op = j.op /\ e.index = j.index
        /\ e.outcome = worker[w].outcome
    BY <1>1, <2>1, <2>2 DEF TypeOK, WorkerSet, JobSet, EventSet, Completion
  <2>4. /\ channel' = Append(channel, e) /\ jobs' = jobs
        /\ worker'[w] = Parked("idle")
        /\ \A v \in Workers \ {w} : worker'[v] = worker[v]
    BY <1>1, <1>4, <2>0, <2>1 DEF SendCompletion
  <2>5. Proper(e.op, e.index, e.outcome)
    BY <1>4, <2>0, <2>3 DEF SendCompletion, ProperOutcomes
  <2>6. j \in Carried /\ j \notin Ends /\ j \notin Elements(jobs)
    BY <2>0, <2>2 DEF OutOnce, Carried
  <2>7. Ends' = Ends \cup {j} /\ EndedOnce' /\ EndedProper'
    BY <1>1, <1>2, <2>2, <2>3, <2>4, <2>5, <2>6, EndedPush
  <2>8. Carriers' = Carriers \ {w}
    BY <2>4 DEF Carriers, Parked
  <2>9. Carried' = Carried \ {j} /\ CarriedOnce'
    <3>1. \A v \in Carriers' : /\ v \in Carriers \ {w} /\ worker'[v] = worker[v]
                               /\ worker[v].job # j
      BY <2>0, <2>2, <2>4, <2>8 DEF Carriers, CarriedOnce, OutOnce
    <3>2. \A v \in Carriers \ {w} : v \in Carriers' /\ worker'[v].job = worker[v].job
      BY <2>4, <2>8 DEF Carriers
    <3>3. CarriedOnce'
      BY <3>1 DEF CarriedOnce, OutOnce
    <3>4. Carried' = Carried \ {j}
      BY <2>0, <3>1, <3>2 DEF Carried
    <3> QED  BY <3>3, <3>4
  <2>10. Out' = Out
    BY <2>4, <2>6, <2>7, <2>9 DEF Out
  <2>11. OutOnce'
    <3>1. \A v \in Workers \ Carriers' : worker'[v].job = NoJob
      BY <2>4, <2>8 DEF OutOnce, Parked
    <3> QED  BY <2>4, <2>6, <2>7, <2>9, <3>1 DEF OutOnce
  <2>12. ProperOutcomes'
    BY <1>2, <2>4, <2>7 DEF ProperOutcomes, Proper, Parked
  <2> QED  BY <2>10, <2>11, <2>12
<1>5. channel' = channel \/ SendCompletion(w)
  BY DEF Pool, Pop, Transfer, Exit, Panic
<1> QED  BY <1>3, <1>4, <1>5

(* Steps of clients and of the dispatcher, which move commands only.         *)
LEMMA CommandOut ==
    ASSUME NetInv, OutOnce, ProperOutcomes, UNCHANGED <<jobs, worker>>,
           cancelled \subseteq cancelled',
           \/ channel' = channel
           \/ \E e \in EventSet : e.type = "command" /\ channel' = Append(channel, e)
           \/ channel # <<>> /\ Head(channel).type = "command" /\ channel' = Tail(channel)
    PROVE  Out' = Out /\ OutOnce' /\ ProperOutcomes'
<1>1. channel \in Seq(EventSet) /\ EndedOnce /\ EndedProper
  BY DEF NetInv, TypeInv, TypeOK, OutOnce, ProperOutcomes
<1>2. Ends' = Ends /\ EndedOnce' /\ EndedProper'
  <2>1. CASE channel' = channel
    BY <1>1, <2>1 DEF Ends, Ended, Completions, EndedOnce, EndedProper, Proper
  <2>2. ASSUME NEW e \in EventSet, e.type = "command", channel' = Append(channel, e)
        PROVE  Ends' = Ends /\ EndedOnce' /\ EndedProper'
    BY <1>1, <2>2, EndedPush
  <2>3. CASE channel # <<>> /\ Head(channel).type = "command" /\ channel' = Tail(channel)
    BY <1>1, <2>3, EndedPop
  <2> QED  BY <2>1, <2>2, <2>3
<1>3. Carriers' = Carriers
  BY DEF Carriers
<1> QED  BY <1>2, <1>3, OutSame

------------------------------------------------------------------------------
(* What an admitted operation has left behind.                               *)

\* No step puts an operation back into the channel or the waiting queue.
Onwards ==
    /\ submitted \subseteq submitted' /\ cancelled \subseteq cancelled'
    /\ \A o \in submitted : ~Queued(o) /\ ~Waiting(o) => ~Queued(o)' /\ ~Waiting(o)'

LEMMA StepsOnwards ==
    ASSUME NetInv, Next
    PROVE  Onwards
<1>1. TypeOK /\ channel \in Seq(EventSet) /\ waiting \in Seq(Ops) /\ CommandsDistinct /\ OneOwner
      /\ submitted \subseteq Ops
  BY DEF NetInv, TypeInv, TypeOK, OwnerInv
<1>2. ASSUME UNCHANGED <<channel, waiting>>, submitted \subseteq submitted',
             cancelled \subseteq cancelled'
      PROVE  Onwards
  BY <1>2 DEF Onwards, Queued, Waiting
<1>3. ASSUME NEW o \in Ops, SubmitAccepted(o)
      PROVE  Onwards
  <2>1. /\ Command(o) \in EventSet /\ Command(o).type = "command"
        /\ Command(o).op = o
    BY OutcomeTypes DEF Command, EventSet
  <2>2. /\ \A p \in Ops : Queued(p)' <=> Queued(p) \/ p = o
        /\ o \notin submitted /\ submitted \subseteq submitted'
        /\ UNCHANGED <<waiting, cancelled>>
    BY <1>1, <1>3, <2>1, ChannelPush DEF SubmitAccepted, schedulerVars
  <2> QED  BY <1>1, <2>2 DEF Onwards, Waiting
<1>4. ASSUME NEW w \in Workers, SendCompletion(w)
      PROVE  Onwards
  <2>0. PICK e : e = Completion(worker[w].job, worker[w].outcome)
    OBVIOUS
  <2>1. e \in EventSet /\ e.type = "completion"
    BY <1>1, <1>4, <2>0 DEF SendCompletion, TypeOK, WorkerSet, JobSet, EventSet, Completion,
           BusyWorkersHaveJobs, NetInv, TypeInv
  <2>2. /\ \A p \in Ops : Queued(p)' <=> Queued(p)
        /\ UNCHANGED <<waiting, cancelled, submitted>>
    BY <1>1, <1>4, <2>0, <2>1, ChannelPush DEF SendCompletion, schedulerVars, clientVars
  <2> QED  BY <1>1, <2>2 DEF Onwards, Waiting
<1>5. ASSUME UNCHANGED <<channel, submitted>>, cancelled \subseteq cancelled',
             Elements(waiting') \subseteq Elements(waiting)
      PROVE  Onwards
  BY <1>5 DEF Onwards, Queued, Waiting
<1>6. CASE Sweep
  BY <1>1, <1>5, <1>6, RetainProperties DEF Sweep, clientVars
<1>7. CASE Promote
  BY <1>1, <1>5, <1>7, PopProperties DEF Promote, clientVars
<1>8. CASE Disconnected
  BY <1>1, <1>5, <1>8, EmptySeq DEF Disconnected, clientVars, Elements
<1>9. CASE Accept
  <2> DEFINE o == Head(channel).op
  <2>1. o \in Ops /\ Queued(o)
    BY <1>1, <1>9, ReceivedEvent DEF Accept
  <2>2. /\ \A p \in Ops : Queued(p)' => Queued(p)
        /\ UNCHANGED <<submitted, cancelled>>
    BY <1>1, <1>9, ChannelPop DEF Accept, clientVars
  <2>3. \/ waiting' = waiting
        \/ waiting' = Append(waiting, o)
    BY <1>9 DEF Accept, schedulerVars
  <2> HIDE DEF o
  <2>4. Elements(waiting') \subseteq Elements(waiting) \cup {o}
    <3>1. o \in Ops /\ waiting \in Seq(Ops)
      BY <1>1, <2>1
    <3>2. Elements(Append(waiting, o)) = Elements(waiting) \cup {o}
      BY <3>1, PushProperties
    <3> QED  BY <2>3, <3>2
  <2> QED  BY <1>1, <2>1, <2>2, <2>4 DEF Onwards, Waiting
<1>10. CASE Complete
  <2>1. /\ \A p \in Ops : Queued(p)' => Queued(p)
        /\ UNCHANGED <<submitted, cancelled, waiting>>
    BY <1>1, <1>10, ChannelPop DEF Complete, clientVars, schedulerVars
  <2> QED  BY <1>1, <2>1 DEF Onwards, Waiting
<1>11. CASE Schedule \/ PromoteDone \/ Tick
  BY <1>2, <1>11 DEF Schedule, PromoteDone, Tick, ScheduleSkip, ScheduleFetch, ScheduleJob,
     ScheduleWait, ScheduleFinish, ScheduleDone, clientVars, schedulerVars
<1>12. ASSUME NEW o \in Ops, SubmitRejected(o) \/ Cancel(o) \/ Elapse(o)
       PROVE  Onwards
  BY <1>2, <1>12 DEF SubmitRejected, Cancel, Elapse, clientVars, schedulerVars
<1>13. CASE DropHandle \/ StartFails \/ \E w \in Workers : StartWorker(w)
  BY <1>2, <1>13 DEF DropHandle, StartFails, StartWorker, schedulerVars
<1>14. ASSUME NEW w \in Workers, Pop(w) \/ Transfer(w) \/ Exit(w) \/ Panic(w)
       PROVE  Onwards
  BY <1>2, <1>14 DEF Pop, Transfer, Exit, Panic, clientVars, schedulerVars
<1> QED
  BY <1>3, <1>4, <1>6, <1>7, <1>8, <1>9, <1>10, <1>11, <1>12, <1>13, <1>14
     DEF Next, Client, Pool, Dispatch

LEMMA OwnedKeeps ==
    ASSUME OutOwned, Onwards, Out' \subseteq Out
    PROVE  OutOwned'
  BY DEF OutOwned, Onwards

(* Nothing is under way where nothing was submitted.                         *)
LEMMA NothingSubmitted ==
    ASSUME NetInv, OutOwned, submitted = {}
    PROVE  Out = {} /\ live = {} /\ waiting = <<>>
<1>1. Out = {}
  BY DEF OutOwned
<1>2. live = {} /\ \A o \in Ops : ~Waiting(o)
  BY DEF NetInv, TypeInv, TypeOK, OwnerInv, OneOwner
<1>3. waiting = <<>>
  <2>1. waiting \in Seq(Ops)
    BY DEF NetInv, TypeInv, TypeOK
  <2> SUFFICES ASSUME waiting # <<>> PROVE FALSE
    OBVIOUS
  <2>2. Head(waiting) \in Ops /\ Head(waiting) \in Elements(waiting)
    BY <2>1, PopProperties
  <2> QED  BY <1>2, <2>2 DEF Waiting
<1> QED  BY <1>1, <1>2, <1>3

(* The channel is disconnected by a constructor that failed, or by threads    *)
(* that all panicked.                                                        *)
LEMMA SendersGone ==
    ASSUME Lifecycle, NoSenders
    PROVE  (handle = "failed" /\ submitted = {}) \/ PoolIsLost
<1>1. CASE handle = "failed"
  BY <1>1 DEF Lifecycle
<1>2. CASE handle = "dropped"
  BY <1>2 DEF Lifecycle, NoSenders, PoolIsLost
<1> QED  BY <1>1, <1>2 DEF NoSenders

LEMMA LifecycleKeeps ==
    ASSUME NetInv, Lifecycle, Next
    PROVE  Lifecycle'
<1>1. TypeOK /\ worker \in [Workers -> WorkerSet]
  BY DEF NetInv, TypeInv, TypeOK
<1>2. ASSUME UNCHANGED <<handle, submitted, worker, jobsClosed>>,
             \/ UNCHANGED <<dispatcher, live, waiting>>
             \/ "stopped" \notin {dispatcher, dispatcher'}
      PROVE  Lifecycle'
  BY <1>2 DEF Lifecycle, PoolIsLost
<1>3. CASE StartFails \/ DropHandle
  BY <1>3 DEF StartFails, DropHandle, Lifecycle, PoolIsLost, poolVars, schedulerVars
<1>4. ASSUME NEW w \in Workers, StartWorker(w)
      PROVE  Lifecycle'
  BY <1>1, <1>4 DEF StartWorker, Lifecycle, PoolIsLost, Parked, schedulerVars
<1>5. ASSUME NEW o \in Ops, SubmitAccepted(o) \/ SubmitRejected(o)
      PROVE  Lifecycle'
  BY <1>5 DEF SubmitAccepted, SubmitRejected, Lifecycle, PoolIsLost, poolVars, schedulerVars
<1>6. ASSUME NEW o \in Ops, Cancel(o) \/ Elapse(o)
      PROVE  Lifecycle'
  BY <1>2, <1>6 DEF Cancel, Elapse, clientVars, poolVars, schedulerVars
<1>7. ASSUME NEW w \in Workers, Pool(w) \/ Panic(w)
      PROVE  Lifecycle'
  <2>1. UNCHANGED <<handle, submitted, jobsClosed, dispatcher, live, waiting>>
    BY <1>7 DEF Pool, Pop, Transfer, SendCompletion, Exit, Panic, clientVars, schedulerVars
  <2>2. worker[w].pc \in {"idle", "transfer", "send"}
    BY <1>7 DEF Pool, Pop, Transfer, SendCompletion, Exit, Panic
  <2>3. ~PoolIsLost
    BY <2>2 DEF PoolIsLost
  <2>4. \A v \in Workers :
           /\ worker'[v].pc = "absent" => worker[v].pc = "absent"
           /\ worker'[v].pc = "exited" => worker[v].pc = "exited" \/ jobsClosed
    BY <1>1, <1>7 DEF Pool, Pop, Transfer, SendCompletion, Exit, Panic, Parked, WorkerSet
  <2> QED  BY <2>1, <2>3, <2>4 DEF Lifecycle
<1>8. CASE Sweep \/ Promote \/ PromoteDone \/ Accept \/ Complete \/ Tick
  BY <1>2, <1>8 DEF Sweep, Promote, PromoteDone, Accept, Complete, Tick, clientVars, poolVars
<1>9. CASE Schedule
  BY <1>2, <1>9 DEF Schedule, Scheduling, ScheduleSkip, ScheduleFetch, ScheduleJob,
     ScheduleWait, ScheduleFinish, ScheduleDone, clientVars, poolVars
<1>10. CASE Disconnected
  <2>1. handle = "failed" \/ PoolIsLost
    BY <1>10, SendersGone DEF Disconnected
  <2> QED  BY <1>10, <2>1 DEF Disconnected, Lifecycle, PoolIsLost, Remove, clientVars
<1> QED
  BY <1>3, <1>4, <1>5, <1>6, <1>7, <1>8, <1>9, <1>10 DEF Next, Client, Dispatch

------------------------------------------------------------------------------
(* The operations in the map.                                                *)

LEMMA InFlightNext ==
    ASSUME OutOnce', NEW o \in Ops
    PROVE  InFlight(o)' = {i \in Indices(o) : Job(o, i) \in Out'}
<1>1. Requests[o] \in Seq(Origins) /\ Len(Requests[o]) \in Nat
  BY RequestsAssumption, LenProperties
<1>2. \A i \in Indices(o) : i # 0
  BY <1>1 DEF Indices
<1>3. ASSUME NEW i \in Indices(o)
      PROVE  (\E w \in Workers : worker'[w].job = Job(o, i)) <=> Job(o, i) \in Carried'
  BY <1>2, JobIs DEF OutOnce, Carried, Carriers
<1>4. ASSUME NEW i \in Indices(o)
      PROVE  (\E k \in DOMAIN channel' : /\ channel'[k].type = "completion"
                                         /\ channel'[k].op = o /\ channel'[k].index = i)
             <=> Job(o, i) \in Ends'
  BY JobIs DEF Ends, Ended, Completions
<1> QED  BY <1>3, <1>4 DEF InFlight, Out

LEMMA InFlightSame ==
    ASSUME OutOnce, OutOnce', NEW o \in Ops,
           \A i \in Indices(o) : Job(o, i) \in Out' <=> Job(o, i) \in Out
    PROVE  InFlight(o)' = InFlight(o) /\ \A g : InFlightTo(o, g)' = InFlightTo(o, g)
<1>1. InFlight(o)' = InFlight(o)
  BY InFlightIs, InFlightNext
<1> QED  BY <1>1 DEF InFlightTo

(* A step that does not touch operation o, or takes it from the head of ready *)
(* while a request of it is out.                                             *)
LEMMA OperationKeeps ==
    ASSUME OutOnce, OutOnce', NEW o \in Ops, OperationOk(o),
           batch'[o] = batch[o], o \in scheduled' <=> o \in scheduled,
           cancelled \subseteq cancelled',
           \A i \in Indices(o) : Job(o, i) \in Out' <=> Job(o, i) \in Out,
           o \in Elements(ready) \ scheduled => o \in Elements(ready') \/ InFlight(o) # {}
    PROVE  OperationOk(o)'
<1>1. InFlight(o)' = InFlight(o) /\ \A g : InFlightTo(o, g)' = InFlightTo(o, g)
  BY InFlightSame
<1>2. \A i \in Indices(o) : batch[o].results[i] # NoOutcome /\ Proper(o, i, batch[o].results[i])
                              => Proper(o, i, batch[o].results[i])'
  BY DEF Proper
<1>3. BatchOk(o) => BatchOk(o)'
  BY <1>1, <1>2 DEF BatchOk
<1> QED  BY <1>1, <1>3 DEF OperationOk

\* What a step leaves of the operations, but for the ones in S.
Untouched(S) ==
    \A o \in live' \ S :
        /\ o \in live /\ batch'[o] = batch[o] /\ (o \in scheduled' <=> o \in scheduled)
        /\ \A i \in Indices(o) : Job(o, i) \in Out' <=> Job(o, i) \in Out
        /\ o \in Elements(ready) \ scheduled => o \in Elements(ready') \/ InFlight(o) # {}

LEMMA UntouchedKeep ==
    ASSUME PolicyInv, Onwards, OutOnce', NEW S, Untouched(S)
    PROVE  \A o \in live' \ S : OperationOk(o)'
<1>1. live \subseteq Ops /\ OutOnce /\ cancelled \subseteq cancelled'
  BY DEF PolicyInv, NetInv, TypeInv, TypeOK, Onwards
<1> SUFFICES ASSUME NEW o \in live' \ S PROVE OperationOk(o)'
  OBVIOUS
<1>2. o \in live /\ OperationOk(o)
  BY DEF Untouched, PolicyInv
<1> QED  BY <1>1, <1>2, OperationKeeps DEF Untouched

\* The parts of PolicyInv that say what is out, after a step.
OutInv == OutOnce /\ OutOwned /\ ProperOutcomes

LEMMA PolicyKeeps ==
    ASSUME PolicyInv, Next, OutInv', scheduled' \subseteq live', Untouched({})
    PROVE  PolicyInv'
<1>1. NetInv' /\ Lifecycle' /\ Onwards
  BY NetStep, LifecycleKeeps, StepsOnwards DEF PolicyInv
<1>2. \A o \in live' : OperationOk(o)'
  BY <1>1, UntouchedKeep DEF OutInv
<1> QED  BY <1>1, <1>2 DEF PolicyInv, OutInv

(* The commonest case: nothing that is out moves.                            *)
LEMMA CommandPolicy ==
    ASSUME PolicyInv, Next, UNCHANGED <<jobs, worker>>,
           \/ channel' = channel
           \/ \E e \in EventSet : e.type = "command" /\ channel' = Append(channel, e)
           \/ channel # <<>> /\ Head(channel).type = "command" /\ channel' = Tail(channel)
    PROVE  OutInv' /\ Out' = Out /\ Onwards
<1>1. NetInv /\ OutOnce /\ ProperOutcomes /\ OutOwned
  BY DEF PolicyInv
<1>2. Onwards
  BY <1>1, StepsOnwards
<1>3. Out' = Out /\ OutOnce' /\ ProperOutcomes'
  BY <1>1, <1>2, CommandOut DEF Onwards
<1> QED  BY <1>1, <1>2, <1>3, OwnedKeeps DEF OutInv

(* The operation taken from the head of ready.                               *)
LEMMA ReadyPop ==
    ASSUME ready \in Seq(Ops), ready # <<>>
    PROVE  \A o \in Elements(ready) : o = Head(ready) \/ o \in Elements(Tail(ready))
  BY PopProperties

LEMMA ClientPolicy ==
    ASSUME PolicyInv, Next, Client \/ \E o \in Ops : Elapse(o)
    PROVE  PolicyInv'
<1>1. /\ NetInv /\ TypeOK /\ worker \in [Workers -> WorkerSet] /\ scheduled \subseteq live
      /\ OutOnce /\ OutOwned /\ ProperOutcomes /\ Lifecycle
  BY DEF PolicyInv, NetInv, TypeInv, TypeOK
<1>2. ASSUME UNCHANGED schedulerVars, Out' = Out
      PROVE  Untouched({}) /\ scheduled' \subseteq live'
  BY <1>1, <1>2 DEF Untouched, schedulerVars
<1>3. ASSUME UNCHANGED schedulerVars, UNCHANGED <<jobs, worker>>,
             \/ channel' = channel
             \/ \E e \in EventSet : e.type = "command" /\ channel' = Append(channel, e)
      PROVE  PolicyInv'
  BY <1>2, <1>3, CommandPolicy, PolicyKeeps
<1>4. ASSUME NEW o \in Ops, SubmitAccepted(o)
      PROVE  PolicyInv'
  <2>1. Command(o) \in EventSet /\ Command(o).type = "command"
    BY OutcomeTypes DEF Command, EventSet
  <2> QED  BY <1>3, <1>4, <2>1 DEF SubmitAccepted, poolVars
<1>5. ASSUME NEW o \in Ops, SubmitRejected(o) \/ Cancel(o) \/ Elapse(o)
      PROVE  PolicyInv'
  BY <1>3, <1>5 DEF SubmitRejected, Cancel, Elapse, poolVars
<1>6. CASE DropHandle
  BY <1>3, <1>6 DEF DropHandle, poolVars
<1>7. ASSUME NEW w \in Workers, StartWorker(w)
      PROVE  PolicyInv'
  <2>1. /\ worker[w].pc = "absent" /\ worker'[w] = Parked("idle")
        /\ \A v \in Workers \ {w} : worker'[v] = worker[v]
        /\ UNCHANGED <<jobs, channel, cancelled>> /\ UNCHANGED schedulerVars
    BY <1>1, <1>7 DEF StartWorker
  <2>2. Carriers' = Carriers /\ \A v \in Workers : worker'[v].job = worker[v].job
    BY <1>1, <2>1 DEF Carriers, Parked, OutOnce
  <2>3. Ends' = Ends /\ EndedOnce' /\ EndedProper'
    BY <1>1, <2>1 DEF Ends, Ended, Completions, EndedOnce, EndedProper, Proper, OutOnce,
                      ProperOutcomes
  <2>4. Out' = Out /\ OutOnce' /\ ProperOutcomes'
    BY <1>1, <2>1, <2>2, <2>3, OutSame DEF Parked
  <2>5. OutOwned'
    BY <1>1, <2>4, StepsOnwards, OwnedKeeps
  <2> QED  BY <1>2, <2>1, <2>4, <2>5, PolicyKeeps DEF OutInv
<1>8. CASE StartFails
  <2>1. submitted = {} /\ jobs' = <<>> /\ UNCHANGED <<worker, channel, cancelled>>
        /\ UNCHANGED schedulerVars
    BY <1>1, <1>8 DEF StartFails, Lifecycle
  <2>2. Out = {} /\ live = {}
    BY <1>1, <2>1, NothingSubmitted
  <2>3. Elements(jobs') = {} /\ Distinct(jobs')
    BY <2>1, EmptySeq DEF Elements, Distinct
  <2>4. Ends' = Ends /\ EndedOnce' /\ EndedProper' /\ Carried' = Carried /\ Carriers' = Carriers
        /\ CarriedOnce'
    BY <1>1, <2>1 DEF Ends, Ended, Completions, EndedOnce, EndedProper, Proper, OutOnce,
                      ProperOutcomes, Carried, Carriers, CarriedOnce
  <2>5. Out' = {} /\ OutOnce' /\ ProperOutcomes'
    BY <1>1, <2>1, <2>2, <2>3, <2>4 DEF Out, OutOnce, ProperOutcomes, Proper
  <2>6. OutOwned'
    BY <2>5 DEF OutOwned
  <2>7. Untouched({}) /\ scheduled' \subseteq live'
    BY <1>1, <2>1, <2>2 DEF Untouched, schedulerVars
  <2> QED  BY <2>5, <2>6, <2>7, PolicyKeeps DEF OutInv
<1> QED  BY <1>4, <1>5, <1>6, <1>7, <1>8 DEF Client

LEMMA PoolPolicy ==
    ASSUME PolicyInv, Next, NEW w \in Workers, Pool(w) \/ Panic(w)
    PROVE  PolicyInv'
<1>1. NetInv /\ OutOnce /\ OutOwned /\ ProperOutcomes /\ scheduled \subseteq live
  BY DEF PolicyInv
<1>2. Out' = Out /\ OutOnce' /\ ProperOutcomes'
  BY <1>1, ThreadOut
<1>3. OutOwned'
  BY <1>1, <1>2, StepsOnwards, OwnedKeeps
<1>4. UNCHANGED schedulerVars
  BY DEF Pool, Pop, Transfer, SendCompletion, Exit, Panic
<1>5. Untouched({}) /\ scheduled' \subseteq live'
  BY <1>1, <1>2, <1>4 DEF Untouched, schedulerVars
<1> QED  BY <1>2, <1>3, <1>5, PolicyKeeps DEF OutInv

LEMMA SweepPolicy ==
    ASSUME PolicyInv, Next, Sweep
    PROVE  PolicyInv'
<1> DEFINE gone == CancelledOperations \cup ExpiredBatches
<1>1. /\ scheduled \subseteq live /\ live \subseteq Ops /\ ready \in Seq(Ops)
      /\ gone \subseteq live
  BY DEF PolicyInv, NetInv, TypeInv, TypeOK, CancelledOperations, ExpiredBatches
<1>2. /\ Remove(gone) /\ ready' = Retain(ready, live \ gone)
      /\ UNCHANGED <<jobs, worker, channel>>
  BY DEF Sweep, poolVars
<1> HIDE DEF gone
<1>3. /\ live' = live \ gone /\ scheduled' = scheduled \ gone
      /\ \A o \in Ops \ gone : batch'[o] = batch[o]
  BY <1>2 DEF Remove
<1>4. Elements(ready') = Elements(ready) \cap (live \ gone)
  BY <1>1, <1>2, RetainProperties
<1>5. OutInv' /\ Out' = Out
  BY <1>2, CommandPolicy
<1>6. Untouched({}) /\ scheduled' \subseteq live'
  BY <1>1, <1>3, <1>4, <1>5 DEF Untouched
<1> QED  BY <1>5, <1>6, PolicyKeeps

LEMMA QuietPolicy ==
    ASSUME PolicyInv, Next, PromoteDone \/ ScheduleDone \/ Tick
    PROVE  PolicyInv'
<1>1. UNCHANGED schedulerVars /\ UNCHANGED <<jobs, worker, channel>>
  BY DEF PromoteDone, ScheduleDone, Tick, poolVars
<1>2. OutInv' /\ Out' = Out
  BY <1>1, CommandPolicy
<1>3. Untouched({}) /\ scheduled' \subseteq live'
  BY <1>1, <1>2 DEF Untouched, schedulerVars, PolicyInv
<1> QED  BY <1>2, <1>3, PolicyKeeps

LEMMA DisconnectedPolicy ==
    ASSUME PolicyInv, Next, Disconnected
    PROVE  PolicyInv'
<1>1. NetInv /\ OutOnce /\ OutOwned /\ ProperOutcomes /\ scheduled \subseteq live
  BY DEF PolicyInv
<1>2. jobs' = <<>> /\ UNCHANGED <<worker, channel, cancelled>> /\ live' = {} /\ scheduled' = {}
  BY <1>1 DEF Disconnected, Remove
<1>3. Elements(jobs') = {} /\ Distinct(jobs')
  BY <1>2, EmptySeq DEF Elements, Distinct
<1>4. Ends' = Ends /\ EndedOnce' /\ EndedProper' /\ Carried' = Carried /\ Carriers' = Carriers
      /\ CarriedOnce'
  BY <1>1, <1>2 DEF Ends, Ended, Completions, EndedOnce, EndedProper, Proper, OutOnce,
                    ProperOutcomes, Carried, Carriers, CarriedOnce
<1>5. Out' \subseteq Out /\ OutOnce' /\ ProperOutcomes'
  BY <1>1, <1>2, <1>3, <1>4 DEF Out, OutOnce, ProperOutcomes, Proper
<1>6. OutOwned' /\ Untouched({})
  BY <1>1, <1>2, <1>5, StepsOnwards, OwnedKeeps DEF Untouched
<1> QED  BY <1>2, <1>5, <1>6, PolicyKeeps DEF OutInv

(* Admission: the counters of a new batch start with nothing out.            *)
LEMMA AdmitPolicy ==
    ASSUME PolicyInv, Next, NEW o \in Ops, Queued(o) \/ Waiting(o), Admit(o), OutInv', Out' = Out
    PROVE  PolicyInv'
<1>1. /\ NetInv /\ TypeOK /\ OutOnce /\ OutOwned /\ scheduled \subseteq live /\ live \subseteq Ops
      /\ ready \in Seq(Ops) /\ batch \in [Ops -> BatchSet]
  BY DEF PolicyInv, NetInv, TypeInv, TypeOK
<1>2. o \notin live
  BY <1>1 DEF NetInv, OwnerInv, OneOwner
<1>3. CASE UNCHANGED <<live, ready, scheduled, batch>>
  <2>1. Untouched({}) /\ scheduled' \subseteq live'
    BY <1>1, <1>3 DEF Untouched
  <2> QED  BY <2>1, PolicyKeeps
<1>4. CASE /\ Requests[o] # <<>> /\ live' = live \cup {o} /\ ready' = Append(ready, o)
           /\ batch' = IF o \in Batches THEN [batch EXCEPT ![o] = NewBatch(o)] ELSE batch
           /\ scheduled' = scheduled
  <2>1. Elements(ready') = Elements(ready) \cup {o}
    BY <1>1, <1>4, PushProperties
  <2>2. Untouched({o}) /\ scheduled' \subseteq live'
    BY <1>1, <1>4, <2>1 DEF Untouched
  <2>3. \A i \in Indices(o) : Job(o, i) \notin Out
    BY <1>1, JobIs DEF OutOwned
  <2>4. InFlight(o)' = {} /\ \A g : InFlightTo(o, g)' = {}
    <3>1. InFlight(o)' = {}
      BY <1>1, <2>3, InFlightNext DEF OutInv
    <3> QED  BY <3>1 DEF InFlightTo
  <2>5. o \in Batches => BatchOk(o)'
    <3> SUFFICES ASSUME o \in Batches PROVE BatchOk(o)'
      OBVIOUS
    <3>1. /\ batch'[o].pending = Indices(o) /\ batch'[o].active = 0
          /\ batch'[o].results = [i \in Indices(o) |-> NoOutcome]
          /\ batch'[o].activeByOrigin = [g \in Origins |-> 0]
      BY <1>1, <1>4 DEF NewBatch
    <3>2. MaxConcurrency[o] \in Nat /\ \A g \in Origins : OriginLimit[o][g] \in Nat
      BY PolicyAssumption
    <3> QED  BY <2>4, <3>1, <3>2, FS_EmptySet DEF BatchOk
  <2>6. OperationOk(o)'
    BY <1>1, <1>2, <1>4, <2>1, <2>4, <2>5 DEF OperationOk
  <2>7. NetInv' /\ Lifecycle' /\ Onwards
    BY NetStep, LifecycleKeeps, StepsOnwards DEF PolicyInv
  <2>8. \A p \in live' \ {o} : OperationOk(p)'
    BY <2>2, <2>7, UntouchedKeep DEF OutInv
  <2> QED  BY <2>2, <2>6, <2>7, <2>8 DEF PolicyInv, OutInv
<1> QED  BY <1>3, <1>4 DEF Admit

LEMMA PromotePolicy ==
    ASSUME PolicyInv, Next, Promote
    PROVE  PolicyInv'
<1>1. waiting \in Seq(Ops) /\ waiting # <<>> /\ UNCHANGED <<jobs, worker, channel>>
  BY DEF PolicyInv, NetInv, TypeInv, TypeOK, Promote, poolVars
<1>2. Head(waiting) \in Ops /\ Waiting(Head(waiting))
  BY <1>1, PopProperties DEF Waiting
<1>3. OutInv' /\ Out' = Out
  BY <1>1, CommandPolicy
<1> QED  BY <1>2, <1>3, AdmitPolicy DEF Promote

LEMMA AcceptPolicy ==
    ASSUME PolicyInv, Next, Accept
    PROVE  PolicyInv'
<1>1. /\ UNCHANGED <<jobs, worker>> /\ scheduled \subseteq live
      /\ channel # <<>> /\ Head(channel).type = "command" /\ channel' = Tail(channel)
  BY DEF PolicyInv, Accept, poolVars
<1>2. OutInv' /\ Out' = Out
  BY <1>1, CommandPolicy
<1>3. CASE UNCHANGED <<live, ready, scheduled, batch>>
  <2>1. Untouched({}) /\ scheduled' \subseteq live'
    BY <1>1, <1>2, <1>3 DEF Untouched
  <2> QED  BY <1>2, <2>1, PolicyKeeps
<1>4. CASE Admit(Head(channel).op)
  <2>1. Head(channel).op \in Ops /\ Queued(Head(channel).op)
    BY <1>1, ReceivedEvent DEF PolicyInv, NetInv, TypeInv
  <2> QED  BY <1>2, <1>4, <2>1, AdmitPolicy
<1> QED  BY <1>3, <1>4 DEF Accept, schedulerVars

------------------------------------------------------------------------------
(* Requests that go out and come back.                                       *)

LEMMA PushJob ==
    ASSUME PolicyInv, Next, NEW j \in JobSet, j \notin Out, j.index \in Indices(j.op),
           j.op \in live, jobs' = Append(jobs, j), UNCHANGED <<worker, channel, cancelled>>
    PROVE  OutInv' /\ Out' = Out \cup {j}
<1>1. /\ NetInv /\ OutOnce /\ OutOwned /\ ProperOutcomes /\ jobs \in Seq(JobSet) /\ live \subseteq Ops
  BY DEF PolicyInv, NetInv, TypeInv, TypeOK
<1>2. Elements(jobs') = Elements(jobs) \cup {j} /\ Distinct(jobs')
  BY <1>1, PushProperties DEF OutOnce, Out
<1>3. Ends' = Ends /\ EndedOnce' /\ EndedProper' /\ Carried' = Carried /\ Carriers' = Carriers
      /\ CarriedOnce'
  BY <1>1 DEF Ends, Ended, Completions, EndedOnce, EndedProper, Proper, OutOnce,
                    ProperOutcomes, Carried, Carriers, CarriedOnce
<1>4. Out' = Out \cup {j} /\ OutOnce' /\ ProperOutcomes'
  BY <1>1, <1>2, <1>3 DEF Out, OutOnce, ProperOutcomes, Proper
<1>5. /\ j.op \in submitted /\ ~Queued(j.op) /\ ~Waiting(j.op)
  BY <1>1 DEF NetInv, OwnerInv, OneOwner
<1>6. Onwards
  BY <1>1, StepsOnwards
<1>7. OutOwned'
  BY <1>1, <1>4, <1>5, <1>6 DEF OutOwned, Onwards
<1> QED  BY <1>4, <1>7 DEF OutInv

LEMMA FetchPolicy ==
    ASSUME PolicyInv, Next, NEW o \in Ops, ScheduleFetch(o)
    PROVE  PolicyInv'
<1>1. /\ o \in live \ Batches /\ o \notin scheduled /\ OperationOk(o) /\ OutOnce
      /\ scheduled \subseteq live /\ ready \in Seq(Ops) /\ ready # <<>> /\ o = Head(ready)
      /\ ready' = Tail(ready) /\ scheduled' = scheduled \cup {o}
      /\ jobs' = Append(jobs, Job(o, 1)) /\ UNCHANGED <<worker, channel, cancelled, live, batch>>
  BY DEF PolicyInv, ScheduleFetch, Scheduling, NetInv, TypeInv, TypeOK
<1>2. 1 \in Indices(o)
  <2>1. o \in Ops \ Batches
    BY <1>1
  <2>2. Len(Requests[o]) = 1
    BY <2>1, RequestsAssumption
  <2> QED  BY <2>2 DEF Indices
<1>3. Job(o, 1) \notin Out
  BY <1>1, <1>2, InFlightIs DEF OperationOk
<1>4. OutInv' /\ Out' = Out \cup {Job(o, 1)}
  BY <1>1, <1>2, <1>3, JobIs, PushJob
<1>5. Untouched({o}) /\ scheduled' \subseteq live'
  BY <1>1, <1>4, JobIs, ReadyPop DEF Untouched
<1>6. OperationOk(o)'
  <2>1. 1 \in InFlight(o)'
    BY <1>2, <1>4, InFlightNext DEF OutInv
  <2> QED  BY <1>1, <2>1 DEF OperationOk
<1>7. NetInv' /\ Lifecycle' /\ Onwards
  BY NetStep, LifecycleKeeps, StepsOnwards DEF PolicyInv
<1>8. \A p \in live' \ {o} : OperationOk(p)'
  BY <1>4, <1>5, <1>7, UntouchedKeep DEF OutInv
<1> QED  BY <1>4, <1>5, <1>6, <1>7, <1>8 DEF PolicyInv, OutInv

(* One more request of a batch is out.                                       *)
LEMMA JobPolicy ==
    ASSUME PolicyInv, Next, NEW o \in Ops, ScheduleJob(o)
    PROVE  PolicyInv'
<1> DEFINE d == batch[o]
<1>0. PICK i, g : i = First(Eligible(o)) /\ g = Requests[o][i]
  OBVIOUS
<1>1. /\ o \in live \cap Batches /\ OperationOk(o) /\ BatchOk(o) /\ OutOnce
      /\ batch \in [Ops -> BatchSet] /\ d \in BatchSet
      /\ scheduled \subseteq live /\ ready \in Seq(Ops) /\ ready # <<>> /\ o = Head(ready)
      /\ d.active < MaxConcurrency[o] /\ Eligible(o) # {}
      /\ UNCHANGED <<worker, channel, cancelled, live, scheduled>>
  BY DEF PolicyInv, ScheduleJob, Scheduling, NetInv, TypeInv, TypeOK, OperationOk
<1>2. i \in d.pending /\ i \in Indices(o) /\ i \notin InFlight(o) /\ i \in Nat
      /\ d.results[i] = NoOutcome
      /\ d.activeByOrigin[g] < OriginLimit[o][g]
  <2>1. Eligible(o) \in SUBSET Nat
    BY <1>1 DEF Eligible, BatchSet
  <2>2. i \in Eligible(o)
    BY <1>0, <1>1, <2>1, NatHasMinimum
  <2> QED  BY <1>0, <1>1, <2>1, <2>2 DEF Eligible, BatchOk
<1>3. g \in Origins /\ Requests[o] \in Seq(Origins)
  BY <1>0, <1>2, RequestsAssumption, LenProperties, ElementOfSeq DEF Indices
<1>4. /\ jobs' = Append(jobs, Job(o, i))
      /\ batch' = [batch EXCEPT ![o] =
                     [d EXCEPT !.pending = d.pending \ {i}, !.active = d.active + 1,
                               !.activeByOrigin[g] = d.activeByOrigin[g] + 1]]
      /\ ready' = Append(Tail(ready), o) \/ ready' = Tail(ready)
  BY <1>0 DEF ScheduleJob
<1>5. Job(o, i) \notin Out
  BY <1>1, <1>2, InFlightIs
<1>6. OutInv' /\ Out' = Out \cup {Job(o, i)}
  BY <1>1, <1>2, <1>4, <1>5, JobIs, PushJob
<1>7. /\ batch'[o].pending = d.pending \ {i} /\ batch'[o].active = d.active + 1
      /\ batch'[o].results = d.results
      /\ batch'[o].activeByOrigin[g] = d.activeByOrigin[g] + 1
      /\ \A f \in Origins \ {g} : batch'[o].activeByOrigin[f] = d.activeByOrigin[f]
      /\ \A p \in Ops \ {o} : batch'[p] = batch[p]
  <2>1. batch'[o] = [d EXCEPT !.pending = d.pending \ {i}, !.active = d.active + 1,
                              !.activeByOrigin[g] = d.activeByOrigin[g] + 1]
    BY <1>1, <1>4
  <2>2. \A p \in Ops \ {o} : batch'[p] = batch[p]
    BY <1>1, <1>4
  <2> HIDE DEF d
  <2> QED  BY <1>1, <1>3, <2>1, <2>2 DEF BatchSet
<1>8. Elements(Tail(ready)) \subseteq Elements(ready')
  <2>0. PICK t : t = Tail(ready)
    OBVIOUS
  <2>1. t \in Seq(Ops)
    BY <1>1, <2>0, PopProperties
  <2>2. Elements(Append(t, o)) = Elements(t) \cup {o}
    BY <2>1, PushProperties
  <2> QED  BY <1>4, <2>0, <2>2
<1>9. Untouched({o}) /\ scheduled' \subseteq live'
  BY <1>1, <1>6, <1>7, <1>8, JobIs, ReadyPop DEF Untouched, PolicyInv, NetInv, TypeInv, TypeOK
<1>10. InFlight(o)' = InFlight(o) \cup {i}
  BY <1>1, <1>2, <1>6, JobIs, InFlightIs, InFlightNext DEF OutInv
<1>11. /\ InFlightTo(o, g)' = InFlightTo(o, g) \cup {i} /\ i \notin InFlightTo(o, g)
       /\ \A f \in Origins \ {g} : InFlightTo(o, f)' = InFlightTo(o, f)
  BY <1>0, <1>2, <1>10 DEF InFlightTo
<1>12. /\ Cardinality(InFlight(o)') = Cardinality(InFlight(o)) + 1
       /\ Cardinality(InFlightTo(o, g)') = Cardinality(InFlightTo(o, g)) + 1
       /\ Cardinality(InFlight(o)) \in Nat /\ Cardinality(InFlightTo(o, g)) \in Nat
  BY <1>1, <1>2, <1>10, <1>11, InFlightIs, FS_AddElement
<1>13. BatchOk(o)'
  <2>1. d.active + 1 <= MaxConcurrency[o] /\ d.activeByOrigin[g] + 1 <= OriginLimit[o][g]
    <3>1. /\ MaxConcurrency[o] \in Nat /\ OriginLimit[o][g] \in Nat
          /\ d.active \in Nat /\ d.activeByOrigin[g] \in Nat
      BY <1>1, <1>3, PolicyAssumption DEF BatchSet
    <3> QED  BY <1>1, <1>2, <3>1
  <2>2. batch'[o].active = Cardinality(InFlight(o))' /\ Cardinality(InFlight(o))' <= MaxConcurrency[o]
    BY <1>1, <1>7, <1>12, <2>1 DEF BatchOk
  <2>3. \A f \in Origins : /\ batch'[o].activeByOrigin[f] = Cardinality(InFlightTo(o, f))'
                           /\ Cardinality(InFlightTo(o, f))' <= OriginLimit[o][f]
    <3> SUFFICES ASSUME NEW f \in Origins
                 PROVE  /\ batch'[o].activeByOrigin[f] = Cardinality(InFlightTo(o, f))'
                        /\ Cardinality(InFlightTo(o, f))' <= OriginLimit[o][f]
      OBVIOUS
    <3>1. /\ d.activeByOrigin[f] = Cardinality(InFlightTo(o, f))
          /\ Cardinality(InFlightTo(o, f)) <= OriginLimit[o][f]
      BY <1>1 DEF BatchOk
    <3>2. CASE f = g
      BY <1>7, <1>12, <2>1, <3>1, <3>2
    <3>3. CASE f # g
      BY <1>7, <1>11, <3>1, <3>3
    <3> QED  BY <3>2, <3>3
  <2>4. /\ batch'[o].pending \cap InFlight(o)' = {}
        /\ {k \in Indices(o) : batch'[o].results[k] = NoOutcome} = batch'[o].pending \cup InFlight(o)'
    BY <1>1, <1>2, <1>7, <1>10 DEF BatchOk
  <2>5. /\ DOMAIN batch'[o].results = Indices(o)
        /\ \A k \in Indices(o) : batch'[o].results[k] # NoOutcome =>
                                     Proper(o, k, batch[o].results[k])'
    BY <1>1, <1>7 DEF BatchOk, Proper
  <2> QED  BY <2>2, <2>3, <2>4, <2>5 DEF BatchOk
<1>14. OperationOk(o)'
  BY <1>1, <1>10, <1>13 DEF OperationOk
<1>15. NetInv' /\ Lifecycle' /\ Onwards
  BY NetStep, LifecycleKeeps, StepsOnwards DEF PolicyInv
<1>16. \A p \in live' \ {o} : OperationOk(p)'
  BY <1>6, <1>9, <1>15, UntouchedKeep DEF OutInv
<1> QED  BY <1>6, <1>9, <1>14, <1>15, <1>16 DEF PolicyInv, OutInv

LEMMA Counted ==
    ASSUME NEW S, Cardinality(S) > 0
    PROVE  S # {}
<1> SUFFICES ASSUME S = {} PROVE FALSE
  OBVIOUS
<1>1. Cardinality(S) = 0
  BY FS_EmptySet
<1> QED  BY <1>1

LEMMA SchedulePolicy ==
    ASSUME PolicyInv, Next, Schedule
    PROVE  PolicyInv'
<1>1. /\ scheduled \subseteq live /\ live \subseteq Ops /\ ready \in Seq(Ops) /\ OutOnce
      /\ \A o \in live : OperationOk(o)
  BY DEF PolicyInv, NetInv, TypeInv, TypeOK
<1>2. ASSUME NEW o \in Ops, ScheduleSkip(o)
      PROVE  PolicyInv'
  <2>1. /\ UNCHANGED <<jobs, worker, channel, live, scheduled, batch>>
        /\ o = Head(ready) /\ ready # <<>> /\ ready' = Tail(ready)
        /\ o \notin live \/ o \in scheduled
    BY <1>2 DEF ScheduleSkip, Scheduling, poolVars
  <2>2. OutInv' /\ Out' = Out
    BY <2>1, CommandPolicy
  <2>3. Untouched({}) /\ scheduled' \subseteq live'
    BY <1>1, <2>1, <2>2, ReadyPop DEF Untouched
  <2> QED  BY <2>2, <2>3, PolicyKeeps
<1>3. ASSUME NEW o \in Ops, ScheduleWait(o)
      PROVE  PolicyInv'
  <2>1. /\ UNCHANGED <<jobs, worker, channel, live, scheduled, batch>>
        /\ o = Head(ready) /\ ready # <<>> /\ ready' = Tail(ready)
        /\ o \in live \cap Batches /\ batch[o].active > 0
    BY <1>3 DEF ScheduleWait, Scheduling, poolVars
  <2>2. OutInv' /\ Out' = Out
    BY <2>1, CommandPolicy
  <2>3. InFlight(o) # {}
    <3>1. batch[o].active = Cardinality(InFlight(o))
      BY <1>1, <2>1 DEF OperationOk, BatchOk
    <3> QED  BY <2>1, <3>1, Counted
  <2>4. Untouched({}) /\ scheduled' \subseteq live'
    BY <1>1, <2>1, <2>2, <2>3, ReadyPop DEF Untouched
  <2> QED  BY <2>2, <2>4, PolicyKeeps
<1>4. ASSUME NEW o \in Ops, ScheduleFinish(o)
      PROVE  PolicyInv'
  <2>1. /\ UNCHANGED <<jobs, worker, channel>> /\ Remove({o})
        /\ o = Head(ready) /\ ready # <<>> /\ ready' = Tail(ready)
    BY <1>4 DEF ScheduleFinish, Scheduling, poolVars
  <2>2. OutInv' /\ Out' = Out
    BY <2>1, CommandPolicy
  <2>3. /\ live' = live \ {o} /\ scheduled' = scheduled \ {o}
        /\ \A p \in Ops \ {o} : batch'[p] = batch[p]
    BY <2>1 DEF Remove
  <2>4. Untouched({}) /\ scheduled' \subseteq live'
    BY <1>1, <2>1, <2>2, <2>3, ReadyPop DEF Untouched
  <2> QED  BY <2>2, <2>4, PolicyKeeps
<1> QED
  BY <1>2, <1>3, <1>4, FetchPolicy, JobPolicy, QuietPolicy DEF Schedule

(* The completion at the head of the channel comes back.                     *)
LEMMA CompletionBack ==
    ASSUME PolicyInv, Next, Complete, NEW e, e = Head(channel)
    PROVE  /\ e.op \in Ops /\ e.index \in Indices(e.op) /\ e.outcome \in Outcomes
           /\ Job(e.op, e.index) \in Out /\ Proper(e.op, e.index, e.outcome)
           /\ OutInv' /\ Out' = Out \ {Job(e.op, e.index)} /\ cancelled' = cancelled
<1>1. /\ NetInv /\ OutOnce /\ OutOwned /\ ProperOutcomes /\ EndedOnce /\ EndedProper
      /\ channel \in Seq(EventSet) /\ channel # <<>> /\ channel' = Tail(channel)
      /\ e.type = "completion" /\ UNCHANGED <<jobs, worker, cancelled>>
  BY DEF PolicyInv, NetInv, TypeInv, TypeOK, Complete, poolVars, OutOnce, ProperOutcomes
<1>0. PICK j : j = Job(e.op, e.index)
  OBVIOUS
<1>2. /\ Ends' = Ends \ {j} /\ j \in Ends /\ EndedOnce' /\ EndedProper'
      /\ Proper(e.op, e.index, e.outcome)
  BY <1>0, <1>1, EndedPop
<1>3. e \in EventSet
  BY <1>1, PopProperties
<1>4. e.op \in Ops /\ e.outcome \in Outcomes
  BY <1>3 DEF EventSet
<1>5. e.index \in Indices(e.op)
  BY <1>0, <1>1, <1>2, JobIs DEF OutOwned, Out
<1>6. Carried' = Carried /\ Carriers' = Carriers /\ CarriedOnce'
  BY <1>1 DEF OutOnce, Carried, Carriers, CarriedOnce
<1>7. Out' = Out \ {j} /\ OutOnce' /\ ProperOutcomes'
  <2>1. j \notin Elements(jobs) \cup Carried
    BY <1>1, <1>2 DEF OutOnce
  <2>2. Out' = Out \ {j}
    BY <1>1, <1>2, <1>6, <2>1 DEF Out
  <2>3. OutOnce'
    BY <1>1, <1>2, <1>6 DEF OutOnce
  <2>4. ProperOutcomes'
    BY <1>1, <1>2 DEF ProperOutcomes, Proper
  <2> QED  BY <2>2, <2>3, <2>4
<1>8. OutOwned'
  BY <1>1, <1>7, StepsOnwards, OwnedKeeps
<1> QED  BY <1>0, <1>1, <1>2, <1>4, <1>5, <1>7, <1>8 DEF OutInv, Out

(* A batch takes the outcome of a request that was out: the slot was empty   *)
(* and the counters stood above zero.                                        *)
LEMMA CompletedIs ==
    ASSUME PolicyInv, NEW o \in live \cap Batches, NEW i \in Indices(o),
           NEW outcome \in Outcomes, Proper(o, i, outcome), Job(o, i) \in Out
    PROVE  /\ Requests[o][i] \in Origins
           /\ i \in InFlight(o) /\ i \in InFlightTo(o, Requests[o][i])
           /\ batch[o].results[i] = NoOutcome /\ i \notin batch[o].pending /\ outcome # NoOutcome
           /\ batch[o].active \in Nat \ {0} /\ batch[o].active = Cardinality(InFlight(o))
           /\ batch[o].activeByOrigin[Requests[o][i]] \in Nat \ {0}
<1>1. /\ BatchOk(o) /\ OutOnce /\ o \in Ops
  BY DEF PolicyInv, OperationOk, NetInv, TypeInv, TypeOK
<1>2. PICK g, d : g = Requests[o][i] /\ d = batch[o]
  OBVIOUS
<1>3. g \in Origins
  BY <1>1, <1>2, RequestsAssumption, LenProperties, ElementOfSeq DEF Indices
<1>4. i \in InFlight(o) /\ i \in InFlightTo(o, g)
  BY <1>1, <1>2, InFlightIs DEF InFlightTo
<1>5. d.results[i] = NoOutcome /\ i \notin d.pending
  BY <1>1, <1>2, <1>4 DEF BatchOk
<1>6. /\ Cardinality(InFlight(o)) \in Nat \ {0} /\ Cardinality(InFlightTo(o, g)) \in Nat \ {0}
  <2>1. /\ IsFiniteSet(InFlight(o)) /\ IsFiniteSet(InFlightTo(o, g))
        /\ Cardinality(InFlight(o)) \in Nat /\ Cardinality(InFlightTo(o, g)) \in Nat
    BY <1>1, InFlightIs
  <2> QED  BY <1>4, <2>1, FS_EmptySet
<1>7. /\ d.active \in Nat \ {0} /\ d.active = Cardinality(InFlight(o))
      /\ d.activeByOrigin[g] \in Nat \ {0}
  BY <1>1, <1>2, <1>3, <1>6 DEF BatchOk
<1>8. outcome # NoOutcome
  BY DEF Proper, NoOutcome, Outcome
<1> QED  BY <1>2, <1>3, <1>4, <1>5, <1>7, <1>8

LEMMA BatchBack ==
    ASSUME PolicyInv, Next, NEW o \in live \cap Batches, NEW i \in Indices(o),
           NEW outcome \in Outcomes, Proper(o, i, outcome), Job(o, i) \in Out,
           OutInv', Out' = Out \ {Job(o, i)}, cancelled' = cancelled,
           batch'[o] = Completed(o, i, outcome)
    PROVE  BatchOk(o)' /\ batch'[o].pending = batch[o].pending
<1>1. /\ BatchOk(o) /\ OutOnce /\ o \in Ops /\ batch[o] \in BatchSet
  BY DEF PolicyInv, OperationOk, NetInv, TypeInv, TypeOK
<1>2. PICK g, d : g = Requests[o][i] /\ d = batch[o]
  OBVIOUS
<1>3. /\ g \in Origins /\ i \in InFlight(o) /\ i \in InFlightTo(o, g)
      /\ d.results[i] = NoOutcome /\ i \notin d.pending /\ outcome # NoOutcome
      /\ d.active \in Nat \ {0} /\ d.activeByOrigin[g] \in Nat \ {0}
      /\ batch'[o] = [d EXCEPT !.results[i] = outcome, !.active = d.active - 1,
                               !.activeByOrigin[g] = d.activeByOrigin[g] - 1]
  <2>1. /\ g \in Origins /\ i \in InFlight(o) /\ i \in InFlightTo(o, g)
        /\ d.results[i] = NoOutcome /\ i \notin d.pending /\ outcome # NoOutcome
        /\ d.active \in Nat \ {0} /\ d.activeByOrigin[g] \in Nat \ {0}
    BY <1>2, CompletedIs
  <2> QED  BY <1>2, <2>1 DEF Completed
<1>4. InFlight(o)' = InFlight(o) \ {i}
  BY <1>1, JobIs, InFlightIs, InFlightNext DEF OutInv
<1>5. /\ InFlightTo(o, g)' = InFlightTo(o, g) \ {i}
      /\ \A f \in Origins \ {g} : InFlightTo(o, f)' = InFlightTo(o, f)
  BY <1>2, <1>4 DEF InFlightTo
<1>6. /\ Cardinality(InFlight(o)') = Cardinality(InFlight(o)) - 1
      /\ Cardinality(InFlightTo(o, g)') = Cardinality(InFlightTo(o, g)) - 1
  <2>1. IsFiniteSet(InFlight(o)) /\ IsFiniteSet(InFlightTo(o, g))
    BY <1>1, InFlightIs
  <2>2. /\ Cardinality(InFlight(o) \ {i}) = Cardinality(InFlight(o)) - 1
        /\ Cardinality(InFlightTo(o, g) \ {i}) = Cardinality(InFlightTo(o, g)) - 1
    BY <1>3, <2>1, FS_RemoveElement
  <2> QED  BY <1>4, <1>5, <2>2
<1>7. /\ batch'[o].pending = d.pending /\ batch'[o].active = d.active - 1
       /\ batch'[o].results = [d.results EXCEPT ![i] = outcome]
       /\ batch'[o].activeByOrigin[g] = d.activeByOrigin[g] - 1
       /\ \A f \in Origins \ {g} : batch'[o].activeByOrigin[f] = d.activeByOrigin[f]
  BY <1>1, <1>2, <1>3 DEF BatchSet
<1>8. /\ DOMAIN batch'[o].results = Indices(o) /\ batch'[o].results[i] = outcome
       /\ \A k \in Indices(o) \ {i} : batch'[o].results[k] = d.results[k]
  BY <1>1, <1>2, <1>7 DEF BatchOk
<1>9. BatchOk(o)'
  <2>1. batch'[o].active = Cardinality(InFlight(o))' /\ Cardinality(InFlight(o))' <= MaxConcurrency[o]
    <3>1. MaxConcurrency[o] \in Nat
      BY <1>1, PolicyAssumption
    <3>2. d.active = Cardinality(InFlight(o)) /\ Cardinality(InFlight(o)) <= MaxConcurrency[o]
      BY <1>1, <1>2 DEF BatchOk
    <3> QED  BY <1>3, <1>6, <1>7, <3>1, <3>2
  <2>2. \A f \in Origins : /\ batch'[o].activeByOrigin[f] = Cardinality(InFlightTo(o, f))'
                           /\ Cardinality(InFlightTo(o, f))' <= OriginLimit[o][f]
    <3> SUFFICES ASSUME NEW f \in Origins
                 PROVE  /\ batch'[o].activeByOrigin[f] = Cardinality(InFlightTo(o, f))'
                        /\ Cardinality(InFlightTo(o, f))' <= OriginLimit[o][f]
      OBVIOUS
    <3>1. /\ d.activeByOrigin[f] = Cardinality(InFlightTo(o, f))
          /\ Cardinality(InFlightTo(o, f)) <= OriginLimit[o][f] /\ OriginLimit[o][f] \in Nat
      BY <1>1, <1>2, PolicyAssumption DEF BatchOk
    <3>2. CASE f = g
      BY <1>3, <1>6, <1>7, <3>1, <3>2
    <3>3. CASE f # g
      BY <1>5, <1>7, <3>1, <3>3
    <3> QED  BY <3>2, <3>3
  <2>3. /\ batch'[o].pending \cap InFlight(o)' = {}
        /\ {k \in Indices(o) : batch'[o].results[k] = NoOutcome} = batch'[o].pending \cup InFlight(o)'
    <3>1. /\ d.pending \cap InFlight(o) = {}
          /\ {k \in Indices(o) : d.results[k] = NoOutcome} = d.pending \cup InFlight(o)
      BY <1>1, <1>2 DEF BatchOk
    <3> QED  BY <1>3, <1>4, <1>7, <1>8, <3>1
  <2>4. \A k \in Indices(o) : batch'[o].results[k] # NoOutcome =>
                                     Proper(o, k, batch[o].results[k])'
    BY <1>1, <1>2, <1>8 DEF BatchOk, Proper
  <2> QED  BY <1>8, <2>1, <2>2, <2>3, <2>4 DEF BatchOk
<1> QED  BY <1>2, <1>7, <1>9

LEMMA CompletePolicy ==
    ASSUME PolicyInv, Next, Complete
    PROVE  PolicyInv'
<1>0. PICK e : e = Head(channel)
  OBVIOUS
<1>00. PICK o, b : o = e.op /\ b = Completed(o, e.index, e.outcome)
  OBVIOUS
<1>1. /\ o \in Ops /\ e.index \in Indices(o) /\ e.outcome \in Outcomes
      /\ Job(o, e.index) \in Out /\ Proper(o, e.index, e.outcome)
      /\ OutInv' /\ Out' = Out \ {Job(o, e.index)} /\ cancelled' = cancelled
  BY <1>0, <1>00, CompletionBack
<1>2. /\ OutOnce /\ scheduled \subseteq live /\ live \subseteq Ops /\ ready \in Seq(Ops)
      /\ batch \in [Ops -> BatchSet]
  BY DEF PolicyInv, NetInv, TypeInv, TypeOK
<1>3. \A p \in Ops \ {o} : \A i \in Indices(p) : Job(p, i) \in Out' <=> Job(p, i) \in Out
  BY <1>1, JobIs
<1>4. CASE o \notin live /\ UNCHANGED <<schedulerVars, response>>
  <2>1. Untouched({}) /\ scheduled' \subseteq live'
    BY <1>2, <1>3, <1>4 DEF Untouched, schedulerVars
  <2> QED  BY <1>1, <2>1, PolicyKeeps
<1>5. CASE Remove({o}) /\ ready' = ready
  <2>1. /\ live' = live \ {o} /\ scheduled' = scheduled \ {o}
        /\ \A p \in Ops \ {o} : batch'[p] = batch[p]
    BY <1>5 DEF Remove
  <2>2. Untouched({}) /\ scheduled' \subseteq live'
    BY <1>2, <1>3, <1>5, <2>1 DEF Untouched
  <2> QED  BY <1>1, <2>2, PolicyKeeps
<1>6. CASE /\ o \in live \cap Batches /\ (b.pending # {} \/ b.active # 0)
           /\ batch' = [batch EXCEPT ![o] = b] /\ ready' = Requeued(o, b)
           /\ UNCHANGED <<live, scheduled>>
  <2>1. batch'[o] = b /\ \A p \in Ops \ {o} : batch'[p] = batch[p]
    BY <1>2, <1>6
  <2>2. BatchOk(o)'
    BY <1>00, <1>1, <1>6, <2>1, BatchBack
  <2>3. \/ b.pending # {} /\ Elements(ready') = Elements(ready) \cup {o}
        \/ b.pending = {} /\ ready' = ready
    <3>1. Elements(Append(ready, o)) = Elements(ready) \cup {o}
      BY <1>1, <1>2, PushProperties
    <3> QED  BY <1>6, <3>1 DEF Requeued
  <2>4. Untouched({o}) /\ scheduled' \subseteq live'
    BY <1>2, <1>3, <1>6, <2>1, <2>3 DEF Untouched
  <2>5. o \notin scheduled
    BY <1>6 DEF PolicyInv, OperationOk
  <2>6. o \in Elements(ready') \ scheduled' \/ InFlight(o)' # {}
    <3>1. CASE b.pending # {}
      BY <1>6, <2>3, <2>5, <3>1
    <3>2. CASE b.active # 0
      <4>1. IsFiniteSet(InFlight(o)') /\ b.active = Cardinality(InFlight(o)')
        <5>1. IsFiniteSet(InFlight(o)) /\ InFlight(o)' \subseteq InFlight(o)
          BY <1>1, <1>2, InFlightIs, InFlightNext DEF OutInv
        <5> QED  BY <2>1, <2>2, <5>1, FS_Subset DEF BatchOk
      <4> QED  BY <3>2, <4>1, FS_EmptySet
    <3> QED  BY <1>6, <3>1, <3>2
  <2>7. OperationOk(o)'
    BY <1>6, <2>2, <2>5, <2>6 DEF OperationOk
  <2>8. NetInv' /\ Lifecycle' /\ Onwards
    BY NetStep, LifecycleKeeps, StepsOnwards DEF PolicyInv
  <2>9. \A p \in live' \ {o} : OperationOk(p)'
    BY <1>1, <2>4, <2>8, UntouchedKeep DEF OutInv
  <2> QED  BY <1>1, <2>4, <2>7, <2>8, <2>9 DEF PolicyInv, OutInv
<1> QED
  <2>1. \/ o \notin live /\ UNCHANGED <<schedulerVars, response>>
        \/ Remove({o}) /\ ready' = ready
        \/ /\ o \in live \cap Batches /\ (b.pending # {} \/ b.active # 0)
           /\ batch' = [batch EXCEPT ![o] = b] /\ ready' = Requeued(o, b)
           /\ UNCHANGED <<live, scheduled>>
    BY <1>0, <1>00 DEF Complete
  <2> QED  BY <1>4, <1>5, <1>6, <2>1

------------------------------------------------------------------------------
(* The invariant is inductive.                                               *)

LEMMA PolicyInit == Init => PolicyInv
<1> SUFFICES ASSUME Init PROVE PolicyInv
  OBVIOUS
<1>1. /\ Elements(jobs) = {} /\ Distinct(jobs) /\ Completions = {} /\ Carriers = {}
      /\ \A w \in Workers : worker[w] = Parked("absent")
  BY EmptySeq DEF Init, Elements, Distinct, Completions, Carriers, Parked
<1>2. Out = {} /\ OutOnce /\ ProperOutcomes
  BY <1>1 DEF Out, Carried, Ends, OutOnce, CarriedOnce, EndedOnce, ProperOutcomes, EndedProper,
              Parked
<1>3. Lifecycle
  BY <1>1 DEF Init, Lifecycle, Parked
<1> QED  BY <1>2, <1>3, NetInit DEF Init, PolicyInv, OutOwned

LEMMA PolicyStep == PolicyInv /\ [Next]_vars => PolicyInv'
<1> SUFFICES ASSUME PolicyInv, [Next]_vars PROVE PolicyInv'
  OBVIOUS
<1>1. CASE Next
  BY <1>1, ClientPolicy, PoolPolicy, SweepPolicy, PromotePolicy, SchedulePolicy, AcceptPolicy,
     CompletePolicy, DisconnectedPolicy, QuietPolicy DEF Next, Dispatch
<1>2. CASE UNCHANGED vars
  <2>1. /\ Ends' = Ends /\ Carried' = Carried /\ Carriers' = Carriers /\ Completions' = Completions
    BY <1>2 DEF vars, Ends, Ended, Completions, Carried, Carriers
  <2>2. OutOnce' /\ Out' = Out
    BY <1>2, <2>1 DEF vars, PolicyInv, OutOnce, CarriedOnce, EndedOnce, Ended, Out
  <2>3. OutOwned' /\ ProperOutcomes'
    BY <1>2, <2>1, <2>2 DEF vars, PolicyInv, OutOwned, ProperOutcomes, EndedProper, Proper,
                            Queued, Waiting
  <2>4. Lifecycle'
    BY <1>2 DEF vars, PolicyInv, Lifecycle, PoolIsLost
  <2>5. NetInv'
    BY <1>2, NetStep DEF PolicyInv
  <2>6. ASSUME NEW o \in live' PROVE OperationOk(o)'
    <3>1. o \in Ops /\ OperationOk(o) /\ OutOnce
      BY <1>2, <2>6 DEF vars, PolicyInv, NetInv, TypeInv, TypeOK
    <3> QED  BY <1>2, <2>2, <3>1, OperationKeeps DEF vars
  <2> QED  BY <1>2, <2>2, <2>3, <2>4, <2>5, <2>6 DEF vars, PolicyInv
<1> QED  BY <1>1, <1>2

LEMMA PolicyAlways == Spec => []PolicyInv
  BY PolicyInit, PolicyStep, PTL DEF Spec

------------------------------------------------------------------------------
(* The theorems.                                                             *)

(* next_job decides by counters: for any batches, limits and capacities they *)
(* are the requests really out, and no more are out than the batch's options *)
(* allow.                                                                    *)
THEOREM BatchesKeepPolicy == Spec => []BatchesInPolicy
<1>1. PolicyInv => BatchesInPolicy
  BY DEF PolicyInv, OperationOk, BatchOk, BatchesInPolicy, BatchAccounting, PolicyRespected
<1> QED  BY <1>1, PolicyAlways, PTL

(* A live operation is about to be scheduled or has a completion coming, and *)
(* the dispatcher stops only when it owes no answer.                         *)
THEOREM EveryOperationAttended == Spec => []NothingUnattended
<1>1. PolicyInv => NothingUnattended
  <2> SUFFICES ASSUME PolicyInv PROVE NothingUnattended
    OBVIOUS
  <2>1. NoLostWakeup
    BY DEF PolicyInv, OperationOk, NoLostWakeup
  <2>2. NeverStopsWithWork
    BY DEF PolicyInv, Lifecycle, NeverStopsWithWork
  <2> QED  BY <2>1, <2>2 DEF NothingUnattended
<1> QED  BY <1>1, PolicyAlways, PTL

(* A permit goes to the operation submitted earliest of those without one.   *)
LEMMA AdmissionStep ==
    ASSUME NetInv, Next, NEW o \in Ops, NEW p \in Ops, Precedes(o, p)
    PROVE  p \notin live'
<1>1. /\ OneOwner /\ Distinct(waiting) /\ CommandsDistinct /\ TypeOK
      /\ waiting \in Seq(Ops) /\ channel \in Seq(EventSet)
  BY DEF NetInv, TypeInv, OwnerInv, TypeOK
<1>2. Waiting(p) \/ Queued(p)
  BY DEF Precedes, Waiting, Elements, CommandsOf, Queued
<1>3. p \notin live
  BY <1>1, <1>2 DEF OneOwner
<1>4. CASE Promote
  <2>1. waiting # <<>> /\ (live' = live \/ live' = live \cup {Head(waiting)})
    BY <1>4 DEF Promote, Admit
  <2>2. p # Head(waiting)
    <3> SUFFICES ASSUME p = Head(waiting) PROVE FALSE
      OBVIOUS
    <3>1. p = waiting[1] /\ 1 \in DOMAIN waiting /\ Waiting(p) /\ \A i \in DOMAIN waiting : i \in Nat \ {0}
      BY <1>1, <2>1, PopProperties, LenProperties DEF Waiting
    <3>2. ~Queued(p)
      BY <1>1, <3>1 DEF OneOwner
    <3>3. PICK i, j \in DOMAIN waiting : i < j /\ waiting[i] = o /\ waiting[j] = p
      BY <3>2 DEF Precedes, CommandsOf, Queued
    <3>4. j = 1
      BY <1>1, <3>1, <3>3 DEF Distinct
    <3> QED  BY <3>1, <3>3, <3>4
  <2> QED  BY <1>3, <2>1, <2>2
<1>5. CASE Accept
  <2>1. /\ channel # <<>> /\ Head(channel).type = "command"
        /\ live' = live \/ (live' = live \cup {Head(channel).op} /\ waiting = <<>>)
    BY <1>5 DEF Accept, Admit, MayAdmit, schedulerVars
  <2>2. CASE waiting = <<>> /\ p = Head(channel).op
    <3>1. /\ Head(channel) = channel[1] /\ 1 \in DOMAIN channel
          /\ \A i \in DOMAIN channel : i \in Nat \ {0}
      BY <1>1, <2>1, PopProperties, LenProperties
    <3>2. ~Waiting(p) /\ ~Waiting(o)
      BY <2>2, EmptySeq DEF Waiting, Elements
    <3>3. PICK i \in CommandsOf(o), j \in CommandsOf(p) : i < j
      BY <2>2, <3>2, EmptySeq DEF Precedes, Elements, Waiting
    <3>4. j = 1 /\ i \in Nat \ {0}
      BY <1>1, <2>1, <2>2, <3>1, <3>3 DEF CommandsDistinct, CommandsOf
    <3> QED  BY <3>3, <3>4
  <2> QED  BY <1>3, <2>1, <2>2
<1>6. CASE \/ Client \/ (\E q \in Ops : Elapse(q)) \/ (\E w \in Workers : Pool(w) \/ Panic(w)) \/ Sweep
           \/ PromoteDone \/ Schedule \/ Complete \/ Tick \/ Disconnected
  <2>1. live' \subseteq live
    BY <1>6 DEF Client, SubmitAccepted, SubmitRejected, Cancel, DropHandle, StartFails,
       StartWorker, Elapse, Pool, Pop, Transfer, SendCompletion, Exit, Panic, Sweep, PromoteDone,
       Schedule, ScheduleSkip, ScheduleFetch, ScheduleJob, ScheduleWait, ScheduleFinish,
       ScheduleDone, Complete, Tick, Disconnected, Remove, schedulerVars
  <2> QED  BY <1>3, <2>1
<1> QED  BY <1>4, <1>5, <1>6 DEF Next, Dispatch

(* A step never gives a permit to an operation past an earlier one that is   *)
(* still in the waiting queue or the channel (promote_waiting, accept).      *)
THEOREM AdmissionIsInOrder == Spec => AdmittedInOrder
<1>1. NetInv /\ [Next]_vars => [\A o, p \in Ops : Precedes(o, p) => p \notin live']_vars
  BY AdmissionStep
<1> QED  BY <1>1, NetAlways, PTL DEF Spec, AdmittedInOrder

------------------------------------------------------------------------------
(* Every step of the worker is a step of NetService, or none.                *)

LEMMA FirstMessage ==
    ASSUME NEW v
    PROVE  Len(Append(<<>>, v)) = 1 /\ Append(<<>>, v)[1] = v
  OBVIOUS

\* An answer whose outcomes all have a reason.
AnswersWell(o, vector) ==
    /\ DOMAIN vector = Indices(o)
    /\ \A i \in Indices(o) : vector[i].of = i /\ Service!Justified(o, i, vector[i].kind)

LEMMA AnswersServe ==
    ASSUME NetInv, NEW answers, Respond(answers), DOMAIN answers \subseteq Ops,
           UNCHANGED <<handle, submitted>>, cancelled \subseteq cancelled',
           cancelled' \ cancelled \subseteq DOMAIN answers \cap Timed,
           \A o \in DOMAIN answers : /\ Queued(o) \/ Waiting(o) \/ o \in live
                                     /\ AnswersWell(o, answers[o])
    PROVE  Service!Next
<1>1. OneOwner /\ \A o \in Ops : DOMAIN Requests[o] = Indices(o)
  BY RequestsAssumption, LenProperties DEF NetInv, OwnerInv, Indices
<1>2. PICK S : S = DOMAIN answers
  OBVIOUS
<1>3. \A o \in S : o \in submitted /\ response[o] = <<>>
  BY <1>1, <1>2 DEF OneOwner, Answered
<1>4. /\ \A o \in Ops \ S : response'[o] = response[o]
      /\ \A o \in S : response'[o] = Append(<<>>, answers[o])
      /\ DOMAIN response' = Ops
  BY <1>2, <1>3 DEF Respond
<1>5. \A o \in S : Len(response'[o]) = 1 /\ response'[o][1] = answers[o]
  BY <1>4, FirstMessage
<1>6. S \in SUBSET Service!Unanswered
  BY <1>3 DEF Service!Unanswered
<1>7. \A o \in S : Service!Answers(o, response'[o][1])
  <2> SUFFICES ASSUME NEW o \in S PROVE Service!Answers(o, response'[o][1])
    OBVIOUS
  <2>1. AnswersWell(o, answers[o]) /\ o \in Ops
    BY <1>2
  <2>2. response'[o][1] = answers[o]
    BY <1>5
  <2> QED  BY <1>1, <2>1, <2>2 DEF AnswersWell, Service!Answers
<1>8. Service!Answer
  BY <1>2, <1>4, <1>5, <1>6, <1>7 DEF Service!Answer
<1> QED  BY <1>8 DEF Service!Next

LEMMA ReplyServes ==
    ASSUME NetInv, NEW o \in Ops, NEW answer, Reply(o, answer), AnswersWell(o, answer),
           UNCHANGED <<handle, submitted, cancelled>>, Queued(o) \/ Waiting(o) \/ o \in live
    PROVE  Service!Next
<1>0. PICK answers : answers = [p \in {o} |-> answer]
  OBVIOUS
<1>1. DOMAIN answers = {o} /\ answers[o] = answer
  BY <1>0
<1>2. Respond(answers)
  BY <1>0 DEF Reply
<1> QED  BY <1>1, <1>2, AnswersServe

LEMMA FillWell ==
    ASSUME NEW o \in Ops, NEW kind,
           \/ kind = "queueFull"
           \/ kind = "cancelled" /\ o \in cancelled
           \/ kind = "zeroConcurrency" /\ o \in Batches /\ MaxConcurrency[o] = 0
           \/ kind = "stopped" /\ handle = "dropped"
    PROVE  AnswersWell(o, Fill(o, kind))
  BY DEF AnswersWell, Fill, Outcome, Service!Justified

\* The answer of a batch whose slots are all filled, or filled now.
LEMMA ResultsWell ==
    ASSUME PolicyInv, NEW o \in live \cap Batches, NEW results, NEW kind,
           DOMAIN results = Indices(o),
           \A i \in Indices(o) :
               \/ results[i] = NoOutcome /\ Service!Justified(o, i, kind)
               \/ results[i] # NoOutcome /\ results[i].of = i
                  /\ Service!Justified(o, i, results[i].kind)
    PROVE  AnswersWell(o, FillMissing(results, kind))
  BY DEF AnswersWell, FillMissing, Outcome

LEMMA SweepServes ==
    ASSUME PolicyInv, Sweep
    PROVE  Service!Next
<1> DEFINE late == ExpiredBatches
           swept == CancelledOperations \cup late \cup CancelledCommands
<1>0. PICK answers : answers = [o \in swept |->
                                  IF o \in late THEN FillMissing(batch[o].results, "timeout")
                                  ELSE Fill(o, "cancelled")]
  OBVIOUS
<1>1. /\ Respond(answers) /\ cancelled' = cancelled \cup late /\ UNCHANGED <<handle, submitted>>
  BY <1>0 DEF Sweep, clientVars
<1>2. /\ NetInv /\ live \subseteq Ops /\ overdue \subseteq Timed /\ waiting \in Seq(Ops)
  BY DEF PolicyInv, NetInv, TypeInv, TypeOK
<1>3. /\ late \subseteq live /\ late \subseteq Timed /\ late \subseteq swept
      /\ swept \subseteq Ops
      /\ \A o \in swept : Waiting(o) \/ o \in live
      /\ \A o \in swept \ late : o \in cancelled
  <2>1. Elements(waiting) \subseteq Ops
    BY <1>2, ElementOfSeq, LenProperties DEF Elements
  <2> QED  BY <1>2, <2>1 DEF ExpiredBatches, CancelledOperations, CancelledCommands, Waiting
<1> HIDE DEF late, swept
<1>4. ASSUME NEW o \in swept
      PROVE  AnswersWell(o, answers[o])
  <2>1. CASE o \in late
    <3>1. o \in live \cap Batches /\ o \in Timed /\ BatchOk(o)
      BY <1>3, <2>1, OpsAssumption DEF PolicyInv, OperationOk
    <3>2. PICK results : results = batch[o].results
      OBVIOUS
    <3>3. DOMAIN results = Indices(o)
      BY <3>1, <3>2 DEF BatchOk
    <3>4. ASSUME NEW i \in Indices(o)
          PROVE  \/ results[i] = NoOutcome /\ Service!Justified(o, i, "timeout")
                 \/ results[i] # NoOutcome /\ results[i].of = i
                    /\ Service!Justified(o, i, results[i].kind)
      BY <3>1, <3>2 DEF BatchOk, Proper, Service!Justified
    <3>5. AnswersWell(o, FillMissing(results, "timeout"))
      BY <3>1, <3>3, <3>4, ResultsWell
    <3> QED  BY <1>0, <2>1, <3>2, <3>5
  <2>2. CASE o \notin late
    <3>1. o \in Ops /\ o \in cancelled
      BY <1>3, <2>2
    <3> QED  BY <1>0, <2>2, <3>1, FillWell
  <2> QED  BY <2>1, <2>2
<1>5. DOMAIN answers = swept
  BY <1>0
<1> QED  BY <1>1, <1>2, <1>3, <1>4, <1>5, AnswersServe

LEMMA AdmitServes ==
    ASSUME PolicyInv, NEW o \in Ops, Queued(o) \/ Waiting(o), Admit(o),
           UNCHANGED <<handle, submitted, cancelled>>
    PROVE  Service!Next \/ UNCHANGED Service!serviceVars
<1>1. NetInv
  BY DEF PolicyInv
<1>2. CASE o \in cancelled /\ Reply(o, Fill(o, "cancelled"))
  <2>1. AnswersWell(o, Fill(o, "cancelled"))
    BY <1>2, FillWell
  <2> QED  BY <1>1, <1>2, <2>1, ReplyServes
<1>3. CASE Requests[o] = <<>> /\ Reply(o, <<>>)
  <2>1. AnswersWell(o, <<>>)
    BY <1>3 DEF AnswersWell, Indices
  <2> QED  BY <1>1, <1>3, <2>1, ReplyServes
<1>4. CASE response' = response
  BY <1>4 DEF Service!serviceVars
<1> QED  BY <1>2, <1>3, <1>4 DEF Admit

LEMMA AcceptServes ==
    ASSUME PolicyInv, Accept
    PROVE  Service!Next \/ UNCHANGED Service!serviceVars
<1>0. PICK o : o = Head(channel).op
  OBVIOUS
<1>1. /\ NetInv /\ o \in Ops /\ Queued(o) /\ UNCHANGED <<handle, submitted, cancelled>>
  BY <1>0, ReceivedEvent DEF PolicyInv, NetInv, TypeInv, Accept, clientVars
<1>2. CASE Reply(o, Fill(o, "queueFull"))
  <2>1. AnswersWell(o, Fill(o, "queueFull"))
    BY <1>1, FillWell
  <2> QED  BY <1>1, <1>2, <2>1, ReplyServes
<1>3. CASE Admit(o)
  BY <1>1, <1>3, AdmitServes
<1>4. CASE response' = response
  BY <1>1, <1>4 DEF Service!serviceVars
<1> QED  BY <1>0, <1>2, <1>3, <1>4 DEF Accept

(* A batch that may not run now or later: the slots left empty are the ones  *)
(* of paused origins.                                                        *)
LEMMA FinishServes ==
    ASSUME PolicyInv, NEW o \in Ops, ScheduleFinish(o)
    PROVE  Service!Next
<1>1. /\ NetInv /\ OutOnce /\ o \in live \cap Batches /\ BatchOk(o)
      /\ UNCHANGED <<handle, submitted, cancelled>>
  BY DEF PolicyInv, OperationOk, ScheduleFinish, clientVars
<1>2. CASE MaxConcurrency[o] = 0
  <2>1. AnswersWell(o, Fill(o, "zeroConcurrency"))
    BY <1>1, <1>2, FillWell
  <2>2. Reply(o, Fill(o, "zeroConcurrency"))
    BY <1>2 DEF ScheduleFinish
  <2> QED  BY <1>1, <2>1, <2>2, ReplyServes
<1>3. CASE MaxConcurrency[o] # 0
  <2>0. PICK results, paused : /\ results = batch[o].results
                               /\ paused = [i \in DOMAIN results |->
                                              IF i \in batch[o].pending
                                              THEN Outcome("paused", i) ELSE results[i]]
    OBVIOUS
  <2>1. Reply(o, FillMissing(paused, "missing")) /\ Exhausted(o)
    BY <1>3, <2>0 DEF ScheduleFinish
  <2>2. InFlight(o) = {} /\ \A g \in Origins : batch[o].activeByOrigin[g] = 0
    <3>1. IsFiniteSet(InFlight(o)) /\ Cardinality(InFlight(o)) = 0
      BY <1>1, <2>1, InFlightIs DEF Exhausted, BatchOk
    <3>2. InFlight(o) = {} /\ \A g : InFlightTo(o, g) = {}
      BY <3>1, FS_EmptySet DEF InFlightTo
    <3> QED  BY <1>1, <3>2, FS_EmptySet DEF BatchOk
  <2>3. ASSUME NEW i \in Indices(o), i \in batch[o].pending
        PROVE  OriginLimit[o][Requests[o][i]] = 0
    <3>1. PICK g : g = Requests[o][i]
      OBVIOUS
    <3>2. g \in Origins
      BY <3>1, RequestsAssumption, LenProperties, ElementOfSeq DEF Indices
    <3>3. OriginLimit[o][g] \in Nat /\ batch[o].activeByOrigin[g] = 0
      BY <2>2, <3>2, PolicyAssumption
    <3>4. ~(batch[o].activeByOrigin[g] < OriginLimit[o][g])
      BY <2>1, <2>3, <3>1 DEF Exhausted, Eligible
    <3> QED  BY <3>1, <3>3, <3>4
  <2>4. DOMAIN results = Indices(o) /\ DOMAIN paused = Indices(o)
    BY <1>1, <2>0 DEF BatchOk
  <2>5. ASSUME NEW i \in Indices(o)
        PROVE  \/ paused[i] = NoOutcome /\ Service!Justified(o, i, "missing")
               \/ paused[i] # NoOutcome /\ paused[i].of = i
                  /\ Service!Justified(o, i, paused[i].kind)
    <3>1. CASE i \in batch[o].pending
      <4>1. paused[i] = Outcome("paused", i)
        BY <2>0, <2>4, <3>1
      <4> QED  BY <1>1, <2>3, <3>1, <4>1 DEF Outcome, NoOutcome, Service!Justified
    <3>2. CASE i \notin batch[o].pending
      <4>1. paused[i] = results[i] /\ results[i] # NoOutcome
        BY <1>1, <2>0, <2>2, <2>4, <3>2 DEF BatchOk
      <4>2. Proper(o, i, results[i])
        BY <1>1, <2>0, <4>1 DEF BatchOk
      <4> QED  BY <4>1, <4>2 DEF Proper, Service!Justified
    <3> QED  BY <3>1, <3>2
  <2>6. AnswersWell(o, FillMissing(paused, "missing"))
    BY <1>1, <2>4, <2>5, ResultsWell
  <2> QED  BY <1>1, <2>1, <2>6, ReplyServes
<1> QED  BY <1>2, <1>3

(* A batch whose last request came back has no empty slot.                   *)
LEMMA LastServes ==
    ASSUME PolicyInv, NEW o \in live \cap Batches, NEW i \in Indices(o),
           NEW outcome \in Outcomes, Proper(o, i, outcome), Job(o, i) \in Out,
           NEW b, b = Completed(o, i, outcome), b.pending = {}, b.active = 0
    PROVE  AnswersWell(o, FillMissing(b.results, "missing"))
<1>1. BatchOk(o) /\ OutOnce /\ o \in Ops /\ batch[o] \in BatchSet
  BY DEF PolicyInv, OperationOk, NetInv, TypeInv, TypeOK
<1>2. PICK g, d : g = Requests[o][i] /\ d = batch[o]
  OBVIOUS
<1>3. /\ i \in InFlight(o) /\ d.results[i] = NoOutcome /\ outcome # NoOutcome
      /\ d.active \in Nat \ {0} /\ d.active = Cardinality(InFlight(o))
      /\ d.activeByOrigin[g] \in Nat \ {0}
  BY <1>2, CompletedIs
<1>4. b = [d EXCEPT !.results[i] = outcome, !.active = d.active - 1,
                    !.activeByOrigin[g] = d.activeByOrigin[g] - 1]
  BY <1>2, <1>3 DEF Completed
<1>5. /\ b.pending = d.pending /\ b.active = d.active - 1
      /\ b.results = [d.results EXCEPT ![i] = outcome]
  BY <1>1, <1>2, <1>4 DEF BatchSet
<1>6. InFlight(o) = {i}
  <2>1. IsFiniteSet(InFlight(o)) /\ Cardinality(InFlight(o)) = 1
    BY <1>1, <1>3, <1>5, InFlightIs
  <2>2. /\ IsFiniteSet(InFlight(o) \ {i})
        /\ Cardinality(InFlight(o) \ {i}) = Cardinality(InFlight(o)) - 1
    BY <1>3, <2>1, FS_RemoveElement
  <2>3. InFlight(o) \ {i} = {}
    BY <2>1, <2>2, FS_EmptySet
  <2> QED  BY <1>3, <2>3
<1>7. \A k \in Indices(o) \ {i} : d.results[k] # NoOutcome
  BY <1>1, <1>2, <1>5, <1>6 DEF BatchOk
<1>8. PICK results : results = b.results
  OBVIOUS
<1>9. /\ DOMAIN results = Indices(o) /\ results[i] = outcome
      /\ \A k \in Indices(o) \ {i} : results[k] = d.results[k]
  BY <1>1, <1>2, <1>5, <1>8 DEF BatchOk
<1>10. ASSUME NEW k \in Indices(o)
       PROVE  results[k] # NoOutcome /\ results[k].of = k
              /\ Service!Justified(o, k, results[k].kind)
  <2>1. results[k] # NoOutcome /\ Proper(o, k, results[k])
    BY <1>1, <1>2, <1>3, <1>7, <1>9 DEF BatchOk
  <2> QED  BY <2>1 DEF Proper, Service!Justified
<1> QED  BY <1>8, <1>9, <1>10, ResultsWell

LEMMA CompleteServes ==
    ASSUME PolicyInv, Next, Complete
    PROVE  Service!Next \/ UNCHANGED Service!serviceVars
<1>0. PICK e : e = Head(channel)
  OBVIOUS
<1>1. PICK o, b : o = e.op /\ b = Completed(o, e.index, e.outcome)
  OBVIOUS
<1>2. /\ o \in Ops /\ e.index \in Indices(o) /\ e.outcome \in Outcomes
      /\ Job(o, e.index) \in Out /\ Proper(o, e.index, e.outcome)
  BY <1>0, <1>1, CompletionBack
<1>3. NetInv /\ UNCHANGED <<handle, submitted, cancelled>>
  BY DEF PolicyInv, Complete, clientVars
<1>4. CASE response' = response
  BY <1>3, <1>4 DEF Service!serviceVars
<1>5. CASE o \in live \ Batches /\ Reply(o, <<e.outcome>>)
  <2>1. PICK vector : vector = <<e.outcome>>
    OBVIOUS
  <2>2. Indices(o) = {1} /\ e.index = 1
    <3>1. o \in Ops \ Batches
      BY <1>2, <1>5
    <3>2. Len(Requests[o]) = 1
      BY <3>1, RequestsAssumption
    <3> QED  BY <1>2, <3>2 DEF Indices
  <2>3. DOMAIN vector = {1} /\ vector[1] = e.outcome
    BY <2>1
  <2>4. AnswersWell(o, vector)
    BY <1>2, <2>2, <2>3 DEF AnswersWell, Proper, Service!Justified
  <2> QED  BY <1>2, <1>3, <1>5, <2>1, <2>4, ReplyServes
<1>6. CASE /\ o \in live \cap Batches /\ b.pending = {} /\ b.active = 0
           /\ Reply(o, FillMissing(b.results, "missing"))
  <2>1. AnswersWell(o, FillMissing(b.results, "missing"))
    BY <1>1, <1>2, <1>6, LastServes
  <2> QED  BY <1>2, <1>3, <1>6, <2>1, ReplyServes
<1> QED  BY <1>0, <1>1, <1>4, <1>5, <1>6 DEF Complete

LEMMA SubmitServes ==
    ASSUME NetInv, NEW o \in Ops, SubmitRejected(o)
    PROVE  Service!Reject(o)
<1>1. /\ o \notin submitted /\ submitted' = submitted \cup {o} /\ cancelled' = cancelled
      /\ handle = "open" /\ handle' = handle /\ response[o] = <<>> /\ DOMAIN response = Ops
  BY DEF SubmitRejected, NetInv, TypeInv, TypeOK, OwnerInv, OneOwner, Answered
<1>2. Fill(o, "queueFull") = Service!Rejection(o)
  BY RequestsAssumption, LenProperties DEF Fill, Outcome, Indices, Service!Rejection
<1>3. PICK v : v = Service!Rejection(o)
  OBVIOUS
<1>4. response' = [response EXCEPT ![o] = <<v>>]
  <2>1. PICK answers : answers = [p \in {o} |-> v]
    OBVIOUS
  <2>2. response' = [p \in Ops |-> IF p \in DOMAIN answers THEN Append(response[p], answers[p])
                                   ELSE response[p]]
    BY <1>2, <1>3, <2>1 DEF SubmitRejected, Reply, Respond
  <2>3. DOMAIN answers = {o} /\ answers[o] = v
    BY <2>1
  <2>4. Append(response[o], v) = <<v>>
    BY <1>1
  <2> QED  BY <1>1, <2>2, <2>3, <2>4
<1> QED  BY <1>1, <1>3, <1>4 DEF Service!Reject

(* What the dispatcher still has when it stops is told so: the last handle is *)
(* gone and no thread is left to bring its completion.                       *)
LEMMA DisconnectedServes ==
    ASSUME PolicyInv, Disconnected
    PROVE  Service!Next
<1>0. PICK S : S = live \cup Elements(waiting)
  OBVIOUS
<1>1. /\ NetInv /\ OutOwned /\ Lifecycle /\ UNCHANGED <<handle, submitted, cancelled>>
      /\ live \subseteq Ops /\ waiting \in Seq(Ops)
  BY DEF PolicyInv, NetInv, TypeInv, TypeOK, Disconnected, clientVars
<1>2. S \subseteq Ops /\ \A o \in S : Waiting(o) \/ o \in live
  BY <1>0, <1>1, ElementOfSeq, LenProperties DEF Elements, Waiting
<1>3. S = {} \/ handle = "dropped"
  <2>1. CASE submitted = {}
    <3>1. live = {} /\ waiting = <<>>
      BY <1>1, <2>1, NothingSubmitted
    <3> QED  BY <1>0, <3>1, EmptySeq DEF Elements
  <2>2. CASE PoolIsLost
    BY <2>2 DEF PoolIsLost
  <2> QED  BY <1>1, <2>1, <2>2, SendersGone DEF Disconnected
<1>4. PICK answers : answers = [o \in S |-> Fill(o, "stopped")]
  OBVIOUS
<1>5. DOMAIN answers = S /\ \A o \in S : answers[o] = Fill(o, "stopped")
  BY <1>4
<1>6. \A o \in S : AnswersWell(o, answers[o])
  BY <1>2, <1>3, <1>5, FillWell
<1>7. Respond(answers)
  BY <1>0, <1>4 DEF Disconnected
<1> QED  BY <1>1, <1>2, <1>5, <1>6, <1>7, AnswersServe

LEMMA ServiceStep == PolicyInv /\ [Next]_vars => [Service!Next]_(Service!serviceVars)
<1> SUFFICES ASSUME PolicyInv, [Next]_vars
             PROVE  Service!Next \/ UNCHANGED Service!serviceVars
  OBVIOUS
<1>1. NetInv
  BY DEF PolicyInv
<1>2. ASSUME UNCHANGED <<handle, submitted, cancelled, response>>
      PROVE  UNCHANGED Service!serviceVars
  BY <1>2 DEF Service!serviceVars
<1>3. CASE UNCHANGED vars
  BY <1>2, <1>3 DEF vars
<1>4. ASSUME NEW o \in Ops, SubmitAccepted(o) \/ Cancel(o)
      PROVE  Service!Next
  BY <1>4 DEF SubmitAccepted, Cancel, clientVars, Service!Next, Service!Accept, Service!Cancel
<1>5. ASSUME NEW o \in Ops, SubmitRejected(o)
      PROVE  Service!Next
  BY <1>1, <1>5, SubmitServes DEF Service!Next
<1>6. CASE \/ (\E w \in Workers : Pool(w) \/ Panic(w)) \/ (\E o \in Ops : Elapse(o))
           \/ PromoteDone \/ ScheduleDone \/ Tick
           \/ (\E o \in Ops : ScheduleSkip(o) \/ ScheduleFetch(o) \/ ScheduleJob(o) \/ ScheduleWait(o))
  <2>1. UNCHANGED <<handle, submitted, cancelled, response>>
    BY <1>6 DEF Pool, Pop, Transfer, SendCompletion, Exit, Panic, Elapse,
       PromoteDone, ScheduleDone, Tick, ScheduleSkip, ScheduleFetch, ScheduleJob,
       ScheduleWait, clientVars
  <2> QED  BY <1>2, <2>1
<1>7. CASE Promote
  <2>1. Head(waiting) \in Ops /\ Waiting(Head(waiting))
    BY <1>1, <1>7, PopProperties DEF NetInv, TypeInv, TypeOK, Promote, Waiting
  <2> QED  BY <1>7, <2>1, AdmitServes DEF Promote, clientVars
<1>8. CASE StartFails \/ \E w \in Workers : StartWorker(w)
  <2>1. handle # "dropped" /\ handle' # "dropped" /\ UNCHANGED <<submitted, cancelled, response>>
    BY <1>8 DEF StartFails, StartWorker
  <2> QED  BY <2>1 DEF Service!serviceVars
<1>9. CASE DropHandle
  <2>1. handle' = "dropped" /\ UNCHANGED <<submitted, cancelled, response>>
    BY <1>9 DEF DropHandle
  <2> QED  BY <2>1 DEF Service!Next, Service!Close
<1>10. ASSUME Next, Complete
      PROVE  Service!Next \/ UNCHANGED Service!serviceVars
  BY <1>10, CompleteServes
<1> QED
  BY <1>3, <1>4, <1>5, <1>6, <1>7, <1>8, <1>9, <1>10, SweepServes, AcceptServes, FinishServes,
     DisconnectedServes DEF Next, Client, Dispatch, Schedule

(* The worker with its queues, permits and threads does nothing the service  *)
(* does not promise: a submission is answered once, in request order, and no *)
(* outcome comes without its reason.                                         *)
THEOREM WorkerServes == Spec => ImplementsService
<1>1. Init => Service!Init
  BY DEF Init, Service!Init
<1> QED  BY <1>1, PolicyAlways, ServiceStep, PTL DEF Spec, ImplementsService, Service!Spec
==============================================================================
