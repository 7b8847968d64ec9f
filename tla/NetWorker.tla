------------------------------ MODULE NetWorker ------------------------------
(***************************************************************************)
(* The network worker of render-net (crates/render-net/src/worker.rs): a    *)
(* bounded command channel, one dispatcher thread that owns every accepted  *)
(* operation, and a pool of transfer threads fed through a bounded job      *)
(* queue.  Clients submit single fetches or ordered batches and hold a      *)
(* response channel and a cancellation token.                               *)
(*                                                                          *)
(* Every step below is one that another thread can observe: a channel send  *)
(* or receive, a job-queue push or pop, or one iteration of the dispatcher  *)
(* loops that read a cancellation token.  What a transfer returns is the    *)
(* business of the transport; here it is an "answer" (a response or a       *)
(* transport error) or "cancelled".                                         *)
(***************************************************************************)
EXTENDS Naturals, Sequences, FiniteSets, Deque

CONSTANTS
    Ops,               \* submissions; each is made at most once
    Batches,           \* the ones made with submit_batch
    Origins,           \* scheme/host/port triples
    Requests,          \* [Ops -> Seq(Origins)]: the origin of each request
    MaxConcurrency,    \* [Ops -> Nat]: BatchOptions::max_concurrency
    OriginLimit,       \* [Ops -> [Origins -> Nat]]: BatchOptions::origin_policy
    Timed,             \* the batches with a non-zero BatchOptions::timeout
    Workers,           \* the transfer threads
    QueueCapacity,     \* capacity of the channel, of waiting and of jobs
    OperationCapacity  \* in-flight permits

ASSUME OpsAssumption == /\ IsFiniteSet(Ops)
                        /\ Batches \subseteq Ops
                        /\ Timed \subseteq Batches
ASSUME RequestsAssumption == /\ Requests \in [Ops -> Seq(Origins)]
                             /\ \A o \in Ops \ Batches : Len(Requests[o]) = 1
ASSUME PolicyAssumption == /\ MaxConcurrency \in [Ops -> Nat]
                           /\ OriginLimit \in [Ops -> [Origins -> Nat]]
ASSUME CapacityAssumption == /\ QueueCapacity \in Nat \ {0}
                             /\ OperationCapacity \in Nat \ {0}
                             /\ IsFiniteSet(Workers)
                             /\ Workers # {}

VARIABLES
    handle,      \* the NetworkWorker value: being built, usable, or gone
    submitted,   \* operations whose submit call has been made
    cancelled,   \* cancellation tokens that are set
    overdue,     \* batches whose whole-batch budget has run out
    channel,     \* the bounded event channel into the dispatcher
    dispatcher,  \* where the dispatcher loop is
    waiting,     \* Scheduler::waiting: accepted, no permit yet
    live,        \* keys of Scheduler::operations: each holds a permit
    ready,       \* Scheduler::ready: ids to schedule, duplicates possible
    scheduled,   \* FetchOperation::scheduled
    batch,       \* BatchOperation: pending, results, active, activeByOrigin
    permits,     \* Runtime::operations
    jobs,        \* JobQueue::state.jobs
    jobsClosed,  \* JobQueue::state.closed
    worker,      \* where each transfer thread is, and with which job
    response     \* everything ever sent on each operation's response channel

clientVars == <<handle, submitted>>
schedulerVars == <<waiting, live, ready, scheduled, batch, permits>>
poolVars == <<jobs, jobsClosed, worker>>
vars == <<handle, submitted, cancelled, overdue, channel, dispatcher, waiting,
          live, ready, scheduled, batch, permits, jobs, jobsClosed, worker,
          response>>

------------------------------------------------------------------------------
Indices(o) == 1..Len(Requests[o])

\* Outcomes carry the index of the request they were produced for.
OutcomeKinds == {"answer", "cancelled", "queueFull", "timeout", "paused",
                 "zeroConcurrency", "missing", "stopped", "none"}
Outcome(kind, i) == [kind |-> kind, of |-> i]
NoOutcome == Outcome("none", 0)
Fill(o, kind) == [i \in Indices(o) |-> Outcome(kind, i)]

Command(o) == [type |-> "command", op |-> o, index |-> 0, outcome |-> NoOutcome]
Completion(job, outcome) == [type |-> "completion", op |-> job.op,
                             index |-> job.index, outcome |-> outcome]
Job(o, i) == [op |-> o, index |-> i]
NoJob == [op |-> "none", index |-> 0]
Parked(pc) == [pc |-> pc, job |-> NoJob, outcome |-> NoOutcome]

\* BatchOperation::new, and the value once the operation is dropped.
NewBatch(o) == [pending |-> Indices(o),
                results |-> [i \in Indices(o) |-> NoOutcome],
                active |-> 0,
                activeByOrigin |-> [g \in Origins |-> 0]]
DroppedBatch == [pending |-> {}, results |-> <<>>, active |-> 0,
                 activeByOrigin |-> [g \in Origins |-> 0]]

(* Operators whose names end in Defect are slips a change to the code could  *)
(* make.  Each precedes the definition it would replace; PROJECT.json pairs  *)
(* it with the property that rules it out.                                   *)

FillMissingDefect(results, kind) == results

\* A result vector with every empty slot filled.
FillMissing(results, kind) ==
    [i \in DOMAIN results |-> IF results[i] = NoOutcome THEN Outcome(kind, i)
                              ELSE results[i]]

\* Send answers[o] on the response channel of every o in its domain.
Respond(answers) ==
    response' = [o \in Ops |-> IF o \in DOMAIN answers
                               THEN Append(response[o], answers[o])
                               ELSE response[o]]
Reply(o, answer) == Respond([p \in {o} |-> answer])

RemoveLeakDefect(S) ==
    /\ live' = live \ S
    /\ scheduled' = scheduled \ S
    /\ permits' = permits
    /\ batch' = [o \in Ops |-> IF o \in S THEN DroppedBatch ELSE batch[o]]
RemoveEntryDefect(S) == UNCHANGED <<live, scheduled, permits, batch>>

\* Remove the operations of S from the map: their permits are released.
Remove(S) == /\ live' = live \ S
             /\ scheduled' = scheduled \ S
             /\ permits' = permits - Cardinality(S \cap live)
             /\ batch' = [o \in Ops |-> IF o \in S THEN DroppedBatch ELSE batch[o]]

HasCapacityDefect == ~jobsClosed
HasCapacity == ~jobsClosed /\ Len(jobs) < QueueCapacity

------------------------------------------------------------------------------
Init == /\ handle = "starting"
        /\ submitted = {} /\ cancelled = {} /\ overdue = {}
        /\ channel = <<>>
        /\ dispatcher = "sweep"
        /\ waiting = <<>> /\ live = {} /\ ready = <<>> /\ scheduled = {}
        /\ batch = [o \in Ops |-> DroppedBatch]
        /\ permits = 0
        /\ jobs = <<>> /\ jobsClosed = FALSE
        /\ worker = [w \in Workers |-> Parked("absent")]
        /\ response = [o \in Ops |-> <<>>]

------------------------------------------------------------------------------
(* start_with_config: the dispatcher runs while the pool is being spawned.  *)

StartWorker(w) ==
    /\ handle = "starting" /\ worker[w].pc = "absent"
    /\ worker' = [worker EXCEPT ![w] = Parked("idle")]
    /\ handle' = IF \A v \in Workers \ {w} : worker[v].pc # "absent"
                 THEN "open" ELSE "starting"
    /\ UNCHANGED <<submitted, cancelled, overdue, channel, dispatcher,
                   schedulerVars, jobs, jobsClosed, response>>

\* A thread cannot be spawned: the job queue is closed and the only sender of
\* the constructor is dropped.
StartFails ==
    /\ handle = "starting"
    /\ handle' = "failed"
    /\ jobsClosed' = TRUE /\ jobs' = <<>>
    /\ UNCHANGED <<submitted, cancelled, overdue, channel, dispatcher,
                   schedulerVars, worker, response>>

------------------------------------------------------------------------------
(* Clients.                                                                  *)

\* try_send found room.
SubmitAccepted(o) ==
    /\ handle = "open" /\ o \notin submitted
    /\ Len(channel) < QueueCapacity
    /\ submitted' = submitted \cup {o}
    /\ channel' = Append(channel, Command(o))
    /\ UNCHANGED <<handle, cancelled, overdue, dispatcher, schedulerVars,
                   poolVars, response>>

\* try_send found the channel full: the command is rejected to the caller.
SubmitRejected(o) ==
    /\ handle = "open" /\ o \notin submitted
    /\ Len(channel) >= QueueCapacity
    /\ submitted' = submitted \cup {o}
    /\ Reply(o, Fill(o, "queueFull"))
    /\ UNCHANGED <<handle, cancelled, overdue, channel, dispatcher,
                   schedulerVars, poolVars>>

\* RequestHandle::cancel; submit_with_cancellation also takes the token of a
\* request that was cancelled before it was submitted.
Cancel(o) ==
    /\ o \notin cancelled
    /\ o \in submitted \/ o \notin Batches
    /\ cancelled' = cancelled \cup {o}
    /\ UNCHANGED <<clientVars, overdue, channel, dispatcher, schedulerVars,
                   poolVars, response>>

\* The last NetworkWorker clone is dropped; response handles stay usable.
DropHandle ==
    /\ handle = "open"
    /\ handle' = "dropped"
    /\ UNCHANGED <<submitted, cancelled, overdue, channel, dispatcher,
                   schedulerVars, poolVars, response>>

\* Time: the budget of a batch that was admitted runs out.
Elapse(o) ==
    /\ o \in live \cap Timed /\ o \notin overdue
    /\ overdue' = overdue \cup {o}
    /\ UNCHANGED <<clientVars, cancelled, channel, dispatcher, schedulerVars,
                   poolVars, response>>

------------------------------------------------------------------------------
(* Transfer threads.                                                         *)

\* JobQueue::pop hands over a job; a job whose token is already set is
\* answered without calling the transport.
Pop(w) ==
    /\ worker[w].pc = "idle" /\ jobs # <<>>
    /\ jobs' = Tail(jobs)
    /\ LET job == Head(jobs)
       IN  worker' = [worker EXCEPT ![w] =
               IF job.op \in cancelled
               THEN [pc |-> "send", job |-> job,
                     outcome |-> Outcome("cancelled", job.index)]
               ELSE [pc |-> "transfer", job |-> job, outcome |-> NoOutcome]]
    /\ UNCHANGED <<clientVars, cancelled, overdue, channel, dispatcher,
                   schedulerVars, jobsClosed, response>>

\* HttpTransport::fetch returns: an answer, or the cancellation it polled.
Transfer(w) ==
    /\ worker[w].pc = "transfer"
    /\ \E kind \in {"answer", "cancelled"} :
          /\ kind = "cancelled" => worker[w].job.op \in cancelled
          /\ worker' = [worker EXCEPT ![w].pc = "send",
                            ![w].outcome = Outcome(kind, worker[w].job.index)]
    /\ UNCHANGED <<clientVars, cancelled, overdue, channel, dispatcher,
                   schedulerVars, jobs, jobsClosed, response>>

\* The transfer panics, as a finding of H2Pool shows that it can.  Nothing
\* catches it: the thread is gone with its job and its sender, and nobody is told.
Panic(w) ==
    /\ worker[w].pc = "transfer"
    /\ worker' = [worker EXCEPT ![w].pc = "panicked"]
    /\ UNCHANGED <<clientVars, cancelled, overdue, channel, dispatcher,
                   schedulerVars, jobs, jobsClosed, response>>

SendCompletionDefect(w) ==
    /\ worker[w].pc = "send"
    /\ channel' = IF Len(channel) < QueueCapacity
                  THEN Append(channel, Completion(worker[w].job, worker[w].outcome))
                  ELSE channel
    /\ worker' = [worker EXCEPT ![w] = Parked("idle")]
    /\ UNCHANGED <<clientVars, cancelled, overdue, dispatcher, schedulerVars,
                   jobs, jobsClosed, response>>
\* The blocking send of the completion.
SendCompletion(w) ==
    /\ worker[w].pc = "send" /\ Len(channel) < QueueCapacity
    /\ channel' = Append(channel, Completion(worker[w].job, worker[w].outcome))
    /\ worker' = [worker EXCEPT ![w] = Parked("idle")]
    /\ UNCHANGED <<clientVars, cancelled, overdue, dispatcher, schedulerVars,
                   jobs, jobsClosed, response>>

\* JobQueue::pop finds the queue empty and closed.
Exit(w) ==
    /\ worker[w].pc = "idle" /\ jobs = <<>> /\ jobsClosed
    /\ worker' = [worker EXCEPT ![w] = Parked("exited")]
    /\ UNCHANGED <<clientVars, cancelled, overdue, channel, dispatcher,
                   schedulerVars, jobs, jobsClosed, response>>

------------------------------------------------------------------------------
(* The dispatcher.  Its loop is sweep, promote, schedule, receive.           *)

\* What cancel_cancelled and expire_batches find.
CancelledOperationsDefect == {}
CancelledOperations == live \cap cancelled
ExpiredBatchesDefect == {}
ExpiredBatches == (live \cap overdue) \ CancelledOperations
CancelledCommandsDefect == {}
CancelledCommands == Elements(waiting) \cap cancelled

\* cancel_cancelled, then expire_batches.  An operation is answered from the
\* sweep that finds its token set or its budget spent, whatever its transfers
\* are doing; expiry also sets the token so that they stop.
Sweep ==
    /\ dispatcher = "sweep" /\ dispatcher' = "promote"
    /\ LET gone == CancelledOperations \cup ExpiredBatches
       IN  /\ Remove(gone)
           /\ ready' = Retain(ready, live \ gone)
           /\ waiting' = Retain(waiting, Ops \ cancelled)
           /\ cancelled' = cancelled \cup ExpiredBatches
           /\ Respond([o \in gone \cup CancelledCommands |->
                         IF o \in ExpiredBatches
                         THEN FillMissing(batch[o].results, "timeout")
                         ELSE Fill(o, "cancelled")])
    /\ UNCHANGED <<clientVars, overdue, channel, poolVars>>

\* Scheduler::admit, the permit in hand.
Admit(o) ==
    \/ /\ o \in cancelled
       /\ Reply(o, Fill(o, "cancelled"))
       /\ UNCHANGED <<live, ready, scheduled, batch, permits>>
    \/ /\ o \notin cancelled /\ Requests[o] = <<>>
       /\ Reply(o, <<>>)
       /\ UNCHANGED <<live, ready, scheduled, batch, permits>>
    \/ /\ o \notin cancelled /\ Requests[o] # <<>>
       /\ live' = live \cup {o}
       /\ permits' = permits + 1
       /\ ready' = Append(ready, o)
       /\ batch' = IF o \in Batches THEN [batch EXCEPT ![o] = NewBatch(o)]
                   ELSE batch
       /\ UNCHANGED <<scheduled, response>>

\* One turn of promote_waiting.
Promote ==
    /\ dispatcher = "promote"
    /\ waiting # <<>> /\ permits < OperationCapacity
    /\ Admit(Head(waiting))
    /\ waiting' = Tail(waiting)
    /\ UNCHANGED <<clientVars, cancelled, overdue, channel, dispatcher, poolVars>>

PromoteDone ==
    /\ dispatcher = "promote"
    /\ waiting = <<>> \/ permits >= OperationCapacity
    /\ dispatcher' = "schedule"
    /\ UNCHANGED <<clientVars, cancelled, overdue, channel, schedulerVars,
                   poolVars, response>>

\* One turn of schedule takes the operation at the head of ready.
Scheduling(o) ==
    /\ dispatcher = "schedule" /\ HasCapacity
    /\ ready # <<>> /\ o = Head(ready)

\* An id left in ready by an operation that is gone, or a fetch already handed
\* to the pool.
ScheduleSkip(o) ==
    /\ Scheduling(o)
    /\ o \notin live \/ o \in scheduled
    /\ ready' = Tail(ready)
    /\ UNCHANGED <<clientVars, cancelled, overdue, channel, dispatcher, waiting,
                   live, scheduled, batch, permits, poolVars, response>>

ScheduleFetch(o) ==
    /\ Scheduling(o)
    /\ o \in (live \ Batches) \ scheduled
    /\ ready' = Tail(ready)
    /\ scheduled' = scheduled \cup {o}
    /\ jobs' = Append(jobs, Job(o, 1))
    /\ UNCHANGED <<clientVars, cancelled, overdue, channel, dispatcher, waiting,
                   live, batch, permits, jobsClosed, worker, response>>

EligibleDefect(o) == batch[o].pending
\* The pending requests whose origin is below its limit.
Eligible(o) == {i \in batch[o].pending :
                  LET g == Requests[o][i]
                  IN  batch[o].activeByOrigin[g] < OriginLimit[o][g]}
First(S) == CHOOSE i \in S : \A j \in S : i <= j

\* BatchOperation::next_job returned Job.
ScheduleJob(o) ==
    /\ Scheduling(o)
    /\ o \in live \cap Batches
    /\ batch[o].active < MaxConcurrency[o] /\ Eligible(o) # {}
    /\ LET i == First(Eligible(o))
           g == Requests[o][i]
           b == [batch[o] EXCEPT !.pending = @ \ {i}, !.active = @ + 1,
                                 !.activeByOrigin[g] = @ + 1]
           more == b.active < MaxConcurrency[o] /\ b.pending # {}
       IN  /\ batch' = [batch EXCEPT ![o] = b]
           /\ jobs' = Append(jobs, Job(o, i))
           /\ ready' = IF more THEN Append(Tail(ready), o) ELSE Tail(ready)
    /\ UNCHANGED <<clientVars, cancelled, overdue, channel, dispatcher, waiting,
                   live, scheduled, permits, jobsClosed, worker, response>>

\* Nothing may run now, and nothing is running that could change that.
Exhausted(o) == Eligible(o) = {} /\ batch[o].active = 0

\* BatchOperation::next_job returned Wait: a completion will requeue it.
ScheduleWait(o) ==
    /\ Scheduling(o)
    /\ o \in live \cap Batches
    /\ MaxConcurrency[o] > 0 /\ batch[o].active > 0
    /\ Eligible(o) = {} \/ batch[o].active >= MaxConcurrency[o]
    /\ ready' = Tail(ready)
    /\ UNCHANGED <<clientVars, cancelled, overdue, channel, dispatcher, waiting,
                   live, scheduled, batch, permits, poolVars, response>>

\* BatchOperation::next_job returned Finish: nothing may run, now or later.
ScheduleFinish(o) ==
    /\ Scheduling(o)
    /\ o \in live \cap Batches
    /\ MaxConcurrency[o] = 0 \/ Exhausted(o)
    /\ Remove({o})
    /\ ready' = Tail(ready)
    /\ LET results == batch[o].results
           paused == [i \in DOMAIN results |-> IF i \in batch[o].pending
                                               THEN Outcome("paused", i)
                                               ELSE results[i]]
       IN  Reply(o, IF MaxConcurrency[o] = 0 THEN Fill(o, "zeroConcurrency")
                    ELSE FillMissing(paused, "missing"))
    /\ UNCHANGED <<clientVars, cancelled, overdue, channel, dispatcher, waiting,
                   poolVars>>

ScheduleDone ==
    /\ dispatcher = "schedule"
    /\ ~HasCapacity \/ ready = <<>>
    /\ dispatcher' = "receive"
    /\ UNCHANGED <<clientVars, cancelled, overdue, channel, schedulerVars,
                   poolVars, response>>

\* A command may take a permit at once only when none is waiting for one.
MayAdmitDefect == permits < OperationCapacity
MayAdmit == waiting = <<>> /\ permits < OperationCapacity

\* Scheduler::accept.
Accept ==
    /\ dispatcher = "receive" /\ dispatcher' = "sweep"
    /\ channel # <<>> /\ Head(channel).type = "command"
    /\ channel' = Tail(channel)
    /\ LET o == Head(channel).op
       IN  \/ /\ Len(waiting) >= QueueCapacity
              /\ Reply(o, Fill(o, "queueFull"))
              /\ UNCHANGED schedulerVars
           \/ /\ Len(waiting) < QueueCapacity /\ MayAdmit
              /\ Admit(o)
              /\ UNCHANGED waiting
           \/ /\ Len(waiting) < QueueCapacity /\ ~MayAdmit
              /\ waiting' = Append(waiting, o)
              /\ UNCHANGED <<live, ready, scheduled, batch, permits, response>>
    /\ UNCHANGED <<clientVars, cancelled, overdue, poolVars>>

CompletedDefect(o, i, outcome) ==
    IF batch[o].results[i] # NoOutcome THEN batch[o]
    ELSE [batch[o] EXCEPT !.results[i] = outcome, !.active = IF @ = 0 THEN 0 ELSE @ - 1]

\* BatchOperation::complete: only the first completion of a slot counts.
Completed(o, i, outcome) ==
    LET g == Requests[o][i]
    IN  IF batch[o].results[i] # NoOutcome THEN batch[o]
        ELSE [batch[o] EXCEPT !.results[i] = outcome,
                              !.active = IF @ = 0 THEN 0 ELSE @ - 1,
                              !.activeByOrigin[g] = IF @ = 0 THEN 0 ELSE @ - 1]

\* A batch with requests left goes back to ready.
RequeuedDefect(o, b) == ready
Requeued(o, b) == IF b.pending # {} THEN Append(ready, o) ELSE ready

\* Scheduler::complete.  The operation may be gone: cancelled or expired while
\* its transfer was running.
Complete ==
    /\ dispatcher = "receive" /\ dispatcher' = "sweep"
    /\ channel # <<>> /\ Head(channel).type = "completion"
    /\ channel' = Tail(channel)
    /\ LET event == Head(channel)
           o == event.op
           b == Completed(o, event.index, event.outcome)
       IN  \/ /\ o \notin live
              /\ UNCHANGED <<schedulerVars, response>>
           \/ /\ o \in live \ Batches
              /\ Remove({o})
              /\ Reply(o, <<event.outcome>>)
              /\ UNCHANGED <<waiting, ready>>
           \/ /\ o \in live \cap Batches /\ b.pending = {} /\ b.active = 0
              /\ Remove({o})
              /\ Reply(o, FillMissing(b.results, "missing"))
              /\ UNCHANGED <<waiting, ready>>
           \/ /\ o \in live \cap Batches
              /\ b.pending # {} \/ b.active # 0
              /\ batch' = [batch EXCEPT ![o] = b]
              /\ ready' = Requeued(o, b)
              /\ UNCHANGED <<waiting, live, scheduled, permits, response>>
    /\ UNCHANGED <<clientVars, cancelled, overdue, poolVars>>

NoSendersDefect == handle \in {"failed", "dropped"}
NoSendersLeakDefect == /\ handle = "dropped"
                       /\ \A w \in Workers : worker[w].pc = "exited"
\* The constructor failed or the handle was dropped, and no transfer thread is
\* left: nobody holds a sender of the channel.
NoSenders == /\ handle \in {"failed", "dropped"}
             /\ \A w \in Workers : worker[w].pc \in {"absent", "exited", "panicked"}

\* recv_timeout ran out; the loop goes round to poll tokens and budgets.
Tick ==
    /\ dispatcher = "receive" /\ dispatcher' = "sweep"
    /\ channel = <<>> /\ ~NoSenders
    /\ UNCHANGED <<clientVars, cancelled, overdue, channel, schedulerVars,
                   poolVars, response>>

\* recv_timeout reports a disconnected channel: stop_all, close, return.
Disconnected ==
    /\ dispatcher = "receive" /\ dispatcher' = "stopped"
    /\ channel = <<>> /\ NoSenders
    /\ Respond([o \in live \cup Elements(waiting) |-> Fill(o, "stopped")])
    /\ Remove(live)
    /\ waiting' = <<>> /\ ready' = <<>>
    /\ jobsClosed' = TRUE /\ jobs' = <<>>
    /\ UNCHANGED <<clientVars, cancelled, overdue, channel, worker>>

Schedule == \/ \E o \in Ops : \/ ScheduleSkip(o) \/ ScheduleFetch(o)
                               \/ ScheduleJob(o) \/ ScheduleWait(o)
                               \/ ScheduleFinish(o)
            \/ ScheduleDone

Dispatch == \/ Sweep \/ Promote \/ PromoteDone \/ Schedule
            \/ Accept \/ Complete \/ Tick \/ Disconnected

Client == \/ \E o \in Ops : SubmitAccepted(o) \/ SubmitRejected(o) \/ Cancel(o)
          \/ DropHandle
          \/ StartFails \/ \E w \in Workers : StartWorker(w)

Pool(w) == Pop(w) \/ Transfer(w) \/ SendCompletion(w) \/ Exit(w)

Next == \/ Client
        \/ \E o \in Ops : Elapse(o)
        \/ \E w \in Workers : Pool(w) \/ Panic(w)
        \/ Dispatch

Spec == Init /\ [][Next]_vars

\* The operating system runs the dispatcher and time passes.  Nothing is
\* promised of the transfer threads: a transfer may hang.
FairSpec == /\ Spec
            /\ WF_vars(Dispatch)
            /\ \A o \in Ops : WF_vars(Elapse(o))

\* What the transfer threads add when they run and every transfer returns,
\* which it does because every phase of HttpTransport::fetch has a deadline,
\* unless it panics.
TransfersReturn == \A w \in Workers : WF_vars(Pool(w)) /\ [](worker[w].pc # "panicked")

------------------------------------------------------------------------------
(* Properties.                                                               *)

JobSet == [op : Ops, index : Nat]
Outcomes == [kind : OutcomeKinds, of : Nat]
EventSet == [type : {"command", "completion"}, op : Ops, index : Nat,
             outcome : Outcomes]
WorkerSet == [pc : {"absent", "idle", "transfer", "send", "panicked", "exited"},
              job : JobSet \cup {NoJob}, outcome : Outcomes]
BatchSet == [pending : SUBSET Nat, results : Seq(Outcomes), active : Nat,
             activeByOrigin : [Origins -> Nat]]

\* The shape of every variable, with the bounds of the three queues.
TypeOK ==
    /\ handle \in {"starting", "open", "failed", "dropped"}
    /\ submitted \subseteq Ops /\ cancelled \subseteq Ops
    /\ overdue \subseteq Timed
    /\ channel \in Seq(EventSet)
    /\ dispatcher \in {"sweep", "promote", "schedule", "receive", "stopped"}
    /\ waiting \in Seq(Ops) /\ ready \in Seq(Ops)
    /\ live \subseteq Ops /\ scheduled \subseteq Ops
    /\ batch \in [Ops -> BatchSet]
    /\ permits \in 0..OperationCapacity
    /\ jobs \in Seq(JobSet) /\ jobsClosed \in BOOLEAN
    /\ worker \in [Workers -> WorkerSet]
    /\ response \in [Ops -> Seq(Seq(Outcomes))]
    /\ Len(channel) <= QueueCapacity
    /\ Len(waiting) <= QueueCapacity
    /\ Len(jobs) <= QueueCapacity

\* Where an operation is.
Queued(o) == \E i \in DOMAIN channel : channel[i].type = "command" /\ channel[i].op = o
Waiting(o) == o \in Elements(waiting)
Answered(o) == response[o] # <<>>

\* A response channel carries at most one message, whatever order completion,
\* cancellation, expiry and rejection arrive in: RequestHandle is read once.
AnsweredAtMostOnce == \A o \in Ops : Len(response[o]) <= 1

\* A submitted operation is in exactly one of the dispatcher's places or has
\* been answered: none is dropped without a word and none is answered while a
\* copy of it can still run.
OneOwner ==
    \A o \in Ops :
        /\ o \in submitted <=> Queued(o) \/ Waiting(o) \/ o \in live \/ Answered(o)
        /\ Queued(o) => ~Waiting(o) /\ o \notin live /\ ~Answered(o)
        /\ Waiting(o) => o \notin live /\ ~Answered(o)
        /\ o \in live => ~Answered(o)

\* Completion, cancellation, expiry, rejection and shutdown race for an operation
\* that is in the channel, waiting or live: exactly one of them answers it, once,
\* and until then one place holds it.
OneOwnerOneAnswer == OneOwner /\ AnsweredAtMostOnce

\* Runtime::operations counts the operations in the map: a permit is neither
\* leaked nor released twice on any of the ways an operation ends.
PermitsMatchOperations == permits = Cardinality(live)

\* The requests of o that left pending and whose completion the dispatcher has
\* not received.
InFlight(o) ==
    {i \in Indices(o) :
        \/ Job(o, i) \in Elements(jobs)
        \/ \E w \in Workers : worker[w].job = Job(o, i)
        \/ \E k \in DOMAIN channel : /\ channel[k].type = "completion"
                                     /\ channel[k].op = o /\ channel[k].index = i}
InFlightTo(o, g) == {i \in InFlight(o) : Requests[o][i] = g}

\* The counters of a live batch are the requests really in flight, and a slot
\* is empty exactly while its request is pending or in flight.
BatchAccounting ==
    \A o \in live \cap Batches :
        /\ batch[o].active = Cardinality(InFlight(o))
        /\ \A g \in Origins :
              batch[o].activeByOrigin[g] = Cardinality(InFlightTo(o, g))
        /\ batch[o].pending \cap InFlight(o) = {}
        /\ {i \in Indices(o) : batch[o].results[i] = NoOutcome}
              = batch[o].pending \cup InFlight(o)

\* No more transfers of a live batch are out than its options allow, in all
\* and to each origin.
PolicyRespected ==
    \A o \in live \cap Batches :
        /\ Cardinality(InFlight(o)) <= MaxConcurrency[o]
        /\ \A g \in Origins : Cardinality(InFlightTo(o, g)) <= OriginLimit[o][g]

\* The counters next_job decides by are exact although completions arrive late,
\* out of order and after the batch's own end, so the policy they enforce holds
\* for the transfers really out.
BatchesInPolicy == BatchAccounting /\ PolicyRespected

\* A live operation the dispatcher is not about to schedule has a completion
\* coming that will make it do so: Wait never parks a batch for good, unless the
\* transfer it waits for never returns.
NoLostWakeup ==
    \A o \in live :
        \/ o \in Elements(ready) \ scheduled
        \/ InFlight(o) # {}

\* The dispatcher only stops when no command can have been accepted, or after its
\* owner is gone and every thread of its pool has panicked; then the operations
\* it still had are told so.
PoolIsLost == handle = "dropped" /\ \A w \in Workers : worker[w].pc = "panicked"
NeverStopsWithWork ==
    dispatcher = "stopped" => /\ submitted = {} \/ PoolIsLost
                              /\ live = {} /\ waiting = <<>>

\* Nobody is left unattended: the dispatcher does not park a batch for good, and
\* does not stop while it owes an answer that somebody may still bring.
NothingUnattended == NoLostWakeup /\ NeverStopsWithWork

\* o was submitted before p and neither has been admitted.
CommandsOf(o) == {i \in DOMAIN channel : channel[i].type = "command" /\ channel[i].op = o}
Precedes(o, p) ==
    \/ \E i, j \in DOMAIN waiting : i < j /\ waiting[i] = o /\ waiting[j] = p
    \/ Waiting(o) /\ Queued(p)
    \/ \E i \in CommandsOf(o), j \in CommandsOf(p) : i < j

\* Operations are admitted in submission order: none is admitted past an earlier
\* one that is still in the waiting queue or the channel.
AdmittedInOrder == [][\A o, p \in Ops : Precedes(o, p) => p \notin live']_vars

\* The worker, queues and threads included, keeps the promise of NetService.
Service == INSTANCE NetService WITH closed <- handle = "dropped"
ImplementsService == Service!Spec

\* Every submission is answered, provided transfers return.
EverySubmissionAnswered ==
    TransfersReturn => \A o \in Ops : o \in submitted ~> Answered(o)

\* An operation whose token is set is answered by the dispatcher's sweep,
\* although the transfers it waits for never return.
CancelledIsAnswered == \A o \in Ops : o \in submitted \cap cancelled ~> Answered(o)

\* An admitted batch with a budget is answered when it runs out at the latest,
\* although its transfers never return (expire_batches).
BudgetIsEnforced == \A o \in Timed : o \in live ~> Answered(o)

\* A constructor that fails leaves no thread behind.
FailedStartStops ==
    TransfersReturn =>
        (handle = "failed" ~>
            /\ dispatcher = "stopped"
            /\ \A w \in Workers : worker[w].pc \in {"absent", "exited"})

\* With transfers that return every submission is answered, and the threads of
\* a constructor that failed half-way end.
WorkerWindsUp == EverySubmissionAnswered /\ FailedStartStops

\* The token and the budget answer the client with transfers that hang.
AnsweredWithoutTransfers == CancelledIsAnswered /\ BudgetIsEnforced
==============================================================================
