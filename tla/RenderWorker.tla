----------------------------- MODULE RenderWorker -----------------------------
(***************************************************************************)
(* The render pool of render-browser (crates/render-browser/src/worker.rs): *)
(* a bounded queue in which a tab has at most one job, a set of worker      *)
(* threads, a cancellation token per job, and a bounded queue of finished   *)
(* frames that the event loop drains.  The browser runs one pool for full   *)
(* renders and one for composited scroll frames.                            *)
(*                                                                          *)
(* The queue and the completions have a mutex each; a step is one critical  *)
(* section, one read of a token, or one call of the wake callback.  What a  *)
(* render computes is abstracted to how it ends.                            *)
(***************************************************************************)
EXTENDS Naturals, Sequences, FiniteSets, Deque

CONSTANTS
    Tabs,             \* RenderIdentity::tab_id
    Workers,          \* the render threads
    QueueCapacity,    \* RenderWorkerOptions::queue_capacity
    CompletionSlack,  \* MAX_WORKERS, as the slack of the completion queue
    MaxGeneration     \* [Tabs -> Nat]: bound on the submissions for each tab

ASSUME PoolAssumption ==
    /\ QueueCapacity \in Nat \ {0}
    /\ IsFiniteSet(Workers) /\ Workers # {}
    /\ CompletionSlack \in Nat
    /\ MaxGeneration \in [Tabs -> Nat]

VARIABLES
    jobs,       \* QueueState::jobs
    active,     \* QueueState::active: the tokens of popped jobs, per tab
    stopped,    \* QueueState::stopped
    cancelled,  \* the jobs whose token is set, while someone holds the token
    completed,  \* Shared::completed
    worker,     \* where each thread is, its job, how the job ended
    wake,       \* a RenderReady event waits in the event loop
    submitted,  \* history: the last job submitted for each tab
    taken       \* history: those of them whose completion has left the queue

queueVars == <<jobs, active, stopped, cancelled>>
poolVars == <<jobs, active, stopped, cancelled, completed, worker, wake,
              submitted, taken>>

------------------------------------------------------------------------------
NoJob == [tab |-> "none", generation |-> 0]
Identity(tab, g) == [tab |-> tab, generation |-> g]
Identities == UNION {{Identity(t, g) : g \in 1..MaxGeneration[t]} : t \in Tabs}

CompletionCapacity == QueueCapacity + CompletionSlack

At(w, pc) == worker[w].pc = pc
Resting(pc) == [pc |-> pc, job |-> NoJob, result |-> "none", published |-> FALSE]

\* start has returned the pool to its caller.
Usable == \A w \in Workers : ~At(w, "unborn")

PoolInit(pc) ==
    /\ jobs = <<>> /\ active = [t \in Tabs |-> {}] /\ stopped = FALSE
    /\ cancelled = {} /\ completed = <<>> /\ wake = FALSE
    /\ worker = [w \in Workers |-> Resting(pc)]
    /\ submitted = [t \in Tabs |-> NoJob] /\ taken = {}

QueuedFor(t) == {j \in Elements(jobs) : j.tab = t}

\* The tokens a submission or a cancellation of tab t sets, and what it keeps.
Superseded(t) == active[t] \cup QueuedFor(t)
Others(t) == Retain(jobs, {j \in Elements(jobs) : j.tab # t})
Without(t) == {j \in cancelled : j.tab # t}

\* The jobs of S that a property still speaks of.
Latest(S) == {j \in S : j = submitted[j.tab]}

\* Condvar::notify_one wakes some waiting thread, notify_all every one.
NotifyOne ==
    IF \E w \in Workers : At(w, "asleep")
    THEN \E w \in Workers : /\ At(w, "asleep")
                            /\ worker' = [worker EXCEPT ![w] = Resting("awake")]
    ELSE UNCHANGED worker
NotifyAll == worker' = [w \in Workers |-> IF At(w, "asleep") THEN Resting("awake")
                                          ELSE worker[w]]

------------------------------------------------------------------------------
(* What the owner of the pool calls.                                       *)

\* RenderWorker::submit: the newest job of a tab replaces the others, and the
\* oldest job of another tab makes room for it when every slot is taken.
SubmitQueuedOnlyDefect(job) ==
    /\ Usable /\ ~stopped
    /\ LET kept == Others(job.tab)
           full == Len(kept) = QueueCapacity
       IN  /\ jobs' = Append(IF full THEN Tail(kept) ELSE kept, job)
           /\ cancelled' = (cancelled \ QueuedFor(job.tab))
                             \cup (IF full THEN {Head(kept)} ELSE {})
    /\ taken' = {j \in taken : j.tab # job.tab}
    /\ submitted' = [submitted EXCEPT ![job.tab] = job]
    /\ NotifyOne
    /\ UNCHANGED <<active, stopped, completed, wake>>
SubmitSilentDefect(job) ==
    /\ Usable /\ ~stopped
    /\ LET kept == Others(job.tab)
           full == Len(kept) = QueueCapacity
       IN  /\ jobs' = Append(IF full THEN Tail(kept) ELSE kept, job)
           /\ cancelled' = Without(job.tab) \cup active[job.tab]
                                           \cup (IF full THEN {Head(kept)} ELSE {})
    /\ taken' = {j \in taken : j.tab # job.tab}
    /\ submitted' = [submitted EXCEPT ![job.tab] = job]
    /\ UNCHANGED <<active, stopped, completed, worker, wake>>
Submit(job) ==
    /\ Usable /\ ~stopped
    /\ LET kept == Others(job.tab)
           full == Len(kept) = QueueCapacity
       IN  /\ jobs' = Append(IF full THEN Tail(kept) ELSE kept, job)
           /\ cancelled' = Without(job.tab) \cup active[job.tab]
                                           \cup (IF full THEN {Head(kept)} ELSE {})
    /\ taken' = {j \in taken : j.tab # job.tab}
    /\ submitted' = [submitted EXCEPT ![job.tab] = job]
    /\ NotifyOne
    /\ UNCHANGED <<active, stopped, completed, wake>>

\* RenderWorker::cancel_tab leaves the completions alone.
CancelTab(t) ==
    /\ Usable
    /\ jobs' = Others(t)
    /\ cancelled' = cancelled \cup Superseded(t)
    /\ UNCHANGED <<active, stopped, completed, worker, wake, submitted, taken>>

\* What RenderWorker::drain_latest returns: the newest generation of each tab.
Newest == {c \in Elements(completed) :
              /\ c.result # "cancelled"
              /\ \A d \in Elements(completed) :
                    d.job.tab = c.job.tab => d.job.generation <= c.job.generation}

Jobs(completions) == {c.job : c \in Elements(completions)}

Drain ==
    /\ Usable
    /\ completed' = <<>>
    /\ taken' = taken \cup Latest(Jobs(completed))
    /\ UNCHANGED <<jobs, active, stopped, cancelled, worker, submitted>>

\* stop_shared: Drop, shutdown, and a start whose next thread did not spawn.
StopSharedDefect ==
    /\ stopped' = TRUE
    /\ cancelled' = cancelled \cup Elements(jobs) \cup UNION {active[t] : t \in Tabs}
    /\ jobs' = <<>>
    /\ UNCHANGED <<active, completed, worker, wake, submitted, taken>>
StopShared ==
    /\ stopped' = TRUE
    /\ cancelled' = cancelled \cup Elements(jobs) \cup UNION {active[t] : t \in Tabs}
    /\ jobs' = <<>>
    /\ NotifyAll
    /\ UNCHANGED <<active, completed, wake, submitted, taken>>

Spawn(w) == /\ At(w, "unborn") /\ ~stopped
            /\ worker' = [worker EXCEPT ![w] = Resting("awake")]
            /\ UNCHANGED <<queueVars, completed, wake, submitted, taken>>
SpawnFails == ~Usable /\ ~stopped /\ StopShared

------------------------------------------------------------------------------
(* worker_loop.                                                            *)

Pop(w) ==
    /\ At(w, "awake") /\ jobs # <<>>
    /\ LET job == Head(jobs)
       IN  /\ active' = [active EXCEPT ![job.tab] = @ \cup {job}]
           /\ worker' = [worker EXCEPT ![w].pc = "rendering", ![w].job = job]
    /\ jobs' = Tail(jobs)
    /\ UNCHANGED <<stopped, cancelled, completed, wake, submitted, taken>>

Wait(w) ==
    /\ At(w, "awake") /\ jobs = <<>> /\ ~stopped
    /\ worker' = [worker EXCEPT ![w] = Resting("asleep")]
    /\ UNCHANGED <<queueVars, completed, wake, submitted, taken>>

\* Condvar::wait may return without a notification.
WakeSpuriously(w) ==
    /\ At(w, "asleep")
    /\ worker' = [worker EXCEPT ![w] = Resting("awake")]
    /\ UNCHANGED <<queueVars, completed, wake, submitted, taken>>

Exit(w) ==
    /\ At(w, "awake") /\ jobs = <<>> /\ stopped
    /\ worker' = [worker EXCEPT ![w] = Resting("gone")]
    /\ UNCHANGED <<queueVars, completed, wake, submitted, taken>>

\* The render ends.  Only a set token makes it, or the check before it, report
\* Cancelled; a render that began before the token was set may end in any way.
\* A Task error is handled as a panic is when the token is clear, and dropped as
\* Cancelled is when it is set, so it is not told apart from these.
Render(w) ==
    /\ At(w, "rendering")
    /\ \E result \in {"frame", "panicked"}
                     \cup (IF worker[w].job \in cancelled THEN {"cancelled"} ELSE {}) :
          worker' = [worker EXCEPT ![w].pc = "rendered", ![w].result = result]
    /\ UNCHANGED <<queueVars, completed, wake, submitted, taken>>

\* The token is read once more, outside of both locks.
DecideDefect(w) ==
    /\ At(w, "rendered")
    /\ LET job == worker[w].job
           publish == job \notin cancelled \/ worker[w].result = "panicked"
       IN  /\ active' = [active EXCEPT ![job.tab] = @ \ {job}]
           /\ worker' = [worker EXCEPT ![w].pc = IF publish THEN "publishing" ELSE "unmarking",
                                       ![w].published = publish]
    /\ UNCHANGED <<jobs, stopped, cancelled, completed, wake, submitted, taken>>
Decide(w) ==
    /\ At(w, "rendered")
    /\ LET publish == \/ worker[w].job \notin cancelled
                      \/ worker[w].result = "panicked"
       IN  worker' = [worker EXCEPT ![w].pc = IF publish THEN "publishing" ELSE "unmarking",
                                    ![w].published = publish]
    /\ UNCHANGED <<queueVars, completed, wake, submitted, taken>>

PublishDefect(w) ==
    /\ At(w, "publishing")
    /\ completed' = Append(completed, [job |-> worker[w].job, result |-> worker[w].result])
    /\ worker' = [worker EXCEPT ![w].pc = "unmarking", ![w].result = "none"]
    /\ UNCHANGED <<queueVars, wake, submitted, taken>>
Publish(w) ==
    /\ At(w, "publishing")
    /\ LET full == Len(completed) = CompletionCapacity
       IN  /\ completed' = Append(IF full THEN Tail(completed) ELSE completed,
                                  [job |-> worker[w].job, result |-> worker[w].result])
           /\ taken' = IF full THEN taken \cup Latest({Head(completed).job}) ELSE taken
    /\ worker' = [worker EXCEPT ![w].pc = "unmarking", ![w].result = "none"]
    /\ UNCHANGED <<queueVars, wake, submitted>>

UnmarkDefect(w) ==
    /\ At(w, "unmarking")
    /\ active' = [active EXCEPT ![worker[w].job.tab] = {}]
    /\ worker' = [worker EXCEPT ![w] = IF worker[w].published THEN [@ EXCEPT !.pc = "waking"]
                                       ELSE Resting("awake")]
    /\ UNCHANGED <<jobs, stopped, cancelled, completed, wake, submitted, taken>>
Unmark(w) ==
    /\ At(w, "unmarking")
    /\ LET job == worker[w].job
       IN  /\ active' = [active EXCEPT ![job.tab] = @ \ {job}]
           /\ cancelled' = cancelled \ ({job} \ Latest({job}))
    /\ worker' = [worker EXCEPT ![w] = IF worker[w].published
                                       THEN [Resting("waking") EXCEPT !.published = TRUE]
                                       ELSE Resting("awake")]
    /\ UNCHANGED <<jobs, stopped, completed, wake, submitted, taken>>

NotifyDefect(w) ==
    /\ At(w, "waking")
    /\ wake' = (wake \/ Len(completed) = 1)
    /\ worker' = [worker EXCEPT ![w] = Resting("awake")]
    /\ UNCHANGED <<queueVars, completed, submitted, taken>>
Notify(w) ==
    /\ At(w, "waking")
    /\ wake' = TRUE
    /\ worker' = [worker EXCEPT ![w] = Resting("awake")]
    /\ UNCHANGED <<queueVars, completed, submitted, taken>>

WorkerStep(w) == \/ Pop(w) \/ Wait(w) \/ Exit(w) \/ Render(w) \/ Decide(w)
                 \/ Publish(w) \/ Unmark(w) \/ Notify(w)
PoolStep == \E w \in Workers : WorkerStep(w) \/ WakeSpuriously(w)

------------------------------------------------------------------------------
(* The pool with any owner: it submits, cancels, drains and stops at will,  *)
(* with growing generations per tab, and handles the events it is sent.     *)

Init == PoolInit("unborn")

Client ==
    \/ \E t \in Tabs : LET g == submitted[t].generation + 1
                       IN  g <= MaxGeneration[t] /\ Submit(Identity(t, g))
    \/ \E t \in Tabs : CancelTab(t)
    \/ Drain /\ UNCHANGED wake
    \/ wake /\ wake' = FALSE /\ Drain
    \/ Usable /\ ~stopped /\ StopShared

Next == Client \/ SpawnFails \/ PoolStep \/ \E w \in Workers : Spawn(w)

Spec == Init /\ [][Next]_poolVars

\* A thread that can run does, and a render returns: process is a computation
\* over an owned snapshot.  Nothing is assumed of the owner of the pool.
FairSpec == Spec /\ \A w \in Workers : WF_poolVars(WorkerStep(w))

------------------------------------------------------------------------------
(* Properties.                                                             *)

Busy == {w \in Workers : ~At(w, "unborn") /\ worker[w].job # NoJob}
Marked(w) == worker[w].pc \in {"rendering", "rendered", "publishing", "unmarking"}

\* Types, and the bounds of the two queues: eviction keeps the job queue at
\* queue_capacity and the completions at queue_capacity + MAX_WORKERS.
TypeOK ==
    /\ jobs \in Seq(Identities) /\ Len(jobs) <= QueueCapacity
    /\ active \in [Tabs -> SUBSET Identities]
    /\ stopped \in BOOLEAN /\ wake \in BOOLEAN
    /\ cancelled \subseteq Identities /\ taken \subseteq Identities
    /\ Len(completed) <= CompletionCapacity
    /\ Jobs(completed) \subseteq Identities
    /\ submitted \in [Tabs -> Identities \cup {NoJob}]

\* Latest write wins: a job of a tab that is queued or being rendered with its
\* token clear is the one submitted last, however many threads hold jobs of
\* that tab.
LatestWins ==
    \A t \in Tabs : Superseded(t) \ cancelled \subseteq {submitted[t]}

\* Neither the eviction from a full queue nor a thread that takes a job while its
\* tab submits the next breaks the bounds or lets an older job win.
LatestWithinBounds == TypeOK /\ LatestWins

\* A tab has one slot in the queue, and a popped job is marked active until the
\* thread that popped it has published it: what is_tab_busy reads is what the
\* threads are doing.
MarkersMatchThreads ==
    /\ \A t \in Tabs : Cardinality(QueuedFor(t)) <= 1
    /\ \A t \in Tabs : active[t] = {worker[w].job : w \in {v \in Busy :
                                        Marked(v) /\ worker[v].job.tab = t}}
    /\ \A v, w \in Busy : v # w => worker[v].job # worker[w].job

\* A submission that nothing cancelled is, at every moment, where is_tab_busy
\* looks for it, or its completion has been handed over: there is no gap
\* between the marker and the completion in which the tab looks idle.
NeverOutOfSight ==
    \A t \in Tabs : \/ submitted[t] \in {NoJob} \cup cancelled \cup taken
                    \/ submitted[t] \in Superseded(t) \cup Jobs(completed)

\* What is_tab_busy reads under its two locks is what the threads are doing, at
\* every point of their critical sections.
BusyIsExact == MarkersMatchThreads /\ NeverOutOfSight

\* Every submission comes to an end, whatever the owner does: it completes, its
\* token is set, or a newer one replaces it.  A notification lost between the push and the wait of the
\* last idle thread would leave it in the queue.
EverySubmissionSettles ==
    \A j \in Identities : (submitted[j.tab] = j) ~>
                              \/ submitted[j.tab] # j
                              \/ j \in cancelled \cup taken \cup Jobs(completed)

\* A completion that stays in the queue is followed by a wake-up of the event
\* loop, which polls nothing on a timer.
CompletionsWakeTheLoop == (completed # <<>>) ~> (wake \/ completed = <<>>)

\* Once the pool is stopped, by its owner or by a failed start, every thread
\* that was spawned ends.
StoppedThreadsEnd == stopped ~> (\A w \in Workers : At(w, "gone") \/ At(w, "unborn"))

\* No wake-up is lost, of the event loop or of a thread that has to end.
NoLostWakeUp == CompletionsWakeTheLoop /\ StoppedThreadsEnd
==============================================================================
