----------------------------- MODULE RenderProofs -----------------------------
(***************************************************************************)
(* Proofs about RenderWorker and about PageRender, its coordinator, for     *)
(* every set of tabs, viewports and render threads, every capacity and any  *)
(* number of submissions and changes.  J is the set of the jobs the owner   *)
(* of the pool submits: the lemmas of the first part hold for any record of *)
(* a job that has a tab and a generation, so that the pool keeps its own    *)
(* invariant under the coordinator of the second.  The third shows that the  *)
(* coordinator forgets no repaint.                                          *)
(***************************************************************************)
EXTENDS PageRender, DataLemmas

JobsOf(J) == \A j \in J : j.tab \in Tabs /\ j.generation \in Nat \ {0}

MarkedAt == {"rendering", "rendered", "publishing", "unmarking"}
Places == MarkedAt \cup {"unborn", "awake", "asleep", "waking", "gone"}
Endings == {"none", "frame", "panicked", "cancelled"}
ThreadSet(J) == [pc : Places, job : J \cup {NoJob}, result : Endings, published : BOOLEAN]
CompletionSet(J) == [job : J, result : Endings]

\* Elements of the sequences and of the functions the pool is made of.
PoolTypes(J) ==
    /\ jobs \in Seq(J) /\ Len(jobs) <= QueueCapacity
    /\ active \in [Tabs -> SUBSET J]
    /\ stopped \in BOOLEAN /\ wake \in BOOLEAN
    /\ cancelled \subseteq J /\ taken \subseteq J
    /\ completed \in Seq(CompletionSet(J)) /\ Len(completed) <= CompletionCapacity
    /\ worker \in [Workers -> ThreadSet(J)]
    /\ submitted \in [Tabs -> J \cup {NoJob}]

\* What the threads are doing, and what the markers say of it.
HeldJobs == {worker[w].job : w \in {v \in Workers : Marked(v)}}
MarkersExact == \A t \in Tabs : active[t] = {j \in HeldJobs : j.tab = t}
OwnJobs == \A v, w \in Workers : Marked(v) /\ Marked(w) /\ worker[v].job = worker[w].job => v = w

\* Nothing under way is newer than the last submission of its tab, and a job
\* that a thread holds is no longer queued.
Known(j) == j.generation <= submitted[j.tab].generation
OneSlot == /\ Distinct(jobs)
           /\ \A i, j \in Elements(jobs) : i.tab = j.tab => i = j
           /\ \A j \in Elements(jobs) : Known(j) /\ j \notin HeldJobs

\* A job whose marker goes next is accounted for without its marker.
Accounted(j) == j = submitted[j.tab] => j \in cancelled \cup taken \cup Jobs(completed)
ThreadOk(r) ==
    /\ IF r.pc \in MarkedAt THEN r.job # NoJob /\ Known(r.job) ELSE r.job = NoJob
    /\ r.pc = "publishing" => r.published
    /\ r.pc = "unmarking" => IF r.published THEN Accounted(r.job) ELSE r.job \in cancelled
ThreadsOk == \A w \in Workers : ThreadOk(worker[w])

OwnSubmissions == \A t \in Tabs : submitted[t] = NoJob \/ submitted[t].tab = t

PoolInv(J) ==
    /\ PoolTypes(J)
    /\ MarkersExact /\ OwnJobs /\ OneSlot /\ ThreadsOk /\ OwnSubmissions
    /\ LatestWins /\ NeverOutOfSight

------------------------------------------------------------------------------
(* The parts.                                                                *)

(* A job names a tab and is not the mark of an idle thread.                  *)
LEMMA JobTypes ==
    ASSUME NEW J, JobsOf(J), NEW j \in J
    PROVE  j # NoJob /\ j.tab \in Tabs /\ j.generation \in Nat \ {0}
<1>1. j.generation # 0 /\ j.tab \in Tabs /\ j.generation \in Nat \ {0}
  BY DEF JobsOf
<1>2. NoJob.generation = 0
  BY DEF NoJob
<1> QED  BY <1>1, <1>2

(* What is queued, marked or held are jobs, and the held ones are those of   *)
(* the threads at the places between the pop and the end of the marker.      *)
LEMMA PoolJobs ==
    ASSUME NEW J, JobsOf(J), PoolInv(J)
    PROVE  /\ Elements(jobs) \subseteq J /\ HeldJobs \subseteq J
           /\ \A t \in Tabs : active[t] = {j \in HeldJobs : j.tab = t}
           /\ \A t \in Tabs : Superseded(t) = {j \in HeldJobs \cup Elements(jobs) : j.tab = t}
           /\ \A w \in Workers : Marked(w) <=> worker[w].job # NoJob
           /\ \A w \in Workers : Marked(w) => /\ worker[w].job \in HeldJobs
                                              /\ worker[w].job \in J
           /\ Jobs(completed) \subseteq J
<1>1. Elements(jobs) \subseteq J
  <2> SUFFICES ASSUME NEW i \in DOMAIN jobs PROVE jobs[i] \in J
    BY DEF Elements
  <2>1. jobs \in Seq(J) /\ i \in 1..Len(jobs)
    BY LenProperties DEF PoolInv, PoolTypes
  <2> QED  BY <2>1, ElementOfSeq
<1>2. worker \in [Workers -> ThreadSet(J)] /\ ThreadsOk
  BY DEF PoolInv, PoolTypes
<1>3. \A w \in Workers : worker[w].job \in J \cup {NoJob}
  BY <1>2 DEF ThreadSet
<1>4. \A w \in Workers : Marked(w) <=> worker[w].job # NoJob
  BY <1>2 DEF ThreadsOk, ThreadOk, Marked, MarkedAt
<1>5. HeldJobs \subseteq J
  BY <1>3, <1>4 DEF HeldJobs
<1>6. \A t \in Tabs : active[t] = {j \in HeldJobs : j.tab = t}
  BY DEF PoolInv, MarkersExact
<1>7. \A t \in Tabs : Superseded(t) = {j \in HeldJobs \cup Elements(jobs) : j.tab = t}
  BY <1>6 DEF Superseded, QueuedFor
<1>8. Jobs(completed) \subseteq J
  <2> SUFFICES ASSUME NEW i \in DOMAIN completed PROVE completed[i].job \in J
    BY DEF Jobs, Elements
  <2>1. completed \in Seq(CompletionSet(J)) /\ i \in 1..Len(completed)
    BY LenProperties DEF PoolInv, PoolTypes
  <2>2. completed[i] \in CompletionSet(J)
    BY <2>1, ElementOfSeq
  <2> QED  BY <2>2 DEF CompletionSet
<1> QED  BY <1>1, <1>3, <1>4, <1>5, <1>6, <1>7, <1>8 DEF HeldJobs

(* A thread that is woken holds nothing, before and after.                   *)
LEMMA NotifyEffect ==
    ASSUME NEW J, JobsOf(J), PoolInv(J), NotifyOne \/ NotifyAll \/ UNCHANGED worker
    PROVE  /\ worker' \in [Workers -> ThreadSet(J)]
           /\ \A w \in Workers : worker'[w] = worker[w]
                                 \/ (worker[w].pc = "asleep" /\ worker'[w] = Resting("awake"))
<1>1. worker \in [Workers -> ThreadSet(J)]
  BY DEF PoolInv, PoolTypes
<1>2. Resting("awake") \in ThreadSet(J)
  BY DEF Resting, ThreadSet, Places, Endings
<1>3. CASE NotifyOne
  BY <1>1, <1>2, <1>3 DEF NotifyOne, At
<1>4. CASE NotifyAll
  BY <1>1, <1>2, <1>4 DEF NotifyAll, At
<1> QED  BY <1>1, <1>3, <1>4

\* The threads that hold a job keep it and stay where they are; the others hold
\* none.
WorkKept ==
    \A w \in Workers : worker'[w] = worker[w]
                       \/ /\ worker[w].pc \notin MarkedAt
                          /\ worker'[w].pc \notin MarkedAt /\ worker'[w].job = NoJob

(* Then what is held stays, and so does what holds of each thread while the  *)
(* tokens, the completions and the last submissions do.                      *)
LEMMA KeptEffect ==
    ASSUME NEW J, JobsOf(J), PoolInv(J), worker' \in [Workers -> ThreadSet(J)], WorkKept
    PROVE  /\ HeldJobs' = HeldJobs /\ OwnJobs'
           /\ \A w \in Workers : Marked(w)' => Marked(w) /\ worker'[w] = worker[w]
           /\ UNCHANGED <<cancelled, completed, taken, submitted>> => ThreadsOk'
<1>1. \A w \in Workers : Marked(w)' <=> Marked(w)
  BY DEF WorkKept, Marked, MarkedAt
<1>2. \A w \in Workers : Marked(w) => worker'[w] = worker[w]
  BY DEF WorkKept, Marked, MarkedAt
<1>3. HeldJobs' = HeldJobs
  BY <1>1, <1>2 DEF HeldJobs
<1>4. OwnJobs'
  BY <1>1, <1>2 DEF OwnJobs, PoolInv
<1>5. ASSUME UNCHANGED <<cancelled, completed, taken, submitted>> PROVE ThreadsOk'
  <2> SUFFICES ASSUME NEW w \in Workers PROVE ThreadOk(worker[w])'
    BY DEF ThreadsOk
  <2>1. CASE worker'[w] = worker[w]
    BY <1>5, <2>1 DEF PoolInv, ThreadsOk, ThreadOk, Known, Accounted, Jobs
  <2>2. CASE worker'[w].pc \notin MarkedAt /\ worker'[w].job = NoJob
    BY <2>2 DEF ThreadOk, MarkedAt
  <2> QED  BY <2>1, <2>2 DEF WorkKept
<1> QED  BY <1>1, <1>2, <1>3, <1>4, <1>5
------------------------------------------------------------------------------
(* What the owner of the pool calls.                                         *)

LEMMA OthersEffect ==
    ASSUME NEW J, JobsOf(J), PoolInv(J), NEW t
    PROVE  /\ Others(t) \in Seq(J) /\ Len(Others(t)) \in Nat /\ Len(Others(t)) <= Len(jobs)
           /\ Elements(Others(t)) = {j \in Elements(jobs) : j.tab # t}
           /\ Distinct(Others(t)) /\ Len(Others(t)) <= QueueCapacity
<1>1. jobs \in Seq(J) /\ Distinct(jobs) /\ Len(jobs) \in Nat /\ Len(jobs) <= QueueCapacity
  BY LenProperties DEF PoolInv, PoolTypes, OneSlot
<1> DEFINE keep == {j \in Elements(jobs) : j.tab # t}
<1>2. /\ Retain(jobs, keep) \in Seq(J) /\ Len(Retain(jobs, keep)) <= Len(jobs)
      /\ Elements(Retain(jobs, keep)) = Elements(jobs) \cap keep
      /\ Distinct(Retain(jobs, keep))
  BY <1>1, RetainProperties
<1>3. Others(t) = Retain(jobs, keep)
  BY DEF Others
<1>4. Len(Others(t)) \in Nat
  BY <1>2, <1>3, LenProperties
<1> QED  BY <1>1, <1>2, <1>3, <1>4, PoolAssumption

(* The queue after a submission, and the job that made room for it.          *)
LEMMA QueueEffect ==
    ASSUME NEW J, JobsOf(J), PoolInv(J), NEW job \in J, Submit(job)
    PROVE  \E dropped \in SUBSET Elements(jobs) :
             /\ jobs' \in Seq(J) /\ Len(jobs') <= QueueCapacity /\ Distinct(jobs')
             /\ Elements(jobs') = {j \in Elements(jobs) \ dropped : j.tab # job.tab} \cup {job}
             /\ cancelled' = Without(job.tab) \cup active[job.tab] \cup dropped
<1> DEFINE kept == Others(job.tab)
           full == Len(kept) = QueueCapacity
           base == IF full THEN Tail(kept) ELSE kept
           dropped == IF full THEN {Head(kept)} ELSE {}
<1>1. /\ kept \in Seq(J) /\ Len(kept) \in Nat /\ Len(kept) <= QueueCapacity /\ Distinct(kept)
      /\ Elements(kept) = {j \in Elements(jobs) : j.tab # job.tab}
      /\ QueueCapacity \in Nat \ {0}
  BY OthersEffect, PoolAssumption
<1>2. jobs' = Append(base, job) /\ cancelled' = Without(job.tab) \cup active[job.tab] \cup dropped
  BY DEF Submit
<1> HIDE DEF kept
<1>3. /\ base \in Seq(J) /\ Len(base) \in Nat /\ Len(base) + 1 <= QueueCapacity /\ Distinct(base)
      /\ dropped \subseteq Elements(kept) /\ Elements(base) = Elements(kept) \ dropped
  <2>1. CASE full
    <3>1. kept # <<>>
      BY <1>1, <2>1, EmptySeq
    <3>2. /\ Tail(kept) \in Seq(J) /\ Len(Tail(kept)) = Len(kept) - 1
          /\ Elements(kept) = {Head(kept)} \cup Elements(Tail(kept))
          /\ Distinct(Tail(kept)) /\ Head(kept) \notin Elements(Tail(kept))
      BY <1>1, <3>1, PopProperties
    <3> QED  BY <1>1, <2>1, <3>2
  <2>2. CASE ~full
    BY <1>1, <2>2
  <2> QED  BY <2>1, <2>2
<1> HIDE DEF base, dropped
<1>4. job \notin Elements(base)
  BY <1>1, <1>3
<1>5. /\ Append(base, job) \in Seq(J) /\ Len(Append(base, job)) = Len(base) + 1
      /\ Elements(Append(base, job)) = Elements(base) \cup {job}
      /\ Distinct(Append(base, job))
  BY <1>3, <1>4, PushProperties
<1>6. dropped \in SUBSET Elements(jobs)
  BY <1>1, <1>3
<1>7. Elements(jobs') = {j \in Elements(jobs) \ dropped : j.tab # job.tab} \cup {job}
  BY <1>1, <1>2, <1>3, <1>5
<1>8. jobs' \in Seq(J) /\ Len(jobs') <= QueueCapacity /\ Distinct(jobs')
  BY <1>2, <1>3, <1>5
<1> QED  BY <1>2, <1>6, <1>7, <1>8

(* A submission newer than its tab's last leaves the pool in order.          *)
LEMMA SubmitKeeps ==
    ASSUME NEW J, JobsOf(J), PoolInv(J), NEW job \in J,
           job.generation > submitted[job.tab].generation, Submit(job)
    PROVE  PoolInv(J)'
<1>1. /\ NotifyOne /\ UNCHANGED <<active, stopped, completed, wake>>
      /\ submitted' = [submitted EXCEPT ![job.tab] = job]
      /\ taken' = {j \in taken : j.tab # job.tab}
  BY DEF Submit
<1>2. PICK dropped \in SUBSET Elements(jobs) :
        /\ jobs' \in Seq(J) /\ Len(jobs') <= QueueCapacity /\ Distinct(jobs')
        /\ Elements(jobs') = {j \in Elements(jobs) \ dropped : j.tab # job.tab} \cup {job}
        /\ cancelled' = Without(job.tab) \cup active[job.tab] \cup dropped
  BY QueueEffect
<1>3. /\ Elements(jobs) \subseteq J /\ HeldJobs \subseteq J
      /\ \A t \in Tabs : active[t] = {j \in HeldJobs : j.tab = t}
      /\ \A t \in Tabs : Superseded(t) = {j \in HeldJobs \cup Elements(jobs) : j.tab = t}
      /\ \A w \in Workers : Marked(w) => worker[w].job \in HeldJobs
  BY PoolJobs
<1>4. worker' \in [Workers -> ThreadSet(J)]
  BY <1>1, NotifyEffect
<1>5. WorkKept
  <2>1. \A w \in Workers : worker'[w] = worker[w]
                            \/ (worker[w].pc = "asleep" /\ worker'[w] = Resting("awake"))
    BY <1>1, NotifyEffect
  <2> QED  BY <2>1 DEF WorkKept, Resting, MarkedAt
<1>6. /\ HeldJobs' = HeldJobs /\ OwnJobs'
      /\ \A w \in Workers : Marked(w)' => Marked(w) /\ worker'[w] = worker[w]
  BY <1>4, <1>5, KeptEffect
<1>7. /\ job.tab \in Tabs /\ job.generation \in Nat \ {0} /\ job # NoJob
      /\ \A j \in J : j # NoJob /\ j.tab \in Tabs /\ j.generation \in Nat \ {0}
  BY JobTypes
<1>8. /\ submitted \in [Tabs -> J \cup {NoJob}] /\ submitted' \in [Tabs -> J \cup {NoJob}]
      /\ submitted'[job.tab] = job
      /\ \A t \in Tabs : t # job.tab => submitted'[t] = submitted[t]
  BY <1>1, <1>7 DEF PoolInv, PoolTypes
<1>9. /\ \A j \in HeldJobs \cup Elements(jobs) : Known(j) /\ Known(j)'
      /\ Known(job)' /\ job \notin HeldJobs \cup Elements(jobs)
  <2>1. \A j \in HeldJobs : Known(j)
    BY <1>3 DEF PoolInv, ThreadsOk, ThreadOk, HeldJobs, Marked, MarkedAt
  <2>2. \A j \in Elements(jobs) : Known(j)
    BY DEF PoolInv, OneSlot
  <2>3. \A j \in HeldJobs \cup Elements(jobs) : j # job /\ Known(j)'
    <3> TAKE j \in HeldJobs \cup Elements(jobs)
    <3>1. j \in J /\ Known(j) /\ j.tab \in Tabs /\ j.generation \in Nat
      BY <1>3, <1>7, <2>1, <2>2
    <3>2. submitted[j.tab].generation \in Nat
      BY <1>7, <1>8, <3>1 DEF NoJob
    <3>3. CASE j.tab = job.tab
      BY <1>7, <1>8, <3>1, <3>2, <3>3 DEF Known
    <3>4. CASE j.tab # job.tab
      BY <1>8, <3>1, <3>4 DEF Known
    <3> QED  BY <3>3, <3>4
  <2> QED  BY <1>7, <1>8, <2>1, <2>2, <2>3 DEF Known
<1>10. PoolTypes(J)'
  <2>1. cancelled' \subseteq J /\ taken' \subseteq J
    BY <1>1, <1>2, <1>3, <1>7 DEF PoolInv, PoolTypes, Without
  <2> QED  BY <1>1, <1>2, <1>4, <1>8, <2>1 DEF PoolInv, PoolTypes
<1>11. MarkersExact'
  BY <1>1, <1>3, <1>6 DEF MarkersExact
<1>12. OneSlot'
  <2>1. \A i, j \in Elements(jobs') : i.tab = j.tab => i = j
    BY <1>2 DEF PoolInv, OneSlot
  <2>2. \A j \in Elements(jobs') : Known(j)' /\ j \notin HeldJobs'
    BY <1>2, <1>6, <1>9 DEF PoolInv, OneSlot
  <2> QED  BY <1>2, <2>1, <2>2 DEF OneSlot
<1>13. ThreadsOk'
  <2> SUFFICES ASSUME NEW w \in Workers PROVE ThreadOk(worker[w])'
    BY DEF ThreadsOk
  <2>1. CASE ~Marked(w)'
    BY <2>1, <1>5, KeptEffect DEF PoolInv, ThreadsOk, ThreadOk, WorkKept, Marked, MarkedAt
  <2>2. CASE Marked(w)'
    <3> DEFINE j == worker[w].job
    <3>1. /\ worker'[w] = worker[w] /\ j \in HeldJobs /\ j \in J /\ ThreadOk(worker[w])
          /\ j.tab \in Tabs /\ worker[w].pc \in MarkedAt
      BY <1>3, <1>6, <1>7, <2>2 DEF PoolInv, ThreadsOk, Marked, MarkedAt
    <3>2. j \in cancelled => j \in cancelled'
      BY <1>2, <1>3, <3>1 DEF Without
    <3>3. Accounted(j) => Accounted(j)'
      BY <1>1, <1>8, <1>9, <3>1, <3>2 DEF Accounted, Jobs
    <3> QED  BY <1>9, <3>1, <3>2, <3>3 DEF ThreadOk
  <2> QED  BY <2>1, <2>2
<1>14. OwnSubmissions'
  BY <1>8 DEF PoolInv, OwnSubmissions
<1>15. \A t \in Tabs : Superseded(t)' = {j \in HeldJobs \cup Elements(jobs') : j.tab = t}
  BY <1>1, <1>3 DEF Superseded, QueuedFor
<1>16. LatestWins'
  <2> SUFFICES ASSUME NEW t \in Tabs, NEW j \in HeldJobs \cup Elements(jobs'),
                      j.tab = t, j \notin cancelled'
               PROVE  j = submitted'[t]
    BY <1>15 DEF LatestWins
  <2>1. CASE t = job.tab
    BY <1>2, <1>3, <1>8, <2>1
  <2>2. CASE t # job.tab
    <3>1. j \in Superseded(t) /\ j \notin cancelled
      BY <1>2, <1>3, <2>2 DEF Without
    <3> QED  BY <1>8, <2>2, <3>1 DEF PoolInv, LatestWins
  <2> QED  BY <2>1, <2>2
<1>17. NeverOutOfSight'
  <2> SUFFICES ASSUME NEW t \in Tabs, submitted'[t] # NoJob, submitted'[t] \notin cancelled',
                      submitted'[t] \notin taken', submitted'[t] \notin Jobs(completed)'
               PROVE  submitted'[t] \in Superseded(t)'
    BY DEF NeverOutOfSight
  <2>1. CASE t = job.tab
    BY <1>2, <1>8, <1>15, <2>1
  <2>2. CASE t # job.tab
    <3>1. submitted'[t] = submitted[t] /\ submitted[t].tab = t
      BY <1>8, <2>2 DEF PoolInv, OwnSubmissions
    <3>2. submitted[t] \notin cancelled \cup taken \cup Jobs(completed)
      BY <1>1, <1>2, <2>2, <3>1 DEF Without, Jobs
    <3>3. submitted[t] \in Superseded(t)
      BY <3>1, <3>2 DEF PoolInv, NeverOutOfSight
    <3> QED  BY <1>2, <1>3, <1>15, <2>2, <3>1, <3>3
  <2> QED  BY <2>1, <2>2
<1> QED  BY <1>6, <1>10, <1>11, <1>12, <1>13, <1>14, <1>16, <1>17 DEF PoolInv

(* A step that drops queued jobs, all of them with their tokens set, and      *)
(* moves threads that hold none.                                            *)
LEMMA ShedKeeps ==
    ASSUME NEW J, JobsOf(J), PoolInv(J),
           jobs' \in Seq(J), Len(jobs') <= QueueCapacity, Distinct(jobs'),
           Elements(jobs') \subseteq Elements(jobs),
           Elements(jobs) \ Elements(jobs') \subseteq cancelled',
           cancelled \subseteq cancelled', cancelled' \subseteq J,
           worker' \in [Workers -> ThreadSet(J)], WorkKept,
           stopped' \in BOOLEAN, wake' \in BOOLEAN,
           UNCHANGED <<active, completed, submitted, taken>>
    PROVE  PoolInv(J)'
<1>1. /\ HeldJobs' = HeldJobs /\ OwnJobs'
      /\ \A w \in Workers : Marked(w)' => Marked(w) /\ worker'[w] = worker[w]
  BY KeptEffect
<1>2. /\ \A t \in Tabs : active[t] = {j \in HeldJobs : j.tab = t}
      /\ \A t \in Tabs : Superseded(t) = {j \in HeldJobs \cup Elements(jobs) : j.tab = t}
  BY PoolJobs
<1>3. PoolTypes(J)'
  BY DEF PoolInv, PoolTypes
<1>4. MarkersExact'
  BY <1>1, <1>2 DEF MarkersExact
<1>5. OneSlot'
  BY <1>1 DEF PoolInv, OneSlot, Known
<1>6. ThreadsOk'
  <2> SUFFICES ASSUME NEW w \in Workers PROVE ThreadOk(worker[w])'
    BY DEF ThreadsOk
  <2>1. CASE worker'[w] = worker[w]
    BY <2>1 DEF PoolInv, ThreadsOk, ThreadOk, Known, Accounted, Jobs
  <2>2. CASE worker'[w].pc \notin MarkedAt /\ worker'[w].job = NoJob
    BY <2>2 DEF ThreadOk, MarkedAt
  <2> QED  BY <2>1, <2>2 DEF WorkKept
<1>7. OwnSubmissions'
  BY DEF PoolInv, OwnSubmissions
<1>8. \A t \in Tabs : Superseded(t)' = {j \in HeldJobs \cup Elements(jobs') : j.tab = t}
  BY <1>2 DEF Superseded, QueuedFor
<1>9. LatestWins'
  BY <1>2, <1>8 DEF PoolInv, LatestWins
<1>10. NeverOutOfSight'
  <2> SUFFICES ASSUME NEW t \in Tabs, submitted[t] \notin {NoJob} \cup cancelled' \cup taken,
                      submitted[t] \notin Jobs(completed)
               PROVE  submitted[t] \in Superseded(t)'
    BY DEF NeverOutOfSight, Jobs
  <2>1. submitted[t] \in Superseded(t)
    BY DEF PoolInv, NeverOutOfSight
  <2> QED  BY <1>2, <1>8, <2>1
<1> QED  BY <1>1, <1>3, <1>4, <1>5, <1>6, <1>7, <1>9, <1>10 DEF PoolInv

LEMMA CancelKeeps ==
    ASSUME NEW J, JobsOf(J), PoolInv(J), NEW t \in Tabs, CancelTab(t)
    PROVE  PoolInv(J)'
<1>1. /\ jobs' = Others(t) /\ cancelled' = cancelled \cup Superseded(t)
      /\ UNCHANGED <<active, stopped, completed, worker, wake, submitted, taken>>
  BY DEF CancelTab
<1>2. /\ Elements(jobs) \subseteq J /\ HeldJobs \subseteq J
      /\ Superseded(t) = {j \in HeldJobs \cup Elements(jobs) : j.tab = t}
  BY PoolJobs
<1>3. /\ Others(t) \in Seq(J) /\ Distinct(Others(t)) /\ Len(Others(t)) <= QueueCapacity
      /\ Elements(Others(t)) = {j \in Elements(jobs) : j.tab # t}
  BY OthersEffect
<1>4. WorkKept
  BY <1>1 DEF WorkKept
<1>5. cancelled' \subseteq J /\ Elements(jobs) \ Elements(jobs') \subseteq cancelled'
  BY <1>1, <1>2, <1>3 DEF PoolInv, PoolTypes
<1>6. worker' \in [Workers -> ThreadSet(J)] /\ stopped' \in BOOLEAN /\ wake' \in BOOLEAN
  BY <1>1 DEF PoolInv, PoolTypes
<1>7. Elements(jobs') \subseteq Elements(jobs)
  BY <1>1, <1>3
<1> QED  BY <1>1, <1>3, <1>4, <1>5, <1>6, <1>7, ShedKeeps

LEMMA StopKeeps ==
    ASSUME NEW J, JobsOf(J), PoolInv(J), StopShared
    PROVE  PoolInv(J)'
<1>1. /\ jobs' = <<>> /\ stopped' = TRUE /\ NotifyAll
      /\ cancelled' = cancelled \cup Elements(jobs) \cup UNION {active[t] : t \in Tabs}
      /\ UNCHANGED <<active, completed, wake, submitted, taken>>
  BY DEF StopShared
<1>2. Elements(jobs) \subseteq J
  BY PoolJobs
<1>3. /\ worker' \in [Workers -> ThreadSet(J)]
      /\ \A w \in Workers : worker'[w] = worker[w]
                             \/ (worker[w].pc = "asleep" /\ worker'[w] = Resting("awake"))
  BY <1>1, NotifyEffect
<1>4. WorkKept
  BY <1>3 DEF WorkKept, Resting, MarkedAt
<1>5. /\ jobs' \in Seq(J) /\ Len(jobs') <= QueueCapacity /\ Distinct(jobs') /\ Elements(jobs') = {}
  BY <1>1, EmptySeq, PoolAssumption DEF Distinct, Elements
<1>6. cancelled' \subseteq J /\ cancelled \subseteq cancelled' /\ Elements(jobs) \subseteq cancelled'
  BY <1>1, <1>2 DEF PoolInv, PoolTypes
<1>7. stopped' \in BOOLEAN /\ wake' \in BOOLEAN
  BY <1>1 DEF PoolInv, PoolTypes
<1> QED  BY <1>1, <1>3, <1>4, <1>5, <1>6, <1>7, ShedKeeps

(* What is handed over leaves the completions for the taken ones.            *)
LEMMA DrainKeeps ==
    ASSUME NEW J, JobsOf(J), PoolInv(J), Drain, wake' \in BOOLEAN
    PROVE  PoolInv(J)'
<1>1. /\ completed' = <<>> /\ taken' = taken \cup Latest(Jobs(completed))
      /\ UNCHANGED <<jobs, active, stopped, cancelled, worker, submitted>>
  BY DEF Drain
<1>2. Jobs(completed) \subseteq J /\ HeldJobs \subseteq J
  BY PoolJobs
<1>3. /\ HeldJobs' = HeldJobs /\ OwnJobs' /\ MarkersExact' /\ OneSlot' /\ OwnSubmissions'
  BY <1>1 DEF PoolInv, HeldJobs, OwnJobs, MarkersExact, OneSlot, OwnSubmissions, Marked, Known
<1>4. PoolTypes(J)'
  <2>1. completed' \in Seq(CompletionSet(J)) /\ Len(completed') <= CompletionCapacity
    BY <1>1, EmptySeq, PoolAssumption DEF CompletionCapacity
  <2> QED  BY <1>1, <1>2, <2>1 DEF PoolInv, PoolTypes, Latest
<1>5. ThreadsOk'
  <2> SUFFICES ASSUME NEW w \in Workers PROVE ThreadOk(worker[w])'
    BY DEF ThreadsOk
  <2>1. Accounted(worker[w].job) => Accounted(worker[w].job)'
    BY <1>1 DEF Accounted, Latest
  <2> QED  BY <1>1, <2>1 DEF PoolInv, ThreadsOk, ThreadOk, Known
<1>6. \A t \in Tabs : Superseded(t)' = Superseded(t)
  BY <1>1 DEF Superseded, QueuedFor
<1>7. LatestWins'
  BY <1>1, <1>6 DEF PoolInv, LatestWins
<1>8. NeverOutOfSight'
  <2> SUFFICES ASSUME NEW t \in Tabs, submitted[t] \notin {NoJob} \cup cancelled \cup taken'
               PROVE  submitted[t] \in Superseded(t)
    BY <1>1, <1>6 DEF NeverOutOfSight
  <2>1. submitted[t].tab = t
    BY DEF PoolInv, OwnSubmissions
  <2>2. submitted[t] \notin Jobs(completed) /\ submitted[t] \notin taken
    BY <1>1, <2>1 DEF Latest
  <2> QED  BY <2>2 DEF PoolInv, NeverOutOfSight
<1> QED  BY <1>3, <1>4, <1>5, <1>7, <1>8 DEF PoolInv

------------------------------------------------------------------------------
(* The threads.                                                              *)

(* A thread that holds no job, and takes none.                               *)
LEMMA IdleKeeps ==
    ASSUME NEW J, JobsOf(J), PoolInv(J), NEW w \in Workers, worker[w].pc \notin MarkedAt,
           NEW pc \in Places \ MarkedAt, worker' = [worker EXCEPT ![w] = Resting(pc)],
           UNCHANGED <<queueVars, completed, submitted, taken>>, wake' \in BOOLEAN
    PROVE  PoolInv(J)'
<1>1. /\ UNCHANGED <<jobs, active, stopped, cancelled, completed, submitted, taken>>
      /\ jobs \in Seq(J) /\ Len(jobs) <= QueueCapacity /\ Distinct(jobs) /\ stopped \in BOOLEAN
      /\ cancelled \subseteq J
  BY DEF queueVars, PoolInv, PoolTypes, OneSlot
<1>2. worker' \in [Workers -> ThreadSet(J)] /\ WorkKept
  <2>1. Resting(pc) \in ThreadSet(J) /\ Resting(pc).pc = pc /\ Resting(pc).job = NoJob
    BY DEF Resting, ThreadSet, Endings
  <2> QED  BY <2>1 DEF PoolInv, PoolTypes, WorkKept
<1> QED  BY <1>1, <1>2, ShedKeeps

LEMMA PopKeeps ==
    ASSUME NEW J, JobsOf(J), PoolInv(J), NEW w \in Workers, Pop(w)
    PROVE  PoolInv(J)'
<1> DEFINE job == Head(jobs)
<1>1. /\ worker[w].pc = "awake" /\ jobs # <<>> /\ jobs' = Tail(jobs)
      /\ active' = [active EXCEPT ![job.tab] = @ \cup {job}]
      /\ worker' = [worker EXCEPT ![w].pc = "rendering", ![w].job = job]
      /\ UNCHANGED <<stopped, cancelled, completed, wake, submitted, taken>>
  BY DEF Pop, At
<1>2. /\ jobs \in Seq(J) /\ worker \in [Workers -> ThreadSet(J)] /\ Distinct(jobs)
      /\ active \in [Tabs -> SUBSET J] /\ Len(jobs) \in Nat
  BY LenProperties DEF PoolInv, PoolTypes, OneSlot
<1>3. /\ job \in J /\ Tail(jobs) \in Seq(J) /\ Len(Tail(jobs)) = Len(jobs) - 1
      /\ Elements(jobs) = {job} \cup Elements(Tail(jobs))
      /\ Distinct(Tail(jobs)) /\ job \notin Elements(Tail(jobs))
  BY <1>1, <1>2, PopProperties
<1>4. /\ HeldJobs \subseteq J /\ job \notin HeldJobs /\ Known(job) /\ job # NoJob /\ job.tab \in Tabs
      /\ \A t \in Tabs : active[t] = {j \in HeldJobs : j.tab = t}
      /\ \A t \in Tabs : Superseded(t) = {j \in HeldJobs \cup Elements(jobs) : j.tab = t}
      /\ ~Marked(w)
  BY <1>1, <1>3, PoolJobs, JobTypes DEF PoolInv, OneSlot, Marked
<1> HIDE DEF job
<1>5. /\ worker' \in [Workers -> ThreadSet(J)]
      /\ worker'[w].pc = "rendering" /\ worker'[w].job = job
      /\ \A v \in Workers : v # w => worker'[v] = worker[v]
  BY <1>1, <1>2, <1>3 DEF ThreadSet, Places, MarkedAt
<1>6. /\ Marked(w)' /\ \A v \in Workers : v # w => (Marked(v)' <=> Marked(v))
      /\ HeldJobs' = HeldJobs \cup {job}
  <2>1. Marked(w)' /\ \A v \in Workers : v # w => (Marked(v)' <=> Marked(v))
    BY <1>5 DEF Marked
  <2> QED  BY <1>4, <1>5, <2>1 DEF HeldJobs
<1>7. OwnJobs'
  <2>1. \A v \in Workers : Marked(v) => worker[v].job # job
    BY <1>4 DEF HeldJobs
  <2> QED  BY <1>5, <1>6, <2>1 DEF PoolInv, OwnJobs
<1>8. PoolTypes(J)'
  <2>1. Len(Tail(jobs)) <= QueueCapacity
    BY <1>2, <1>3, PoolAssumption DEF PoolInv, PoolTypes
  <2>2. active' \in [Tabs -> SUBSET J]
    BY <1>1, <1>2, <1>3, <1>4
  <2> QED  BY <1>1, <1>3, <1>5, <2>1, <2>2 DEF PoolInv, PoolTypes
<1>9. MarkersExact'
  BY <1>1, <1>2, <1>4, <1>6 DEF MarkersExact
<1>10. OneSlot'
  BY <1>1, <1>3, <1>6 DEF PoolInv, OneSlot, Known
<1>11. ThreadsOk'
  <2> SUFFICES ASSUME NEW v \in Workers PROVE ThreadOk(worker[v])'
    BY DEF ThreadsOk
  <2>1. CASE v = w
    BY <1>1, <1>4, <1>5, <2>1 DEF ThreadOk, MarkedAt, Known
  <2>2. CASE v # w
    BY <1>1, <1>5, <2>2 DEF PoolInv, ThreadsOk, ThreadOk, Known, Accounted, Jobs
  <2> QED  BY <2>1, <2>2
<1>12. OwnSubmissions'
  BY <1>1 DEF PoolInv, OwnSubmissions
<1>13. \A t \in Tabs : Superseded(t)' = Superseded(t)
  <2>1. \A t \in Tabs : Superseded(t)' = {j \in HeldJobs' \cup Elements(jobs') : j.tab = t}
    BY <1>9 DEF MarkersExact, Superseded, QueuedFor
  <2>2. HeldJobs' \cup Elements(jobs') = HeldJobs \cup Elements(jobs)
    BY <1>1, <1>3, <1>6
  <2> QED  BY <1>4, <2>1, <2>2
<1>14. LatestWins' /\ NeverOutOfSight'
  BY <1>1, <1>13 DEF PoolInv, LatestWins, NeverOutOfSight, Jobs
<1> QED  BY <1>7, <1>8, <1>9, <1>10, <1>11, <1>12, <1>14 DEF PoolInv

(* A thread that goes on with its job, and may add to the completions: what   *)
(* the queue of completions loses has been taken, if it is a last submission. *)
LEMMA ProgressKeeps ==
    ASSUME NEW J, JobsOf(J), PoolInv(J), NEW w \in Workers, worker[w].pc \in MarkedAt,
           NEW r \in ThreadSet(J), worker' = [worker EXCEPT ![w] = r],
           r.pc \in MarkedAt, r.job = worker[w].job, ThreadOk(worker[w])',
           completed' \in Seq(CompletionSet(J)), Len(completed') <= CompletionCapacity,
           taken \subseteq taken', taken' \subseteq J,
           \A j \in Jobs(completed) : j \in Jobs(completed)' \cup taken' \/ j # submitted[j.tab],
           UNCHANGED <<queueVars, wake, submitted>>
    PROVE  PoolInv(J)'
<1>1. /\ worker \in [Workers -> ThreadSet(J)] /\ worker' \in [Workers -> ThreadSet(J)]
      /\ worker'[w] = r /\ \A v \in Workers : v # w => worker'[v] = worker[v]
      /\ UNCHANGED <<jobs, active, stopped, cancelled, wake, submitted>>
  BY DEF PoolInv, PoolTypes, queueVars
<1>2. \A v \in Workers : (Marked(v)' <=> Marked(v)) /\ worker'[v].job = worker[v].job
  BY <1>1 DEF Marked, MarkedAt
<1>3. HeldJobs' = HeldJobs /\ OwnJobs'
  BY <1>2 DEF HeldJobs, OwnJobs, PoolInv
<1>4. PoolTypes(J)'
  BY <1>1 DEF PoolInv, PoolTypes
<1>5. MarkersExact' /\ OneSlot' /\ OwnSubmissions'
  BY <1>1, <1>3 DEF PoolInv, MarkersExact, OneSlot, OwnSubmissions, Known
<1>6. ThreadsOk'
  <2> SUFFICES ASSUME NEW v \in Workers, v # w PROVE ThreadOk(worker[v])'
    BY DEF ThreadsOk
  <2>1. ThreadOk(worker[v]) /\ worker'[v] = worker[v]
    BY <1>1 DEF PoolInv, ThreadsOk
  <2>2. Accounted(worker[v].job) => Accounted(worker[v].job)'
    BY <1>1, <2>1 DEF Accounted
  <2> QED  BY <1>1, <2>1, <2>2 DEF ThreadOk, Known
<1>7. \A t \in Tabs : Superseded(t)' = Superseded(t)
  BY <1>1 DEF Superseded, QueuedFor
<1>8. LatestWins'
  BY <1>1, <1>7 DEF PoolInv, LatestWins
<1>9. NeverOutOfSight'
  <2> SUFFICES ASSUME NEW t \in Tabs, submitted[t] \notin {NoJob} \cup cancelled \cup taken',
                      submitted[t] \notin Superseded(t)
               PROVE  submitted[t] \in Jobs(completed)'
    BY <1>1, <1>7 DEF NeverOutOfSight
  <2>1. submitted[t].tab = t
    BY DEF PoolInv, OwnSubmissions
  <2>2. submitted[t] \in Jobs(completed)
    BY DEF PoolInv, NeverOutOfSight
  <2> QED  BY <2>1, <2>2
<1> QED  BY <1>3, <1>4, <1>5, <1>6, <1>8, <1>9 DEF PoolInv

LEMMA RenderKeeps ==
    ASSUME NEW J, JobsOf(J), PoolInv(J), NEW w \in Workers, Render(w) \/ Decide(w)
    PROVE  PoolInv(J)'
<1>1. /\ UNCHANGED <<queueVars, completed, wake, submitted, taken>>
      /\ UNCHANGED <<jobs, active, stopped, cancelled>>
  BY DEF Render, Decide, queueVars
<1>2. /\ worker \in [Workers -> ThreadSet(J)] /\ worker[w] \in ThreadSet(J)
      /\ ThreadOk(worker[w]) /\ taken \subseteq J
      /\ completed \in Seq(CompletionSet(J)) /\ Len(completed) <= CompletionCapacity
  BY DEF PoolInv, PoolTypes, ThreadsOk
<1>3. \E r \in ThreadSet(J) :
         /\ worker' = [worker EXCEPT ![w] = r] /\ r.pc \in MarkedAt /\ r.job = worker[w].job
         /\ r.pc = "publishing" => r.published
         /\ r.pc = "unmarking" => ~r.published /\ r.job \in cancelled
  <2>1. CASE Render(w)
    <3>1. PICK result \in Endings :
            worker' = [worker EXCEPT ![w].pc = "rendered", ![w].result = result]
      BY <2>1 DEF Render, Endings
    <3> DEFINE r == [worker[w] EXCEPT !.pc = "rendered", !.result = result]
    <3>2. r \in ThreadSet(J) /\ r.pc = "rendered" /\ r.job = worker[w].job
      BY <1>2 DEF ThreadSet, Places, MarkedAt
    <3>3. worker' = [worker EXCEPT ![w] = r]
      BY <3>1
    <3> HIDE DEF r
    <3> QED  BY <3>2, <3>3 DEF MarkedAt
  <2>2. CASE Decide(w)
    <3> DEFINE publish == worker[w].job \notin cancelled \/ worker[w].result = "panicked"
               r == [worker[w] EXCEPT !.pc = IF publish THEN "publishing" ELSE "unmarking",
                                      !.published = publish]
    <3>1. worker' = [worker EXCEPT ![w] = r]
      BY <2>2 DEF Decide
    <3>2. /\ publish \in BOOLEAN /\ r \in ThreadSet(J) /\ r.job = worker[w].job /\ r.published = publish
          /\ r.pc = IF publish THEN "publishing" ELSE "unmarking"
      BY <1>2 DEF ThreadSet, Places, MarkedAt
    <3>3. ~publish => worker[w].job \in cancelled
      OBVIOUS
    <3> HIDE DEF r, publish
    <3> QED  BY <3>1, <3>2, <3>3 DEF MarkedAt
  <2> QED  BY <2>1, <2>2
<1>4. PICK r \in ThreadSet(J) :
         /\ worker' = [worker EXCEPT ![w] = r] /\ r.pc \in MarkedAt /\ r.job = worker[w].job
         /\ r.pc = "publishing" => r.published
         /\ r.pc = "unmarking" => ~r.published /\ r.job \in cancelled
  BY <1>3
<1>5. worker[w].pc \in MarkedAt /\ worker'[w] = r
  BY <1>2, <1>4 DEF Render, Decide, At, MarkedAt
<1>6. ThreadOk(worker[w])'
  BY <1>1, <1>2, <1>4, <1>5 DEF ThreadOk, Known
<1>7. \A j \in Jobs(completed) : j \in Jobs(completed)'
  BY <1>1 DEF Jobs
<1> QED  BY <1>1, <1>2, <1>4, <1>5, <1>6, <1>7, ProgressKeeps

(* A completion is added, and the oldest one is dropped when there is no room. *)
LEMMA CompletedEffect ==
    ASSUME NEW J, JobsOf(J), PoolInv(J), NEW w \in Workers, Publish(w)
    PROVE  /\ completed' \in Seq(CompletionSet(J)) /\ Len(completed') <= CompletionCapacity
           /\ taken \subseteq taken' /\ taken' \subseteq J
           /\ Jobs(completed)' \subseteq Jobs(completed) \cup {worker[w].job}
           /\ Elements(completed') \subseteq Elements(completed)
                              \cup {[job |-> worker[w].job, result |-> worker[w].result]}
           /\ worker[w].job \in Jobs(completed)'
           /\ \A j \in Jobs(completed) : j \in Jobs(completed)' \cup taken' \/ j # submitted[j.tab]
<1> DEFINE c == [job |-> worker[w].job, result |-> worker[w].result]
           full == Len(completed) = CompletionCapacity
           base == IF full THEN Tail(completed) ELSE completed
<1>1. /\ worker[w].pc = "publishing" /\ completed' = Append(base, c)
      /\ taken' = IF full THEN taken \cup Latest({Head(completed).job}) ELSE taken
  BY DEF Publish, At
<1>2. /\ completed \in Seq(CompletionSet(J)) /\ Len(completed) \in Nat
      /\ Len(completed) <= CompletionCapacity /\ CompletionCapacity \in Nat \ {0}
      /\ worker[w] \in ThreadSet(J) /\ taken \subseteq J /\ Jobs(completed) \subseteq J
  BY LenProperties, PoolAssumption, PoolJobs DEF PoolInv, PoolTypes, CompletionCapacity
<1>3. worker[w].job \in J /\ c \in CompletionSet(J)
  <2>1. worker[w].job \in J
    BY <1>1, PoolJobs DEF Marked
  <2> QED  BY <1>2, <2>1 DEF CompletionSet, ThreadSet
<1> HIDE DEF c
<1>4. /\ base \in Seq(CompletionSet(J)) /\ Len(base) + 1 <= CompletionCapacity
      /\ Elements(completed) = Elements(base) \cup IF full THEN {Head(completed)} ELSE {}
  <2>1. CASE full
    <3>1. completed # <<>>
      BY <1>2, <2>1, EmptySeq
    <3>2. /\ Tail(completed) \in Seq(CompletionSet(J)) /\ Len(Tail(completed)) = Len(completed) - 1
          /\ Elements(completed) = {Head(completed)} \cup Elements(Tail(completed))
      BY <1>2, <3>1, PopProperties
    <3> QED  BY <1>2, <2>1, <3>2
  <2>2. CASE ~full
    BY <1>2, <2>2
  <2> QED  BY <2>1, <2>2
<1> HIDE DEF base
<1>5. /\ completed' \in Seq(CompletionSet(J)) /\ Len(completed') = Len(base) + 1
      /\ Elements(completed') = Elements(base) \cup {c}
  BY <1>1, <1>3, <1>4, PushProperties
<1>6. Jobs(completed)' = {d.job : d \in Elements(base)} \cup {worker[w].job}
  <2>1. c.job = worker[w].job
    BY DEF c
  <2>2. Jobs(completed)' = {d.job : d \in Elements(base) \cup {c}}
    BY <1>5 DEF Jobs
  <2> QED  BY <2>1, <2>2
<1>7. Jobs(completed) = {d.job : d \in Elements(base)} \cup IF full THEN {Head(completed).job} ELSE {}
  BY <1>4 DEF Jobs
<1>8. taken \subseteq taken' /\ taken' \subseteq J
  BY <1>1, <1>2, <1>7 DEF Latest
<1>9. \A j \in Jobs(completed) : j \in Jobs(completed)' \cup taken' \/ j # submitted[j.tab]
  BY <1>1, <1>6, <1>7 DEF Latest
<1> QED  BY <1>4, <1>5, <1>6, <1>7, <1>8, <1>9 DEF c

LEMMA PublishKeeps ==
    ASSUME NEW J, JobsOf(J), PoolInv(J), NEW w \in Workers, Publish(w)
    PROVE  PoolInv(J)'
<1> DEFINE r == [worker[w] EXCEPT !.pc = "unmarking", !.result = "none"]
<1>1. /\ worker[w].pc = "publishing" /\ UNCHANGED <<queueVars, wake, submitted>>
      /\ worker' = [worker EXCEPT ![w] = r]
  BY DEF Publish, At
<1>2. /\ worker \in [Workers -> ThreadSet(J)] /\ worker[w] \in ThreadSet(J) /\ ThreadOk(worker[w])
  BY DEF PoolInv, PoolTypes, ThreadsOk
<1>3. /\ r \in ThreadSet(J) /\ r.pc = "unmarking" /\ r.job = worker[w].job
      /\ r.published = worker[w].published
  BY <1>2 DEF ThreadSet, Places, MarkedAt, Endings
<1> HIDE DEF r
<1>4. /\ completed' \in Seq(CompletionSet(J)) /\ Len(completed') <= CompletionCapacity
      /\ taken \subseteq taken' /\ taken' \subseteq J
      /\ worker[w].job \in Jobs(completed)'
      /\ \A j \in Jobs(completed) : j \in Jobs(completed)' \cup taken' \/ j # submitted[j.tab]
  BY CompletedEffect
<1>5. worker'[w] = r
  BY <1>1, <1>2
<1>6. ThreadOk(worker[w])'
  BY <1>1, <1>2, <1>3, <1>4, <1>5 DEF ThreadOk, Known, Accounted, MarkedAt
<1>7. worker[w].pc \in MarkedAt /\ r.pc \in MarkedAt
  BY <1>1, <1>3 DEF MarkedAt
<1> QED  BY <1>1, <1>3, <1>4, <1>6, <1>7, ProgressKeeps

(* A job leaves the markers for good, and is accounted for without them.     *)
LEMMA UnmarkKeeps ==
    ASSUME NEW J, JobsOf(J), PoolInv(J), NEW w \in Workers, Unmark(w)
    PROVE  PoolInv(J)'
<1> DEFINE job == worker[w].job
           r == worker'[w]
<1>1. /\ worker[w].pc = "unmarking" /\ UNCHANGED <<jobs, stopped, completed, wake, submitted, taken>>
      /\ active' = [active EXCEPT ![job.tab] = @ \ {job}]
      /\ cancelled' = cancelled \ ({job} \ Latest({job}))
      /\ worker' = [worker EXCEPT ![w] = IF worker[w].published
                                        THEN [Resting("waking") EXCEPT !.published = TRUE]
                                        ELSE Resting("awake")]
  BY DEF Unmark, At
<1>2. /\ worker \in [Workers -> ThreadSet(J)] /\ ThreadOk(worker[w])
      /\ active \in [Tabs -> SUBSET J] /\ OwnJobs /\ OneSlot
  BY DEF PoolInv, PoolTypes, ThreadsOk
<1>3. /\ HeldJobs \subseteq J /\ job \in HeldJobs /\ job \in J /\ job # NoJob /\ job.tab \in Tabs
      /\ \A t \in Tabs : active[t] = {j \in HeldJobs : j.tab = t}
      /\ \A t \in Tabs : Superseded(t) = {j \in HeldJobs \cup Elements(jobs) : j.tab = t}
      /\ Marked(w)
  <2>1. Marked(w)
    BY <1>1 DEF Marked
  <2> QED  BY <2>1, PoolJobs, JobTypes
<1>4. /\ worker' \in [Workers -> ThreadSet(J)] /\ r.pc \in {"waking", "awake"} /\ r.job = NoJob
      /\ \A v \in Workers : v # w => worker'[v] = worker[v]
  <2>1. /\ Resting("awake") \in ThreadSet(J) /\ Resting("awake").pc = "awake"
        /\ Resting("awake").job = NoJob
    BY DEF Resting, ThreadSet, Places, Endings
  <2>2. /\ [Resting("waking") EXCEPT !.published = TRUE] \in ThreadSet(J)
        /\ [Resting("waking") EXCEPT !.published = TRUE].pc = "waking"
        /\ [Resting("waking") EXCEPT !.published = TRUE].job = NoJob
    BY DEF Resting, ThreadSet, Places, Endings
  <2> QED  BY <1>1, <1>2, <2>1, <2>2
<1>5. /\ ~Marked(w)' /\ \A v \in Workers : v # w => (Marked(v)' <=> Marked(v))
      /\ \A v \in Workers : v # w /\ Marked(v) => worker[v].job # job
  BY <1>2, <1>3, <1>4 DEF Marked, OwnJobs
<1>6. HeldJobs' = HeldJobs \ {job} /\ OwnJobs'
  BY <1>2, <1>4, <1>5 DEF HeldJobs, OwnJobs
<1> HIDE DEF job, r
<1>7. PoolTypes(J)'
  <2>1. active' \in [Tabs -> SUBSET J] /\ cancelled' \subseteq J
    BY <1>1, <1>2 DEF PoolInv, PoolTypes
  <2> QED  BY <1>1, <1>4, <2>1 DEF PoolInv, PoolTypes
<1>8. MarkersExact'
  BY <1>1, <1>2, <1>3, <1>6 DEF MarkersExact
<1>9. OneSlot' /\ OwnSubmissions'
  BY <1>1, <1>2, <1>6 DEF PoolInv, OneSlot, OwnSubmissions, Known
<1>10. ThreadsOk'
  <2> SUFFICES ASSUME NEW v \in Workers PROVE ThreadOk(worker[v])'
    BY DEF ThreadsOk
  <2>1. CASE v = w
    BY <1>4, <2>1 DEF ThreadOk, MarkedAt, r
  <2>2. CASE v # w
    <3>1. worker'[v] = worker[v] /\ ThreadOk(worker[v])
      BY <1>4, <2>2 DEF PoolInv, ThreadsOk
    <3>2. worker[v].pc \in MarkedAt => worker[v].job # job
      BY <1>5, <2>2 DEF Marked, MarkedAt
    <3>3. worker[v].pc = "unmarking" /\ worker[v].published => Accounted(worker[v].job)'
      <4> SUFFICES ASSUME worker[v].pc = "unmarking", worker[v].published,
                          worker[v].job = submitted[worker[v].job.tab]
                   PROVE  worker[v].job \in cancelled' \cup taken \cup Jobs(completed)
        BY <1>1, <3>1 DEF Accounted, Jobs
      <4>1. worker[v].job \in cancelled \cup taken \cup Jobs(completed)
        BY <3>1 DEF ThreadOk, Accounted
      <4> QED  BY <1>1, <3>2, <4>1 DEF MarkedAt
    <3>4. worker[v].pc = "unmarking" /\ ~worker[v].published => worker[v].job \in cancelled'
      BY <1>1, <3>1, <3>2 DEF ThreadOk, MarkedAt
    <3> QED  BY <1>1, <3>1, <3>3, <3>4 DEF ThreadOk, Known
  <2> QED  BY <2>1, <2>2
<1>11. \A t \in Tabs : Superseded(t)' = Superseded(t) \ {job}
  <2>1. \A t \in Tabs : Superseded(t)' = {j \in HeldJobs' \cup Elements(jobs) : j.tab = t}
    BY <1>1, <1>8 DEF MarkersExact, Superseded, QueuedFor
  <2>2. job \notin Elements(jobs)
    BY <1>2, <1>3 DEF OneSlot
  <2> QED  BY <1>3, <1>6, <2>1, <2>2
<1>12. LatestWins'
  BY <1>1, <1>11 DEF PoolInv, LatestWins
<1>13. NeverOutOfSight'
  <2>1. job = submitted[job.tab] => job \in cancelled' \cup taken \cup Jobs(completed)
    <3>1. job = submitted[job.tab] => job \in cancelled \cup taken \cup Jobs(completed)
      BY <1>1, <1>2 DEF ThreadOk, Accounted, job
    <3> QED  BY <1>1, <3>1 DEF Latest
  <2> SUFFICES ASSUME NEW t \in Tabs, submitted[t] \notin {NoJob} \cup cancelled' \cup taken,
                      submitted[t] \notin Jobs(completed)
               PROVE  submitted[t] \in Superseded(t)'
    BY <1>1 DEF NeverOutOfSight, Jobs
  <2>2. submitted[t].tab = t
    BY DEF PoolInv, OwnSubmissions
  <2>3. submitted[t] # job
    BY <2>1, <2>2
  <2>4. submitted[t] \notin cancelled
    BY <1>1, <2>3
  <2>5. submitted[t] \in Superseded(t)
    BY <2>4 DEF PoolInv, NeverOutOfSight
  <2> QED  BY <1>11, <2>3, <2>5
<1> QED  BY <1>6, <1>7, <1>8, <1>9, <1>10, <1>12, <1>13 DEF PoolInv

(* Every step of a thread.                                                   *)
LEMMA ThreadKeeps ==
    ASSUME NEW J, JobsOf(J), PoolInv(J), NEW w \in Workers, WorkerStep(w) \/ WakeSpuriously(w)
    PROVE  PoolInv(J)'
<1>1. wake \in BOOLEAN
  BY DEF PoolInv, PoolTypes
<1>2. CASE Wait(w) \/ Exit(w) \/ WakeSpuriously(w) \/ Notify(w)
  <2>1. /\ UNCHANGED <<queueVars, completed, submitted, taken>> /\ wake' \in BOOLEAN
        /\ worker[w].pc \notin MarkedAt
        /\ \E pc \in Places \ MarkedAt : worker' = [worker EXCEPT ![w] = Resting(pc)]
    BY <1>1, <1>2 DEF Wait, Exit, WakeSpuriously, Notify, At, Places, MarkedAt
  <2> QED  BY <2>1, IdleKeeps
<1>3. CASE Pop(w)
  BY <1>3, PopKeeps
<1>4. CASE Render(w) \/ Decide(w)
  BY <1>4, RenderKeeps
<1>5. CASE Publish(w)
  BY <1>5, PublishKeeps
<1>6. CASE Unmark(w)
  BY <1>6, UnmarkKeeps
<1> QED  BY <1>2, <1>3, <1>4, <1>5, <1>6 DEF WorkerStep

LEMMA PoolInitInv ==
    ASSUME NEW J, JobsOf(J), NEW pc \in Places \ MarkedAt, PoolInit(pc)
    PROVE  PoolInv(J)
<1>1. /\ jobs = <<>> /\ active = [t \in Tabs |-> {}] /\ stopped = FALSE
      /\ cancelled = {} /\ completed = <<>> /\ wake = FALSE
      /\ worker = [w \in Workers |-> Resting(pc)]
      /\ submitted = [t \in Tabs |-> NoJob] /\ taken = {}
  BY DEF PoolInit
<1>2. \A w \in Workers : worker[w] = Resting(pc) /\ ~Marked(w)
  BY <1>1 DEF Resting, Marked, MarkedAt
<1>3. HeldJobs = {} /\ Elements(jobs) = {}
  BY <1>1, <1>2 DEF HeldJobs, Elements
<1>4. Resting(pc) \in ThreadSet(J)
  BY DEF Resting, ThreadSet, Endings
<1>5. PoolTypes(J)
  <2>1. Len(<<>>) <= QueueCapacity /\ Len(<<>>) <= CompletionCapacity
    BY PoolAssumption DEF CompletionCapacity
  <2>2. jobs \in Seq(J) /\ completed \in Seq(CompletionSet(J))
    BY <1>1, EmptySeq
  <2>3. active \in [Tabs -> SUBSET J] /\ submitted \in [Tabs -> J \cup {NoJob}]
    BY <1>1
  <2>4. worker \in [Workers -> ThreadSet(J)]
    BY <1>1, <1>4
  <2> QED  BY <1>1, <2>1, <2>2, <2>3, <2>4 DEF PoolTypes
<1>6. MarkersExact /\ OwnJobs /\ OneSlot /\ OwnSubmissions
  BY <1>1, <1>2, <1>3 DEF MarkersExact, OwnJobs, OneSlot, OwnSubmissions, Distinct
<1>7. ThreadsOk
  BY <1>2 DEF ThreadsOk, ThreadOk, Resting, MarkedAt
<1>8. LatestWins /\ NeverOutOfSight
  BY <1>1, <1>3 DEF LatestWins, NeverOutOfSight, Superseded, QueuedFor
<1> QED  BY <1>5, <1>6, <1>7, <1>8 DEF PoolInv

------------------------------------------------------------------------------
(* The pool with any owner.                                                  *)

LEMMA IdentityJobs ==
    /\ JobsOf(Identities)
    /\ \A t \in Tabs, g \in Nat \ {0} :
           g <= MaxGeneration[t] => /\ Identity(t, g) \in Identities
                                    /\ Identity(t, g).tab = t /\ Identity(t, g).generation = g
  BY PoolAssumption DEF JobsOf, Identities, Identity

LEMMA PoolNext ==
    ASSUME PoolInv(Identities), [Next]_poolVars
    PROVE  PoolInv(Identities)'
<1> DEFINE J == Identities
<1>1. JobsOf(J) /\ PoolInv(J) /\ wake \in BOOLEAN
  BY IdentityJobs DEF PoolInv, PoolTypes
<1>2. ASSUME NEW t \in Tabs, submitted[t].generation + 1 <= MaxGeneration[t],
             Submit(Identity(t, submitted[t].generation + 1))
      PROVE  PoolInv(J)'
  <2>1. submitted[t].generation \in Nat
    <3>1. submitted[t] \in J \cup {NoJob}
      BY <1>1 DEF PoolInv, PoolTypes
    <3> QED  BY <1>1, <3>1, JobTypes DEF NoJob
  <2> DEFINE job == Identity(t, submitted[t].generation + 1)
  <2>2. job \in J /\ job.tab = t /\ job.generation > submitted[job.tab].generation
    BY <1>2, <2>1, IdentityJobs
  <2> QED  BY <1>1, <1>2, <2>2, SubmitKeeps
<1>3. CASE \E t \in Tabs : CancelTab(t)
  BY <1>1, <1>3, CancelKeeps
<1>4. CASE (Drain /\ UNCHANGED wake) \/ (wake /\ wake' = FALSE /\ Drain)
  BY <1>1, <1>4, DrainKeeps
<1>5. CASE StopShared
  BY <1>1, <1>5, StopKeeps
<1>6. CASE PoolStep
  BY <1>1, <1>6, ThreadKeeps DEF PoolStep
<1>7. CASE \E w \in Workers : Spawn(w)
  <2>1. PICK w \in Workers : Spawn(w)
    BY <1>7
  <2>2. /\ UNCHANGED <<queueVars, completed, submitted, taken>> /\ wake' \in BOOLEAN
        /\ worker[w].pc \notin MarkedAt /\ "awake" \in Places \ MarkedAt
        /\ worker' = [worker EXCEPT ![w] = Resting("awake")]
    BY <1>1, <2>1 DEF Spawn, At, Places, MarkedAt
  <2> QED  BY <1>1, <2>2, IdleKeeps
<1>8. CASE UNCHANGED poolVars
  BY <1>1, <1>8 DEF poolVars, PoolInv, PoolTypes, MarkersExact, HeldJobs, Marked, OwnJobs,
                    OneSlot, Known, ThreadsOk, ThreadOk, Accounted, OwnSubmissions,
                    LatestWins, NeverOutOfSight, Superseded, QueuedFor, Jobs
<1> QED  BY <1>2, <1>3, <1>4, <1>5, <1>6, <1>7, <1>8 DEF Next, Client, SpawnFails

LEMMA PoolAlways == Spec => []PoolInv(Identities)
<1>1. Init => PoolInv(Identities)
  BY IdentityJobs, PoolInitInv DEF Init, Places, MarkedAt
<1>2. PoolInv(Identities) /\ [Next]_poolVars => PoolInv(Identities)'
  BY PoolNext
<1> QED  BY <1>1, <1>2, PTL DEF Spec

(* Neither the eviction from a full queue nor a thread that takes a job while *)
(* its tab submits the next breaks the bounds or lets an older job win, for   *)
(* every number of threads and every capacity of submit and of worker_loop.  *)
THEOREM LatestRenderWins == Spec => []LatestWithinBounds
<1>1. PoolInv(Identities) => LatestWithinBounds
  BY IdentityJobs, PoolJobs DEF PoolInv, PoolTypes, LatestWithinBounds, TypeOK
<1> QED  BY <1>1, PoolAlways, PTL

(* What is_tab_busy reads is what the threads are doing: the markers are the  *)
(* jobs in hand, and a submission is always in sight until it is taken.      *)
THEOREM MarkersAreExact == Spec => []BusyIsExact
<1>1. ASSUME PoolInv(Identities) PROVE BusyIsExact
  <2>1. /\ \A t \in Tabs : active[t] = {j \in HeldJobs : j.tab = t}
        /\ \A w \in Workers : Marked(w) <=> worker[w].job # NoJob
    BY <1>1, IdentityJobs, PoolJobs
  <2>2. Busy = {w \in Workers : Marked(w)}
    BY <2>1 DEF Busy, At, Marked
  <2>3. ASSUME NEW t \in Tabs PROVE Cardinality(QueuedFor(t)) <= 1
    <3>1. CASE QueuedFor(t) = {}
      BY <3>1, FS_EmptySet
    <3>2. CASE QueuedFor(t) # {}
      <4>1. PICK j : QueuedFor(t) = {j}
        BY <1>1, <3>2 DEF QueuedFor, PoolInv, OneSlot
      <4> QED  BY <4>1, FS_Singleton
    <3> QED  BY <3>1, <3>2
  <2>4. \A t \in Tabs : active[t] = {worker[w].job : w \in {v \in Busy :
                                      Marked(v) /\ worker[v].job.tab = t}}
    BY <2>1, <2>2 DEF HeldJobs
  <2>5. \A v, w \in Busy : v # w => worker[v].job # worker[w].job
    BY <1>1, <2>2 DEF PoolInv, OwnJobs
  <2> QED  BY <1>1, <2>3, <2>4, <2>5 DEF BusyIsExact, MarkersMatchThreads, PoolInv
<1> QED  BY <1>1, PoolAlways, PTL

------------------------------------------------------------------------------
(* The coordinator.                                                          *)

Views == Viewports \cup {"zero", "none"}
Sheets == {"none", "linked", "fetching", "batch", "applied"}
CommitSet == [generation : Nat, serial : Nat, revision : Nat, styled : BOOLEAN]
PageSet == [open : BOOLEAN, serial : Nat, generation : Nat, revision : Nat,
            requested : Views, dirty : Views, shown : Views,
            committed : CommitSet, scroll : {0, 1}, sheets : Sheets]
JobSet == [tab : Tabs, generation : Nat \ {0}, serial : Nat, viewport : Views,
           scroll : {0, 1}, revision : Nat, styled : BOOLEAN, applies : BOOLEAN, plans : BOOLEAN]
CallSet == [step : {"none", "enter", "idle", "submit"}, tab : Tabs \cup {"none"},
            viewport : Views, retained : BOOLEAN, selection : BOOLEAN]

OwnDocument(p) == p.committed # NoCommit => p.committed.serial = p.serial
PagesOk == page \in [Tabs -> PageSet] /\ \A t \in Tabs : OwnDocument(page[t])

\* The generation of a tab is at least that of its last submission.
Numbered == \A t \in Tabs : submitted[t].generation <= page[t].generation

CallOk == /\ front \in Tabs /\ window \in Views
          /\ call \in CallSet
          /\ call.step # "none" => call.tab \in Tabs

\* The renders between submission and commit: under the pool's two locks, and
\* in the hands of poll_render_worker.
DrainedJobs == {c.job : c \in drained}
Rendering == HeldJobs \cup Elements(jobs)
Finished == Jobs(completed) \cup DrainedJobs
Unpublished == Elements(jobs) \cup
    {worker[w].job : w \in {v \in Workers : worker[v].pc \in {"rendering", "rendered", "publishing"}}}

\* A tab has one render under way, a render one completion, and a render that
\* has not been published has none.
OneWay ==
    /\ \A i, j \in Rendering \cup Finished : i.tab = j.tab => i = j
    /\ \A c, d \in Elements(completed) \cup drained : c.job = d.job => c = d
    /\ \A j \in Unpublished : j \notin Finished
    /\ drained \subseteq CompletionSet(JobSet)

\* What each step of schedule_page_render has found out about its tab stays so.
CallClear ==
    /\ call.step = "enter" => \A j \in DrainedJobs : j.tab # call.tab
    /\ call.step = "idle" => \A j \in Rendering \cup DrainedJobs : j.tab # call.tab
    /\ call.step = "submit" => \A j \in Rendering \cup Finished : j.tab # call.tab

PageInv == /\ PoolInv(JobSet)
           /\ PagesOk /\ Numbered /\ CallOk
           /\ OneWay /\ CallClear

------------------------------------------------------------------------------
(* The parts.                                                                *)

LEMMA RenderJobs == JobsOf(JobSet)
  BY DEF JobsOf, JobSet

LEMMA Generations ==
    ASSUME PoolInv(JobSet), NEW t \in Tabs
    PROVE  submitted[t].generation \in Nat
<1>1. submitted[t] \in JobSet \cup {NoJob}
  BY DEF PoolInv, PoolTypes
<1> QED  BY <1>1 DEF JobSet, NoJob

(* A step that edits one page and submits nothing.                           *)
LEMMA EditEffect ==
    ASSUME PageInv, NEW t \in Tabs, NEW p \in PageSet, OwnDocument(p),
           p.generation >= page[t].generation,
           page' = [page EXCEPT ![t] = p], UNCHANGED submitted
    PROVE  PagesOk' /\ Numbered'
<1>1. page \in [Tabs -> PageSet] /\ page[t] \in PageSet
  BY DEF PageInv, PagesOk
<1>2. PagesOk'
  BY <1>1 DEF PageInv, PagesOk
<1>3. Numbered'
  <2> SUFFICES ASSUME NEW u \in Tabs PROVE submitted[u].generation <= page'[u].generation
    BY DEF Numbered
  <2>1. submitted[u].generation \in Nat /\ submitted[u].generation <= page[u].generation
    BY Generations DEF PageInv, Numbered
  <2>2. page[u].generation \in Nat /\ p.generation \in Nat
    BY <1>1 DEF PageSet
  <2> QED  BY <1>1, <2>1, <2>2
<1> QED  BY <1>2, <1>3

(* A step of the loop that leaves the pool and what it drained alone.         *)
LEMMA LoopKeeps ==
    ASSUME PageInv, PagesOk', Numbered', CallOk', UNCHANGED <<poolVars, drained>>,
           \/ call' = NoCall
           \/ call' = call
           \/ call'.step = "enter" /\ drained = {}
    PROVE  PageInv'
<1>1. UNCHANGED <<jobs, active, stopped, cancelled, completed, worker, wake, submitted, taken, drained>>
  BY DEF poolVars
<1>2. PoolInv(JobSet)'
  BY <1>1 DEF PageInv, PoolInv, PoolTypes, MarkersExact, HeldJobs, Marked, OwnJobs,
              OneSlot, Known, ThreadsOk, ThreadOk, Accounted, OwnSubmissions,
              LatestWins, NeverOutOfSight, Superseded, QueuedFor, Jobs
<1>3. /\ Rendering' = Rendering /\ Finished' = Finished /\ DrainedJobs' = DrainedJobs
      /\ Unpublished' = Unpublished
  BY <1>1 DEF Rendering, Finished, DrainedJobs, Unpublished, HeldJobs, Marked, Jobs
<1>4. OneWay'
  BY <1>1, <1>3 DEF PageInv, OneWay
<1>5. CallClear'
  <2>1. CASE call' = NoCall
    BY <2>1 DEF CallClear, NoCall
  <2>2. CASE call' = call
    BY <1>3, <2>2 DEF PageInv, CallClear
  <2>3. CASE call'.step = "enter" /\ drained = {}
    BY <1>1, <2>3 DEF CallClear, DrainedJobs
  <2> QED  BY <2>1, <2>2, <2>3
<1> QED  BY <1>2, <1>4, <1>5 DEF PageInv

(* A step that takes renders away, or moves one from the queue to a thread.   *)
LEMMA FewerKeeps ==
    ASSUME PageInv, PoolInv(JobSet)', PagesOk', Numbered', CallOk',
           Rendering' \subseteq Rendering, Unpublished' \subseteq Unpublished,
           Elements(completed') \cup drained' \subseteq Elements(completed) \cup drained,
           \/ call' = NoCall
           \/ call' = call /\ drained' \subseteq drained
           \/ call'.step = "enter" /\ \A c \in drained' : c.job.tab # call'.tab
    PROVE  PageInv'
<1>1. Finished = {c.job : c \in Elements(completed) \cup drained}
  BY DEF Finished, Jobs, DrainedJobs
<1>2. Finished' = {c.job : c \in Elements(completed') \cup drained'}
  BY DEF Finished, Jobs, DrainedJobs
<1>3. Finished' \subseteq Finished
  BY <1>1, <1>2
<1>4. drained' \subseteq CompletionSet(JobSet)
  <2> SUFFICES ASSUME NEW i \in DOMAIN completed PROVE completed[i] \in CompletionSet(JobSet)
    BY DEF PageInv, OneWay, Elements
  <2>1. completed \in Seq(CompletionSet(JobSet)) /\ i \in 1..Len(completed)
    BY LenProperties DEF PageInv, PoolInv, PoolTypes
  <2> QED  BY <2>1, ElementOfSeq
<1>5. OneWay'
  BY <1>3, <1>4 DEF PageInv, OneWay
<1>6. CallClear'
  <2>1. CASE call' = NoCall
    BY <2>1 DEF CallClear, NoCall
  <2>2. CASE call' = call /\ drained' \subseteq drained
    <3>1. DrainedJobs' \subseteq DrainedJobs
      BY <2>2 DEF DrainedJobs
    <3> QED  BY <1>3, <2>2, <3>1 DEF PageInv, CallClear
  <2>3. CASE call'.step = "enter" /\ \A c \in drained' : c.job.tab # call'.tab
    BY <2>3 DEF CallClear, DrainedJobs
  <2> QED  BY <2>1, <2>2, <2>3
<1> QED  BY <1>5, <1>6 DEF PageInv

------------------------------------------------------------------------------
(* The pool.                                                                 *)

LEMMA CancelEffect ==
    ASSUME PageInv, NEW t \in Tabs, CancelTab(t)
    PROVE  /\ PoolInv(JobSet)' /\ UNCHANGED <<completed, submitted>>
           /\ Rendering' \subseteq Rendering /\ Unpublished' \subseteq Unpublished
<1>1. JobsOf(JobSet) /\ PoolInv(JobSet)
  BY RenderJobs DEF PageInv
<1>2. /\ PoolInv(JobSet)' /\ Elements(Others(t)) \subseteq Elements(jobs)
  BY <1>1, CancelKeeps, OthersEffect
<1>3. jobs' = Others(t) /\ UNCHANGED <<worker, completed, submitted>>
  BY DEF CancelTab
<1> QED  BY <1>2, <1>3 DEF Rendering, Unpublished, HeldJobs, Marked

LEMMA PollEffect ==
    ASSUME PageInv, Poll, wake' \in BOOLEAN
    PROVE  /\ PoolInv(JobSet)' /\ UNCHANGED submitted
           /\ Rendering' = Rendering /\ Unpublished' = Unpublished
           /\ Elements(completed') = {} /\ drained' \subseteq Elements(completed)
<1>1. PoolInv(JobSet)'
  BY RenderJobs, DrainKeeps DEF PageInv, Poll
<1>2. completed' = <<>> /\ UNCHANGED <<jobs, worker, submitted>> /\ drained' = Newest
  BY DEF Poll, Drain
<1>3. Elements(completed') = {} /\ drained' \subseteq Elements(completed)
  BY <1>2 DEF Elements, Newest
<1> QED  BY <1>1, <1>2, <1>3 DEF Rendering, Unpublished, HeldJobs, Marked

(* A submission for a tab that has no render under way.                      *)
LEMMA SubmitJobKeeps ==
    ASSUME PageInv, SubmitJob
    PROVE  PageInv'
<1> DEFINE t == call.tab
           p == [page[t] EXCEPT !.generation = @ + 1]
<1>1. /\ call.step = "submit" /\ Submit(Job) /\ page' = [page EXCEPT ![t] = p] /\ call' = NoCall
      /\ UNCHANGED <<front, window, loop, drained, todo, changes>>
  BY DEF SubmitJob
<1>2. t \in Tabs /\ page[t] \in PageSet /\ call \in CallSet /\ page \in [Tabs -> PageSet]
  BY <1>1 DEF PageInv, CallOk, PagesOk
<1>3. Job \in JobSet /\ Job.tab = t /\ Job.generation = page[t].generation + 1
  <2>1. CanRetain \in BOOLEAN /\ page[t].committed \in CommitSet
    BY <1>2 DEF CanRetain, Called, PageSet, CallSet
  <2>2. (IF CanRetain THEN page[t].committed.revision ELSE page[t].revision) \in Nat
    BY <1>2, <2>1 DEF PageSet, CommitSet
  <2> QED  BY <1>2, <2>1, <2>2 DEF Job, JobSet, Called, PageSet, CallSet
<1>4. Job.generation > submitted[Job.tab].generation
  <2>1. submitted[t].generation \in Nat /\ submitted[t].generation <= page[t].generation
    BY <1>2, Generations DEF PageInv, Numbered
  <2> QED  BY <1>2, <1>3, <2>1 DEF PageSet
<1> HIDE DEF t
<1>5. PICK job \in JobSet : job = Job /\ Submit(job)
  BY <1>1, <1>3
<1>6. PoolInv(JobSet)'
  BY <1>1, <1>4, <1>5, RenderJobs, SubmitKeeps DEF PageInv
<1>7. PICK dropped \in SUBSET Elements(jobs) :
        Elements(jobs') = {j \in Elements(jobs) \ dropped : j.tab # job.tab} \cup {job}
  <2>1. PICK J : J = JobSet
    OBVIOUS
  <2>2. JobsOf(J) /\ PoolInv(J)
    BY <2>1, RenderJobs DEF PageInv
  <2>3. job \in J /\ Submit(job)
    BY <1>5, <2>1
  <2> HIDE DEF p
  <2> QED  BY <2>2, <2>3, QueueEffect
<1>8. worker' \in [Workers -> ThreadSet(JobSet)]
  BY <1>6 DEF PoolInv, PoolTypes
<1>9. \A w \in Workers : worker'[w] = worker[w]
                         \/ (worker[w].pc = "asleep" /\ worker'[w] = Resting("awake"))
  <2>1. NotifyOne
    BY <1>1 DEF Submit
  <2> QED  BY <2>1, RenderJobs, NotifyEffect DEF PageInv
<1>10. /\ HeldJobs' = HeldJobs
       /\ \A w \in Workers : worker'[w].pc \in {"rendering", "rendered", "publishing"}
                                => worker'[w] = worker[w]
  BY <1>9 DEF HeldJobs, Marked, Resting
<1>11. /\ Rendering' \subseteq Rendering \cup {job} /\ Unpublished' \subseteq Unpublished \cup {job}
       /\ UNCHANGED completed /\ Finished' = Finished
       /\ submitted' = [submitted EXCEPT ![t] = job]
  <2>1. UNCHANGED <<completed, drained>> /\ submitted' = [submitted EXCEPT ![t] = job]
    BY <1>1, <1>3, <1>5 DEF Submit
  <2>2. Elements(jobs') \subseteq Elements(jobs) \cup {job}
    BY <1>7
  <2> QED  BY <1>10, <2>1, <2>2 DEF Rendering, Unpublished, Finished, Jobs, DrainedJobs
<1>12. \A j \in Rendering \cup Finished : j.tab # job.tab
  BY <1>1, <1>3, <1>5 DEF PageInv, CallClear, t
<1>13. OneWay'
  <2>1. job \notin Finished /\ Unpublished \subseteq Unpublished
    BY <1>12
  <2>2. \A j \in Unpublished' : j \notin Finished'
    BY <1>11, <2>1 DEF PageInv, OneWay
  <2>3. \A i, j \in (Rendering \cup Finished)' : i.tab = j.tab => i = j
    BY <1>11, <1>12 DEF PageInv, OneWay
  <2> QED  BY <1>1, <1>11, <2>2, <2>3 DEF PageInv, OneWay
<1>14. p \in PageSet /\ OwnDocument(p) /\ p.generation = page[t].generation + 1
  BY <1>2 DEF PageSet, OwnDocument, PageInv, PagesOk, t
<1>15. PagesOk'
  BY <1>1, <1>2, <1>14 DEF PageInv, PagesOk, t
<1>16. Numbered'
  <2> SUFFICES ASSUME NEW u \in Tabs PROVE submitted'[u].generation <= page'[u].generation
    BY DEF Numbered
  <2>1. submitted \in [Tabs -> JobSet \cup {NoJob}]
    BY DEF PageInv, PoolInv, PoolTypes
  <2>2. CASE u = t
    BY <1>1, <1>2, <1>3, <1>5, <1>11, <1>14, <2>1, <2>2 DEF PageSet, t
  <2>3. CASE u # t
    BY <1>1, <1>2, <1>11, <2>1, <2>3 DEF PageInv, Numbered, t
  <2> QED  BY <2>2, <2>3
<1>17. CallOk' /\ CallClear'
  BY <1>1 DEF PageInv, CallOk, CallClear, NoCall, CallSet, Views
<1> QED  BY <1>6, <1>13, <1>15, <1>16, <1>17 DEF PageInv

(* What one thread holds after its step.                                     *)
LEMMA ThreadHolds ==
    ASSUME NEW w \in Workers, NEW r, worker \in [Workers -> ThreadSet(JobSet)],
           worker' = [worker EXCEPT ![w] = r]
    PROVE  /\ HeldJobs' \subseteq HeldJobs \cup IF r.pc \in MarkedAt THEN {r.job} ELSE {}
           /\ \A S : (\A v \in Workers \ {w} : worker[v].pc \in {"rendering", "rendered", "publishing"}
                                                 => worker[v].job \in S)
                     => Unpublished' \subseteq Elements(jobs') \cup S
                            \cup IF r.pc \in {"rendering", "rendered", "publishing"} THEN {r.job} ELSE {}
<1>1. worker'[w] = r /\ \A v \in Workers : v # w => worker'[v] = worker[v]
  OBVIOUS
<1> QED  BY <1>1 DEF HeldJobs, Unpublished, Marked, MarkedAt

(* A thread publishes its job, or does what takes no job to the completions.  *)
LEMMA ThreadKeepsPage ==
    ASSUME PageInv, NEW w \in Workers, Thread(w)
    PROVE  PageInv'
<1>1. PoolInv(JobSet)' /\ JobsOf(JobSet) /\ PoolInv(JobSet)
  BY RenderJobs, ThreadKeeps DEF PageInv, Thread
<1>2. UNCHANGED <<page, front, window, call, drained>> /\ WorkerStep(w)
  BY DEF Thread
<1>3. worker \in [Workers -> ThreadSet(JobSet)] /\ jobs \in Seq(JobSet)
  BY <1>1 DEF PoolInv, PoolTypes
<1>4. UNCHANGED submitted
  BY <1>2 DEF WorkerStep, Pop, Wait, Exit, Render, Decide, Publish, Unmark, Notify, queueVars
<1>5. PagesOk' /\ Numbered' /\ CallOk'
  BY <1>2, <1>4 DEF PageInv, PagesOk, Numbered, CallOk
<1> DEFINE Busy3 == {"rendering", "rendered", "publishing"}
           job == worker[w].job
<1>6. \A v \in Workers : worker[v].pc \in Busy3 => worker[v].job \in Unpublished
  BY DEF Unpublished
<1>7. CASE ~Publish(w)
  <2>1. UNCHANGED completed
    BY <1>2, <1>7 DEF WorkerStep, Pop, Wait, Exit, Render, Decide, Unmark, Notify
  <2>2. Rendering' \subseteq Rendering /\ Unpublished' \subseteq Unpublished
    <3>1. CASE Pop(w)
      <4> DEFINE r == [worker[w] EXCEPT !.pc = "rendering", !.job = Head(jobs)]
      <4>1. /\ worker' = [worker EXCEPT ![w] = r] /\ jobs' = Tail(jobs) /\ jobs # <<>>
        BY <3>1 DEF Pop
      <4>2. Elements(jobs) = {Head(jobs)} \cup Elements(Tail(jobs))
        BY <1>3, <4>1, PopProperties
      <4>3. r.job = Head(jobs)
        BY <1>3 DEF ThreadSet
      <4> HIDE DEF r
      <4>4. HeldJobs' \subseteq HeldJobs \cup {Head(jobs)}
        BY <1>3, <4>1, <4>3, ThreadHolds
      <4>5. Unpublished' \subseteq Elements(jobs') \cup Unpublished \cup {Head(jobs)}
        BY <1>3, <1>6, <4>1, <4>3, ThreadHolds
      <4>6. Elements(jobs) \subseteq Unpublished
        BY DEF Unpublished
      <4> QED  BY <4>1, <4>2, <4>4, <4>5, <4>6 DEF Rendering
    <3>2. CASE ~Pop(w)
      <4>1. jobs' = jobs
        BY <1>2, <1>7, <3>2 DEF WorkerStep, Wait, Exit, Render, Decide, Unmark, Notify, queueVars
      <4>2. \E r : /\ worker' = [worker EXCEPT ![w] = r]
                   /\ r.pc \in MarkedAt => r.job = job /\ worker[w].pc \in MarkedAt
                   /\ r.pc \in Busy3 => r.job = job /\ worker[w].pc \in Busy3
        <5>1. CASE Wait(w) \/ Exit(w) \/ Notify(w)
          <6>1. PICK pc \in {"asleep", "gone", "awake"} : worker' = [worker EXCEPT ![w] = Resting(pc)]
            BY <5>1 DEF Wait, Exit, Notify
          <6>2. Resting(pc).pc \notin MarkedAt /\ Resting(pc).pc \notin Busy3
            BY DEF Resting, MarkedAt
          <6> HIDE DEF Busy3
          <6> QED  BY <6>1, <6>2
        <5>2. CASE Unmark(w)
          <6>1. \/ worker' = [worker EXCEPT ![w] = [Resting("waking") EXCEPT !.published = TRUE]]
                \/ worker' = [worker EXCEPT ![w] = Resting("awake")]
            BY <5>2 DEF Unmark
          <6>2. /\ [Resting("waking") EXCEPT !.published = TRUE].pc \notin MarkedAt \cup Busy3
                /\ Resting("awake").pc \notin MarkedAt \cup Busy3
            BY DEF Resting, MarkedAt
          <6> HIDE DEF Busy3
          <6> QED  BY <6>1, <6>2
        <5>3. CASE Render(w)
          <6>1. PICK result : worker' = [worker EXCEPT ![w].pc = "rendered", ![w].result = result]
            BY <5>3 DEF Render
          <6> DEFINE r == [worker[w] EXCEPT !.pc = "rendered", !.result = result]
          <6>2. r.job = job /\ worker[w].pc \in MarkedAt \cap Busy3
            BY <1>3, <5>3 DEF Render, At, ThreadSet, MarkedAt
          <6>3. worker' = [worker EXCEPT ![w] = r]
            BY <6>1
          <6> HIDE DEF r, Busy3
          <6> QED  BY <6>2, <6>3
        <5>4. CASE Decide(w)
          <6>1. PICK pc, publish : worker' = [worker EXCEPT ![w].pc = pc, ![w].published = publish]
            BY <5>4 DEF Decide
          <6> DEFINE r == [worker[w] EXCEPT !.pc = pc, !.published = publish]
          <6>2. r.job = job /\ worker[w].pc \in MarkedAt \cap Busy3
            BY <1>3, <5>4 DEF Decide, At, ThreadSet, MarkedAt
          <6>3. worker' = [worker EXCEPT ![w] = r]
            BY <6>1
          <6> HIDE DEF r, Busy3
          <6> QED  BY <6>2, <6>3
        <5> QED  BY <1>2, <1>7, <3>2, <5>1, <5>2, <5>3, <5>4 DEF WorkerStep
      <4>3. HeldJobs' \subseteq HeldJobs
        <5>1. worker[w].pc \in MarkedAt => job \in HeldJobs
          BY DEF HeldJobs, Marked, MarkedAt
        <5> QED  BY <1>3, <4>2, <5>1, ThreadHolds
      <4>4. Unpublished' \subseteq Elements(jobs') \cup Unpublished
        <5>1. PICK r : /\ worker' = [worker EXCEPT ![w] = r]
                       /\ r.pc \in Busy3 => r.job \in Unpublished
          BY <1>6, <4>2
        <5>2. Unpublished' \subseteq Elements(jobs') \cup Unpublished
                     \cup IF r.pc \in Busy3 THEN {r.job} ELSE {}
          BY <1>3, <1>6, <5>1, ThreadHolds
        <5> HIDE DEF Busy3
        <5> QED  BY <5>1, <5>2
      <4> QED  BY <4>1, <4>3, <4>4 DEF Rendering, Unpublished
    <3> QED  BY <3>1, <3>2
  <2> QED  BY <1>1, <1>2, <1>5, <2>1, <2>2, FewerKeeps
<1>8. CASE Publish(w)
  <2> DEFINE r == [worker[w] EXCEPT !.pc = "unmarking", !.result = "none"]
             c == [job |-> job, result |-> worker[w].result]
             S == Unpublished \ {job}
  <2>1. /\ worker[w].pc = "publishing" /\ worker' = [worker EXCEPT ![w] = r] /\ UNCHANGED jobs
    BY <1>8 DEF Publish, At, queueVars
  <2>2. r.pc = "unmarking" /\ r.job = job
    BY <1>3 DEF ThreadSet
  <2> HIDE DEF r
  <2>3. job \in HeldJobs /\ job \in Unpublished /\ job \in Rendering
    BY <2>1 DEF HeldJobs, Unpublished, Rendering, Marked
  <2>4. job \notin Elements(jobs) /\ \A v \in Workers \ {w} : worker[v].pc \in Busy3 => worker[v].job # job
    BY <1>1, <2>1, <2>3 DEF PoolInv, OneSlot, OwnJobs, Marked
  <2>5. HeldJobs' \subseteq HeldJobs
    BY <1>3, <2>1, <2>2, <2>3, ThreadHolds
  <2>6. Unpublished' \subseteq S
    <3>1. \A v \in Workers \ {w} : worker[v].pc \in Busy3 => worker[v].job \in S
      BY <1>6, <2>4
    <3>2. Elements(jobs) \subseteq S
      BY <2>4 DEF Unpublished
    <3> HIDE DEF S
    <3>3. Unpublished' \subseteq Elements(jobs') \cup S
      BY <1>3, <2>1, <2>2, <3>1, ThreadHolds
    <3> QED  BY <2>1, <3>2, <3>3
  <2>7. /\ Elements(completed') \subseteq Elements(completed) \cup {c}
        /\ Jobs(completed)' \subseteq Jobs(completed) \cup {job}
    BY <1>1, <1>8, CompletedEffect
  <2>8. Rendering' \subseteq Rendering /\ Finished' \subseteq Finished \cup {job}
    BY <1>2, <2>1, <2>5, <2>7 DEF Rendering, Finished, DrainedJobs
  <2>9. \A d \in Elements(completed) \cup drained : d.job # job
    BY <2>3 DEF PageInv, OneWay, Finished, Jobs, DrainedJobs
  <2>10. OneWay'
    <3>1. \A i, j \in (Rendering \cup Finished)' : i.tab = j.tab => i = j
      BY <2>3, <2>8 DEF PageInv, OneWay
    <3>2. \A d, e \in (Elements(completed) \cup drained)' : d.job = e.job => d = e
      BY <1>2, <2>7, <2>9 DEF PageInv, OneWay
    <3>3. \A j \in Unpublished' : j \notin Finished'
      BY <2>6, <2>8 DEF PageInv, OneWay
    <3> QED  BY <1>2, <3>1, <3>2, <3>3 DEF PageInv, OneWay
  <2>11. CallClear'
    <3>1. DrainedJobs' = DrainedJobs /\ (Rendering \cup Finished)' \subseteq Rendering \cup Finished
      BY <1>2, <2>3, <2>8 DEF DrainedJobs
    <3> QED  BY <1>2, <2>8, <3>1 DEF PageInv, CallClear
  <2> QED  BY <1>1, <1>5, <2>10, <2>11 DEF PageInv
<1> QED  BY <1>7, <1>8

------------------------------------------------------------------------------
(* The window.                                                               *)

LEMMA Calls ==
    ASSUME PageInv
    PROVE  /\ NoCall \in CallSet /\ NoCall.step = "none"
           /\ \A t \in Tabs, v \in Views : /\ Schedule(t, v) \in CallSet
                                          /\ Schedule(t, v).step = "enter" /\ Schedule(t, v).tab = t
           /\ \A t \in Tabs : /\ Resubmission(t) \in CallSet
                              /\ Resubmission(t) # NoCall => /\ Resubmission(t).step = "enter"
                                                             /\ Resubmission(t).tab = t
<1>1. NoCall \in CallSet /\ NoCall.step = "none"
  BY DEF NoCall, CallSet, Views
<1>2. ASSUME NEW t \in Tabs, NEW v \in Views
      PROVE  /\ Schedule(t, v) \in CallSet
             /\ Schedule(t, v).step = "enter" /\ Schedule(t, v).tab = t
  BY DEF Schedule, NoCall, CallSet, Views
<1>3. \A t \in Tabs : page[t].dirty \in Views
  BY DEF PageInv, PagesOk, PageSet
<1> QED  BY <1>1, <1>2, <1>3 DEF Resubmission

\* A page of a tab that is one of its edits.
Edit(t, p) == /\ p \in PageSet /\ OwnDocument(p) /\ p.generation >= page[t].generation
              /\ page' = [page EXCEPT ![t] = p]

(* The fields the handlers assign.                                           *)
LEMMA FieldEdits ==
    ASSUME NEW r \in PageSet
    PROVE  /\ \A n \in Nat : /\ [r EXCEPT !.generation = n] \in PageSet
                            /\ [r EXCEPT !.revision = n] \in PageSet
           /\ \A v \in Views : /\ [r EXCEPT !.requested = v] \in PageSet
                              /\ [r EXCEPT !.dirty = v] \in PageSet
                              /\ [r EXCEPT !.shown = v] \in PageSet
           /\ \A sheets \in Sheets : [r EXCEPT !.sheets = sheets] \in PageSet
           /\ \A commit \in CommitSet : [r EXCEPT !.committed = commit] \in PageSet
<1>1. \A n \in Nat : [r EXCEPT !.generation = n] \in PageSet /\ [r EXCEPT !.revision = n] \in PageSet
  BY DEF PageSet
<1>2. \A v \in Views : [r EXCEPT !.requested = v] \in PageSet /\ [r EXCEPT !.dirty = v] \in PageSet
  BY DEF PageSet
<1>3. \A v \in Views : [r EXCEPT !.shown = v] \in PageSet
  BY DEF PageSet
<1>4. \A sheets \in Sheets : [r EXCEPT !.sheets = sheets] \in PageSet
  BY DEF PageSet
<1>5. \A commit \in CommitSet : [r EXCEPT !.committed = commit] \in PageSet
  BY DEF PageSet
<1> QED  BY <1>1, <1>2, <1>3, <1>4, <1>5

(* The edits of a page by the handlers.                                      *)
LEMMA Edits ==
    ASSUME PageInv, NEW t \in Tabs, NEW v \in Views, NEW sheets \in Sheets
    PROVE  /\ page' = [page EXCEPT ![t].revision = @ + 1] => \E p : Edit(t, p)
           /\ page' = [page EXCEPT ![t].scroll = 1 - @] => \E p : Edit(t, p)
           /\ page' = [page EXCEPT ![t].scroll = 1 - @, ![t].revision = @ + 1]
                  => \E p : Edit(t, p)
           /\ page' = [page EXCEPT ![t].requested = v] => \E p : Edit(t, p)
           /\ page' = [page EXCEPT ![t].requested = v, ![t].dirty = v] => \E p : Edit(t, p)
           /\ page' = [page EXCEPT ![t] = Undirty(@)] => \E p : Edit(t, p)
           /\ page' = [page EXCEPT ![t].open = FALSE] => \E p : Edit(t, p)
           /\ page' = [page EXCEPT ![t].sheets = sheets] => \E p : Edit(t, p)
           /\ page' = [page EXCEPT ![t].sheets = sheets, ![t].revision = @ + 1]
                  => \E p : Edit(t, p)
           /\ page' = [page EXCEPT ![t].requested = "zero", ![t].shown = "none",
                                   ![t].generation = @ + 1, ![t].dirty = "none"]
                  => \E p : Edit(t, p)
<1> DEFINE q == page[t]
           a == [q EXCEPT !.revision = @ + 1]
           b == [q EXCEPT !.scroll = 1 - @]
           l == [q EXCEPT !.scroll = 1 - @, !.revision = @ + 1]
           c == [q EXCEPT !.requested = v]
           d == [q EXCEPT !.requested = v, !.dirty = v]
           e == [q EXCEPT !.dirty = "none"]
           f == [q EXCEPT !.open = FALSE]
           g == [q EXCEPT !.sheets = sheets]
           h == [q EXCEPT !.sheets = sheets, !.revision = @ + 1]
           k == [q EXCEPT !.requested = "zero", !.shown = "none", !.generation = @ + 1, !.dirty = "none"]
           Fits(p) == p \in PageSet /\ OwnDocument(p) /\ p.generation >= q.generation
<1>1. q \in PageSet /\ OwnDocument(q) /\ "zero" \in Views /\ "none" \in Views
  BY DEF PageInv, PagesOk, Views
<1> HIDE DEF q
<1>2. a \in PageSet /\ b \in PageSet /\ c \in PageSet
  BY <1>1 DEF PageSet
<1>3. d \in PageSet /\ e \in PageSet /\ f \in PageSet
  BY <1>1 DEF PageSet
<1>4. g \in PageSet /\ h \in PageSet /\ k \in PageSet
  <2>1. g \in PageSet
    BY <1>1 DEF PageSet
  <2>2. h \in PageSet
    <3> DEFINE r == [q EXCEPT !.sheets = sheets]
    <3>1. r \in PageSet /\ q.revision + 1 \in Nat
      BY <1>1, FieldEdits DEF PageSet
    <3>2. h = [r EXCEPT !.revision = q.revision + 1]
      OBVIOUS
    <3> HIDE DEF r, h
    <3> QED  BY <3>1, <3>2, FieldEdits
  <2>3. k \in PageSet
    <3> DEFINE r == [q EXCEPT !.requested = "zero"]
               u == [r EXCEPT !.shown = "none"]
               x == [u EXCEPT !.generation = q.generation + 1]
    <3>1. r \in PageSet /\ q.generation + 1 \in Nat
      BY <1>1, FieldEdits DEF PageSet
    <3>2. k = [x EXCEPT !.dirty = "none"]
      OBVIOUS
    <3> HIDE DEF r, k
    <3>3. u \in PageSet
      BY <1>1, <3>1, FieldEdits
    <3> HIDE DEF u
    <3>4. x \in PageSet
      BY <3>1, <3>3, FieldEdits
    <3> HIDE DEF x
    <3> QED  BY <1>1, <3>2, <3>4, FieldEdits
  <2> QED  BY <2>1, <2>2, <2>3
<1>5. l \in PageSet
  <2>1. q.revision + 1 \in Nat
    BY <1>1 DEF PageSet
  <2>2. l = [b EXCEPT !.revision = q.revision + 1]
    OBVIOUS
  <2> HIDE DEF b, l
  <2> QED  BY <1>2, <2>1, <2>2, FieldEdits
<1>6. \A p \in {a, b, c, d, e, f, g, h, l} : /\ p.committed = q.committed /\ p.serial = q.serial
                                         /\ p.generation = q.generation
  BY <1>1 DEF PageSet
<1>7. k.committed = q.committed /\ k.serial = q.serial /\ k.generation = q.generation + 1
  BY <1>1 DEF PageSet
<1>8. q.generation \in Nat
  BY <1>1 DEF PageSet
<1> HIDE DEF a, b, c, d, e, f, g, h, k, l
<1>9. Fits(a) /\ Fits(b) /\ Fits(c) /\ Fits(d) /\ Fits(e) /\ Fits(f) /\ Fits(g) /\ Fits(h) /\ Fits(l)
  BY <1>1, <1>2, <1>3, <1>4, <1>6, <1>8, <1>5 DEF OwnDocument
<1>10. Fits(k)
  BY <1>1, <1>4, <1>7, <1>8 DEF OwnDocument
<1>11. page' = [page EXCEPT ![t] = a] => \E p : Edit(t, p)
  BY <1>9 DEF Edit, q
<1>12. page' = [page EXCEPT ![t] = b] => \E p : Edit(t, p)
  BY <1>9 DEF Edit, q
<1>13. page' = [page EXCEPT ![t] = c] => \E p : Edit(t, p)
  BY <1>9 DEF Edit, q
<1>14. page' = [page EXCEPT ![t] = d] => \E p : Edit(t, p)
  BY <1>9 DEF Edit, q
<1>15. page' = [page EXCEPT ![t] = e] => \E p : Edit(t, p)
  BY <1>9 DEF Edit, q
<1>16. page' = [page EXCEPT ![t] = f] => \E p : Edit(t, p)
  BY <1>9 DEF Edit, q
<1>17. page' = [page EXCEPT ![t] = g] => \E p : Edit(t, p)
  BY <1>9 DEF Edit, q
<1>18. page' = [page EXCEPT ![t] = h] => \E p : Edit(t, p)
  BY <1>9 DEF Edit, q
<1>19. page' = [page EXCEPT ![t] = k] => \E p : Edit(t, p)
  BY <1>10 DEF Edit, q
<1>20. page' = [page EXCEPT ![t] = l] => \E p : Edit(t, p)
  BY <1>9 DEF Edit, q
<1> QED  BY <1>11, <1>12, <1>13, <1>14, <1>15, <1>16, <1>17, <1>18, <1>19, <1>20
     DEF Undirty, q, a, b, c, d, e, f, g, h, k, l

(* Either way the pages stay in order when nothing is submitted.             *)
LEMMA PagesKept ==
    ASSUME PageInv, UNCHANGED submitted,
           UNCHANGED page \/ \E t \in Tabs : \E p : Edit(t, p)
    PROVE  PagesOk' /\ Numbered'
<1>1. CASE UNCHANGED page
  BY <1>1 DEF PageInv, PagesOk, Numbered
<1>2. CASE \E t \in Tabs : \E p : Edit(t, p)
  BY <1>2, EditEffect DEF Edit
<1> QED  BY <1>1, <1>2

(* The events of the user and of the page, and the recovery pass.            *)
LEMMA EventsKeep ==
    ASSUME PageInv, \/ Mutate \/ Scroll \/ (\E v \in Viewports \cup {"zero"} : Resize(v))
                    \/ (\E t \in Tabs : Activate(t) \/ SheetsArrive(t) \/ AskPool(t) \/ RecoverTab(t))
                    \/ Recover \/ Sleep \/ ScheduleComposite
    PROVE  PageInv'
<1>1. /\ front \in Tabs /\ window \in Views /\ call \in CallSet /\ (call.step # "none" => call.tab \in Tabs)
      /\ "batch" \in Sheets
  BY DEF PageInv, CallOk, Sheets
<1>2. CASE Mutate
  <2>1. /\ page' = [page EXCEPT ![front].revision = @ + 1] /\ call' = Schedule(front, window)
        /\ drained = {} /\ UNCHANGED <<poolVars, front, window, drained>> /\ UNCHANGED submitted
    BY <1>2 DEF Mutate, Handler, Between, poolVars
  <2>2. PagesOk' /\ Numbered'
    BY <1>1, <2>1, Edits, PagesKept
  <2>3. CallOk' /\ call'.step = "enter"
    BY <1>1, <2>1, Calls DEF CallOk
  <2> QED  BY <2>1, <2>2, <2>3, LoopKeeps
<1>3. CASE Scroll
  <2>1. /\ \/ page' = [page EXCEPT ![front].scroll = 1 - @]
           \/ page' = [page EXCEPT ![front].scroll = 1 - @, ![front].revision = @ + 1]
        /\ drained = {} /\ UNCHANGED <<poolVars, front, window, drained>> /\ UNCHANGED submitted
    BY <1>3 DEF Scroll, ScrollRetained, ScrollHover, Handler, Between, poolVars
  <2>2. \/ call' = Schedule(front, window)
        \/ \E selection \in BOOLEAN :
             call' = [Schedule(front, window) EXCEPT !.retained = TRUE, !.selection = selection]
    BY <1>3 DEF Scroll, ScrollRetained, ScrollHover
  <2>3. PagesOk' /\ Numbered'
    BY <1>1, <2>1, Edits, PagesKept
  <2>4. call' \in CallSet /\ call'.step = "enter" /\ call'.tab = front
    <3>1. /\ Schedule(front, window) \in CallSet /\ Schedule(front, window).step = "enter"
          /\ Schedule(front, window).tab = front
      BY <1>1, Calls
    <3> QED  BY <2>2, <3>1 DEF CallSet
  <2>5. CallOk'
    BY <1>1, <2>1, <2>4 DEF CallOk
  <2> QED  BY <2>1, <2>3, <2>4, <2>5, LoopKeeps
<1>4. ASSUME NEW v \in Viewports \cup {"zero"}, Resize(v) PROVE PageInv'
  <2>1. /\ window' = v /\ call' = Schedule(front, v) /\ v \in Views
        /\ drained = {} /\ UNCHANGED <<poolVars, page, front, drained>> /\ UNCHANGED submitted
    BY <1>4 DEF Resize, Handler, Between, poolVars, Views
  <2>2. PagesOk' /\ Numbered'
    BY <2>1, PagesKept
  <2>3. CallOk' /\ call'.step = "enter"
    BY <1>1, <2>1, Calls DEF CallOk
  <2> QED  BY <2>1, <2>2, <2>3, LoopKeeps
<1>5. ASSUME NEW t \in Tabs, Activate(t) PROVE PageInv'
  <2>1. /\ front' = t /\ call' = Schedule(t, window)
        /\ drained = {} /\ UNCHANGED <<poolVars, page, window, drained>> /\ UNCHANGED submitted
    BY <1>5 DEF Activate, Handler, Between, poolVars
  <2>2. PagesOk' /\ Numbered'
    BY <2>1, PagesKept
  <2>3. CallOk' /\ call'.step = "enter"
    BY <1>1, <2>1, Calls DEF CallOk
  <2> QED  BY <2>1, <2>2, <2>3, LoopKeeps
<1>6. ASSUME NEW t \in Tabs, SheetsArrive(t) PROVE PageInv'
  <2>1. /\ page' = [page EXCEPT ![t].sheets = "batch", ![t].revision = @ + 1]
        /\ call' = IF t = front THEN Schedule(t, window) ELSE NoCall
        /\ drained = {} /\ UNCHANGED <<poolVars, front, window, drained>> /\ UNCHANGED submitted
    BY <1>6 DEF SheetsArrive, Between, poolVars
  <2>2. PagesOk' /\ Numbered'
    BY <1>1, <2>1, Edits, PagesKept
  <2>3. CallOk' /\ (call' = NoCall \/ call'.step = "enter")
    BY <1>1, <2>1, Calls DEF CallOk
  <2> QED  BY <2>1, <2>2, <2>3, LoopKeeps
<1>7. ASSUME NEW t \in Tabs, RecoverTab(t) PROVE PageInv'
  <2>1. /\ page' = [page EXCEPT ![t] = Undirty(@)] /\ call' = Resubmission(t)
        /\ drained = {} /\ UNCHANGED <<poolVars, front, window, drained>> /\ UNCHANGED submitted
    BY <1>7 DEF RecoverTab, Between, poolVars
  <2>2. PagesOk' /\ Numbered'
    BY <1>1, <2>1, Edits, PagesKept
  <2>3. CallOk' /\ (call' = NoCall \/ call'.step = "enter")
    BY <1>1, <2>1, Calls DEF CallOk
  <2> QED  BY <2>1, <2>2, <2>3, LoopKeeps
<1>8. CASE Recover \/ Sleep \/ \E t \in Tabs : AskPool(t)
  <2>1. UNCHANGED <<poolVars, page, front, window, call, drained>> /\ UNCHANGED submitted
    BY <1>8 DEF Recover, Sleep, AskPool, poolVars
  <2>2. PagesOk' /\ Numbered' /\ CallOk'
    BY <1>1, <2>1, PagesKept DEF CallOk
  <2> QED  BY <2>1, <2>2, LoopKeeps
<1>9. CASE ScheduleComposite
  <2>1. /\ page' = [page EXCEPT ![call.tab].requested = call.viewport] /\ call' = NoCall
        /\ call.tab \in Tabs /\ call.viewport \in Views
        /\ UNCHANGED <<poolVars, front, window, drained>> /\ UNCHANGED submitted
    BY <1>1, <1>9 DEF ScheduleComposite, CallSet, poolVars
  <2>2. PagesOk' /\ Numbered'
    BY <1>1, <2>1, Edits, PagesKept
  <2>3. CallOk'
    BY <1>1, <2>1, Calls DEF CallOk
  <2> QED  BY <2>1, <2>2, <2>3, LoopKeeps
<1> QED  BY <1>2, <1>3, <1>4, <1>5, <1>6, <1>7, <1>8, <1>9

(* The renders of a tab are cancelled.                                       *)
LEMMA CancelsKeep ==
    ASSUME PageInv, ScheduleNothing \/ \E t \in Tabs : Navigate(t) \/ Close(t)
    PROVE  PageInv'
<1>1. /\ front \in Tabs /\ window \in Views /\ call \in CallSet /\ (call.step # "none" => call.tab \in Tabs)
      /\ page \in [Tabs -> PageSet]
  BY DEF PageInv, CallOk, PagesOk
<1>2. CASE ScheduleNothing
  <2>1. /\ call.tab \in Tabs /\ CancelTab(call.tab) /\ call' = NoCall
        /\ page' = [page EXCEPT ![call.tab].requested = "zero", ![call.tab].shown = "none",
                                ![call.tab].generation = @ + 1, ![call.tab].dirty = "none"]
        /\ UNCHANGED <<front, window, drained>>
    BY <1>1, <1>2 DEF ScheduleNothing
  <2>2. /\ PoolInv(JobSet)' /\ UNCHANGED <<completed, submitted>>
        /\ Rendering' \subseteq Rendering /\ Unpublished' \subseteq Unpublished
    BY <2>1, CancelEffect
  <2>3. PagesOk' /\ Numbered'
    <3>1. \E p : Edit(call.tab, p)
      BY <2>1, Edits DEF Views, Sheets
    <3> QED  BY <2>1, <2>2, <3>1, PagesKept
  <2>4. CallOk'
    BY <1>1, <2>1, Calls DEF CallOk
  <2> QED  BY <2>1, <2>2, <2>3, <2>4, FewerKeeps
<1>3. ASSUME NEW t \in Tabs, Navigate(t) PROVE PageInv'
  <2>1. PICK sheets \in {"none", "linked"} :
          page' = [page EXCEPT ![t] = [Fresh(page[t].serial + 1, page[t].revision + 1, sheets)
                                         EXCEPT !.generation = page[t].generation]]
    BY <1>3 DEF Navigate
  <2>2. /\ CancelTab(t) /\ drained = {} /\ call' = IF t = front THEN Schedule(t, window) ELSE NoCall
        /\ UNCHANGED <<front, window, drained>>
    BY <1>3 DEF Navigate, Handler, Between
  <2>3. /\ PoolInv(JobSet)' /\ UNCHANGED <<completed, submitted>>
        /\ Rendering' \subseteq Rendering /\ Unpublished' \subseteq Unpublished
    BY <2>2, CancelEffect
  <2>4. PagesOk' /\ Numbered'
    <3> DEFINE p == [Fresh(page[t].serial + 1, page[t].revision + 1, sheets)
                       EXCEPT !.generation = page[t].generation]
    <3>1. page[t].serial + 1 \in Nat /\ page[t].revision + 1 \in Nat /\ page[t].generation \in Nat
      BY <1>1 DEF PageSet
    <3>2. p \in PageSet /\ p.committed = NoCommit /\ p.generation = page[t].generation
      BY <3>1 DEF Fresh, PageSet, CommitSet, NoCommit, Views, Sheets
    <3> HIDE DEF p
    <3>3. Edit(t, p)
      BY <2>1, <3>1, <3>2 DEF Edit, OwnDocument, p
    <3> QED  BY <2>3, <3>3, PagesKept
  <2>5. CallOk' /\ (call' = NoCall \/ call'.step = "enter")
    BY <1>1, <2>2, Calls DEF CallOk
  <2> QED  BY <2>2, <2>3, <2>4, <2>5, FewerKeeps
<1>4. ASSUME NEW t \in Tabs, Close(t) PROVE PageInv'
  <2>1. PICK next \in OpenTabs : front' = next /\ call' = Schedule(next, window)
    BY <1>4 DEF Close
  <2>2. /\ CancelTab(t) /\ drained = {} /\ page' = [page EXCEPT ![t].open = FALSE]
        /\ UNCHANGED <<window, drained>> /\ next \in Tabs
    BY <1>4 DEF Close, Handler, Between, OpenTabs
  <2>3. /\ PoolInv(JobSet)' /\ UNCHANGED <<completed, submitted>>
        /\ Rendering' \subseteq Rendering /\ Unpublished' \subseteq Unpublished
    BY <2>2, CancelEffect
  <2>4. PagesOk' /\ Numbered'
    <3>1. \E p : Edit(t, p)
      BY <1>1, <2>2, Edits DEF Views, Sheets
    <3> QED  BY <2>3, <3>1, PagesKept
  <2>5. CallOk' /\ call'.step = "enter"
    BY <1>1, <2>1, <2>2, Calls DEF CallOk
  <2> QED  BY <2>2, <2>3, <2>4, <2>5, FewerKeeps
<1> QED  BY <1>2, <1>3, <1>4

(* is_tab_busy: what the first lock has shown still holds at the second,      *)
(* where a render can only have moved out of sight by way of the completions. *)
LEMMA ChecksKeep ==
    ASSUME PageInv, CheckQueue \/ CheckCompleted
    PROVE  PageInv'
<1>1. /\ call \in CallSet /\ call.tab \in Tabs /\ call.viewport \in Views
      /\ front \in Tabs /\ window \in Views /\ UNCHANGED <<poolVars, front, window, drained>>
      /\ UNCHANGED <<jobs, worker, completed, submitted>>
  BY DEF PageInv, CallOk, CheckQueue, CheckCompleted, CallSet, poolVars
<1>2. PoolInv(JobSet)'
  BY <1>1 DEF poolVars, PageInv, PoolInv, PoolTypes, MarkersExact, HeldJobs, Marked, OwnJobs,
              OneSlot, Known, ThreadsOk, ThreadOk, Accounted, OwnSubmissions,
              LatestWins, NeverOutOfSight, Superseded, QueuedFor, Jobs
<1>3. /\ Rendering' = Rendering /\ Unpublished' = Unpublished /\ Finished' = Finished
      /\ DrainedJobs' = DrainedJobs
  BY <1>1 DEF Rendering, Finished, DrainedJobs, Unpublished, HeldJobs, Marked, Jobs
<1>4. OneWay'
  BY <1>1, <1>3 DEF PageInv, OneWay
<1>5. Superseded(call.tab) = {j \in Rendering : j.tab = call.tab}
  BY <1>1, RenderJobs, PoolJobs DEF PageInv, Rendering
<1>6. PagesOk' /\ Numbered'
  <2>1. \/ UNCHANGED page
        \/ page' = [page EXCEPT ![call.tab].requested = call.viewport]
        \/ page' = [page EXCEPT ![call.tab].requested = call.viewport,
                                ![call.tab].dirty = call.viewport]
    BY DEF CheckQueue, CheckCompleted, Coalesce
  <2>2. UNCHANGED page \/ \E p : Edit(call.tab, p)
    BY <1>1, <2>1, Edits DEF Sheets
  <2> QED  BY <1>1, <2>2, PagesKept
<1>7. \/ call' = NoCall
      \/ /\ call.step = "enter" /\ call' = [call EXCEPT !.step = "idle"]
         /\ Superseded(call.tab) = {}
      \/ /\ call.step = "idle" /\ call' = [call EXCEPT !.step = "submit"]
         /\ \A c \in Elements(completed) : c.job.tab # call.tab
  BY DEF CheckQueue, CheckCompleted
<1>8. CallOk'
  BY <1>1, <1>7, Calls DEF CallOk, CallSet
<1>9. CallClear'
  <2>1. CASE call' = NoCall
    BY <2>1 DEF CallClear, NoCall
  <2>2. CASE /\ call.step = "enter" /\ call' = [call EXCEPT !.step = "idle"]
             /\ Superseded(call.tab) = {}
    <3>1. call'.step = "idle" /\ call'.tab = call.tab
      BY <1>1, <2>2 DEF CallSet
    <3> QED  BY <1>3, <1>5, <2>2, <3>1 DEF PageInv, CallClear
  <2>3. CASE /\ call.step = "idle" /\ call' = [call EXCEPT !.step = "submit"]
             /\ \A c \in Elements(completed) : c.job.tab # call.tab
    <3>1. call'.step = "submit" /\ call'.tab = call.tab
      BY <1>1, <2>3 DEF CallSet
    <3>2. \A j \in Jobs(completed) : j.tab # call.tab
      BY <2>3 DEF Jobs
    <3> QED  BY <1>3, <2>3, <3>1, <3>2 DEF PageInv, CallClear, Finished
  <2> QED  BY <1>7, <2>1, <2>2, <2>3
<1> QED  BY <1>2, <1>4, <1>6, <1>8, <1>9 DEF PageInv

LEMMA PollsKeep ==
    ASSUME PageInv, OnRenderReady \/ AboutToWait
    PROVE  PageInv'
<1>1. /\ Poll /\ wake' \in BOOLEAN /\ call = NoCall /\ drained = {}
      /\ UNCHANGED <<page, front, window, call>>
  BY DEF OnRenderReady, AboutToWait, Between, PageInv, PoolInv, PoolTypes
<1>2. /\ PoolInv(JobSet)' /\ UNCHANGED submitted
      /\ Rendering' = Rendering /\ Unpublished' = Unpublished
      /\ Elements(completed') = {} /\ drained' \subseteq Elements(completed)
  BY <1>1, PollEffect
<1>3. PagesOk' /\ Numbered' /\ CallOk'
  BY <1>1, <1>2, PagesKept DEF PageInv, CallOk
<1> QED  BY <1>1, <1>2, <1>3, FewerKeeps

(* A completion is committed; the render coalesced behind it finds no other   *)
(* of its tab among those still to be committed.                            *)
LEMMA CommitKeeps ==
    ASSUME PageInv, Commit
    PROVE  PageInv'
<1>1. PICK c \in drained : /\ drained' = drained \ {c}
                           /\ \/ CommitClosed(c) \/ CommitDiscarded(c)
                              \/ CommitDeferred(c) \/ CommitInstalled(c)
  BY DEF Commit
<1> DEFINE t == c.job.tab
           q == page[t]
<1>2. /\ call = NoCall /\ UNCHANGED <<poolVars, front, window>>
      /\ UNCHANGED <<jobs, worker, completed, submitted>>
      /\ c \in CompletionSet(JobSet) /\ c.job \in JobSet /\ t \in Tabs
      /\ page \in [Tabs -> PageSet] /\ q \in PageSet /\ OwnDocument(q)
  BY DEF Commit, PageInv, PagesOk, OneWay, CompletionSet, JobSet, poolVars
<1>3. PoolInv(JobSet)'
  BY <1>2 DEF poolVars, PageInv, PoolInv, PoolTypes, MarkersExact, HeldJobs, Marked, OwnJobs,
              OneSlot, Known, ThreadsOk, ThreadOk, Accounted, OwnSubmissions,
              LatestWins, NeverOutOfSight, Superseded, QueuedFor, Jobs
<1>4. Rendering' = Rendering /\ Unpublished' = Unpublished
  BY <1>2 DEF Rendering, Unpublished, HeldJobs, Marked
<1>5. PagesOk' /\ Numbered'
  <2>1. CASE CommitClosed(c)
    BY <1>2, <2>1, PagesKept DEF CommitClosed
  <2>2. CASE CommitDiscarded(c)
    <3>1. page' = [page EXCEPT ![t] = Undirty(@)]
      BY <2>2 DEF CommitDiscarded
    <3>2. \E p : Edit(t, p)
      BY <1>2, <3>1, Edits DEF Views, Sheets
    <3> QED  BY <1>2, <3>2, PagesKept
  <2>3. CASE CommitDeferred(c)
    <3> DEFINE sheets == IF q.sheets = "linked" THEN "fetching" ELSE q.sheets
    <3>1. sheets \in Sheets
      BY <1>2 DEF PageSet, Sheets
    <3>2. page' = [page EXCEPT ![t].sheets = sheets]
      BY <2>3 DEF CommitDeferred
    <3> HIDE DEF sheets
    <3>3. \E p : Edit(t, p)
      BY <1>2, <3>1, <3>2, Edits DEF Views
    <3> QED  BY <1>2, <3>3, PagesKept
  <2>4. CASE CommitInstalled(c)
    <3> DEFINE p == Installed(c.job, q)
    <3>1. page' = [page EXCEPT ![t] = p]
      BY <2>4 DEF CommitInstalled
    <3>2. c.job.serial = q.serial
      BY <2>4 DEF CommitInstalled, Accepted, Current
    <3>3. /\ p \in PageSet /\ p.committed.serial = c.job.serial /\ p.serial = q.serial
          /\ p.generation = q.generation
      <4> DEFINE commit == [generation |-> c.job.generation, serial |-> c.job.serial,
                            revision |-> c.job.revision, styled |-> c.job.styled]
                 sheets == IF c.job.applies THEN "applied" ELSE Undirty(q).sheets
                 a == Undirty(q)
                 b == [a EXCEPT !.committed = commit]
                 d == [b EXCEPT !.shown = c.job.viewport]
      <4>1. /\ commit \in CommitSet /\ commit.serial = c.job.serial
            /\ c.job.viewport \in Views /\ "none" \in Views
        BY <1>2 DEF CommitSet, JobSet, Views
      <4>2. a \in PageSet /\ a.serial = q.serial /\ a.generation = q.generation /\ sheets \in Sheets
        BY <1>2, <4>1, FieldEdits DEF PageSet, Undirty, Sheets
      <4>3. p = [d EXCEPT !.sheets = sheets]
        BY DEF Installed
      <4> HIDE DEF commit, sheets, a, p, q
      <4>4. b \in PageSet /\ b.committed = commit /\ b.serial = q.serial /\ b.generation = q.generation
        BY <4>1, <4>2, FieldEdits DEF PageSet
      <4> HIDE DEF b
      <4>5. d \in PageSet /\ d.committed = commit /\ d.serial = q.serial /\ d.generation = q.generation
        BY <4>1, <4>4, FieldEdits DEF PageSet
      <4> HIDE DEF d
      <4> QED  BY <4>1, <4>2, <4>3, <4>5, FieldEdits DEF PageSet
    <3>4. q.generation \in Nat
      BY <1>2 DEF PageSet
    <3> HIDE DEF p, q
    <3>5. Edit(t, p)
      BY <3>1, <3>2, <3>3, <3>4 DEF Edit, OwnDocument, q
    <3> QED  BY <1>2, <3>5, PagesKept
  <2> QED  BY <1>1, <2>1, <2>2, <2>3, <2>4
<1>6. call' = NoCall \/ call' = Resubmission(t)
  BY <1>1, <1>2 DEF CommitClosed, CommitDiscarded, CommitDeferred, CommitInstalled
<1>7. CallOk'
  <2>1. front \in Tabs /\ window \in Views
    BY DEF PageInv, CallOk
  <2>2. CASE call' = NoCall
    BY <1>2, <2>1, <2>2, Calls DEF CallOk
  <2>3. CASE call' = Resubmission(t) /\ call' # NoCall
    BY <1>2, <2>1, <2>3, Calls DEF CallOk
  <2> QED  BY <1>6, <2>2, <2>3
<1>8. call' = NoCall \/ (call'.step = "enter" /\ call'.tab = t)
  BY <1>2, <1>6, Calls
<1>9. \A d \in drained' : d.job.tab # t
  <2> SUFFICES ASSUME NEW d \in drained, d.job.tab = t PROVE d = c
    BY <1>1
  <2>1. d.job \in Finished /\ c.job \in Finished
    BY DEF Finished, DrainedJobs
  <2>2. d.job = c.job
    BY <2>1 DEF PageInv, OneWay
  <2> QED  BY <2>2 DEF PageInv, OneWay
<1> HIDE DEF t
<1>10. Elements(completed') \cup drained' \subseteq Elements(completed) \cup drained
  BY <1>1, <1>2
<1> QED  BY <1>3, <1>4, <1>5, <1>7, <1>8, <1>9, <1>10, FewerKeeps

------------------------------------------------------------------------------
(* The invariant.                                                            *)

LEMMA PageInitInv == PageInit => PageInv
<1> SUFFICES ASSUME PageInit PROVE PageInv
  OBVIOUS
<1>1. PoolInv(JobSet)
  BY RenderJobs, PoolInitInv DEF PageInit, Places, MarkedAt
<1>2. Fresh(1, 1, "none") \in PageSet /\ Fresh(1, 1, "none").committed = NoCommit
      /\ Fresh(1, 1, "none").generation = 0
  BY DEF Fresh, PageSet, NoCommit, CommitSet, Views, Sheets
<1>3. PagesOk
  BY <1>2 DEF PageInit, PagesOk, OwnDocument
<1>4. Numbered
  BY <1>2 DEF PageInit, PoolInit, Numbered, NoJob
<1>5. CallOk /\ call.step = "enter"
  BY WindowAssumption DEF PageInit, CallOk, Schedule, NoCall, CallSet, Views
<1>6. /\ jobs = <<>> /\ completed = <<>> /\ drained = {}
      /\ \A w \in Workers : worker[w].pc = "awake"
  BY DEF PageInit, PoolInit, Resting
<1>7. Rendering = {} /\ Finished = {} /\ DrainedJobs = {} /\ Unpublished = {} /\ Elements(completed) = {}
  <2>1. Elements(jobs) = {} /\ Elements(completed) = {}
    BY <1>6 DEF Elements
  <2> QED  BY <1>6, <2>1 DEF Rendering, Finished, DrainedJobs, Unpublished, HeldJobs, Marked, Jobs
<1>8. OneWay /\ CallClear
  BY <1>5, <1>6, <1>7 DEF OneWay, CallClear
<1> QED  BY <1>1, <1>3, <1>4, <1>5, <1>8 DEF PageInv

LEMMA PageStep == PageInv /\ [PageNext]_vars => PageInv'
<1> SUFFICES ASSUME PageInv, [PageNext]_vars PROVE PageInv'
  OBVIOUS
<1>1. CASE User
  BY <1>1, EventsKeep, CancelsKeep DEF User
<1>2. CASE App
  BY <1>2, EventsKeep, CancelsKeep, ChecksKeep, SubmitJobKeeps, PollsKeep, CommitKeeps DEF App
<1>3. CASE Pool
  BY <1>3, ThreadKeepsPage DEF Pool
<1>4. CASE \E t \in Tabs : SheetsArrive(t)
  BY <1>4, EventsKeep
<1>5. CASE UNCHANGED vars
  <2>1. UNCHANGED <<poolVars, page, front, window, call, drained, submitted>>
    BY <1>5 DEF vars, appVars, poolVars
  <2>2. PagesOk' /\ Numbered' /\ CallOk'
    BY <2>1, PagesKept DEF PageInv, CallOk
  <2> QED  BY <2>1, <2>2, LoopKeeps
<1> QED  BY <1>1, <1>2, <1>3, <1>4, <1>5 DEF PageNext

LEMMA PageAlways == PageSpec => []PageInv
  BY PageInitInv, PageStep, PTL DEF PageSpec

(* The running render wins: schedule_page_render never submits for a tab that *)
(* has a render between its submission and its commit, although is_tab_busy   *)
(* reads the queue and the completions one after the other.                 *)
THEOREM RunningRenderWins == PageSpec => []OneRenderPerTab
<1>1. ASSUME PageInv, NEW t \in Tabs PROVE Cardinality(RendersOf(t)) <= 1
  <2>1. Superseded(t) = {j \in Rendering : j.tab = t}
    BY <1>1, RenderJobs, PoolJobs DEF PageInv, Rendering
  <2>2. RendersOf(t) = {j \in Rendering \cup Finished : j.tab = t}
    BY <2>1 DEF RendersOf, Finished, DrainedJobs
  <2>3. CASE RendersOf(t) = {}
    BY <2>3, FS_EmptySet
  <2>4. CASE RendersOf(t) # {}
    <3>1. PICK j : RendersOf(t) = {j}
      BY <1>1, <2>2, <2>4 DEF PageInv, OneWay
    <3> QED  BY <3>1, FS_Singleton
  <2> QED  BY <2>3, <2>4
<1>2. PageInv => OneRenderPerTab
  BY <1>1 DEF OneRenderPerTab
<1> QED  BY <1>2, PageAlways, PTL

(* The frame commit_render installs is of the document the page holds.       *)
THEOREM FramesMatchDocuments == PageSpec => []ShowsOwnDocument
<1>1. PageInv => ShowsOwnDocument
  BY DEF PageInv, PagesOk, OwnDocument, ShowsOwnDocument, OpenTabs
<1> QED  BY <1>1, PageAlways, PTL

------------------------------------------------------------------------------
(* No repaint is forgotten.                                                  *)

PageSound(p) ==
    /\ p.requested = "zero" => p.shown = "none"
    /\ p.committed.generation <= p.generation /\ p.committed.revision <= p.revision
PagesSound == \A t \in Tabs : PageSound(page[t])

CallSound ==
    /\ window # "none" /\ page[front].open
    /\ call.step # "none" => call.viewport # "none"
    /\ call.step \in {"idle", "submit"} => call.viewport # "zero"

\* A render of the page's document paints a state between the one on screen and
\* the present one; its style sheets are those of its submission.
JobSound(j, p) ==
    /\ j.viewport # "zero" /\ j.serial <= p.serial /\ j.generation <= p.generation
    /\ j.serial = p.serial =>
         /\ p.committed.revision <= j.revision /\ j.revision <= p.revision
         /\ j.plans /\ ~j.applies => /\ p.sheets # "none"
                                     /\ p.sheets = "batch" => j.revision < p.revision
         /\ j.applies => p.sheets \in {"batch", "applied"}
JobsSound == \A j \in Rendering \cup Finished : JobSound(j, page[j.tab])

\* A render reported as cancelled was cancelled, and is not published.
EndSound(w) ==
    /\ worker[w].pc = "rendered" /\ worker[w].result = "cancelled" => worker[w].job \in cancelled
    /\ worker[w].pc = "publishing" => worker[w].result # "cancelled"
EndsSound == /\ \A w \in Workers : EndSound(w)
             /\ Distinct(completed)
             /\ \A c \in Elements(completed) : c.result # "cancelled"

\* The renders that will come to a commit, and what is about to be painted.
Live == (Unpublished \ cancelled) \cup Finished
Paints(j) ==
    LET p == page[front] IN
    /\ j.tab = front /\ j.serial = p.serial /\ j.revision = p.revision
    /\ j.generation > p.committed.generation
CallPaints == call.step # "none" /\ call.tab = front /\ ~CanRetain
Covered == \/ Settled(front) \/ page[front].dirty # "none" \/ page[front].sheets = "fetching"
           \/ CallPaints \/ \E j \in Live : Paints(j)

CoverInv == PageInv /\ PagesSound /\ CallSound /\ JobsSound /\ EndsSound /\ Covered

------------------------------------------------------------------------------
(* What the pool does with the renders under way.                            *)

LEMMA PoolIdle ==
    ASSUME EndsSound, UNCHANGED <<jobs, worker, cancelled, completed, drained>>
    PROVE  Live' = Live /\ EndsSound' /\ (Rendering \cup Finished)' = Rendering \cup Finished
<1>1. /\ Rendering' = Rendering /\ Finished' = Finished /\ Unpublished' = Unpublished
  BY DEF Rendering, Finished, DrainedJobs, Unpublished, HeldJobs, Marked, Jobs
<1>2. EndsSound'
  BY DEF EndsSound, EndSound
<1> QED  BY <1>1, <1>2 DEF Live

LEMMA CancelLive ==
    ASSUME PageInv, EndsSound, NEW t \in Tabs, CancelTab(t), UNCHANGED drained
    PROVE  /\ \A j \in Live : j.tab # t => j \in Live'
           /\ EndsSound' /\ (Rendering \cup Finished)' \subseteq Rendering \cup Finished
<1>1. JobsOf(JobSet) /\ PoolInv(JobSet)
  BY RenderJobs DEF PageInv
<1>2. /\ jobs' = Others(t) /\ cancelled' = cancelled \cup Superseded(t)
      /\ UNCHANGED <<worker, completed, drained>>
  BY DEF CancelTab
<1>3. Elements(jobs') = {j \in Elements(jobs) : j.tab # t}
  BY <1>1, <1>2, OthersEffect
<1>4. \A j \in Superseded(t) : j.tab = t
  BY <1>1, PoolJobs
<1>5. /\ HeldJobs' = HeldJobs /\ Finished' = Finished
      /\ \A j \in Unpublished : j.tab # t => j \in Unpublished'
  BY <1>2, <1>3 DEF HeldJobs, Marked, Finished, Jobs, DrainedJobs, Unpublished
<1>6. \A j \in Live : j.tab # t => j \in Live'
  BY <1>2, <1>4, <1>5 DEF Live
<1>7. EndsSound'
  BY <1>2 DEF EndsSound, EndSound
<1>8. (Rendering \cup Finished)' \subseteq Rendering \cup Finished
  BY <1>3, <1>5 DEF Rendering
<1> QED  BY <1>6, <1>7, <1>8

LEMMA SubmitLive ==
    ASSUME PageInv, EndsSound, NEW job \in JobSet, Submit(job), UNCHANGED drained,
           \A j \in Rendering : j.tab # job.tab
    PROVE  /\ \A j \in Live : j.tab # job.tab =>
                                 j \in Live' \/ j \in Elements(jobs) \ Elements(jobs')
           /\ job \in Live' /\ EndsSound'
           /\ (Rendering \cup Finished)' \subseteq Rendering \cup Finished \cup {job}
<1>1. JobsOf(JobSet) /\ PoolInv(JobSet) /\ job.tab \in Tabs
  BY RenderJobs DEF PageInv, JobSet
<1>2. PICK dropped \in SUBSET Elements(jobs) :
        /\ Elements(jobs') = {j \in Elements(jobs) \ dropped : j.tab # job.tab} \cup {job}
        /\ cancelled' = Without(job.tab) \cup active[job.tab] \cup dropped
  <2>1. PICK J : J = JobSet
    OBVIOUS
  <2>2. JobsOf(J) /\ PoolInv(J)
    BY <1>1, <2>1
  <2>3. job \in J /\ Submit(job)
    BY <2>1
  <2>4. \E dropped \in SUBSET Elements(jobs) :
          /\ jobs' \in Seq(J) /\ Len(jobs') <= QueueCapacity /\ Distinct(jobs')
          /\ Elements(jobs') = {j \in Elements(jobs) \ dropped : j.tab # job.tab} \cup {job}
          /\ cancelled' = Without(job.tab) \cup active[job.tab] \cup dropped
    BY <2>2, <2>3, QueueEffect
  <2> QED  BY <2>4
<1>3. /\ UNCHANGED <<completed, drained>>
      /\ \A j \in Elements(jobs) : j.tab # job.tab
  BY DEF Submit, Rendering
<1>4. \A j \in dropped : j.tab # job.tab /\ j \in Elements(jobs) \ Elements(jobs')
  BY <1>2, <1>3
<1>5. \A w \in Workers : worker'[w] = worker[w]
                         \/ (worker[w].pc = "asleep" /\ worker'[w] = Resting("awake"))
  <2>1. NotifyOne
    BY DEF Submit
  <2> QED  BY <1>1, <2>1, NotifyEffect
<1>6. active[job.tab] = {j \in HeldJobs : j.tab = job.tab}
  BY <1>1, PoolJobs
<1>7. active[job.tab] = {}
  BY <1>6 DEF Rendering
<1>8. \A w \in Workers : /\ worker[w].pc \in {"rendering", "rendered", "publishing"} => worker'[w] = worker[w]
                         /\ worker'[w].pc \in MarkedAt => worker'[w] = worker[w]
  BY <1>5 DEF Resting, MarkedAt
<1>9. HeldJobs' \subseteq HeldJobs /\ Finished' = Finished
  BY <1>3, <1>8 DEF HeldJobs, Marked, MarkedAt, Finished, Jobs, DrainedJobs
<1>10. \A j \in Unpublished : j \in Unpublished' \/ j \in dropped
  BY <1>2, <1>3, <1>8 DEF Unpublished
<1>11. \A j \in cancelled' : j.tab # job.tab /\ (j \in cancelled \/ j \in dropped)
  BY <1>2, <1>7, <1>4 DEF Without
<1>12. \A j \in Live : j.tab # job.tab => j \in Live' \/ j \in Elements(jobs) \ Elements(jobs')
  BY <1>9, <1>10, <1>11, <1>4 DEF Live
<1>13. job \in Live'
  BY <1>2, <1>11 DEF Live, Unpublished
<1>14. EndsSound'
  <2> SUFFICES ASSUME NEW w \in Workers PROVE EndSound(w)'
    BY <1>3 DEF EndsSound
  <2>1. CASE worker'[w].pc \in MarkedAt
    <3>1. worker'[w] = worker[w] /\ EndSound(w)
      BY <1>8, <2>1 DEF EndsSound
    <3>2. ASSUME worker[w].pc = "rendered", worker[w].job \in cancelled
          PROVE  worker[w].job \in cancelled'
      <4>1. worker[w].job.tab # job.tab
        BY <3>2 DEF Rendering, HeldJobs, Marked
      <4> QED  BY <1>2, <3>2, <4>1 DEF Without
    <3> QED  BY <3>1, <3>2 DEF EndSound
  <2>2. CASE worker'[w].pc \notin MarkedAt
    BY <2>2 DEF EndSound, MarkedAt
  <2> QED  BY <2>1, <2>2
<1>15. (Rendering \cup Finished)' \subseteq Rendering \cup Finished \cup {job}
  BY <1>2, <1>9 DEF Rendering
<1> QED  BY <1>12, <1>13, <1>14, <1>15

(* drain_latest hands over all there is: one completion of each tab, none of  *)
(* them cancelled.                                                          *)
LEMMA PollLive ==
    ASSUME PageInv, EndsSound, Poll, drained = {}
    PROVE  /\ Live' = Live /\ EndsSound'
           /\ (Rendering \cup Finished)' = Rendering \cup Finished
<1>1. /\ completed' = <<>> /\ drained' = Newest
      /\ UNCHANGED <<jobs, cancelled, worker>>
  BY DEF Poll, Drain
<1>2. Elements(completed) \subseteq CompletionSet(JobSet)
  BY ElementsIn DEF PageInv, PoolInv, PoolTypes
<1>3. Newest = Elements(completed)
  <2> SUFFICES ASSUME NEW c \in Elements(completed), NEW d \in Elements(completed),
                      d.job.tab = c.job.tab
               PROVE  d.job.generation <= c.job.generation
    BY DEF Newest, EndsSound
  <2>1. c.job \in Finished /\ d.job \in Finished
    BY DEF Finished, Jobs
  <2>2. d.job = c.job
    BY <2>1 DEF PageInv, OneWay
  <2>3. c.job.generation \in Nat
    BY <1>2 DEF CompletionSet, JobSet
  <2> QED  BY <2>2, <2>3
<1>4. Elements(completed') = {}
  BY <1>1 DEF Elements
<1>5. Finished' = Finished
  BY <1>1, <1>3, <1>4 DEF Finished, Jobs, DrainedJobs
<1>6. HeldJobs' = HeldJobs /\ Unpublished' = Unpublished /\ Rendering' = Rendering
  BY <1>1 DEF HeldJobs, Marked, Unpublished, Rendering
<1>7. EndsSound'
  BY <1>1, <1>4 DEF EndsSound, EndSound, Distinct
<1> QED  BY <1>1, <1>5, <1>6, <1>7 DEF Live

\* A thread's step that leaves the completions alone and takes no render that is
\* not cancelled out of sight.
Keeps(w, r) ==
    LET job == worker[w].job
        Working == {"rendering", "rendered", "publishing"}
    IN  /\ worker' = [worker EXCEPT ![w] = r] /\ UNCHANGED completed
        /\ cancelled' \subseteq cancelled /\ (cancelled \ {job}) \subseteq cancelled'
        /\ cancelled' = cancelled \/ worker[w].pc = "unmarking"
        /\ r.pc \in MarkedAt => r.job \in Rendering
        /\ Elements(jobs') \subseteq Elements(jobs)
        /\ \A j \in Elements(jobs) : j \in Elements(jobs') \/ (r.pc \in Working /\ r.job = j)
        /\ worker[w].pc \in Working => job \in cancelled \/ (r.pc \in Working /\ r.job = job)

(* The completions stay distinct: a job is published once.                    *)
LEMMA PublishDistinct ==
    ASSUME PageInv, Distinct(completed), NEW w \in Workers, Publish(w)
    PROVE  Distinct(completed)'
<1> DEFINE c == [job |-> worker[w].job, result |-> worker[w].result]
           full == Len(completed) = CompletionCapacity
           base == IF full THEN Tail(completed) ELSE completed
<1>1. /\ PoolInv(JobSet) /\ JobsOf(JobSet) /\ worker[w].pc = "publishing"
      /\ worker[w] \in ThreadSet(JobSet) /\ completed \in Seq(CompletionSet(JobSet))
      /\ completed' = Append(base, c)
  BY RenderJobs DEF PageInv, Publish, At, PoolInv, PoolTypes
<1>2. worker[w].job \in JobSet /\ worker[w].job \in Unpublished
  BY <1>1, PoolJobs DEF Marked, Unpublished
<1>3. c \in CompletionSet(JobSet) /\ c \notin Elements(completed)
  <2>1. \A d \in Elements(completed) : d.job \in Finished
    BY DEF Finished, Jobs
  <2>2. c \notin Elements(completed)
    BY <1>2, <2>1 DEF PageInv, OneWay
  <2> QED  BY <1>1, <1>2, <2>2 DEF CompletionSet, ThreadSet
<1> HIDE DEF c
<1>4. /\ base \in Seq(CompletionSet(JobSet)) /\ Distinct(base)
      /\ Elements(base) \subseteq Elements(completed)
  <2>1. CASE full
    <3>1. CompletionCapacity \in Nat \ {0}
      BY PoolAssumption DEF CompletionCapacity
    <3>2. completed # <<>>
      BY <1>1, <2>1, <3>1, EmptySeq
    <3> QED  BY <1>1, <2>1, <3>2, PopProperties
  <2>2. CASE ~full
    BY <1>1, <2>2
  <2> QED  BY <2>1, <2>2
<1> HIDE DEF base
<1> QED  BY <1>1, <1>3, <1>4, PushProperties

(* A thread takes a render from the queue to the completions, unless it has   *)
(* been cancelled on the way, and may push another out of these.             *)
LEMMA ThreadLive ==
    ASSUME PageInv, EndsSound, NEW w \in Workers, WorkerStep(w), drained' = drained
    PROVE  /\ \A j \in Live : j \in Live' \/ j \in Jobs(completed) \ Jobs(completed')
           /\ EndsSound' /\ (Rendering \cup Finished)' \subseteq Rendering \cup Finished
<1> DEFINE Busy3 == {"rendering", "rendered", "publishing"}
           job == worker[w].job
<1>1. /\ PoolInv(JobSet) /\ JobsOf(JobSet) /\ drained' = drained /\ EndSound(w)
      /\ worker \in [Workers -> ThreadSet(JobSet)] /\ jobs \in Seq(JobSet)
  BY RenderJobs DEF PageInv, PoolInv, PoolTypes, EndsSound
\* What a step amounts to that leaves the completions alone.
<1>2. ASSUME NEW r, Keeps(w, r), EndSound(w)'
      PROVE  /\ \A j \in Live : j \in Live'
             /\ EndsSound' /\ (Rendering \cup Finished)' \subseteq Rendering \cup Finished
  <2>1. worker'[w] = r /\ \A v \in Workers : v # w => worker'[v] = worker[v]
    BY <1>1, <1>2 DEF Keeps
  <2>2. Finished' = Finished
    BY <1>1, <1>2 DEF Keeps, Finished, Jobs, DrainedJobs
  <2>3. Rendering' \subseteq Rendering
    BY <1>2, <2>1 DEF Keeps, Rendering, HeldJobs, Marked, MarkedAt
  <2>4. ASSUME NEW j \in Unpublished, j \notin cancelled PROVE j \in Unpublished'
    <3>1. CASE j \in Elements(jobs)
      BY <1>2, <2>1, <2>4, <3>1 DEF Keeps, Unpublished
    <3>2. CASE j \notin Elements(jobs)
      <4>1. PICK v \in Workers : worker[v].pc \in Busy3 /\ j = worker[v].job
        BY <3>2 DEF Unpublished
      <4>2. CASE v = w
        BY <1>2, <2>1, <2>4, <4>1, <4>2 DEF Keeps, Unpublished
      <4>3. CASE v # w
        BY <2>1, <4>1, <4>3 DEF Unpublished
      <4> QED  BY <4>2, <4>3
    <3> QED  BY <3>1, <3>2
  <2>5. \A j \in Live : j \in Live'
    BY <1>2, <2>2, <2>4 DEF Keeps, Live
  <2>6. ASSUME NEW v \in Workers PROVE EndSound(v)'
    <3>1. CASE v = w
      BY <1>2, <3>1
    <3>2. CASE v # w
      <4>1. worker'[v] = worker[v] /\ EndSound(v)
        BY <2>1, <3>2 DEF EndsSound
      <4>2. worker[v].pc = "rendered" /\ worker[v].job \in cancelled => worker[v].job \in cancelled'
        <5>1. CASE cancelled' = cancelled
          BY <5>1
        <5>2. CASE worker[w].pc = "unmarking"
          <6>1. worker[v].pc = "rendered" => worker[v].job # job
            BY <1>1, <3>2, <5>2 DEF PoolInv, OwnJobs, Marked
          <6> QED  BY <1>2, <6>1 DEF Keeps
        <5> QED  BY <1>2, <5>1, <5>2 DEF Keeps
      <4> QED  BY <4>1, <4>2 DEF EndSound
    <3> QED  BY <3>1, <3>2
  <2>7. EndsSound'
    BY <1>2, <2>6 DEF Keeps, EndsSound
  <2> QED  BY <2>2, <2>3, <2>5, <2>7
<1>3. CASE Pop(w)
  <2> DEFINE r == [worker[w] EXCEPT !.pc = "rendering", !.job = Head(jobs)]
  <2>1. /\ worker' = [worker EXCEPT ![w] = r] /\ jobs' = Tail(jobs) /\ jobs # <<>>
        /\ UNCHANGED <<completed, cancelled>> /\ worker[w].pc = "awake"
    BY <1>3 DEF Pop, At
  <2>2. Elements(jobs) = {Head(jobs)} \cup Elements(Tail(jobs))
    BY <1>1, <2>1, PopProperties
  <2>3. r.job = Head(jobs) /\ r.pc = "rendering"
    BY <1>1 DEF ThreadSet
  <2> HIDE DEF r
  <2>4. EndSound(w)'
    BY <1>1, <2>1, <2>3 DEF EndSound
  <2>5. \A j \in Elements(jobs) : j \in Elements(jobs') \/ (r.pc \in Busy3 /\ r.job = j)
    BY <2>1, <2>2, <2>3
  <2>6. Elements(jobs') \subseteq Elements(jobs) /\ r.job \in Rendering
    BY <2>1, <2>2, <2>3 DEF Rendering
  <2>7. Keeps(w, r)
    BY <2>1, <2>5, <2>6 DEF Keeps
  <2> QED  BY <1>2, <2>4, <2>7
<1>4. ASSUME NEW pc \in {"awake", "asleep", "gone"}, worker' = [worker EXCEPT ![w] = Resting(pc)],
             worker[w].pc \notin Busy3, UNCHANGED <<jobs, completed, cancelled>>
      PROVE  /\ \A j \in Live : j \in Live'
             /\ EndsSound' /\ (Rendering \cup Finished)' \subseteq Rendering \cup Finished
  <2>1. Resting(pc).pc = pc
    BY DEF Resting
  <2>2. EndSound(w)'
    BY <1>1, <1>4, <2>1 DEF EndSound
  <2>3. Resting(pc).pc \notin MarkedAt
    BY <2>1 DEF MarkedAt
  <2>4. Keeps(w, Resting(pc))
    BY <1>4, <2>3 DEF Keeps
  <2> QED  BY <1>2, <2>2, <2>4
<1>5. CASE Wait(w) \/ Exit(w) \/ Notify(w)
  <2>1. /\ worker[w].pc \notin Busy3 /\ UNCHANGED <<jobs, completed, cancelled>>
        /\ \E pc \in {"awake", "asleep", "gone"} : worker' = [worker EXCEPT ![w] = Resting(pc)]
    BY <1>5 DEF Wait, Exit, Notify, At, queueVars
  <2> QED  BY <1>4, <2>1
<1>6. CASE Render(w)
  <2>1. PICK result : /\ worker' = [worker EXCEPT ![w].pc = "rendered", ![w].result = result]
                      /\ result = "cancelled" => job \in cancelled
    BY <1>6 DEF Render
  <2> DEFINE r == [worker[w] EXCEPT !.pc = "rendered", !.result = result]
  <2>2. /\ worker' = [worker EXCEPT ![w] = r] /\ UNCHANGED <<jobs, completed, cancelled>>
        /\ worker[w].pc = "rendering"
    BY <1>6, <2>1 DEF Render, At, queueVars
  <2>3. r.job = job /\ r.pc = "rendered" /\ r.result = result
    BY <1>1 DEF ThreadSet
  <2>4. job \in Rendering
    BY <2>2 DEF Rendering, HeldJobs, Marked
  <2> HIDE DEF r
  <2>5. EndSound(w)'
    BY <1>1, <2>1, <2>2, <2>3 DEF EndSound
  <2>6. Keeps(w, r)
    BY <2>2, <2>3, <2>4 DEF Keeps
  <2> QED  BY <1>2, <2>5, <2>6
<1>7. CASE Decide(w)
  <2>1. PICK publish \in BOOLEAN :
             /\ publish <=> job \notin cancelled \/ worker[w].result = "panicked"
             /\ worker' = [worker EXCEPT ![w].pc = IF publish THEN "publishing" ELSE "unmarking",
                                         ![w].published = publish]
    BY <1>7 DEF Decide
  <2> DEFINE r == [worker[w] EXCEPT !.pc = IF publish THEN "publishing" ELSE "unmarking",
                                    !.published = publish]
  <2>2. /\ worker' = [worker EXCEPT ![w] = r] /\ UNCHANGED <<jobs, completed, cancelled>>
        /\ worker[w].pc = "rendered"
    BY <1>7, <2>1 DEF Decide, At, queueVars
  <2>3. r.job = job /\ r.result = worker[w].result /\ r.pc = IF publish THEN "publishing" ELSE "unmarking"
    BY <1>1 DEF ThreadSet
  <2>4. job \in Rendering
    BY <2>2 DEF Rendering, HeldJobs, Marked
  <2> HIDE DEF r
  <2>5. EndSound(w)'
    BY <1>1, <2>1, <2>2, <2>3 DEF EndSound
  <2>6. job \in cancelled \/ r.pc \in Busy3
    BY <2>1, <2>3
  <2>7. Keeps(w, r)
    BY <2>2, <2>3, <2>4, <2>6 DEF Keeps
  <2> QED  BY <1>2, <2>5, <2>7
<1>8. CASE Unmark(w)
  <2>1. PICK r \in {Resting("awake"), [Resting("waking") EXCEPT !.published = TRUE]} :
             worker' = [worker EXCEPT ![w] = r]
    BY <1>8 DEF Unmark
  <2>2. r.pc \notin MarkedAt /\ r.pc \notin Busy3
    BY <2>1 DEF Resting, MarkedAt
  <2>3. /\ UNCHANGED <<jobs, completed>> /\ cancelled' \subseteq cancelled
        /\ \A j \in cancelled : j = job \/ j \in cancelled'
        /\ worker[w].pc = "unmarking"
    BY <1>8 DEF Unmark, At
  <2>4. EndSound(w)'
    BY <1>1, <2>1, <2>2 DEF EndSound
  <2>5. Keeps(w, r)
    BY <2>1, <2>2, <2>3 DEF Keeps
  <2> QED  BY <1>2, <2>4, <2>5
<1>9. CASE Publish(w)
  <2> DEFINE r == [worker[w] EXCEPT !.pc = "unmarking", !.result = "none"]
             c == [job |-> job, result |-> worker[w].result]
  <2>1. /\ worker[w].pc = "publishing" /\ worker' = [worker EXCEPT ![w] = r]
        /\ UNCHANGED <<jobs, cancelled>>
    BY <1>9 DEF Publish, At, queueVars
  <2>2. r.pc = "unmarking" /\ r.job = job
    BY <1>1 DEF ThreadSet
  <2> HIDE DEF r
  <2>3. worker'[w] = r /\ \A v \in Workers : v # w => worker'[v] = worker[v]
    BY <1>1, <2>1
  <2>4. /\ Elements(completed') \subseteq Elements(completed) \cup {c} /\ Distinct(completed)'
        /\ Jobs(completed)' \subseteq Jobs(completed) \cup {job} /\ job \in Jobs(completed)'
    BY <1>1, <1>9, CompletedEffect, PublishDistinct DEF EndsSound
  <2>5. /\ Finished' \subseteq Finished \cup {job} /\ job \in Finished'
        /\ \A j \in Finished : j \in Finished' \/ j \in Jobs(completed) \ Jobs(completed')
    BY <1>1, <2>4 DEF Finished, DrainedJobs, Jobs
  <2>6. job \in Rendering
    BY <2>1 DEF Rendering, HeldJobs, Marked
  <2>7. Rendering' \subseteq Rendering
    BY <2>1, <2>2, <2>3, <2>6 DEF Rendering, HeldJobs, Marked
  <2>8. ASSUME NEW j \in Unpublished PROVE j \in Unpublished' \/ j = job
    BY <2>1, <2>3 DEF Unpublished
  <2>9. \A j \in Live : j \in Live' \/ j \in Jobs(completed) \ Jobs(completed')
    BY <2>1, <2>5, <2>8 DEF Live
  <2>10. \A v \in Workers : EndSound(v)'
    BY <2>1, <2>2, <2>3 DEF EndsSound, EndSound
  <2>11. c.result # "cancelled"
    BY <1>1, <2>1 DEF EndSound
  <2>12. EndsSound'
    BY <2>4, <2>10, <2>11 DEF EndsSound
  <2> QED  BY <2>5, <2>6, <2>7, <2>9, <2>12
<1> QED  BY <1>3, <1>5, <1>6, <1>7, <1>8, <1>9 DEF WorkerStep

------------------------------------------------------------------------------
(* What the handlers do with the pages.                                      *)

\* The page goes on to a later state, or to another document.
Advance(p, q) ==
    /\ q.generation >= p.generation
    /\ \/ q.serial > p.serial
       \/ /\ q.serial = p.serial /\ q.committed = p.committed /\ q.revision >= p.revision
          /\ \/ q.sheets = p.sheets
             \/ p.sheets = "fetching" /\ q.sheets = "batch" /\ q.revision > p.revision
             \/ p.sheets = "linked" /\ q.sheets = "fetching"

LEMMA Advances ==
    ASSUME NEW p \in PageSet, NEW q \in PageSet, NEW j \in JobSet, JobSound(j, p), Advance(p, q)
    PROVE  JobSound(j, q)
<1>1. /\ p.generation \in Nat /\ q.generation \in Nat /\ j.generation \in Nat
      /\ p.serial \in Nat /\ q.serial \in Nat /\ j.serial \in Nat
      /\ p.revision \in Nat /\ q.revision \in Nat /\ j.revision \in Nat
  BY DEF PageSet, JobSet
<1>2. j.viewport # "zero" /\ j.serial <= q.serial /\ j.generation <= q.generation
  BY <1>1 DEF Advance, JobSound
<1>3. CASE q.serial > p.serial
  BY <1>1, <1>2, <1>3 DEF JobSound
<1>4. CASE q.serial = p.serial
  <2>1. /\ q.committed = p.committed /\ q.revision >= p.revision
        /\ \/ q.sheets = p.sheets
           \/ p.sheets = "fetching" /\ q.sheets = "batch" /\ q.revision > p.revision
           \/ p.sheets = "linked" /\ q.sheets = "fetching"
    BY <1>1, <1>4 DEF Advance
  <2> QED  BY <1>1, <1>2, <1>4, <2>1 DEF JobSound
<1> QED  BY <1>1, <1>3, <1>4 DEF Advance

LEMMA UnderWay ==
    ASSUME PageInv
    PROVE  /\ Rendering \cup Finished \subseteq JobSet /\ Live \subseteq Rendering \cup Finished
           /\ page \in [Tabs -> PageSet] /\ front \in Tabs /\ window \in Views
           /\ call \in CallSet /\ (call.step # "none" => call.tab \in Tabs)
           /\ \A t \in Tabs : page[t] \in PageSet
<1>1. JobsOf(JobSet) /\ PoolInv(JobSet)
  BY RenderJobs DEF PageInv
<1>2. Rendering \subseteq JobSet /\ Jobs(completed) \subseteq JobSet
  BY <1>1, PoolJobs DEF Rendering
<1>3. DrainedJobs \subseteq JobSet
  BY DEF PageInv, OneWay, DrainedJobs, CompletionSet
<1>4. Unpublished \subseteq Rendering
  BY DEF Unpublished, Rendering, HeldJobs, Marked
<1>5. page \in [Tabs -> PageSet]
  BY DEF PageInv, PagesOk
<1>6. /\ front \in Tabs /\ window \in Views /\ call \in CallSet
      /\ (call.step # "none" => call.tab \in Tabs)
  BY DEF PageInv, CallOk
<1> QED  BY <1>2, <1>3, <1>4, <1>5, <1>6 DEF Finished, Live

LEMMA SoundKept ==
    ASSUME PageInv, PageInv', PagesSound, JobsSound,
           (Rendering \cup Finished)' \subseteq Rendering \cup Finished,
           \A t \in Tabs : \/ page'[t] = page[t]
                           \/ Advance(page[t], page'[t]) /\ PageSound(page'[t])
    PROVE  PagesSound' /\ JobsSound'
<1>1. \A t \in Tabs : page[t] \in PageSet /\ page'[t] \in PageSet
  BY DEF PageInv, PagesOk
<1>2. PagesSound'
  BY DEF PagesSound
<1>3. ASSUME NEW j \in Rendering \cup Finished PROVE JobSound(j, page'[j.tab])
  <2>1. j \in JobSet /\ j.tab \in Tabs /\ JobSound(j, page[j.tab])
    BY <1>3, UnderWay DEF JobSet, JobsSound
  <2>2. CASE page'[j.tab] = page[j.tab]
    BY <2>1, <2>2
  <2>3. CASE Advance(page[j.tab], page'[j.tab])
    BY <1>1, <2>1, <2>3, Advances
  <2> QED  BY <2>1, <2>2, <2>3
<1>4. JobsSound'
  BY <1>3 DEF JobsSound
<1> QED  BY <1>2, <1>4

(* The call to schedule_page_render that a handler ends in.                  *)
LEMMA CallCovers ==
    ASSUME NEW v, call' = Schedule(front', v)
    PROVE  Covered' /\ call'.viewport = v /\ call'.step = "enter"
<1>1. call'.step = "enter" /\ call'.tab = front' /\ ~call'.retained /\ call'.viewport = v
  BY DEF Schedule, NoCall
<1>2. ~CanRetain'
  BY <1>1 DEF CanRetain
<1>3. CallPaints'
  BY <1>1, <1>2 DEF CallPaints
<1> QED  BY <1>1, <1>3 DEF Covered

(* A step that has nothing to do with the tab in front.                      *)
LEMMA CoverFrame ==
    ASSUME Covered, front' = front, page'[front] = page[front], lost'[front] = lost[front],
           \A j \in Live : j.tab = front => j \in Live',
           CallPaints => call' = call
    PROVE  Covered'
<1>1. Settled(front) => Settled(front)'
  BY DEF Settled, Shows
<1>2. CallPaints => CallPaints'
  BY DEF CallPaints, CanRetain, Called
<1>3. \A j : Paints(j) => Paints(j)' /\ j.tab = front
  BY DEF Paints
<1> QED  BY <1>1, <1>2, <1>3 DEF Covered

(* What the pool pushes out of the tab in front is written down, unless a     *)
(* repaint is coalesced behind it.                                          *)
LEMMA CoverPool ==
    ASSUME Covered, front \in Tabs, front' = front, page'[front] = page[front],
           NEW out, lost'[front] = PushedOut(out)[front],
           \A j \in Live : j.tab = front => j \in Live' \/ j \in out,
           CallPaints => call' = call
    PROVE  Covered'
<1>1. lost'[front] = IF page[front].dirty = "none" /\ \E j \in out : j.tab = front /\ Current(j, page[front])
                     THEN "evicted" ELSE lost[front]
  BY DEF PushedOut
<1>2. CASE lost'[front] = "evicted"
  BY <1>2 DEF Covered, Settled
<1>3. CASE page[front].dirty # "none"
  BY <1>3 DEF Covered
<1>4. CASE lost'[front] # "evicted" /\ page[front].dirty = "none"
  <2>1. lost'[front] = lost[front] /\ \A j \in out : ~Paints(j)
    BY <1>1, <1>4 DEF Paints, Current
  <2>2. Settled(front) => Settled(front)'
    BY <2>1 DEF Settled, Shows
  <2>3. CallPaints => CallPaints'
    BY DEF CallPaints, CanRetain, Called
  <2>4. \A j : Paints(j) => Paints(j)' /\ j.tab = front
    BY DEF Paints
  <2> QED  BY <2>1, <2>2, <2>3, <2>4 DEF Covered
<1> QED  BY <1>2, <1>3, <1>4

LEMMA NoCallPaints == call = NoCall => ~CallPaints
  BY DEF CallPaints, NoCall

------------------------------------------------------------------------------
(* The events.                                                               *)

LEMMA SoundMutate ==
    ASSUME CoverInv, PageInv', Mutate
    PROVE  CoverInv'
<1>1. /\ page' = [page EXCEPT ![front].revision = @ + 1] /\ call' = Schedule(front, window)
      /\ UNCHANGED <<front, window, drained, jobs, worker, cancelled, completed>>
  BY DEF Mutate, poolVars
<1>2. page[front] \in PageSet /\ PageSound(page[front]) /\ page \in [Tabs -> PageSet] /\ front \in Tabs
  BY UnderWay DEF CoverInv, PagesSound
<1>3. /\ page'[front] = [page[front] EXCEPT !.revision = @ + 1]
      /\ \A t \in Tabs : t # front => page'[t] = page[t]
  BY <1>1, <1>2
<1>4. Advance(page[front], page'[front]) /\ PageSound(page'[front]) /\ page'[front].open = page[front].open
  BY <1>2, <1>3 DEF Advance, PageSound, PageSet, CommitSet
<1>5. Live' = Live /\ EndsSound' /\ (Rendering \cup Finished)' = Rendering \cup Finished
  BY <1>1, PoolIdle DEF CoverInv
<1>6. PagesSound' /\ JobsSound'
  BY <1>3, <1>4, <1>5, SoundKept DEF CoverInv
<1>7. Covered' /\ call'.viewport = window /\ call'.step = "enter"
  BY <1>1, CallCovers
<1>8. CallSound'
  BY <1>1, <1>4, <1>7 DEF CoverInv, CallSound
<1> QED  BY <1>5, <1>6, <1>7, <1>8 DEF CoverInv

LEMMA SoundResize ==
    ASSUME CoverInv, PageInv', NEW v \in Viewports \cup {"zero"}, Resize(v)
    PROVE  CoverInv'
<1>1. /\ UNCHANGED page /\ call' = Schedule(front, v) /\ window' = v /\ v # "none"
      /\ UNCHANGED <<front, drained, jobs, worker, cancelled, completed>>
  BY WindowAssumption DEF Resize, poolVars
<1>2. Live' = Live /\ EndsSound' /\ (Rendering \cup Finished)' = Rendering \cup Finished
  BY <1>1, PoolIdle DEF CoverInv
<1>3. PagesSound' /\ JobsSound'
  BY <1>1, <1>2, SoundKept DEF CoverInv
<1>4. Covered' /\ call'.viewport = v /\ call'.step = "enter"
  BY <1>1, CallCovers
<1>5. CallSound'
  BY <1>1, <1>4 DEF CoverInv, CallSound
<1> QED  BY <1>2, <1>3, <1>4, <1>5 DEF CoverInv

LEMMA SoundActivate ==
    ASSUME CoverInv, PageInv', NEW t \in Tabs, Activate(t)
    PROVE  CoverInv'
<1>1. /\ UNCHANGED <<page, window>> /\ call' = Schedule(t, window) /\ front' = t /\ page[t].open
      /\ UNCHANGED <<drained, jobs, worker, cancelled, completed>>
  BY DEF Activate, poolVars
<1>2. Live' = Live /\ EndsSound' /\ (Rendering \cup Finished)' = Rendering \cup Finished
  BY <1>1, PoolIdle DEF CoverInv
<1>3. PagesSound' /\ JobsSound'
  BY <1>1, <1>2, SoundKept DEF CoverInv
<1>4. Covered' /\ call'.viewport = window /\ call'.step = "enter"
  BY <1>1, CallCovers
<1>5. CallSound'
  BY <1>1, <1>4 DEF CoverInv, CallSound
<1> QED  BY <1>2, <1>3, <1>4, <1>5 DEF CoverInv

LEMMA SoundScroll ==
    ASSUME CoverInv, PageInv', Scroll
    PROVE  CoverInv'
<1>1. /\ call = NoCall
      /\ UNCHANGED <<front, window, drained, lost, jobs, worker, cancelled, completed>>
  BY DEF Scroll, Handler, Between, poolVars
<1>2. page[front] \in PageSet /\ PageSound(page[front]) /\ page \in [Tabs -> PageSet] /\ front \in Tabs
  BY UnderWay DEF CoverInv, PagesSound
<1>3. Live' = Live /\ EndsSound' /\ (Rendering \cup Finished)' = Rendering \cup Finished
  BY <1>1, PoolIdle DEF CoverInv
<1>4. CASE ScrollRetained
  <2>1. PICK selection \in BOOLEAN :
          call' = [Schedule(front, window) EXCEPT !.retained = TRUE, !.selection = selection]
    BY <1>4 DEF ScrollRetained
  <2>2. /\ page'[front] = [page[front] EXCEPT !.scroll = 1 - @]
        /\ \A t \in Tabs : t # front => page'[t] = page[t]
    BY <1>2, <1>4 DEF ScrollRetained
  <2>3. /\ Advance(page[front], page'[front]) /\ PageSound(page'[front])
        /\ page'[front].open = page[front].open
    BY <1>2, <2>2 DEF Advance, PageSound, PageSet, CommitSet
  <2>4. /\ page'[front].requested = page[front].requested /\ page'[front].dirty = page[front].dirty
        /\ page'[front].shown = page[front].shown /\ page'[front].committed = page[front].committed
        /\ page'[front].sheets = page[front].sheets /\ page'[front].revision = page[front].revision
        /\ page'[front].serial = page[front].serial
    BY <1>2, <2>2 DEF PageSet
  <2>5. PagesSound' /\ JobsSound'
    BY <1>3, <2>2, <2>3, SoundKept DEF CoverInv
  <2>6. call'.viewport = window /\ call'.step = "enter"
    BY <2>1 DEF Schedule, NoCall
  <2>7. CallSound'
    BY <1>1, <2>3, <2>6 DEF CoverInv, CallSound
  <2>8. Covered'
    <3>1. Settled(front) => Settled(front)'
      BY <1>1, <2>4 DEF Settled, Shows
    <3>2. \A j : Paints(j) => Paints(j)'
      BY <1>1, <2>4 DEF Paints
    <3> QED  BY <1>1, <1>3, <2>4, <3>1, <3>2, NoCallPaints DEF CoverInv, Covered
  <2> QED  BY <1>3, <2>5, <2>7, <2>8 DEF CoverInv
<1>5. CASE ScrollHover
  <2>1. call' = Schedule(front, window)
    BY <1>5 DEF ScrollHover
  <2>2. /\ page'[front] = [page[front] EXCEPT !.scroll = 1 - @, !.revision = @ + 1]
        /\ \A t \in Tabs : t # front => page'[t] = page[t]
    BY <1>2, <1>5 DEF ScrollHover
  <2>3. /\ Advance(page[front], page'[front]) /\ PageSound(page'[front])
        /\ page'[front].open = page[front].open
    BY <1>2, <2>2 DEF Advance, PageSound, PageSet, CommitSet
  <2>4. PagesSound' /\ JobsSound'
    BY <1>3, <2>2, <2>3, SoundKept DEF CoverInv
  <2>5. Covered' /\ call'.viewport = window /\ call'.step = "enter"
    BY <1>1, <2>1, CallCovers
  <2>6. CallSound'
    BY <1>1, <2>3, <2>5 DEF CoverInv, CallSound
  <2> QED  BY <1>3, <2>4, <2>5, <2>6 DEF CoverInv
<1> QED  BY <1>4, <1>5 DEF Scroll

LEMMA SoundSheets ==
    ASSUME CoverInv, PageInv', NEW t \in Tabs, SheetsArrive(t)
    PROVE  CoverInv'
<1>1. /\ page' = [page EXCEPT ![t].sheets = "batch", ![t].revision = @ + 1] /\ call = NoCall
      /\ call' = IF t = front THEN Schedule(t, window) ELSE NoCall
      /\ page[t].sheets = "fetching"
      /\ UNCHANGED <<front, window, drained, lost, jobs, worker, cancelled, completed>>
  BY DEF SheetsArrive, Between, poolVars
<1>2. page[t] \in PageSet /\ PageSound(page[t]) /\ page \in [Tabs -> PageSet] /\ front \in Tabs
  BY UnderWay DEF CoverInv, PagesSound
<1>3. /\ page'[t] = [page[t] EXCEPT !.sheets = "batch", !.revision = @ + 1]
      /\ \A u \in Tabs : u # t => page'[u] = page[u]
  BY <1>1, <1>2
<1>4. Advance(page[t], page'[t]) /\ PageSound(page'[t]) /\ page'[t].open = page[t].open
  BY <1>1, <1>2, <1>3 DEF Advance, PageSound, PageSet, CommitSet
<1>5. Live' = Live /\ EndsSound' /\ (Rendering \cup Finished)' = Rendering \cup Finished
  BY <1>1, PoolIdle DEF CoverInv
<1>6. PagesSound' /\ JobsSound'
  BY <1>3, <1>4, <1>5, SoundKept DEF CoverInv
<1>7. page'[front].open = page[front].open
  BY <1>2, <1>3, <1>4
<1>8. CASE t = front
  <2>1. Covered' /\ call'.viewport = window /\ call'.step = "enter"
    BY <1>1, <1>8, CallCovers
  <2>2. CallSound'
    BY <1>1, <1>7, <2>1 DEF CoverInv, CallSound
  <2> QED  BY <1>5, <1>6, <2>1, <2>2 DEF CoverInv
<1>9. CASE t # front
  <2>1. call' = NoCall /\ page'[front] = page[front]
    BY <1>1, <1>2, <1>3, <1>9
  <2>2. CallSound'
    BY <1>1, <1>7, <2>1 DEF CoverInv, CallSound, NoCall
  <2>3. Covered'
    BY <1>1, <1>5, <2>1, CoverFrame DEF CoverInv
  <2> QED  BY <1>5, <1>6, <2>2, <2>3 DEF CoverInv
<1> QED  BY <1>8, <1>9

(* A coalesced request is taken up.                                          *)
LEMMA Resubmits ==
    ASSUME Covered, NEW t \in Tabs, page \in [Tabs -> PageSet], front \in Tabs,
           page' = [page EXCEPT ![t] = Undirty(@)],
           call = NoCall, call' = Resubmission(t), front' = front,
           t # front \/ page[t].dirty = "none" => lost'[front] = lost[front],
           t # front \/ page[t].dirty = "none" => \A j \in Live : j.tab = front => j \in Live'
    PROVE  Covered'
<1>1. CASE t # front
  <2>1. page'[front] = page[front]
    BY <1>1
  <2> QED  BY <1>1, <2>1, CoverFrame, NoCallPaints
<1>2. CASE t = front /\ page[t].dirty # "none"
  <2>1. call' = Schedule(front', page[t].dirty)
    BY <1>2 DEF Resubmission
  <2> QED  BY <2>1, CallCovers
<1>3. CASE t = front /\ page[t].dirty = "none"
  <2>1. page'[front] = page[front]
    BY <1>3 DEF Undirty, PageSet
  <2> QED  BY <1>3, <2>1, CoverFrame, NoCallPaints
<1> QED  BY <1>1, <1>2, <1>3

LEMMA UndirtySound ==
    ASSUME NEW p \in PageSet, PageSound(p)
    PROVE  Advance(p, Undirty(p)) /\ PageSound(Undirty(p)) /\ Undirty(p).open = p.open
  BY DEF Undirty, Advance, PageSound, PageSet

LEMMA ResubmissionSound ==
    ASSUME NEW t, CallSound, window' = window, front' = front, page'[front].open = page[front].open,
           call' = NoCall \/ call' = Resubmission(t)
    PROVE  CallSound'
<1>1. call' = NoCall \/ (page[t].dirty # "none" /\ call' = Schedule(t, page[t].dirty))
  BY DEF Resubmission
<1>2. CASE call' = NoCall
  BY <1>2 DEF CallSound, NoCall
<1>3. CASE page[t].dirty # "none" /\ call' = Schedule(t, page[t].dirty)
  <2>1. call'.step = "enter" /\ call'.viewport # "none"
    BY <1>3 DEF Schedule, NoCall
  <2> QED  BY <2>1 DEF CallSound
<1> QED  BY <1>1, <1>2, <1>3

LEMMA SoundRecover ==
    ASSUME CoverInv, PageInv', \/ Recover \/ Sleep \/ UNCHANGED vars
                               \/ \E t \in Tabs : AskPool(t) \/ RecoverTab(t)
    PROVE  CoverInv'
<1>1. /\ UNCHANGED <<front, window, drained, lost, jobs, worker, cancelled, completed>>
  BY DEF Recover, Sleep, AskPool, RecoverTab, poolVars, vars, appVars
<1>2. Live' = Live /\ EndsSound' /\ (Rendering \cup Finished)' = Rendering \cup Finished
  BY <1>1, PoolIdle DEF CoverInv
<1>3. CASE Recover \/ Sleep \/ UNCHANGED vars \/ \E t \in Tabs : AskPool(t)
  <2>1. UNCHANGED <<page, call>>
    BY <1>3 DEF Recover, Sleep, AskPool, vars, appVars
  <2>2. PagesSound' /\ JobsSound' /\ CallSound'
    BY <1>1, <1>2, <2>1, SoundKept DEF CoverInv, CallSound
  <2>3. Covered'
    BY <1>1, <1>2, <2>1, CoverFrame DEF CoverInv
  <2> QED  BY <1>2, <2>2, <2>3 DEF CoverInv
<1>4. ASSUME NEW t \in Tabs, RecoverTab(t) PROVE CoverInv'
  <2>1. /\ page' = [page EXCEPT ![t] = Undirty(@)] /\ call' = Resubmission(t) /\ call = NoCall
    BY <1>4 DEF RecoverTab, Between
  <2>2. page[t] \in PageSet /\ PageSound(page[t]) /\ page \in [Tabs -> PageSet] /\ front \in Tabs
    BY UnderWay DEF CoverInv, PagesSound
  <2>3. page'[t] = Undirty(page[t]) /\ \A u \in Tabs : u # t => page'[u] = page[u]
    BY <2>1, <2>2
  <2>4. Advance(page[t], page'[t]) /\ PageSound(page'[t]) /\ page'[t].open = page[t].open
    BY <2>2, <2>3, UndirtySound
  <2>5. PagesSound' /\ JobsSound'
    BY <1>2, <2>3, <2>4, SoundKept DEF CoverInv
  <2>6. CallSound'
    <3>1. page'[front].open = page[front].open
      BY <2>2, <2>3, <2>4
    <3> QED  BY <1>1, <2>1, <3>1, ResubmissionSound DEF CoverInv
  <2>7. Covered'
    BY <1>1, <1>2, <2>1, <2>2, Resubmits DEF CoverInv
  <2> QED  BY <1>2, <2>5, <2>6, <2>7 DEF CoverInv
<1> QED  BY <1>3, <1>4

(* A scroll frame, or the retained scene of the frame on screen, is for the   *)
(* viewport on screen: what was settled stays so.                           *)
LEMMA RetainedCovers ==
    ASSUME CoverInv, PageInv', call.step # "none", CanRetain,
           page' = [page EXCEPT ![call.tab].requested = call.viewport],
           front' = front, lost' = lost, Live' = Live
    PROVE  Covered'
<1>1. /\ call.tab \in Tabs /\ front \in Tabs /\ page \in [Tabs -> PageSet] /\ page[front] \in PageSet
      /\ PageSound(page[front]) /\ call.viewport # "none"
  BY UnderWay DEF CoverInv, PagesSound, CallSound
<1>2. ~CallPaints
  BY DEF CallPaints
<1>3. CASE call.tab # front
  <2>1. page'[front] = page[front]
    BY <1>1, <1>3
  <2> QED  BY <1>2, <2>1, CoverFrame DEF CoverInv
<1>4. CASE call.tab = front
  <2>1. page'[front] = [page[front] EXCEPT !.requested = call.viewport]
    BY <1>1, <1>4
  <2>2. /\ page'[front].requested = call.viewport /\ page'[front].dirty = page[front].dirty
        /\ page'[front].shown = page[front].shown /\ page'[front].committed = page[front].committed
        /\ page'[front].sheets = page[front].sheets /\ page'[front].revision = page[front].revision
        /\ page'[front].serial = page[front].serial
    BY <1>1, <2>1 DEF PageSet
  <2>3. page[front].shown = call.viewport
    BY <1>4 DEF CanRetain, Called
  <2>4. page[front].requested # "zero"
    BY <1>1, <2>3 DEF PageSound
  <2>5. Settled(front) => Settled(front)'
    BY <2>2, <2>3, <2>4 DEF Settled, Shows
  <2>6. \A j : Paints(j) => Paints(j)'
    BY <2>2 DEF Paints
  <2> QED  BY <1>2, <2>2, <2>5, <2>6 DEF CoverInv, Covered
<1> QED  BY <1>3, <1>4

LEMMA RequestSound ==
    ASSUME CoverInv, PageInv', NEW t \in Tabs, NEW v \in Views, v # "zero",
           \/ page' = [page EXCEPT ![t].requested = v]
           \/ page' = [page EXCEPT ![t].requested = v, ![t].dirty = v],
           (Rendering \cup Finished)' = Rendering \cup Finished
    PROVE  PagesSound' /\ JobsSound' /\ \A u \in Tabs : page'[u].open = page[u].open
<1>1. page[t] \in PageSet /\ PageSound(page[t]) /\ page \in [Tabs -> PageSet]
  BY UnderWay DEF CoverInv, PagesSound
<1>2. /\ \/ page'[t] = [page[t] EXCEPT !.requested = v]
         \/ page'[t] = [page[t] EXCEPT !.requested = v, !.dirty = v]
      /\ \A u \in Tabs : u # t => page'[u] = page[u]
  BY <1>1
<1>3. Advance(page[t], page'[t]) /\ PageSound(page'[t]) /\ page'[t].open = page[t].open
  BY <1>1, <1>2 DEF Advance, PageSound, PageSet
<1> QED  BY <1>2, <1>3, SoundKept DEF CoverInv

LEMMA SoundComposite ==
    ASSUME CoverInv, PageInv', ScheduleComposite
    PROVE  CoverInv'
<1>1. /\ page' = [page EXCEPT ![call.tab].requested = call.viewport] /\ call' = NoCall
      /\ call.step = "enter" /\ call.viewport # "zero" /\ CanRetain
      /\ UNCHANGED <<front, window, drained, lost, jobs, worker, cancelled, completed>>
  BY DEF ScheduleComposite, CanComposite, poolVars
<1>2. call.tab \in Tabs /\ call.viewport \in Views /\ front \in Tabs
  BY <1>1, UnderWay DEF CoverInv, CallSet
<1>3. Live' = Live /\ EndsSound' /\ (Rendering \cup Finished)' = Rendering \cup Finished
  BY <1>1, PoolIdle DEF CoverInv
<1>4. PagesSound' /\ JobsSound' /\ \A u \in Tabs : page'[u].open = page[u].open
  BY <1>1, <1>2, <1>3, RequestSound
<1>5. CallSound'
  BY <1>1, <1>2, <1>4 DEF CoverInv, CallSound, NoCall
<1>6. Covered'
  BY <1>1, <1>3, RetainedCovers
<1> QED  BY <1>3, <1>4, <1>5, <1>6 DEF CoverInv

(* is_tab_busy: a busy tab is coalesced, the call goes on for another.        *)
LEMMA SoundChecks ==
    ASSUME CoverInv, PageInv', CheckQueue \/ CheckCompleted
    PROVE  CoverInv'
<1>1. /\ call.step \in {"enter", "idle"} /\ call.viewport # "zero"
      /\ UNCHANGED <<front, window, drained, lost, jobs, worker, cancelled, completed>>
  BY DEF CheckQueue, CheckCompleted, poolVars, CoverInv, CallSound
<1>2. /\ call.tab \in Tabs /\ call.viewport \in Views /\ front \in Tabs /\ call \in CallSet
      /\ call.viewport # "none" /\ page \in [Tabs -> PageSet]
  BY <1>1, UnderWay DEF CoverInv, CallSet, CallSound
<1>3. Live' = Live /\ EndsSound' /\ (Rendering \cup Finished)' = Rendering \cup Finished
  BY <1>1, PoolIdle DEF CoverInv
<1>4. \/ page' = Coalesce /\ call' = NoCall
      \/ /\ page' = [page EXCEPT ![call.tab].requested = call.viewport]
         /\ call' = [call EXCEPT !.step = "idle"]
      \/ page' = page /\ call' = [call EXCEPT !.step = "submit"]
  BY DEF CheckQueue, CheckCompleted
<1>5. PagesSound' /\ JobsSound' /\ \A u \in Tabs : page'[u].open = page[u].open
  <2>1. CASE page' = page
    BY <1>3, <2>1, SoundKept DEF CoverInv
  <2>2. CASE page' # page
    BY <1>1, <1>2, <1>3, <1>4, <2>2, RequestSound DEF Coalesce
  <2> QED  BY <2>1, <2>2
<1>6. CallSound'
  <2>1. call' = NoCall \/ call'.viewport = call.viewport
    BY <1>2, <1>4 DEF CallSet
  <2>2. NoCall.step = "none"
    BY DEF NoCall
  <2> QED  BY <1>1, <1>2, <1>5, <2>1, <2>2 DEF CoverInv, CallSound
<1>7. CASE page' = Coalesce /\ call' = NoCall
  <2>1. CASE call.tab = front
    <3>1. page'[front] = [page[front] EXCEPT !.requested = call.viewport, !.dirty = call.viewport]
      BY <1>2, <1>7, <2>1 DEF Coalesce
    <3>2. page[front] \in PageSet
      BY <1>2
    <3>3. page'[front].dirty = call.viewport
      BY <3>1, <3>2 DEF PageSet
    <3> QED  BY <1>1, <1>2, <1>3, <1>5, <1>6, <3>3 DEF CoverInv, Covered
  <2>2. CASE call.tab # front
    <3>1. page'[front] = page[front]
      BY <1>2, <1>7, <2>2 DEF Coalesce
    <3>2. Covered'
      BY <1>1, <1>3, <2>2, <3>1, CoverFrame DEF CoverInv, CallPaints
    <3> QED  BY <1>3, <1>5, <1>6, <3>2 DEF CoverInv
  <2> QED  BY <2>1, <2>2
<1>8. CASE /\ page' = [page EXCEPT ![call.tab].requested = call.viewport]
           /\ call' = [call EXCEPT !.step = "idle"]
  <2>1. CASE CanRetain
    <3>1. Covered'
      BY <1>1, <1>3, <1>8, <2>1, RetainedCovers
    <3> QED  BY <1>3, <1>5, <1>6, <3>1 DEF CoverInv
  <2>2. CASE call.tab # front
    <3>1. page'[front] = page[front]
      BY <1>2, <1>8, <2>2
    <3>2. Covered'
      BY <1>1, <1>3, <2>2, <3>1, CoverFrame DEF CoverInv, CallPaints
    <3> QED  BY <1>3, <1>5, <1>6, <3>2 DEF CoverInv
  <2>3. CASE ~CanRetain /\ call.tab = front
    <3>1. page'[front] = [page[front] EXCEPT !.requested = call.viewport] /\ page[front] \in PageSet
      BY <1>2, <1>8, <2>3
    <3>2. /\ page'[front].shown = page[front].shown /\ page'[front].sheets = page[front].sheets
          /\ page'[front].committed = page[front].committed
      BY <3>1 DEF PageSet
    <3>3. /\ call'.tab = call.tab /\ call'.viewport = call.viewport /\ call'.retained = call.retained
          /\ call'.step = "idle"
      BY <1>2, <1>8 DEF CallSet
    <3>4. ~CanRetain'
      BY <2>3, <3>2, <3>3 DEF CanRetain, Called
    <3>5. Covered'
      BY <1>1, <2>3, <3>3, <3>4 DEF Covered, CallPaints
    <3> QED  BY <1>3, <1>5, <1>6, <3>5 DEF CoverInv
  <2> QED  BY <2>1, <2>2, <2>3
<1>9. CASE page' = page /\ call' = [call EXCEPT !.step = "submit"]
  <2>1. /\ call'.tab = call.tab /\ call'.viewport = call.viewport /\ call'.retained = call.retained
        /\ call'.step = "submit"
    BY <1>2, <1>9 DEF CallSet
  <2>2. CanRetain' = CanRetain
    BY <1>9, <2>1 DEF CanRetain, Called
  <2>3. CASE ~CallPaints
    <3>1. Covered'
      BY <1>1, <1>3, <1>9, <2>3, CoverFrame DEF CoverInv
    <3> QED  BY <1>3, <1>5, <1>6, <3>1 DEF CoverInv
  <2>4. CASE CallPaints
    <3>1. Covered'
      BY <1>1, <2>1, <2>2, <2>4 DEF CallPaints, Covered
    <3> QED  BY <1>3, <1>5, <1>6, <3>1 DEF CoverInv
  <2> QED  BY <2>3, <2>4
<1> QED  BY <1>4, <1>7, <1>8, <1>9

LEMMA SoundNothing ==
    ASSUME CoverInv, PageInv', ScheduleNothing
    PROVE  CoverInv'
<1>1. /\ page' = [page EXCEPT ![call.tab].requested = "zero", ![call.tab].shown = "none",
                              ![call.tab].generation = @ + 1, ![call.tab].dirty = "none"]
      /\ CancelTab(call.tab) /\ call' = NoCall /\ call.step = "enter"
      /\ UNCHANGED <<front, window, drained, lost>>
  BY DEF ScheduleNothing
<1>2. /\ call.tab \in Tabs /\ front \in Tabs /\ page \in [Tabs -> PageSet]
      /\ page[call.tab] \in PageSet /\ PageSound(page[call.tab])
  BY <1>1, UnderWay DEF CoverInv, PagesSound
<1>3. /\ \A j \in Live : j.tab # call.tab => j \in Live'
      /\ EndsSound' /\ (Rendering \cup Finished)' \subseteq Rendering \cup Finished
  BY <1>1, <1>2, CancelLive DEF CoverInv
<1>4. /\ page'[call.tab] = [page[call.tab] EXCEPT !.requested = "zero", !.shown = "none",
                                                  !.generation = @ + 1, !.dirty = "none"]
      /\ \A u \in Tabs : u # call.tab => page'[u] = page[u]
  BY <1>1, <1>2
<1>5. PICK p \in PageSet : p = page[call.tab]
  BY <1>2
<1>6. /\ Advance(p, page'[call.tab]) /\ PageSound(page'[call.tab])
      /\ page'[call.tab].open = p.open /\ page'[call.tab].requested = "zero"
  BY <1>2, <1>4, <1>5 DEF Advance, PageSound, PageSet, CommitSet
<1>7. PagesSound' /\ JobsSound'
  BY <1>3, <1>4, <1>5, <1>6, SoundKept DEF CoverInv
<1>8. CallSound'
  <2>1. page'[front].open = page[front].open
    BY <1>2, <1>4, <1>5, <1>6
  <2> QED  BY <1>1, <2>1 DEF CoverInv, CallSound, NoCall
<1>9. Covered'
  <2>1. CASE call.tab = front
    BY <1>1, <1>6, <2>1 DEF Covered, Settled
  <2>2. CASE call.tab # front
    BY <1>1, <1>2, <1>3, <1>4, <2>2, CoverFrame DEF CoverInv, CallPaints
  <2> QED  BY <2>1, <2>2
<1> QED  BY <1>3, <1>7, <1>8, <1>9 DEF CoverInv

LEMMA SoundNavigate ==
    ASSUME CoverInv, PageInv', NEW t \in Tabs, Navigate(t)
    PROVE  CoverInv'
<1>1. PICK sheets \in {"none", "linked"} :
        page' = [page EXCEPT ![t] = [Fresh(page[t].serial + 1, page[t].revision + 1, sheets)
                                       EXCEPT !.generation = page[t].generation]]
  BY DEF Navigate
<1>2. /\ CancelTab(t) /\ call' = (IF t = front THEN Schedule(t, window) ELSE NoCall)
      /\ lost' = [lost EXCEPT ![t] = "no"] /\ page[t].open /\ call = NoCall
      /\ UNCHANGED <<front, window, drained>>
  BY DEF Navigate, Handler, Between
<1>3. /\ front \in Tabs /\ page \in [Tabs -> PageSet] /\ page[t] \in PageSet /\ PageSound(page[t])
  BY UnderWay DEF CoverInv, PagesSound
<1>4. /\ \A j \in Live : j.tab # t => j \in Live'
      /\ EndsSound' /\ (Rendering \cup Finished)' \subseteq Rendering \cup Finished
  BY <1>2, CancelLive DEF CoverInv
<1>5. \A u \in Tabs : u # t => page'[u] = page[u]
  BY <1>1, <1>3
<1>6. /\ page'[t].generation = page[t].generation /\ page'[t].serial = page[t].serial + 1
      /\ page'[t].committed = NoCommit /\ page'[t].open /\ page'[t].requested = "none"
      /\ page'[t].revision = page[t].revision + 1
  BY <1>1, <1>3 DEF Fresh
<1>7. page[t].generation \in Nat /\ page[t].serial \in Nat /\ page[t].revision \in Nat
  BY <1>3 DEF PageSet
<1>8. Advance(page[t], page'[t])
  BY <1>6, <1>7 DEF Advance
<1>9. PageSound(page'[t])
  BY <1>6, <1>7 DEF PageSound, NoCommit
<1>10. PagesSound' /\ JobsSound'
  BY <1>4, <1>5, <1>8, <1>9, SoundKept DEF CoverInv
<1>11. CASE t = front
  <2>1. Covered' /\ call'.viewport = window /\ call'.step = "enter"
    BY <1>2, <1>11, CallCovers
  <2>2. CallSound'
    BY <1>2, <1>6, <1>11, <2>1 DEF CoverInv, CallSound
  <2> QED  BY <1>4, <1>10, <2>1, <2>2 DEF CoverInv
<1>12. CASE t # front
  <2>1. page'[front] = page[front] /\ lost'[front] = lost[front] /\ call' = NoCall
    BY <1>2, <1>3, <1>5, <1>12
  <2>2. CallSound'
    BY <1>2, <2>1 DEF CoverInv, CallSound, NoCall
  <2>3. Covered'
    BY <1>2, <1>4, <1>12, <2>1, CoverFrame, NoCallPaints DEF CoverInv
  <2> QED  BY <1>4, <1>10, <2>2, <2>3 DEF CoverInv
<1> QED  BY <1>11, <1>12

LEMMA SoundClose ==
    ASSUME CoverInv, PageInv', NEW t \in Tabs, Close(t)
    PROVE  CoverInv'
<1>1. PICK next \in OpenTabs \ {t} : front' = next /\ call' = Schedule(next, window)
  BY DEF Close
<1>2. /\ CancelTab(t) /\ page' = [page EXCEPT ![t].open = FALSE] /\ next \in Tabs /\ page[next].open
      /\ UNCHANGED <<window, drained>>
  BY <1>1 DEF Close, OpenTabs
<1>3. /\ page \in [Tabs -> PageSet] /\ page[t] \in PageSet /\ PageSound(page[t])
  BY UnderWay DEF CoverInv, PagesSound
<1>4. EndsSound' /\ (Rendering \cup Finished)' \subseteq Rendering \cup Finished
  BY <1>2, CancelLive DEF CoverInv
<1>5. page'[t] = [page[t] EXCEPT !.open = FALSE] /\ \A u \in Tabs : u # t => page'[u] = page[u]
  BY <1>2, <1>3
<1>6. Advance(page[t], page'[t]) /\ PageSound(page'[t])
  BY <1>3, <1>5 DEF Advance, PageSound, PageSet
<1>7. PagesSound' /\ JobsSound'
  BY <1>4, <1>5, <1>6, SoundKept DEF CoverInv
<1>8. Covered' /\ call'.viewport = window /\ call'.step = "enter"
  BY <1>1, CallCovers
<1>9. CallSound'
  BY <1>1, <1>2, <1>5, <1>8 DEF CoverInv, CallSound
<1> QED  BY <1>4, <1>7, <1>8, <1>9 DEF CoverInv

LEMMA SoundPoll ==
    ASSUME CoverInv, PageInv', OnRenderReady \/ AboutToWait
    PROVE  CoverInv'
<1>1. /\ Poll /\ drained = {} /\ UNCHANGED <<page, front, window, call, lost>>
  BY DEF OnRenderReady, AboutToWait, Between
<1>2. Live' = Live /\ EndsSound' /\ (Rendering \cup Finished)' = Rendering \cup Finished
  BY <1>1, PollLive DEF CoverInv
<1>3. PagesSound' /\ JobsSound' /\ CallSound'
  BY <1>1, <1>2, SoundKept DEF CoverInv, CallSound
<1>4. Covered'
  BY <1>1, <1>2, CoverFrame DEF CoverInv
<1> QED  BY <1>2, <1>3, <1>4 DEF CoverInv

LEMMA SoundThread ==
    ASSUME CoverInv, PageInv', NEW w \in Workers, Thread(w)
    PROVE  CoverInv'
<1>1. /\ UNCHANGED <<page, front, window, call, drained>> /\ WorkerStep(w)
      /\ lost' = PushedOut(Jobs(completed) \ Jobs(completed'))
  BY DEF Thread
<1>2. /\ \A j \in Live : j \in Live' \/ j \in Jobs(completed) \ Jobs(completed')
      /\ EndsSound' /\ (Rendering \cup Finished)' \subseteq Rendering \cup Finished
  BY <1>1, ThreadLive DEF CoverInv
<1>3. PagesSound' /\ JobsSound' /\ CallSound'
  BY <1>1, <1>2, SoundKept DEF CoverInv, CallSound
<1>4. front \in Tabs
  BY UnderWay DEF CoverInv
<1>5. PICK out : out = Jobs(completed) \ Jobs(completed')
  OBVIOUS
<1>6. Covered'
  BY <1>1, <1>2, <1>4, <1>5, CoverPool DEF CoverInv
<1> QED  BY <1>2, <1>3, <1>6 DEF CoverInv

(* The new render paints the present state of its page, or what is on screen  *)
(* at another scroll offset.                                                *)
LEMMA SoundSubmit ==
    ASSUME CoverInv, PageInv', SubmitJob
    PROVE  CoverInv'
<1> DEFINE t == call.tab
<1> DEFINE out == Elements(jobs) \ Elements(jobs')
<1>1. /\ call.step = "submit" /\ Submit(Job) /\ page' = [page EXCEPT ![t].generation = @ + 1]
      /\ call' = NoCall /\ UNCHANGED <<front, window, drained>>
      /\ lost' = [PushedOut(out) EXCEPT ![t] = IF CanRetain THEN lost[t] ELSE "no"]
  BY DEF SubmitJob
<1> HIDE DEF out
<1>2. /\ t \in Tabs /\ front \in Tabs /\ page \in [Tabs -> PageSet] /\ page[t] \in PageSet
      /\ PageSound(page[t]) /\ call.viewport \in Views /\ call.viewport # "zero" /\ call.viewport # "none"
  BY <1>1, UnderWay DEF CoverInv, PagesSound, CallSet, CallSound
<1>3. PICK p \in PageSet : p = page[t] /\ PageSound(p)
  BY <1>2
<1>4. /\ p.generation \in Nat /\ p.revision \in Nat /\ p.committed.revision \in Nat
      /\ p.committed.generation \in Nat /\ p.serial \in Nat /\ p.sheets \in Sheets
  BY <1>3 DEF PageSet, CommitSet
<1>5. PICK job : job = Job
  OBVIOUS
<1>6. /\ job.tab = t /\ job.generation = p.generation + 1 /\ job.serial = p.serial
      /\ job.viewport = call.viewport
      /\ job.revision = IF CanRetain THEN p.committed.revision ELSE p.revision
      /\ job.applies = (~CanRetain /\ p.sheets = "batch")
      /\ job.plans = (~CanRetain /\ p.sheets \in {"linked", "batch", "applied"})
  BY <1>3, <1>5 DEF Job, Called
<1>7. job \in JobSet
  <2>1. p.scroll \in {0, 1} /\ p.generation + 1 \in Nat \ {0} /\ job.revision \in Nat
    BY <1>3, <1>4, <1>6 DEF PageSet
  <2>2. p.scroll = Called.scroll
    BY <1>3 DEF Called
  <2> QED  BY <1>2, <1>3, <1>4, <1>5, <1>6, <2>1, <2>2 DEF Job, JobSet, Called
<1>8. \A j \in Rendering \cup Finished : j.tab # t
  BY <1>1 DEF CoverInv, PageInv, CallClear
<1>9. Submit(job)
  BY <1>1, <1>5
<1>10. /\ \A j \in Live : j.tab # job.tab => j \in Live' \/ j \in out
       /\ job \in Live' /\ EndsSound'
       /\ (Rendering \cup Finished)' \subseteq Rendering \cup Finished \cup {job}
  BY <1>1, <1>6, <1>7, <1>8, <1>9, SubmitLive DEF CoverInv, out
<1>11. lost'[t] = (IF CanRetain THEN lost[t] ELSE "no") /\ (t # front => lost'[front] = PushedOut(out)[front])
  <2>1. DOMAIN PushedOut(out) = Tabs
    BY DEF PushedOut
  <2> QED  BY <1>1, <1>2, <2>1
<1>12. page'[t] = [p EXCEPT !.generation = @ + 1] /\ \A u \in Tabs : u # t => page'[u] = page[u]
  BY <1>1, <1>2, <1>3
<1> HIDE DEF t
<1>13. PICK q : q = page'[t]
  OBVIOUS
<1>14. /\ q.generation = p.generation + 1 /\ q.serial = p.serial /\ q.committed = p.committed
       /\ q.revision = p.revision /\ q.sheets = p.sheets /\ q.open = p.open
       /\ q.requested = p.requested /\ q.shown = p.shown /\ q.dirty = p.dirty
  BY <1>3, <1>12, <1>13 DEF PageSet
<1>15. PagesSound'
  <2>1. PageSound(q)
    BY <1>3, <1>4, <1>14 DEF PageSound
  <2> QED  BY <1>12, <1>13, <2>1 DEF CoverInv, PagesSound
<1>16. JobSound(job, q)
  <2>1. job.viewport # "zero" /\ job.serial <= q.serial /\ job.generation <= q.generation
    BY <1>2, <1>4, <1>6, <1>14
  <2>2. q.committed.revision <= job.revision /\ job.revision <= q.revision
    BY <1>3, <1>4, <1>6, <1>14 DEF PageSound
  <2>3. job.plans /\ ~job.applies => q.sheets \notin {"none", "batch"}
    BY <1>6, <1>14
  <2>4. job.applies => q.sheets \in {"batch", "applied"}
    BY <1>6, <1>14
  <2> QED  BY <2>1, <2>2, <2>3, <2>4 DEF JobSound
<1>17. JobsSound'
  <2> SUFFICES ASSUME NEW j \in (Rendering \cup Finished)' PROVE JobSound(j, page'[j.tab])
    BY DEF JobsSound
  <2>1. CASE j = job
    BY <1>6, <1>13, <1>16, <2>1
  <2>2. CASE j \in Rendering \cup Finished
    <3>1. j.tab # t /\ j.tab \in Tabs /\ JobSound(j, page[j.tab])
      BY <1>8, <2>2, UnderWay DEF CoverInv, JobsSound, JobSet
    <3> QED  BY <1>12, <3>1
  <2> QED  BY <1>10, <2>1, <2>2
<1>18. CallSound'
  <2>1. page'[front].open = page[front].open
    BY <1>2, <1>3, <1>12, <1>13, <1>14
  <2> QED  BY <1>1, <2>1 DEF CoverInv, CallSound, NoCall
<1>19. Covered'
  <2>1. CASE t # front
    <3>1. page'[front] = page[front] /\ lost'[front] = PushedOut(out)[front] /\ ~CallPaints
      BY <1>1, <1>2, <1>12, <1>11, <2>1 DEF CallPaints, t
    <3> QED  BY <1>1, <1>2, <1>6, <1>10, <2>1, <3>1, CoverPool DEF CoverInv
  <2>2. CASE t = front /\ ~CanRetain
    <3>1. job.generation > q.committed.generation
      BY <1>3, <1>4, <1>6, <1>14 DEF PageSound
    <3>2. Paints(job)'
      BY <1>1, <1>6, <1>13, <1>14, <2>2, <3>1 DEF Paints
    <3> QED  BY <1>10, <3>2 DEF Covered
  <2>3. CASE t = front /\ CanRetain
    <3>1. lost'[front] = lost[front] /\ ~CallPaints
      BY <1>1, <1>11, <2>3 DEF CallPaints
    <3>2. Settled(front) => Settled(front)'
      BY <1>1, <1>3, <1>13, <1>14, <2>3, <3>1 DEF Settled, Shows
    <3>3. \A j \in Live : ~Paints(j)
      BY <1>8, <2>3, UnderWay DEF CoverInv, Paints
    <3> QED  BY <1>1, <1>3, <1>13, <1>14, <2>3, <3>1, <3>2, <3>3 DEF CoverInv, Covered
  <2> QED  BY <2>1, <2>2, <2>3
<1> QED  BY <1>10, <1>15, <1>17, <1>18, <1>19 DEF CoverInv

(* What every commit takes for granted of its frame.                         *)
LEMMA CommitLive ==
    ASSUME CoverInv, NEW c \in drained, drained' = drained \ {c}, call = NoCall,
           UNCHANGED <<poolVars, front, window>>
    PROVE  /\ c.job.tab \in Tabs /\ c.job \in JobSet /\ JobSound(c.job, page[c.job.tab])
           /\ page[c.job.tab] \in PageSet /\ PageSound(page[c.job.tab])
           /\ \A j \in Rendering \cup Finished : j.tab = c.job.tab => j = c.job
           /\ \A j \in Live : j.tab = c.job.tab => j = c.job
           /\ \A j \in Live : j.tab # c.job.tab => j \in Live'
           /\ EndsSound' /\ (Rendering \cup Finished)' \subseteq Rendering \cup Finished
           /\ ~CallPaints
<1>1. c.job \in Finished
  BY DEF Finished, DrainedJobs
<1>2. /\ c.job \in JobSet /\ c.job.tab \in Tabs /\ page[c.job.tab] \in PageSet
      /\ Live \subseteq Rendering \cup Finished
  BY <1>1, UnderWay DEF CoverInv, JobSet
<1>3. \A j \in Rendering \cup Finished : j.tab = c.job.tab => j = c.job
  BY <1>1 DEF CoverInv, PageInv, OneWay
<1>4. JobSound(c.job, page[c.job.tab]) /\ PageSound(page[c.job.tab])
  BY <1>1, <1>2 DEF CoverInv, JobsSound, PagesSound
<1>5. UNCHANGED <<jobs, worker, cancelled, completed>>
  BY DEF poolVars
<1>6. /\ Rendering' = Rendering /\ Unpublished' = Unpublished
      /\ Finished' \subseteq Finished /\ \A j \in Finished : j # c.job => j \in Finished'
  BY <1>5 DEF Rendering, HeldJobs, Marked, Unpublished, Finished, Jobs, DrainedJobs
<1>7. EndsSound'
  BY <1>5 DEF CoverInv, EndsSound, EndSound
<1>8. \A j \in Live : j.tab # c.job.tab => j \in Live'
  BY <1>5, <1>6 DEF Live
<1> QED  BY <1>2, <1>3, <1>4, <1>6, <1>7, <1>8, NoCallPaints

LEMMA SoundDiscarded ==
    ASSUME CoverInv, PageInv', DOMAIN lost = Tabs, NEW c \in drained, drained' = drained \ {c},
           call = NoCall, UNCHANGED <<poolVars, front, window>>, CommitDiscarded(c)
    PROVE  CoverInv'
<1> DEFINE t == c.job.tab
<1>1. /\ t \in Tabs /\ page[t] \in PageSet /\ PageSound(page[t])
      /\ \A j \in Live : j.tab = t => j = c.job
      /\ \A j \in Live : j.tab # t => j \in Live'
      /\ EndsSound' /\ (Rendering \cup Finished)' \subseteq Rendering \cup Finished /\ ~CallPaints
  BY CommitLive
<1>2. /\ page' = [page EXCEPT ![t] = Undirty(@)] /\ call' = Resubmission(t)
      /\ lost' = IF page[t].dirty = "none" THEN [lost EXCEPT ![t] = Reason(c)] ELSE lost
  BY DEF CommitDiscarded
<1>3. page \in [Tabs -> PageSet] /\ front \in Tabs
  BY UnderWay DEF CoverInv
<1> HIDE DEF t
<1>4. page'[t] = Undirty(page[t]) /\ \A u \in Tabs : u # t => page'[u] = page[u]
  BY <1>1, <1>2, <1>3
<1>5. Advance(page[t], page'[t]) /\ PageSound(page'[t]) /\ page'[t].open = page[t].open
  BY <1>1, <1>4, UndirtySound
<1>6. PagesSound' /\ JobsSound'
  BY <1>1, <1>4, <1>5, SoundKept DEF CoverInv
<1>7. CallSound'
  <2>1. page'[front].open = page[front].open
    BY <1>3, <1>4, <1>5
  <2> QED  BY <1>2, <2>1, ResubmissionSound DEF CoverInv
<1>8. CASE t # front
  <2>1. lost'[front] = lost[front] /\ \A j \in Live : j.tab = front => j \in Live'
    BY <1>1, <1>2, <1>3, <1>8
  <2>2. Covered'
    BY <1>1, <1>2, <1>3, <1>8, <2>1, Resubmits DEF CoverInv
  <2> QED  BY <1>1, <1>6, <1>7, <2>2 DEF CoverInv
<1>9. CASE t = front /\ page[t].dirty # "none"
  <2>1. Covered'
    BY <1>1, <1>2, <1>3, <1>9, Resubmits DEF CoverInv
  <2> QED  BY <1>1, <1>6, <1>7, <2>1 DEF CoverInv
<1>10. CASE t = front /\ page[t].dirty = "none"
  <2>1. lost'[front] = Reason(c)
    BY <1>1, <1>2, <1>10
  <2>2. CASE Reason(c) # "no"
    <3>1. Covered'
      BY <2>1, <2>2 DEF Covered, Settled
    <3> QED  BY <1>1, <1>6, <1>7, <3>1 DEF CoverInv
  <2>3. CASE Reason(c) = "no"
    <3>1. ~Current(c.job, page[t]) /\ Reason(c) = lost[t]
      BY <2>3 DEF Reason, t
    <3>2. ~Paints(c.job)
      BY <1>10, <3>1 DEF Paints, Current
    <3>3. page'[front] = page[front]
      BY <1>1, <1>4, <1>10 DEF Undirty, PageSet
    <3>4. Settled(front) => Settled(front)'
      BY <1>10, <2>1, <3>1, <3>3 DEF Settled, Shows
    <3>5. \A j \in Live : ~Paints(j)
      BY <1>1, <1>10, <3>2 DEF Paints
    <3>6. Covered'
      BY <1>1, <1>10, <3>3, <3>4, <3>5 DEF CoverInv, Covered
    <3> QED  BY <1>1, <1>6, <1>7, <3>6 DEF CoverInv
  <2> QED  BY <2>2, <2>3
<1> QED  BY <1>8, <1>9, <1>10

LEMMA SoundDeferred ==
    ASSUME CoverInv, PageInv', NEW c \in drained, drained' = drained \ {c},
           call = NoCall, UNCHANGED <<poolVars, front, window>>, CommitDeferred(c)
    PROVE  CoverInv'
<1> DEFINE t == c.job.tab
<1>1. /\ t \in Tabs /\ page[t] \in PageSet /\ PageSound(page[t]) /\ JobSound(c.job, page[t])
      /\ \A j \in Live : j.tab = t => j = c.job
      /\ \A j \in Live : j.tab # t => j \in Live'
      /\ EndsSound' /\ (Rendering \cup Finished)' \subseteq Rendering \cup Finished /\ ~CallPaints
  BY CommitLive
<1>2. /\ page' = [page EXCEPT ![t].sheets = IF @ = "linked" THEN "fetching" ELSE @]
      /\ call' = call /\ lost' = lost
      /\ c.job.serial = page[t].serial /\ page[t].sheets # "applied" /\ ~c.job.applies /\ c.job.plans
  BY DEF CommitDeferred, Accepted, Current, Unstyled
<1>3. page \in [Tabs -> PageSet] /\ front \in Tabs
  BY UnderWay DEF CoverInv
<1> HIDE DEF t
<1>4. /\ page'[t] = [page[t] EXCEPT !.sheets = IF @ = "linked" THEN "fetching" ELSE @]
      /\ \A u \in Tabs : u # t => page'[u] = page[u]
  BY <1>1, <1>2, <1>3
<1>5. /\ page'[t].sheets = IF page[t].sheets = "linked" THEN "fetching" ELSE page[t].sheets
      /\ page'[t].open = page[t].open /\ page'[t].generation = page[t].generation
      /\ page'[t].serial = page[t].serial /\ page'[t].committed = page[t].committed
      /\ page'[t].revision = page[t].revision /\ page'[t].requested = page[t].requested
      /\ page'[t].shown = page[t].shown /\ page'[t].dirty = page[t].dirty
  BY <1>1, <1>4 DEF PageSet
<1>6. Advance(page[t], page'[t]) /\ PageSound(page'[t])
  <2>1. page[t].generation \in Nat /\ page[t].revision \in Nat
    BY <1>1 DEF PageSet
  <2>2. Advance(page[t], page'[t])
    BY <1>5, <2>1 DEF Advance
  <2> QED  BY <1>1, <1>5, <2>2 DEF PageSound
<1>7. PagesSound' /\ JobsSound'
  BY <1>1, <1>4, <1>6, SoundKept DEF CoverInv
<1>8. CallSound'
  <2>1. page'[front].open = page[front].open
    BY <1>3, <1>4, <1>5
  <2> QED  BY <1>2, <2>1 DEF CoverInv, CallSound
<1>9. CASE t # front
  <2>1. Covered'
    BY <1>1, <1>2, <1>3, <1>4, <1>9, CoverFrame DEF CoverInv
  <2> QED  BY <1>1, <1>7, <1>8, <2>1 DEF CoverInv
<1>10. CASE t = front /\ page[t].sheets \in {"linked", "fetching"}
  <2>1. page'[front].sheets = "fetching"
    BY <1>5, <1>10
  <2> QED  BY <1>1, <1>2, <1>7, <1>8, <2>1 DEF CoverInv, Covered
<1>11. CASE t = front /\ page[t].sheets \notin {"linked", "fetching"}
  <2>1. page[t].sheets = "batch" /\ c.job.revision < page[t].revision
    <3>1. page[t].sheets \in Sheets
      BY <1>1 DEF PageSet
    <3> QED  BY <1>1, <1>2, <1>11, <3>1 DEF JobSound, Sheets
  <2>2. c.job.revision \in Nat /\ page[t].revision \in Nat
    BY <1>1, CommitLive DEF PageSet, JobSet
  <2>3. \A j \in Live : ~Paints(j)
    BY <1>1, <1>11, <2>1, <2>2 DEF Paints
  <2>4. Settled(front) => Settled(front)'
    BY <1>2, <1>5, <1>11 DEF Settled, Shows
  <2>5. Covered'
    BY <1>1, <1>2, <1>5, <1>11, <2>1, <2>3, <2>4 DEF CoverInv, Covered
  <2> QED  BY <1>1, <1>7, <1>8, <2>5 DEF CoverInv
<1> QED  BY <1>9, <1>10, <1>11

LEMMA SoundInstalled ==
    ASSUME CoverInv, PageInv', NEW c \in drained, drained' = drained \ {c},
           call = NoCall, UNCHANGED <<poolVars, front, window>>, CommitInstalled(c)
    PROVE  CoverInv'
<1> DEFINE t == c.job.tab
           job == c.job
           commit == [generation |-> job.generation, serial |-> job.serial,
                      revision |-> job.revision, styled |-> job.styled]
<1>1. /\ t \in Tabs /\ page[t] \in PageSet /\ PageSound(page[t]) /\ JobSound(job, page[t])
      /\ job \in JobSet
      /\ \A j \in Rendering \cup Finished : j.tab = t => j = job
      /\ \A j \in Live : j.tab = t => j = job
      /\ \A j \in Live : j.tab # t => j \in Live'
      /\ EndsSound' /\ (Rendering \cup Finished)' \subseteq Rendering \cup Finished /\ ~CallPaints
  BY CommitLive
<1>2. /\ page' = [page EXCEPT ![t] = Installed(job, @)] /\ call' = Resubmission(t) /\ lost' = lost
      /\ job.serial = page[t].serial /\ job.viewport = page[t].requested
  BY DEF CommitInstalled, Accepted, Current, Asked
<1>3. page \in [Tabs -> PageSet] /\ front \in Tabs
  BY UnderWay DEF CoverInv
<1>4. PICK p \in PageSet : p = page[t]
  BY <1>1
<1>5. PICK q : q = page'[t]
  OBVIOUS
<1>6. /\ q = Installed(job, p)
      /\ \A u \in Tabs : u # t => page'[u] = page[u]
  BY <1>1, <1>2, <1>3, <1>4, <1>5
<1>7. /\ q.committed = commit /\ q.shown = job.viewport /\ q.dirty = "none"
      /\ q.sheets = (IF job.applies THEN "applied" ELSE p.sheets)
      /\ q.open = p.open /\ q.generation = p.generation /\ q.serial = p.serial
      /\ q.revision = p.revision /\ q.requested = p.requested
  <2> HIDE DEF commit
  <2> QED  BY <1>4, <1>6 DEF Installed, Undirty, PageSet, commit
<1>8. /\ q.committed.generation = job.generation /\ q.committed.revision = job.revision
      /\ q.committed.serial = job.serial
  BY <1>7
<1> HIDE DEF t, job, commit
<1>9. /\ job.viewport # "zero" /\ job.generation <= p.generation /\ job.serial <= p.serial
      /\ p.committed.revision <= job.revision /\ job.revision <= p.revision
      /\ job.plans /\ ~job.applies => /\ p.sheets # "none"
                                      /\ p.sheets = "batch" => job.revision < p.revision
      /\ job.applies => p.sheets \in {"batch", "applied"}
  BY <1>1, <1>2, <1>4 DEF JobSound
<1>10. /\ p.committed.revision \in Nat /\ p.revision \in Nat /\ job.revision \in Nat
       /\ p.generation \in Nat /\ job.generation \in Nat
  BY <1>1, <1>4 DEF PageSet, CommitSet, JobSet
<1>11. PageSound(q)
  BY <1>2, <1>4, <1>7, <1>8, <1>9 DEF PageSound
<1>12. PagesSound'
  BY <1>5, <1>6, <1>11 DEF CoverInv, PagesSound
<1>13. JobSound(job, q)
  BY <1>7, <1>8, <1>9, <1>10 DEF JobSound
<1>14. JobsSound'
  <2> SUFFICES ASSUME NEW j \in Rendering \cup Finished PROVE JobSound(j, page'[j.tab])
    BY <1>1 DEF JobsSound
  <2>1. CASE j.tab = t
    BY <1>1, <1>5, <1>13, <2>1
  <2>2. CASE j.tab # t
    <3>1. j.tab \in Tabs /\ JobSound(j, page[j.tab])
      BY UnderWay DEF CoverInv, JobsSound, JobSet
    <3> QED  BY <1>6, <2>2, <3>1
  <2> QED  BY <2>1, <2>2
<1>15. CallSound'
  <2>1. page'[front].open = page[front].open
    BY <1>3, <1>4, <1>5, <1>6, <1>7
  <2> QED  BY <1>2, <2>1, ResubmissionSound DEF CoverInv
<1>16. Covered'
  <2>1. CASE t # front
    <3>1. page'[front] = page[front] /\ lost'[front] = lost[front]
      BY <1>2, <1>3, <1>6, <2>1
    <3> QED  BY <1>1, <2>1, <3>1, CoverFrame DEF CoverInv
  <2>2. CASE t = front /\ page[t].dirty # "none"
    <3>1. call' = Schedule(front', page[t].dirty)
      BY <1>2, <2>2 DEF Resubmission
    <3> QED  BY <3>1, CallCovers
  <2>3. CASE t = front /\ page[t].dirty = "none"
    <3>1. q.shown = q.requested
      BY <1>2, <1>4, <1>7
    <3>2. Settled(front) => Settled(front)'
      <4>1. p.requested # "zero"
        BY <1>2, <1>4, <1>9
      <4>2. ASSUME p.committed.revision = p.revision PROVE q.committed.revision = q.revision
        BY <1>7, <1>8, <1>9, <1>10, <4>2
      <4> QED  BY <1>2, <1>4, <1>5, <2>3, <3>1, <4>1, <4>2 DEF Settled, Shows
    <3>3. (\E j \in Live : Paints(j)) => Settled(front)'
      <4>1. Paints(job) => job.revision = p.revision
        BY <1>4, <2>3 DEF Paints
      <4>2. job.revision = p.revision => Settled(front)'
        BY <1>2, <1>5, <1>7, <1>8, <2>3, <3>1 DEF Settled, Shows
      <4>3. \A j : Paints(j) => j.tab = t
        BY <2>3 DEF Paints
      <4> QED  BY <1>1, <4>1, <4>2, <4>3
    <3>4. p.sheets = "fetching" => q.sheets = "fetching"
      BY <1>7, <1>9
    <3> QED  BY <1>1, <1>2, <1>4, <1>5, <2>3, <3>2, <3>3, <3>4 DEF CoverInv, Covered
  <2> QED  BY <2>1, <2>2, <2>3
<1> QED  BY <1>1, <1>12, <1>14, <1>15, <1>16 DEF CoverInv

LEMMA SoundCommit ==
    ASSUME CoverInv, PageInv', DOMAIN lost = Tabs, Commit
    PROVE  CoverInv'
<1>1. PICK c \in drained : /\ drained' = drained \ {c}
                           /\ \/ CommitClosed(c) \/ CommitDiscarded(c)
                              \/ CommitDeferred(c) \/ CommitInstalled(c)
  BY DEF Commit
<1>2. call = NoCall /\ UNCHANGED <<poolVars, front, window>>
  BY DEF Commit
<1>3. CASE CommitClosed(c)
  <2>1. ~page[c.job.tab].open /\ UNCHANGED <<page, call, lost>>
    BY <1>3 DEF CommitClosed
  <2>2. /\ \A j \in Live : j.tab # c.job.tab => j \in Live'
        /\ EndsSound' /\ (Rendering \cup Finished)' \subseteq Rendering \cup Finished /\ ~CallPaints
    BY <1>1, <1>2, CommitLive
  <2>3. c.job.tab # front
    BY <2>1 DEF CoverInv, CallSound
  <2>4. PagesSound' /\ JobsSound'
    BY <2>1, <2>2, SoundKept DEF CoverInv
  <2>5. CallSound'
    BY <1>2, <2>1 DEF CoverInv, CallSound
  <2>6. Covered'
    BY <1>2, <2>1, <2>2, <2>3, CoverFrame DEF CoverInv
  <2> QED  BY <2>2, <2>4, <2>5, <2>6 DEF CoverInv
<1> QED  BY <1>1, <1>2, <1>3, SoundDiscarded, SoundDeferred, SoundInstalled

------------------------------------------------------------------------------
(* The theorem.                                                              *)

LEMMA LostKept ==
    ASSUME DOMAIN lost = Tabs, [PageNext]_vars
    PROVE  DOMAIN lost' = Tabs
<1>1. CASE User
  BY <1>1 DEF User, Mutate, Scroll, Resize, Navigate, Activate, Close
<1>2. CASE App /\ ~SubmitJob
  BY <1>2 DEF App, ScheduleNothing, ScheduleComposite, CheckQueue, CheckCompleted,
              OnRenderReady, Commit, CommitClosed, CommitDiscarded, CommitDeferred, CommitInstalled,
              AboutToWait, Recover, AskPool, RecoverTab, Sleep
<1>3. CASE Pool \/ SubmitJob
  BY <1>3 DEF Pool, Thread, SubmitJob, PushedOut
<1>4. CASE (\E t \in Tabs : SheetsArrive(t)) \/ UNCHANGED vars
  BY <1>4 DEF SheetsArrive, vars, appVars
<1> QED  BY <1>1, <1>2, <1>3, <1>4 DEF PageNext

LEMMA CoverInit == PageInit => CoverInv /\ DOMAIN lost = Tabs
<1> SUFFICES ASSUME PageInit PROVE CoverInv /\ DOMAIN lost = Tabs
  OBVIOUS
<1>1. PageInv
  BY PageInitInv
<1>2. /\ front \in Tabs /\ page = [t \in Tabs |-> Fresh(1, 1, "none")]
      /\ call = Schedule(front, window) /\ window # "none" /\ DOMAIN lost = Tabs
      /\ jobs = <<>> /\ completed = <<>> /\ drained = {}
      /\ \A w \in Workers : worker[w].pc = "awake"
  BY WindowAssumption DEF PageInit, PoolInit, Resting
<1>3. /\ Fresh(1, 1, "none").open /\ Fresh(1, 1, "none").requested = "none"
      /\ PageSound(Fresh(1, 1, "none"))
  BY DEF Fresh, PageSound, NoCommit
<1>4. PagesSound /\ page[front].open
  BY <1>2, <1>3 DEF PagesSound
<1>5. call.step = "enter" /\ call.tab = front /\ ~call.retained /\ call.viewport = window
  BY <1>2 DEF Schedule, NoCall
<1>6. CallSound /\ Covered
  BY <1>2, <1>4, <1>5 DEF CallSound, Covered, CallPaints, CanRetain
<1>7. Elements(jobs) = {} /\ Elements(completed) = {} /\ Distinct(completed)
  BY <1>2 DEF Elements, Distinct
<1>8. JobsSound /\ EndsSound
  BY <1>2, <1>7 DEF JobsSound, EndsSound, EndSound, Rendering, HeldJobs, Marked, Finished, Jobs, DrainedJobs
<1> QED  BY <1>1, <1>2, <1>4, <1>6, <1>8 DEF CoverInv

LEMMA CoverStep ==
    ASSUME CoverInv, DOMAIN lost = Tabs, [PageNext]_vars
    PROVE  CoverInv'
<1>1. PageInv'
  BY PageStep DEF CoverInv
<1>2. CASE User
  BY <1>1, <1>2, SoundMutate, SoundScroll, SoundResize, SoundNavigate, SoundActivate, SoundClose DEF User
<1>3. CASE App
  BY <1>1, <1>3, SoundNothing, SoundComposite, SoundChecks, SoundSubmit, SoundPoll, SoundCommit,
     SoundRecover DEF App
<1>4. CASE Pool
  BY <1>1, <1>4, SoundThread DEF Pool
<1>5. CASE (\E t \in Tabs : SheetsArrive(t)) \/ UNCHANGED vars
  BY <1>1, <1>5, SoundSheets, SoundRecover
<1> QED  BY <1>2, <1>3, <1>4, <1>5 DEF PageNext

(* When the loop sleeps and nothing is under way, the tab in front shows its  *)
(* last state, or its last render failed, was thrown away at the commit, or   *)
(* was pushed out of a full queue of the pool with nothing coalesced behind   *)
(* it: whatever the number of tabs and the capacity of the pool, no           *)
(* interleaving of schedule_page_render, commit_render and the render threads *)
(* loses a repaint in any other way.                                        *)
THEOREM RepaintsAreRemembered == PageSpec => []NothingForgotten
<1>2. ASSUME CoverInv, Quiet PROVE Settled(front)
  <2>1. /\ call = NoCall /\ drained = {} /\ ~PendingWork /\ \A t \in Tabs : RendersOf(t) = {}
    BY <1>2 DEF Quiet, Between
  <2>2. /\ page[front].open /\ front \in Tabs /\ Live \subseteq Rendering \cup Finished
        /\ Rendering \cup Finished \subseteq JobSet
    BY <1>2, UnderWay DEF CoverInv, CallSound
  <2>3. page[front].dirty = "none" /\ page[front].sheets # "fetching"
    BY <2>1, <2>2 DEF PendingWork, OpenTabs
  <2>4. ASSUME NEW j \in Live PROVE FALSE
    <3>1. j \in Rendering \cup Finished /\ j.tab \in Tabs
      BY <2>2, <2>4 DEF JobSet
    <3>2. Superseded(j.tab) = {i \in Rendering : i.tab = j.tab}
      BY <1>2, <3>1, RenderJobs, PoolJobs DEF CoverInv, PageInv, Rendering
    <3>3. RendersOf(j.tab) = {i \in Rendering \cup Finished : i.tab = j.tab}
      BY <3>2 DEF RendersOf, Finished, DrainedJobs
    <3> QED  BY <2>1, <3>1, <3>3
  <2> QED  BY <1>2, <2>1, <2>3, <2>4, NoCallPaints DEF CoverInv, Covered
<1>3. CoverInv => NothingForgotten
  BY <1>2 DEF NothingForgotten
<1>4. (CoverInv /\ DOMAIN lost = Tabs) /\ [PageNext]_vars => (CoverInv /\ DOMAIN lost = Tabs)'
  BY CoverStep, LostKept
<1> QED  BY <1>3, <1>4, CoverInit, PTL DEF PageSpec
==============================================================================
