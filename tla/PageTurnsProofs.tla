--------------------------- MODULE PageTurnsProofs ---------------------------
(***************************************************************************)
(* The timer table of the runtime and the queues of the event loop agree,   *)
(* and timers and microtasks run in order, for a page of any size.          *)
(***************************************************************************)
EXTENDS PageTurns, DataLemmas

------------------------------------------------------------------------------
(* The inductive invariant.  The microtasks and the timers do not depend on  *)
(* each other, and each half is inductive by itself.                         *)

ScriptTypes == {"task", "timer", "microtask", "slot", "fetch", "reaction",
                "import", "drained"}
ScriptSet == [type : ScriptTypes \cup {"nobody"}, id : Nat]
TaskSet == [payload : ScriptSet, deadline : Nat]
RequestSet == [type : {"schedule", "cancel"}, id : Nat]
Counters == {"idle", "turn", "run", "flush", "checkpoint", "slots", "endTurn",
             "drain", "settle"}

\* Microtasks wait in the order of their numbers, first those of the loop.
ByAge == {p \in Nat \X Nat : p[1] < p[2]}
MicroInv ==
    /\ microtasks \in Seq(Nat) /\ pending \in Seq(Nat) /\ born \in Nat
    /\ Len(microtasks) <= MaxPendingMicrotasks
    /\ InOrder(ByAge, microtasks \o pending)
    /\ \A m \in Elements(microtasks) \cup Elements(pending) : m <= born

\* Scripts and requests are what they are.
StateOk ==
    /\ ready \in Seq(TaskSet) /\ timers \in Seq(TaskSet)
    /\ requests \in Seq(RequestSet)
    /\ now \in Nat /\ wall \in Nat /\ now <= wall
    /\ pc \in Counters /\ current \in ScriptSet
    /\ Running => current.type # "nobody"
    /\ bytes \in Nat /\ fed \in Nat /\ created \in Nat /\ created <= MaxTimers
    /\ table \subseteq 1..created /\ lost \subseteq 1..created

\* Everything queued names a timer that has been set.
IsTimer(t) == t.payload.type = "timer"
NamesOk ==
    /\ \A r \in Elements(requests) : r.id \in 1..created
    /\ \A t \in Elements(timers) : IsTimer(t)
    /\ \A t \in Elements(timers) \cup Elements(ready) :
          IsTimer(t) => t.payload.id \in 1..created
    /\ current.type = "timer" => current.id \in 1..created

\* Timers wait in the order of their deadlines, first those that were due.
ByDeadline == {p \in TaskSet \X TaskSet :
                 IsTimer(p[1]) /\ IsTimer(p[2]) => p[1].deadline <= p[2].deadline}
DeadlinesOk ==
    /\ InOrder(ByDeadline, ready \o timers)
    /\ \A t \in Elements(ready) : t.deadline <= now

LengthsOk ==
    /\ Len(ready) + Len(timers) <= MaxPendingTasks
    /\ Len(timers) <= MaxPendingTimers
    /\ bytes = TasksIn(ready) /\ bytes <= MaxSourceBytes

\* A timer that may still fire is in one place, once; while it runs it stays in
\* the table only if it repeats.
Places(id) == Asked(id) + CountIn(id, timers) + CountIn(id, ready) + Fires(id)
PlacesOk == \A id \in table : Places(id) = IF id \in lost THEN 0 ELSE 1
RepeatsOk == Running /\ current.type = "timer" /\ current.id \in table
             => current.id \in Intervals

\* A cleared timer's Cancel comes after its request, and waits for no live timer.
Cancel(id) == [type |-> "cancel", id |-> id]
CancelsOk ==
    /\ \A r \in Elements(requests) : r.type = "cancel" => r.id \notin table
    /\ \A i \in DOMAIN requests : requests[i].type = "schedule" =>
          \/ requests[i].id \in table
          \/ \E j \in DOMAIN requests : j > i /\ requests[j] = Cancel(requests[i].id)
    /\ \A t \in Elements(timers) : \/ t.payload.id \in table
                                   \/ Cancel(t.payload.id) \in Elements(requests)
                                   \/ t.payload.id \in stranded

TimersInv == /\ StateOk /\ NamesOk /\ DeadlinesOk /\ LengthsOk
             /\ PlacesOk /\ RepeatsOk /\ CancelsOk

TurnsInv == MicroInv /\ TimersInv

------------------------------------------------------------------------------
(* Microtasks.                                                               *)

(* As many of the given microtasks as there is room for join the others.     *)
LEMMA JoinedIs ==
    ASSUME NEW more \in Seq(Nat), microtasks \in Seq(Nat),
           Len(microtasks) <= MaxPendingMicrotasks,
           InOrder(ByAge, microtasks \o more)
    PROVE  /\ Joined(more) \in Seq(Nat)
           /\ Len(Joined(more)) <= MaxPendingMicrotasks
           /\ InOrder(ByAge, Joined(more))
           /\ Elements(Joined(more)) \subseteq Elements(microtasks) \cup Elements(more)
<1>1. PICK room : room = MaxPendingMicrotasks - Len(microtasks)
  OBVIOUS
<1>2. room \in Nat /\ Len(more) \in Nat /\ Len(microtasks) \in Nat
  BY <1>1, LimitsAssumption, LenProperties
<1>3. PICK n : n = IF Len(more) <= room THEN Len(more) ELSE room
  OBVIOUS
<1>4. n \in 0..Len(more) /\ n <= room
  BY <1>2, <1>3
<1>5. PICK front : front = FirstOf(more, n)
  OBVIOUS
<1>6. Joined(more) = microtasks \o front
  BY <1>1, <1>3, <1>5 DEF Joined
<1>7. /\ front \in Seq(Nat) /\ Len(front) = n
      /\ Elements(front) \subseteq Elements(more)
      /\ InOrder(ByAge, more) => InOrder(ByAge, front)
  BY <1>4, <1>5, CutCount
<1>8. /\ InOrder(ByAge, microtasks) /\ InOrder(ByAge, more)
      /\ \A x \in Elements(microtasks), y \in Elements(more) : <<x, y>> \in ByAge
  BY ConcatCounts
<1>9. InOrder(ByAge, microtasks \o front)
  BY <1>7, <1>8, ConcatCounts
<1>10. /\ microtasks \o front \in Seq(Nat)
       /\ Len(microtasks \o front) = Len(microtasks) + Len(front)
       /\ Elements(microtasks \o front) = Elements(microtasks) \cup Elements(front)
  BY <1>7, ConcatCounts
<1>11. Len(microtasks) + Len(front) <= MaxPendingMicrotasks
  BY <1>1, <1>2, <1>4, <1>7, LimitsAssumption
<1>12. Elements(microtasks) \cup Elements(front) \subseteq Elements(microtasks) \cup Elements(more)
  BY <1>7
<1>13. PICK all : all = microtasks \o front
  OBVIOUS
<1>14. /\ all \in Seq(Nat) /\ Len(all) <= MaxPendingMicrotasks /\ InOrder(ByAge, all)
       /\ Elements(all) \subseteq Elements(microtasks) \cup Elements(more)
  BY <1>9, <1>10, <1>11, <1>12, <1>13
<1> QED  BY <1>6, <1>13, <1>14

(* The invariant follows from that of the queues put together.               *)
LEMMA AgesJoined ==
    ASSUME NEW a \in Seq(Nat), NEW b \in Seq(Nat), NEW n \in Nat,
           InOrder(ByAge, a \o b),
           \A m \in Elements(a) \cup Elements(b) : m <= n
    PROVE  InOrder(ByAge, a \o Append(b, n + 1))
<1>1. n + 1 \in Nat
  OBVIOUS
<1>2. /\ InOrder(ByAge, a) /\ InOrder(ByAge, b)
      /\ \A x \in Elements(a), y \in Elements(b) : <<x, y>> \in ByAge
  BY ConcatCounts
<1>3. \A x \in Elements(a) \cup Elements(b) : x \in Nat /\ <<x, n + 1>> \in ByAge
  <2>1. Elements(a) \subseteq Nat /\ Elements(b) \subseteq Nat
    BY ElementsIn
  <2> QED  BY <2>1 DEF ByAge
<1>4. PICK c : c = Append(b, n + 1)
  OBVIOUS
<1>5. c \in Seq(Nat) /\ Elements(c) = Elements(b) \cup {n + 1}
  BY <1>1, <1>4, PushProperties
<1>6. InOrder(ByAge, c)
  BY <1>1, <1>2, <1>3, <1>4, PushCount
<1>7. \A x \in Elements(a), y \in Elements(c) : <<x, y>> \in ByAge
  BY <1>2, <1>3, <1>5
<1>8. InOrder(ByAge, a \o c)
  BY <1>2, <1>5, <1>6, <1>7, ConcatCounts
<1> QED  BY <1>4, <1>8

(* Moving the runtime's microtasks, with a callback behind them, to the loop. *)
LEMMA MoveKeepsMicro ==
    ASSUME MicroInv, MoveCallbacks
    PROVE  MicroInv'
<1>1. PICK more \in {<<>>, <<born + 1>>} :
         /\ born' = born + Len(more) /\ microtasks' = Joined(pending \o more)
  BY DEF MoveCallbacks
<1>2. pending' = <<>> /\ Elements(pending') = {}
  BY DEF MoveCallbacks, Elements
<1>3. PICK all : all = pending \o more
  OBVIOUS
<1>4. /\ all \in Seq(Nat) /\ InOrder(ByAge, microtasks \o all)
      /\ born' \in Nat /\ born <= born'
      /\ \A m \in Elements(all) : m \in Elements(pending) \/ m <= born'
  <2>1. CASE more = <<>>
    <3>1. pending \o <<>> = pending
      BY ConcatEmptySeq DEF MicroInv
    <3>2. born' = born
      BY <1>1, <2>1 DEF MicroInv
    <3> QED  BY <1>3, <2>1, <3>1, <3>2 DEF MicroInv
  <2>2. CASE more = <<born + 1>>
    <3>1. pending \o <<born + 1>> = Append(pending, born + 1)
      BY DEF MicroInv
    <3>2. born' = born + 1
      BY <1>1, <2>2
    <3>3. InOrder(ByAge, microtasks \o Append(pending, born + 1))
      BY AgesJoined DEF MicroInv
    <3>4. /\ Append(pending, born + 1) \in Seq(Nat)
          /\ Elements(Append(pending, born + 1)) = Elements(pending) \cup {born + 1}
      BY PushProperties DEF MicroInv
    <3>5. all = Append(pending, born + 1)
      BY <1>3, <2>2, <3>1
    <3> QED  BY <3>2, <3>3, <3>4, <3>5 DEF MicroInv
  <2> QED  BY <2>1, <2>2
<1>5. /\ Joined(all) \in Seq(Nat)
      /\ Len(Joined(all)) <= MaxPendingMicrotasks
      /\ InOrder(ByAge, Joined(all))
      /\ Elements(Joined(all)) \subseteq Elements(microtasks) \cup Elements(all)
  BY <1>4, JoinedIs DEF MicroInv
<1>6. microtasks' = Joined(all)
  BY <1>1, <1>3
<1>7. microtasks' \o pending' = microtasks'
  BY <1>2, <1>5, <1>6, ConcatEmptySeq
<1>8. \A m \in Elements(microtasks') \cup Elements(pending') : m <= born'
  <2> TAKE m \in Elements(microtasks') \cup Elements(pending')
  <2>1. m \in Elements(microtasks) \cup Elements(pending) \/ m <= born'
    BY <1>2, <1>4, <1>5, <1>6
  <2>2. m \in Elements(microtasks) \cup Elements(pending) => m <= born /\ m \in Nat
    <3>1. Elements(microtasks) \subseteq Nat /\ Elements(pending) \subseteq Nat
      BY ElementsIn DEF MicroInv
    <3> QED  BY <3>1 DEF MicroInv
  <2> QED  BY <2>1, <2>2, <1>4 DEF MicroInv
<1>9. Elements(microtasks)' = Elements(microtasks') /\ Elements(pending)' = Elements(pending')
  OBVIOUS
<1> QED  BY <1>2, <1>4, <1>5, <1>6, <1>7, <1>8, EmptySeq DEF MicroInv

(* Every step keeps the microtasks in order.                                 *)
LEMMA MicroStep ==
    ASSUME MicroInv, [Next]_vars
    PROVE  MicroInv'
<1>0. CASE UNCHANGED <<microtasks, pending, born>>
  BY <1>0 DEF MicroInv, Elements, InOrder
<1>1. CASE MoveCallbacks
  BY <1>1, MoveKeepsMicro
<1>2. ASSUME microtasks' = microtasks, born' = born + 1, pending' = Append(pending, born + 1)
      PROVE  MicroInv'
  <2>1. PICK c : c = Append(pending, born + 1)
    OBVIOUS
  <2>2. born + 1 \in Nat /\ c \in Seq(Nat) /\ Elements(c) = Elements(pending) \cup {born + 1}
    BY <2>1, PushProperties DEF MicroInv
  <2>3. InOrder(ByAge, microtasks \o c)
    BY <2>1, AgesJoined DEF MicroInv
  <2>4. \A m \in Elements(microtasks) \cup Elements(c) : m <= born + 1
    <3>1. Elements(microtasks) \subseteq Nat /\ Elements(pending) \subseteq Nat
      BY ElementsIn DEF MicroInv
    <3> QED  BY <3>1, <2>2 DEF MicroInv
  <2>5. pending' = c
    BY <1>2, <2>1
  <2> QED  BY <1>2, <2>2, <2>3, <2>4, <2>5 DEF MicroInv
<1>3. ASSUME microtasks' = Joined(pending), pending' = <<>>, born' = born
      PROVE  MicroInv'
  <2>1. /\ Joined(pending) \in Seq(Nat)
        /\ Len(Joined(pending)) <= MaxPendingMicrotasks
        /\ InOrder(ByAge, Joined(pending))
        /\ Elements(Joined(pending)) \subseteq Elements(microtasks) \cup Elements(pending)
    BY JoinedIs DEF MicroInv
  <2>2. microtasks' \o pending' = microtasks' /\ Elements(pending') = {}
    BY <1>3, <2>1, ConcatEmptySeq DEF Elements
  <2> QED  BY <1>3, <2>1, <2>2, EmptySeq DEF MicroInv
<1>4. ASSUME microtasks # <<>>, microtasks' = Tail(microtasks), UNCHANGED <<pending, born>>
      PROVE  MicroInv'
  <2>1. PICK t : t = Tail(microtasks)
    OBVIOUS
  <2>2. /\ t \in Seq(Nat) /\ Len(t) = Len(microtasks) - 1
        /\ Elements(t) \subseteq Elements(microtasks)
    BY <1>4, <2>1, PopProperties DEF MicroInv
  <2>3. /\ InOrder(ByAge, microtasks) /\ InOrder(ByAge, pending)
        /\ \A x \in Elements(microtasks), y \in Elements(pending) : <<x, y>> \in ByAge
    BY ConcatCounts DEF MicroInv
  <2>4. InOrder(ByAge, t)
    BY <1>4, <2>1, <2>3, PopCount DEF MicroInv
  <2>5. InOrder(ByAge, t \o pending)
    BY <2>2, <2>3, <2>4, ConcatCounts DEF MicroInv
  <2>6. Len(microtasks) \in Nat
    BY LenProperties DEF MicroInv
  <2>7. microtasks' = t
    BY <1>4, <2>1
  <2>8. Len(t) <= MaxPendingMicrotasks
    BY <2>2, <2>6, LimitsAssumption DEF MicroInv
  <2>9. \A m \in Elements(t) \cup Elements(pending) : m <= born
    BY <2>2 DEF MicroInv
  <2> QED  BY <1>4, <2>2, <2>5, <2>7, <2>8, <2>9 DEF MicroInv
<1>5. ASSUME microtasks' = <<>>, UNCHANGED <<pending, born>>
      PROVE  MicroInv'
  <2>1. InOrder(ByAge, pending)
    BY ConcatCounts DEF MicroInv
  <2>2. microtasks' \o pending = pending /\ Elements(microtasks') = {}
    BY <1>5, ConcatEmptySeq DEF MicroInv, Elements
  <2> QED  BY <1>5, <2>1, <2>2, EmptySeq, LimitsAssumption DEF MicroInv
<1>6. ASSUME pending # <<>>, pending' = Tail(pending), UNCHANGED <<microtasks, born>>
      PROVE  MicroInv'
  <2>1. PICK t : t = Tail(pending)
    OBVIOUS
  <2>2. /\ t \in Seq(Nat) /\ Elements(t) \subseteq Elements(pending)
    BY <1>6, <2>1, PopProperties DEF MicroInv
  <2>3. /\ InOrder(ByAge, microtasks) /\ InOrder(ByAge, pending)
        /\ \A x \in Elements(microtasks), y \in Elements(pending) : <<x, y>> \in ByAge
    BY ConcatCounts DEF MicroInv
  <2>4. InOrder(ByAge, t)
    BY <1>6, <2>1, <2>3, PopCount DEF MicroInv
  <2>5. InOrder(ByAge, microtasks \o t)
    BY <2>2, <2>3, <2>4, ConcatCounts DEF MicroInv
  <2>6. pending' = t
    BY <1>6, <2>1
  <2> QED  BY <1>6, <2>2, <2>5, <2>6 DEF MicroInv
<1>7. CASE Window
  BY <1>0, <1>1, <1>7 DEF Window, Tick, Input, PublishGeometry, Settle, loopVars, runtimeVars
<1>8. CASE Pump
  BY <1>1, <1>8 DEF Pump
<1>9. CASE Scripts
  BY <1>0, <1>2, <1>9 DEF Scripts, SetTimer, ClearTimer, QueueMicrotask, Return, Rearm,
    Throw, loopVars, runtimeVars
<1>10. CASE NoTask \/ RunTask \/ FireTimer \/ DeadTimer
  BY <1>1, <1>10 DEF NoTask, RunTask, FireTimer, DeadTimer, Pop
<1>11. CASE FlushDone \/ CheckpointRun \/ CheckpointDone
  BY <1>3, <1>4, <1>5, <1>11
  DEF FlushDone, CheckpointRun, CheckpointDone, MoveMicrotasks, runtimeVars
<1>12. CASE TakeNext("drain", "drained") \/ TakeNext("settle", "reaction")
  BY <1>6, <1>12 DEF TakeNext, loopVars
<1>13. CASE TurnsOver \/ SettleDone \/ SlotChange \/ EndTurn \/ Drained
  BY <1>0, <1>13 DEF TurnsOver, SettleDone, SlotChange, EndTurn, Drained, loopVars, runtimeVars
<1>14. CASE FlushSchedule \/ FlushRefused \/ FlushCancel
  BY <1>0, <1>14 DEF FlushSchedule, FlushRefused, FlushCancel, loopVars
<1>15. CASE UNCHANGED vars
  BY <1>0, <1>15 DEF vars, loopVars, runtimeVars
<1> QED  BY <1>7, <1>8, <1>9, <1>10, <1>11, <1>12, <1>13, <1>14, <1>15 DEF Next, Page

------------------------------------------------------------------------------
(* Queues of timers in the order of their deadlines.                         *)

\* A queue of timers in order, and how many of it are due by a time.
TimerQueue(s) == /\ s \in Seq(TaskSet) /\ InOrder(ByDeadline, s)
                 /\ \A t \in Elements(s) : IsTimer(t)
DueIn(s, time) == Cardinality({i \in DOMAIN s : s[i].deadline <= time})

(* The timers that are due by some time are the first ones.                  *)
LEMMA DueAreFirst ==
    ASSUME NEW s, TimerQueue(s), NEW time \in Nat
    PROVE  /\ DueIn(s, time) \in 0..Len(s)
           /\ \A x \in Elements(FirstOf(s, DueIn(s, time))) : x.deadline <= time
           /\ \A x \in Elements(Behind(s, DueIn(s, time))) : x.deadline > time
<1> DEFINE K == {i \in DOMAIN s : s[i].deadline <= time}
<1>1. s \in Seq(TaskSet) /\ Len(s) \in Nat /\ DOMAIN s = 1..Len(s)
  BY LenProperties DEF TimerQueue
<1>2. \A i \in DOMAIN s : s[i] \in TaskSet /\ IsTimer(s[i]) /\ s[i].deadline \in Nat
  <2> TAKE i \in DOMAIN s
  <2>1. s[i] \in TaskSet
    BY <1>1, ElementOfSeq
  <2> QED  BY <2>1 DEF TimerQueue, Elements, TaskSet
<1>3. \A i, j \in DOMAIN s : i < j => s[i].deadline <= s[j].deadline
  <2> SUFFICES ASSUME NEW i \in DOMAIN s, NEW j \in DOMAIN s, i < j
               PROVE  s[i].deadline <= s[j].deadline
    OBVIOUS
  <2>1. <<s[i], s[j]>> \in ByDeadline
    BY DEF TimerQueue, InOrder
  <2> QED  BY <2>1, <1>2 DEF ByDeadline
<1>4. IsFiniteSet(K) /\ K \in SUBSET Nat
  <2>1. IsFiniteSet(1..Len(s)) /\ K \in SUBSET (1..Len(s))
    BY <1>1, FS_Interval
  <2> QED  BY <2>1, FS_Subset
<1>5. \E n \in 0..Len(s) : K = 1..n
  <2>1. CASE K = {}
    <3>1. K = 1..0 /\ 0 \in 0..Len(s)
      BY <2>1, <1>1
    <3> QED  BY <3>1
  <2>2. CASE K # {}
    <3>1. PICK m \in K : \A k \in K : k <= m
      BY <2>2, <1>4, FiniteMaximum
    <3>2. m \in 0..Len(s) /\ m \in DOMAIN s /\ s[m].deadline <= time
      BY <1>1
    <3>3. ASSUME NEW i \in 1..m
          PROVE  i \in K
      <4>1. i \in DOMAIN s /\ (i = m \/ i < m)
        BY <1>1, <3>2
      <4>2. s[i].deadline <= s[m].deadline
        BY <4>1, <3>2, <1>2, <1>3
      <4> QED  BY <4>1, <4>2, <3>2, <1>2
    <3>4. ASSUME NEW k \in K
          PROVE  k \in 1..m
      BY <3>1, <3>2, <1>1
    <3>5. K = 1..m
      BY <3>3, <3>4
    <3> QED  BY <3>2, <3>5
  <2> QED  BY <2>1, <2>2
<1>6. PICK n \in 0..Len(s) : K = 1..n
  BY <1>5
<1>7. DueIn(s, time) = n
  <2>1. Cardinality(1..n) = n
    BY <1>1, FS_Interval
  <2> QED  BY <2>1, <1>6 DEF DueIn
<1>8. /\ FirstOf(s, n) \in Seq(TaskSet) /\ Behind(s, n) \in Seq(TaskSet)
      /\ Len(FirstOf(s, n)) = n /\ Len(Behind(s, n)) = Len(s) - n
      /\ \A i \in 1..n : FirstOf(s, n)[i] = s[i]
      /\ \A i \in 1..(Len(s) - n) : Behind(s, n)[i] = s[n + i]
  <2>1. FirstOf(s, n) \in Seq(TaskSet) /\ Behind(s, n) \in Seq(TaskSet)
    BY <1>1, CutCount
  <2>2. Len(FirstOf(s, n)) = n
    BY <1>1, CutCount
  <2>3. Len(Behind(s, n)) = Len(s) - n
    BY <1>1, CutCount
  <2>4. \A i \in 1..n : FirstOf(s, n)[i] = s[i]
    BY <1>1, CutCount
  <2>5. \A i \in 1..(Len(s) - n) : Behind(s, n)[i] = s[n + i]
    BY <1>1, CutCount
  <2> QED  BY <2>1, <2>2, <2>3, <2>4, <2>5
<1>9. ASSUME NEW x \in Elements(FirstOf(s, n))
      PROVE  x.deadline <= time
  <2>1. PICK i \in 1..n : x = s[i]
    BY <1>8, LenProperties DEF Elements
  <2>2. i \in K
    BY <1>6
  <2> QED  BY <2>1, <2>2
<1>10. ASSUME NEW x \in Elements(Behind(s, n))
       PROVE  x.deadline > time
  <2>1. PICK i \in 1..(Len(s) - n) : x = s[n + i]
    BY <1>8, LenProperties DEF Elements
  <2>2. n + i \notin K /\ n + i \in DOMAIN s
    BY <1>1, <1>6
  <2> QED  BY <2>1, <2>2, <1>2
<1> QED  BY <1>7, <1>9, <1>10

(* A timer put behind those that are not later than it is in its place.      *)
Placed(s, e) ==
    FirstOf(s, DueIn(s, e.deadline)) \o <<e>> \o Behind(s, DueIn(s, e.deadline))

LEMMA PlacedInOrder ==
    ASSUME NEW s, TimerQueue(s), NEW e \in TaskSet, IsTimer(e)
    PROVE  /\ TimerQueue(Placed(s, e)) /\ Len(Placed(s, e)) = Len(s) + 1
           /\ Elements(Placed(s, e)) = Elements(s) \cup {e}
           /\ \A K : Count(Placed(s, e), K) = Count(s, K) + IF e \in K THEN 1 ELSE 0
<1>1. e.deadline \in Nat /\ s \in Seq(TaskSet) /\ Len(s) \in Nat /\ InOrder(ByDeadline, s)
  BY LenProperties DEF TaskSet, TimerQueue
<1>2. PICK n \in 0..Len(s) : n = DueIn(s, e.deadline)
  BY <1>1, DueAreFirst
<1>3. PICK f \in Seq(TaskSet), g \in Seq(TaskSet), m \in Seq(TaskSet) :
        f = FirstOf(s, n) /\ g = Behind(s, n) /\ m = <<e>>
  <2>1. FirstOf(s, n) \in Seq(TaskSet) /\ Behind(s, n) \in Seq(TaskSet)
    BY <1>1, CutCount
  <2>2. <<e>> \in Seq(TaskSet)
    OBVIOUS
  <2> QED  BY <2>1, <2>2
<1>4. \A x \in Elements(f) : x.deadline <= e.deadline
  BY <1>1, <1>2, <1>3, DueAreFirst
<1>5. \A x \in Elements(g) : x.deadline > e.deadline
  BY <1>1, <1>2, <1>3, DueAreFirst
<1>6. /\ Len(f) + Len(g) = Len(s) /\ Elements(s) = Elements(f) \cup Elements(g)
      /\ \A K : Count(s, K) = Count(f, K) + Count(g, K)
  <2>1. Len(f) = n /\ Len(g) = Len(s) - n
    BY <1>1, <1>3, CutCount
  <2> QED  BY <1>1, <1>3, <2>1, CutCount
<1>7. /\ InOrder(ByDeadline, f) /\ InOrder(ByDeadline, g)
      /\ \A x \in Elements(f), y \in Elements(g) : <<x, y>> \in ByDeadline
  BY <1>1, <1>3, CutCount
<1>8. /\ Len(m) = 1 /\ Elements(m) = {e}
      /\ \A K : Count(m, K) = IF e \in K THEN 1 ELSE 0
      /\ InOrder(ByDeadline, m)
  BY <1>3, SingleCount
<1>9. Elements(f) \subseteq TaskSet /\ Elements(g) \subseteq TaskSet
  BY ElementsIn
<1>10. \A x \in Elements(f) : <<x, e>> \in ByDeadline
  BY <1>4, <1>9 DEF ByDeadline
<1>11. \A y \in Elements(g) : <<e, y>> \in ByDeadline
  <2> TAKE y \in Elements(g)
  <2>1. y \in TaskSet /\ e.deadline < y.deadline /\ y.deadline \in Nat
    BY <1>1, <1>5, <1>9 DEF TaskSet
  <2> QED  BY <1>1, <2>1 DEF ByDeadline
<1>12. PICK h : h = f \o m
  OBVIOUS
<1>13. /\ h \in Seq(TaskSet) /\ Len(h) = Len(f) + 1 /\ Elements(h) = Elements(f) \cup {e}
       /\ \A K : Count(h, K) = Count(f, K) + IF e \in K THEN 1 ELSE 0
  <2>1. f \o m \in Seq(TaskSet)
    BY ConcatCounts
  <2>2. Len(f \o m) = Len(f) + Len(m)
    BY ConcatCounts
  <2>3. Elements(f \o m) = Elements(f) \cup Elements(m)
    BY ConcatCounts
  <2>4. \A K : Count(f \o m, K) = Count(f, K) + Count(m, K)
    BY ConcatCounts
  <2> QED  BY <1>8, <1>12, <2>1, <2>2, <2>3, <2>4
<1>14. InOrder(ByDeadline, h)
  BY <1>7, <1>8, <1>10, <1>12, ConcatCounts
<1>15. Placed(s, e) = h \o g
  BY <1>2, <1>3, <1>12 DEF Placed
<1>16. InOrder(ByDeadline, h \o g)
  <2>1. \A x \in Elements(h), y \in Elements(g) : <<x, y>> \in ByDeadline
    BY <1>7, <1>11, <1>13
  <2> QED  BY <1>7, <1>13, <1>14, <2>1, ConcatCounts
<1>17. /\ h \o g \in Seq(TaskSet) /\ Len(h \o g) = Len(h) + Len(g)
       /\ Elements(h \o g) = Elements(h) \cup Elements(g)
       /\ \A K : Count(h \o g, K) = Count(h, K) + Count(g, K)
  <2>1. h \o g \in Seq(TaskSet)
    BY <1>13, ConcatCounts
  <2>2. Len(h \o g) = Len(h) + Len(g)
    BY <1>13, ConcatCounts
  <2>3. Elements(h \o g) = Elements(h) \cup Elements(g)
    BY <1>13, ConcatCounts
  <2>4. \A K : Count(h \o g, K) = Count(h, K) + Count(g, K)
    BY <1>13, ConcatCounts
  <2> QED  BY <2>1, <2>2, <2>3, <2>4
<1>18. Len(f) \in Nat /\ Len(g) \in Nat /\ \A K : Count(f, K) \in Nat /\ Count(g, K) \in Nat
  BY LenProperties, CountType
<1>19. \A t \in Elements(h \o g) : IsTimer(t)
  BY <1>6, <1>13, <1>17 DEF TimerQueue
<1>20. Elements(h \o g) = Elements(s) \cup {e} /\ Len(h \o g) = Len(s) + 1
  <2>1. Elements(h \o g) = Elements(s) \cup {e}
    BY <1>6, <1>13, <1>17
  <2>2. Len(h \o g) = Len(f) + 1 + Len(g)
    BY <1>13, <1>17
  <2>3. Len(f) + 1 + Len(g) = Len(s) + 1
    BY <1>6, <1>18
  <2> QED  BY <2>1, <2>2, <2>3
<1>21. ASSUME NEW K
       PROVE  Count(h \o g, K) = Count(s, K) + IF e \in K THEN 1 ELSE 0
  BY <1>6, <1>13, <1>17, <1>18
<1> HIDE DEF TimerQueue
<1>22. TimerQueue(h \o g)
  BY <1>16, <1>17, <1>19 DEF TimerQueue
<1> QED  BY <1>15, <1>20, <1>21, <1>22

(* What the properties count are elements of a kind.                         *)
TimerTasks(id) == {t \in TaskSet : t.payload = Script("timer", id)}
ScriptTasks == {t \in TaskSet : t.payload.type = "task"}
Schedule(id) == [type |-> "schedule", id |-> id]

LEMMA CountsAre ==
    ASSUME NEW s \in Seq(TaskSet)
    PROVE  /\ TasksIn(s) = Count(s, ScriptTasks)
           /\ \A id : CountIn(id, s) = Count(s, TimerTasks(id))
<1>1. \A i \in DOMAIN s : s[i] \in TaskSet
  BY ElementOfSeq, LenProperties
<1>2. {i \in DOMAIN s : s[i].payload.type = "task"} = Occurring(s, ScriptTasks)
  BY <1>1 DEF Occurring, ScriptTasks
<1>3. \A id : {i \in DOMAIN s : s[i].payload = Script("timer", id)}
                = Occurring(s, TimerTasks(id))
  BY <1>1 DEF Occurring, TimerTasks
<1> QED  BY <1>2, <1>3 DEF TasksIn, CountIn, Count

LEMMA AskedIs ==
    \A id : /\ Asked(id) = Count(requests, {Schedule(id)})
            /\ Asked(id)' = Count(requests', {Schedule(id)})
BY DEF Asked, Count, Occurring, Schedule

LEMMA CountsAreNumbers ==
    ASSUME StateOk, NEW id
    PROVE  Asked(id) \in Nat /\ CountIn(id, ready) \in Nat /\ CountIn(id, timers) \in Nat
<1>1. /\ ready \in Seq(TaskSet) /\ timers \in Seq(TaskSet)
      /\ requests \in Seq(RequestSet)
  BY DEF StateOk
<1>2. Asked(id) \in Nat
  BY <1>1, AskedIs, CountType
<1>3. CountIn(id, ready) \in Nat
  BY <1>1, CountsAre, CountType
<1>4. CountIn(id, timers) \in Nat
  BY <1>1, CountsAre, CountType
<1> QED  BY <1>2, <1>3, <1>4

(* None of a timer is in a queue that names only others.                     *)
LEMMA NoneOf ==
    ASSUME NEW s \in Seq(TaskSet), NEW id,
           \A t \in Elements(s) : IsTimer(t) => t.payload.id # id
    PROVE  Count(s, TimerTasks(id)) = 0
<1>1. \A t \in Elements(s) : t \notin TimerTasks(id)
  BY DEF TimerTasks, Script, IsTimer
<1> QED  BY <1>1, CountType

------------------------------------------------------------------------------
(* Timers: steps that leave their queues alone.                              *)

(* A step that changes neither the queues nor the table of timers, and ends  *)
(* no timer's script that the table still holds, keeps the timers in order.  *)
LEMMA QuietStep ==
    ASSUME TimersInv,
           UNCHANGED <<ready, timers, requests, bytes, table, created, lost, stranded>>,
           now' \in Nat, wall' \in Nat, now <= now', now' <= wall', fed' \in Nat,
           \/ UNCHANGED <<pc, current>>
           \/ /\ pc' \in Counters /\ current' \in ScriptSet
              /\ pc' = "run" => current'.type \notin {"timer", "nobody"}
              /\ current' = current \/ current'.type # "timer"
              /\ Running /\ current.type = "timer" => current.id \notin table
    PROVE  TimersInv'
<1>1. StateOk'
  BY DEF TimersInv, StateOk, Running
<1>2. NamesOk'
  BY DEF TimersInv, NamesOk, Elements
<1>3. DeadlinesOk'
  <2>1. \A t \in Elements(ready) : t.deadline \in Nat
    <3>1. Elements(ready) \subseteq TaskSet
      BY ElementsIn DEF TimersInv, StateOk
    <3> QED  BY <3>1 DEF TaskSet
  <2>2. \A t \in Elements(ready) : t.deadline <= now'
    BY <2>1 DEF TimersInv, StateOk, DeadlinesOk
  <2> QED  BY <2>2 DEF TimersInv, DeadlinesOk, Elements
<1>4. LengthsOk'
  BY DEF TimersInv, LengthsOk, TasksIn
<1>5. ASSUME NEW id \in table
      PROVE  Fires(id)' = Fires(id)
  <2>1. CASE UNCHANGED <<pc, current>>
    BY <2>1 DEF Fires, Running
  <2>2. CASE ~UNCHANGED <<pc, current>>
    BY <2>2 DEF Fires, Running, Script
  <2> QED  BY <2>1, <2>2
<1>6. PlacesOk'
  <2> SUFFICES ASSUME NEW id \in table
               PROVE  Places(id)' = IF id \in lost THEN 0 ELSE 1
    BY DEF PlacesOk
  <2>1. Places(id)' = Places(id)
    BY <1>5 DEF Places, Asked, CountIn
  <2> QED  BY <2>1 DEF TimersInv, PlacesOk
<1>7. RepeatsOk'
  BY DEF TimersInv, RepeatsOk, Running
<1>8. CancelsOk'
  BY DEF TimersInv, CancelsOk, Elements
<1> QED  BY <1>1, <1>2, <1>3, <1>4, <1>6, <1>7, <1>8 DEF TimersInv

(* The steps of this kind.                                                   *)
Quiet == \/ Tick \/ PublishGeometry \/ Settle("fetch") \/ Settle("import") \/ Pump
         \/ QueueMicrotask \/ Return \/ Throw
         \/ TurnsOver \/ NoTask \/ SettleDone \/ FlushDone
         \/ CheckpointRun \/ CheckpointDone \/ SlotChange \/ EndTurn
         \/ TakeNext("drain", "drained") \/ TakeNext("settle", "reaction") \/ Drained
         \/ UNCHANGED vars

LEMMA QuietSteps ==
    ASSUME MicroInv, TimersInv, Quiet
    PROVE  TimersInv'
<1>0. now \in Nat /\ wall \in Nat /\ now <= wall /\ fed \in Nat
  BY DEF TimersInv, StateOk
<1>1. CASE Tick
  BY <1>0, <1>1, QuietStep DEF Tick, loopVars, runtimeVars, countVars, histVars
<1>2. CASE PublishGeometry
  BY <1>0, <1>2, QuietStep DEF PublishGeometry, countVars, histVars
<1>3. ASSUME NEW type \in {"fetch", "import"}, Settle(type)
      PROVE  TimersInv'
  <2>1. Script(type, 0) \in ScriptSet
    BY <1>3 DEF Script, ScriptSet, ScriptTypes
  <2>2. /\ pc' = "run" /\ current' = Script(type, 0) /\ current'.type = type
        /\ ~Running
    BY <1>3 DEF Settle, Script, Idle, Running
  <2>3. UNCHANGED <<ready, timers, requests, bytes, table, created, lost, stranded, now, wall, fed>>
    BY <1>3 DEF Settle, loopVars, runtimeVars, histVars
  <2> QED  BY <1>0, <1>3, <2>1, <2>2, <2>3, QuietStep DEF Counters
<1>4. CASE Pump
  BY <1>0, <1>4, QuietStep DEF Pump, Idle, Running, Counters, countVars, histVars, TimersInv, StateOk
<1>5. CASE QueueMicrotask
  BY <1>0, <1>5, QuietStep DEF QueueMicrotask, loopVars, countVars, histVars
<1>6. CASE Return
  <2>1. Running /\ current.type \in ScriptTypes
    BY <1>6 DEF Return, TimersInv, StateOk, ScriptSet
  <2>2. pc' \in Counters \ {"run"}
    BY <1>6, <2>1 DEF Return, After, ScriptTypes, Counters
  <2>3. current.type = "timer" => current.id \notin table
    BY <1>6, <2>1 DEF Return, Rearms, TimersInv, RepeatsOk
  <2>4. /\ UNCHANGED <<ready, timers, requests, bytes, table, created, lost, stranded, now, wall, fed>>
        /\ current' = current /\ current \in ScriptSet
    BY <1>6 DEF Return, loopVars, runtimeVars, countVars, histVars, TimersInv, StateOk
  <2> QED  BY <1>0, <2>2, <2>3, <2>4, QuietStep
<1>7. CASE Throw
  <2>1. /\ UNCHANGED <<ready, timers, requests, bytes, table, created, lost, stranded, now, wall, fed>>
        /\ current' = current /\ current \in ScriptSet /\ current.type = "reaction"
        /\ pc' = "idle"
    BY <1>7 DEF Throw, loopVars, runtimeVars, countVars, histVars, TimersInv, StateOk
  <2> QED  BY <1>0, <2>1, QuietStep DEF Counters
<1>8. CASE TurnsOver \/ NoTask \/ SettleDone \/ FlushDone \/ CheckpointDone \/ EndTurn \/ Drained
  <2>1. /\ UNCHANGED <<ready, timers, requests, bytes, table, created, lost, stranded, now, wall, fed>>
        /\ current' = current /\ current \in ScriptSet
        /\ pc' \in Counters \ {"run"} /\ ~Running
    BY <1>8 DEF TurnsOver, NoTask, SettleDone, FlushDone, CheckpointDone, EndTurn, Drained,
      Running, Counters, loopVars, runtimeVars, countVars, histVars, TimersInv, StateOk
  <2> QED  BY <1>0, <2>1, QuietStep
<1>9. ASSUME NEW type \in {"microtask", "slot", "drained", "reaction"}, NEW id \in Nat,
             UNCHANGED <<ready, timers, requests, bytes, table, created, lost, stranded,
                         now, wall, fed>>,
             pc' = "run", current' = Script(type, id), ~Running
      PROVE  TimersInv'
  <2>1. Script(type, id) \in ScriptSet /\ Script(type, id).type = type
    BY DEF Script, ScriptSet, ScriptTypes
  <2>2. current'.type = type
    BY <1>9, <2>1
  <2> QED  BY <1>0, <1>9, <2>1, <2>2, QuietStep DEF Counters
<1>10. CASE CheckpointRun
  <2>1. Head(microtasks) \in Nat
    BY <1>10, HeadTailProperties DEF CheckpointRun, MicroInv
  <2> QED  BY <1>9, <1>10, <2>1 DEF CheckpointRun, Running, runtimeVars, countVars, histVars
<1>11. CASE SlotChange
  BY <1>9, <1>11 DEF SlotChange, Running, loopVars, runtimeVars, countVars, histVars
<1>12. ASSUME NEW from \in {"drain", "settle"}, NEW type \in {"drained", "reaction"},
              TakeNext(from, type)
       PROVE  TimersInv'
  <2>1. Head(pending) \in Nat
    BY <1>12, HeadTailProperties DEF TakeNext, MicroInv
  <2> QED  BY <1>9, <1>12, <2>1 DEF TakeNext, Running, loopVars, countVars, histVars
<1>13. CASE UNCHANGED vars
  BY <1>0, <1>13, QuietStep DEF vars, loopVars, runtimeVars, countVars, histVars
<1> QED  BY <1>1, <1>2, <1>3, <1>4, <1>5, <1>6, <1>7, <1>8, <1>10, <1>11, <1>12, <1>13
  DEF Quiet

------------------------------------------------------------------------------
(* Timers: the window's tasks, and scripts that set and clear timers.        *)

(* A queued task waits behind the others.                                    *)
LEMMA InputStep ==
    ASSUME TimersInv, Input
    PROVE  TimersInv'
<1>1. PICK e : e = Scheduled(Script("task", fed + 1), 0)
  OBVIOUS
<1>2. e \in TaskSet /\ ~IsTimer(e) /\ e \in ScriptTasks /\ e.deadline = 0
  <2>1. fed + 1 \in Nat
    BY DEF TimersInv, StateOk
  <2>2. Script("task", fed + 1) \in ScriptSet
    BY <2>1 DEF Script, ScriptSet, ScriptTypes
  <2> QED  BY <1>1, <2>2 DEF Scheduled, TaskSet, IsTimer, ScriptTasks, Script
<1>3. ready' = Append(ready, e) /\ fed' = fed + 1 /\ bytes' = bytes + 1
  BY <1>1 DEF Input, QueueTask
<1>4. UNCHANGED <<now, wall, timers, requests, pc, current, table, created, lost, stranded>>
  BY DEF Input, runtimeVars, histVars
<1>5. /\ ready' \in Seq(TaskSet) /\ Len(ready') = Len(ready) + 1
      /\ Elements(ready') = Elements(ready) \cup {e}
  BY <1>2, <1>3, PushProperties DEF TimersInv, StateOk
<1>6. /\ \A K : Count(ready', K) = Count(ready, K) + IF e \in K THEN 1 ELSE 0
      /\ InOrder(ByDeadline, ready') <=>
           InOrder(ByDeadline, ready) /\ \A x \in Elements(ready) : <<x, e>> \in ByDeadline
  BY <1>2, <1>3, PushCount DEF TimersInv, StateOk
<1>7. /\ ready \in Seq(TaskSet) /\ timers \in Seq(TaskSet)
      /\ Len(ready) \in Nat /\ Len(timers) \in Nat
  BY LenProperties DEF TimersInv, StateOk
<1>8. StateOk'
  BY <1>3, <1>4, <1>5 DEF TimersInv, StateOk, Running
<1>9. NamesOk'
  BY <1>2, <1>4, <1>5 DEF TimersInv, NamesOk
<1>10. DeadlinesOk'
  <2>1. Elements(ready) \subseteq TaskSet /\ Elements(timers) \subseteq TaskSet
    BY <1>7, ElementsIn
  <2>2. /\ InOrder(ByDeadline, ready) /\ InOrder(ByDeadline, timers)
        /\ \A x \in Elements(ready), y \in Elements(timers) : <<x, y>> \in ByDeadline
    BY <1>7, ConcatCounts DEF TimersInv, DeadlinesOk
  <2>3. /\ \A x \in Elements(ready) : <<x, e>> \in ByDeadline
        /\ \A y \in Elements(timers) : <<e, y>> \in ByDeadline
    BY <1>2, <2>1 DEF ByDeadline
  <2>4. InOrder(ByDeadline, ready' \o timers)
    <3>1. \A x \in Elements(ready'), y \in Elements(timers) : <<x, y>> \in ByDeadline
      BY <1>5, <2>2, <2>3
    <3> QED  BY <1>5, <1>6, <1>7, <2>2, <2>3, <3>1, ConcatCounts
  <2>5. \A t \in Elements(ready') : t.deadline <= now
    BY <1>2, <1>5 DEF TimersInv, DeadlinesOk, StateOk
  <2> QED  BY <1>4, <2>4, <2>5 DEF DeadlinesOk
<1>11. LengthsOk'
  <2>1. Len(ready) + Len(timers) < MaxPendingTasks /\ bytes < MaxSourceBytes
    BY DEF Input, HasTaskCapacity
  <2>2. TasksIn(ready') = TasksIn(ready) + 1
    BY <1>2, <1>5, <1>6, <1>7, CountsAre
  <2>3. TasksIn(ready) = bytes /\ bytes \in Nat
    BY DEF TimersInv, LengthsOk, StateOk
  <2>4. /\ Len(ready') + Len(timers) <= MaxPendingTasks
        /\ bytes' = TasksIn(ready') /\ bytes' <= MaxSourceBytes
    BY <1>3, <1>5, <1>7, <2>1, <2>2, <2>3, LimitsAssumption, PageAssumption
  <2> QED  BY <1>4, <2>4 DEF TimersInv, LengthsOk
<1>12. PlacesOk'
  <2> SUFFICES ASSUME NEW id \in table
               PROVE  Places(id)' = IF id \in lost THEN 0 ELSE 1
    BY <1>4 DEF PlacesOk
  <2>1. e \notin TimerTasks(id)
    BY <1>2 DEF TimerTasks, IsTimer, Script
  <2>2. Count(ready', TimerTasks(id)) = Count(ready, TimerTasks(id))
    <3>1. Count(ready, TimerTasks(id)) \in Nat
      BY <1>7, CountType
    <3> QED  BY <1>6, <2>1, <3>1
  <2>3. CountIn(id, ready') = CountIn(id, ready)
    BY <1>5, <1>7, <2>2, CountsAre
  <2>4. CountIn(id, ready)' = CountIn(id, ready)
    BY <2>3 DEF CountIn
  <2>5. Places(id)' = Places(id)
    BY <1>4, <2>4 DEF Places, Asked, CountIn, Fires, Running
  <2> QED  BY <2>5 DEF TimersInv, PlacesOk
<1>13. RepeatsOk' /\ CancelsOk'
  BY <1>4 DEF TimersInv, RepeatsOk, CancelsOk, Running, Elements
<1> QED  BY <1>8, <1>9, <1>10, <1>11, <1>12, <1>13 DEF TimersInv

(* A timer that a script sets is asked for once.                             *)
LEMMA SetTimerStep ==
    ASSUME TimersInv, SetTimer
    PROVE  TimersInv'
<1>1. PICK n, r : n = created + 1 /\ r = Schedule(n)
  OBVIOUS
<1>2. n \in Nat /\ n <= MaxTimers /\ created \in Nat /\ r \in RequestSet
  BY <1>1, PageAssumption DEF SetTimer, TimersInv, StateOk, Schedule, RequestSet
<1>3. requests' = Append(requests, r) /\ created' = n /\ table' = table \cup {n}
  BY <1>1 DEF SetTimer, Schedule
<1>4. UNCHANGED <<now, wall, ready, timers, pc, current, bytes, fed, lost, stranded>>
  BY DEF SetTimer, loopVars, countVars, histVars
<1>5. /\ requests' \in Seq(RequestSet) /\ Elements(requests') = Elements(requests) \cup {r}
      /\ DOMAIN requests' = DOMAIN requests \cup {Len(requests) + 1}
      /\ \A i \in DOMAIN requests : requests'[i] = requests[i]
      /\ requests'[Len(requests) + 1] = r
  <2>1. requests \in Seq(RequestSet)
    BY DEF TimersInv, StateOk
  <2> QED  BY <1>2, <1>3, <2>1, PushProperties
<1>6. \A K : Count(requests', K) = Count(requests, K) + IF r \in K THEN 1 ELSE 0
  BY <1>2, <1>3, PushCount DEF TimersInv, StateOk
<1>7. StateOk'
  <2>1. table' \subseteq 1..n /\ lost \subseteq 1..n
    <3>1. 1..created \subseteq 1..n /\ n \in 1..n
      BY <1>1, <1>2
    <3> QED  BY <1>3, <3>1 DEF TimersInv, StateOk
  <2> QED  BY <1>2, <1>3, <1>4, <1>5, <2>1 DEF TimersInv, StateOk, Running
<1>8. NamesOk'
  <2>1. 1..created \subseteq 1..n /\ r.id = n /\ n \in 1..n
    BY <1>1, <1>2 DEF Schedule
  <2> QED  BY <1>3, <1>4, <1>5, <2>1 DEF TimersInv, NamesOk
<1>9. DeadlinesOk' /\ LengthsOk'
  BY <1>4 DEF TimersInv, DeadlinesOk, LengthsOk, TasksIn, Elements
<1>10. n \notin 1..created
  BY <1>1, <1>2
<1>11. PlacesOk'
  <2> SUFFICES ASSUME NEW id \in table'
               PROVE  Places(id)' = IF id \in lost THEN 0 ELSE 1
    BY <1>4 DEF PlacesOk
  <2>1. /\ Asked(id) = Count(requests, {Schedule(id)}) /\ Asked(id) \in Nat
        /\ Asked(id)' = Asked(id) + IF id = n THEN 1 ELSE 0
    <3>1. Count(requests, {Schedule(id)}) \in Nat
      BY CountType DEF TimersInv, StateOk
    <3>2. r \in {Schedule(id)} <=> id = n
      BY <1>1 DEF Schedule
    <3> QED  BY <1>6, <3>1, <3>2, AskedIs
  <2>2. CASE id = n
    <3>1. Asked(id) = 0
      <4>1. Schedule(id) \notin Elements(requests)
        BY <1>10, <2>2 DEF TimersInv, NamesOk, Schedule
      <4>2. \A x \in Elements(requests) : x \notin {Schedule(id)}
        BY <4>1
      <4> QED  BY <2>1, <4>2, CountType DEF TimersInv, StateOk
    <3>2. CountIn(id, ready) = 0 /\ CountIn(id, timers) = 0
      <4>1. ready \in Seq(TaskSet) /\ timers \in Seq(TaskSet)
        BY DEF TimersInv, StateOk
      <4>2. \A t \in Elements(ready) : IsTimer(t) => t.payload.id # id
        BY <1>10, <2>2 DEF TimersInv, NamesOk
      <4>3. \A t \in Elements(timers) : IsTimer(t) => t.payload.id # id
        BY <1>10, <2>2 DEF TimersInv, NamesOk
      <4> QED  BY <4>1, <4>2, <4>3, NoneOf, CountsAre
    <3>3. Fires(id) = 0
      BY <1>10, <2>2 DEF Fires, TimersInv, NamesOk, Script
    <3>4. Places(id)' = 1
      BY <1>4, <2>1, <2>2, <3>1, <3>2, <3>3 DEF Places, CountIn, Fires, Running
    <3>5. id \notin lost
      BY <1>10, <2>2 DEF TimersInv, StateOk
    <3> QED  BY <3>4, <3>5
  <2>3. CASE id # n
    <3>1. Asked(id)' = Asked(id)
      BY <2>1, <2>3
    <3>2. Places(id)' = Places(id)
      BY <1>4, <3>1 DEF Places, CountIn, Fires, Running
    <3>3. id \in table
      BY <1>3, <2>3
    <3> QED  BY <3>2, <3>3 DEF TimersInv, PlacesOk
  <2> QED  BY <2>2, <2>3
<1>12. RepeatsOk'
  BY <1>3, <1>4, <1>10 DEF TimersInv, RepeatsOk, NamesOk, Running
<1>13. CancelsOk'
  <2>1. \A x \in Elements(requests') : x.type = "cancel" => x.id \notin table'
    <3>1. r.type # "cancel"
      BY <1>1 DEF Schedule
    <3> QED  BY <1>3, <1>5, <1>10, <3>1 DEF TimersInv, CancelsOk, NamesOk
  <2>2. ASSUME NEW i \in DOMAIN requests', requests'[i].type = "schedule"
        PROVE  \/ requests'[i].id \in table'
               \/ \E j \in DOMAIN requests' :
                    j > i /\ requests'[j] = Cancel(requests'[i].id)
    <3>1. CASE i \in DOMAIN requests
      <4>1. requests[i].type = "schedule"
        BY <1>5, <2>2, <3>1
      <4>2. \/ requests[i].id \in table
            \/ \E j \in DOMAIN requests : j > i /\ requests[j] = Cancel(requests[i].id)
        BY <3>1, <4>1 DEF TimersInv, CancelsOk
      <4> QED  BY <1>3, <1>5, <3>1, <4>2
    <3>2. CASE i = Len(requests) + 1
      BY <1>1, <1>3, <1>5, <3>2 DEF Schedule
    <3> QED  BY <1>5, <3>1, <3>2
  <2>3. \A t \in Elements(timers) : \/ t.payload.id \in table'
                                    \/ Cancel(t.payload.id) \in Elements(requests')
                                    \/ t.payload.id \in stranded
    BY <1>3, <1>5 DEF TimersInv, CancelsOk
  <2> QED  BY <1>4, <2>1, <2>2, <2>3 DEF CancelsOk
<1> QED  BY <1>7, <1>8, <1>9, <1>11, <1>12, <1>13 DEF TimersInv

(* The Cancel of a timer that a script clears comes after its request.       *)
LEMMA ClearTimerStep ==
    ASSUME TimersInv, NEW n \in Timers, ClearTimer(n)
    PROVE  TimersInv'
<1>1. PICK r : r = Cancel(n)
  OBVIOUS
<1>2. n \in table /\ n \in 1..created /\ n \in Nat /\ r \in RequestSet
  BY <1>1 DEF ClearTimer, TimersInv, StateOk, Cancel, RequestSet
<1>3. requests' = Append(requests, r) /\ table' = table \ {n}
  BY <1>1 DEF ClearTimer, Cancel
<1>4. UNCHANGED <<now, wall, ready, timers, pc, current, bytes, created, fed, lost, stranded>>
  BY DEF ClearTimer, loopVars, countVars, histVars
<1>5. /\ requests' \in Seq(RequestSet) /\ Elements(requests') = Elements(requests) \cup {r}
      /\ DOMAIN requests' = DOMAIN requests \cup {Len(requests) + 1}
      /\ \A i \in DOMAIN requests : requests'[i] = requests[i]
      /\ requests'[Len(requests) + 1] = r
      /\ \A i \in DOMAIN requests : i < Len(requests) + 1
  <2>1. requests \in Seq(RequestSet)
    BY DEF TimersInv, StateOk
  <2>2. \A i \in DOMAIN requests : i < Len(requests) + 1
    BY <2>1, LenProperties
  <2> QED  BY <1>2, <1>3, <2>1, <2>2, PushProperties
<1>6. \A K : Count(requests', K) = Count(requests, K) + IF r \in K THEN 1 ELSE 0
  BY <1>2, <1>3, PushCount DEF TimersInv, StateOk
<1>7. StateOk'
  BY <1>3, <1>4, <1>5 DEF TimersInv, StateOk, Running
<1>8. NamesOk'
  BY <1>1, <1>2, <1>4, <1>5 DEF TimersInv, NamesOk, Cancel
<1>9. DeadlinesOk' /\ LengthsOk'
  BY <1>4 DEF TimersInv, DeadlinesOk, LengthsOk, TasksIn, Elements
<1>10. PlacesOk'
  <2> SUFFICES ASSUME NEW id \in table
               PROVE  Places(id)' = IF id \in lost THEN 0 ELSE 1
    BY <1>3, <1>4 DEF PlacesOk
  <2>1. Asked(id)' = Asked(id)
    <3>1. Count(requests, {Schedule(id)}) \in Nat
      BY CountType DEF TimersInv, StateOk
    <3>2. r \notin {Schedule(id)}
      BY <1>1 DEF Schedule, Cancel
    <3> QED  BY <1>6, <3>1, <3>2, AskedIs
  <2>2. Places(id)' = Places(id)
    BY <1>4, <2>1 DEF Places, CountIn, Fires, Running
  <2> QED  BY <2>2 DEF TimersInv, PlacesOk
<1>11. RepeatsOk'
  BY <1>3, <1>4 DEF TimersInv, RepeatsOk, Running
<1>12. CancelsOk'
  <2>1. \A x \in Elements(requests') : x.type = "cancel" => x.id \notin table'
    <3>1. r.id = n
      BY <1>1 DEF Cancel
    <3> QED  BY <1>3, <1>5, <3>1 DEF TimersInv, CancelsOk
  <2>2. ASSUME NEW i \in DOMAIN requests', requests'[i].type = "schedule"
        PROVE  \/ requests'[i].id \in table'
               \/ \E j \in DOMAIN requests' :
                    j > i /\ requests'[j] = Cancel(requests'[i].id)
    <3>1. i \in DOMAIN requests /\ requests[i].type = "schedule"
      BY <1>1, <1>5, <2>2 DEF Cancel
    <3>2. \/ requests[i].id \in table
          \/ \E j \in DOMAIN requests : j > i /\ requests[j] = Cancel(requests[i].id)
      BY <3>1 DEF TimersInv, CancelsOk
    <3>3. CASE requests[i].id = n
      BY <1>1, <1>5, <3>1, <3>3
    <3>4. CASE requests[i].id # n
      BY <1>3, <1>5, <3>1, <3>2, <3>4
    <3> QED  BY <3>3, <3>4
  <2>3. \A t \in Elements(timers) : \/ t.payload.id \in table'
                                    \/ Cancel(t.payload.id) \in Elements(requests')
                                    \/ t.payload.id \in stranded
    BY <1>1, <1>3, <1>5 DEF TimersInv, CancelsOk
  <2> QED  BY <1>4, <2>1, <2>2, <2>3 DEF CancelsOk
<1> QED  BY <1>7, <1>8, <1>9, <1>10, <1>11, <1>12 DEF TimersInv

------------------------------------------------------------------------------
(* Timers: those that enter the loop.                                        *)

(* An armed timer is in its place among the others, behind the ready tasks.  *)
LEMMA ArmedIs ==
    ASSUME TimersInv, NEW id \in 1..created
    PROVE  LET e == Scheduled(Script("timer", id), now + Delay[id])
               u == Armed(Script("timer", id), Delay[id])
           IN  /\ e \in TaskSet /\ e.payload = Script("timer", id) /\ IsTimer(e)
               /\ u \in Seq(TaskSet) /\ Len(u) = Len(timers) + 1
               /\ Elements(u) = Elements(timers) \cup {e}
               /\ \A K : Count(u, K) = Count(timers, K) + IF e \in K THEN 1 ELSE 0
               /\ InOrder(ByDeadline, ready \o u)
<1>1. PICK e : e = Scheduled(Script("timer", id), now + Delay[id])
  OBVIOUS
<1>2. /\ e \in TaskSet /\ e.payload = Script("timer", id) /\ IsTimer(e)
      /\ e.deadline = now + Delay[id] /\ Delay[id] \in Nat /\ now \in Nat
  <2>1. id \in Timers /\ id \in Nat /\ now \in Nat
    BY PageAssumption DEF TimersInv, StateOk, Timers
  <2>2. Delay[id] \in Nat
    BY <2>1, PageAssumption
  <2>3. Script("timer", id) \in ScriptSet
    BY <2>1 DEF Script, ScriptSet, ScriptTypes
  <2>4. now + Delay[id] \in Nat
    BY <2>1, <2>2
  <2>5. /\ e \in TaskSet /\ e.payload = Script("timer", id) /\ e.deadline = now + Delay[id]
    BY <1>1, <2>3, <2>4 DEF Scheduled, TaskSet
  <2>6. IsTimer(e)
    BY <2>5 DEF IsTimer, Script
  <2> QED  BY <2>1, <2>2, <2>5, <2>6
<1>3. /\ ready \in Seq(TaskSet) /\ timers \in Seq(TaskSet)
      /\ InOrder(ByDeadline, ready) /\ InOrder(ByDeadline, timers)
      /\ \A x \in Elements(ready), y \in Elements(timers) : <<x, y>> \in ByDeadline
  BY ConcatCounts DEF TimersInv, StateOk, DeadlinesOk
<1>4. TimerQueue(timers)
  BY <1>3 DEF TimerQueue, TimersInv, NamesOk
<1>5. DueBy(now + Delay[id]) = DueIn(timers, e.deadline)
  BY <1>2 DEF DueBy, DueIn
<1>7. PICK u : u = Placed(timers, e)
  OBVIOUS
<1>8. u = Armed(Script("timer", id), Delay[id])
  BY <1>1, <1>2, <1>5, <1>7 DEF Armed, Due, NotDue, Placed
<1>9. /\ TimerQueue(u) /\ Len(u) = Len(timers) + 1
      /\ Elements(u) = Elements(timers) \cup {e}
      /\ \A K : Count(u, K) = Count(timers, K) + IF e \in K THEN 1 ELSE 0
  BY <1>2, <1>4, <1>7, PlacedInOrder
<1>10. \A x \in Elements(ready) : <<x, e>> \in ByDeadline
  <2> TAKE x \in Elements(ready)
  <2>1. x \in TaskSet /\ x.deadline <= now
    BY <1>3, ElementsIn DEF TimersInv, DeadlinesOk
  <2>2. x.deadline \in Nat /\ x.deadline <= e.deadline
    BY <1>2, <2>1 DEF TaskSet
  <2> QED  BY <1>2, <2>1, <2>2 DEF ByDeadline
<1>11. \A x \in Elements(ready), y \in Elements(u) : <<x, y>> \in ByDeadline
  BY <1>3, <1>9, <1>10
<1>12. u \in Seq(TaskSet) /\ InOrder(ByDeadline, u)
  BY <1>9 DEF TimerQueue
<1>13. InOrder(ByDeadline, ready \o u)
  BY <1>3, <1>11, <1>12, ConcatCounts
<1> QED  BY <1>1, <1>2, <1>8, <1>9, <1>12, <1>13

(* How an armed timer is counted.                                            *)
LEMMA ArmedCounts ==
    ASSUME TimersInv, NEW n \in 1..created,
           NEW u, u = Armed(Script("timer", n), Delay[n])
    PROVE  \A id : /\ CountIn(id, u) = CountIn(id, timers) + IF id = n THEN 1 ELSE 0
                   /\ CountIn(id, timers) \in Nat
<1>1. PICK e : e = Scheduled(Script("timer", n), now + Delay[n])
  OBVIOUS
<1>2. /\ e \in TaskSet /\ e.payload = Script("timer", n) /\ u \in Seq(TaskSet)
      /\ \A K : Count(u, K) = Count(timers, K) + IF e \in K THEN 1 ELSE 0
  BY <1>1, ArmedIs
<1>3. timers \in Seq(TaskSet)
  BY DEF TimersInv, StateOk
<1>4. ASSUME NEW id
      PROVE  e \in TimerTasks(id) <=> id = n
  BY <1>2 DEF TimerTasks, Script
<1> QED  BY <1>2, <1>3, <1>4, CountsAre, CountType

(* The queues of the loop after a timer has been armed.                      *)
LEMMA ArmedKeeps ==
    ASSUME TimersInv, HasTimerCapacity, NEW n \in 1..created,
           timers' = Armed(Script("timer", n), Delay[n]),
           UNCHANGED <<ready, now, bytes>>
    PROVE  timers' \in Seq(TaskSet) /\ DeadlinesOk' /\ LengthsOk'
<1>1. /\ timers' \in Seq(TaskSet) /\ Len(timers') = Len(timers) + 1
      /\ InOrder(ByDeadline, ready \o timers')
  BY ArmedIs
<1>2. DeadlinesOk'
  BY <1>1 DEF TimersInv, DeadlinesOk, Elements
<1>3. Len(ready) \in Nat /\ Len(timers) \in Nat
  BY LenProperties DEF TimersInv, StateOk
<1>4. LengthsOk'
  BY <1>1, <1>3, LimitsAssumption
  DEF TimersInv, LengthsOk, HasTimerCapacity, HasTaskCapacity, TasksIn
<1> QED  BY <1>1, <1>2, <1>4

(* A repeating timer is armed again once its script has run, or lost.        *)
LEMMA RearmStep ==
    ASSUME TimersInv, Rearm
    PROVE  TimersInv'
<1>1. PICK n : n = current.id
  OBVIOUS
<1>2. n \in table /\ n \in Intervals /\ n \in 1..created /\ current = Script("timer", n)
  BY <1>1 DEF Rearm, Rearms, TimersInv, StateOk, Script, ScriptSet
<1>3. /\ Running /\ pc' = "flush" /\ ~Running'
      /\ UNCHANGED <<now, wall, ready, current, bytes, table, created, requests, fed, stranded>>
  BY DEF Rearm, runtimeVars, countVars, Running
<1>4. \A id : Fires(id) = (IF id = n THEN 1 ELSE 0) /\ Fires(id)' = 0
  BY <1>2, <1>3 DEF Fires, Script
<1>5. \A id : /\ Asked(id) \in Nat /\ CountIn(id, ready) \in Nat /\ CountIn(id, timers) \in Nat
              /\ Asked(id)' = Asked(id) /\ CountIn(id, ready)' = CountIn(id, ready)
  BY <1>3, CountsAreNumbers DEF Asked, CountIn, TimersInv
<1>6. RepeatsOk'
  BY <1>3 DEF RepeatsOk
<1>7. CASE HasTimerCapacity
  <2>1. timers' = Armed(Script("timer", n), Delay[n]) /\ UNCHANGED lost
    BY <1>1, <1>2, <1>7 DEF Rearm
  <2>2. timers' \in Seq(TaskSet) /\ DeadlinesOk' /\ LengthsOk'
    BY <1>2, <1>3, <1>7, <2>1, ArmedKeeps
  <2>3. StateOk'
    BY <1>3, <2>1, <2>2 DEF TimersInv, StateOk, Running, Counters
  <2>4. PICK e : e.payload = Script("timer", n) /\ IsTimer(e) /\
                 Elements(timers') = Elements(timers) \cup {e}
    BY <1>2, <2>1, ArmedIs
  <2>5. NamesOk'
    BY <1>2, <1>3, <2>4 DEF TimersInv, NamesOk, Script
  <2>6. CancelsOk'
    BY <1>2, <1>3, <2>4 DEF TimersInv, CancelsOk, Script
  <2>7. PlacesOk'
    <3> SUFFICES ASSUME NEW id \in table
                 PROVE  Places(id)' = IF id \in lost THEN 0 ELSE 1
      BY <1>3, <2>1 DEF PlacesOk
    <3>1. CountIn(id, timers') = CountIn(id, timers) + IF id = n THEN 1 ELSE 0
      BY <1>2, <2>1, ArmedCounts
    <3>2. CountIn(id, timers)' = CountIn(id, timers')
      BY DEF CountIn
    <3>3. Places(id)' = Places(id)
      BY <1>4, <1>5, <3>1, <3>2 DEF Places
    <3> QED  BY <3>3 DEF TimersInv, PlacesOk
  <2> QED  BY <1>6, <2>2, <2>3, <2>5, <2>6, <2>7 DEF TimersInv
<1>8. CASE ~HasTimerCapacity
  <2>1. timers' = timers /\ lost' = lost \cup {n}
    BY <1>1, <1>8 DEF Rearm
  <2>2. StateOk'
    BY <1>2, <1>3, <2>1 DEF TimersInv, StateOk, Running, Counters
  <2>3. NamesOk' /\ DeadlinesOk' /\ LengthsOk' /\ CancelsOk'
    BY <1>3, <2>1 DEF TimersInv, NamesOk, DeadlinesOk, LengthsOk, CancelsOk, TasksIn, Elements
  <2>4. PlacesOk'
    <3> SUFFICES ASSUME NEW id \in table
                 PROVE  Places(id)' = IF id \in lost' THEN 0 ELSE 1
      BY <1>3 DEF PlacesOk
    <3>1. CountIn(id, timers)' = CountIn(id, timers)
      BY <2>1 DEF CountIn
    <3>2. Places(id) = IF id \in lost THEN 0 ELSE 1
      BY DEF TimersInv, PlacesOk
    <3> QED  BY <1>4, <1>5, <2>1, <3>1, <3>2 DEF Places
  <2> QED  BY <1>6, <2>2, <2>3, <2>4 DEF TimersInv
<1> QED  BY <1>7, <1>8

------------------------------------------------------------------------------
(* Timers: the requests of a script, one by one.                             *)

(* What is left of the requests behind the first one.                        *)
LEMMA FirstRequest ==
    ASSUME StateOk, requests # <<>>
    PROVE  /\ Request \in RequestSet /\ Request \in Elements(requests)
           /\ Tail(requests) \in Seq(RequestSet)
           /\ Elements(requests) = {Request} \cup Elements(Tail(requests))
           /\ requests[1] = Request /\ 1 \in DOMAIN requests
           /\ \A i \in DOMAIN Tail(requests) :
                /\ i \in Nat /\ i + 1 \in DOMAIN requests
                /\ Tail(requests)[i] = requests[i + 1]
           /\ \A i \in DOMAIN requests :
                /\ i \in Nat
                /\ i # 1 => /\ i - 1 \in DOMAIN Tail(requests)
                            /\ requests[i] = Tail(requests)[i - 1]
           /\ \A K : Count(requests, K)
                       = Count(Tail(requests), K) + IF Request \in K THEN 1 ELSE 0
<1>1. requests \in Seq(RequestSet)
  BY DEF StateOk
<1>2. \A i \in DOMAIN requests : i \in Nat
  BY <1>1, LenProperties
<1>3. /\ Head(requests) \in RequestSet
      /\ Tail(requests) \in Seq(RequestSet)
      /\ Head(requests) = requests[1] /\ 1 \in DOMAIN requests
      /\ \A i \in DOMAIN requests :
           i = 1 \/ (i - 1 \in DOMAIN Tail(requests) /\ requests[i] = Tail(requests)[i - 1])
      /\ \A i \in DOMAIN Tail(requests) :
           i \in Nat /\ i + 1 \in DOMAIN requests /\ Tail(requests)[i] = requests[i + 1]
      /\ Elements(requests) = {Head(requests)} \cup Elements(Tail(requests))
  BY <1>1, PopProperties
<1>4. \A K : Count(requests, K)
               = Count(Tail(requests), K) + IF Head(requests) \in K THEN 1 ELSE 0
  BY <1>1, PopCount
<1> QED  BY <1>2, <1>3, <1>4 DEF Request

(* A Cancel that comes behind a request is still behind it, or is the next,  *)
(* once the first request is gone.                                           *)
LEMMA CancelsBehind ==
    ASSUME StateOk, CancelsOk, requests # <<>>,
           NEW i \in DOMAIN Tail(requests), Tail(requests)[i].type = "schedule"
    PROVE  \/ Tail(requests)[i].id \in table
           \/ \E j \in DOMAIN Tail(requests) :
                j > i /\ Tail(requests)[j] = Cancel(Tail(requests)[i].id)
<1>1. i \in Nat /\ i + 1 \in DOMAIN requests /\ Tail(requests)[i] = requests[i + 1]
  BY FirstRequest
<1>2. \/ requests[i + 1].id \in table
      \/ \E j \in DOMAIN requests : j > i + 1 /\ requests[j] = Cancel(requests[i + 1].id)
  BY <1>1 DEF CancelsOk
<1>3. ASSUME NEW j \in DOMAIN requests, j > i + 1
      PROVE  /\ j - 1 \in DOMAIN Tail(requests) /\ j - 1 > i
             /\ requests[j] = Tail(requests)[j - 1]
  BY <1>1, <1>3, FirstRequest
<1> QED  BY <1>1, <1>2, <1>3

(* A request that the loop accepts becomes an armed timer.                   *)
LEMMA FlushScheduleStep ==
    ASSUME TimersInv, FlushSchedule
    PROVE  TimersInv'
<1>1. StateOk /\ requests # <<>> /\ Request.type = "schedule" /\ HasTimerCapacity
  BY DEF FlushSchedule, Flushing, TimersInv
<1>2. PICK n, q : n = Request.id /\ q = Tail(requests)
  OBVIOUS
<1>3. Request = Schedule(n) /\ n \in 1..created
  BY <1>1, <1>2, FirstRequest DEF TimersInv, NamesOk, RequestSet, Schedule
<1>4. /\ requests' = q /\ timers' = Armed(Script("timer", n), Delay[n])
      /\ UNCHANGED <<now, wall, ready, pc, current, bytes, table, created, fed, lost, stranded>>
  BY <1>2 DEF FlushSchedule, countVars, histVars
<1>5. ~Running /\ ~Running'
  BY <1>4 DEF FlushSchedule, Flushing, Running
<1>6. timers' \in Seq(TaskSet) /\ DeadlinesOk' /\ LengthsOk'
  BY <1>1, <1>3, <1>4, ArmedKeeps
<1>7. /\ q \in Seq(RequestSet) /\ Elements(requests) = {Request} \cup Elements(q)
      /\ \A K : Count(requests, K) = Count(q, K) + IF Request \in K THEN 1 ELSE 0
  BY <1>1, <1>2, FirstRequest
<1>8. StateOk'
  BY <1>4, <1>6, <1>7 DEF TimersInv, StateOk, Running
<1>9. PICK e : e.payload = Script("timer", n) /\ IsTimer(e) /\
               Elements(timers') = Elements(timers) \cup {e}
  BY <1>3, <1>4, ArmedIs
<1>10. NamesOk'
  BY <1>3, <1>4, <1>7, <1>9 DEF TimersInv, NamesOk, Script
<1>11. RepeatsOk'
  BY <1>5 DEF RepeatsOk
<1>12. PlacesOk'
  <2> SUFFICES ASSUME NEW id \in table
               PROVE  Places(id)' = IF id \in lost THEN 0 ELSE 1
    BY <1>4 DEF PlacesOk
  <2>1. CountIn(id, timers') = CountIn(id, timers) + IF id = n THEN 1 ELSE 0
    BY <1>3, <1>4, ArmedCounts
  <2>2. CountIn(id, timers)' = CountIn(id, timers') /\ CountIn(id, ready)' = CountIn(id, ready)
    BY <1>4 DEF CountIn
  <2>3. Asked(id) = Asked(id)' + IF id = n THEN 1 ELSE 0
    <3>1. Schedule(n) \in {Schedule(id)} <=> id = n
      BY DEF Schedule
    <3> QED  BY <1>3, <1>4, <1>7, <3>1, AskedIs
  <2>4. Asked(id)' \in Nat
    BY <1>4, <1>7, AskedIs, CountType
  <2>5. CountIn(id, ready) \in Nat /\ CountIn(id, timers) \in Nat
    BY <1>1, CountsAreNumbers
  <2>6. Fires(id) = 0 /\ Fires(id)' = 0
    BY <1>5 DEF Fires
  <2>7. Places(id)' = Places(id)
    BY <2>1, <2>2, <2>3, <2>4, <2>5, <2>6 DEF Places
  <2> QED  BY <2>7 DEF TimersInv, PlacesOk
<1>13. CancelsOk'
  <2>1. \A r \in Elements(requests') : r.type = "cancel" => r.id \notin table'
    BY <1>4, <1>7 DEF TimersInv, CancelsOk
  <2>2. ASSUME NEW i \in DOMAIN q, q[i].type = "schedule"
        PROVE  q[i].id \in table \/ \E j \in DOMAIN q : j > i /\ q[j] = Cancel(q[i].id)
    BY <1>1, <1>2, <2>2, CancelsBehind DEF TimersInv
  <2>3. ASSUME NEW t \in Elements(timers')
        PROVE  \/ t.payload.id \in table
               \/ Cancel(t.payload.id) \in Elements(q)
               \/ t.payload.id \in stranded
    <3>1. CASE t \in Elements(timers)
      <4>1. Cancel(t.payload.id) # Request
        BY <1>3 DEF Cancel, Schedule
      <4> QED  BY <1>7, <3>1, <4>1 DEF TimersInv, CancelsOk
    <3>2. CASE t = e
      <4>1. t.payload.id = n
        BY <1>9, <3>2 DEF Script
      <4>2. \/ n \in table
            \/ \E j \in DOMAIN requests : j > 1 /\ requests[j] = Cancel(n)
        <5>1. requests[1] = Request /\ 1 \in DOMAIN requests
          BY <1>1, FirstRequest
        <5> QED  BY <1>1, <1>2, <5>1 DEF TimersInv, CancelsOk
      <4>3. ASSUME NEW j \in DOMAIN requests, j > 1
            PROVE  requests[j] \in Elements(q)
        <5>1. j - 1 \in DOMAIN q /\ requests[j] = q[j - 1]
          BY <1>1, <1>2, <4>3, FirstRequest
        <5> QED  BY <5>1 DEF Elements
      <4> QED  BY <4>1, <4>2, <4>3
    <3> QED  BY <1>9, <3>1, <3>2
  <2> QED  BY <1>4, <2>1, <2>2, <2>3 DEF CancelsOk
<1> QED  BY <1>6, <1>8, <1>10, <1>11, <1>12, <1>13 DEF TimersInv

(* Requests that the loop refuses are lost, and the Cancels that go with     *)
(* them leave their timers stranded.                                         *)
LEMMA FlushRefusedStep ==
    ASSUME TimersInv, FlushRefused
    PROVE  TimersInv'
<1>1. StateOk /\ requests # <<>> /\ Request.type = "schedule"
  BY DEF FlushRefused, Flushing, TimersInv
<1>2. PICK n : n = Request.id
  OBVIOUS
<1>3. Request = Schedule(n) /\ n \in 1..created
  BY <1>1, <1>2, FirstRequest DEF TimersInv, NamesOk, RequestSet, Schedule
<1>4. UNCHANGED <<now, wall, ready, timers, pc, current, bytes, table, created, fed>>
  BY DEF FlushRefused, countVars, loopVars
<1>5. ~Running /\ ~Running'
  BY <1>4 DEF FlushRefused, Flushing, Running
<1>6. requests \in Seq(RequestSet) /\ Len(requests) \in Nat
  BY <1>1, LenProperties DEF StateOk
<1>7. PICK dropped :
        /\ lost' = lost \cup {r.id : r \in {q \in dropped : q.type = "schedule"}}
        /\ stranded' = stranded \cup {r.id : r \in {q \in dropped : q.type = "cancel"}}
        /\ requests' \in Seq(RequestSet)
        /\ Request \in dropped
        /\ Elements(requests) = dropped \cup Elements(requests')
        /\ \/ requests' = Tail(requests) /\ dropped = {Request}
           \/ requests' = <<>>
  <2>1. CASE current.type \in Settlement
    <3>1. PICK q, d : q = Tail(requests) /\ d = FirstOf(requests, Len(requests) - Len(q))
      OBVIOUS
    <3>2. /\ requests' = q
          /\ lost' = lost \cup {r.id : r \in {x \in Elements(d) : x.type = "schedule"}}
          /\ stranded' = stranded \cup {r.id : r \in {x \in Elements(d) : x.type = "cancel"}}
      BY <2>1, <3>1 DEF FlushRefused, Refused
    <3>3. q \in Seq(RequestSet) /\ Len(q) = Len(requests) - 1
      BY <1>1, <1>6, <3>1, PopProperties
    <3>4. Len(requests) - Len(q) = 1 /\ 1 \in 0..Len(requests)
      <4>1. Len(requests) # 0
        BY <1>1, <1>6, EmptySeq
      <4> QED  BY <1>6, <3>3, <4>1
    <3>5. d \in Seq(RequestSet) /\ Len(d) = 1 /\ d[1] = requests[1]
      <4>1. d = FirstOf(requests, 1)
        BY <3>1, <3>4
      <4>2. FirstOf(requests, 1) \in Seq(RequestSet) /\ Len(FirstOf(requests, 1)) = 1
        BY <1>6, <3>4, CutCount
      <4>3. \A i \in 1..1 : FirstOf(requests, 1)[i] = requests[i]
        BY <1>6, <3>4, CutCount
      <4> QED  BY <4>1, <4>2, <4>3
    <3>6. Elements(d) = {Request}
      <4>1. DOMAIN d = {1}
        BY <3>5, LenProperties
      <4>2. requests[1] = Request
        BY <1>1, FirstRequest
      <4> QED  BY <3>5, <4>1, <4>2 DEF Elements
    <3>7. Elements(requests) = {Request} \cup Elements(q)
      BY <1>1, <3>1, FirstRequest
    <3> QED  BY <3>1, <3>2, <3>3, <3>6, <3>7
  <2>2. CASE current.type \notin Settlement
    <3>1. PICK d : d = FirstOf(requests, Len(requests) - Len(<<>>))
      OBVIOUS
    <3>2. /\ requests' = <<>>
          /\ lost' = lost \cup {r.id : r \in {x \in Elements(d) : x.type = "schedule"}}
          /\ stranded' = stranded \cup {r.id : r \in {x \in Elements(d) : x.type = "cancel"}}
      BY <2>2, <3>1 DEF FlushRefused, Refused
    <3>3. d = requests
      <4>1. Len(requests) - Len(<<>>) = Len(requests)
        BY <1>6
      <4> QED  BY <1>6, <3>1, <4>1, SubSeqFull DEF FirstOf
    <3>4. Elements(<<>>) = {}
      BY DEF Elements
    <3>5. Request \in Elements(requests)
      BY <1>1, FirstRequest
    <3>6. <<>> \in Seq(RequestSet)
      BY EmptySeq
    <3> QED  BY <3>2, <3>3, <3>4, <3>5, <3>6
  <2> QED  BY <2>1, <2>2
<1>8. Elements(requests') \subseteq Elements(requests) /\ dropped \subseteq Elements(requests)
  BY <1>7
<1>9. StateOk'
  <2>1. lost' \subseteq 1..created
    BY <1>7, <1>8 DEF TimersInv, StateOk, NamesOk
  <2> QED  BY <1>4, <1>7, <2>1 DEF TimersInv, StateOk, Running
<1>10. NamesOk'
  BY <1>4, <1>8 DEF TimersInv, NamesOk
<1>11. DeadlinesOk' /\ LengthsOk'
  BY <1>4 DEF TimersInv, DeadlinesOk, LengthsOk, TasksIn, Elements
<1>12. RepeatsOk'
  BY <1>5 DEF RepeatsOk
<1>13. PlacesOk'
  <2> SUFFICES ASSUME NEW id \in table
               PROVE  Places(id)' = IF id \in lost' THEN 0 ELSE 1
    BY <1>4 DEF PlacesOk
  <2>1. /\ Asked(id) \in Nat /\ CountIn(id, ready) \in Nat /\ CountIn(id, timers) \in Nat
        /\ Places(id) = IF id \in lost THEN 0 ELSE 1
    BY <1>1, CountsAreNumbers DEF TimersInv, PlacesOk
  <2>2. /\ CountIn(id, timers)' = CountIn(id, timers) /\ CountIn(id, ready)' = CountIn(id, ready)
        /\ Fires(id) = 0 /\ Fires(id)' = 0
    BY <1>4, <1>5 DEF CountIn, Fires
  <2>3. Asked(id)' \in Nat
    BY <1>7, AskedIs, CountType
  <2>4. Asked(id) # 0 <=> Schedule(id) \in Elements(requests)
    <3>1. Count(requests, {Schedule(id)}) = 0
            <=> \A x \in Elements(requests) : x \notin {Schedule(id)}
      BY <1>6, CountType
    <3>2. Asked(id) = Count(requests, {Schedule(id)})
      BY AskedIs
    <3> QED  BY <3>1, <3>2
  <2>5. id \in lost' <=> id \in lost \/ Schedule(id) \in dropped
    <3>1. ASSUME NEW r \in dropped, r.type = "schedule"
          PROVE  r = Schedule(r.id)
      BY <1>6, <1>8, <3>1, ElementsIn DEF RequestSet, Schedule
    <3>2. Schedule(id).type = "schedule" /\ Schedule(id).id = id
      BY DEF Schedule
    <3> QED  BY <1>7, <3>1, <3>2
  <2>6. Asked(id)' = IF Schedule(id) \in dropped THEN Asked(id)' ELSE Asked(id)
    <3> SUFFICES ASSUME Schedule(id) \notin dropped PROVE Asked(id)' = Asked(id)
      OBVIOUS
    <3>1. CASE requests' = Tail(requests)
      <4>1. Request # Schedule(id)
        BY <1>7
      <4>2. Count(requests, {Schedule(id)}) = Count(Tail(requests), {Schedule(id)})
        <5>1. Count(Tail(requests), {Schedule(id)}) \in Nat
          BY <1>7, <3>1, CountType
        <5>2. Request \notin {Schedule(id)}
          BY <4>1
        <5> QED  BY <1>1, <5>1, <5>2, FirstRequest
      <4> QED  BY <3>1, <4>2, AskedIs
    <3>2. CASE requests' = <<>>
      <4>1. Elements(requests') = {}
        BY <3>2 DEF Elements
      <4>2. Asked(id) = 0
        BY <1>7, <2>1, <2>4, <4>1
      <4>3. Asked(id)' = 0
        BY <1>7, <4>1, AskedIs, CountType
      <4> QED  BY <4>2, <4>3
    <3> QED  BY <1>7, <3>1, <3>2
  <2>7. Schedule(id) \in dropped => Asked(id)' < Asked(id)
    <3> SUFFICES ASSUME Schedule(id) \in dropped PROVE Asked(id)' < Asked(id)
      OBVIOUS
    <3>1. CASE requests' = Tail(requests) /\ dropped = {Request}
      <4>1. Request \in {Schedule(id)}
        BY <3>1
      <4>2. Count(requests, {Schedule(id)}) = Count(Tail(requests), {Schedule(id)}) + 1
        BY <1>1, <4>1, FirstRequest
      <4> QED  BY <2>1, <2>3, <3>1, <4>2, AskedIs
    <3>2. CASE requests' = <<>>
      <4>1. Elements(requests') = {}
        BY <3>2 DEF Elements
      <4>2. Asked(id)' = 0
        BY <1>7, <4>1, AskedIs, CountType
      <4>3. Asked(id) # 0
        BY <1>8, <2>4
      <4> QED  BY <2>1, <4>2, <4>3
    <3> QED  BY <1>7, <3>1, <3>2
  <2>8. Places(id)' = Asked(id)' + CountIn(id, timers) + CountIn(id, ready)
    BY <2>1, <2>2, <2>3 DEF Places
  <2>9. Places(id) = Asked(id) + CountIn(id, timers) + CountIn(id, ready)
    BY <2>1, <2>2 DEF Places
  <2>10. CASE Schedule(id) \in dropped
    BY <2>1, <2>3, <2>5, <2>7, <2>8, <2>9, <2>10
  <2>11. CASE Schedule(id) \notin dropped
    BY <2>1, <2>5, <2>6, <2>8, <2>9, <2>11
  <2> QED  BY <2>10, <2>11
<1>14. CancelsOk'
  <2>1. \A r \in Elements(requests') : r.type = "cancel" => r.id \notin table
    BY <1>8 DEF TimersInv, CancelsOk
  <2>2. ASSUME NEW i \in DOMAIN requests', requests'[i].type = "schedule"
        PROVE  \/ requests'[i].id \in table
               \/ \E j \in DOMAIN requests' :
                    j > i /\ requests'[j] = Cancel(requests'[i].id)
    <3>1. requests' = Tail(requests)
      BY <1>7, <2>2
    <3> QED  BY <1>1, <2>2, <3>1, CancelsBehind DEF TimersInv
  <2>3. ASSUME NEW t \in Elements(timers)
        PROVE  \/ t.payload.id \in table
               \/ Cancel(t.payload.id) \in Elements(requests')
               \/ t.payload.id \in stranded'
    <3>1. CASE Cancel(t.payload.id) \in dropped
      <4>1. Cancel(t.payload.id).type = "cancel" /\ Cancel(t.payload.id).id = t.payload.id
        BY DEF Cancel
      <4> QED  BY <1>7, <3>1, <4>1
    <3>2. CASE Cancel(t.payload.id) \notin dropped
      BY <1>7, <3>2 DEF TimersInv, CancelsOk
    <3> QED  BY <3>1, <3>2
  <2> QED  BY <1>4, <2>1, <2>2, <2>3 DEF CancelsOk
<1> QED  BY <1>9, <1>10, <1>11, <1>12, <1>13, <1>14 DEF TimersInv


(* A Cancel disarms its timer and no other.                                  *)
LEMMA FlushCancelStep ==
    ASSUME TimersInv, FlushCancel
    PROVE  TimersInv'
<1>1. /\ StateOk /\ requests # <<>> /\ Request.type = "cancel"
      /\ ready \in Seq(TaskSet) /\ timers \in Seq(TaskSet)
  BY DEF FlushCancel, Flushing, TimersInv, StateOk
<1>2. PICK n, q : n = Request.id /\ q = Tail(requests)
  OBVIOUS
<1>3. Request = Cancel(n) /\ n \notin table
  BY <1>1, <1>2, FirstRequest DEF TimersInv, CancelsOk, RequestSet, Cancel
<1>4. PICK keep : keep = {t \in Elements(timers) : t.payload # Script("timer", n)}
  OBVIOUS
<1>5. /\ requests' = q /\ timers' = Retain(timers, keep)
      /\ UNCHANGED <<now, wall, ready, pc, current, bytes, table, created, fed, lost, stranded>>
  BY <1>2, <1>4 DEF FlushCancel, Disarmed, countVars, histVars
<1>6. ~Running /\ ~Running'
  BY <1>5 DEF FlushCancel, Flushing, Running
<1>7. /\ timers' \in Seq(TaskSet) /\ Len(timers') <= Len(timers)
      /\ Elements(timers') = Elements(timers) \cap keep
  BY <1>1, <1>5, RetainProperties
<1>8. /\ \A K : Count(timers', K) = Count(timers, keep \cap K)
      /\ \A R : InOrder(R, timers) => InOrder(R, timers')
  BY <1>1, <1>5, RetainCount
<1>9. /\ q \in Seq(RequestSet) /\ Elements(requests) = {Request} \cup Elements(q)
      /\ \A K : Count(requests, K) = Count(q, K) + IF Request \in K THEN 1 ELSE 0
  BY <1>1, <1>2, FirstRequest
<1>10. StateOk'
  BY <1>5, <1>7, <1>9 DEF TimersInv, StateOk, Running
<1>11. NamesOk'
  BY <1>5, <1>7, <1>9 DEF TimersInv, NamesOk
<1>12. RepeatsOk'
  BY <1>6 DEF RepeatsOk
<1>13. DeadlinesOk'
  <2>1. /\ InOrder(ByDeadline, ready) /\ InOrder(ByDeadline, timers)
        /\ \A x \in Elements(ready), y \in Elements(timers) : <<x, y>> \in ByDeadline
    BY <1>1, ConcatCounts DEF TimersInv, DeadlinesOk
  <2>2. \A x \in Elements(ready), y \in Elements(timers') : <<x, y>> \in ByDeadline
    BY <1>7, <2>1
  <2>3. InOrder(ByDeadline, ready \o timers')
    BY <1>1, <1>7, <1>8, <2>1, <2>2, ConcatCounts
  <2> QED  BY <1>5, <2>3 DEF TimersInv, DeadlinesOk, Elements
<1>14. LengthsOk'
  <2>1. Len(ready) \in Nat /\ Len(timers) \in Nat /\ Len(timers') \in Nat
    BY <1>1, <1>7, LenProperties
  <2> QED  BY <1>5, <1>7, <2>1, LimitsAssumption DEF TimersInv, LengthsOk, TasksIn
<1>15. PlacesOk'
  <2> SUFFICES ASSUME NEW id \in table
               PROVE  Places(id)' = IF id \in lost THEN 0 ELSE 1
    BY <1>5 DEF PlacesOk
  <2>1. Count(timers', TimerTasks(id)) = Count(timers, TimerTasks(id))
    <3>1. id # n
      BY <1>3
    <3>2. \A t \in TimerTasks(id) : t.payload # Script("timer", n)
      BY <3>1 DEF TimerTasks, Script
    <3>3. Occurring(timers, keep \cap TimerTasks(id)) = Occurring(timers, TimerTasks(id))
      BY <1>4, <3>2 DEF Occurring, Elements
    <3> QED  BY <1>8, <3>3 DEF Count
  <2>2. CountIn(id, timers') = CountIn(id, timers)
    BY <1>1, <1>7, <2>1, CountsAre
  <2>3. CountIn(id, timers)' = CountIn(id, timers)
    BY <2>2 DEF CountIn
  <2>4. Asked(id)' = Asked(id)
    <3>1. Request \notin {Schedule(id)}
      BY <1>3 DEF Schedule, Cancel
    <3>2. Count(q, {Schedule(id)}) \in Nat
      BY <1>9, CountType
    <3> QED  BY <1>5, <1>9, <3>1, <3>2, AskedIs
  <2>5. Places(id)' = Places(id)
    BY <1>5, <2>3, <2>4 DEF Places, CountIn, Fires, Running
  <2> QED  BY <2>5 DEF TimersInv, PlacesOk
<1>16. CancelsOk'
  <2>1. \A r \in Elements(requests') : r.type = "cancel" => r.id \notin table
    BY <1>5, <1>9 DEF TimersInv, CancelsOk
  <2>2. ASSUME NEW i \in DOMAIN q, q[i].type = "schedule"
        PROVE  q[i].id \in table \/ \E j \in DOMAIN q : j > i /\ q[j] = Cancel(q[i].id)
    BY <1>1, <1>2, <2>2, CancelsBehind DEF TimersInv
  <2>3. ASSUME NEW t \in Elements(timers')
        PROVE  \/ t.payload.id \in table
               \/ Cancel(t.payload.id) \in Elements(q)
               \/ t.payload.id \in stranded
    <3>1. t \in Elements(timers) /\ t \in TaskSet /\ t.payload # Script("timer", n)
      BY <1>1, <1>4, <1>7, ElementsIn
    <3>2. t.payload.type = "timer" /\ t.payload \in ScriptSet
      BY <3>1 DEF TimersInv, NamesOk, IsTimer, TaskSet
    <3>3. t.payload.id # n
      BY <3>1, <3>2 DEF Script, ScriptSet
    <3>4. Cancel(t.payload.id) # Request
      BY <1>3, <3>3 DEF Cancel
    <3> QED  BY <1>9, <3>1, <3>4 DEF TimersInv, CancelsOk
  <2> QED  BY <1>5, <2>1, <2>2, <2>3 DEF CancelsOk
<1> QED  BY <1>10, <1>11, <1>12, <1>13, <1>14, <1>15, <1>16 DEF TimersInv

------------------------------------------------------------------------------
(* Timers: those that leave the loop.                                        *)

(* Promotion and the pop that follows it lose no task but the one popped,    *)
(* promote timers only, and keep the order of the deadlines.                 *)
LEMMA PoppedIs ==
    ASSUME TimersInv, Promoted # <<>>
    PROVE  \E e \in TaskSet, r \in Seq(TaskSet), u \in Seq(TaskSet) :
             /\ e = Head(Promoted) /\ r = Tail(Promoted) /\ u = NotDue(now)
             /\ {e} \cup Elements(r) \cup Elements(u) = Elements(ready) \cup Elements(timers)
             /\ Elements(u) \subseteq Elements(timers) /\ Len(u) <= Len(timers)
             /\ Len(r) + Len(u) + 1 = Len(ready) + Len(timers)
             /\ \A K : Count(r, K) + Count(u, K) + (IF e \in K THEN 1 ELSE 0)
                         = Count(ready, K) + Count(timers, K)
             /\ Count(r, ScriptTasks) + (IF e \in ScriptTasks THEN 1 ELSE 0)
                  = Count(ready, ScriptTasks)
             /\ InOrder(ByDeadline, r \o u)
             /\ \A t \in Elements(r) : t.deadline <= now
<1>1. /\ ready \in Seq(TaskSet) /\ timers \in Seq(TaskSet) /\ now \in Nat
      /\ InOrder(ByDeadline, ready) /\ InOrder(ByDeadline, timers)
      /\ \A x \in Elements(ready), y \in Elements(timers) : <<x, y>> \in ByDeadline
      /\ Len(ready) \in Nat /\ Len(timers) \in Nat
  BY ConcatCounts, LenProperties DEF TimersInv, StateOk, DeadlinesOk
<1>2. TimerQueue(timers)
  BY <1>1 DEF TimerQueue, TimersInv, NamesOk
<1>3. PICK n \in 0..Len(timers) : n = DueIn(timers, now) /\ n = DueBy(now)
  BY <1>1, <1>2, DueAreFirst DEF DueIn, DueBy
<1>4. PICK d \in Seq(TaskSet), u \in Seq(TaskSet) :
        d = FirstOf(timers, n) /\ u = Behind(timers, n)
  BY <1>1, CutCount
<1>5. /\ Len(d) = n /\ Len(u) = Len(timers) - n
      /\ Elements(timers) = Elements(d) \cup Elements(u)
  BY <1>1, <1>4, CutCount
<1>6. \A K : Count(timers, K) = Count(d, K) + Count(u, K)
  BY <1>1, <1>4, CutCount
<1>7. /\ InOrder(ByDeadline, d) /\ InOrder(ByDeadline, u)
      /\ \A x \in Elements(d), y \in Elements(u) : <<x, y>> \in ByDeadline
  BY <1>1, <1>4, CutCount
<1>8. \A x \in Elements(d) : x.deadline <= now
  BY <1>1, <1>2, <1>3, <1>4, DueAreFirst
<1>9. PICK p : p = ready \o d
  OBVIOUS
<1>10. p = Promoted /\ u = NotDue(now)
  BY <1>3, <1>4, <1>9 DEF Promoted, Due, NotDue
<1>11. p \in Seq(TaskSet) /\ Elements(p) = Elements(ready) \cup Elements(d)
  BY <1>1, <1>9, ConcatCounts
<1>12. Len(p) = Len(ready) + n
  BY <1>1, <1>5, <1>9, ConcatCounts
<1>13. \A K : Count(p, K) = Count(ready, K) + Count(d, K)
  BY <1>1, <1>9, ConcatCounts
<1>14. InOrder(ByDeadline, p)
  BY <1>1, <1>5, <1>7, <1>9, ConcatCounts
<1>15. PICK e, r : e = Head(p) /\ r = Tail(p)
  OBVIOUS
<1>16. /\ e \in TaskSet /\ r \in Seq(TaskSet) /\ Len(r) = Len(p) - 1
       /\ Elements(p) = {e} \cup Elements(r)
  BY <1>10, <1>11, <1>15, PopProperties
<1>17. \A K : Count(p, K) = Count(r, K) + IF e \in K THEN 1 ELSE 0
  BY <1>10, <1>11, <1>15, PopCount
<1>18. InOrder(ByDeadline, r)
  BY <1>10, <1>11, <1>14, <1>15, PopCount
<1>19. \A x \in Elements(r), y \in Elements(u) : <<x, y>> \in ByDeadline
  BY <1>1, <1>5, <1>7, <1>11, <1>16
<1>20. InOrder(ByDeadline, r \o u)
  BY <1>4, <1>7, <1>16, <1>18, <1>19, ConcatCounts
<1>21. {e} \cup Elements(r) \cup Elements(u) = Elements(ready) \cup Elements(timers)
  BY <1>5, <1>11, <1>16
<1>22. Elements(u) \subseteq Elements(timers) /\ Len(u) <= Len(timers)
  BY <1>1, <1>5
<1>23. Len(r) + Len(u) + 1 = Len(ready) + Len(timers)
  BY <1>1, <1>5, <1>12, <1>16
<1>24. ASSUME NEW K
       PROVE  Count(r, K) + Count(u, K) + (IF e \in K THEN 1 ELSE 0)
                = Count(ready, K) + Count(timers, K)
  <2>1. /\ Count(r, K) \in Nat /\ Count(u, K) \in Nat /\ Count(d, K) \in Nat
        /\ Count(ready, K) \in Nat
    BY <1>1, <1>4, <1>16, CountType
  <2>2. PICK b \in {0, 1} : b = IF e \in K THEN 1 ELSE 0
    OBVIOUS
  <2>3. Count(p, K) = Count(r, K) + b
    BY <1>17, <2>2
  <2> QED  BY <1>6, <1>13, <2>1, <2>2, <2>3
<1>25. Count(r, ScriptTasks) + (IF e \in ScriptTasks THEN 1 ELSE 0)
         = Count(ready, ScriptTasks)
  <2>1. \A t \in Elements(d) : t \notin ScriptTasks
    BY <1>2, <1>5 DEF TimerQueue, IsTimer, ScriptTasks
  <2>2. Count(d, ScriptTasks) = 0
    BY <1>4, <2>1, CountType
  <2>3. Count(ready, ScriptTasks) \in Nat
    BY <1>1, CountType
  <2> QED  BY <1>13, <1>17, <2>2, <2>3
<1>26. \A t \in Elements(r) : t.deadline <= now
  BY <1>8, <1>11, <1>16 DEF TimersInv, DeadlinesOk
<1> QED  BY <1>4, <1>10, <1>15, <1>16, <1>20, <1>21, <1>22, <1>23, <1>24, <1>25, <1>26

(* A pop keeps the timers in order, if what it takes out of the table is the *)
(* timer popped and what it takes off the bytes is the script popped.        *)
LEMMA PopStep ==
    ASSUME TimersInv, Promoted # <<>>, ~Running,
           ready' = Tail(Promoted), timers' = NotDue(now), current' = Popped,
           UNCHANGED <<now, wall, requests, created, fed, lost, stranded>>,
           table' \subseteq table,
           \A id \in table \ table' : Popped = Script("timer", id),
           bytes' \in Nat,
           bytes = bytes' + IF Popped.type = "task" THEN 1 ELSE 0,
           pc' \in Counters, pc' = "run" => Popped.type \in {"task", "timer"},
           \A id \in table' : Fires(id)' = IF Popped = Script("timer", id) THEN 1 ELSE 0,
           RepeatsOk'
    PROVE  TimersInv'
<1>1. PICK e \in TaskSet :
        /\ e = Head(Promoted)
        /\ ready' \in Seq(TaskSet) /\ timers' \in Seq(TaskSet)
        /\ {e} \cup Elements(ready') \cup Elements(timers') = Elements(ready) \cup Elements(timers)
        /\ Elements(timers') \subseteq Elements(timers) /\ Len(timers') <= Len(timers)
        /\ Len(ready') + Len(timers') + 1 = Len(ready) + Len(timers)
        /\ \A K : Count(ready', K) + Count(timers', K) + (IF e \in K THEN 1 ELSE 0)
                    = Count(ready, K) + Count(timers, K)
        /\ Count(ready', ScriptTasks) + (IF e \in ScriptTasks THEN 1 ELSE 0)
             = Count(ready, ScriptTasks)
        /\ InOrder(ByDeadline, ready' \o timers')
        /\ \A t \in Elements(ready') : t.deadline <= now
  BY PoppedIs
<1>2. /\ e.payload = Popped /\ e.payload \in ScriptSet
      /\ e \in Elements(ready) \cup Elements(timers)
      /\ ready \in Seq(TaskSet) /\ timers \in Seq(TaskSet) /\ requests \in Seq(RequestSet)
  BY <1>1 DEF Popped, TaskSet, TimersInv, StateOk
<1>3. ASSUME NEW id
      PROVE  e \in TimerTasks(id) <=> Popped = Script("timer", id)
  BY <1>2 DEF TimerTasks
<1>4. StateOk'
  BY <1>1, <1>2 DEF TimersInv, StateOk, Running
<1>5. NamesOk'
  <2>1. Elements(ready') \subseteq Elements(ready) \cup Elements(timers)
    BY <1>1
  <2>2. current'.type = "timer" => current'.id \in 1..created
    BY <1>2 DEF TimersInv, NamesOk, IsTimer
  <2> QED  BY <1>1, <2>1, <2>2 DEF TimersInv, NamesOk, Elements
<1>6. DeadlinesOk'
  BY <1>1 DEF DeadlinesOk
<1>7. LengthsOk'
  <2>1. e \in ScriptTasks <=> Popped.type = "task"
    BY <1>2 DEF ScriptTasks
  <2>2. TasksIn(ready') = bytes'
    <3>1. Count(ready', ScriptTasks) \in Nat
      BY <1>1, CountType
    <3>2. bytes = Count(ready, ScriptTasks)
      BY <1>2, CountsAre DEF TimersInv, LengthsOk
    <3>3. PICK b \in {0, 1} : b = IF Popped.type = "task" THEN 1 ELSE 0
      OBVIOUS
    <3>4. Count(ready', ScriptTasks) + b = bytes' + b
      BY <1>1, <2>1, <3>2, <3>3
    <3>5. bytes' = Count(ready', ScriptTasks)
      BY <3>1, <3>4
    <3>6. TasksIn(ready') = Count(ready', ScriptTasks)
      BY <1>1, CountsAre
    <3> QED  BY <3>5, <3>6
  <2>3. /\ Len(ready) \in Nat /\ Len(timers) \in Nat
        /\ Len(ready') \in Nat /\ Len(timers') \in Nat
    BY <1>1, <1>2, LenProperties
  <2>4. bytes <= MaxSourceBytes /\ bytes \in Nat
    BY DEF TimersInv, LengthsOk, StateOk
  <2>5. Len(ready') + Len(timers') <= MaxPendingTasks /\ Len(timers') <= MaxPendingTimers
    BY <1>1, <2>3, LimitsAssumption DEF TimersInv, LengthsOk
  <2>6. bytes' <= MaxSourceBytes
    <3>1. PICK b \in {0, 1} : bytes = bytes' + b
      OBVIOUS
    <3>2. PICK x \in Nat, y \in Nat : x = bytes' /\ y = bytes
      BY <2>4
    <3>3. y = x + b /\ y <= MaxSourceBytes /\ MaxSourceBytes \in Nat
      BY <2>4, <3>1, <3>2, PageAssumption
    <3>4. x <= MaxSourceBytes
      BY <3>3
    <3> QED  BY <3>2, <3>4
  <2> QED  BY <2>2, <2>5, <2>6 DEF LengthsOk, TasksIn
<1>8. ASSUME NEW id
      PROVE  /\ Asked(id)' = Asked(id) /\ Asked(id) \in Nat /\ Fires(id) = 0
             /\ CountIn(id, ready') + CountIn(id, timers')
                  + (IF Popped = Script("timer", id) THEN 1 ELSE 0)
                  = CountIn(id, ready) + CountIn(id, timers)
             /\ CountIn(id, ready) \in Nat /\ CountIn(id, timers) \in Nat
             /\ CountIn(id, ready') \in Nat /\ CountIn(id, timers') \in Nat
  <2>1. Asked(id)' = Asked(id) /\ Fires(id) = 0
    BY DEF Asked, Fires
  <2>2. Asked(id) \in Nat /\ CountIn(id, ready) \in Nat /\ CountIn(id, timers) \in Nat
    BY CountsAreNumbers DEF TimersInv
  <2>3. /\ CountIn(id, ready) = Count(ready, TimerTasks(id))
        /\ CountIn(id, timers) = Count(timers, TimerTasks(id))
        /\ CountIn(id, ready') = Count(ready', TimerTasks(id))
        /\ CountIn(id, timers') = Count(timers', TimerTasks(id))
    BY <1>1, <1>2, CountsAre
  <2>4. CountIn(id, ready') \in Nat /\ CountIn(id, timers') \in Nat
    <3>1. Count(ready', TimerTasks(id)) \in Nat
      BY <1>1, CountType
    <3>2. Count(timers', TimerTasks(id)) \in Nat
      BY <1>1, CountType
    <3> QED  BY <2>3, <3>1, <3>2
  <2>5. Count(ready', TimerTasks(id)) + Count(timers', TimerTasks(id))
          + (IF e \in TimerTasks(id) THEN 1 ELSE 0)
          = Count(ready, TimerTasks(id)) + Count(timers, TimerTasks(id))
    BY <1>1
  <2> QED  BY <1>3, <2>1, <2>2, <2>3, <2>4, <2>5
<1>9. \A id : CountIn(id, ready)' = CountIn(id, ready') /\ CountIn(id, timers)' = CountIn(id, timers')
  BY DEF CountIn
<1>10. PlacesOk'
  <2> SUFFICES ASSUME NEW id \in table'
               PROVE  Places(id)' = IF id \in lost THEN 0 ELSE 1
    BY DEF PlacesOk
  <2>1. PICK b \in {0, 1} : b = IF Popped = Script("timer", id) THEN 1 ELSE 0
    OBVIOUS
  <2>2. Fires(id)' = b
    BY <2>1
  <2>3. CountIn(id, ready') + CountIn(id, timers') + b = CountIn(id, ready) + CountIn(id, timers)
    BY <1>8, <2>1
  <2>4. Places(id)' = Places(id)
    BY <1>8, <1>9, <2>2, <2>3 DEF Places
  <2> QED  BY <2>4 DEF TimersInv, PlacesOk
<1>11. ASSUME NEW id \in table \ table'
       PROVE  Asked(id) = 0 /\ CountIn(id, timers') = 0
  <2>1. CountIn(id, ready') + CountIn(id, timers') + 1 = CountIn(id, ready) + CountIn(id, timers)
    BY <1>8
  <2>2. Places(id) \in {0, 1}
    BY DEF TimersInv, PlacesOk
  <2>3. Places(id) = Asked(id) + CountIn(id, timers) + CountIn(id, ready)
    BY <1>8 DEF Places
  <2> QED  BY <1>8, <2>1, <2>2, <2>3
<1>12. CancelsOk'
  <2>1. \A x \in Elements(requests) : x.type = "cancel" => x.id \notin table'
    BY DEF TimersInv, CancelsOk
  <2>2. ASSUME NEW i \in DOMAIN requests, requests[i].type = "schedule"
        PROVE  \/ requests[i].id \in table'
               \/ \E j \in DOMAIN requests : j > i /\ requests[j] = Cancel(requests[i].id)
    <3>1. requests[i].id \in table => requests[i].id \in table'
      <4> SUFFICES ASSUME requests[i].id \in table \ table' PROVE FALSE
        OBVIOUS
      <4>1. Count(requests, {Schedule(requests[i].id)}) = 0
        BY <1>11, AskedIs
      <4>2. requests[i] \in Elements(requests) /\ requests[i] \in RequestSet
        BY <1>2, ElementsIn DEF Elements
      <4>3. requests[i] = Schedule(requests[i].id)
        BY <2>2, <4>2 DEF RequestSet, Schedule
      <4> QED  BY <1>2, <4>1, <4>2, <4>3, CountType
    <3> QED  BY <2>2, <3>1 DEF TimersInv, CancelsOk
  <2>3. ASSUME NEW t \in Elements(timers')
        PROVE  \/ t.payload.id \in table'
               \/ Cancel(t.payload.id) \in Elements(requests)
               \/ t.payload.id \in stranded
    <3>1. t \in Elements(timers) /\ t \in TaskSet /\ IsTimer(t)
      BY <1>1, ElementsIn DEF TimersInv, NamesOk
    <3>2. t.payload.id \in table => t.payload.id \in table'
      <4> SUFFICES ASSUME t.payload.id \in table \ table' PROVE FALSE
        OBVIOUS
      <4>1. Count(timers', TimerTasks(t.payload.id)) = 0
        BY <1>1, <1>11, CountsAre
      <4>2. t.payload = Script("timer", t.payload.id)
        BY <3>1 DEF IsTimer, TaskSet, ScriptSet, Script
      <4>3. t \in TimerTasks(t.payload.id)
        BY <3>1, <4>2 DEF TimerTasks
      <4> QED  BY <1>1, <4>1, <4>3, CountType
    <3> QED  BY <3>1, <3>2 DEF TimersInv, CancelsOk
  <2> QED  BY <2>1, <2>2, <2>3 DEF CancelsOk, Elements
<1> QED  BY <1>4, <1>5, <1>6, <1>7, <1>10, <1>12 DEF TimersInv

(* The script popped was counted in the bytes, so the saturating subtraction *)
(* takes it off.                                                             *)
LEMMA RunTaskStep ==
    ASSUME TimersInv, RunTask
    PROVE  TimersInv'
<1>1. /\ Promoted # <<>> /\ ~Running /\ Popped.type = "task" /\ pc' = "run"
      /\ ready' = Tail(Promoted) /\ timers' = NotDue(now) /\ current' = Popped
      /\ UNCHANGED <<now, wall, table, created, requests, fed, lost, stranded>>
  BY DEF RunTask, Pop, Popped, Running, countVars, histVars
<1>2. bytes' \in Nat /\ bytes = bytes' + 1
  <2>1. PICK e \in TaskSet, r \in Seq(TaskSet) :
          /\ e = Head(Promoted)
          /\ Count(r, ScriptTasks) + (IF e \in ScriptTasks THEN 1 ELSE 0)
               = Count(ready, ScriptTasks)
    BY <1>1, PoppedIs
  <2>2. e \in ScriptTasks
    BY <1>1, <2>1 DEF ScriptTasks, Popped
  <2>3. Count(r, ScriptTasks) \in Nat
    BY CountType
  <2>4. bytes = Count(ready, ScriptTasks)
    BY CountsAre DEF TimersInv, LengthsOk, StateOk
  <2>5. bytes \in Nat /\ bytes > 0
    BY <2>1, <2>2, <2>3, <2>4
  <2> QED  BY <2>5 DEF RunTask
<1>3. \A id : Popped # Script("timer", id)
  BY <1>1 DEF Script
<1>4. \A id : Fires(id)' = 0
  BY <1>1, <1>3 DEF Fires
<1>5. RepeatsOk'
  BY <1>1 DEF RepeatsOk
<1>6. bytes = bytes' + IF Popped.type = "task" THEN 1 ELSE 0
  BY <1>1, <1>2
<1> QED  BY <1>1, <1>2, <1>3, <1>4, <1>5, <1>6, PopStep DEF Counters

(* What a pop of a timer has in common, whether the timer fires or is dead.  *)
LEMMA PoppedTimer ==
    ASSUME TimersInv, Promoted # <<>>, Popped.type = "timer", bytes' = bytes
    PROVE  /\ Popped = Script("timer", Popped.id)
           /\ bytes' \in Nat /\ bytes = bytes' + IF Popped.type = "task" THEN 1 ELSE 0
<1>1. Head(Promoted) \in TaskSet
  BY PoppedIs
<1>2. Popped \in ScriptSet
  BY <1>1 DEF Popped, TaskSet
<1>3. Popped = Script("timer", Popped.id)
  BY <1>2 DEF ScriptSet, Script
<1>4. bytes' \in Nat /\ bytes = bytes'
  BY DEF TimersInv, StateOk
<1>5. bytes = bytes' + 0
  BY <1>4
<1> QED  BY <1>3, <1>4, <1>5

(* A timer that fires runs once, and is gone from the table unless it repeats. *)
LEMMA FireTimerStep ==
    ASSUME TimersInv, FireTimer
    PROVE  TimersInv'
<1>1. PICK n : n = Popped.id
  OBVIOUS
<1>2. /\ Promoted # <<>> /\ ~Running /\ Popped.type = "timer" /\ n \in table /\ pc' = "run"
      /\ table' = table \ ({n} \ Intervals)
      /\ ready' = Tail(Promoted) /\ timers' = NotDue(now) /\ current' = Popped
      /\ UNCHANGED <<now, wall, bytes, created, requests, fed, lost, stranded>>
  BY <1>1 DEF FireTimer, Pop, Popped, Running, countVars, histVars
<1>3. /\ Popped = Script("timer", n)
      /\ bytes' \in Nat /\ bytes = bytes' + IF Popped.type = "task" THEN 1 ELSE 0
  BY <1>1, <1>2, PoppedTimer
<1>4. \A id : Fires(id)' = IF Popped = Script("timer", id) THEN 1 ELSE 0
  BY <1>2 DEF Fires, Running
<1>5. RepeatsOk'
  BY <1>1, <1>2 DEF RepeatsOk
<1>6. table' \subseteq table /\ \A id \in table \ table' : Popped = Script("timer", id)
  BY <1>2, <1>3
<1> QED  BY <1>2, <1>3, <1>4, <1>5, <1>6, PopStep DEF Counters

(* A timer that is no longer in the table does nothing when it is popped.    *)
LEMMA DeadTimerStep ==
    ASSUME TimersInv, DeadTimer
    PROVE  TimersInv'
<1>1. PICK n : n = Popped.id
  OBVIOUS
<1>2. /\ Promoted # <<>> /\ ~Running /\ Popped.type = "timer" /\ n \notin table /\ pc' = "flush"
      /\ ready' = Tail(Promoted) /\ timers' = NotDue(now) /\ current' = Popped
      /\ UNCHANGED <<now, wall, bytes, table, created, requests, fed, lost, stranded>>
  BY <1>1 DEF DeadTimer, Pop, Popped, Running, countVars, histVars
<1>3. /\ Popped = Script("timer", n)
      /\ bytes' \in Nat /\ bytes = bytes' + IF Popped.type = "task" THEN 1 ELSE 0
  BY <1>1, <1>2, PoppedTimer
<1>4. \A id \in table' : /\ Fires(id)' = 0 /\ Popped # Script("timer", id)
  BY <1>2, <1>3 DEF Fires, Running, Script
<1>5. RepeatsOk'
  BY <1>2 DEF RepeatsOk, Running
<1> QED  BY <1>2, <1>3, <1>4, <1>5, PopStep DEF Counters

------------------------------------------------------------------------------
(* The invariant and the theorems.                                           *)

(* A page starts with nothing queued, armed or asked for.                    *)
LEMMA TurnsStart == Init => TurnsInv
<1> SUFFICES ASSUME Init PROVE TurnsInv
  OBVIOUS
<1>1. /\ now = 0 /\ wall = 0 /\ ready = <<>> /\ timers = <<>> /\ microtasks = <<>>
      /\ requests = <<>> /\ pending = <<>> /\ pc = "idle" /\ current = Nobody
      /\ bytes = 0 /\ fed = 0 /\ created = 0 /\ born = 0 /\ table = {} /\ lost = {}
  BY DEF Init, LoopInit
<1>2. /\ <<>> \in Seq(Nat) /\ <<>> \in Seq(TaskSet) /\ <<>> \in Seq(RequestSet)
      /\ Elements(<<>>) = {} /\ Len(<<>>) = 0 /\ <<>> \o <<>> = <<>>
  BY DEF Elements
<1>3. \A R : InOrder(R, <<>>)
  BY DEF InOrder
<1>4. MicroInv
  BY <1>1, <1>2, <1>3, LimitsAssumption DEF MicroInv
<1>5. StateOk
  <2>1. Nobody \in ScriptSet /\ ~Running
    BY <1>1 DEF Nobody, Script, ScriptSet, Running
  <2> QED  BY <1>1, <1>2, <2>1, PageAssumption DEF StateOk, Counters
<1>6. NamesOk
  BY <1>1, <1>2 DEF NamesOk, Nobody, Script
<1>7. DeadlinesOk
  BY <1>1, <1>2, <1>3 DEF DeadlinesOk
<1>8. LengthsOk
  <2>1. TasksIn(<<>>) = 0
    BY <1>2, CountsAre, CountType
  <2> QED  BY <1>1, <1>2, <2>1, LimitsAssumption, PageAssumption DEF LengthsOk
<1>9. PlacesOk /\ RepeatsOk /\ CancelsOk
  BY <1>1, <1>2 DEF PlacesOk, RepeatsOk, CancelsOk, Running
<1> QED  BY <1>4, <1>5, <1>6, <1>7, <1>8, <1>9 DEF TurnsInv, TimersInv

(* Every step keeps the invariant.                                           *)
LEMMA TurnsStep == TurnsInv /\ [Next]_vars => TurnsInv'
<1> SUFFICES ASSUME MicroInv, TimersInv, [Next]_vars PROVE MicroInv' /\ TimersInv'
  BY DEF TurnsInv
<1>1. MicroInv'
  BY MicroStep
<1>2. CASE Quiet
  BY <1>1, <1>2, QuietSteps
<1>3. CASE Input
  BY <1>1, <1>3, InputStep
<1>4. CASE SetTimer \/ (\E id \in Timers : ClearTimer(id)) \/ Rearm
  BY <1>1, <1>4, SetTimerStep, ClearTimerStep, RearmStep
<1>5. CASE RunTask \/ FireTimer \/ DeadTimer
  BY <1>1, <1>5, RunTaskStep, FireTimerStep, DeadTimerStep
<1>6. CASE FlushSchedule \/ FlushRefused \/ FlushCancel
  BY <1>1, <1>6, FlushScheduleStep, FlushRefusedStep, FlushCancelStep
<1> QED  BY <1>2, <1>3, <1>4, <1>5, <1>6 DEF Next, Window, Scripts, Page, Quiet

(* The queues respect their limits, and every timer of the table is in one   *)
(* place.                                                                    *)
LEMMA InvAccounts == TurnsInv => TimersAccounted
<1> SUFFICES ASSUME MicroInv, TimersInv PROVE TimersAccounted
  BY DEF TurnsInv
<1>1. WithinLimits
  BY DEF WithinLimits, MicroInv, TimersInv, LengthsOk
<1>2. \A id \in table : Places(id) = IF id \in lost THEN 0 ELSE 1
  BY DEF TimersInv, PlacesOk
<1>3. ASSUME NEW id \in Timers \ table, CountIn(id, timers) > 0
      PROVE  [type |-> "cancel", id |-> id] \in Elements(requests) \/ id \in stranded
  <2>1. timers \in Seq(TaskSet)
    BY DEF TimersInv, StateOk
  <2>2. Count(timers, TimerTasks(id)) # 0
    BY <1>3, <2>1, CountsAre
  <2>3. PICK t \in Elements(timers) : t \in TimerTasks(id)
    BY <2>1, <2>2, CountType
  <2>4. t.payload.id = id
    BY <2>3 DEF TimerTasks, Script
  <2> QED  BY <1>3, <2>3, <2>4 DEF TimersInv, CancelsOk, Cancel
<1> QED  BY <1>1, <1>2, <1>3 DEF TimersAccounted, ArmedOnce, Places

(* Timers run by their deadlines, microtasks by their age.                   *)
LEMMA InvOrders == TurnsInv => RunInOrder
<1> SUFFICES ASSUME MicroInv, TimersInv PROVE RunInOrder
  BY DEF TurnsInv
<1>1. TimersInOrder
  <2>1. PICK all : all = ready \o timers
    OBVIOUS
  <2>2. ASSUME NEW i \in DOMAIN all, NEW j \in DOMAIN all, i < j,
               all[i].payload.type = "timer", all[j].payload.type = "timer"
        PROVE  all[i].deadline <= all[j].deadline
    <3>1. <<all[i], all[j]>> \in ByDeadline
      BY <2>1, <2>2 DEF TimersInv, DeadlinesOk, InOrder
    <3> QED  BY <2>2, <3>1 DEF ByDeadline, IsTimer
  <2>3. \A i \in DOMAIN ready : ready[i].deadline <= now
    BY DEF TimersInv, DeadlinesOk, Elements
  <2> QED  BY <2>1, <2>2, <2>3 DEF TimersInOrder
<1>2. CheckpointOrder
  <2>1. PICK all : all = microtasks \o pending
    OBVIOUS
  <2>2. ASSUME NEW i \in DOMAIN all, NEW j \in DOMAIN all, i < j
        PROVE  all[i] < all[j]
    <3>1. <<all[i], all[j]>> \in ByAge
      BY <2>1, <2>2 DEF MicroInv, InOrder
    <3> QED  BY <3>1 DEF ByAge
  <2> QED  BY <2>1, <2>2 DEF CheckpointOrder
<1> QED  BY <1>1, <1>2 DEF RunInOrder

(* The invariant holds of every page, whatever its limits, timers and delays. *)
THEOREM TurnsAreConsistent == Spec => []TurnsInv
<1>1. Init => TurnsInv
  BY TurnsStart
<1>2. TurnsInv /\ [Next]_vars => TurnsInv'
  BY TurnsStep
<1> QED  BY <1>1, <1>2, PTL DEF Spec

(* A timer that has neither fired nor been cleared is armed exactly once or   *)
(* asked for once, unless the loop refused it, and the queues keep within     *)
(* their limits (install_timer_requests_with_microtasks, EventLoop).         *)
THEOREM PageAccountsForTimers == Spec => []TimersAccounted
<1>1. TurnsInv => TimersAccounted
  BY InvAccounts
<1> QED  BY <1>1, TurnsAreConsistent, PTL

(* Timers run in the order of their deadlines, none before its deadline, and  *)
(* microtasks in the order in which they were queued, across the runtime's    *)
(* queues and the loop's.                                                    *)
THEOREM PageRunsInOrder == Spec => []RunInOrder
<1>1. TurnsInv => RunInOrder
  BY InvOrders
<1> QED  BY <1>1, TurnsAreConsistent, PTL
==============================================================================
