------------------------------ MODULE PageTurns ------------------------------
(***************************************************************************)
(* The turns of a page (crates/render-core/src/page.rs) over its EventLoop: *)
(* the timer table and the buffered requests of the JavaScript runtime      *)
(* (crates/render-js/src/runtime), the bounded pump of the windows, the     *)
(* microtask checkpoint, and the ways script runs outside a turn: a fetch   *)
(* or an import that settles, a slotchange handler, a microtask drained     *)
(* after the pump.                                                          *)
(*                                                                         *)
(* A script does any of: set a timer, clear one, queue a microtask, and     *)
(* return or throw.  The timers a page will ever set are numbered, Delay    *)
(* gives their delays and Intervals says which repeat; microtasks are       *)
(* numbered too.  The page runs on one thread: the window's steps (input,   *)
(* platform callbacks, network answers, time) come between its passes.      *)
(* js_timers of page.rs is written and never read, and is left out.         *)
(***************************************************************************)
EXTENDS EventLoop

CONSTANTS
    MaxTimers,          \* timers a run of the model may set
    Delay,              \* their delays
    Intervals,          \* those set by setInterval
    MaxMicrotasks,      \* microtasks a run of the model may queue
    MaxTasks,           \* tasks the window may queue
    MaxSettled,         \* fetches and imports that may settle
    MaxSourceBytes,     \* max_queued_script_bytes, a task counting one
    MaxPerCheckpoint,   \* max_microtasks_per_checkpoint
    TurnBudget,         \* turns of one pump
    MaxTime

Timers == 1..MaxTimers

ASSUME PageAssumption ==
    /\ MaxTimers \in Nat /\ MaxMicrotasks \in Nat /\ MaxTasks \in Nat
    /\ MaxSettled \in Nat /\ MaxSourceBytes \in Nat /\ MaxPerCheckpoint \in Nat
    /\ TurnBudget \in Nat \ {0} /\ MaxTime \in Nat
    /\ Delay \in [Timers -> Nat] /\ Intervals \subseteq Timers

VARIABLES
    wall,       \* time since the page was created
    pc,         \* what the page's thread is doing
    current,    \* the script that runs
    turns,      \* executed_turns of the pump
    executed,   \* microtasks executed by the checkpoint
    bytes,      \* queued_source_bytes
    table,      \* timers of the runtime: ids that have not fired or been cleared
    created,    \* next_timer_id
    requests,   \* pending_timer_requests
    pending,    \* pending_microtasks of the runtime
    born, fed, settled,     \* microtasks, tasks, settlements so far
    lost,       \* timers whose request the loop refused (history)
    stranded    \* cleared timers whose Cancel was dropped with it (history)

runtimeVars == <<table, created, requests, pending, born>>
countVars == <<fed, settled>>
histVars == <<lost, stranded>>
vars == <<loopVars, wall, pc, current, turns, executed, bytes, runtimeVars,
          countVars, histVars>>

Script(type, id) == [type |-> type, id |-> id]
Nobody == Script("nobody", 0)

Init ==
    /\ LoopInit
    /\ wall = 0 /\ pc = "idle" /\ current = Nobody
    /\ turns = 0 /\ executed = 0 /\ bytes = 0
    /\ table = {} /\ created = 0 /\ requests = <<>> /\ pending = <<>> /\ born = 0
    /\ fed = 0 /\ settled = 0
    /\ lost = {} /\ stranded = {}

------------------------------------------------------------------------------
(* Between passes.                                                         *)

Idle == pc = "idle"

Tick ==
    /\ Idle /\ wall < MaxTime
    /\ wall' = wall + 1
    /\ UNCHANGED <<loopVars, pc, current, turns, executed, bytes, runtimeVars,
                   countVars, histVars>>

\* Page::queue_task; a task that does not fit changes nothing.
Input ==
    /\ Idle /\ fed < MaxTasks
    /\ bytes < MaxSourceBytes /\ HasTaskCapacity
    /\ fed' = fed + 1
    /\ QueueTask(Script("task", fed + 1))
    /\ bytes' = bytes + 1
    /\ UNCHANGED <<now, timers, microtasks, wall, pc, current, turns, executed,
                   runtimeVars, settled, histVars>>

\* queue_pending_runtime_microtasks, after a media step or a new layout may
\* have queued a callback in the runtime.
MoveCallbacks ==
    /\ \E more \in {<<>>, <<born + 1>>} :
          /\ born + Len(more) <= MaxMicrotasks
          /\ born' = born + Len(more)
          /\ microtasks' = Joined(pending \o more)
    /\ pending' = <<>>

\* publish_render_geometry, or a scroll: observers are notified.
PublishGeometry ==
    /\ Idle
    /\ MoveCallbacks
    /\ UNCHANGED <<now, ready, timers, wall, pc, current, turns, executed, bytes,
                   table, created, requests, countVars, histVars>>

\* settle_fetch and resolve_dynamic_import run script at once.
Settle(type) ==
    /\ Idle /\ settled < MaxSettled
    /\ settled' = settled + 1
    /\ pc' = "run" /\ current' = Script(type, 0)
    /\ UNCHANGED <<loopVars, wall, turns, executed, bytes, runtimeVars, fed, histVars>>

\* pump_at_most_without_render_until, up to its loop.
Pump ==
    /\ Idle
    /\ now' = wall
    /\ turns' = 0 /\ pc' = "turn"
    /\ MoveCallbacks
    /\ UNCHANGED <<ready, timers, wall, current, executed, bytes, table, created,
                   requests, countVars, histVars>>

------------------------------------------------------------------------------
(* One turn: run_one_turn_with_backends over EventLoop::run_one_turn.        *)

TurnsOver ==
    /\ pc = "turn"
    /\ turns > 0        \* the budget, or the time budget checked after a turn
    /\ pc' = "drain"
    /\ UNCHANGED <<loopVars, wall, current, turns, executed, bytes, runtimeVars,
                   countVars, histVars>>

\* No task is ready; what the media step queued stays in the loop.
NoTask ==
    /\ pc = "turn" /\ turns < TurnBudget
    /\ Promoted = <<>>
    /\ MoveCallbacks
    /\ pc' = "drain"
    /\ UNCHANGED <<now, ready, timers, wall, current, turns, executed, bytes,
                   table, created, requests, countVars, histVars>>

\* A task is ready: the due timers are promoted and the first task is popped.
Pop ==
    /\ pc = "turn" /\ turns < TurnBudget
    /\ Promoted # <<>>
    /\ MoveCallbacks
    /\ ready' = Tail(Promoted) /\ timers' = NotDue(now)
    /\ executed' = 0
    /\ current' = Head(Promoted).payload
Popped == Head(Promoted).payload

RunTask ==
    /\ Pop /\ Popped.type = "task"
    /\ bytes' = IF bytes > 0 THEN bytes - 1 ELSE 0
    /\ pc' = "run"
    /\ UNCHANGED <<now, wall, turns, table, created, requests, countVars, histVars>>

\* fire_timer_reporting: an interval stays in the table while it runs.
FireTimer ==
    /\ Pop /\ Popped.type = "timer" /\ Popped.id \in table
    /\ table' = table \ ({Popped.id} \ Intervals)
    /\ pc' = "run"
    /\ UNCHANGED <<now, wall, turns, bytes, created, requests, countVars, histVars>>

\* The timer was cleared after it had been promoted, or its Cancel was lost.
DeadTimer ==
    /\ Pop /\ Popped.type = "timer" /\ Popped.id \notin table
    /\ pc' = "flush"
    /\ UNCHANGED <<now, wall, turns, bytes, table, created, requests, countVars, histVars>>

------------------------------------------------------------------------------
(* Script.                                                                 *)

Running == pc = "run"

\* setTimeout and setInterval.
SetTimer ==
    /\ Running /\ created < MaxTimers
    /\ created' = created + 1
    /\ table' = table \cup {created + 1}
    /\ requests' = Append(requests, [type |-> "schedule", id |-> created + 1])
    /\ UNCHANGED <<loopVars, wall, pc, current, turns, executed, bytes, pending,
                   born, countVars, histVars>>

\* clearTimeout and clearInterval.
ClearTimer(id) ==
    /\ Running /\ id \in table
    /\ table' = table \ {id}
    /\ requests' = Append(requests, [type |-> "cancel", id |-> id])
    /\ UNCHANGED <<loopVars, wall, pc, current, turns, executed, bytes, created,
                   pending, born, countVars, histVars>>

QueueMicrotask ==
    /\ Running /\ born < MaxMicrotasks
    /\ born' = born + 1
    /\ pending' = Append(pending, born + 1)
    /\ UNCHANGED <<loopVars, wall, pc, current, turns, executed, bytes, table,
                   created, requests, countVars, histVars>>

\* What the page does when a script has returned.
After == [task |-> "flush", timer |-> "flush", microtask |-> "flush",
          slot |-> "endTurn", fetch |-> "settle", reaction |-> "settle",
          import |-> "drain", drained |-> "drain"]
Settlement == {"fetch", "reaction"}

\* An interval is armed again, also when it threw, unless it cleared itself.
Rearms == current.type = "timer" /\ current.id \in Intervals \cap table

Return ==
    /\ Running /\ ~Rearms
    /\ pc' = After[current.type]
    /\ UNCHANGED <<loopVars, wall, current, turns, executed, bytes, runtimeVars,
                   countVars, histVars>>

Rearm ==
    /\ Running /\ Rearms
    /\ pc' = "flush"
    /\ \/ /\ HasTimerCapacity
          /\ timers' = Armed(current, Delay[current.id])
          /\ UNCHANGED lost
       \/ /\ ~HasTimerCapacity
          /\ lost' = lost \cup {current.id}
          /\ UNCHANGED timers
    /\ UNCHANGED <<now, ready, microtasks, wall, current, turns, executed, bytes,
                   runtimeVars, countVars, stranded>>

\* A settlement callback that throws makes settle_fetch return at once.
Throw ==
    /\ Running /\ current.type = "reaction"
    /\ pc' = "idle"
    /\ UNCHANGED <<loopVars, wall, current, turns, executed, bytes, runtimeVars,
                   countVars, histVars>>

------------------------------------------------------------------------------
(* The requests of a script enter the loop one by one.                       *)

Flushing == pc = "flush" /\ requests # <<>>
Request == Head(requests)

FlushSchedule ==
    /\ Flushing /\ Request.type = "schedule" /\ HasTimerCapacity
    /\ timers' = Armed(Script("timer", Request.id), Delay[Request.id])
    /\ requests' = Tail(requests)
    /\ UNCHANGED <<now, ready, microtasks, wall, pc, current, turns, executed,
                   bytes, table, created, pending, born, countVars, histVars>>

Refused(kept) ==
    LET dropped == Elements(FirstOf(requests, Len(requests) - Len(kept)))
    IN  /\ requests' = kept
        /\ lost' = lost \cup {r.id : r \in {q \in dropped : q.type = "schedule"}}
        /\ stranded' = stranded \cup {r.id : r \in {q \in dropped : q.type = "cancel"}}

\* After a turn's script the rest of the requests is dropped with the refused
\* one, after a settlement only the refused one.
FlushRefused ==
    /\ Flushing /\ Request.type = "schedule" /\ ~HasTimerCapacity
    /\ Refused(IF current.type \in Settlement THEN Tail(requests) ELSE <<>>)
    /\ UNCHANGED <<loopVars, wall, pc, current, turns, executed, bytes, table,
                   created, pending, born, countVars>>

FlushCancelDefect ==
    /\ Flushing /\ Request.type = "cancel"
    /\ requests' = Tail(requests)
    /\ UNCHANGED <<loopVars, wall, pc, current, turns, executed,
                   bytes, table, created, pending, born, countVars, histVars>>
FlushCancel ==
    /\ Flushing /\ Request.type = "cancel"
    /\ timers' = Disarmed(Script("timer", Request.id))
    /\ requests' = Tail(requests)
    /\ UNCHANGED <<now, ready, microtasks, wall, pc, current, turns, executed,
                   bytes, table, created, pending, born, countVars, histVars>>

\* settle_fetch is done; its microtasks have run before.
SettleDone ==
    /\ pc = "flush" /\ requests = <<>> /\ current.type \in Settlement
    /\ pc' = "idle"
    /\ UNCHANGED <<loopVars, wall, current, turns, executed, bytes, runtimeVars,
                   countVars, histVars>>

\* The microtasks of the script join the checkpoint.
MoveMicrotasksDefect == pending \o microtasks
MoveMicrotasks == Joined(pending)

FlushDone ==
    /\ pc = "flush" /\ requests = <<>> /\ current.type \notin Settlement
    /\ microtasks' = MoveMicrotasks
    /\ pending' = <<>>
    /\ pc' = "checkpoint"
    /\ UNCHANGED <<now, ready, timers, wall, current, turns, executed, bytes,
                   table, created, requests, born, countVars, histVars>>

------------------------------------------------------------------------------
(* perform_microtask_checkpoint, the end of the turn, and the other places    *)
(* where microtasks run.                                                     *)

CheckpointRun ==
    /\ pc = "checkpoint" /\ microtasks # <<>> /\ executed < MaxPerCheckpoint
    /\ microtasks' = Tail(microtasks)
    /\ executed' = executed + 1
    /\ pc' = "run" /\ current' = Script("microtask", Head(microtasks))
    /\ UNCHANGED <<now, ready, timers, wall, turns, bytes, runtimeVars, countVars, histVars>>

\* Complete, or ResourceLimitReached with the rest discarded.
CheckpointDone ==
    /\ pc = "checkpoint" /\ (microtasks = <<>> \/ executed >= MaxPerCheckpoint)
    /\ microtasks' = <<>>
    /\ pc' = "slots"
    /\ UNCHANGED <<now, ready, timers, wall, current, turns, executed, bytes,
                   runtimeVars, countVars, histVars>>

\* dispatch_slot_changes: the handlers, if slots changed, run as one script.
SlotChange ==
    /\ pc = "slots"
    /\ pc' = "run" /\ current' = Script("slot", 0)
    /\ UNCHANGED <<loopVars, wall, turns, executed, bytes, runtimeVars, countVars, histVars>>

EndTurn ==
    /\ pc \in {"slots", "endTurn"}
    /\ turns' = turns + 1 /\ pc' = "turn"
    /\ UNCHANGED <<loopVars, wall, current, executed, bytes, runtimeVars,
                   countVars, histVars>>

\* take_next_microtask and invoke_microtask, of drain_runtime_microtasks or of
\* settle_fetch.
TakeNext(from, type) ==
    /\ pc = from /\ pending # <<>>
    /\ pending' = Tail(pending)
    /\ pc' = "run" /\ current' = Script(type, Head(pending))
    /\ UNCHANGED <<loopVars, wall, turns, executed, bytes, table, created, requests,
                   born, countVars, histVars>>

Drained ==
    /\ pc \in {"drain", "settle"} /\ pending = <<>>
    /\ pc' = IF pc = "settle" THEN "flush" ELSE "idle"
    /\ UNCHANGED <<loopVars, wall, current, turns, executed, bytes, runtimeVars,
                   countVars, histVars>>

------------------------------------------------------------------------------
Window == Tick \/ Input \/ PublishGeometry \/ Settle("fetch") \/ Settle("import")

Scripts == SetTimer \/ (\E id \in Timers : ClearTimer(id)) \/ QueueMicrotask
           \/ Return \/ Rearm \/ Throw

Page == \/ TurnsOver \/ NoTask \/ RunTask \/ FireTimer \/ DeadTimer
        \/ FlushSchedule \/ FlushRefused \/ FlushCancel \/ SettleDone \/ FlushDone
        \/ CheckpointRun \/ CheckpointDone \/ SlotChange \/ EndTurn
        \/ TakeNext("drain", "drained") \/ TakeNext("settle", "reaction") \/ Drained

Next == Window \/ Pump \/ Scripts \/ Page

Spec == Init /\ [][Next]_vars

\* next_control_flow: the window comes back for ready work and for the first
\* deadline.
WorkPending == \/ ready # <<>> \/ microtasks # <<>>
               \/ timers # <<>> /\ Head(timers).deadline <= wall

\* Scripts return, time passes, and the window pumps when it has to.
FairSpec == Spec /\ WF_vars(Scripts \/ Page) /\ SF_vars(Tick)
                 /\ WF_vars(WorkPending /\ Pump)

------------------------------------------------------------------------------
(* Properties.                                                             *)

TasksIn(s) == Cardinality({i \in DOMAIN s : s[i].payload.type = "task"})
CountIn(id, s) == Cardinality({i \in DOMAIN s : s[i].payload = Script("timer", id)})

\* The queues respect their limits whichever way work enters them, and the
\* byte count is that of the queued scripts, which the saturating subtraction
\* would otherwise hide.
WithinLimits ==
    /\ Len(ready) + Len(timers) <= MaxPendingTasks
    /\ Len(timers) <= MaxPendingTimers /\ Len(microtasks) <= MaxPendingMicrotasks
    /\ bytes = TasksIn(ready) /\ bytes <= MaxSourceBytes

\* Timers run in the order of their deadlines and none before its deadline,
\* across promotions, intervals that are armed again and timers set meanwhile.
TimersInOrder ==
    LET all == ready \o timers
        timer(i) == all[i].payload.type = "timer"
    IN  /\ \A i, j \in DOMAIN all :
              i < j /\ timer(i) /\ timer(j) => all[i].deadline <= all[j].deadline
        /\ \A i \in DOMAIN ready : ready[i].deadline <= now

\* A timer that has neither fired nor been cleared is armed exactly once, or
\* asked for once, unless the loop refused it; one that was cleared is armed
\* only until its Cancel is handled, unless that was dropped.
Asked(id) == Cardinality({i \in DOMAIN requests : requests[i] = [type |-> "schedule", id |-> id]})
Fires(id) == IF Running /\ current = Script("timer", id) THEN 1 ELSE 0
ArmedOnce ==
    /\ \A id \in table :
          Asked(id) + CountIn(id, timers) + CountIn(id, ready) + Fires(id)
            = IF id \in lost THEN 0 ELSE 1
    /\ \A id \in Timers \ table :
          CountIn(id, timers) > 0 => \/ [type |-> "cancel", id |-> id] \in Elements(requests)
                                     \/ id \in stranded

\* The timer table of the runtime and the queues of the loop agree within the
\* loop's limits, also when a limit made it refuse one of them.
TimersAccounted == WithinLimits /\ ArmedOnce

\* Microtasks keep the order in which they were queued, across the runtime's
\* queue and the loop's.
CheckpointOrder ==
    LET all == microtasks \o pending
    IN  \A i, j \in DOMAIN all : i < j => all[i] < all[j]

\* Timers run by deadline and microtasks by age, whichever of the two sides'
\* queues they wait in.
RunInOrder == TimersInOrder /\ CheckpointOrder

\* No task and no due timer is starved, not even by an interval of zero delay.
EveryTurnComes ==
    /\ \A n \in 1..MaxTasks :
          LET queued == \E i \in DOMAIN ready : ready[i].payload = Script("task", n)
          IN  queued ~> ~queued
    /\ \A id \in Timers \ Intervals :
          LET armed == \E i \in DOMAIN timers : /\ timers[i].payload = Script("timer", id)
                                                /\ timers[i].deadline <= MaxTime
          IN  armed ~> id \notin table
==============================================================================
