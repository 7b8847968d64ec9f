------------------------------ MODULE EventLoop ------------------------------
(***************************************************************************)
(* The task, microtask and timer queues of one page                         *)
(* (crates/render-core/src/event_loop.rs) and their operations.  What a     *)
(* payload does when it runs is decided by the embedder (PageTurns).        *)
(*                                                                         *)
(* The timers are a BTreeMap keyed by (deadline, creation number): here a   *)
(* sequence in that order, into which a new timer goes behind every timer   *)
(* that is not later.  Task and timer numbers are otherwise not told apart, *)
(* and the 64-bit numbers are taken not to run out.  The rendering cursor   *)
(* over the DOM's mutation history is left out: the windows compare DOM     *)
(* revisions of their own.  A scheduled task is its payload and the time    *)
(* from which it may run, 0 when it was queued without a delay.             *)
(***************************************************************************)
EXTENDS Deque

CONSTANTS MaxPendingTasks, MaxPendingTimers, MaxPendingMicrotasks

ASSUME LimitsAssumption ==
    MaxPendingTasks \in Nat /\ MaxPendingTimers \in Nat /\ MaxPendingMicrotasks \in Nat

VARIABLES now,          \* VirtualClock
          ready,        \* ready_tasks
          timers,       \* in the order of the map
          microtasks    \* payloads

loopVars == <<now, ready, timers, microtasks>>

LoopInit == now = 0 /\ ready = <<>> /\ timers = <<>> /\ microtasks = <<>>

------------------------------------------------------------------------------
(* Operators whose names end in Defect are slips of the definition that      *)
(* follows them; the properties of the project rule them out.                *)

\* ensure_task_capacity counts the timers too.
HasTaskCapacityDefect == Len(ready) < MaxPendingTasks
HasTaskCapacity == Len(ready) + Len(timers) < MaxPendingTasks
HasTimerCapacity == HasTaskCapacity /\ Len(timers) < MaxPendingTimers

Scheduled(payload, deadline) == [payload |-> payload, deadline |-> deadline]

\* As many timers are due by a time, from the front of the map on.
DueBy(time) == Cardinality({i \in DOMAIN timers : timers[i].deadline <= time})
Due(time) == FirstOf(timers, DueBy(time))
NotDue(time) == Behind(timers, DueBy(time))

\* The timers with one more at its place.
ArmedDefect(payload, delay) == <<Scheduled(payload, now + delay)>> \o timers
Armed(payload, delay) ==
    Due(now + delay) \o <<Scheduled(payload, now + delay)>> \o NotDue(now + delay)

Disarmed(payload) == Retain(timers, {t \in Elements(timers) : t.payload # payload})

QueueTask(payload) == ready' = Append(ready, Scheduled(payload, 0))

\* The microtasks with as many of the given ones behind them as there is room
\* for; the first that does not fit drops the rest.
Joined(more) ==
    LET room == MaxPendingMicrotasks - Len(microtasks)
    IN  microtasks \o FirstOf(more, IF Len(more) <= room THEN Len(more) ELSE room)

\* The ready queue after promote_due_timers.  Its last branch, which would move the clock to the next
\* deadline, needs an empty ready queue after a promotion and never runs.
PromotedDefect == Due(now) \o ready
Promoted == ready \o Due(now)
==============================================================================
