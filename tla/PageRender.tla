------------------------------ MODULE PageRender ------------------------------
(***************************************************************************)
(* The render coordinator of the browser window, on top of the render pool: *)
(* schedule_page_render, commit_render and the recovery of coalesced        *)
(* repaints in crates/render-browser/src/app.rs.  The event loop is one     *)
(* thread, so a handler runs to its end; the render threads run between any *)
(* two of its accesses to the pool.                                         *)
(*                                                                          *)
(* A frame is abstracted to the revision of the page it paints, a viewport  *)
(* (size and device scale together) and a scroll offset to one value each.  *)
(* The compositor's pool only replaces pixels and is left out, with the     *)
(* generation its submissions consume.                                      *)
(***************************************************************************)
EXTENDS RenderWorker

CONSTANTS
    Viewports,   \* the content viewports of the window
    FirstTab, FirstViewport,  \* the tab and the viewport the window opens with
    MaxChanges   \* bound on the user's and the page's actions

\* No viewport is taken for the absence of one.
ASSUME WindowAssumption ==
    FirstTab \in Tabs /\ FirstViewport \in Viewports /\ "none" \notin Viewports

VARIABLES
    page,       \* App::pages: what PageState keeps for rendering, per tab
    front,      \* the active tab
    window,     \* the content viewport, or "zero"
    loop,       \* where a turn of the event loop is
    call,       \* the schedule_page_render call in progress
    drained,    \* completions that poll_render_worker has still to commit
    todo,       \* tabs that recover_unresolved_render_requests has still to
                \* ask the pool about, and those it found idle
    lost,       \* history: why the last frame of a tab was thrown away
    changes     \* how many changes have happened

appVars == <<page, front, window, loop, call, drained, todo, lost, changes>>
vars == <<poolVars, appVars>>

------------------------------------------------------------------------------
NoCall == [step |-> "none", tab |-> "none", viewport |-> "none",
           retained |-> FALSE, selection |-> FALSE]
Schedule(t, v) == [NoCall EXCEPT !.step = "enter", !.tab = t, !.viewport = v]

NoCommit == [generation |-> 0, serial |-> 0, revision |-> 0, styled |-> FALSE]

\* PageState::new, with or without a style sheet link in the document.
Fresh(serial, revision, sheets) ==
    [open |-> TRUE, serial |-> serial, generation |-> 0, revision |-> revision,
     requested |-> "none", dirty |-> "none", shown |-> "none",
     committed |-> NoCommit, scroll |-> 0, sheets |-> sheets]

OpenTabs == {t \in Tabs : page[t].open}

\* Between two handlers, and between two steps of about_to_wait.
Between == call = NoCall /\ drained = {}
Handler == Between /\ loop \in {"asleep", "turn"} /\ changes < MaxChanges
EndsTurn == loop' = "turn" /\ changes' = changes + 1

Nobody == [ask |-> {}, idle |-> {}]

\* resubmit_dirty_render: the coalesced request is consumed and scheduled.
Undirty(p) == [p EXCEPT !.dirty = "none"]
Resubmission(t) == IF page[t].dirty = "none" THEN NoCall
                   ELSE Schedule(t, page[t].dirty)

------------------------------------------------------------------------------
(* The events of the window and of the page.                               *)

\* A script turn, a timer, an image or the hover chain changed the active page.
Mutate ==
    /\ Handler
    /\ page' = [page EXCEPT ![front].revision = @ + 1]
    /\ call' = Schedule(front, window)
    /\ EndsTurn
    /\ UNCHANGED <<poolVars, front, window, drained, todo, lost>>

\* The window is resized: relayout_and_render.
Resize(v) ==
    /\ Handler /\ v # window
    /\ window' = v
    /\ call' = Schedule(front, v)
    /\ EndsTurn
    /\ UNCHANGED <<poolVars, page, front, drained, todo, lost>>

\* apply_scroll_delta; a text selection keeps the scroll off the compositor.
ScrollRetained ==
    /\ page' = [page EXCEPT ![front].scroll = 1 - @]
    /\ \E selection \in BOOLEAN :
          call' = [Schedule(front, window) EXCEPT !.retained = TRUE, !.selection = selection]

\* The content moved under the pointer and the hover chain changed: a full
\* render is asked for, instead of the scroll frame or behind it.  The second
\* only repeats the viewport and adds nothing to the first.
ScrollHover ==
    /\ page' = [page EXCEPT ![front].scroll = 1 - @, ![front].revision = @ + 1]
    /\ call' = Schedule(front, window)

Scroll ==
    /\ Handler /\ page[front].shown # "none"
    /\ ScrollRetained \/ ScrollHover
    /\ EndsTurn
    /\ UNCHANGED <<poolVars, front, window, drained, todo, lost>>

\* install_source: the tab's renders are cancelled, set_source resets the page,
\* and a tab in the foreground is rendered.
Navigate(t) ==
    /\ Handler /\ page[t].open
    /\ CancelTab(t)
    /\ \E sheets \in {"none", "linked"} :
          page' = [page EXCEPT ![t] =
                     [Fresh(page[t].serial + 1, page[t].revision + 1, sheets)
                        EXCEPT !.generation = page[t].generation]]
    /\ call' = IF t = front THEN Schedule(t, window) ELSE NoCall
    /\ lost' = [lost EXCEPT ![t] = "no"]
    /\ EndsTurn
    /\ UNCHANGED <<front, window, drained, todo>>

Activate(t) ==
    /\ Handler /\ page[t].open /\ t # front
    /\ front' = t
    /\ call' = Schedule(t, window)
    /\ EndsTurn
    /\ UNCHANGED <<poolVars, page, window, drained, todo, lost>>

\* TabIntent::Close: the work of the tab is cancelled and another tab shown.
Close(t) ==
    /\ Handler /\ page[t].open /\ OpenTabs # {t}
    /\ CancelTab(t)
    /\ page' = [page EXCEPT ![t].open = FALSE]
    /\ \E next \in OpenTabs \ {t} :
          /\ t # front => next = front
          /\ front' = next
          /\ call' = Schedule(next, window)
    /\ EndsTurn
    /\ UNCHANGED <<window, drained, todo, lost>>

\* finish_external_style_sheets, from poll_network in about_to_wait.
SheetsArrive(t) ==
    /\ Between /\ loop = "poll" /\ page[t].open /\ page[t].sheets = "fetching"
    /\ page' = [page EXCEPT ![t].sheets = "batch", ![t].revision = @ + 1]
    /\ call' = IF t = front THEN Schedule(t, window) ELSE NoCall
    /\ UNCHANGED <<poolVars, front, window, loop, drained, todo, lost, changes>>

------------------------------------------------------------------------------
(* schedule_page_render.                                                   *)

Called == page[call.tab]

\* The retained layers or the retained scene of the committed frame can be
\* used: the viewport is the one on screen and no sheets wait to be applied.
CanRetain == /\ call.retained /\ Called.shown = call.viewport
             /\ Called.sheets # "batch" /\ Called.committed # NoCommit
CanComposite == CanRetain /\ ~call.selection

Coalesce == [page EXCEPT ![call.tab].requested = call.viewport,
                         ![call.tab].dirty = call.viewport]

\* A viewport with a zero side shows nothing and cancels the tab's renders.
ScheduleNothing ==
    /\ call.step = "enter" /\ call.viewport = "zero"
    /\ CancelTab(call.tab)
    /\ page' = [page EXCEPT ![call.tab].requested = "zero", ![call.tab].shown = "none",
                            ![call.tab].generation = @ + 1, ![call.tab].dirty = "none"]
    /\ call' = NoCall
    /\ UNCHANGED <<front, window, loop, drained, todo, lost, changes>>

\* A composited scroll frame leaves the render pool alone.
ScheduleComposite ==
    /\ call.step = "enter" /\ call.viewport # "zero" /\ CanComposite
    /\ page' = [page EXCEPT ![call.tab].requested = call.viewport]
    /\ call' = NoCall
    /\ UNCHANGED <<poolVars, front, window, loop, drained, todo, lost, changes>>

\* is_tab_busy, under the queue's lock: a job of the tab is queued or active.
CheckQueue ==
    /\ call.step = "enter" /\ call.viewport # "zero" /\ ~CanComposite
    /\ IF Superseded(call.tab) # {}
       THEN page' = Coalesce /\ call' = NoCall
       ELSE /\ page' = [page EXCEPT ![call.tab].requested = call.viewport]
            /\ call' = [call EXCEPT !.step = "idle"]
    /\ UNCHANGED <<poolVars, front, window, loop, drained, todo, lost, changes>>

\* is_tab_busy, under the completions' lock.
CheckCompletedDefect ==
    /\ call.step = "idle"
    /\ call' = [call EXCEPT !.step = "submit"]
    /\ UNCHANGED <<poolVars, page, front, window, loop, drained, todo, lost, changes>>
CheckCompleted ==
    /\ call.step = "idle"
    /\ IF \E c \in Elements(completed) : c.job.tab = call.tab
       THEN page' = Coalesce /\ call' = NoCall
       ELSE UNCHANGED page /\ call' = [call EXCEPT !.step = "submit"]
    /\ UNCHANGED <<poolVars, front, window, loop, drained, todo, lost, changes>>

\* The job carries all that decides whether its frame may be installed, and
\* whether it applies fetched sheets or looks for links.  A retained raster
\* paints the scene of the frame on screen.
Job ==
    [tab |-> call.tab, generation |-> Called.generation + 1, serial |-> Called.serial,
     viewport |-> call.viewport, scroll |-> Called.scroll,
     revision |-> IF CanRetain THEN Called.committed.revision ELSE Called.revision,
     styled |-> Called.sheets \in {"none", "applied", "batch"},
     applies |-> ~CanRetain /\ Called.sheets = "batch",
     plans |-> ~CanRetain /\ Called.sheets \in {"linked", "batch", "applied"}]

\* The frame is of this document and newer than the installed one.
Current(job, p) == job.serial = p.serial /\ job.generation > p.committed.generation

\* What a full queue of the pool pushes out comes to no commit, and nobody is
\* told of it.
PushedOut(out) ==
    [t \in Tabs |->
       IF page[t].dirty = "none" /\ \E j \in out : j.tab = t /\ Current(j, page[t])
       THEN "evicted" ELSE lost[t]]

SubmitJob ==
    /\ call.step = "submit"
    /\ Submit(Job)
    /\ page' = [page EXCEPT ![call.tab].generation = @ + 1]
    /\ lost' = [PushedOut(Elements(jobs) \ Elements(jobs')) EXCEPT
                  ![call.tab] = IF CanRetain THEN lost[call.tab] ELSE "no"]
    /\ call' = NoCall
    /\ UNCHANGED <<front, window, loop, drained, todo, changes>>

------------------------------------------------------------------------------
(* poll_render_worker and commit_render.                                   *)

Poll == /\ drained' = Newest
        /\ Drain

\* UserEvent::RenderReady.
OnRenderReady ==
    /\ Between /\ loop \in {"asleep", "turn"} /\ wake
    /\ wake' = FALSE
    /\ Poll
    /\ loop' = "turn"
    /\ UNCHANGED <<page, front, window, call, todo, lost, changes>>

\* A frame is accepted when it is current, for the viewport that is asked for
\* and for the scroll offset on screen.
AcceptedDefect(job, p) ==
    /\ job.viewport = p.requested
    /\ job.generation > p.committed.generation
    /\ p.shown = "none" \/ job.scroll = p.scroll
Asked(job, p) == job.viewport = p.requested
InPlace(job, p) == p.shown = "none" \/ job.scroll = p.scroll
Accepted(job, p) == Current(job, p) /\ Asked(job, p) /\ InPlace(job, p)

\* Why a frame that nothing is coalesced behind is thrown away.
Reason(c) ==
    LET p == page[c.job.tab] IN
    IF c.result # "frame" THEN "failed"
    ELSE IF ~Current(c.job, p) THEN lost[c.job.tab]
    ELSE IF Asked(c.job, p) THEN "scrolled" ELSE "resized"

\* The first paint waits for the style sheets the frame was built without.
Unstyled(job, p) ==
    /\ p.committed = NoCommit /\ p.sheets # "applied"
    /\ ~job.applies /\ job.plans

CommitClosed(c) ==
    /\ ~page[c.job.tab].open
    /\ UNCHANGED <<page, call, lost>>

\* A failed render and a frame that is not accepted end in the resubmission of
\* what was coalesced behind them.
CommitDiscardedDefect(c) ==
    LET t == c.job.tab IN
    /\ page[t].open /\ (c.result # "frame" \/ ~Accepted(c.job, page[t]))
    /\ lost' = IF page[t].dirty = "none" THEN [lost EXCEPT ![t] = Reason(c)] ELSE lost
    /\ page' = [page EXCEPT ![t] = Undirty(@)]
    /\ UNCHANGED call
CommitDiscarded(c) ==
    LET t == c.job.tab IN
    /\ page[t].open /\ (c.result # "frame" \/ ~Accepted(c.job, page[t]))
    /\ lost' = IF page[t].dirty = "none" THEN [lost EXCEPT ![t] = Reason(c)] ELSE lost
    /\ page' = [page EXCEPT ![t] = Undirty(@)]
    /\ call' = Resubmission(t)

\* The unstyled first paint is dropped; its sheets are fetched, once.
CommitDeferred(c) ==
    LET t == c.job.tab IN
    /\ page[t].open /\ c.result = "frame"
    /\ Accepted(c.job, page[t]) /\ Unstyled(c.job, page[t])
    /\ page' = [page EXCEPT ![t].sheets = IF @ = "linked" THEN "fetching" ELSE @]
    /\ UNCHANGED <<call, lost>>

Installed(job, p) ==
    [Undirty(p) EXCEPT !.committed = [generation |-> job.generation, serial |-> job.serial,
                                      revision |-> job.revision, styled |-> job.styled],
                       !.shown = job.viewport,
                       !.sheets = IF job.applies THEN "applied" ELSE @]

CommitInstalled(c) ==
    LET t == c.job.tab IN
    /\ page[t].open /\ c.result = "frame"
    /\ Accepted(c.job, page[t]) /\ ~Unstyled(c.job, page[t])
    /\ page' = [page EXCEPT ![t] = Installed(c.job, @)]
    /\ call' = Resubmission(t)
    /\ UNCHANGED lost

Commit ==
    /\ call = NoCall
    /\ \E c \in drained :
          /\ drained' = drained \ {c}
          /\ \/ CommitClosed(c) \/ CommitDiscarded(c)
             \/ CommitDeferred(c) \/ CommitInstalled(c)
    /\ UNCHANGED <<poolVars, front, window, loop, todo, changes>>

------------------------------------------------------------------------------
(* about_to_wait.                                                          *)

\* Work that makes the loop wake up on its own instead of waiting for events.
PendingWork == \E t \in OpenTabs : page[t].dirty # "none" \/ page[t].sheets = "fetching"

AboutToWait ==
    /\ Between
    /\ loop = "turn" \/ (loop = "asleep" /\ PendingWork)
    /\ Poll
    /\ loop' = "poll"
    /\ UNCHANGED <<wake, page, front, window, call, todo, lost, changes>>

\* recover_unresolved_render_requests: the tabs with a coalesced repaint.
RecoverDefect ==
    /\ Between /\ loop = "poll"
    /\ loop' = "recover"
    /\ todo' = Nobody
    /\ UNCHANGED <<poolVars, page, front, window, call, drained, lost, changes>>
Recover ==
    /\ Between /\ loop = "poll"
    /\ loop' = "recover"
    /\ todo' = [Nobody EXCEPT !.ask = {t \in OpenTabs : page[t].dirty # "none"}]
    /\ UNCHANGED <<poolVars, page, front, window, call, drained, lost, changes>>

\* Those the pool still works for are left to their commit.  The two reads of
\* is_tab_busy are one here: no job of the tab comes into the queue between
\* them, so that its completions can only be pushed out.
AskPool(t) ==
    /\ Between /\ loop = "recover" /\ t \in todo.ask
    /\ todo' = [ask |-> todo.ask \ {t},
                idle |-> todo.idle \cup
                         (IF Superseded(t) # {} \/ \E j \in Jobs(completed) : j.tab = t
                          THEN {} ELSE {t})]
    /\ UNCHANGED <<poolVars, page, front, window, loop, call, drained, lost, changes>>

RecoverTab(t) ==
    /\ Between /\ loop = "recover" /\ todo.ask = {} /\ t \in todo.idle
    /\ todo' = [todo EXCEPT !.idle = @ \ {t}]
    /\ page' = [page EXCEPT ![t] = Undirty(@)]
    /\ call' = Resubmission(t)
    /\ UNCHANGED <<poolVars, front, window, loop, drained, lost, changes>>

Sleep ==
    /\ Between /\ loop = "recover" /\ todo = Nobody
    /\ loop' = "asleep"
    /\ UNCHANGED <<poolVars, page, front, window, call, drained, todo, lost, changes>>

------------------------------------------------------------------------------
\* The window has opened: relayout_and_render on the first tab.
PageInit ==
    /\ PoolInit("awake")
    /\ page = [t \in Tabs |-> Fresh(1, 1, "none")]
    /\ front = FirstTab /\ window = FirstViewport
    /\ loop = "turn" /\ call = Schedule(front, window)
    /\ drained = {} /\ todo = Nobody
    /\ lost = [t \in Tabs |-> "no"] /\ changes = 0

User == \/ Mutate \/ Scroll
        \/ \E v \in Viewports \cup {"zero"} : Resize(v)
        \/ \E t \in Tabs : Navigate(t) \/ Activate(t) \/ Close(t)

App == \/ ScheduleNothing \/ ScheduleComposite \/ CheckQueue \/ CheckCompleted
       \/ SubmitJob \/ OnRenderReady \/ Commit \/ AboutToWait \/ Recover
       \/ (\E t \in Tabs : AskPool(t) \/ RecoverTab(t)) \/ Sleep

\* A thread that publishes into the full completions pushes out the oldest.
\* Spurious wake-ups of the threads are left to RenderWorker.
Thread(w) ==
    /\ WorkerStep(w)
    /\ lost' = PushedOut(Jobs(completed) \ Jobs(completed'))
    /\ UNCHANGED <<page, front, window, loop, call, drained, todo, changes>>
Pool == \E w \in Workers : Thread(w)

PageNext == User \/ App \/ Pool \/ \E t \in Tabs : SheetsArrive(t)

PageSpec == PageInit /\ [][PageNext]_vars

\* The event loop runs its handlers, the render threads run, a render returns,
\* and a style sheet fetch is answered in some pass of the loop.
PageFairSpec ==
    /\ PageSpec
    /\ WF_vars(App)
    /\ \A w \in Workers : WF_vars(Thread(w))
    /\ \A t \in Tabs : SF_vars(SheetsArrive(t))

------------------------------------------------------------------------------
(* Properties.                                                             *)

RendersOf(t) == Superseded(t) \cup {j \in Jobs(completed) : j.tab = t}
                              \cup {c.job : c \in {d \in drained : d.job.tab = t}}

\* The running render wins: a tab has at most one render between its submission
\* and its commit.  is_tab_busy reads the queue and the completions one after
\* the other while the threads run, and still never misses a frame that is on
\* its way from the one to the other.
OneRenderPerTab == \A t \in Tabs : Cardinality(RendersOf(t)) <= 1

\* A frame that finished after its document was replaced is not installed into
\* the new one.
ShowsOwnDocument ==
    \A t \in OpenTabs : page[t].committed # NoCommit => page[t].committed.serial = page[t].serial

Quiet == /\ Between /\ loop = "asleep" /\ ~PendingWork
         /\ \A t \in Tabs : RendersOf(t) = {}
Shows(t) == /\ page[t].committed.revision = page[t].revision
            /\ page[t].shown = page[t].requested
Settled(t) == page[t].requested = "zero" \/ Shows(t) \/ lost[t] # "no"

\* No repaint is forgotten: when nothing is under way and the loop sleeps, the
\* tab in front shows its last state in the viewport it was last scheduled
\* with, unless its last render failed, was pushed out of a full queue of the
\* pool, or was thrown away: for the scroll offset, or for the viewport that a
\* scroll frame asked for without a render.
NothingForgotten == Quiet => Settled(front)

\* Once the page and the user stop, the tab in front comes to show the last
\* state of its page: the loop is always woken for the frame.
Converges == <>[]Settled(front)
=============================================================================
