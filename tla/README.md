# A TLA+ development for rENDER

rENDER is a web browser engine and browser in Rust (eight crates under
`src/crates`). Most of its code is sequential computation over documents: parse,
cascade, lay out, paint, interpret script. What a test suite hardly reaches is
around that: a network worker with a dispatcher and a pool of threads, a render
pool that is superseded and cancelled, an event loop that trades tasks, timers
and microtasks between two queues, caches that answers reach late, connections
that several requests share, a store on disk that outlives its process, and a
history list that moves at other times than the document. This directory models
those parts, model-checks them with TLC and proves with TLAPS, for every value
of the constants, the safety of the network worker, the fetch handles, the memory
cache, the disk cache, the render pool and its coordinator, the event loop, the
session history and, but for its windows, the HTTP/2 pool.

`PROJECT.json` holds the machine-readable side: components, runs, the mutant that
breaks each checked property, the source lines of each definition, findings,
hazards and theorems.

## 1. Inventory

### The parts with behaviour

| component | state it keeps | operations | talks to |
|---|---|---|---|
| network worker (`render-net/src/worker.rs`, `batch.rs`) | event channel, waiting commands, operation map, ready queue, permits, job queue, per-batch counters, response channels | submit, cancel token, sweep, promote, schedule, accept, complete, tick, start, drop | pages through response channels, transport through `fetch` |
| HTTP transport and HTTP/2 (`transport.rs`, `h2/`) | the origin's pooled connection, its mutex, streams, four kinds of flow-control window, the unfinished header block, kept errors | look up, connect, make room, send headers, send body, poll, cancel, evict, retry | network worker's threads, server |
| cookies (`cookie.rs`) | jar | store, match, evict | transport |
| page fetch handles (`render-browser/src/fetch_handles.rs`) | state of each handle, results of a batch | submit, park, retry, poll, cancel | network worker, page, memory cache |
| HTTP memory cache (`cache.rs`) | entries, byte count, access clock, epoch | lookup, insert, 304 merge, evict, clear | fetch path of `app.rs` |
| disk cache (`cache/disk.rs`) | active directory, temporary files, retired directories, generation, bytes awaiting deletion | open, read, write, prune, begin and finish a clear | callers of its handle through two bounded channels, settings page |
| render worker pool (`worker.rs`) | job queue, active markers, cancel tokens, completions, stop flag | submit, cancel, drain, is_tab_busy, stop; thread steps | render coordinator, compositor |
| page render coordinator (`app.rs`, `page_state.rs`, `render_worker.rs`) | per tab: document serial, revision, viewport, scroll, coalesced repaint, committed frame, style-sheet fetch | schedule, commit, recover, navigate, resize, scroll, switch, close | pool, window event loop |
| page event loop (`render-core/src/event_loop.rs`, `page.rs`, `render-js` timers) | ready tasks, timers, microtasks, the runtime's timer table and buffered requests | queue, arm, promote, turn, checkpoint, pump, settle | window, script runtime |
| session history and navigation (`render-core/navigation.rs`, `app.rs`, `page_state.rs`) | entries, current index, document serial, committed URL, address, pending load; the location and the requests a script buffers | navigate, reload, traverse, push, replace, drain, finish a load | fetch path, script runtime |
| script and module loading | script queues | order | fetch path, event loop |
| web workers, nested contexts | message queues | post, run | event loop |

The parts that are pure computation (HTML and CSS parsing, DOM, layout, paint,
fonts, images, video decoding, the JavaScript interpreter), the window chrome,
settings, diagnostics, the headless driver and the test runners are listed in
`PROJECT.json` as not modelled, each with its reason.

### What is hard

* **Network worker.** Three bounded queues in a row; six ways an operation can
  end, each of which must release one permit and answer once; cancellation,
  a whole-batch budget and completions that race for that answer; batches that
  only their own completions can wake; a start-up that can fail half-way.
* **Fetch handles.** One look at the response channel right after submission
  decides between "pending" and "parked"; the dispatcher may answer on either
  side of it.
* **Memory cache.** Two conditional requests, a replacement, an eviction or a
  clear between a request and its 304; a byte count kept with saturating
  arithmetic.
* **HTTP/2.** Threads take turns on one connection, and each turn handles
  whatever frames come, of any stream: errors must reach their owner, windows are
  taken before a frame is accepted and moved by SETTINGS below zero, a dead
  connection is evicted by several threads at once, and a retry must not repeat
  what may have acted.
* **Disk cache.** A crash after any file system call; renames that fail and are
  undone; a generation captured before a clear and used after it; deletions that
  fail and keep their bytes; a window that waits for the answer to its clear.
* **History.** The list moves when a navigation starts, the document when it
  ends; scripts change their location at once and the list a turn later.
* **Render pool and coordinator.** Two locks and a condition variable; the token
  is read before the completion is pushed; a cancelled render wakes nobody;
  what a commit compares was recorded at the submission.
* **Event loop.** Two microtask queues; intervals that are armed again before
  their own callback's requests are handled; limits that drop the rest of a
  script's requests; starvation by zero-delay intervals.

The full list, each at its line, is `hazards` in `PROJECT.json`.

### What makes each component correct

Network worker: one owner and one answer per submission, exact permits and
per-batch counters, policy limits, arrival order, no batch parked for ever,
cancellation and budget answer although transfers hang. Fetch handles: no
request forgotten or in flight twice, results at their own position, a batch
delivered whole. Cache: within its limits, one entry per variant, no body for
the wrong header values, nothing from before a clear. Render pool: only the last
submission of a tab stays live, a tab is never out of sight between its marker
and its completion, every submission ends. Coordinator: one render per tab, no
frame of a replaced document, the tab in front comes to show its last state.
Event loop: limits, deadline order, each live timer armed exactly once,
microtask order, no starvation. HTTP/2: both ends agree about every window and
the stream limit, responses are whole, a request goes out twice only when no
answer to it can have been seen, an origin has one live connection. Disk cache:
what is read is whole, its own and current, a clear is final, the store stays
within its bytes, a pending clear is never left unanswered by its thread. History: at rest the current entry
is the shown document's, and `popstate` never moves a document to a URL of another.

## 2. Modules

```
Deque                DataLemmas
NetService
   ▲ refined by (and the environment of PageFetches)
NetWorker            NetWorkerProofs           MCNetWorker
PageFetches          TabProofs                 MCPageFetches
HttpCache            HttpCacheProofs           MCHttpCache
RenderWorker                                   MCRenderWorker
   └─ PageRender     RenderProofs (of both)    MCPageRender
EventLoop
   └─ PageTurns       PageTurnsProofs           MCPageTurns
H2Connection
   └─ H2Pool         H2PoolProofs              MCH2Pool
DiskCache            DiskCacheProofs           MCDiskCache
SessionHistory       TabProofs                 MCSessionHistory
```

A module under another extends it. `NetWorker`, `RenderWorker` and `EventLoop`
extend `Deque`, the operations of a queue; `NetWorkerProofs`, `RenderProofs`,
`HttpCacheProofs`, `DiskCacheProofs`, `PageTurnsProofs` and `H2PoolProofs` extend
`DataLemmas`.

`MC*` modules only give values to constants. Operators named `...Defect` are
mutated forms of the definition that follows them, used to show that each
property can fail; no specification uses them.

### NetWorker, NetService

`NetWorker` models `render-net/src/worker.rs`. `channel` is the bounded event
channel (commands and completions), `waiting` the scheduler's queue, `live`,
`ready`, `scheduled`, `batch` and `permits` its other fields, `jobs` the bounded
job queue, `worker[w]` a transfer thread, `response[o]` what the client's channel
carries. `dispatcher` is the program counter of the dispatcher thread: one pass is
`Sweep`, `Promote`s, the `Schedule...` steps, then one of `Accept`, `Complete`,
`Tick` and `Disconnected`. Clients take `SubmitAccepted`, `SubmitRejected`, `Cancel`
and `DropHandle`; threads `Pop`, `Transfer`, `Panic`, `SendCompletion`, `Exit`; the constructor
`StartWorker` and `StartFails`; `Elapse` is the clock passing a batch's budget.

Decisions to know when reading it:

* An operation id is its submission: ids come from a counter and are not reused.
* `Sweep` is `cancel_cancelled` followed by `expire_batches`; the dispatcher does
  nothing observable between them.
* A batch's `pending` deque is a set of indices, taken in increasing order, which is
  the order the scan of the deque finds them in.
* The failure branch of `jobs.push` is unreachable: the dispatcher is the only
  producer and checks the capacity first.
* `DropHandle` does not disconnect the channel: transfer threads hold senders, so
  the dispatcher only stops when those have ended too (`NoSenders`). After a
  complete start that takes a panic of every one of them (`PoolIsLost`); the
  dispatcher then tells what it still holds that it has stopped.
* A transfer may panic (the finding of `h2_header_block` is one way), and nothing in
  `render-net` catches it. The thread is gone with its job and its sender, so that
  a fetch or batch it worked for ends by its token or its budget, or not at all.

`NetService` is what the worker promises: a submission is accepted or rejected at
once, gets at most one answer, a vector with one outcome per request, and each
outcome is justified by the client's token, the batch's budget or policy, or a
transfer. `closed` says that the client has let go of the service: it is the only
reason for an answer `stopped`. `PageFetches` instantiates its actions as its
environment, with a service that stays open (`closed <- FALSE`): the window holds its
handle for as long as it has pages.

### PageFetches

`fetch_handles.rs`. `state[f]` is the handle (`pending`, `deferred`, `ready`, `gone`),
`ui` where the event-loop thread is in a pass over a batch. `StartBatch`,
`SubmitHit`/`SubmitMiss`/`SubmitChecked` are the submission with its one look at the
channel; `RetrySkip`/`RetryCancelled`/`RetrySubmit`/`RetryChecked` are `retry_deferred`;
`Receive`/`ReceiveSkip`/`ReceiveDone` are the polling pass of the ordered and the
drained form; `CancelBatch` sets the tokens. A resubmission is a new operation
`<<f, n>>` of the service. `retry_deferred` reports progress even when the request
bounces back; nothing the page observes depends on it.

### HttpCache

`cache.rs` and the fetch path of `app.rs` around it. `entries` is the set of stored
responses, `memoryBytes` and `accessClock` the counters, `epoch` the number of
clears; `fetch`, `answer` and `got` follow a request to its answer and to the page. The
submission is `SubmitHit`, `SubmitStale` (validators attached) or `SubmitMiss`; the
end is `FinishFull`, `FinishMerged`, `FinishUnmerged` or `Fail`. The origin server
(`ServeFull`, `ServeNotModified`, `Publish`) is external. Freshness is a deadline,
`Vary` a set of fields; header parsing is replaced by its result. A 304 for a
request sent before a clear, and the second of two concurrent 304s, find no
expired entry and are reported as a stopped worker (`app.rs:2553`): the model has
this (`FinishUnmerged`), no property is about it.

### RenderWorker, PageRender

`RenderWorker` is `render-browser/src/worker.rs`: the queue with its markers and
tokens under one lock (`jobs`, `active`, `cancelled`, `stopped`), the completions under
the other, `worker[w]` the thread and `wake` the event-loop proxy. A thread's
`Pop`, `Wait`, `Render`, `Decide`, `Publish`, `Unmark`, `Notify` are the critical sections
and what lies between; the check before the render and the render are one step
as nothing shared happens between them, and a task's own error is not told
apart from its success. Tokens nobody holds are pruned. `CompletionSlack` stands
for `MAX_WORKERS`, scaled down so that completions are evicted.

`PageRender` extends it with the coordinator of `app.rs`. `page[t]` is the tab's
state, `call` the `schedule_page_render` under way (its `is_tab_busy` looks at the
queue and at the completions in two steps), `drained` the completions being
committed, `loop` the window loop's phase. The handlers are `Mutate`, `Resize`,
`Scroll`, `Navigate`, `Activate`, `Close`; a commit is `CommitClosed`, `CommitDiscarded`,
`CommitDeferred` or `CommitInstalled`; `AboutToWait`, `Recover`, `AskPool`, `RecoverTab` and
`Sleep` are the end of a loop turn: the recovery pass takes the tabs with a coalesced
repaint, asks the pool about each, and schedules those it does not work for. A
scroll is either composited (`ScrollRetained`) or, when the hover chain changes under
the pointer, asks for a full render (`ScrollHover`). Spurious wake-ups of pool threads
are left to `RenderWorker`. Not modelled: the compositor's own pool, device scale,
sheets added after the first paint.

The pool tells nobody of a job that `submit` pushes out of a full queue, nor of a
completion that a thread pushes out. The model has both: a job or frame of the
present document that was pushed out while nothing else was asked for is noted in
`lost` as `"evicted"` (`PushedOut`). With the browser's capacity of 8 (`worker.rs:131`) that
takes the render of a ninth tab; the run has a queue of one and two tabs.

What the model showed beyond its runs: the generation gate of `commit_render`
is redundant given `OneRenderPerTab`; the first-paint deferral returns without
`resubmit_dirty` although `app.rs:1155` says that every path does (the recovery pass
covers it); a panicked cancelled job is published although `worker.rs:396` says
cancelled results are not. A coalesced request with an old viewport may be
resubmitted after a newer one (`app.rs:657`), and a composited scroll may then
ask for the window's size without a render, so that the frame made for the old
size is discarded and nothing is on screen for the last state: with four changes
TLC reaches it. `lost` keeps why a tab's last frame was thrown away (`Reason`), and
`NothingForgotten` accepts `"scrolled"`, `"resized"`, `"failed"` and `"evicted"`: it says
that nothing *else* makes a state of the page go unpainted, and would not tell that one
of these four is itself a defect of the code (the list after the runs names them).

### EventLoop, PageTurns

`EventLoop` holds the operators of `event_loop.rs` over `ready`, `timers`,
`microtasks` and `now`: capacities, arming in deadline order, disarming, promotion
of due timers. The timer map is a sequence in the order of its keys, which `DueBy` splits at
a time: what is due is promoted, and a new timer goes behind what is due by its deadline. `PageTurns` is `page.rs` over it and over the runtime's timer table
(`table`, `created`, `requests`, `pending`). A pump is `Pump`, then turns (`RunTask`,
`FireTimer`, `DeadTimer`), each running a script (`SetTimer`, `ClearTimer`,
`QueueMicrotask`, `Return`, `Rearm`, `Throw`), flushing its requests
(`FlushSchedule`, `FlushRefused`, `FlushCancel`, `FlushDone`) and a checkpoint
(`CheckpointRun`, `CheckpointDone`, `SlotChange`, `EndTurn`), then `TurnsOver` or
`NoTask` and `Drained`. The window takes `Input`, `PublishGeometry`, `Settle` and
`Tick` between passes. `js_timers` (written, never read) and the rendering
cursor are left out. The branch of `promote_due_timers` that would advance virtual
time is dead code, contrary to its comment. The table check in `Rearms` is
redundant: the buffered cancellation disarms the interval anyway. Timers that a
drained microtask, a slotchange handler or an aborted settlement sets stay in
the runtime until the next runnable; this is a listed hazard without a run.
Internal tasks and workers enter the same queues and have no action of their
own. A microtask that `PublishGeometry` or the start of a pump moves to the loop
while no task is ready is not run by that pump: `run_one_turn` returns without
a checkpoint and `drain_runtime_microtasks` looks at the runtime's queue only,
although `page.rs:1216` promises the callbacks a checkpoint.

### H2Connection, H2Pool

`H2Connection` holds the operators of `h2/connection.rs` over a connection record
(`state`, `streams`, the connection's windows, the peer's initial window and
stream limit, `pending`, the unfinished header block, and `errors`, kept for
their streams): one operator per frame handler, and what sending a request, a
body part and a cancellation do. A handler returns the connection, the frames it
writes and the error it reports. `H2Pool` is the state machine over it: `pool`
is the pooled entry of one origin, `conn[c]` the connections, `peer[c]` the server,
`inbound[c]` the frames on their way to the client, `req[r]` a request's thread.
`Lookup`, `Check`, `Lock`, `Connect...`, `MakeRoom` are `entry_for` with its two locks;
`SendRequest`, `SendBody`, `PumpBody` and their failures, `PollFrames`, `PollClosed`,
`TakeResponse`, `Abandon` are `send_h2_request`; `Evict` is the caller's reaction,
which may retry once. An origin that does not speak HTTP/2 is noted as such after the
creation lock is released (`ConnectFallsBack`, then `MarkHttp1Only`).

Decisions to know when reading it:

* What the client writes reaches the server at once, what the server writes
  waits in `inbound`. Delaying the first direction as well reorders nothing the
  client can tell apart from a server that answers later.
* The server keeps to the protocol: it sends within the windows, splits a
  header block at will, changes its settings, refuses and resets streams, says
  GOAWAY or closes. PING, PRIORITY, 1xx answers and decoding errors are left out.
* Writing fails only for HEADERS on a connection the server has left; the
  settings change happens once, while a body is on its way, and `MakeRoom` only
  while a connection is unused.

What the model showed beyond its runs. `send_body` handles frames of other
streams and returns their error to the upload, so that the owner polls on
with a hole in its response or to its deadline, although
`connection.rs:273` says that such an error is kept for its stream; `WholeResponse` has
this one exception. Frames in flight for a stream that was cancelled or failed
arrive on a stream the map does not hold, count as a protocol error and close
the connection for every request on it; `ClosedForCause` names the stream the client had
forgotten, one the server had opened for a request that was abandoned or failed. A
request whose upload fails leaves its stream active: `OrphansAreUploads` excepts only
a stream with units of its body left unsent, and that of a thread that panicked. GOAWAY during `send_body`
neither evicts nor retries; its 20 ms read timeout closes the shared connection.
Refused DATA is not given back to the connection's window. An error of the connection
that ends a body's upload sets `retry` without a look at what was read meanwhile
(`ResentOnlyUnseen` says nothing of requests with a body; without that
exception TLC finds it false when such a request may be retried).

### DiskCache

`cache/disk.rs` and the part of `app.rs` that clears it. `files` is the set of files
with their directory, key hash, value and whether they are whole; `store` and
`shared` are the worker's and the published generation; `worker` is the program
counter of the I/O thread; `commands` and `events` are the bounded channels; `ui` is the
window's side of a clear. A write is `WriteBegins` (prune, create), `WriteFills`,
`WriteLinks`, `WriteUnlinks`; a clear is `ClearBegins`, `ClearSwaps`, `ClearPublishes`,
`ClearFinishes`: each stands for file system calls between which a crash leaves
something else behind. `Open` is what a start does with it. Any call may fail
(`Faults`), a stored file may go bad (`Damage`), the process may end and start again
(`Crash`); `MaxTrouble` bounds the three together. A file's number stands for its
modification time and its unique name, both assumed to grow. `past` is history:
the values a reader is entitled to, and files stranded by a double failure.

`PollDiskCache` runs on a turn of the window's loop, and after a turn the loop may rest
(`ui.awake`) until something unrelated wakes it (`WakesUp`), which nothing promises: a
pending clear does not count as pending work, and the I/O thread cannot wake the
loop. `ClearResolves` therefore says that the *thread* always answers: a pending clear
is resolved, or its answer is in the channel and the loop rests on it.

The window calls only the clear so far; reads and writes come from any caller
of the public handle. `Unaccounted` is what no counter of the store covers until the
next start: a directory that `begin_clear` could neither replace nor put back, and the
temporary files a retired directory took along. `WithinCapacity` bounds all other
files. Observed besides: a damaged newest record uncovers the older one (`NeverOlder` excepts it); "Cleared"
can be shown while the directory of an earlier failed deletion is still there;
a failed unlink of the temporary file reports an error for a stored value.

### SessionHistory

The history list of one tab (`entries`, `current`), the shown document (`page`), its
`committed` URL, the `address` field and the `pending` load. Scripts take
`HistoryStateChange`, `HistoryGo`, `AssignLocation`, which change the script's location
and buffer a request; the window drains with `RecordHistoryEntry`, `DrainGo` and
`DrainScriptNavigations`. `Navigate`, `Reload`, `InvalidAddress`, `Back` and `Forward` are the
user's; `FinishNavigation` ends a load, with a redirect or an error page. A URL
stands for the URL and its state object; network URLs share one origin; the
home page and error pages run no script. Draining takes one request per step,
which allows more interleavings than the one loop of the code.

Observed: the entry is taken over at the end of a load whoever made it
(`app.rs:3205`), so one that a `pushState` recorded while the load was pending is
overwritten; a failed load or an invalid address stamps the error page's
number on an entry that is not its own, contrary to `page_state.rs:545`, after
which a traversal to that entry only moves the error page; a traversal with nowhere to go
cancels the load under way and leaves the list and the address at the abandoned
URL (the exception of `SettledEntry`); a traversal in a batch drops the requests
behind it, so that the script's location and the committed URL disagree.

## 3. Runs

| run | instance | what it shows |
|---|---|---|
| `net_safety` | three batches (limits 2 in all and 1 per origin; a paused origin; zero concurrency), two threads, queues of two, one permit | one owner and one answer, exact permits and counters, policy, no lost wake-up, arrival order, no stop with work while a thread is left, and `NetWorker => NetService`; transfers may panic |
| `net_live` | a fetch, a batch that waits for its own completions, an empty batch; one thread, queues of one, two permits | cancellation and budget answer the client even when transfers hang or panic; if all return, everything is answered and a failed start leaves no thread |
| `page_handles` | an ordered batch of two (one rejected up to twice), a drained one with a cached member | no handle forgotten or doubled, own results, whole vectors, cancelled requests stay parked, every batch delivered |
| `cache_safety` | four fetches, two resources, one by language, both limits force eviction, a new version, a 304 that changes the variant, a clear | exact byte count within limits, variants kept apart, nothing from before a clear, what is retained is served |
| `cache_validated_body` | three fetches of one variant | *finding*: a 304 is merged with a body its validator did not describe |
| `disk_cache` | two keys with one hash, three writes, a store of three units, channels of one, a clear, two faults, damages or crashes | reads are whole, own and current, a clear is final, bytes stay bounded, a pending clear is answered unless the loop rests on the unread answer |
| `h2_pool` | a fetch and an upload, two connections with different stream limits, windows of two and one | both ends agree, whole responses, resent only unseen, no orphan but one with body left unsent, closed only for a cause, one live connection |
| `h2_header_block` | same | *finding*: a header block is finished for a stream that was cancelled meanwhile, and the thread panics |
| `session_history` | two URLs, three entries, two buffered requests, five documents | the current entry is the shown document's, `popstate` stays in its document |
| `render_pool` | two tabs, one submitted twice, two threads, a queue of one, completions that fill | last submission wins within the bounds, markers match threads without a gap, everything settles, no lost wake-up |
| `page_render` | two tabs, two viewports, two changes, one thread, a queue and completions of one, so that each tab pushes the other's work out | one render per tab, own document, nothing forgotten but for a named reason, convergence |
| `page_turns` | a zero-delay interval, a timeout, two microtasks, two tasks, a settlement, queues of two | limits, each live timer armed once, deadline and microtask order, no starvation |

Two runs are expected to be violated: each states what the code says of itself,
quoted under `findings`, and TLC's trace shows the code not doing it. Several
properties are conjunctions of named parts that belong to one question; the
parts are defined next to them and each has a mutant.

Other disagreements that the models have and no run states:

* `disk.rs:22` calls the bound of the disk cache absolute; what is `Unaccounted` comes
  on top. After a clear whose renamed directory could not be put back
  (`disk.rs:593` ignores that failure and returns before the counter grows), the
  next generation may fill the whole bound again;
* a queue-full rejection that comes after the one look at the channel reaches the
  page as a transport error (`fetch_handles.rs:109` says it bounces back);
* a repaint asked for while the blocking style sheets are fetched carries no plan and
  is installed unstyled as the first paint (`app.rs:938` says it is blocked);
* a composited scroll makes the commit discard the running render, and nothing
  redoes it (`app.rs:634` says it stays committable; it is the `"scrolled"` that
  `NothingForgotten` accepts);
* `transport.rs:1012` says of a failure's `retry` that no response headers were seen.
  When a connection dies while a body is sent it is set without that look
  (`transport.rs:1500`), and PUT, DELETE and OPTIONS, which may have a body, are
  retried (`transport.rs:1325`): such a request can go out again although the
  headers of its answer had been read;
* callbacks moved to the loop without a ready task (see PageTurns above);
* a clear of the disk cache may show "clearing" until an unrelated event. The
  answer is read only in `about_to_wait`; neither `pending_work` (`app.rs:6187`) nor
  `has_pending_network` (`app.rs:4060`) counts `pending_disk_clear`, the I/O thread holds
  no event-loop proxy, and with nothing else to do the loop enters
  `ControlFlow::Wait` (`app.rs:6236`). A comment there (`app.rs:6202`) says of the screenshot
  deadline what happens to a deadline that the wait leaves out;
* when a ninth tab's render joins eight that wait, the oldest is cancelled and nobody
  is told (`worker.rs:319`): its tab is not dirty, so no recovery pass finds it (the
  `"evicted"` that `NothingForgotten` accepts).

### Bounds

Every bound is a named constant. Queues of one or two reach full, empty and the
wrap between them; two threads reach every pairwise interleaving of the pool,
and a third adds no shared state of its own. `MaxAttempts` lets a request be
rejected twice, so that a parked handle is parked again. `MaxTime`, `MaxVersion` and
`MaxClears` in the cache let an entry expire, be replaced and be cleared while
requests are out, and one of the 304s adds a field to `Vary`, so that an entry moves
to another variant; `VariantsStayApart` proves the collision of two for any 304.
`MaxGeneration` allows one tab to supersede itself while another
competes for the slot. `MaxChanges = 2` lets a second change hit any step of the
render started for the first; its safety part was also checked with 3, and with
4 on one tab (4.7 and 4.8 million states). In `page_turns`, two timers, microtasks and tasks fill each queue;
its safety part was also checked with three timers. `MaxMicrotasks`, `MaxTasks` and
`MaxSettled` bound what scripts and the window create, `MaxTimers` the ids.
In `h2_pool` only connection 1 has an eventful server (`Eventful`); the second is
what a retry or a replacement goes to. `MaxInbound` bounds the frames under way,
DATA frames carry one unit, and a stream limit of two, then one, makes the second
request wait or fail. In `disk_cache` two keys with the same hash, three values and
a capacity of three units force pruning, collisions and a refused write; two
troubles allow a failed call that is undone by another failed one, or a crash
after a failure. In `session_history` three entries reach the push limit with
something on both sides of the current one, and five documents let a traversal
return to a document that was replaced twice. URLs are symmetric.

Except for `page_turns` the runs do not check deadlock: clients
submit a bounded number of operations, and a system that has handled them and
waits for the next is at rest, not stuck (and a disk-cache thread that could
not open its store has ended). What must not get stuck is stated as
liveness. The event loop can always be pumped, so there the check stays on.

### Fairness

* **NetWorker**: weak fairness of the dispatcher (its receive has a timeout, so
  it always comes back) and of `Elapse` (time passes). A transfer is *not*
    assumed to return for `CancelledIsAnswered` and `BudgetIsEnforced`;
  `EverySubmissionAnswered` and `FailedStartStops` have `TransfersReturn` as
  hypothesis: every transfer ends, which the deadline of every transport phase
  justifies, and none panics, which the code does not exclude.
* **PageFetches**: weak fairness of a pass once begun and of the worker's answer
  (which it gives while no thread panics);
  strong fairness of the beginning of a poll, as the event loop polls between
  other work again and again.
* **RenderWorker**: weak fairness of each thread. Nothing is assumed of the owner.
* **PageRender**: weak fairness of the coordinator's own steps and of the threads
  (`Thread(w)`);
  strong fairness of `SheetsArrive`: a fetch ends, whatever handlers run meanwhile.
* **DiskCache**: weak fairness of the I/O thread, whose file system calls return,
  and of the poll a turn of the loop makes: it is enabled only while the loop is
  awake. Nothing is assumed to wake a loop that rests.
* **H2Pool** and **SessionHistory**: none; their properties are safety properties.
  Deadlines end what a server leaves open.
* **PageTurns**: weak fairness of script and page steps (scripts end) and of the
  pump while work is pending (the window keeps redrawing), strong fairness of
  `Tick`: time passes between two passes of a loop that is never idle.

## 4. Proofs

Every theorem is about the specification the runs check, with its constants
left open: any sets of operations, tabs, threads, fetches, URLs and keys, any
capacities, limits and bounds. What a proof assumes of them is the named ASSUME of
the model, which TLC evaluates in every run. Each safety theorem has the same
shape: an invariant that implies the property, shown to hold initially and to be
preserved by each action (one lemma or step per action), and a last step of
temporal logic. The invariants were checked by TLC on the runs' instances first.

| theorem | property | of |
|---|---|---|
| `TypeCorrect`, `PermitsAreExact`, `OwnedAndAnsweredOnce` | `TypeOK`, `PermitsMatchOperations`, `OneOwnerOneAnswer` | NetWorker |
| `BatchesKeepPolicy` | `BatchesInPolicy` | NetWorker |
| `EveryOperationAttended` | `NothingUnattended` | NetWorker |
| `AdmissionIsInOrder` | `AdmittedInOrder`, an action property | NetWorker |
| `WorkerServes` | `ImplementsService`: `NetWorker` implements `NetService` | NetWorker |
| `RequestsAreTracked` | `HandlesMatchSubmissions` | PageFetches |
| `PageGetsItsOwn` | `ResultsAreOwn` | PageFetches |
| `CancelledIsNotResubmitted` | `CancelledStaysParked`, an action property | PageFetches |
| `VariantsStayApart`, `ClearHolds` | `VariantsApart`, `ClearedStaysCleared` | HttpCache |
| `BudgetHolds` | `WithinBudget` | HttpCache |
| `StoringRetains` | `RetainedIsServed`, an action property | HttpCache |
| `ClearIsFinal` | `ClearedStaysGone` | DiskCache |
| `LookupsAreCurrent` | `ReadsAreCurrent` | DiskCache |
| `StoreIsBounded` | `WithinCapacity` | DiskCache |
| `LatestRenderWins`, `MarkersAreExact` | `LatestWithinBounds`, `BusyIsExact` | RenderWorker |
| `RunningRenderWins` | `OneRenderPerTab` | PageRender |
| `FramesMatchDocuments` | `ShowsOwnDocument` | PageRender |
| `RepaintsAreRemembered` | `NothingForgotten` | PageRender |
| `PageAccountsForTimers`, `PageRunsInOrder` | `TimersAccounted`, `RunInOrder` | PageTurns |
| `OneConnectionLives` | `OneLiveConnection`, an invariant and an action property | H2Pool |
| `OrphansAccounted`, `ResendsAreSafe` | `OrphansAreUploads`, `ResentOnlyUnseen` | H2Pool |
| `EntriesSettle`, `PopstateStaysHome` | `SettledEntry`, `PopstateIsOwn` | SessionHistory |

### The inductive invariants

**NetWorker, ownership** (`NetInv`). `TypeInv` adds to the types that a thread which
sends a completion holds a real job, without which the completion could break
the type of the channel. `OwnerInv` adds to the property that neither `waiting` nor the
channel holds an operation twice: that is what makes removing one copy remove
the operation from its place.

**NetWorker, policy and refinement** (`PolicyInv`). The counters of a batch can only be
exact if its requests are: `OutOnce` says that a request that has left `pending` is in
the job queue, with one thread (a panicked one keeps its own, `Carriers`) or in one
completion, and `OutOwned` that whatever is
out belongs to an operation that was admitted, so that a late completion of a
batch that has ended changes no other batch. `OperationOk` gives, per live
operation, the counters, the limits, where its missing results are, and that it
is scheduled or has something out. `ProperOutcomes` says that the outcome a thread or a
completion carries is one its transfer may have had: the refinement needs it, as
`NetService` accepts an answer only with a reason. `Lifecycle` ties the end of the dispatcher to
a constructor that failed or a pool whose threads have all panicked after the handle
was dropped, and says that it then holds nothing. `WorkerServes` then takes one lemma per action that
answers (reject, sweep, pass, schedule, complete) and shows every other to leave
what `NetService` sees unchanged. `AdmittedInOrder` is stated over
`waiting` and the channel, so that no ghost order of submission is needed, and follows
from `NetInv` step by step: an operation is in one of the two and once, hence not at
their head while another precedes it.

**PageFetches** (`FetchInv`). `Submissions` says which attempts of a request exist and that
each but the last was rejected, `Stage` how far each handle is, with the one
exception of the handle whose channel is about to be looked at (`Checked`), `Books`
and `Whole` what the results kept and delivered are the results of. A delivered
result is traced to its origin by `Own`.

**HttpCache** (`CacheInv`). That a body reaches only requests of its variant needs, of
every entry, that its body represents the variant it is kept under and that the
variant names all the server selects by (`Consistent`), and, of every answer on its
way, that it does too (`Honest`): a 304 may change the fields a variant is made of.
That the choice of an entry is defined at all needs the entries to be finitely
many and their deadlines and access numbers to be numbers. `BudgetInv` adds what the
byte counter needs: it is the sum of the entries' bytes, so that the saturating
subtraction of a dropped entry never saturates (`BytesSplit`), and the access numbers of
two entries differ and lie below the clock, so that the entry just stored is the
last that eviction to the limits would take (`InsertIs`).

**DiskCache** (`DiskInv`). `Home` is the directory a lookup reads once the worker
rests again: the active one, or the one that `begin_clear` has renamed and may yet
rename back. The invariant says of the files there (`Live`) that they were captured
since the last clear and that a whole record is the last of its key, or older than
it, or that the last went bad (`LiveOk`): reading takes the newest, pruning the oldest, so
whichever order they come in, what is left has this property. `ClientsOk` carries the
generation: what a caller or a queued command holds is the current one only if it
was captured after the last clear. `WritingOk` follows a write between its calls,
`SwapOk` and `DeletingOk` a clear between its calls. `CapacityOk` splits the bytes in two:
entries of retired directories, for which `retired_bytes_pending` answers, and
the active directory, which has the rest; while a retired directory is being
deleted, its part of the counter covers its files and the remainder covers the other
directories, or the subtraction at the end would uncover them. Proving this
found what the runs' two faults had not: with three, a temporary file whose removal
failed moves along with a retired directory, and no counter includes it. That is
the second half of `Unaccounted`.

**RenderWorker** (`PoolInv`). Stated for any set of jobs that have a tab and a
generation, so that the coordinator can use it. `MarkersExact` and `OwnJobs` relate the
markers to what threads hold, `OneSlot` says that nothing queued or held is newer
than the last submission, `ThreadOk` that a job about to lose its marker is accounted
for without it: published, or cancelled. Without the last, a tab could look idle
between its marker and its completion.

**PageRender** (`PageInv`, over `PoolInv`). `OneWay`: a tab has one render between
submission and commit, and one that is not published has no completion. It is
kept because of `CallClear`: what each of the two looks of `is_tab_busy` found stays true
until the submission: only the coordinator makes work, and a thread moves it only
from the place looked at first (the queue and its markers) to the one looked at
second (the completions), which it reaches before it leaves the first.
`ShowsOwnDocument` needs `OwnDocument` of closed tabs too.

**PageRender, repaints** (`CoverInv`, over `PageInv`). `Covered` says who will still paint the
present state of the tab in front: nobody needs to (`Settled`), or a coalesced request,
a style-sheet fetch, a call that has yet to submit, or a render of the present
revision that will come to a commit (`Live`). Every handler changes which of them it is;
a busy check, for instance, turns a call into a coalesced request. It is inductive
only with bounds on every render under way (`JobsSound`): a render of the page's
document paints a revision between the committed and the present one, and its
sheets are in the state its submission left them in, so that a first paint that
`CommitDeferred` drops has its sheets fetched. `EndsSound` says that a render reported as
cancelled was cancelled, so that what is published is painted or gives its
reason. Nothing is assumed of the capacities: the one way out of `Live` that no commit
follows is to be pushed out of the queue or of the completions, and `PushedOut` gives
the tab that reason in the same step.

**PageTurns** (`TurnsInv`). Microtasks and timers do not depend on each other, and each
half is inductive by itself. `MicroInv`: the loop's microtasks and behind them the
runtime's are in the order of their numbers, and none has a number to come.
`TimersInv`: `PlacesOk` counts, for a timer of the table, its schedule requests, its
entries in `timers` and `ready` and the script that runs for it, and the sum is one, or
zero once the loop has refused it. A timer of one shot leaves the table when it
fires, so an argument is needed that no request and no other entry of it stays behind: the sum
gives it. `RepeatsOk` is why the end of any other timer's script loses nothing.
`CancelsOk` is about order: the schedule request of a timer that is no longer in the
table has its Cancel behind it, or handling the requests one by one would arm it
after its Cancel was spent. `DeadlinesOk` keeps the ready queue in front of the
timers: an interval that is armed again is not due before anything already promoted.
`LengthsOk` has the bytes as the number of queued scripts, so that the
saturating subtraction of `RunTask` takes one off.

**H2Pool** (`H2Inv`). It has a part for the data and a part for the threads. `LinksOk` is
what keeps a handler from being given what it cannot have: the server has every
stream the client has, every stream a frame under way names and the one a header block
is open for, so that no frame is of an unknown kind or number. Of a handler the
proofs then use four facts only (`HandlesWell`, `Reports`): no stream comes, goes or turns
active again, the connection is closed exactly by errors that are not of one stream,
such an error has set no status, and what is written names streams of the server.
`PlaceOk` says, of each place a thread can be at, what it may rely on: the creation lock
and an empty pool at `connect`, a closed connection at `drop` and `evict`, its stream and the
mutex while a body is sent. `PoolOk` is why an eviction hits its own connection: the pool has
the one opened last, or none. `SentOk` follows the streams of a request: each is on the
connection the request is at, or on one that is dead and unanswered (`Retired`), and
retired ones are older. A dead connection stays dead and its streams as they are, whoever
still holds it, which is why what a thread had seen when it decided to retry stays true
(`Undisturbed`). `Attended` is the statement about orphans for each request by itself: who is at work on
its stream, or that units of its body are left unsent. A
critical section of one thread leaves what the others' conjuncts speak of alone
(`Touching`, `TouchStep`), so that each of its steps only has to show its own.

**SessionHistory** (`HistoryInv`). No entry has the number of a document yet to come, those
that carry the number of a document with scripts name URLs it visited, and what a
script asks to be recorded is a URL it has moved its document to.

### Lemmas

`DataLemmas` holds what the queues of both workers need: what the ends of a
sequence and `retain` preserve, that a finite set of numbers can be ranked and has a
largest element. For the event loop it adds how many elements of a kind a queue has
(`Count`) and whether it is in an order (`InOrder`), and what concatenation, a cut, a push, a
pop and `retain` do to both. They rest on `SequenceTheorems` and `FiniteSetTheorems`. It also holds the
laws of sums for the byte counters of both caches: `Total(w, S)` is the sum of `w` over a
finite set, `TotalIs` shows that the fold the models use computes it, and
`TotalAdd`, `TotalSplit` and `TotalPart` take it apart. Instead of an induction theorem,
`TotalExists` and `TotalAgree` look at a subset of least cardinality for which a law would
fail (`Smaller`), which the provers can follow.

### Assumptions

`OpsAssumption`, `RequestsAssumption`, `PolicyAssumption` and `CapacityAssumption` of `NetWorker`:
finitely many submissions, some of them batches, some of those with a budget; a
request sequence each, of length one unless a batch; limits are naturals;
positive capacities and a finite, non-empty pool. `PageAssumption` of `PageFetches`: a
request is made once, for one place of one batch (every `CachedRequestHandle` is
created by its own submission). `CacheAssumption`: sizes, limits and ages are naturals
(`max-age` is parsed as an unsigned number). `DiskAssumption`: sizes are positive (a record
has a header), `max_entry_bytes` is at most `max_bytes` (`disk.rs:855` refuses another), and the
queue holds a command. `PoolAssumption` of `RenderWorker`: positive
capacity and a finite, non-empty pool. `WindowAssumption` of `PageRender`: there is a first
tab and a first viewport, and no viewport is the value that stands for none. `LimitsAssumption` of `EventLoop` and `PageAssumption` of
`PageTurns`: limits, bounds and delays are naturals, and a pump has at least one turn.
`NoneAssumption`, `PoolAssumption` and `PeerAssumption` of `H2Connection` and `H2Pool`: the
value that stands for no stream, block, connection or request is none of them;
connections are numbered; bodies, limits and the server's second window are naturals.
`HistoryAssumption`: the list has room for one entry, and the
home page is not a network URL.

### Only model-checked

* Liveness, of every component: outside the prover.
* `PeerAgrees`, `WholeResponse` and `ClosedForCause` of `H2Pool`. The first compares windows
  with sums over the frames in flight; the second and the third depend on it, as a
  refused DATA frame or a false protocol error is excluded by what the two ends
  agree on. The three need one invariant over the order of the frames of each stream.
* That a body is merged only with its own validator is false: the run
  `cache_validated_body`.

## 5. Not modelled, and plan

The interpreter, the parsers, the style system, layout, paint, fonts and image and
video decoding make up most of the code. They are deterministic functions of
large data, run on one thread, and the conformance suites test them; a state
machine of them would be a transcription. HTTP/1 framing, TLS, HPACK and
decompression are byte-level codecs. The window chrome, settings and the
headless driver call what is modelled in one sequential loop. `PROJECT.json`
lists each with its reason.

What would still repay a model: the order of deferred, async and module scripts
and of the load event; worker messages as tasks of the event loop; the rendering
cursor over the mutation history; cookie replacement and eviction and live
ranges as operators against a reference definition. Compositions: handles over
the real `NetWorker`; the disk cache under `HttpCache`, once the browser uses it.

Proofs still worth the work: `PeerAgrees` of the HTTP/2 pool, with the sums of
`DataLemmas` in place of its folds, and on it `WholeResponse` and `ClosedForCause`.

## 6. Running it

```
tlc -workers 2 -config NetWorkerSafety.cfg MCNetWorker
tlapm NetWorkerProofs.tla        # and the other *Proofs modules
```

`runs` in `PROJECT.json` names the module and configuration of every run. Each ends
in about three minutes or less on two cores.
