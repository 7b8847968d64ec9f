------------------------------ MODULE DiskCache ------------------------------
(***************************************************************************)
(* The disk cache of crates/render-browser/src/cache/disk.rs: the store, its *)
(* I/O worker, the directory it finds again after a crash, and the window    *)
(* that clears it (crates/render-browser/src/app.rs).                        *)
(*                                                                         *)
(* The file system is `files` and `activeExists`.  A file is known by the    *)
(* write that filled it; its number stands for its unique name and its       *)
(* modification time, which are taken to grow.  Headers and checksums are    *)
(* replaced by what they establish: the key a file seems to hold, and        *)
(* whether its contents verify.  File system failures, damage to stored      *)
(* files and crashes are together bounded by MaxTrouble.                     *)
(* Every file system call of the store is on the worker's thread, so a call  *)
(* is a step where a crash between it and the next would leave a different   *)
(* directory, and joins the step before it otherwise.                        *)
(***************************************************************************)
EXTENDS Naturals, Sequences, FiniteSets, FiniteSetsExt

CONSTANTS Writes,       \* values to store, each submitted at most once
          Keys, Key,    \* Key[w]: the key w is stored under
          Hash,         \* Hash[k]: the file name prefix of k, stable_hash
          Size,         \* Size[w]: bytes of its record
          MaxBytes, MaxEntryBytes,  \* max_bytes, max_entry_bytes
          QueueCapacity,            \* WORKER_QUEUE_CAPACITY
          MaxClears, MaxTrouble,
          None

ASSUME DiskAssumption ==
    /\ Key \in [Writes -> Keys] /\ Size \in [Writes -> Nat \ {0}]
    /\ MaxBytes \in Nat \ {0} /\ MaxEntryBytes \in 1..MaxBytes
    /\ QueueCapacity \in Nat \ {0}
    /\ None \notin Keys \cup Writes

VARIABLES files,        \* every file under the cache root
          activeExists, \* the active directory is there
          store,        \* [generation, pending]: pending is retired_bytes_pending
          shared,       \* the generation DiskCacheWorker::generation shows
          worker,       \* [pc, op, job, out]: the I/O thread
          commands, events,
          client,       \* per write: its state, and the generation captured for it
          ui,           \* [disk, pending, state, ids, awake] of the window and its loop
          past          \* history and budgets; nothing of the code reads it

vars == <<files, activeExists, store, shared, worker, commands, events, client, ui, past>>

------------------------------------------------------------------------------
(* Files.                                                                    *)

Active == 0             \* directory numbers: the active one, then retired ones
File(n, w, kind) == [n |-> n, value |-> w, dir |-> Active, kind |-> kind,
                     seems |-> Key[w], whole |-> kind = "entry"]
After(numbers) == 1 + Max({0} \cup numbers)

Entries == {f \in files : f.dir = Active /\ f.kind = "entry"}
Temporaries == {f \in files : f.dir = Active /\ f.kind = "tmp"}
Retired == {f \in files : f.dir # Active}

\* A temporary file and the entry linked from it are one file.
Bytes(fs) == MapThenSumSet(LAMBDA p : Size[p[2]], {<<f.n, f.value>> : f \in fs})

EntriesMatchingHash(k) == {f \in Entries : Hash[Key[f.value]] = Hash[k]}

\* Defect: the checksum is not compared.
ReadEntryDefect(f, k) ==
    CASE f.seems = None -> "Corrupt"
      [] f.seems # None /\ f.seems # k -> "KeyMismatch"
      [] OTHER -> "Value"

ReadEntry(f, k) ==
    CASE f.seems = None -> "Corrupt"          \* header or length
      [] f.seems # None /\ f.seems # k -> "KeyMismatch"
      [] f.seems = k /\ ~f.whole -> "Corrupt" \* checksum
      [] OTHER -> "Value"

\* The loop of read stops at the newest candidate that verifies.
Answers(k) == {f \in EntriesMatchingHash(k) : ReadEntry(f, k) = "Value"}
Newest(fs) == {f \in fs : \A g \in fs : g.n <= f.n}
Examined(k) == {f \in EntriesMatchingHash(k) :
                    \A g \in Newest(Answers(k)) : f.n >= g.n}
Discarded(k) == {f \in Examined(k) : ReadEntry(f, k) = "Corrupt"}

AvailableActiveBytes == IF store.pending > MaxBytes THEN 0 ELSE MaxBytes - store.pending

\* What prune_for_write removes: nothing, or oldest first until there is room.
\* Defect: the newest go first.
OlderDefect(f) == {g \in Entries : g.n > f.n}

Older(f) == {g \in Entries : g.n < f.n}
Pruned(bytes) ==
    {f \in Entries : Bytes(Entries \ Older(f)) + bytes > AvailableActiveBytes}

------------------------------------------------------------------------------
(* Faults: a file system call that fails spends one of MaxTrouble.           *)

Faults(n) == /\ past.trouble + n <= MaxTrouble
             /\ past' = [past EXCEPT !.trouble = @ + n]

Answer(event, next) ==
    worker' = [pc |-> "send", op |-> IF next = "delete" THEN worker.op ELSE None,
               job |-> next, out |-> event]
Event(kind, id, ok, value) == [kind |-> kind, id |-> id, ok |-> ok, value |-> value]

------------------------------------------------------------------------------
(* The worker: opening the store.                                            *)

Open == /\ worker.pc = "open"
        /\ files' = Entries
        /\ activeExists' = TRUE
        /\ store' = [generation |-> 0, pending |-> 0]
        /\ shared' = 0
        /\ Answer(Event("Ready", None, TRUE, None), "idle")
        /\ UNCHANGED <<commands, events, client, ui, past>>

\* A directory cannot be made, or the removal of leftovers stops part way.
OpenFails ==
    /\ worker.pc = "open"
    /\ \/ UNCHANGED <<files, activeExists>>
       \/ /\ activeExists' = TRUE
          /\ \E gone \in SUBSET (Temporaries \cup Retired) : files' = files \ gone
    /\ Faults(1)
    /\ Answer(Event("Ready", None, FALSE, None), "exited")
    /\ UNCHANGED <<store, shared, commands, events, client, ui>>

\* What the window reads of an event: Ready and ClearFinished.
Seen(e) == IF e.kind \in {"Ready", "ClearFinished"} THEN e
           ELSE Event("Other", None, TRUE, None)

\* events.send blocks while the queue is full.
Send == /\ worker.pc = "send"
        /\ Len(events) < QueueCapacity
        /\ events' = Append(events, Seen(worker.out))
        /\ worker' = [worker EXCEPT !.pc = worker.job, !.job = None, !.out = None]
        /\ UNCHANGED <<files, activeExists, store, shared, commands, client, ui, past>>

------------------------------------------------------------------------------
(* The worker: one command.                                                  *)

TakeNext(kind) ==
    /\ worker.pc = "idle"
    /\ commands # <<>> /\ Head(commands).kind = kind
    /\ commands' = Tail(commands)

Result(ok, value) == Answer(Event("Read", Head(commands).key, ok, value), "idle")

Read ==
    /\ TakeNext("Read")
    /\ LET k == Head(commands).key IN
       \/ /\ activeExists
          /\ \/ files' = files \ Discarded(k) /\ UNCHANGED past
             \/ Discarded(k) # {} /\ Faults(1) /\ UNCHANGED files    \* removal: _ignored
          /\ Result(TRUE, IF Answers(k) = {} THEN None
                          ELSE CHOOSE f \in Newest(Answers(k)) : TRUE)
       \/ /\ activeExists
          /\ \E f \in Examined(k) : files' = files \ {g \in Discarded(k) : g.n > f.n}
          /\ Faults(1)
          /\ Result(FALSE, None)
       \/ /\ ~activeExists
          /\ Result(FALSE, None)
          /\ UNCHANGED <<files, past>>
    /\ UNCHANGED <<activeExists, store, shared, events, client, ui>>

Written(w, ok) == Answer(Event("Write", w, ok, None), "idle")

\* Defect: the captured generation is not compared.
RefusedDefect(c) == Size[c.value] > MaxEntryBytes

\* Refused before the directory is looked at, and for want of room after the
\* leftover temporary files are gone.
Refused(c) == c.generation # store.generation \/ Size[c.value] > MaxEntryBytes
NoRoom(c) == Size[c.value] > AvailableActiveBytes

WriteSkipped ==
    /\ TakeNext("Write")
    /\ LET c == Head(commands) IN
       /\ \/ Refused(c) /\ UNCHANGED files
          \/ ~Refused(c) /\ activeExists /\ NoRoom(c) /\ files' = files \ Temporaries
       /\ Written(c.value, TRUE)
    /\ UNCHANGED <<activeExists, store, shared, events, client, ui, past>>

\* Room is made and the temporary file created; its contents are not yet whole.
WriteBegins ==
    /\ TakeNext("Write")
    /\ ~Refused(Head(commands)) /\ activeExists /\ ~NoRoom(Head(commands))
    /\ LET w == Head(commands).value
           left == Entries \ Pruned(Size[w])
       IN  /\ files' = Retired \cup left \cup {File(After({f.n : f \in files}), w, "tmp")}
           /\ worker' = [worker EXCEPT !.pc = "fill", !.op = w]
    /\ UNCHANGED <<activeExists, store, shared, events, client, ui, past>>

\* The directory cannot be read, a leftover or an old entry cannot be removed,
\* or the temporary file cannot be created.
WriteCannotBegin ==
    /\ TakeNext("Write")
    /\ ~Refused(Head(commands))
    /\ LET w == Head(commands).value IN
       /\ \/ ~activeExists /\ UNCHANGED <<files, past>>
          \/ /\ activeExists /\ Faults(1)
             /\ \E gone \in SUBSET Temporaries : files' = files \ gone
          \/ /\ activeExists /\ ~NoRoom(Head(commands)) /\ Faults(1)
             /\ \E gone \in {Pruned(Size[w])} \cup {Older(f) : f \in Pruned(Size[w])} :
                    files' = (files \ Temporaries) \ gone
       /\ Written(w, FALSE)
    /\ UNCHANGED <<activeExists, store, shared, events, client, ui>>

\* write_record and sync_all; a failure removes the file, if it can.
WriteFills ==
    /\ worker.pc = "fill"
    /\ \/ /\ files' = (files \ Temporaries) \cup {[f EXCEPT !.whole = TRUE] : f \in Temporaries}
          /\ worker' = [worker EXCEPT !.pc = "link"]
          /\ UNCHANGED past
       \/ files' = files \ Temporaries /\ Faults(1) /\ Written(worker.op, FALSE)
       \/ UNCHANGED files /\ Faults(2) /\ Written(worker.op, FALSE)
    /\ UNCHANGED <<activeExists, store, shared, commands, events, client, ui>>

WriteLinks ==
    /\ worker.pc = "link"
    /\ \/ /\ files' = files \cup {[f EXCEPT !.kind = "entry"] : f \in Temporaries}
          /\ worker' = [worker EXCEPT !.pc = "unlink"]
          /\ past' = [past EXCEPT !.latest[Key[worker.op]] = worker.op]
       \/ files' = files \ Temporaries /\ Faults(1) /\ Written(worker.op, FALSE)
       \/ UNCHANGED files /\ Faults(2) /\ Written(worker.op, FALSE)
    /\ UNCHANGED <<activeExists, store, shared, commands, events, client, ui>>

WriteUnlinks ==
    /\ worker.pc = "unlink"
    /\ \/ files' = files \ Temporaries /\ Written(worker.op, TRUE) /\ UNCHANGED past
       \/ UNCHANGED files /\ Faults(1) /\ Written(worker.op, FALSE)
    /\ UNCHANGED <<activeExists, store, shared, commands, events, client, ui>>

------------------------------------------------------------------------------
(* The worker: clearing.                                                     *)

\* Defect: the error is dropped.
ClearFailedDefect(id) == worker' = [worker EXCEPT !.pc = "idle", !.op = None]

ClearFailed(id) == Answer(Event("ClearFinished", id, FALSE, None), "idle")

\* begin_clear up to its rename.  The job is the retired directory, its bytes
\* and the command's number.
ClearBegins ==
    /\ TakeNext("Clear")
    /\ LET dir == After({f.dir : f \in files}) IN
       /\ files' = Retired \cup {[f EXCEPT !.dir = dir] : f \in files \ Retired}
       /\ worker' = [worker EXCEPT !.pc = "mkdir",
                         !.op = [id |-> Head(commands).id, dir |-> dir, bytes |-> Bytes(Entries)]]
    /\ activeExists' = FALSE
    /\ UNCHANGED <<store, shared, events, client, ui, past>>

\* The directory cannot be inspected or created, or the rename fails.
ClearCannotBegin ==
    /\ TakeNext("Clear")
    /\ activeExists' \in {activeExists, TRUE}
    /\ Faults(1)
    /\ ClearFailed(Head(commands).id)
    /\ UNCHANGED <<files, store, shared, events, client, ui>>

Moved(from, to) == {IF f.dir = from THEN [f EXCEPT !.dir = to] ELSE f : f \in files}

\* Defect: retired bytes count for nothing until they are deleted.
AddPendingDefect == store.pending

AddPending == store.pending + worker.op.bytes

\* The fresh directory; the generation grows with it.
ClearSwaps ==
    /\ worker.pc = "mkdir"
    /\ activeExists' = TRUE
    /\ store' = [generation |-> store.generation + 1, pending |-> AddPending]
    /\ worker' = [worker EXCEPT !.pc = "publish"]
    /\ past' = [past EXCEPT !.clears = @ + 1, !.latest = [k \in Keys |-> None]]
    /\ UNCHANGED <<files, shared, commands, events, client, ui>>

\* It cannot be made: the old one is renamed back, if it can be.
ClearCannotSwap ==
    /\ worker.pc = "mkdir"
    /\ \/ Faults(1) /\ activeExists' = TRUE /\ files' = Moved(worker.op.dir, Active)
       \/ /\ past.trouble + 2 <= MaxTrouble
          /\ past' = [past EXCEPT !.trouble = @ + 2,
                                  !.stranded = @ \cup {f \in files : f.dir = worker.op.dir}]
          /\ UNCHANGED <<files, activeExists>>
    /\ ClearFailed(worker.op.id)
    /\ UNCHANGED <<store, shared, commands, events, client, ui>>

ClearPublishes ==
    /\ worker.pc = "publish"
    /\ shared' = store.generation
    /\ Answer(Event("ClearStarted", worker.op.id, TRUE, None), "delete")
    /\ UNCHANGED <<files, activeExists, store, commands, events, client, ui, past>>

\* finish_clear: remove_dir_all, whole or part way to a failure.
ClearFinishes ==
    /\ worker.pc = "delete"
    /\ LET old == {f \in files : f.dir = worker.op.dir} IN
       \/ /\ files' = files \ old
          /\ store' = [store EXCEPT !.pending = IF worker.op.bytes > @ THEN 0 ELSE @ - worker.op.bytes]
          /\ Answer(Event("ClearFinished", worker.op.id, TRUE, None), "idle")
          /\ UNCHANGED past
       \/ /\ \E gone \in SUBSET old : files' = files \ gone
          /\ Faults(1)
          /\ ClearFailed(worker.op.id)
          /\ UNCHANGED store
    /\ UNCHANGED <<activeExists, shared, commands, events, client, ui>>

Worker == \/ Open \/ OpenFails \/ Send \/ Read
          \/ WriteSkipped \/ WriteBegins \/ WriteCannotBegin
          \/ WriteFills \/ WriteLinks \/ WriteUnlinks
          \/ ClearBegins \/ ClearCannotBegin \/ ClearSwaps \/ ClearCannotSwap
          \/ ClearPublishes \/ ClearFinishes

------------------------------------------------------------------------------
(* The thread that owns the handle.  enqueue never waits: a full queue, or a *)
(* worker that has gone, is an error to the caller.                          *)

Accepts == ui.disk /\ worker.pc # "exited" /\ Len(commands) < QueueCapacity
Command(kind, id, key, value, generation) ==
    [kind |-> kind, id |-> id, key |-> key, value |-> value, generation |-> generation]

\* A caller reads the generation, and only later has the bytes to store.
Capture(w) ==
    /\ ui.disk /\ client[w].state = "new"
    /\ client' = [client EXCEPT ![w] = [state |-> "captured", generation |-> shared]]
    /\ past' = [past EXCEPT !.era[w] = past.clears]
    /\ UNCHANGED <<files, activeExists, store, shared, worker, commands, events, ui>>

SubmitWrite(w) ==
    /\ client[w].state = "captured"
    /\ client' = [client EXCEPT ![w].state = "sent"]
    /\ commands' = IF Accepts
                   THEN Append(commands, Command("Write", None, Key[w], w, client[w].generation))
                   ELSE commands
    /\ UNCHANGED <<files, activeExists, store, shared, worker, events, ui, past>>

SubmitRead(k) ==
    /\ Accepts
    /\ commands' = Append(commands, Command("Read", None, k, None, 0))
    /\ UNCHANGED <<files, activeExists, store, shared, worker, events, client, ui, past>>

\* clear_http_cache; the memory cache is HttpCache's.
ClearHttpCache ==
    /\ ui.state # "clearing" /\ ui.ids < MaxClears
    /\ \/ /\ Accepts
          /\ commands' = Append(commands, Command("Clear", ui.ids + 1, None, None, 0))
          /\ ui' = [ui EXCEPT !.pending = ui.ids + 1, !.state = "clearing", !.ids = @ + 1]
       \/ /\ ui.disk /\ ~Accepts
          /\ ui' = [ui EXCEPT !.state = "failed", !.ids = @ + 1]
          /\ UNCHANGED commands
       \/ /\ ~ui.disk
          /\ ui' = [ui EXCEPT !.state = "cleared", !.ids = @ + 1]
          /\ UNCHANGED commands
    /\ UNCHANGED <<files, activeExists, store, shared, worker, events, client, past>>

\* poll_disk_cache takes every event there is.  Only one clear is pending at a
\* time, and a Ready that failed is the last event of its worker.  It runs in
\* about_to_wait, which then lets the loop rest or not: a pending clear is no
\* pending_work, so the rest of the browser decides.  With no clear pending nothing
\* is assumed of the loop, and its rests are left out.
Disabled == \E i \in DOMAIN events : events[i].kind = "Ready" /\ ~events[i].ok
Finished == {events[i] : i \in {j \in DOMAIN events :
                 events[j].kind = "ClearFinished" /\ events[j].id = ui.pending}}

Resolved == Disabled \/ Finished # {}

PollDiskCache ==
    /\ ui.awake
    /\ events' = <<>>
    /\ \E pendingWork \in BOOLEAN : ui' = [ui EXCEPT
          !.disk = @ /\ ~Disabled,
          !.pending = IF Resolved THEN 0 ELSE @,
          !.state = CASE Finished # {} -> IF \A e \in Finished : e.ok THEN "cleared" ELSE "failed"
                      [] Finished = {} /\ Disabled /\ ui.pending # 0 -> "failed"
                      [] OTHER -> @,
          !.awake = pendingWork \/ ui.pending = 0 \/ Resolved]
    /\ UNCHANGED <<files, activeExists, store, shared, worker, commands, client, past>>

------------------------------------------------------------------------------
(* The environment.                                                          *)

\* Something wakes the resting loop: input, a timer.  The I/O thread does not.
WakesUp ==
    /\ ~ui.awake
    /\ ui' = [ui EXCEPT !.awake = TRUE]
    /\ UNCHANGED <<files, activeExists, store, shared, worker, commands, events, client, past>>

\* The process ends anywhere and starts again on the directory it left.
Crash ==
    /\ Faults(1)
    /\ worker' = [pc |-> "open", op |-> None, job |-> None, out |-> None]
    /\ store' = [generation |-> 0, pending |-> 0]
    /\ shared' = 0
    /\ commands' = <<>> /\ events' = <<>>
    /\ client' = [w \in Writes |-> IF client[w].state = "captured"
                                   THEN [client[w] EXCEPT !.state = "sent"] ELSE client[w]]
    /\ ui' = [disk |-> TRUE, pending |-> 0, state |-> "ready", ids |-> ui.ids, awake |-> TRUE]
    /\ UNCHANGED <<files, activeExists>>

\* A stored entry goes bad: its header, its key or its value.
Damage(f) ==
    /\ past.trouble < MaxTrouble
    /\ f.whole
    /\ \E k \in Keys \cup {None} :
           files' = (files \ {f}) \cup {[f EXCEPT !.whole = FALSE, !.seems = k]}
    /\ past' = [past EXCEPT !.trouble = @ + 1, !.damaged = @ \cup {f.value}]
    /\ UNCHANGED <<activeExists, store, shared, worker, commands, events, client, ui>>

Init ==
    /\ files = {} /\ activeExists = FALSE
    /\ store = [generation |-> 0, pending |-> 0] /\ shared = 0
    /\ worker = [pc |-> "open", op |-> None, job |-> None, out |-> None]
    /\ commands = <<>> /\ events = <<>>
    /\ client = [w \in Writes |-> [state |-> "new", generation |-> 0]]
    /\ ui = [disk |-> TRUE, pending |-> 0, state |-> "ready", ids |-> 0, awake |-> TRUE]
    /\ past = [clears |-> 0, era |-> [w \in Writes |-> 0], latest |-> [k \in Keys |-> None],
               damaged |-> {}, stranded |-> {}, trouble |-> 0]

Next == \/ Worker
        \/ \E w \in Writes : Capture(w) \/ SubmitWrite(w)
        \/ \E k \in Keys : SubmitRead(k)
        \/ ClearHttpCache \/ PollDiskCache
        \/ WakesUp \/ Crash
        \/ \E f \in Entries : Damage(f)

\* The I/O thread runs, and a loop that does not rest goes on to its next turn.
\* Nothing has to wake one that rests.
Spec == /\ Init /\ [][Next]_vars
        /\ WF_vars(Worker)
        /\ WF_vars(PollDiskCache /\ ui.pending # 0 /\ events # <<>>)

------------------------------------------------------------------------------
(* Properties.                                                               *)

Reading == worker.pc = "send" /\ worker.out.kind = "Read" /\ worker.out.value # None
ReadFile == worker.out.value

\* "This never returns unverified bytes": what read answers is a record whose
\* header and checksum verify and whose key is the one asked for, even when two
\* keys share a hash prefix, a crash left a half-written file or a stored file
\* went bad.  Behind it are the order of write_atomic (fill, sync, link) and the
\* checks of read_entry.
VerifiedReads == Reading => ReadFile.whole /\ Key[ReadFile.value] = worker.out.id

\* A lookup answers with the value stored last under its key since the last
\* clear, or with a miss, never with one that a later write replaced: writes
\* leave the older record in place, so this rests on newest_first in read and
\* oldest_first in prune_for_write agreeing across failed writes, pruning,
\* crashes and undone clears.  A newest record that went bad is the exception:
\* read goes on to the record before it.
NeverOlder == Reading => LET latest == past.latest[worker.out.id] IN
                         ReadFile.value = latest \/ latest \in past.damaged

\* What a lookup is answered with is whole, its own and current.
ReadsAreCurrent == VerifiedReads /\ NeverOlder

\* Whatever a caller captured the generation for before a clear swapped the
\* directories is gone from the active directory for good: a write that was on
\* its way is refused, a crash between the rename and the deletion does not
\* bring the old directory back, and a new process does not reuse a generation
\* number a live write still carries.
ClearedStaysGone == \A f \in Entries : past.era[f.value] = past.clears

\* What nothing accounts for until the next start: a directory begin_clear could
\* neither replace nor put back, and the temporary files a retired directory took
\* along, which its retired_bytes leaves out.
Unaccounted == {f \in files : \/ f.dir # Active /\ f.kind = "tmp"
                              \/ \E g \in past.stranded : g.dir = f.dir /\ g.n = f.n}

\* The entries, the temporary file being written and the entries of retired
\* directories together stay within max_bytes, with deletions that failed counted
\* against what may be stored; all but what is Unaccounted.
WithinCapacity == Bytes(files \ Unaccounted) <= MaxBytes

\* A clear the window waits for is answered: it is done, or has failed, or the
\* process ended; a failed start, a failed swap and a full event queue included.
\* The one way it stays unanswered is a loop that rests on an event it has not
\* read: the I/O thread never owes the window an answer.
ClearResolves == ui.pending # 0 ~> ui.pending = 0 \/ (~ui.awake /\ events # <<>>)
=============================================================================
