----------------------------- MODULE PageFetches -----------------------------
(***************************************************************************)
(* The page side of the network (crates/render-browser/src/fetch_handles.rs *)
(* and submit_cached_fetch, submit_cached_batch and poll_network of         *)
(* app.rs): batches of request handles that are resolved from the cache,    *)
(* wait for the network worker, or are parked while its queue is full and   *)
(* resubmitted by a later polling pass.  All of it runs on the UI thread,   *)
(* one handle at a time, while the network worker, which this module takes  *)
(* at its word in NetService, accepts, rejects and answers.                 *)
(***************************************************************************)
EXTENDS Naturals, Sequences

CONSTANTS
    Fetches,      \* requests of a page
    Ordered,      \* sequences of fetches collected with try_recv
    Drained,      \* sequences of fetches collected with drain_ready
    Cached,       \* fetches the HTTP cache may answer
    MaxAttempts   \* bound: the queue is not full at the last attempt of a fetch

Handles == Ordered \cup Drained
Attempts == UNION {{f} \X (1..MaxAttempts[f]) : f \in Fetches}

ASSUME PageAssumption ==
    /\ MaxAttempts \in [Fetches -> Nat \ {0}]
    /\ \A h \in Handles : h \in Seq(Fetches)
    /\ \A h, k \in Handles : \A i \in DOMAIN h, j \in DOMAIN k :
          h[i] = k[j] => h = k /\ i = j   \* a request is made once, for one batch

VARIABLES
    ui,         \* what the UI thread is doing
    state,      \* CachedRequestState of each handle
    attempt,    \* submissions made for it so far
    value,      \* the result held by Ready
    results,    \* CachedBatchHandle::results
    delivered,  \* what the page was given, per batch and position
    submitted, cancelled, response   \* the network worker, as in NetService

pageVars == <<ui, state, attempt, value, results, delivered>>
netVars == <<submitted, cancelled, response>>
vars == <<pageVars, netVars>>

Net == INSTANCE NetService WITH
    Ops <- Attempts, Batches <- {}, Timed <- {}, Origins <- {"origin"},
    Requests <- [o \in Attempts |-> <<"origin">>],
    MaxConcurrency <- [o \in Attempts |-> 1],
    OriginLimit <- [o \in Attempts |-> [g \in {"origin"} |-> 1]],
    closed <- FALSE   \* the page's worker lives as long as the page

------------------------------------------------------------------------------
None == "none"
Idle == [phase |-> "idle", handle |-> <<>>, at |-> 0, checking |-> FALSE]

Last(f) == <<f, attempt[f]>>
Following(f) == <<f, attempt[f] + 1>>
\* What the response channel of the current attempt holds.
Received(f) == response[Last(f)][1][1].kind

\* RequestHandle and DeferredSubmission share the token of a retried request.
Token(f) == IF state[f] = "deferred" THEN Following(f) ELSE Last(f)

Init == /\ ui = Idle
        /\ state = [f \in Fetches |-> "unsent"]
        /\ attempt = [f \in Fetches |-> 0]
        /\ value = [f \in Fetches |-> None]
        /\ results = [h \in Handles |-> [i \in DOMAIN h |-> None]]
        /\ delivered = [h \in Handles |-> [i \in DOMAIN h |-> None]]
        /\ Net!Init

\* The handle the UI thread is at, in the given phase.
At(phase, f) == /\ ui.phase = phase /\ ~ui.checking
                /\ ui.at \in DOMAIN ui.handle /\ f = ui.handle[ui.at]
Advance == ui' = [ui EXCEPT !.at = @ + 1, !.checking = FALSE]
Check == ui' = [ui EXCEPT !.checking = TRUE]
Become(f, s) == state' = [state EXCEPT ![f] = s]
Ready(f, kind) == Become(f, "ready") /\ value' = [value EXCEPT ![f] = kind]

------------------------------------------------------------------------------
(* The network, at any time.                                                *)

Answer(o) ==
    /\ o \in Net!Unanswered
    /\ \E kind \in {"answer", "cancelled", "queueFull"} :
          /\ Net!Justified(o, 1, kind)
          /\ kind = "queueFull" => o[2] < MaxAttempts[o[1]]
          /\ response' = [response EXCEPT ![o] = <<<<[kind |-> kind, of |-> 1]>>>>]
    /\ UNCHANGED <<submitted, cancelled, pageVars>>

(* NetworkWorker::submit: accepted, or rejected because the channel is full. *)
Submit(f) ==
    /\ Net!Accept(Following(f)) \/ (attempt[f] + 1 < MaxAttempts[f] /\ Net!Reject(Following(f)))
    /\ attempt' = [attempt EXCEPT ![f] = @ + 1]
    /\ Check

------------------------------------------------------------------------------
(* submit_cached_batch.                                                     *)

StartBatch(h) ==
    /\ ui = Idle
    /\ \A i \in DOMAIN h : state[h[i]] = "unsent"
    /\ ui' = [phase |-> "submit", handle |-> h, at |-> 1, checking |-> FALSE]
    /\ UNCHANGED <<state, attempt, value, results, delivered, netVars>>

\* submit_cached_fetch: a fresh cached response.
SubmitHit(f) ==
    /\ At("submit", f) /\ f \in Cached
    /\ Ready(f, "cached")
    /\ Advance
    /\ UNCHANGED <<attempt, results, delivered, netVars>>

SubmitMiss(f) ==
    /\ At("submit", f)
    /\ Submit(f)
    /\ UNCHANGED <<state, value, results, delivered>>

\* submit_with_queue_full_backoff looks at the response channel once.
Checking(phase, f) == /\ ui.phase = phase /\ ui.checking
                      /\ f = ui.handle[ui.at]

ParksDefect(f) == response[Last(f)] = <<>> \/ Received(f) = "queueFull"
\* The queue was full, at the channel or behind it.
Parks(f) == response[Last(f)] # <<>> /\ Received(f) = "queueFull"

Settle(f) ==
    \/ /\ response[Last(f)] = <<>>
       /\ Become(f, "pending") /\ UNCHANGED value
    \/ /\ Parks(f)
       /\ Become(f, "deferred") /\ UNCHANGED value
    \/ /\ response[Last(f)] # <<>> /\ ~Parks(f)
       /\ Ready(f, Received(f))

SubmitChecked(f) ==
    /\ Checking("submit", f)
    /\ Settle(f)
    /\ Advance
    /\ UNCHANGED <<attempt, results, delivered, netVars>>

------------------------------------------------------------------------------
(* One polling pass over a batch: retry_deferred on every member, then       *)
(* try_recv or drain_ready.                                                  *)

StartPoll(h) ==
    /\ ui = Idle
    /\ \E i \in DOMAIN h : state[h[i]] \notin {"unsent", "gone"}
    /\ ui' = [phase |-> "retry", handle |-> h, at |-> 1, checking |-> FALSE]
    /\ UNCHANGED <<state, attempt, value, results, delivered, netVars>>

RetrySkip(f) ==
    /\ At("retry", f) /\ state[f] # "deferred"
    /\ Advance
    /\ UNCHANGED <<state, attempt, value, results, delivered, netVars>>

TokenIsSetDefect(f) == FALSE
TokenIsSet(f) == Token(f) \in cancelled

\* A parked request that was cancelled is never submitted again.
RetryCancelled(f) ==
    /\ At("retry", f) /\ state[f] = "deferred" /\ TokenIsSet(f)
    /\ Ready(f, "cancelled")
    /\ Advance
    /\ UNCHANGED <<attempt, results, delivered, netVars>>

RetrySubmit(f) ==
    /\ At("retry", f) /\ state[f] = "deferred" /\ ~TokenIsSet(f)
    /\ Submit(f)
    /\ UNCHANGED <<state, value, results, delivered>>

\* The check after a resubmission; it may park the request again.
RetryChecked(f) ==
    /\ Checking("retry", f)
    /\ Settle(f)
    /\ Advance
    /\ UNCHANGED <<attempt, results, delivered, netVars>>

RetryDone ==
    /\ ui.phase = "retry" /\ ui.at > Len(ui.handle)
    /\ ui' = [ui EXCEPT !.phase = "recv", !.at = 1]
    /\ UNCHANGED <<state, attempt, value, results, delivered, netVars>>

ReceivableDefect(f) == state[f] = "pending" /\ response[Last(f)] # <<>>
\* CachedRequestHandle::try_recv has a result.
Receivable(f) == \/ state[f] = "ready"
                 \/ state[f] = "pending" /\ response[Last(f)] # <<>>
OutcomeDefect(f) == IF state[f] = "ready" THEN value[f] ELSE response[<<f, 1>>][1][1].kind
Outcome(f) == IF state[f] = "ready" THEN value[f] ELSE Received(f)

\* The member is cleared together with its result.
Take(f) == Become(f, "gone") /\ value' = [value EXCEPT ![f] = None]

\* The result is taken: an ordered batch keeps it, a drained one hands it on.
Receive(f) ==
    /\ At("recv", f) /\ Receivable(f)
    /\ Take(f)
    /\ IF ui.handle \in Ordered
       THEN results' = [results EXCEPT ![ui.handle][ui.at] = Outcome(f)] /\ UNCHANGED delivered
       ELSE delivered' = [delivered EXCEPT ![ui.handle][ui.at] = Outcome(f)] /\ UNCHANGED results
    /\ Advance
    /\ UNCHANGED <<attempt, netVars>>

ReceiveSkip(f) ==
    /\ At("recv", f) /\ ~Receivable(f)
    /\ Advance
    /\ UNCHANGED <<state, attempt, value, results, delivered, netVars>>

StillWaitingDefect(h) == \E i \in DOMAIN h : state[h[i]] = "pending"
\* A member is neither received now nor before.
StillWaiting(h) == \E i \in DOMAIN h : state[h[i]] # "gone"

\* The end of the pass: an ordered batch is handed over when it is complete.
ReceiveDone ==
    /\ ui.phase = "recv" /\ ui.at > Len(ui.handle)
    /\ ui' = Idle
    /\ LET h == ui.handle
       IN  IF h \in Ordered /\ ~StillWaiting(h)
           THEN /\ delivered' = [delivered EXCEPT ![h] = results[h]]
                /\ results' = [results EXCEPT ![h] = [i \in DOMAIN h |-> None]]
           ELSE UNCHANGED <<results, delivered>>
    /\ UNCHANGED <<state, attempt, value, netVars>>

------------------------------------------------------------------------------
(* CachedBatchHandle::cancel: navigation, or the tab is closed.              *)
Waits(h) == {h[i] : i \in {j \in DOMAIN h : state[h[j]] \in {"pending", "deferred"}}}

CancelBatch(h) ==
    /\ ui = Idle
    /\ \E f \in Waits(h) : Token(f) \notin cancelled
    /\ cancelled' = cancelled \cup {Token(f) : f \in Waits(h)}
    /\ UNCHANGED <<submitted, response, pageVars>>

Step(f) == \/ SubmitHit(f) \/ SubmitMiss(f) \/ SubmitChecked(f)
           \/ RetrySkip(f) \/ RetryCancelled(f) \/ RetrySubmit(f) \/ RetryChecked(f)
           \/ Receive(f) \/ ReceiveSkip(f)

SubmitDone ==
    /\ ui.phase = "submit" /\ ui.at > Len(ui.handle)
    /\ ui' = Idle
    /\ UNCHANGED <<state, attempt, value, results, delivered, netVars>>

Running == \/ \E f \in Fetches : Step(f)
           \/ SubmitDone \/ RetryDone \/ ReceiveDone

Next == \/ \E o \in Attempts : Answer(o)
        \/ Running
        \/ \E h \in Handles : StartBatch(h) \/ StartPoll(h) \/ CancelBatch(h)

Spec == Init /\ [][Next]_vars

\* The event loop runs and polls every batch again and again, and the network
\* worker answers every submission (EverySubmissionAnswered of NetWorker).
FairSpec == /\ Spec
            /\ WF_vars(Running)
            /\ \A h \in Handles : SF_vars(StartPoll(h))
            /\ \A o \in Attempts : WF_vars(Answer(o))

------------------------------------------------------------------------------
(* Properties.                                                               *)

Kinds == {"answer", "cancelled", "queueFull", "cached"}

\* The shape of the page's state; Ready holds a result until it is taken, so
\* the unreachable! arms of the collectors are.
TypeOK ==
    /\ ui \in [phase : {"idle", "submit", "retry", "recv"},
               handle : Handles \cup {<<>>}, at : Nat, checking : BOOLEAN]
    /\ state \in [Fetches -> {"unsent", "ready", "pending", "deferred", "gone"}]
    /\ attempt \in [Fetches -> Nat] /\ \A f \in Fetches : attempt[f] <= MaxAttempts[f]
    /\ value \in [Fetches -> Kinds \cup {None}]
    /\ \A f \in Fetches : state[f] = "ready" <=> value[f] # None

\* A handle is parked only after its last submission was rejected, and a
\* handle that waits does so for a submission the worker knows: a request is
\* neither forgotten nor in flight twice.
HandlesMatchSubmissions ==
    \A f \in Fetches :
        /\ state[f] = "deferred" =>
              \/ response[Last(f)] # <<>> /\ Received(f) = "queueFull"
              \/ Checking("retry", f)
        /\ state[f] = "pending" => Last(f) \in submitted
        /\ \A n \in 1..MaxAttempts[f] :
              <<f, n>> \in submitted => \/ n = attempt[f]
                                        \/ n < attempt[f] /\ response[<<f, n>>] # <<>>

\* The page is given, for each member and at its position, what the cache or
\* the last submission of that very request produced.
DeliveredIsOwn ==
    \A h \in Handles : \A i \in DOMAIN h :
        LET f == h[i]
        IN  delivered[h][i] # None =>
              /\ state[f] = "gone"
              /\ \/ delivered[h][i] = "cached" /\ f \in Cached
                 \/ attempt[f] > 0 /\ response[Last(f)] # <<>> /\ delivered[h][i] = Received(f)
                 \/ delivered[h][i] = "cancelled" /\ Following(f) \in cancelled

\* An ordered batch is handed over whole, never in part.
OrderedIsWhole ==
    \A h \in Ordered :
        \/ \A i \in DOMAIN h : delivered[h][i] = None
        \/ \A i \in DOMAIN h : delivered[h][i] # None

\* What the page gets of a batch is its own: each result the one of the member at
\* that position, and an ordered batch all at once, however its members were
\* parked, rejected and answered in between.
ResultsAreOwn == DeliveredIsOwn /\ OrderedIsWhole

\* No request is submitted again once it was cancelled while parked.
CancelledStaysParked ==
    [][\A f \in Fetches : Following(f) \in cancelled => Following(f) \notin submitted']_vars

\* Every batch the page starts is delivered in full, however often its
\* members are parked.
EveryBatchDelivered ==
    \A h \in Handles : \A i \in DOMAIN h :
        state[h[i]] # "unsent" ~> delivered[h][i] # None
==============================================================================
