------------------------------ MODULE TabProofs ------------------------------
(***************************************************************************)
(* Proofs about two records a tab keeps: PageFetches, its page's requests,   *)
(* for every set of requests, every batching of them and any number of       *)
(* resubmissions; and SessionHistory, for every set of URLs, every limit of  *)
(* the list and any number of documents, requests and entries.               *)
(***************************************************************************)
EXTENDS PageFetches, SessionHistory, SequenceTheorems, TLAPS

------------------------------------------------------------------------------
(***************************************************************************)
(* The page's requests.                                                      *)
(***************************************************************************)

\* The response channel of a submission that was answered.
Sent(kind) == <<<<[kind |-> kind, of |-> 1]>>>>
NetKinds == {"answer", "cancelled", "queueFull"}

NetOk == /\ submitted \subseteq Attempts /\ cancelled \subseteq Attempts
         /\ response \in [Attempts -> {<<>>} \cup {Sent(k) : k \in NetKinds}]

\* What the UI thread knows of the handle it is at.
UiOk ==
    /\ ui.phase = "idle" => ui = Idle
    /\ ui.phase # "idle" => ui.handle \in Handles /\ ui.at # 0
    /\ ui.checking => ui.phase \in {"submit", "retry"} /\ ui.at \in DOMAIN ui.handle
    /\ ui.phase = "submit" =>
          \A i \in DOMAIN ui.handle : i >= ui.at => state[ui.handle[i]] = "unsent"
    /\ ui.phase = "retry" /\ ui.checking => state[ui.handle[ui.at]] = "deferred"

\* The handle whose response channel is about to be looked at.
Checked(f) == ui.checking /\ f = ui.handle[ui.at]

\* The submissions of f are its first attempts: every one before the last was
\* rejected, and one that was rejected is not the last that may be made.
Submissions(f) ==
    \A n \in 1..MaxAttempts[f] :
        /\ <<f, n>> \in submitted <=> n <= attempt[f]
        /\ n < attempt[f] => response[<<f, n>>] = Sent("queueFull")
        /\ n > attempt[f] => response[<<f, n>>] = <<>>
        /\ response[<<f, n>>] = Sent("queueFull") => n < MaxAttempts[f]

\* kind is what the cache, the last submission or the token of f has made of it.
Own(f, kind) ==
    \/ kind = "cached" /\ f \in Cached
    \/ attempt[f] > 0 /\ response[Last(f)] # <<>> /\ kind = Received(f)
    \/ kind = "cancelled" /\ Following(f) \in cancelled

\* How far each handle is, and with which submissions.
Stage(f) ==
    /\ state[f] = "unsent" => /\ attempt[f] = IF Checked(f) THEN 1 ELSE 0
                              /\ \A n \in 1..MaxAttempts[f] : <<f, n>> \notin cancelled
    /\ state[f] \in {"pending", "deferred"} => attempt[f] > 0
    /\ state[f] = "deferred" /\ ~Checked(f) => response[Last(f)] = Sent("queueFull")
    /\ state[f] = "ready" => Own(f, value[f])

\* The results kept and delivered are those of members that are gone.
Kept(h, of) == \A i \in DOMAIN h : of[i] # None => state[h[i]] = "gone" /\ Own(h[i], of[i])

\* An ordered batch has either delivered nothing, and keeps the result of every
\* member that is gone, or has delivered everything and is not polled again.
Whole(h) ==
    \/ \A i \in DOMAIN h : /\ delivered[h][i] = None
                           /\ state[h[i]] = "gone" => results[h][i] # None
    \/ /\ \A i \in DOMAIN h : delivered[h][i] # None
       /\ ui.phase \in {"retry", "recv"} => ui.handle # h

Books(h) == Kept(h, results[h]) /\ Kept(h, delivered[h])

Slots == [h \in Handles |-> [DOMAIN h -> Kinds \cup {None}]]
SlotsOk(of) == of = [h \in Handles |-> of[h]] /\ \A h \in Handles : of[h] \in Slots[h]

FetchInv ==
    /\ TypeOK /\ NetOk /\ SlotsOk(results) /\ SlotsOk(delivered)
    /\ UiOk
    /\ \A f \in Fetches : Submissions(f) /\ Stage(f)
    /\ \A h \in Handles : Books(h)
    /\ \A h \in Ordered : Whole(h)

------------------------------------------------------------------------------
(* The parts.                                                                *)

LEMMA AttemptsAre ==
    /\ \A f \in Fetches : MaxAttempts[f] \in Nat \ {0}
    /\ \A f \in Fetches, n \in Nat : <<f, n>> \in Attempts <=> n \in 1..MaxAttempts[f]
    /\ \A o \in Attempts : \E f \in Fetches : \E n \in 1..MaxAttempts[f] : o = <<f, n>>
<1>1. \A f \in Fetches : MaxAttempts[f] \in Nat \ {0}
  BY PageAssumption
<1>2. \A f \in Fetches, n \in Nat : <<f, n>> \in Attempts <=> n \in 1..MaxAttempts[f]
  BY DEF Attempts
<1>3. \A o \in Attempts : \E f \in Fetches : \E n \in 1..MaxAttempts[f] : o = <<f, n>>
  BY DEF Attempts
<1> QED  BY <1>1, <1>2, <1>3

(* A request has one place in one batch.                                     *)
LEMMA Places ==
    ASSUME NEW h \in Handles, NEW i \in DOMAIN h
    PROVE  /\ h[i] \in Fetches /\ i \in Nat \ {0}
           /\ \A k \in Handles : \A j \in DOMAIN k : h[i] = k[j] => h = k /\ i = j
<1>1. h \in Seq(Fetches)
  BY PageAssumption
<1>2. DOMAIN h = 1..Len(h) /\ Len(h) \in Nat
  BY <1>1, LenProperties
<1>3. h[i] \in Fetches
  BY <1>1, <1>2, ElementOfSeq
<1> QED  BY <1>2, <1>3, PageAssumption

LEMMA SentIs == \A k : Sent(k) # <<>> /\ Sent(k)[1][1].kind = k
  BY DEF Sent

(* What a response channel holds.                                            *)
LEMMA Responses ==
    ASSUME NetOk, NEW o \in Attempts, response[o] # <<>>
    PROVE  /\ response[o][1][1].kind \in NetKinds
           /\ response[o] = Sent(response[o][1][1].kind)
  BY SentIs DEF NetOk

(* What a member's own result is does not change once it has one.            *)
LEMMA OwnKeeps ==
    ASSUME NEW g \in Fetches, NEW kind, Own(g, kind),
           attempt'[g] = attempt[g], cancelled \subseteq cancelled',
           attempt[g] > 0 /\ response[Last(g)] # <<>> => response'[Last(g)] = response[Last(g)]
    PROVE  Own(g, kind)'
<1>1. Last(g)' = Last(g) /\ Following(g)' = Following(g)
  BY DEF Last, Following
<1> QED  BY <1>1 DEF Own, Received

(* A step that does not touch request g.                                     *)
LEMMA OtherKeeps ==
    ASSUME FetchInv, NEW g \in Fetches,
           state'[g] = state[g], attempt'[g] = attempt[g], value'[g] = value[g],
           cancelled' = cancelled, Checked(g)' <=> Checked(g),
           \A n \in 1..MaxAttempts[g] : /\ <<g, n>> \in submitted' <=> <<g, n>> \in submitted
                                        /\ response'[<<g, n>>] = response[<<g, n>>]
    PROVE  Submissions(g)' /\ Stage(g)'
<1>1. Last(g)' = Last(g)
  BY DEF Last
<1>2. attempt[g] \in Nat /\ attempt[g] <= MaxAttempts[g] /\ MaxAttempts[g] \in Nat
  BY AttemptsAre DEF FetchInv, TypeOK
<1>3. attempt[g] > 0 => response'[Last(g)] = response[Last(g)]
  BY <1>2 DEF Last
<1>4. Submissions(g)'
  BY DEF FetchInv, Submissions
<1>5. Stage(g) /\ (state[g] = "ready" => Own(g, value[g])')
  BY <1>3, OwnKeeps DEF FetchInv, Stage
<1>6. Stage(g)'
  BY <1>1, <1>2, <1>3, <1>5 DEF Stage
<1> QED  BY <1>4, <1>6

(* A step that takes no result and hands none over.                          *)
LEMMA BooksKeep ==
    ASSUME FetchInv, UNCHANGED <<results, delivered>>, cancelled \subseteq cancelled',
           \A g \in Fetches :
               /\ state'[g] = "gone" <=> state[g] = "gone"
               /\ state[g] = "gone" =>
                     /\ attempt'[g] = attempt[g]
                     /\ attempt[g] > 0 /\ response[Last(g)] # <<>> =>
                           response'[Last(g)] = response[Last(g)],
           ui'.phase \in {"retry", "recv"} =>
               \/ ui.phase \in {"retry", "recv"} /\ ui'.handle = ui.handle
               \/ \E i \in DOMAIN ui'.handle : state[ui'.handle[i]] # "gone"
    PROVE  (\A h \in Handles : Books(h)') /\ (\A h \in Ordered : Whole(h)')
<1>1. ASSUME NEW h \in Handles, NEW of, Kept(h, of) PROVE (\A i \in DOMAIN h :
                of[i] # None => state'[h[i]] = "gone" /\ Own(h[i], of[i])')
  <2> SUFFICES ASSUME NEW i \in DOMAIN h, of[i] # None
               PROVE  state'[h[i]] = "gone" /\ Own(h[i], of[i])'
    OBVIOUS
  <2>1. h[i] \in Fetches /\ state[h[i]] = "gone" /\ Own(h[i], of[i])
    BY <1>1, Places DEF Kept
  <2> QED  BY <2>1, OwnKeeps
<1>2. \A h \in Handles : Books(h)'
  BY <1>1 DEF FetchInv, Books, Kept
<1>3. ASSUME NEW h \in Ordered PROVE Whole(h)'
  <2>1. h \in Handles /\ Whole(h) /\ Kept(h, delivered[h])
    BY DEF Handles, FetchInv, Books
  <2>2. \A i \in DOMAIN h : h[i] \in Fetches
    BY <2>1, Places
  <2> QED  BY <2>1, <2>2 DEF Whole, Kept
<1> QED  BY <1>2, <1>3

(* A step of the UI thread from one handle or phase to another.              *)
LEMMA UiKeeps ==
    ASSUME FetchInv, UNCHANGED <<state, attempt, value, results, delivered, netVars>>,
           ~ui.checking, ~ui'.checking, UiOk',
           ui' \in [phase : {"idle", "submit", "retry", "recv"},
                    handle : Handles \cup {<<>>}, at : Nat, checking : BOOLEAN],
           ui'.phase \in {"retry", "recv"} =>
               \/ ui.phase \in {"retry", "recv"} /\ ui'.handle = ui.handle
               \/ \E i \in DOMAIN ui'.handle : state[ui'.handle[i]] # "gone"
    PROVE  FetchInv'
<1>1. UNCHANGED <<submitted, cancelled, response>>
  BY DEF netVars
<1>2. TypeOK' /\ NetOk' /\ SlotsOk(results)' /\ SlotsOk(delivered)'
  BY <1>1 DEF FetchInv, TypeOK, NetOk, SlotsOk, Slots
<1>3. \A f \in Fetches : Submissions(f)' /\ Stage(f)'
  BY <1>1, OtherKeeps DEF Checked
<1>4. (\A h \in Handles : Books(h)') /\ (\A h \in Ordered : Whole(h)')
  BY <1>1, BooksKeep
<1> QED  BY <1>2, <1>3, <1>4 DEF FetchInv

------------------------------------------------------------------------------
(* Submitting and looking at the answer.                                     *)

\* The handle the UI thread is at.
Here(f) == /\ ui.handle \in Handles /\ ui.at \in DOMAIN ui.handle
           /\ f = ui.handle[ui.at] /\ ui.phase # "idle"

LEMMA OneHere ==
    ASSUME FetchInv, NEW f \in Fetches, ui.at \in DOMAIN ui.handle, f = ui.handle[ui.at],
           ui.phase # "idle"
    PROVE  /\ Here(f)
           /\ \A j \in DOMAIN ui.handle : j > ui.at => ui.handle[j] # f
           /\ \A i \in DOMAIN ui.handle : i \in Nat
           /\ ui.at \in Nat
<1>1. ui.handle \in Handles
  BY DEF FetchInv, UiOk
<1> QED  BY <1>1, Places DEF Here

(* The step to the next handle.                                              *)
LEMMA AdvanceUi ==
    ASSUME FetchInv, NEW f \in Fetches, Here(f), Advance,
           \A g \in Fetches \ {f} : state[g] = "unsent" => state'[g] = "unsent"
    PROVE  /\ ui' \in [phase : {"idle", "submit", "retry", "recv"},
                       handle : Handles \cup {<<>>}, at : Nat, checking : BOOLEAN]
           /\ UiOk'
           /\ ~ui'.checking /\ ui'.handle = ui.handle /\ ui'.phase = ui.phase
<1>1. /\ ui \in [phase : {"idle", "submit", "retry", "recv"},
                 handle : Handles \cup {<<>>}, at : Nat, checking : BOOLEAN]
      /\ UiOk
  BY DEF FetchInv, TypeOK
<1>2. ui' = [ui EXCEPT !.at = ui.at + 1, !.checking = FALSE]
  BY DEF Advance
<1>3. /\ ui'.phase = ui.phase /\ ui'.handle = ui.handle /\ ui'.at = ui.at + 1
      /\ ui'.checking = FALSE
  BY <1>1, <1>2
<1>4. ui' \in [phase : {"idle", "submit", "retry", "recv"},
               handle : Handles \cup {<<>>}, at : Nat, checking : BOOLEAN]
  <2>1. ui' = [phase |-> ui.phase, handle |-> ui.handle, at |-> ui.at + 1, checking |-> FALSE]
    BY <1>1, <1>2
  <2>2. ui.at + 1 \in Nat
    BY <1>1
  <2> QED  BY <1>1, <2>1, <2>2
<1>5. /\ \A i \in DOMAIN ui.handle : ui.handle[i] \in Fetches /\ i \in Nat
      /\ \A j \in DOMAIN ui.handle : j > ui.at => ui.handle[j] # f
      /\ ui.at \in Nat
  BY OneHere, Places DEF Here
<1>6. UiOk'
  BY <1>1, <1>3, <1>5 DEF UiOk, Here
<1> QED  BY <1>3, <1>4, <1>6

(* A rejected submission of one request.                                     *)
LEMMA Rejected ==
    ASSUME NEW o \in Attempts
    PROVE  <<Net!Rejection(o)>> = Sent("queueFull")
<1> DEFINE full == [kind |-> "queueFull", of |-> 1]
<1>1. Net!Rejection(o) = [i \in DOMAIN <<"origin">> |-> [kind |-> "queueFull", of |-> i]]
  BY DEF Net!Rejection
<1>2. DOMAIN <<"origin">> = 1..1
  OBVIOUS
<1>3. [i \in 1..1 |-> [kind |-> "queueFull", of |-> i]] = <<full>>
  OBVIOUS
<1> QED  BY <1>1, <1>2, <1>3 DEF Sent

(* NetworkWorker::submit.                                                    *)
LEMMA SubmitEffect ==
    ASSUME FetchInv, NEW f \in Fetches, Submit(f)
    PROVE  /\ attempt[f] \in Nat /\ attempt[f] + 1 \in 1..MaxAttempts[f]
           /\ Following(f) = <<f, attempt[f] + 1>>
           /\ attempt' = [attempt EXCEPT ![f] = attempt[f] + 1]
           /\ submitted' = submitted \cup {Following(f)} /\ Following(f) \in Attempts
           /\ cancelled' = cancelled
           /\ \/ response' = response
              \/ /\ attempt[f] + 1 < MaxAttempts[f]
                 /\ response' = [response EXCEPT ![Following(f)] = Sent("queueFull")]
           /\ ui' = [ui EXCEPT !.checking = TRUE]
<1>1. attempt[f] \in Nat
  BY DEF FetchInv, TypeOK
<1>2. Following(f) = <<f, attempt[f] + 1>>
  BY DEF Following
<1>3. Following(f) \in Attempts => <<Net!Rejection(Following(f))>> = Sent("queueFull")
  BY Rejected
<1> QED  BY <1>1, <1>2, <1>3, AttemptsAre DEF Submit, Check, Sent, Net!Accept, Net!Reject

(* SubmitMiss and RetrySubmit.                                               *)
LEMMA SubmitKeeps ==
    ASSUME FetchInv, NEW f \in Fetches, Here(f), ~ui.checking, Submit(f),
           UNCHANGED <<state, value, results, delivered>>,
           \/ ui.phase = "submit"
           \/ ui.phase = "retry" /\ state[f] = "deferred" /\ ~TokenIsSet(f)
    PROVE  FetchInv' /\ Following(f) \notin cancelled
<1> DEFINE n == attempt[f] + 1
<1>0. Submissions(f) /\ Stage(f) /\ UiOk /\ TypeOK /\ NetOk
  BY DEF FetchInv
<1>1. /\ attempt[f] \in Nat /\ n \in 1..MaxAttempts[f] /\ n \in Nat
      /\ Following(f) = <<f, n>>
      /\ attempt' = [attempt EXCEPT ![f] = n]
      /\ submitted' = submitted \cup {<<f, n>>} /\ <<f, n>> \in Attempts
      /\ cancelled' = cancelled
      /\ \/ response' = response
         \/ /\ n < MaxAttempts[f]
            /\ response' = [response EXCEPT ![<<f, n>>] = Sent("queueFull")]
      /\ ui' = [ui EXCEPT !.checking = TRUE]
  BY SubmitEffect
<1>2. MaxAttempts[f] \in Nat /\ attempt' \in [Fetches -> Nat] /\ attempt'[f] = n
  BY <1>0, <1>1, AttemptsAre DEF TypeOK
<1>3. /\ ui'.phase = ui.phase /\ ui'.handle = ui.handle /\ ui'.at = ui.at /\ ui'.checking
      /\ ui' \in [phase : {"idle", "submit", "retry", "recv"},
                  handle : Handles \cup {<<>>}, at : Nat, checking : BOOLEAN]
  BY <1>0, <1>1 DEF TypeOK
<1>4. state[f] \in {"unsent", "deferred"} /\ Following(f) \notin cancelled
  <2>1. CASE ui.phase = "submit"
    <3>1. state[f] = "unsent" /\ ui.at \in Nat
      BY <1>0, <2>1, Places DEF UiOk, Here
    <3> QED  BY <1>0, <1>1, <3>1 DEF Stage
  <2>2. CASE ui.phase = "retry" /\ state[f] = "deferred" /\ ~TokenIsSet(f)
    BY <2>2 DEF TokenIsSet, Token
  <2> QED  BY <2>1, <2>2
<1>5. /\ attempt[f] > 0 => Last(f) = <<f, attempt[f]>> /\ response[Last(f)] = Sent("queueFull")
      /\ state[f] = "unsent" => attempt[f] = 0
  BY <1>0, <1>1, <1>4 DEF Stage, Checked, Last
<1>6. TypeOK' /\ NetOk' /\ SlotsOk(results)' /\ SlotsOk(delivered)'
  <2>1. Sent("queueFull") \in {<<>>} \cup {Sent(k) : k \in NetKinds}
    BY DEF NetKinds
  <2>2. response' \in [Attempts -> {<<>>} \cup {Sent(k) : k \in NetKinds}]
    BY <1>0, <1>1, <2>1 DEF NetOk
  <2>3. \A g \in Fetches : attempt'[g] <= MaxAttempts[g]
    BY <1>0, <1>1, <1>2 DEF TypeOK
  <2> QED  BY <1>0, <1>1, <1>2, <1>3, <2>2, <2>3 DEF FetchInv, TypeOK, NetOk, SlotsOk, Slots
<1>7. UiOk'
  BY <1>0, <1>3 DEF UiOk, Here
<1>8. \A g \in Fetches : Submissions(g)' /\ Stage(g)'
  <2>1. ASSUME NEW g \in Fetches \ {f} PROVE Submissions(g)' /\ Stage(g)'
    <3>1. Checked(g)' <=> Checked(g)
      BY <1>3 DEF Checked, Here
    <3>2. \A m \in 1..MaxAttempts[g] : /\ <<g, m>> \in submitted' <=> <<g, m>> \in submitted
                                       /\ response'[<<g, m>>] = response[<<g, m>>]
      BY <1>0, <1>1, AttemptsAre DEF NetOk
    <3> QED  BY <1>0, <1>1, <3>1, <3>2, OtherKeeps DEF TypeOK
  <2>2. Submissions(f)'
    <3> SUFFICES ASSUME NEW m \in 1..MaxAttempts[f]
                 PROVE  /\ <<f, m>> \in submitted' <=> m <= n
                        /\ m < n => response'[<<f, m>>] = Sent("queueFull")
                        /\ m > n => response'[<<f, m>>] = <<>>
                        /\ response'[<<f, m>>] = Sent("queueFull") => m < MaxAttempts[f]
      BY <1>2 DEF Submissions
    <3>1. <<f, m>> \in submitted' <=> m <= n
      BY <1>0, <1>1 DEF Submissions
    <3>2. m # n => response'[<<f, m>>] = response[<<f, m>>]
      BY <1>0, <1>1, AttemptsAre DEF NetOk
    <3>3. m = n => response[<<f, m>>] = <<>>
      BY <1>0, <1>1 DEF Submissions
    <3>4. /\ m < n => response'[<<f, m>>] = Sent("queueFull")
          /\ m > n => response'[<<f, m>>] = <<>>
      BY <1>0, <1>1, <1>5, <3>2 DEF Submissions
    <3>5. response'[<<f, m>>] = Sent("queueFull") => m < MaxAttempts[f]
      BY <1>0, <1>1, <3>2, <3>3, SentIs DEF Submissions
    <3> QED  BY <3>1, <3>4, <3>5
  <2>3. Stage(f)'
    <3>1. Checked(f)'
      BY <1>3 DEF Checked, Here
    <3>2. state'[f] = "unsent" => n = 1 /\ \A m \in 1..MaxAttempts[f] : <<f, m>> \notin cancelled'
      BY <1>0, <1>1, <1>5 DEF Stage
    <3> QED  BY <1>1, <1>2, <1>4, <3>1, <3>2 DEF Stage
  <2> QED  BY <2>1, <2>2, <2>3
<1>9. (\A h \in Handles : Books(h)') /\ (\A h \in Ordered : Whole(h)')
  <2>1. \A g \in Fetches :
            state[g] = "gone" => /\ attempt'[g] = attempt[g]
                                 /\ attempt[g] > 0 => response'[Last(g)] = response[Last(g)]
    <3> SUFFICES ASSUME NEW g \in Fetches, state[g] = "gone"
                 PROVE  /\ attempt'[g] = attempt[g]
                        /\ attempt[g] > 0 => response'[Last(g)] = response[Last(g)]
      OBVIOUS
    <3>1. g # f
      BY <1>4
    <3>2. attempt'[g] = attempt[g] /\ Last(g) = <<g, attempt[g]>> /\ attempt[g] \in 0..MaxAttempts[g]
      BY <1>0, <1>1, <3>1, AttemptsAre DEF TypeOK, Last
    <3> QED  BY <1>0, <1>1, <3>1, <3>2, AttemptsAre DEF NetOk
  <2> QED  BY <1>1, <1>3, <2>1, BooksKeep
<1> QED  BY <1>4, <1>6, <1>7, <1>8, <1>9 DEF FetchInv

(* A handle gets its next state and the UI thread moves on.                  *)
LEMMA MemberUi ==
    ASSUME FetchInv, NEW f \in Fetches, Here(f), Advance,
           NEW s \in {"ready", "pending", "deferred", "gone"}, Become(f, s),
           NEW v \in Kinds \cup {None}, value' = [value EXCEPT ![f] = v],
           s = "ready" <=> v # None,
           UNCHANGED <<attempt, netVars>>,
           s \in {"pending", "deferred"} => attempt[f] > 0,
           s = "deferred" => response[Last(f)] = Sent("queueFull"),
           s = "ready" => Own(f, v)
    PROVE  /\ TypeOK' /\ NetOk' /\ UiOk'
           /\ \A g \in Fetches : Submissions(g)' /\ Stage(g)'
           /\ state' = [state EXCEPT ![f] = s] /\ state'[f] = s
           /\ ui'.handle = ui.handle /\ ui'.phase = ui.phase
<1>1. UNCHANGED <<submitted, cancelled, response, attempt>>
  BY DEF netVars
<1>2. TypeOK /\ NetOk /\ UiOk
  BY DEF FetchInv
<1>3. state' = [state EXCEPT ![f] = s] /\ state'[f] = s
  BY <1>2 DEF Become, TypeOK
<1>4. \A g \in Fetches \ {f} : state'[g] = state[g] /\ value'[g] = value[g]
  BY <1>2, <1>3 DEF TypeOK
<1>5. value'[f] = v
  BY <1>2 DEF TypeOK
<1>6. /\ ui' \in [phase : {"idle", "submit", "retry", "recv"},
                  handle : Handles \cup {<<>>}, at : Nat, checking : BOOLEAN]
      /\ UiOk' /\ ~ui'.checking /\ ui'.handle = ui.handle /\ ui'.phase = ui.phase
  BY <1>4, AdvanceUi
<1>7. TypeOK' /\ NetOk'
  <2>1. /\ state' \in [Fetches -> {"unsent", "ready", "pending", "deferred", "gone"}]
        /\ value' \in [Fetches -> Kinds \cup {None}]
    BY <1>2, <1>3 DEF TypeOK
  <2>2. \A g \in Fetches : state'[g] = "ready" <=> value'[g] # None
    BY <1>2, <1>3, <1>4, <1>5 DEF TypeOK
  <2> QED  BY <1>1, <1>2, <1>6, <2>1, <2>2 DEF TypeOK, NetOk
<1>8. \A g \in Fetches : Submissions(g)' /\ Stage(g)'
  <2>1. ASSUME NEW g \in Fetches \ {f} PROVE Submissions(g)' /\ Stage(g)'
    <3>1. ~Checked(g) /\ ~Checked(g)'
      BY <1>6 DEF Checked, Here
    <3> QED  BY <1>1, <1>4, <3>1, OtherKeeps
  <2>2. Submissions(f)'
    BY <1>1 DEF FetchInv, Submissions
  <2>3. Stage(f)'
    <3>1. s = "ready" => Own(f, v)'
      BY <1>1, OwnKeeps
    <3>2. Last(f)' = Last(f)
      BY <1>1 DEF Last
    <3> QED  BY <1>1, <1>3, <1>5, <3>1, <3>2 DEF Stage
  <2> QED  BY <2>1, <2>2, <2>3
<1> QED  BY <1>3, <1>6, <1>7, <1>8

(* A step of that kind that takes no result.                                 *)
LEMMA MemberKeeps ==
    ASSUME FetchInv, NEW f \in Fetches, Here(f), Advance, state[f] # "gone",
           NEW s \in {"ready", "pending", "deferred"}, Become(f, s),
           NEW v \in Kinds \cup {None}, value' = [value EXCEPT ![f] = v],
           s = "ready" <=> v # None,
           UNCHANGED <<attempt, results, delivered, netVars>>,
           s \in {"pending", "deferred"} => attempt[f] > 0,
           s = "deferred" => response[Last(f)] = Sent("queueFull"),
           s = "ready" => Own(f, v)
    PROVE  FetchInv'
<1>1. /\ TypeOK' /\ NetOk' /\ UiOk'
      /\ \A g \in Fetches : Submissions(g)' /\ Stage(g)'
      /\ state' = [state EXCEPT ![f] = s] /\ state'[f] = s
      /\ ui'.handle = ui.handle /\ ui'.phase = ui.phase
  BY MemberUi
<1>2. SlotsOk(results)' /\ SlotsOk(delivered)'
  BY DEF FetchInv, SlotsOk, Slots
<1>3. \A g \in Fetches : state'[g] = "gone" <=> state[g] = "gone"
  BY <1>1 DEF FetchInv, TypeOK
<1>4. UNCHANGED <<cancelled, attempt, response, results, delivered>>
  BY DEF netVars
<1>5. (\A h \in Handles : Books(h)') /\ (\A h \in Ordered : Whole(h)')
  BY <1>1, <1>3, <1>4, BooksKeep
<1> QED  BY <1>1, <1>2, <1>5 DEF FetchInv

(* submit_with_queue_full_backoff's look at the response channel.            *)
LEMMA SettleKeeps ==
    ASSUME FetchInv, NEW f \in Fetches, ui.checking, f = ui.handle[ui.at],
           Settle(f), Advance, UNCHANGED <<attempt, results, delivered, netVars>>
    PROVE  FetchInv'
<1>1. TypeOK /\ NetOk /\ UiOk /\ Stage(f) /\ Submissions(f)
  BY DEF FetchInv
<1>2. Here(f) /\ Checked(f) /\ ui.at \in Nat
  BY <1>1, Places DEF UiOk, Here, Checked, Idle
<1>3. state[f] \in {"unsent", "deferred"}
  BY <1>1, <1>2 DEF UiOk, Here
<1>4. attempt[f] > 0 /\ Last(f) \in Attempts
  BY <1>1, <1>2, <1>3, AttemptsAre DEF Stage, Last, TypeOK
<1>5. value[f] = None
  BY <1>1, <1>3 DEF TypeOK
<1>6. value = [value EXCEPT ![f] = None]
  BY <1>1, <1>5 DEF TypeOK
<1>7. response[Last(f)] # <<>> =>
          /\ Received(f) \in NetKinds /\ response[Last(f)] = Sent(Received(f))
  BY <1>1, <1>4, Responses DEF Received
<1>8. NetKinds \subseteq Kinds /\ None \notin NetKinds /\ None \in Kinds \cup {None}
  BY DEF NetKinds, Kinds, None
<1>9. CASE response[Last(f)] = <<>> /\ Become(f, "pending") /\ UNCHANGED value
  BY <1>2, <1>3, <1>4, <1>6, <1>8, <1>9, MemberKeeps
<1>10. CASE Parks(f) /\ Become(f, "deferred") /\ UNCHANGED value
  <2>1. response[Last(f)] = Sent("queueFull")
    BY <1>7, <1>10 DEF Parks
  <2> QED  BY <1>2, <1>3, <1>4, <1>6, <1>8, <1>10, <2>1, MemberKeeps
<1>11. CASE response[Last(f)] # <<>> /\ ~Parks(f) /\ Ready(f, Received(f))
  <2>1. Received(f) \in Kinds /\ Received(f) # None /\ Own(f, Received(f))
    BY <1>4, <1>7, <1>8, <1>11 DEF Own
  <2> QED  BY <1>2, <1>3, <2>1, <1>11, MemberKeeps DEF Ready
<1> QED  BY <1>9, <1>10, <1>11 DEF Settle

------------------------------------------------------------------------------
(* The collectors.                                                           *)

LEMMA ReceiveKeeps ==
    ASSUME FetchInv, NEW f \in Fetches, Receive(f)
    PROVE  FetchInv'
<1> DEFINE h == ui.handle
<1>0. PICK k : k = Outcome(f)
  OBVIOUS
<1>1. TypeOK /\ NetOk /\ UiOk /\ Stage(f) /\ Submissions(f)
  BY DEF FetchInv
<1>2. /\ Here(f) /\ ~ui.checking /\ ui.phase = "recv" /\ Receivable(f) /\ Advance
      /\ Become(f, "gone") /\ value' = [value EXCEPT ![f] = None]
      /\ UNCHANGED <<attempt, netVars>>
  BY OneHere DEF Receive, At, Take
<1>3. k \in Kinds /\ Own(f, k) /\ state[f] # "gone"
  <2>1. CASE state[f] = "ready"
    BY <1>0, <1>1, <2>1 DEF Outcome, TypeOK, Stage
  <2>2. CASE state[f] = "pending" /\ response[Last(f)] # <<>>
    <3>1. attempt[f] > 0 /\ Last(f) \in Attempts
      BY <1>1, <2>2, AttemptsAre DEF Stage, Last, TypeOK
    <3>2. Received(f) \in NetKinds
      BY <1>1, <2>2, <3>1, Responses DEF Received
    <3> QED  BY <1>0, <2>2, <3>1, <3>2 DEF Outcome, Own, Kinds, NetKinds
  <2> QED  BY <1>2, <2>1, <2>2 DEF Receivable
<1>4. /\ TypeOK' /\ NetOk' /\ UiOk'
      /\ \A g \in Fetches : Submissions(g)' /\ Stage(g)'
      /\ state' = [state EXCEPT ![f] = "gone"] /\ state'[f] = "gone"
      /\ ui'.handle = ui.handle /\ ui'.phase = ui.phase
  BY <1>2, MemberUi DEF Kinds, None
<1>5. /\ UNCHANGED <<submitted, cancelled, response, attempt>>
      /\ h \in Handles /\ ui.at \in DOMAIN h /\ h[ui.at] = f
  BY <1>2 DEF netVars, Here
<1>6. \A g \in Fetches : \A kind : Own(g, kind) => Own(g, kind)'
  BY <1>5, OwnKeeps
<1>7. ASSUME NEW of, SlotsOk(of)
      PROVE  LET new == [of EXCEPT ![h][ui.at] = k]
             IN  /\ SlotsOk(new)
                 /\ \A g \in Handles \ {h} : new[g] = of[g]
                 /\ new[h][ui.at] = k
                 /\ \A i \in DOMAIN h \ {ui.at} : new[h][i] = of[h][i]
  <2> DEFINE new == [of EXCEPT ![h][ui.at] = k]
             row == [of[h] EXCEPT ![ui.at] = k]
  <2>1. of[h] \in [DOMAIN h -> Kinds \cup {None}]
    BY <1>5, <1>7 DEF SlotsOk, Slots
  <2>2. row \in [DOMAIN h -> Kinds \cup {None}]
    BY <1>3, <2>1
  <2>3. DOMAIN of = Handles /\ new = [of EXCEPT ![h] = row]
    BY <1>7 DEF SlotsOk
  <2>4. /\ \A g \in Handles \ {h} : new[g] = of[g]
        /\ new[h] = row
    BY <1>5, <2>3
  <2>5. /\ row[ui.at] = k
        /\ \A i \in DOMAIN h \ {ui.at} : row[i] = of[h][i]
    BY <1>5, <2>1
  <2>6. DOMAIN new = Handles /\ new = [g \in Handles |-> new[g]]
    <3> HIDE DEF row
    <3> QED  BY <2>3
  <2>7. \A g \in Handles : new[g] \in Slots[g]
    <3> HIDE DEF row, new
    <3> QED  BY <1>7, <2>2, <2>4 DEF SlotsOk, Slots
  <2>8. SlotsOk(new)
    <3> HIDE DEF new
    <3> QED  BY <2>6, <2>7 DEF SlotsOk
  <2> HIDE DEF row
  <2> QED  BY <2>4, <2>5, <2>8
<1>8. ASSUME NEW g \in Handles, NEW of, Kept(g, of)
      PROVE  \A i \in DOMAIN g : of[i] # None => state'[g[i]] = "gone" /\ Own(g[i], of[i])'
  <2> SUFFICES ASSUME NEW i \in DOMAIN g, of[i] # None
               PROVE  state'[g[i]] = "gone" /\ Own(g[i], of[i])'
    OBVIOUS
  <2>1. g[i] \in Fetches /\ state[g[i]] = "gone" /\ Own(g[i], of[i])
    BY <1>8, Places DEF Kept
  <2> QED  BY <1>1, <1>4, <1>6, <2>1 DEF TypeOK
<1>9. state'[f] = "gone" /\ Own(f, k)'
  BY <1>3, <1>4, <1>6
<1>10. SlotsOk(results) /\ SlotsOk(delivered) /\ \A g \in Handles : Books(g)
  BY DEF FetchInv
<1>11. ASSUME NEW g \in Ordered, NEW i \in DOMAIN g, state'[g[i]] = "gone", g # h
       PROVE  state[g[i]] = "gone"
  <2>1. g \in Handles /\ g[i] # f
    BY <1>5, <1>11, Places DEF Handles
  <2> QED  BY <1>1, <1>4, <1>11, <2>1, Places DEF TypeOK
<1>12. CASE h \in Ordered
  <2>1. results' = [results EXCEPT ![h][ui.at] = k] /\ delivered' = delivered
    BY <1>0, <1>12 DEF Receive
  <2>2. SlotsOk(results)' /\ SlotsOk(delivered)' /\ \A g \in Handles : Books(g)'
    <3>1. /\ SlotsOk(results')
          /\ \A g \in Handles : Kept(g, results[g])'
      <4>1. /\ SlotsOk(results')
            /\ \A g \in Handles \ {h} : results'[g] = results[g]
            /\ results'[h][ui.at] = k
            /\ \A i \in DOMAIN h \ {ui.at} : results'[h][i] = results[h][i]
        BY <1>7, <1>10, <2>1
      <4>2. ASSUME NEW g \in Handles, NEW i \in DOMAIN g, NEW x, x = results'[g][i], x # None
            PROVE  state'[g[i]] = "gone" /\ Own(g[i], x)'
        BY <1>5, <1>8, <1>9, <1>10, <4>1, <4>2 DEF Books
      <4> QED  BY <4>1, <4>2 DEF Kept
    <3>2. \A g \in Handles : Kept(g, delivered[g])'
      BY <1>8, <1>10, <2>1 DEF Books, Kept
    <3> QED  BY <1>10, <2>1, <3>1, <3>2 DEF Books, SlotsOk, Slots
  <2>3. ASSUME NEW g \in Ordered PROVE Whole(g)'
    <3>1. Whole(g) /\ g \in Handles
      BY DEF FetchInv, Handles
    <3>2. CASE g = h
      <4>1. Whole(h) /\ \A i \in DOMAIN h : delivered[h][i] = None /\ (state[h[i]] = "gone" => results[h][i] # None)
        BY <1>2, <3>1, <3>2 DEF Whole
      <4>2. \A i \in DOMAIN h \ {ui.at} : h[i] \in Fetches /\ h[i] # f
        BY <1>5, Places
      <4>3. /\ results'[h][ui.at] = k /\ k # None
            /\ \A i \in DOMAIN h \ {ui.at} : results'[h][i] = results[h][i]
        BY <1>3, <1>7, <1>10, <2>1 DEF Kinds, None
      <4>4. \A i \in DOMAIN h : state'[h[i]] = "gone" => results'[h][i] # None
        BY <1>1, <1>4, <4>1, <4>2, <4>3 DEF TypeOK
      <4> QED  BY <2>1, <3>2, <4>1, <4>4 DEF Whole
    <3>3. CASE g # h
      <4>1. results'[g] = results[g]
        BY <1>7, <1>10, <2>1, <3>1, <3>3
      <4> QED  BY <1>4, <1>11, <2>1, <3>1, <3>3, <4>1 DEF Whole
    <3> QED  BY <3>2, <3>3
  <2> QED  BY <1>4, <2>2, <2>3 DEF FetchInv
<1>13. CASE h \notin Ordered
  <2>1. delivered' = [delivered EXCEPT ![h][ui.at] = k] /\ results' = results
    BY <1>0, <1>13 DEF Receive
  <2>2. SlotsOk(results)' /\ SlotsOk(delivered)' /\ \A g \in Handles : Books(g)'
    <3>1. /\ SlotsOk(delivered')
          /\ \A g \in Handles : Kept(g, delivered[g])'
      <4>1. /\ SlotsOk(delivered')
            /\ \A g \in Handles \ {h} : delivered'[g] = delivered[g]
            /\ delivered'[h][ui.at] = k
            /\ \A i \in DOMAIN h \ {ui.at} : delivered'[h][i] = delivered[h][i]
        BY <1>7, <1>10, <2>1
      <4>2. ASSUME NEW g \in Handles, NEW i \in DOMAIN g, NEW x, x = delivered'[g][i], x # None
            PROVE  state'[g[i]] = "gone" /\ Own(g[i], x)'
        BY <1>5, <1>8, <1>9, <1>10, <4>1, <4>2 DEF Books
      <4> QED  BY <4>1, <4>2 DEF Kept
    <3>2. \A g \in Handles : Kept(g, results[g])'
      BY <1>8, <1>10, <2>1 DEF Books, Kept
    <3> QED  BY <1>10, <2>1, <3>1, <3>2 DEF Books, SlotsOk, Slots
  <2>3. ASSUME NEW g \in Ordered PROVE Whole(g)'
    <3>1. Whole(g) /\ g \in Handles /\ g # h
      BY <1>13 DEF FetchInv, Handles
    <3>2. delivered'[g] = delivered[g]
      BY <1>7, <1>10, <2>1, <3>1
    <3> QED  BY <1>4, <1>11, <2>1, <3>1, <3>2 DEF Whole
  <2> QED  BY <1>4, <2>2, <2>3 DEF FetchInv
<1> QED  BY <1>12, <1>13

(* The end of a pass hands an ordered batch over when it is complete.        *)
LEMMA ReceiveDoneKeeps ==
    ASSUME FetchInv, ReceiveDone
    PROVE  FetchInv'
<1>1. /\ ui.phase = "recv" /\ ui' = Idle /\ ~ui.checking /\ ui.handle \in Handles
      /\ UNCHANGED <<state, attempt, value, submitted, cancelled, response>>
  BY DEF FetchInv, UiOk, ReceiveDone, netVars
<1>2. /\ UiOk'
      /\ ui' \in [phase : {"idle", "submit", "retry", "recv"},
                  handle : Handles \cup {<<>>}, at : Nat, checking : BOOLEAN]
      /\ ~ui'.checking
  BY <1>1 DEF UiOk, Idle
<1>3. CASE UNCHANGED <<results, delivered>>
  BY <1>1, <1>2, <1>3, UiKeeps DEF Idle, netVars
<1>4. ASSUME NEW h \in Ordered, h = ui.handle, ~StillWaiting(h),
             delivered' = [delivered EXCEPT ![h] = results[h]],
             results' = [results EXCEPT ![h] = [i \in DOMAIN h |-> None]]
      PROVE  FetchInv'
  <2>1. h \in Handles /\ SlotsOk(results) /\ SlotsOk(delivered) /\ Whole(h)
    BY DEF FetchInv, Handles
  <2>2. TypeOK' /\ NetOk'
    BY <1>1, <1>2 DEF FetchInv, TypeOK, NetOk
  <2>3. \A f \in Fetches : Submissions(f)' /\ Stage(f)'
    BY <1>1, <1>2, OtherKeeps DEF Checked
  <2>4. /\ \A i \in DOMAIN h : delivered[h][i] = None /\ results[h][i] # None
        /\ \A i \in DOMAIN h : state[h[i]] = "gone"
    BY <1>1, <1>4, <2>1 DEF Whole, StillWaiting
  <2>5. /\ DOMAIN results = Handles /\ DOMAIN delivered = Handles
        /\ \A g \in Handles : results[g] \in Slots[g] /\ delivered[g] \in Slots[g]
    BY <2>1 DEF SlotsOk
  <2>6. /\ \A g \in Handles \ {h} : delivered'[g] = delivered[g] /\ results'[g] = results[g]
        /\ delivered'[h] = results[h] /\ results'[h] = [i \in DOMAIN h |-> None]
        /\ delivered' = [g \in Handles |-> delivered'[g]]
        /\ results' = [g \in Handles |-> results'[g]]
    BY <1>4, <2>1, <2>5
  <2>7. SlotsOk(results)' /\ SlotsOk(delivered)'
    BY <2>5, <2>6 DEF SlotsOk, Slots
  <2>8. ASSUME NEW g \in Handles, NEW of, Kept(g, of)
        PROVE  \A i \in DOMAIN g : of[i] # None => state'[g[i]] = "gone" /\ Own(g[i], of[i])'
    <3> SUFFICES ASSUME NEW i \in DOMAIN g, of[i] # None
                 PROVE  state'[g[i]] = "gone" /\ Own(g[i], of[i])'
      OBVIOUS
    <3>1. g[i] \in Fetches /\ state[g[i]] = "gone" /\ Own(g[i], of[i])
      BY <2>8, Places DEF Kept
    <3> QED  BY <1>1, <3>1, OwnKeeps
  <2>9. \A g \in Handles : Kept(g, results[g]) /\ Kept(g, delivered[g])
    BY DEF FetchInv, Books
  <2>10. ASSUME NEW g \in Handles, NEW i \in DOMAIN g, NEW x, x # None,
                x = results'[g][i] \/ x = delivered'[g][i]
         PROVE  state'[g[i]] = "gone" /\ Own(g[i], x)'
    <3>1. x = results[g][i] \/ x = delivered[g][i]
      BY <2>6, <2>10
    <3> QED  BY <2>8, <2>9, <2>10, <3>1
  <2>11. \A g \in Handles : Books(g)'
    BY <2>10 DEF Books, Kept
  <2>12. ASSUME NEW g \in Ordered PROVE Whole(g)'
    <3>1. g \in Handles /\ Whole(g)
      BY DEF FetchInv, Handles
    <3>2. CASE g = h
      BY <1>1, <2>4, <2>6, <3>2 DEF Whole, Idle
    <3>3. CASE g # h
      BY <1>1, <2>6, <3>1, <3>3 DEF Whole, Idle
    <3> QED  BY <3>2, <3>3
  <2> QED  BY <1>2, <2>2, <2>3, <2>7, <2>11, <2>12 DEF FetchInv
<1> QED  BY <1>3, <1>4 DEF ReceiveDone

------------------------------------------------------------------------------
(* The network and the cancellation.                                         *)

LEMMA AnswerKeeps ==
    ASSUME FetchInv, NEW o \in Attempts, Answer(o)
    PROVE  FetchInv'
<1>1. TypeOK /\ NetOk /\ UiOk
  BY DEF FetchInv
<1>2. PICK f \in Fetches : \E n \in 1..MaxAttempts[f] : o = <<f, n>>
  BY AttemptsAre
<1>3. PICK n \in 1..MaxAttempts[f] : o = <<f, n>>
  BY <1>2
<1>4. PICK kind \in NetKinds :
          /\ kind = "queueFull" => n < MaxAttempts[f]
          /\ response' = [response EXCEPT ![<<f, n>>] = Sent(kind)]
  BY <1>3 DEF Answer, NetKinds, Sent
<1>5. /\ UNCHANGED <<submitted, cancelled, ui, state, attempt, value, results, delivered>>
      /\ <<f, n>> \in submitted /\ response[<<f, n>>] = <<>>
  BY <1>3 DEF Answer, pageVars, Net!Unanswered
<1>6. attempt[f] \in Nat /\ attempt[f] <= MaxAttempts[f] /\ MaxAttempts[f] \in Nat
  BY <1>1, AttemptsAre DEF TypeOK
<1>7. Submissions(f) /\ Stage(f)
  BY DEF FetchInv
<1>8. n = attempt[f] /\ Last(f) = <<f, n>>
  BY <1>5, <1>6, <1>7, SentIs DEF Submissions, Last
<1>9. /\ response'[<<f, n>>] = Sent(kind)
      /\ \A g \in Fetches : \A m \in 1..MaxAttempts[g] :
             <<g, m>> # <<f, n>> => response'[<<g, m>>] = response[<<g, m>>]
  BY <1>1, <1>3, <1>4, AttemptsAre DEF NetOk
<1>10. TypeOK' /\ NetOk' /\ UiOk' /\ SlotsOk(results)' /\ SlotsOk(delivered)'
  <2>1. response' \in [Attempts -> {<<>>} \cup {Sent(k) : k \in NetKinds}]
    BY <1>1, <1>4 DEF NetOk
  <2> QED  BY <1>1, <1>5, <2>1 DEF FetchInv, TypeOK, NetOk, UiOk, SlotsOk, Slots
<1>11. \A g \in Fetches : Checked(g)' <=> Checked(g)
  BY <1>5 DEF Checked
<1>12. \A g \in Fetches : Submissions(g)' /\ Stage(g)'
  <2>1. ASSUME NEW g \in Fetches \ {f} PROVE Submissions(g)' /\ Stage(g)'
    BY <1>5, <1>9, <1>11, OtherKeeps
  <2>2. Submissions(f)'
    <3>1. kind = "queueFull" \/ Sent(kind) # Sent("queueFull")
      BY SentIs
    <3> QED  BY <1>4, <1>5, <1>6, <1>7, <1>8, <1>9, <3>1 DEF Submissions
  <2>3. Stage(f)'
    <3>1. ~(state[f] = "deferred" /\ ~Checked(f))
      BY <1>5, <1>7, <1>8, SentIs DEF Stage
    <3>2. state[f] = "ready" => Own(f, value[f])'
      BY <1>5, <1>7, <1>8, OwnKeeps DEF Stage
    <3> QED  BY <1>5, <1>7, <1>11, <3>1, <3>2 DEF Stage
  <2> QED  BY <2>1, <2>2, <2>3
<1>13. (\A h \in Handles : Books(h)') /\ (\A h \in Ordered : Whole(h)')
  <2>1. \A g \in Fetches : attempt[g] > 0 /\ response[Last(g)] # <<>> =>
                               response'[Last(g)] = response[Last(g)]
    <3> SUFFICES ASSUME NEW g \in Fetches, attempt[g] > 0, response[Last(g)] # <<>>
                 PROVE  response'[Last(g)] = response[Last(g)]
      OBVIOUS
    <3>1. attempt[g] \in 1..MaxAttempts[g] /\ Last(g) = <<g, attempt[g]>>
      BY <1>1, AttemptsAre DEF TypeOK, Last
    <3> QED  BY <1>5, <1>9, <3>1
  <2> QED  BY <1>5, <2>1, BooksKeep
<1> QED  BY <1>10, <1>12, <1>13 DEF FetchInv

LEMMA CancelKeeps ==
    ASSUME FetchInv, NEW h \in Handles, CancelBatch(h)
    PROVE  FetchInv'
<1> DEFINE tokens == {Token(f) : f \in Waits(h)}
<1>1. TypeOK /\ NetOk /\ UiOk
  BY DEF FetchInv
<1>2. /\ cancelled' = cancelled \cup tokens /\ ui = Idle
      /\ UNCHANGED <<submitted, response, ui, state, attempt, value, results, delivered>>
  BY DEF CancelBatch, pageVars
<1>3. ASSUME NEW f \in Waits(h) PROVE
          /\ f \in Fetches /\ state[f] \in {"pending", "deferred"}
          /\ Token(f) \in Attempts
          /\ Token(f) = <<f, attempt[f]>> \/ Token(f) = <<f, attempt[f] + 1>>
  <2>1. f \in Fetches /\ state[f] \in {"pending", "deferred"}
    BY <1>3, Places DEF Waits
  <2>2. Stage(f) /\ Submissions(f) /\ attempt[f] \in 1..MaxAttempts[f]
    BY <1>1, <2>1, AttemptsAre DEF FetchInv, TypeOK, Stage
  <2>3. CASE state[f] = "deferred"
    <3>1. response[<<f, attempt[f]>>] = Sent("queueFull")
      BY <1>2, <2>2, <2>3 DEF Stage, Checked, Idle, Last
    <3>2. attempt[f] + 1 \in 1..MaxAttempts[f]
      BY <2>1, <2>2, <3>1, AttemptsAre DEF Submissions
    <3> QED  BY <2>1, <2>3, <3>2, AttemptsAre DEF Token, Following
  <2>4. CASE state[f] = "pending"
    BY <2>1, <2>2, <2>4, AttemptsAre DEF Token, Last
  <2> QED  BY <2>1, <2>3, <2>4
<1>4. tokens \subseteq Attempts
  BY <1>3
<1>5. \A g \in Fetches : state[g] = "unsent" => \A n : <<g, n>> \notin tokens
  BY <1>3
<1> HIDE DEF tokens
<1>6. TypeOK' /\ NetOk' /\ UiOk' /\ SlotsOk(results)' /\ SlotsOk(delivered)'
  BY <1>1, <1>2, <1>4 DEF FetchInv, TypeOK, NetOk, UiOk, SlotsOk, Slots
<1>7. ASSUME NEW g \in Fetches PROVE Submissions(g)' /\ Stage(g)'
  <2>1. Submissions(g) /\ Stage(g) /\ Last(g)' = Last(g) /\ (Checked(g)' <=> Checked(g))
    BY <1>2 DEF FetchInv, Last, Checked
  <2>2. Submissions(g)'
    BY <1>2, <2>1 DEF Submissions
  <2>3. state[g] = "ready" => Own(g, value[g])'
    BY <1>2, <2>1, OwnKeeps DEF Stage
  <2> QED  BY <1>2, <1>5, <2>1, <2>2, <2>3 DEF Stage
<1>8. (\A k \in Handles : Books(k)') /\ (\A k \in Ordered : Whole(k)')
  BY <1>2, BooksKeep
<1> QED  BY <1>6, <1>7, <1>8 DEF FetchInv

------------------------------------------------------------------------------
(* The specification.                                                        *)

LEMMA FetchInit == Init => FetchInv
<1> SUFFICES ASSUME Init PROVE FetchInv
  OBVIOUS
<1>1. /\ ui = Idle /\ state = [f \in Fetches |-> "unsent"]
      /\ attempt = [f \in Fetches |-> 0] /\ value = [f \in Fetches |-> None]
      /\ results = [h \in Handles |-> [i \in DOMAIN h |-> None]]
      /\ delivered = [h \in Handles |-> [i \in DOMAIN h |-> None]]
      /\ submitted = {} /\ cancelled = {} /\ response = [o \in Attempts |-> <<>>]
  BY DEF Init, Net!Init
<1>2. TypeOK
  <2>1. ASSUME NEW f \in Fetches PROVE attempt[f] <= MaxAttempts[f]
    <3>1. MaxAttempts[f] \in Nat /\ attempt[f] = 0
      BY <1>1, AttemptsAre
    <3> QED  BY <3>1
  <2> QED  BY <1>1, <2>1 DEF TypeOK, Idle, None
<1>3. NetOk
  BY <1>1 DEF NetOk
<1>4. SlotsOk(results) /\ SlotsOk(delivered)
  BY <1>1 DEF SlotsOk, Slots
<1>5. UiOk
  BY <1>1 DEF UiOk, Idle
<1>6. ASSUME NEW f \in Fetches PROVE Submissions(f) /\ Stage(f)
  <2>1. \A n \in 1..MaxAttempts[f] : response[<<f, n>>] = <<>> /\ n \in Nat \ {0}
    BY <1>1, AttemptsAre
  <2> QED  BY <1>1, <2>1, SentIs DEF Submissions, Stage, Checked, Idle
<1>7. \A h \in Handles : Books(h)
  BY <1>1 DEF Books, Kept
<1>8. \A h \in Ordered : Whole(h)
  <2> SUFFICES ASSUME NEW h \in Ordered PROVE Whole(h)
    OBVIOUS
  <2>1. h \in Handles /\ \A i \in DOMAIN h : h[i] \in Fetches
    BY Places DEF Handles
  <2> QED  BY <1>1, <2>1 DEF Whole
<1> QED  BY <1>2, <1>3, <1>4, <1>5, <1>6, <1>7, <1>8 DEF FetchInv

(* A token that is set before its request is resubmitted is a bar to it.      *)
Barred == \A f \in Fetches : Following(f) \in cancelled => Following(f) \notin submitted'

LEMMA QuietBarred ==
    ASSUME FetchInv, submitted' = submitted
    PROVE  Barred
<1> SUFFICES ASSUME NEW f \in Fetches, Following(f) \in cancelled PROVE Following(f) \notin submitted
  BY DEF Barred
<1>1. attempt[f] \in Nat /\ Following(f) = <<f, attempt[f] + 1>> /\ Following(f) \in Attempts
  BY DEF FetchInv, TypeOK, NetOk, Following
<1> QED  BY <1>1, AttemptsAre DEF FetchInv, Submissions

LEMMA SubmitBarred ==
    ASSUME FetchInv, NEW f \in Fetches, Submit(f), Following(f) \notin cancelled
    PROVE  Barred
<1> SUFFICES ASSUME NEW g \in Fetches, Following(g) \in cancelled PROVE Following(g) \notin submitted'
  BY DEF Barred
<1>1. submitted' = submitted \cup {<<f, attempt[f] + 1>>} /\ Following(f) = <<f, attempt[f] + 1>>
  BY SubmitEffect
<1>2. attempt[g] \in Nat /\ Following(g) = <<g, attempt[g] + 1>> /\ Following(g) \in Attempts
  BY DEF FetchInv, TypeOK, NetOk, Following
<1>3. Following(g) \notin submitted
  BY <1>2, AttemptsAre DEF FetchInv, Submissions
<1>4. Following(g) # Following(f)
  OBVIOUS
<1> QED  BY <1>1, <1>3, <1>4

LEMMA MemberStep ==
    ASSUME FetchInv, NEW f \in Fetches, Step(f)
    PROVE  FetchInv' /\ Barred
<1>1. TypeOK /\ UiOk /\ Stage(f)
  BY DEF FetchInv
<1>2. ASSUME NEW phase, phase # "idle", At(phase, f) PROVE Here(f) /\ ~ui.checking /\ ui.phase = phase
  BY <1>2, OneHere DEF At
<1>3. None \in Kinds \cup {None} /\ "cached" \in Kinds \ {None} /\ "cancelled" \in Kinds \ {None}
  BY DEF Kinds, None
<1>4. CASE SubmitHit(f)
  <2>1. Here(f) /\ state[f] = "unsent"
    BY <1>1, <1>2, <1>4, Places DEF SubmitHit, At, UiOk, Here
  <2>2. Own(f, "cached")
    BY <1>4 DEF SubmitHit, Own
  <2>3. FetchInv'
    BY <1>3, <1>4, <2>1, <2>2, MemberKeeps DEF SubmitHit, Ready
  <2> QED  BY <1>4, <2>3, QuietBarred DEF SubmitHit, netVars
<1>5. CASE SubmitMiss(f)
  <2>1. FetchInv' /\ Following(f) \notin cancelled
    BY <1>2, <1>5, SubmitKeeps DEF SubmitMiss
  <2> QED  BY <1>5, <2>1, SubmitBarred DEF SubmitMiss
<1>6. CASE SubmitChecked(f)
  <2>1. FetchInv'
    BY <1>6, SettleKeeps DEF SubmitChecked, Checking
  <2> QED  BY <1>6, <2>1, QuietBarred DEF SubmitChecked, netVars
<1>7. CASE RetryChecked(f)
  <2>1. FetchInv'
    BY <1>7, SettleKeeps DEF RetryChecked, Checking
  <2> QED  BY <1>7, <2>1, QuietBarred DEF RetryChecked, netVars
<1>8. CASE RetryCancelled(f)
  <2>1. Here(f) /\ state[f] = "deferred" /\ Following(f) \in cancelled
    BY <1>2, <1>8 DEF RetryCancelled, TokenIsSet, Token
  <2>2. Own(f, "cancelled")
    BY <2>1 DEF Own
  <2>3. FetchInv'
    BY <1>3, <1>8, <2>1, <2>2, MemberKeeps DEF RetryCancelled, Ready
  <2> QED  BY <1>8, <2>3, QuietBarred DEF RetryCancelled, netVars
<1>9. CASE RetrySubmit(f)
  <2>1. FetchInv' /\ Following(f) \notin cancelled
    BY <1>2, <1>9, SubmitKeeps DEF RetrySubmit
  <2> QED  BY <1>9, <2>1, SubmitBarred DEF RetrySubmit
<1>10. CASE RetrySkip(f) \/ ReceiveSkip(f)
  <2>1. Here(f) /\ ~ui.checking /\ ui.phase \in {"retry", "recv"} /\ Advance
        /\ UNCHANGED <<state, attempt, value, results, delivered, netVars>>
    BY <1>2, <1>10 DEF RetrySkip, ReceiveSkip
  <2>2. FetchInv'
    BY <2>1, AdvanceUi, UiKeeps
  <2> QED  BY <2>1, <2>2, QuietBarred DEF netVars
<1>11. CASE Receive(f)
  <2>1. FetchInv'
    BY <1>11, ReceiveKeeps
  <2> QED  BY <1>11, <2>1, QuietBarred DEF Receive, netVars
<1> QED  BY <1>4, <1>5, <1>6, <1>7, <1>8, <1>9, <1>10, <1>11 DEF Step

(* Every step keeps the invariant and respects the tokens.                   *)
LEMMA FetchStep ==
    ASSUME FetchInv, [Next]_vars
    PROVE  FetchInv' /\ Barred
<1> DEFINE UiSet == [phase : {"idle", "submit", "retry", "recv"},
                     handle : Handles \cup {<<>>}, at : Nat, checking : BOOLEAN]
<1>1. TypeOK /\ UiOk /\ ui \in UiSet
  BY DEF FetchInv, TypeOK
<1>2. ASSUME NEW o \in Attempts, Answer(o) PROVE FetchInv' /\ Barred
  BY <1>2, AnswerKeeps, QuietBarred DEF Answer
<1>3. ASSUME NEW f \in Fetches, Step(f) PROVE FetchInv' /\ Barred
  BY <1>3, MemberStep
<1>4. CASE SubmitDone
  <2>1. UiOk' /\ ui' \in UiSet /\ ~ui'.checking /\ ui'.phase = "idle"
    BY <1>4 DEF SubmitDone, UiOk, Idle
  <2>2. ~ui.checking
    <3>1. ui.handle \in Handles
      BY <1>1, <1>4 DEF SubmitDone, UiOk
    <3>2. ui.at \notin DOMAIN ui.handle
      BY <1>1, <1>4, <3>1, PageAssumption, LenProperties DEF SubmitDone
    <3> QED  BY <1>1, <3>2 DEF UiOk, TypeOK
  <2> QED  BY <1>4, <2>1, <2>2, UiKeeps, QuietBarred DEF SubmitDone, netVars
<1>5. CASE RetryDone
  <2>1. ui.handle \in Handles /\ ui.at \notin DOMAIN ui.handle
    <3>1. ui.handle \in Handles
      BY <1>1, <1>5 DEF RetryDone, UiOk
    <3> QED  BY <1>1, <1>5, <3>1, PageAssumption, LenProperties DEF RetryDone
  <2>2. ~ui.checking
    BY <1>1, <2>1 DEF UiOk
  <2>3. ui' = [phase |-> "recv", handle |-> ui.handle, at |-> 1, checking |-> ui.checking]
    BY <1>1, <1>5 DEF RetryDone
  <2>4. ui' \in UiSet
    BY <1>1, <2>3
  <2>5. UiOk' /\ ~ui'.checking /\ ui'.handle = ui.handle /\ ui.phase = "retry"
    BY <1>1, <1>5, <2>1, <2>2, <2>3 DEF RetryDone, UiOk
  <2> QED  BY <1>5, <2>2, <2>4, <2>5, UiKeeps, QuietBarred DEF RetryDone, netVars
<1>6. CASE ReceiveDone
  BY <1>6, ReceiveDoneKeeps, QuietBarred DEF ReceiveDone, netVars
<1>7. ASSUME NEW h \in Handles, StartBatch(h) PROVE FetchInv' /\ Barred
  <2>1. UiOk' /\ ui' \in UiSet /\ ~ui'.checking /\ ~ui.checking /\ ui'.phase = "submit"
    BY <1>7 DEF StartBatch, UiOk, Idle
  <2> QED  BY <1>7, <2>1, UiKeeps, QuietBarred DEF StartBatch, netVars
<1>8. ASSUME NEW h \in Handles, StartPoll(h) PROVE FetchInv' /\ Barred
  <2>1. UiOk' /\ ui' \in UiSet /\ ~ui'.checking /\ ~ui.checking /\ ui'.handle = h
    BY <1>8 DEF StartPoll, UiOk, Idle
  <2>2. \E i \in DOMAIN h : state[h[i]] # "gone"
    BY <1>8 DEF StartPoll
  <2> QED  BY <1>8, <2>1, <2>2, UiKeeps, QuietBarred DEF StartPoll, netVars
<1>9. ASSUME NEW h \in Handles, CancelBatch(h) PROVE FetchInv' /\ Barred
  BY <1>9, CancelKeeps, QuietBarred DEF CancelBatch
<1>10. CASE UNCHANGED vars
  <2>1. UNCHANGED <<ui, state, attempt, value, results, delivered, submitted, cancelled, response>>
    BY <1>10 DEF vars, pageVars, netVars
  <2>2. TypeOK' /\ NetOk' /\ UiOk' /\ SlotsOk(results)' /\ SlotsOk(delivered)'
    BY <2>1 DEF FetchInv, TypeOK, NetOk, UiOk, SlotsOk, Slots
  <2>3. \A f \in Fetches : Submissions(f)' /\ Stage(f)'
    BY <2>1, OtherKeeps DEF Checked
  <2>4. (\A h \in Handles : Books(h)') /\ (\A h \in Ordered : Whole(h)')
    BY <2>1, BooksKeep
  <2> QED  BY <2>1, <2>2, <2>3, <2>4, QuietBarred DEF FetchInv
<1> QED
  BY <1>2, <1>3, <1>4, <1>5, <1>6, <1>7, <1>8, <1>9, <1>10 DEF Next, Running

LEMMA FetchAlways == Spec => []FetchInv
<1>1. FetchInv /\ [Next]_vars => FetchInv'
  BY FetchStep
<1> QED  BY FetchInit, <1>1, PTL DEF Spec

(* A request is parked only after a rejection, waits only for a submission    *)
(* the worker knows, and is never in flight twice (submit_with_queue_full_    *)
(* backoff, retry_deferred).                                                  *)
THEOREM RequestsAreTracked == Spec => []HandlesMatchSubmissions
<1>1. FetchInv => HandlesMatchSubmissions
  <2> SUFFICES ASSUME FetchInv, NEW f \in Fetches
               PROVE  /\ (state[f] = "deferred" =>
                            (\/ response[Last(f)] # <<>> /\ Received(f) = "queueFull"
                             \/ Checking("retry", f)))
                      /\ (state[f] = "pending" => Last(f) \in submitted)
                      /\ \A n \in 1..MaxAttempts[f] :
                            <<f, n>> \in submitted =>
                                (\/ n = attempt[f]
                                 \/ n < attempt[f] /\ response[<<f, n>>] # <<>>)
    BY DEF HandlesMatchSubmissions
  <2>1. /\ TypeOK /\ UiOk /\ Submissions(f) /\ Stage(f)
        /\ attempt[f] \in Nat /\ attempt[f] <= MaxAttempts[f] /\ MaxAttempts[f] \in Nat
    BY AttemptsAre DEF FetchInv, TypeOK
  <2>2. state[f] = "deferred" => \/ response[Last(f)] # <<>> /\ Received(f) = "queueFull"
                                 \/ Checking("retry", f)
    <3>1. CASE ~Checked(f)
      BY <2>1, <3>1, SentIs DEF Stage, Received
    <3>2. CASE Checked(f) /\ state[f] = "deferred"
      <4>1. ui.phase # "submit"
        <5>1. ui.at \in DOMAIN ui.handle /\ ui.handle \in Handles
          BY <2>1, <3>2 DEF Checked, UiOk, Idle
        <5> QED  BY <2>1, <3>2, <5>1, Places DEF Checked, UiOk
      <4> QED  BY <2>1, <3>2, <4>1 DEF Checked, Checking, UiOk
    <3> QED  BY <3>1, <3>2
  <2>3. state[f] = "pending" => Last(f) \in submitted
    BY <2>1 DEF Stage, Submissions, Last
  <2>4. \A n \in 1..MaxAttempts[f] :
            <<f, n>> \in submitted => \/ n = attempt[f]
                                      \/ n < attempt[f] /\ response[<<f, n>>] # <<>>
    BY <2>1, SentIs DEF Submissions
  <2> QED  BY <2>2, <2>3, <2>4
<1> QED  BY <1>1, FetchAlways, PTL

(* The page gets each member's own result, and an ordered batch as a whole    *)
(* (CachedBatchHandle::try_recv, drain_ready).                                *)
THEOREM PageGetsItsOwn == Spec => []ResultsAreOwn
<1>1. FetchInv => ResultsAreOwn
  <2> SUFFICES ASSUME FetchInv PROVE DeliveredIsOwn /\ OrderedIsWhole
    BY DEF ResultsAreOwn
  <2>1. DeliveredIsOwn
    BY DEF FetchInv, Books, Kept, Own, DeliveredIsOwn
  <2>2. OrderedIsWhole
    BY DEF FetchInv, Whole, OrderedIsWhole
  <2> QED  BY <2>1, <2>2
<1> QED  BY <1>1, FetchAlways, PTL

(* A request cancelled while parked is never submitted again (retry_deferred  *)
(* looks at the token first).                                                 *)
THEOREM CancelledIsNotResubmitted == Spec => CancelledStaysParked
<1>1. FetchInv /\ [Next]_vars => Barred
  BY FetchStep
<1>2. Spec => [][Barred]_vars
  BY <1>1, FetchAlways, PTL DEF Spec
<1> QED  BY <1>2 DEF CancelledStaysParked, Barred

------------------------------------------------------------------------------
(***************************************************************************)
(* The session history.                                                      *)
(***************************************************************************)

Addresses == Urls \cup {Home}
EntrySet == [url : Addresses, document : Nat]
RequestSet == [kind : {"push", "replace", "go"}, url : Urls \cup {Nothing}, delta : Int]
NavigationSet == [url : Addresses, replace : BOOLEAN]
PageSet == [serial : Nat \ {0}, scripted : BOOLEAN, location : Addresses,
            requests : Seq(RequestSet), navigation : NavigationSet \cup {Nothing}]

TypeInv ==
    /\ entries \in Seq(EntrySet) /\ current \in DOMAIN entries
    /\ page \in PageSet
    /\ committed \in Addresses /\ address \in Addresses
    /\ pending \in Urls \cup {Nothing}
    /\ past \in [visited : SUBSET Addresses, stopped : BOOLEAN]

\* No entry carries a number that no document has had yet, and those that carry
\* the number of a document with scripts name URLs it has visited.
ListOk(list) ==
    \A i \in DOMAIN list :
        /\ list[i].document <= page.serial
        /\ page.scripted /\ list[i].document = page.serial => list[i].url \in past.visited

\* What a script asked to be recorded is a URL it has moved its document to.
RequestsOk(requests) ==
    \A i \in DOMAIN requests :
        requests[i].kind # "go" => requests[i].url \in Urls \cap past.visited

HistoryInv ==
    /\ TypeInv
    /\ ListOk(entries) /\ RequestsOk(page.requests)
    /\ page.scripted => page.location \in past.visited
    /\ SettledEntry

------------------------------------------------------------------------------
(* The pieces every action is made of.                                       *)

(* What a list holds at any of its indices.                                  *)
LEMMA EntryTypes ==
    ASSUME NEW list \in Seq(EntrySet), NEW i \in DOMAIN list
    PROVE  /\ list[i] \in EntrySet
           /\ list[i].url \in Addresses /\ list[i].document \in Nat
<1>1. i \in 1..Len(list)
  BY LenProperties
<1>2. list[i] \in EntrySet
  BY <1>1, ElementOfSeq
<1> QED  BY <1>2 DEF EntrySet

(* An entry pushed onto the list becomes its last, at the next index.        *)
LEMMA PushedProperties ==
    ASSUME TypeInv, NEW e \in EntrySet
    PROVE  /\ Pushed(e) \in Seq(EntrySet)
           /\ DOMAIN Pushed(e) = 1..(current + 1)
           /\ \A i \in 1..current : Pushed(e)[i] = entries[i]
           /\ Pushed(e)[current + 1] = e
<1> DEFINE kept == SubSeq(entries, 1, current)
<1>1. entries \in Seq(EntrySet) /\ current \in 1..Len(entries)
  BY LenProperties DEF TypeInv
<1>2. /\ kept \in Seq(EntrySet) /\ Len(kept) = current
      /\ \A i \in 1..current : kept[i] = entries[i]
  BY <1>1, SubSeqProperties
<1> HIDE DEF kept
<1>3. /\ Append(kept, e) \in Seq(EntrySet)
      /\ DOMAIN Append(kept, e) = 1..(current + 1)
      /\ \A i \in 1..current : Append(kept, e)[i] = kept[i]
      /\ Append(kept, e)[current + 1] = e
  BY <1>1, <1>2, AppendProperties, LenProperties
<1> QED  BY <1>2, <1>3 DEF Pushed, kept

(* A pushed entry that carries no number yet leaves the list in order.       *)
LEMMA PushedOk ==
    ASSUME HistoryInv, NEW url \in Addresses
    PROVE  /\ Pushed(Entry(url, 0)) \in Seq(EntrySet)
           /\ current + 1 \in DOMAIN Pushed(Entry(url, 0))
           /\ ListOk(Pushed(Entry(url, 0)))
           /\ Pushed(Entry(url, 0))[current + 1].url = url
<1>1. Entry(url, 0) \in EntrySet /\ TypeInv /\ current \in Nat
  BY LenProperties DEF Entry, EntrySet, HistoryInv, TypeInv
<1>2. page.serial # 0 /\ page.serial \in Nat /\ DOMAIN entries = 1..Len(entries)
  BY LenProperties DEF HistoryInv, TypeInv, PageSet
<1>3. 1..current \subseteq DOMAIN entries
  BY <1>1, <1>2, LenProperties DEF TypeInv
<1>4. ListOk(Pushed(Entry(url, 0)))
  BY <1>1, <1>2, <1>3, PushedProperties DEF HistoryInv, ListOk, Entry
<1> QED  BY <1>1, <1>4, PushedProperties DEF Entry

(* A new document takes the current entry for its own, whatever list it is   *)
(* given, and no other entry carries its number.                            *)
LEMMA InstallKeeps ==
    ASSUME HistoryInv, NEW list \in Seq(EntrySet), NEW at \in DOMAIN list, ListOk(list),
           NEW url \in Addresses, NEW scripted \in BOOLEAN,
           Install(list, at, url, scripted), scripted => list[at].url = url
    PROVE  HistoryInv'
<1> DEFINE n == page.serial + 1
<1>1. page.serial \in Nat \ {0} /\ n \in Nat \ {0}
  BY DEF HistoryInv, TypeInv, PageSet
<1>2. /\ entries' = [list EXCEPT ![at].document = n] /\ current' = at
      /\ page' = [serial |-> n, scripted |-> scripted, location |-> url,
                  requests |-> <<>>, navigation |-> Nothing]
      /\ committed' = url /\ address' = url /\ pending' = Nothing
      /\ past' = [visited |-> {url}, stopped |-> FALSE]
  BY DEF Install, NewSerial
<1>3. [list[at] EXCEPT !.document = n] \in EntrySet
  BY <1>1, EntryTypes DEF EntrySet
<1>4. /\ entries' \in Seq(EntrySet) /\ DOMAIN entries' = DOMAIN list
      /\ entries'[at] = [list[at] EXCEPT !.document = n]
      /\ \A i \in DOMAIN list \ {at} : entries'[i] = list[i]
  <2>1. entries' = [list EXCEPT ![at] = [list[at] EXCEPT !.document = n]]
    BY <1>2
  <2> QED  BY <1>3, <2>1, ExceptSeq, LenProperties
<1>5. page' \in PageSet
  BY <1>1, <1>2 DEF PageSet
<1>6. TypeInv'
  BY <1>2, <1>4, <1>5 DEF TypeInv, Addresses
<1>7. entries'[at].document = n /\ entries'[at].url = list[at].url
  <2>1. list[at] \in EntrySet
    BY EntryTypes
  <2> QED  BY <1>4, <2>1 DEF EntrySet
<1>8. \A i \in DOMAIN list \ {at} : entries'[i].document < n
  <2>1. \A i \in DOMAIN list : list[i].document \in Nat
    BY EntryTypes
  <2> QED  BY <1>1, <1>4, <2>1 DEF ListOk
<1>9. ListOk(entries)'
  <2>1. page'.serial = n /\ page'.scripted = scripted /\ past'.visited = {url}
    BY <1>2
  <2>2. ASSUME NEW i \in DOMAIN list
        PROVE  /\ entries'[i].document <= n
               /\ scripted /\ entries'[i].document = n => entries'[i].url = url
    <3>1. CASE i = at
      BY <1>1, <1>7, <3>1
    <3>2. CASE i # at
      <4>1. entries'[i].document \in Nat /\ entries'[i].document < n
        BY <1>4, <1>8, <3>2, EntryTypes
      <4> QED  BY <1>1, <4>1
    <3> QED  BY <3>1, <3>2
  <2> QED  BY <1>4, <2>1, <2>2 DEF ListOk
<1>10. RequestsOk(page.requests)'
  BY <1>2 DEF RequestsOk
<1>11. page'.scripted => page'.location \in past'.visited
  BY <1>2
<1>12. SettledEntry'
  BY <1>2, <1>7 DEF SettledEntry
<1> QED  BY <1>6, <1>9, <1>10, <1>11, <1>12 DEF HistoryInv

\* A page that differs from the shown one in what waits in its queues.
Leftover(rest) ==
    /\ rest \in PageSet /\ RequestsOk(rest.requests)
    /\ rest.serial = page.serial /\ rest.scripted = page.scripted
    /\ rest.location = page.location

(* A navigation that starts moves the list and leaves the document.          *)
LEMMA LoadKeeps ==
    ASSUME HistoryInv, NEW list \in Seq(EntrySet), NEW at \in DOMAIN list, ListOk(list),
           NEW url \in Addresses, NEW rest, Leftover(rest),
           Load(list, at, url, rest)
    PROVE  HistoryInv'
<1>1. CASE url = Home /\ Install(list, at, Home, FALSE)
  BY <1>1, InstallKeeps DEF Addresses
<1>2. CASE /\ url # Home /\ entries' = list /\ current' = at
           /\ pending' = url /\ address' = url /\ page' = rest
           /\ past' = [past EXCEPT !.stopped = FALSE] /\ UNCHANGED committed
  <2>1. /\ entries' = list /\ current' = at /\ pending' = url /\ address' = url
        /\ page' = rest /\ committed' = committed /\ past' = [past EXCEPT !.stopped = FALSE]
    BY <1>2
  <2>2. url \in Urls /\ url # Nothing
    BY <1>2, HistoryAssumption DEF Addresses
  <2>3. past' \in [visited : SUBSET Addresses, stopped : BOOLEAN] /\ past'.visited = past.visited
    BY <2>1 DEF HistoryInv, TypeInv
  <2>4. TypeInv'
    BY <2>1, <2>2, <2>3 DEF HistoryInv, TypeInv, Leftover
  <2>5. ListOk(entries)' /\ RequestsOk(page.requests)'
    BY <2>1, <2>3 DEF ListOk, RequestsOk, Leftover
  <2>6. SettledEntry'
    BY <2>1, <2>2 DEF SettledEntry
  <2> QED  BY <2>1, <2>3, <2>4, <2>5, <2>6 DEF HistoryInv, Leftover
<1> QED  BY <1>1, <1>2 DEF Load

(* So does one that adds its entry, or shows an error page for want of room. *)
LEMMA NavigateKeeps ==
    ASSUME HistoryInv, NEW url \in Addresses, NEW rest, Leftover(rest),
           NavigatePush(url, rest) \/ NavigateCurrent(url, rest)
    PROVE  HistoryInv'
<1>1. /\ entries \in Seq(EntrySet) /\ current \in DOMAIN entries /\ ListOk(entries)
  BY DEF HistoryInv, TypeInv
<1>2. CASE NavigateCurrent(url, rest)
  BY <1>1, <1>2, LoadKeeps DEF NavigateCurrent
<1>3. CASE CanPush /\ Load(Pushed(Entry(url, 0)), current + 1, url, rest)
  BY <1>3, PushedOk, LoadKeeps
<1>4. CASE ~CanPush /\ Install(entries, current, url, FALSE)
  BY <1>1, <1>4, InstallKeeps
<1> QED  BY <1>2, <1>3, <1>4 DEF NavigatePush

(* A traversal stays in the document only on entries that are the document's.*)
LEMMA TraverseKeeps ==
    ASSUME HistoryInv, NEW delta \in Int, NEW rest, Leftover(rest), Traverse(delta, rest)
    PROVE  HistoryInv'
<1> DEFINE at == current + delta
<1>1. /\ entries \in Seq(EntrySet) /\ ListOk(entries) /\ page \in PageSet
      /\ past \in [visited : SUBSET Addresses, stopped : BOOLEAN]
      /\ pending \in Urls \cup {Nothing}
  BY DEF HistoryInv, TypeInv
<1>2. CASE /\ at \notin DOMAIN entries /\ pending' = Nothing /\ page' = rest
           /\ past' = [past EXCEPT !.stopped = @ \/ pending # Nothing]
           /\ UNCHANGED <<entries, current, committed, address>>
  <2>1. /\ past' \in [visited : SUBSET Addresses, stopped : BOOLEAN]
        /\ past'.visited = past.visited /\ past'.stopped = (past.stopped \/ pending # Nothing)
    BY <1>1, <1>2
  <2>2. TypeInv'
    BY <1>2, <2>1 DEF HistoryInv, TypeInv, Leftover
  <2>3. ListOk(entries)' /\ RequestsOk(page.requests)'
    BY <1>2, <2>1 DEF HistoryInv, ListOk, RequestsOk, Leftover
  <2>4. SettledEntry'
    BY <1>2, <2>1 DEF HistoryInv, SettledEntry, Leftover
  <2> QED  BY <1>2, <2>1, <2>2, <2>3, <2>4 DEF HistoryInv, Leftover
<1>3. CASE /\ at \in DOMAIN entries /\ SameDocument(entries[at])
           /\ current' = at /\ pending' = Nothing
           /\ page' = [rest EXCEPT !.location = entries[at].url]
           /\ committed' = entries[at].url /\ address' = entries[at].url
           /\ past' = [past EXCEPT !.stopped = FALSE]
           /\ UNCHANGED entries
  <2>1. /\ past' \in [visited : SUBSET Addresses, stopped : BOOLEAN]
        /\ past'.visited = past.visited
    BY <1>1, <1>3
  <2>2. entries[at].url \in Addresses /\ entries[at].document = page.serial
    BY <1>1, <1>3, EntryTypes DEF SameDocument
  <2>3. /\ page' \in PageSet /\ page'.location = entries[at].url
        /\ page'.serial = page.serial /\ page'.scripted = page.scripted
        /\ page'.requests = rest.requests
    BY <1>3, <2>2 DEF PageSet, Leftover
  <2>4. TypeInv'
    BY <1>3, <2>1, <2>2, <2>3 DEF HistoryInv, TypeInv
  <2>5. ListOk(entries)' /\ RequestsOk(page.requests)'
    BY <1>1, <1>3, <2>1, <2>3 DEF ListOk, RequestsOk, Leftover
  <2>6. page'.scripted => page'.location \in past'.visited
    BY <1>1, <1>3, <2>1, <2>2, <2>3 DEF ListOk
  <2>7. SettledEntry'
    BY <1>3, <2>2, <2>3 DEF SettledEntry
  <2> QED  BY <2>4, <2>5, <2>6, <2>7 DEF HistoryInv
<1>4. CASE at \in DOMAIN entries /\ Load(entries, at, entries[at].url, rest)
  <2>1. entries[at].url \in Addresses
    BY <1>1, <1>4, EntryTypes
  <2> QED  BY <1>1, <1>4, <2>1, LoadKeeps
<1> QED  BY <1>2, <1>3, <1>4 DEF Traverse

------------------------------------------------------------------------------
(* The actions.                                                              *)

(* The page itself and the page with its queue emptied are such a page.      *)
LEMMA Leftovers ==
    ASSUME HistoryInv
    PROVE  /\ Leftover(page)
           /\ Leftover([page EXCEPT !.requests = <<>>])
           /\ Leftover([page EXCEPT !.navigation = Nothing])
           /\ page.requests # <<>> => /\ Leftover(Rest) /\ Request \in RequestSet
                                      /\ Request = page.requests[1] /\ 1 \in DOMAIN page.requests
<1>1. page \in PageSet /\ RequestsOk(page.requests) /\ page.requests \in Seq(RequestSet)
  BY DEF HistoryInv, TypeInv, PageSet
<1>2. Leftover(page) /\ Leftover([page EXCEPT !.navigation = Nothing])
  BY <1>1 DEF Leftover, PageSet
<1>3. Leftover([page EXCEPT !.requests = <<>>])
  <2>1. <<>> \in Seq(RequestSet) /\ RequestsOk(<<>>)
    BY EmptySeq DEF RequestsOk
  <2> QED  BY <1>1, <2>1 DEF Leftover, PageSet
<1>4. ASSUME page.requests # <<>>
      PROVE  /\ Leftover(Rest) /\ Request \in RequestSet
             /\ Request = page.requests[1] /\ 1 \in DOMAIN page.requests
  <2>1. /\ Head(page.requests) \in RequestSet /\ Head(page.requests) = page.requests[1]
        /\ Tail(page.requests) \in Seq(RequestSet)
        /\ Len(Tail(page.requests)) = Len(page.requests) - 1 /\ Len(page.requests) \in Nat \ {0}
        /\ \A i \in 1..Len(Tail(page.requests)) : Tail(page.requests)[i] = page.requests[i + 1]
    BY <1>1, <1>4, HeadTailProperties, LenProperties, EmptySeq
  <2>2. RequestsOk(Tail(page.requests))
    <3> SUFFICES ASSUME NEW i \in DOMAIN Tail(page.requests)
                 PROVE  /\ Tail(page.requests)[i] = page.requests[i + 1]
                        /\ i + 1 \in DOMAIN page.requests
      BY <1>1 DEF RequestsOk
    <3>1. i \in 1..Len(Tail(page.requests))
      BY <2>1, LenProperties
    <3> QED  BY <1>1, <2>1, <3>1, LenProperties
  <2>3. 1 \in DOMAIN page.requests
    BY <1>1, <2>1, LenProperties
  <2> QED  BY <1>1, <2>1, <2>2, <2>3 DEF Leftover, PageSet, Rest, Request
<1> QED  BY <1>2, <1>3, <1>4

(* A script that moves its document's URL has visited that URL.              *)
LEMMA ScriptKeeps ==
    ASSUME HistoryInv, NEW kind \in {"push", "replace", "go"}, NEW url, NEW delta \in Int,
           IF kind = "go" THEN url = Nothing ELSE url \in Urls, Script(kind, url, delta)
    PROVE  HistoryInv'
<1> DEFINE r == [kind |-> kind, url |-> url, delta |-> delta]
           moved == IF kind = "go" THEN page.location ELSE url
           visited == IF kind = "go" THEN past.visited ELSE past.visited \cup {url}
<1>1. /\ page' = [page EXCEPT !.requests = Append(page.requests, r), !.location = moved]
      /\ past' = [past EXCEPT !.visited = visited] /\ page.scripted
      /\ UNCHANGED <<entries, current, committed, pending, address>>
  BY DEF Script
<1>2. /\ page \in PageSet /\ page.requests \in Seq(RequestSet) /\ r \in RequestSet
      /\ past \in [visited : SUBSET Addresses, stopped : BOOLEAN]
      /\ moved \in Addresses /\ visited \in SUBSET Addresses
  BY DEF HistoryInv, TypeInv, PageSet, RequestSet, Addresses
<1>3. /\ Append(page.requests, r) \in Seq(RequestSet)
      /\ DOMAIN Append(page.requests, r) = 1..(Len(page.requests) + 1)
      /\ \A i \in DOMAIN page.requests : Append(page.requests, r)[i] = page.requests[i]
      /\ Append(page.requests, r)[Len(page.requests) + 1] = r
      /\ DOMAIN page.requests = 1..Len(page.requests) /\ Len(page.requests) \in Nat
  BY <1>2, AppendProperties, LenProperties
<1>4. /\ page' \in PageSet /\ page'.requests = Append(page.requests, r)
      /\ page'.location = moved /\ page'.serial = page.serial
      /\ page'.scripted = page.scripted /\ past'.visited = visited
      /\ past' \in [visited : SUBSET Addresses, stopped : BOOLEAN]
      /\ past'.stopped = past.stopped
  BY <1>1, <1>2, <1>3 DEF PageSet
<1>5. past.visited \subseteq visited /\ (kind # "go" => url \in visited /\ url \in Urls)
  OBVIOUS
<1> HIDE DEF visited, moved
<1>6. TypeInv'
  BY <1>1, <1>4 DEF HistoryInv, TypeInv
<1>7. ListOk(entries)'
  BY <1>1, <1>4, <1>5 DEF HistoryInv, ListOk
<1>8. RequestsOk(page.requests)'
  <2> SUFFICES ASSUME NEW i \in 1..(Len(page.requests) + 1), page'.requests[i].kind # "go"
               PROVE  page'.requests[i].url \in Urls \cap visited
    BY <1>3, <1>4 DEF RequestsOk
  <2>1. CASE i \in DOMAIN page.requests
    BY <1>3, <1>4, <1>5, <2>1 DEF HistoryInv, RequestsOk
  <2>2. CASE i = Len(page.requests) + 1
    BY <1>3, <1>4, <1>5, <2>2
  <2> QED  BY <1>3, <2>1, <2>2
<1>9. page'.scripted => page'.location \in past'.visited
  BY <1>1, <1>4, <1>5 DEF HistoryInv, moved
<1>10. SettledEntry'
  BY <1>1, <1>4 DEF HistoryInv, SettledEntry
<1> QED  BY <1>6, <1>7, <1>8, <1>9, <1>10 DEF HistoryInv

(* A recorded entry is the shown document's and names a URL it has visited.   *)
LEMMA RecordKeeps ==
    ASSUME HistoryInv, RecordHistoryEntry
    PROVE  HistoryInv'
<1> DEFINE e == Entry(Request.url, page.serial)
<1>1. /\ Leftover(Rest) /\ Request \in RequestSet /\ Request.kind # "go"
      /\ Request.url \in Urls \cap past.visited
      /\ page' = Rest /\ pending' = pending
  BY Leftovers DEF RecordHistoryEntry, HistoryInv, RequestsOk
<1>2. /\ e \in EntrySet /\ e.document = page.serial /\ e.url \in past.visited
      /\ page.serial \in Nat /\ Request.url \in Addresses
      /\ entries \in Seq(EntrySet) /\ current \in DOMAIN entries /\ TypeInv
      /\ DOMAIN entries = 1..Len(entries) /\ Len(entries) \in Nat
  BY <1>1, LenProperties DEF HistoryInv, TypeInv, PageSet, EntrySet, Entry, Addresses
<1>3. /\ past' \in [visited : SUBSET Addresses, stopped : BOOLEAN]
      /\ past'.visited = past.visited
      /\ past' = [past EXCEPT !.stopped = @ /\ Request.kind = "push" /\ ~CanPush]
  BY DEF RecordHistoryEntry, HistoryInv, TypeInv
<1>4. /\ page'.serial = page.serial /\ page'.scripted = page.scripted
      /\ page'.location = page.location /\ page' \in PageSet
      /\ RequestsOk(page.requests)'
  BY <1>1, <1>3 DEF Leftover, RequestsOk
<1> HIDE DEF e
<1>5. ASSUME NEW list \in Seq(EntrySet), entries' = list, current' \in DOMAIN list,
             \A i \in DOMAIN list : list[i] = e \/ (i \in DOMAIN entries /\ list[i] = entries[i]),
             list[current'] = e, committed' = Request.url, address' = Request.url
      PROVE  HistoryInv'
  <2>1. TypeInv'
    BY <1>1, <1>2, <1>3, <1>4, <1>5 DEF HistoryInv, TypeInv
  <2>2. ListOk(entries)'
    <3>1. \A i \in DOMAIN list : /\ list[i].document <= page.serial
                                 /\ page.scripted /\ list[i].document = page.serial
                                        => list[i].url \in past.visited
      BY <1>2, <1>5 DEF HistoryInv, ListOk
    <3> QED  BY <1>3, <1>4, <1>5, <3>1 DEF ListOk
  <2>3. SettledEntry'
    BY <1>2, <1>4, <1>5 DEF SettledEntry
  <2> QED  BY <1>3, <1>4, <2>1, <2>2, <2>3 DEF HistoryInv
<1>6. CASE /\ entries' = [entries EXCEPT ![current] = e] /\ current' = current
           /\ committed' = Request.url /\ address' = Request.url
  <2>1. /\ [entries EXCEPT ![current] = e] \in Seq(EntrySet)
        /\ DOMAIN [entries EXCEPT ![current] = e] = DOMAIN entries
    BY <1>2, ExceptSeq, LenProperties
  <2> QED  BY <1>2, <1>5, <1>6, <2>1
<1>7. CASE /\ entries' = Pushed(e) /\ current' = current + 1
           /\ committed' = Request.url /\ address' = Request.url
  <2>1. 1..current \subseteq DOMAIN entries /\ current \in Nat
    BY <1>2
  <2>2. /\ Pushed(e) \in Seq(EntrySet) /\ current + 1 \in DOMAIN Pushed(e)
        /\ Pushed(e)[current + 1] = e
        /\ \A i \in DOMAIN Pushed(e) : i \in 1..current \/ i = current + 1
        /\ \A i \in 1..current : Pushed(e)[i] = entries[i]
    BY <1>2, <2>1, PushedProperties
  <2> QED  BY <1>5, <1>7, <2>1, <2>2
<1>8. CASE Request.kind = "push" /\ ~CanPush /\ UNCHANGED <<entries, current, committed, address>>
  <2>1. past'.stopped = past.stopped
    BY <1>3, <1>8 DEF HistoryInv, TypeInv
  <2>2. TypeInv' /\ ListOk(entries)' /\ SettledEntry'
    BY <1>1, <1>2, <1>3, <1>4, <1>8, <2>1 DEF HistoryInv, TypeInv, ListOk, SettledEntry
  <2> QED  BY <1>3, <1>4, <2>2 DEF HistoryInv
<1> QED  BY <1>6, <1>7, <1>8 DEF RecordHistoryEntry, e

(* The load ends in an error page or in the response's own URL.              *)
LEMMA FinishKeeps ==
    ASSUME HistoryInv, FinishNavigation
    PROVE  HistoryInv'
<1>1. /\ entries \in Seq(EntrySet) /\ current \in DOMAIN entries /\ ListOk(entries)
      /\ pending \in Urls \cup {Nothing} /\ page.serial \in Nat \ {0}
  BY DEF HistoryInv, TypeInv, PageSet
<1>2. CASE Install(entries, current, pending, FALSE)
  BY <1>1, <1>2, InstallKeeps DEF FinishNavigation, Addresses
<1>3. ASSUME NEW final \in Urls, NEW renderable \in BOOLEAN, Replaced(final, renderable)
      PROVE  HistoryInv'
  <2> DEFINE list == [entries EXCEPT ![current] = Entry(final, 0)]
  <2>1. Entry(final, 0) \in EntrySet /\ final \in Addresses
    BY DEF Entry, EntrySet, Addresses
  <2>2. list \in Seq(EntrySet) /\ DOMAIN list = DOMAIN entries /\ list[current] = Entry(final, 0)
    BY <1>1, <2>1, ExceptSeq, LenProperties
  <2>3. ListOk(list)
    BY <1>1, <2>2 DEF ListOk, Entry
  <2>4. list[current].url = final
    BY <2>2 DEF Entry
  <2> QED  BY <1>1, <1>3, <2>1, <2>2, <2>3, <2>4, InstallKeeps DEF Replaced
<1> QED  BY <1>2, <1>3 DEF FinishNavigation

(* An assignment to location waits in the page.                              *)
LEMMA AssignKeeps ==
    ASSUME HistoryInv, AssignLocation
    PROVE  HistoryInv'
<1>1. PICK url \in Addresses, replace \in BOOLEAN :
          page' = [page EXCEPT !.navigation = [url |-> url, replace |-> replace]]
  BY DEF AssignLocation, Addresses
<1>2. page' \in PageSet
  BY <1>1 DEF HistoryInv, TypeInv, PageSet, NavigationSet
<1>3. /\ page'.serial = page.serial /\ page'.scripted = page.scripted
      /\ page'.location = page.location /\ page'.requests = page.requests
      /\ UNCHANGED <<entries, current, committed, pending, address, past>>
  BY <1>1 DEF AssignLocation, HistoryInv, TypeInv, PageSet
<1> QED  BY <1>2, <1>3 DEF HistoryInv, TypeInv, ListOk, RequestsOk, SettledEntry

------------------------------------------------------------------------------
(* The invariant.                                                            *)

LEMMA HistoryStarts == HistoryInit => HistoryInv
<1> SUFFICES ASSUME HistoryInit PROVE HistoryInv
  OBVIOUS
<1>1. Entry(Home, 1) \in EntrySet /\ Entry(Home, 1).document = 1
  BY DEF Entry, EntrySet, Addresses
<1>2. entries \in Seq(EntrySet) /\ DOMAIN entries = {1} /\ entries[1] = Entry(Home, 1)
  BY <1>1 DEF HistoryInit
<1>3. page \in PageSet /\ page.requests = <<>> /\ page.serial = 1 /\ ~page.scripted
  BY DEF HistoryInit, PageSet, Addresses
<1>4. TypeInv
  BY <1>2, <1>3 DEF HistoryInit, TypeInv, Addresses
<1>5. ListOk(entries) /\ RequestsOk(page.requests) /\ SettledEntry
  BY <1>1, <1>2, <1>3 DEF HistoryInit, ListOk, RequestsOk, SettledEntry
<1> QED  BY <1>3, <1>4, <1>5 DEF HistoryInv

LEMMA HistoryStep == HistoryInv /\ [HistoryNext]_historyVars => HistoryInv'
<1> SUFFICES ASSUME HistoryInv, [HistoryNext]_historyVars PROVE HistoryInv'
  OBVIOUS
<1>1. /\ Leftover(page) /\ entries \in Seq(EntrySet) /\ current \in DOMAIN entries
      /\ ListOk(entries) /\ committed \in Addresses
  BY Leftovers DEF HistoryInv, TypeInv
<1>2. CASE Navigate
  BY <1>1, <1>2, NavigateKeeps DEF Navigate, Addresses
<1>3. CASE Reload
  <2>1. entries[current].url \in Addresses
    BY <1>1, EntryTypes
  <2> QED  BY <1>1, <1>3, <2>1, NavigateKeeps DEF Reload
<1>4. CASE InvalidAddress
  BY <1>1, <1>4, InstallKeeps DEF InvalidAddress
<1>5. CASE Back \/ Forward
  BY <1>1, <1>5, TraverseKeeps DEF Back, Forward
<1>6. CASE HistoryStateChange
  BY <1>6, ScriptKeeps DEF HistoryStateChange
<1>7. CASE HistoryGo
  BY <1>7, ScriptKeeps DEF HistoryGo
<1>8. CASE AssignLocation
  BY <1>8, AssignKeeps
<1>9. CASE RecordHistoryEntry
  BY <1>9, RecordKeeps
<1>10. CASE DrainGo
  <2>1. Request.delta \in Int /\ Leftover([page EXCEPT !.requests = <<>>])
    BY <1>10, Leftovers DEF DrainGo, RequestSet
  <2> QED  BY <1>10, <2>1, TraverseKeeps DEF DrainGo
<1>11. CASE DrainScriptNavigations
  <2>1. page.navigation.url \in Addresses
    BY <1>11 DEF DrainScriptNavigations, HistoryInv, TypeInv, PageSet, NavigationSet
  <2>2. Leftover([page EXCEPT !.navigation = Nothing])
    BY Leftovers
  <2> QED  BY <1>11, <2>1, <2>2, NavigateKeeps DEF DrainScriptNavigations
<1>12. CASE FinishNavigation
  BY <1>12, FinishKeeps
<1>13. CASE UNCHANGED historyVars
  BY <1>13 DEF historyVars, HistoryInv, TypeInv, ListOk, RequestsOk, SettledEntry
<1> QED  BY <1>2, <1>3, <1>4, <1>5, <1>6, <1>7, <1>8, <1>9, <1>10, <1>11, <1>12, <1>13 DEF HistoryNext

LEMMA HistoryAlways == HistorySpec => []HistoryInv
  BY HistoryStarts, HistoryStep, PTL DEF HistorySpec

(* Whenever no load is under way and none was given up, the current entry     *)
(* belongs to the shown document and the tab shows the committed URL: for any *)
(* order of navigations, traversals, script requests and ends of loads.      *)
THEOREM EntriesSettle == HistorySpec => []SettledEntry
<1>1. HistoryInv => SettledEntry
  BY DEF HistoryInv
<1> QED  BY <1>1, HistoryAlways, PTL

(* popstate never gives a document the URL of another: the entries under its *)
(* number name URLs it was loaded from or has moved itself to.               *)
THEOREM PopstateStaysHome == HistorySpec => []PopstateIsOwn
<1>1. HistoryInv => PopstateIsOwn
  BY DEF HistoryInv, ListOk, PopstateIsOwn
<1> QED  BY <1>1, HistoryAlways, PTL
==============================================================================
