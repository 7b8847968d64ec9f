--------------------------- MODULE HttpCacheProofs ---------------------------
(***************************************************************************)
(* Proofs about HttpCache: variants are kept apart, an answer to a request   *)
(* that predates a clear does not refill the cache, the byte counter is     *)
(* exact and both limits hold, and what is retained is served, for any      *)
(* keys, fetches, header fields, answers, sizes and limits.                 *)
(***************************************************************************)
EXTENDS HttpCache, DataLemmas

------------------------------------------------------------------------------
(* The inductive invariant.  That a body goes only to requests of its        *)
(* variant needs, of every entry and every answer on its way, that the body  *)
(* agrees with the variant it is kept under and that the headers still name  *)
(* all the server selects by.                                                *)

EntryFields == {"key", "variant", "headers", "freshUntil", "bytes", "lastUsed",
                "body", "since"}

\* max-age is an unsigned number of seconds wherever it appears.
AgeIsNat(headers) == "maxAge" \in DOMAIN headers => headers.maxAge \in Nat

\* body is the representation of key for the header values in variant.
Represents(body, key, variant) ==
    /\ body.key = key /\ DOMAIN body.selected = Needs[key]
    /\ \A n \in Needs[key] : body.selected[n] = variant[n]

\* An entry keeps the body of its own variant, and its headers say which
\* fields that variant is made of.
Consistent(e) ==
    /\ DOMAIN e = EntryFields /\ e.freshUntil \in Nat
    /\ AgeIsNat(e.headers) /\ DOMAIN e.variant = Vary(e.headers)
    /\ Needs[e.key] \subseteq DOMAIN e.variant
    /\ Represents(e.body, e.key, e.variant)

WellFormed(e) == Consistent(e) /\ e.lastUsed \in Nat /\ e.lastUsed <= accessClock

\* An answer on its way names every field the server selects by: a 200 always,
\* a 304 where it changes them.
Honest(f) ==
    LET a == answer[f]
    IN  /\ AgeIsNat(a.headers)
        /\ a.status = 200 => /\ Represents(a.body, KeyOf[f], HeaderOf[f])
                             /\ Needs[KeyOf[f]] \subseteq Vary(a.headers)
        /\ a.status = 304 => ("vary" \in DOMAIN a.headers =>
                                 Needs[KeyOf[f]] \subseteq a.headers.vary)

EntriesOk ==
    /\ accessClock \in Nat /\ IsFiniteSet(entries)
    /\ \A e \in entries : WellFormed(e)
    /\ OneEntryPerVariant /\ ClearedStaysCleared

AnswersOk == DOMAIN answer = Fetches /\ \A f \in Fetches : Honest(f)

CacheInv ==
    /\ now \in Nat /\ DOMAIN got = Fetches
    /\ EntriesOk /\ AnswersOk /\ NoWrongVariant

------------------------------------------------------------------------------
(* Operators.                                                                *)

\* merge_headers keeps the previous fields the update does not name.
LEMMA MergedIs ==
    ASSUME NEW u, NEW p
    PROVE  /\ DOMAIN MergedHeaders(p, u) = DOMAIN u \cup DOMAIN p
           /\ \A n \in DOMAIN u : MergedHeaders(p, u)[n] = u[n]
           /\ \A n \in DOMAIN p \ DOMAIN u : MergedHeaders(p, u)[n] = p[n]
  BY DEF MergedHeaders

\* Merging cannot lose a field the server selects by, nor invent an age.
LEMMA MergedKeeps ==
    ASSUME NEW u, NEW p, NEW needs, AgeIsNat(u), AgeIsNat(p),
           needs \subseteq Vary(p), "vary" \in DOMAIN u => needs \subseteq u.vary
    PROVE  /\ AgeIsNat(MergedHeaders(p, u))
           /\ needs \subseteq Vary(MergedHeaders(p, u))
<1>1. AgeIsNat(MergedHeaders(p, u))
  <2>1. CASE "maxAge" \in DOMAIN u
    BY <2>1, MergedIs DEF AgeIsNat
  <2>2. CASE "maxAge" \in DOMAIN p \ DOMAIN u
    BY <2>2, MergedIs DEF AgeIsNat
  <2>3. CASE "maxAge" \notin DOMAIN p \cup DOMAIN u
    <3>1. "maxAge" \notin DOMAIN MergedHeaders(p, u)
      BY <2>3, MergedIs
    <3> QED  BY <3>1 DEF AgeIsNat
  <2> QED  BY <2>1, <2>2, <2>3
<1>2. CASE "vary" \in DOMAIN u
  BY <1>1, <1>2, MergedIs DEF Vary
<1>3. CASE "vary" \notin DOMAIN u /\ "vary" \in DOMAIN p
  BY <1>1, <1>3, MergedIs DEF Vary
<1>4. CASE "vary" \notin DOMAIN u /\ "vary" \notin DOMAIN p
  BY <1>1, <1>4, MergedIs DEF Vary
<1> QED  BY <1>2, <1>3, <1>4

\* A nonempty choice of entries has a best one: the freshest, and of those the
\* most recently used.
LEMMA BestIs ==
    ASSUME NEW S, S \subseteq entries, S # {}, CacheInv
    PROVE  Best(S) \in S
<1>1. IsFiniteSet(S) /\ \A e \in S : e.freshUntil \in Nat /\ e.lastUsed \in Nat
  BY FS_Subset DEF CacheInv, EntriesOk, WellFormed, Consistent
<1> DEFINE until == {e.freshUntil : e \in S}
<1>2. until \in SUBSET Nat /\ until # {} /\ IsFiniteSet(until)
  <2>1. IsFiniteSet(until)
    <3> DEFINE f == [e \in S |-> e.freshUntil]
    <3>1. f \in Surjection(S, until)
      BY DEF Surjection
    <3> HIDE DEF f, until
    <3> QED  BY <1>1, <3>1, FS_Surjection
  <2> QED  BY <1>1, <2>1
<1>3. PICK m \in until : \A k \in until : k <= m
  BY <1>2, FiniteMaximum
<1> DEFINE T == {e \in S : e.freshUntil = m}
           used == {e.lastUsed : e \in T}
<1>4. T \in SUBSET S /\ T # {}
  BY <1>3
<1>5. IsFiniteSet(T)
  BY <1>1, <1>4, FS_Subset
<1>6. used \in SUBSET Nat /\ used # {}
  BY <1>1, <1>4
<1>7. IsFiniteSet(used)
  <2> DEFINE f == [e \in T |-> e.lastUsed]
  <2>1. f \in Surjection(T, used)
    BY DEF Surjection
  <2> HIDE DEF f, used, T
  <2> QED  BY <1>5, <2>1, FS_Surjection
<1>8. PICK n \in used : \A k \in used : k <= n
  BY <1>6, <1>7, FiniteMaximum
<1>9. PICK e \in T : e.lastUsed = n
  BY <1>8
<1>10. \A d \in S : \/ e.freshUntil > d.freshUntil
                    \/ e.freshUntil = d.freshUntil /\ e.lastUsed >= d.lastUsed
  <2> TAKE d \in S
  <2>1. e.freshUntil = m /\ d.freshUntil <= m /\ d.freshUntil \in Nat /\ m \in Nat
    BY <1>1, <1>2, <1>3, <1>9
  <2>2. d.freshUntil = m => d.lastUsed <= n /\ d.lastUsed \in Nat /\ n \in Nat
    BY <1>1, <1>6, <1>8
  <2> QED  BY <2>1, <2>2, <1>9
<1>11. e \in S
  BY <1>9
<1> QED  BY <1>10, <1>11 DEF Best

------------------------------------------------------------------------------
(* The three ways the cache changes.                                         *)

\* Using an entry renews its access number and nothing else.
LEMMA TouchKeeps ==
    ASSUME EntriesOk, NEW e \in entries, Touch(e), epoch' = epoch
    PROVE  EntriesOk'
<1>1. PICK x : x = [e EXCEPT !.lastUsed = accessClock + 1]
  OBVIOUS
<1>2. /\ entries' = (entries \ {e}) \cup {x} /\ accessClock' = accessClock + 1
      /\ accessClock \in Nat
  BY <1>1 DEF Touch, EntriesOk
<1>3. WellFormed(e) /\ e.since = epoch
  BY DEF EntriesOk, ClearedStaysCleared
<1>4. /\ x.key = e.key /\ x.variant = e.variant /\ x.headers = e.headers
      /\ x.freshUntil = e.freshUntil /\ x.body = e.body /\ x.since = e.since
      /\ x.lastUsed = accessClock + 1 /\ DOMAIN x = EntryFields
  BY <1>1, <1>3 DEF WellFormed, Consistent, EntryFields
<1>5. \A d \in entries' : WellFormed(d)'
  <2>1. WellFormed(x)'
    <3>1. Consistent(x)
      BY <1>3, <1>4 DEF WellFormed, Consistent
    <3> QED  BY <1>2, <1>4, <3>1 DEF WellFormed, Consistent
  <2>2. \A d \in entries : WellFormed(d)'
    BY <1>2 DEF EntriesOk, WellFormed
  <2> QED  BY <1>2, <2>1, <2>2
<1>6. IsFiniteSet(entries')
  BY <1>2, FS_Subset, FS_AddElement DEF EntriesOk
<1>7. OneEntryPerVariant'
  <2>1. \A d \in entries \ {e} : /\ d.lastUsed # x.lastUsed
                                 /\ ~(d.key = x.key /\ d.variant = x.variant)
    BY <1>2, <1>4 DEF EntriesOk, OneEntryPerVariant, WellFormed
  <2> QED  BY <1>2, <2>1 DEF EntriesOk, OneEntryPerVariant
<1>8. ClearedStaysCleared'
  BY <1>2, <1>3, <1>4 DEF EntriesOk, ClearedStaysCleared
<1> QED  BY <1>2, <1>5, <1>6, <1>7, <1>8 DEF EntriesOk

\* Removing entries, by expiry, eviction or replacement, disturbs none of those
\* that stay.
LEMMA FewerKeeps ==
    ASSUME EntriesOk, entries' \subseteq entries,
           accessClock' = accessClock, epoch' = epoch
    PROVE  EntriesOk'
<1>1. IsFiniteSet(entries')
  BY FS_Subset DEF EntriesOk
<1>2. \A e \in entries' : WellFormed(e)'
  BY DEF EntriesOk, WellFormed
<1> QED  BY <1>1, <1>2 DEF EntriesOk, OneEntryPerVariant, ClearedStaysCleared

\* Insertion takes the place of the entry of the same variant, whatever it then
\* evicts.
LEMMA InsertKeeps ==
    ASSUME EntriesOk, NEW e, NEW gone, Insert(e, gone), epoch' = epoch,
           e.lastUsed = accessClock + 1, e.since = epoch,
           Consistent(e)
    PROVE  EntriesOk'
<1>1. PICK all : all = (entries \ Replaced(e, gone)) \cup {e}
  OBVIOUS
<1>2. entries' \subseteq all /\ accessClock' = accessClock + 1 /\ accessClock \in Nat
  BY <1>1 DEF Insert, Kept, EntriesOk
<1>3. \A d \in all : \/ d = e
                     \/ d \in entries /\ ~(d.key = e.key /\ d.variant = e.variant)
  BY <1>1 DEF Replaced
<1>4. \A d \in all : WellFormed(d)'
  <2>1. WellFormed(e)'
    BY <1>2 DEF WellFormed, Consistent
  <2>2. \A d \in entries : WellFormed(d)'
    BY <1>2 DEF EntriesOk, WellFormed, Consistent
  <2> QED  BY <1>3, <2>1, <2>2
<1>5. IsFiniteSet(entries')
  <2>1. entries \ Replaced(e, gone) \in SUBSET entries
    OBVIOUS
  <2>2. IsFiniteSet(entries \ Replaced(e, gone))
    BY <2>1, FS_Subset DEF EntriesOk
  <2>3. IsFiniteSet(all)
    BY <1>1, <2>2, FS_AddElement
  <2> QED  BY <1>2, <2>3, FS_Subset
<1>6. OneEntryPerVariant'
  <2>1. \A d \in entries : d.lastUsed # e.lastUsed
    BY <1>2 DEF EntriesOk, WellFormed
  <2>2. \A c, d \in all : \/ c = d
                          \/ c.lastUsed # d.lastUsed
                             /\ ~(c.key = d.key /\ c.variant = d.variant)
    BY <1>3, <2>1 DEF EntriesOk, OneEntryPerVariant
  <2> QED  BY <1>2, <2>2 DEF OneEntryPerVariant
<1>7. ClearedStaysCleared'
  BY <1>2, <1>3 DEF EntriesOk, ClearedStaysCleared
<1> QED  BY <1>2, <1>4, <1>5, <1>6, <1>7 DEF EntriesOk

------------------------------------------------------------------------------
(* What reaches a page.                                                      *)

\* The entry a lookup or a 304 picks holds a representation for the request.
LEMMA PickedFits ==
    ASSUME CacheInv, NEW f \in Fetches, NEW S \in {Fresh(f), Stale(f)}, S # {}
    PROVE  /\ Best(S) \in entries /\ WellFormed(Best(S))
           /\ Best(S).key = KeyOf[f]
           /\ Represents(Best(S).body, KeyOf[f], HeaderOf[f])
<1>1. S \subseteq Bucket(f) /\ S \subseteq entries
  BY DEF Fresh, Stale, Bucket
<1>2. PICK e : e = Best(S)
  OBVIOUS
<1>3. e \in Bucket(f) /\ e \in entries
  BY <1>1, <1>2, BestIs
<1>4. WellFormed(e) /\ e.key = KeyOf[f] /\ Matches(e.variant, f)
  BY <1>3 DEF CacheInv, EntriesOk, Bucket
<1>5. Represents(e.body, KeyOf[f], HeaderOf[f])
  BY <1>4 DEF WellFormed, Consistent, Represents, Matches
<1> QED  BY <1>2, <1>3, <1>4, <1>5

\* Handing a page an error, or a representation for its request, is right.
LEMMA GotKeeps ==
    ASSUME CacheInv, NEW f \in Fetches, NEW kind, NEW body, Got(f, kind, body),
           kind \in {"hit", "body"} => Represents(body, KeyOf[f], HeaderOf[f])
    PROVE  NoWrongVariant' /\ DOMAIN got' = Fetches
<1>1. PICK g : g = [kind |-> kind, body |-> body]
  OBVIOUS
<1>2. got' = [got EXCEPT ![f] = g]
  BY <1>1 DEF Got
<1>3. DOMAIN got' = Fetches /\ got'[f] = g /\ \A h \in Fetches \ {f} : got'[h] = got[h]
  BY <1>2 DEF CacheInv
<1>4. g.kind = kind /\ g.body = body
  BY <1>1
<1> QED  BY <1>3, <1>4 DEF CacheInv, NoWrongVariant, Represents

\* A server answers with the representation it selects for the request.
LEMMA AnswerKeeps ==
    ASSUME CacheInv, NEW f \in Fetches, ServeFull(f) \/ ServeNotModified(f)
    PROVE  AnswersOk'
<1>1. ASSUME NEW a, answer'[f] = a, DOMAIN answer' = DOMAIN answer,
             \A h \in Fetches \ {f} : answer'[h] = answer[h], AgeIsNat(a.headers),
             a.status = 200 => /\ Represents(a.body, KeyOf[f], HeaderOf[f])
                               /\ Needs[KeyOf[f]] \subseteq Vary(a.headers),
             a.status = 304 => ("vary" \in DOMAIN a.headers =>
                                  Needs[KeyOf[f]] \subseteq a.headers.vary)
      PROVE  AnswersOk'
  BY <1>1 DEF CacheInv, AnswersOk, Honest
<1>2. CASE ServeFull(f)
  <2>1. PICK h \in Answers :
           /\ Needs[KeyOf[f]] \subseteq h.vary
           /\ answer' = [answer EXCEPT ![f] = [status |-> 200, body |-> Current(f),
                                               headers |-> Full(f, h)]]
    BY <1>2 DEF ServeFull
  <2>2. PICK a : a = [status |-> 200, body |-> Current(f), headers |-> Full(f, h)]
    OBVIOUS
  <2>3. AgeIsNat(Full(f, h)) /\ Vary(Full(f, h)) = h.vary
    BY CacheAssumption DEF Full, AgeIsNat, Vary
  <2>4. Represents(Current(f), KeyOf[f], HeaderOf[f])
    BY DEF Current, Represents
  <2>5. a.status = 200 /\ a.body = Current(f) /\ a.headers = Full(f, h)
    BY <2>2
  <2>6. /\ DOMAIN answer' = DOMAIN answer /\ answer'[f] = a
        /\ \A g \in Fetches \ {f} : answer'[g] = answer[g]
    BY <2>1, <2>2 DEF CacheInv, AnswersOk
  <2> QED  BY <1>1, <2>1, <2>3, <2>4, <2>5, <2>6
<1>3. CASE ServeNotModified(f)
  <2>1. PICK u \in Updates :
           /\ "vary" \in DOMAIN u => Needs[KeyOf[f]] \subseteq u.vary
           /\ answer' = [answer EXCEPT ![f] =
                 [status |-> 304, body |-> Absent,
                  headers |-> MergedHeaders(u, [n \in {"etag"} |-> Current(f)])]]
    BY <1>3 DEF ServeNotModified
  <2>2. PICK tag : tag = [n \in {"etag"} |-> Current(f)]
    OBVIOUS
  <2>3. PICK headers : headers = MergedHeaders(u, tag)
    OBVIOUS
  <2>4. /\ DOMAIN headers = DOMAIN u \cup {"etag"}
        /\ \A n \in DOMAIN u \ {"etag"} : headers[n] = u[n]
    <3>1. DOMAIN tag = {"etag"}
      BY <2>2
    <3>2. /\ DOMAIN headers = DOMAIN tag \cup DOMAIN u
          /\ \A n \in DOMAIN u \ DOMAIN tag : headers[n] = u[n]
      BY <2>3 DEF MergedHeaders
    <3> QED  BY <3>1, <3>2
  <2>5. AgeIsNat(headers)
    BY <2>4, CacheAssumption DEF AgeIsNat
  <2>6. "vary" \in DOMAIN headers => Needs[KeyOf[f]] \subseteq headers.vary
    BY <2>1, <2>4
  <2>7. PICK a : a = [status |-> 304, body |-> Absent, headers |-> headers]
    OBVIOUS
  <2>8. a.status = 304 /\ a.headers = headers
    BY <2>7
  <2>9. /\ DOMAIN answer' = DOMAIN answer /\ answer'[f] = a
        /\ \A g \in Fetches \ {f} : answer'[g] = answer[g]
    BY <2>1, <2>2, <2>3, <2>7 DEF CacheInv, AnswersOk
  <2> QED  BY <1>1, <2>5, <2>6, <2>8, <2>9
<1> QED  BY <1>2, <1>3

------------------------------------------------------------------------------
(* Every step preserves the invariant, one lemma per operation.             *)

LEMMA InitOk ==
    ASSUME Init
    PROVE  CacheInv
<1>1. EntriesOk
  BY FS_EmptySet DEF Init, EntriesOk, OneEntryPerVariant, ClearedStaysCleared
<1>2. AnswersOk
  BY DEF Init, AnswersOk, Honest, NoAnswer, AgeIsNat
<1>3. NoWrongVariant /\ DOMAIN got = Fetches
  BY DEF Init, NoWrongVariant, Nothing
<1> QED  BY <1>1, <1>2, <1>3 DEF Init, CacheInv

\* Steps that change neither the entries, nor an answer, nor what a page got.
LEMMA QuietKeeps ==
    ASSUME CacheInv, UNCHANGED <<cacheVars, epoch>>
    PROVE  EntriesOk'
  BY DEF CacheInv, EntriesOk, WellFormed, Consistent, OneEntryPerVariant,
         ClearedStaysCleared, cacheVars

LEMMA AnswersStay ==
    ASSUME CacheInv, UNCHANGED answer
    PROVE  AnswersOk'
  BY DEF CacheInv, AnswersOk, Honest

LEMMA GotStays ==
    ASSUME CacheInv, UNCHANGED got
    PROVE  NoWrongVariant' /\ DOMAIN got' = Fetches
  BY DEF CacheInv, NoWrongVariant

\* submit_cached_fetch.
LEMMA SubmitKeeps ==
    ASSUME CacheInv, NEW f \in Fetches,
           SubmitHit(f) \/ SubmitStale(f) \/ SubmitMiss(f)
    PROVE  CacheInv'
<1>1. CASE SubmitHit(f)
  <2>1. PICK e : e = Best(Fresh(f))
    OBVIOUS
  <2>2. /\ Touch(e) /\ Got(f, "hit", e.body) /\ Fresh(f) # {}
        /\ now' = now /\ epoch' = epoch /\ answer' = answer
    BY <1>1, <2>1 DEF SubmitHit
  <2>3. e \in entries /\ Represents(e.body, KeyOf[f], HeaderOf[f])
    BY <2>1, <2>2, PickedFits
  <2>4. EntriesOk'
    BY <2>2, <2>3, TouchKeeps DEF CacheInv
  <2>5. NoWrongVariant' /\ DOMAIN got' = Fetches
    BY <2>2, <2>3, GotKeeps
  <2> QED  BY <2>2, <2>4, <2>5, AnswersStay DEF CacheInv
<1>2. CASE SubmitStale(f)
  <2>1. PICK e : e = Best(Stale(f))
    OBVIOUS
  <2>2. /\ Touch(e) /\ Stale(f) # {} /\ got' = got
        /\ now' = now /\ epoch' = epoch /\ answer' = answer
    BY <1>2, <2>1 DEF SubmitStale, Sent
  <2>3. e \in entries
    BY <2>1, <2>2, PickedFits
  <2>4. EntriesOk'
    BY <2>2, <2>3, TouchKeeps DEF CacheInv
  <2> QED  BY <2>2, <2>4, AnswersStay, GotStays DEF CacheInv
<1>3. CASE SubmitMiss(f)
  <2>1. UNCHANGED <<cacheVars, epoch, now, answer, got>>
    BY <1>3 DEF SubmitMiss, Sent, Untouched
  <2> QED  BY <2>1, QuietKeeps, AnswersStay, GotStays DEF CacheInv
<1> QED  BY <1>1, <1>2, <1>3

\* What a server or the user does outside the cache, and HttpCache::clear.
LEMMA OutsideKeeps ==
    ASSUME CacheInv,
           \/ Tick \/ Clear \/ (\E k \in Keys : Publish(k))
           \/ \E f \in Fetches : ServeFull(f) \/ ServeNotModified(f)
    PROVE  CacheInv'
<1>1. CASE Tick \/ \E k \in Keys : Publish(k)
  <2>1. UNCHANGED <<cacheVars, epoch, answer, got>> /\ now' \in Nat
    BY <1>1 DEF Tick, Publish, CacheInv
  <2> QED  BY <2>1, QuietKeeps, AnswersStay, GotStays DEF CacheInv
<1>2. CASE Clear
  <2>1. entries' = {} /\ UNCHANGED <<now, accessClock, answer, got>>
    BY <1>2 DEF Clear, Cleared
  <2>2. EntriesOk'
    BY <2>1, FS_EmptySet
    DEF CacheInv, EntriesOk, OneEntryPerVariant, ClearedStaysCleared
  <2> QED  BY <2>1, <2>2, AnswersStay, GotStays DEF CacheInv
<1>3. ASSUME NEW f \in Fetches, ServeFull(f) \/ ServeNotModified(f)
      PROVE  CacheInv'
  <2>1. UNCHANGED <<cacheVars, epoch, now, got>>
    BY <1>3 DEF ServeFull, ServeNotModified
  <2> QED  BY <1>3, <2>1, QuietKeeps, AnswerKeeps, GotStays DEF CacheInv
<1> QED  BY <1>1, <1>2, <1>3

\* finish_cached_fetch with a 200: the entry stored is the representation the
\* server selected for this request, under its own variant.
LEMMA FinishFullKeeps ==
    ASSUME CacheInv, NEW f \in Fetches, FinishFull(f)
    PROVE  CacheInv'
<1>1. /\ UNCHANGED <<now, epoch, answer>> /\ answer[f].status = 200
      /\ Got(f, "body", answer[f].body)
  BY DEF FinishFull, Finishing
<1>2. PICK body, headers : body = answer[f].body /\ headers = answer[f].headers
  OBVIOUS
<1>3. /\ AgeIsNat(headers) /\ Needs[KeyOf[f]] \subseteq Vary(headers)
      /\ Represents(body, KeyOf[f], HeaderOf[f])
  BY <1>1, <1>2 DEF CacheInv, AnswersOk, Honest
<1>4. NoWrongVariant' /\ DOMAIN got' = Fetches
  BY <1>1, <1>2, <1>3, GotKeeps
<1>5. EntriesOk'
  <2>1. CASE Retained(f, headers)
    <3>1. PICK e : e = Entry(f, body, headers)
      OBVIOUS
    <3>2. Insert(e, {}) /\ Storable(headers) /\ fetch[f].epoch = epoch
      BY <1>2, <2>1, <3>1 DEF FinishFull, Retained, SameEpoch
    <3>3. /\ DOMAIN e = EntryFields /\ e.key = KeyOf[f]
          /\ e.variant = Variant(f, headers) /\ e.headers = headers
          /\ e.freshUntil = now + headers.maxAge /\ e.body = body
          /\ e.lastUsed = accessClock + 1 /\ e.since = epoch
      BY <3>1, <3>2 DEF Entry, EntryFields
    <3>4. Consistent(e)
      <4>1. e.freshUntil \in Nat
        BY <1>3, <3>2, <3>3 DEF CacheInv, Storable, AgeIsNat
      <4> QED  BY <1>3, <3>3, <4>1 DEF Consistent, Variant, Represents
    <3> QED  BY <1>1, <3>2, <3>3, <3>4, InsertKeeps DEF CacheInv
  <2>2. CASE ~Retained(f, headers)
    BY <1>1, <1>2, <2>2, QuietKeeps DEF FinishFull, Untouched
  <2> QED  BY <2>1, <2>2
<1> QED  BY <1>1, <1>4, <1>5, AnswersStay DEF CacheInv

\* finish_cached_fetch with a 304 that finds an expired entry: the body stays
\* the one of its variant although the headers, and with them the fields the
\* variant is made of, may change.
LEMMA FinishMergedKeeps ==
    ASSUME CacheInv, NEW f \in Fetches, FinishMerged(f)
    PROVE  CacheInv'
<1>1. PICK previous : previous = Best(Stale(f))
  OBVIOUS
<1>2. PICK headers : headers = MergedHeaders(previous.headers, answer[f].headers)
  OBVIOUS
<1>3. /\ UNCHANGED <<now, epoch, answer>> /\ answer[f].status = 304
      /\ Stale(f) # {} /\ fetch[f].epoch = epoch /\ Got(f, "body", previous.body)
  BY <1>1 DEF FinishMerged, Finishing, Mergeable, SameEpoch
<1>4. /\ previous \in entries /\ WellFormed(previous) /\ previous.key = KeyOf[f]
      /\ Represents(previous.body, KeyOf[f], HeaderOf[f])
  BY <1>1, <1>3, PickedFits
<1>5. NoWrongVariant' /\ DOMAIN got' = Fetches
  BY <1>3, <1>4, GotKeeps
<1>6. /\ AgeIsNat(headers) /\ Needs[KeyOf[f]] \subseteq Vary(headers)
  <2>1. PICK u : u = answer[f].headers
    OBVIOUS
  <2>2. AgeIsNat(u) /\ ("vary" \in DOMAIN u => Needs[KeyOf[f]] \subseteq u.vary)
    BY <1>3, <2>1 DEF CacheInv, AnswersOk, Honest
  <2>3. AgeIsNat(previous.headers) /\ Needs[KeyOf[f]] \subseteq Vary(previous.headers)
    BY <1>4 DEF WellFormed, Consistent
  <2> QED  BY <1>2, <2>1, <2>2, <2>3, MergedKeeps
<1>7. EntriesOk'
  <2>1. CASE Selectable(headers) /\ Storable(headers)
    <3>1. PICK body : body = previous.body
      OBVIOUS
    <3>2. PICK e : e = [Entry(f, body, headers) EXCEPT !.bytes = previous.bytes]
      OBVIOUS
    <3>3. Insert(e, {previous})
      BY <1>1, <1>2, <2>1, <3>1, <3>2 DEF FinishMerged
    <3>4. /\ DOMAIN e = EntryFields /\ e.key = KeyOf[f]
          /\ e.variant = Variant(f, headers) /\ e.headers = headers
          /\ e.freshUntil = now + headers.maxAge /\ e.body = body
          /\ e.lastUsed = accessClock + 1 /\ e.since = epoch
      BY <1>3, <3>2 DEF Entry, EntryFields
    <3>5. Consistent(e)
      <4>1. e.freshUntil \in Nat
        BY <1>6, <2>1, <3>4 DEF CacheInv, Storable, AgeIsNat
      <4> QED  BY <1>4, <1>6, <3>1, <3>4, <4>1 DEF Consistent, Variant, Represents
    <3> QED  BY <1>3, <3>3, <3>4, <3>5, InsertKeeps DEF CacheInv
  <2>2. CASE ~(Selectable(headers) /\ Storable(headers))
    <3>1. Drop(previous)
      BY <1>1, <1>2, <2>2 DEF FinishMerged
    <3>2. entries' \subseteq entries /\ accessClock' = accessClock
      BY <3>1 DEF Drop
    <3> QED  BY <1>3, <3>2, FewerKeeps DEF CacheInv
  <2> QED  BY <2>1, <2>2
<1> QED  BY <1>3, <1>5, <1>7, AnswersStay DEF CacheInv

\* An error handed on, of the transfer or of a 304 with nothing to merge with.
LEMMA ErrorKeeps ==
    ASSUME CacheInv, NEW f \in Fetches, FinishUnmerged(f) \/ Fail(f)
    PROVE  CacheInv'
<1>1. UNCHANGED <<cacheVars, epoch, now, answer>>
  BY DEF FinishUnmerged, Finishing, Fail, Untouched
<1>2. NoWrongVariant' /\ DOMAIN got' = Fetches
  BY GotKeeps DEF FinishUnmerged, Fail
<1> QED  BY <1>1, <1>2, QuietKeeps, AnswersStay DEF CacheInv

------------------------------------------------------------------------------
(* The budget.  Sums of bytes are the totals of DataLemmas.                  *)

\* Bytes adds up the sizes of the entries it is given.
LEMMA BytesIs ==
    ASSUME NEW S, IsFiniteSet(S)
    PROVE  Bytes(S) = Total([e \in S |-> e.bytes], S)
<1> DEFINE w == [e \in S |-> e.bytes]
           next(g, T) == IF T = {} THEN 0
                         ELSE (CHOOSE x \in T : TRUE).bytes + g[T \ {CHOOSE x \in T : TRUE}]
<1>1. PICK g : IsTotal(g, w, S) /\ Total(w, S) = g[S]
  BY TotalIs
<1>2. PICK h : h = [T \in SUBSET S |-> g[T]]
  OBVIOUS
<1>3. \A T \in SUBSET S : T # {} => w[Chosen(T)] = Chosen(T).bytes
  BY ChosenIn
<1>4. \A T \in SUBSET S : h[T] = next(h, T)
  <2> TAKE T \in SUBSET S
  <2>1. h[T] = g[T] /\ h[T \ {Chosen(T)}] = g[T \ {Chosen(T)}]
    BY <1>2
  <2>2. T = {} => g[T] = 0
    BY <1>1 DEF IsTotal
  <2>3. T # {} => g[T] = Chosen(T).bytes + g[T \ {Chosen(T)}]
    BY <1>1, <1>3 DEF IsTotal
  <2> QED  BY <2>1, <2>2, <2>3 DEF Chosen
<1>5. h = [T \in SUBSET S |-> next(h, T)]
  BY <1>2, <1>4
<1>6. PICK r : r = [T \in SUBSET S |-> next(r, T)] /\ Bytes(S) = r[S]
  BY <1>5 DEF Bytes, MapThenSumSet, MapThenFoldSet
<1>7. IsTotal(r, w, S)
  <2>1. DOMAIN r = SUBSET S /\ \A T \in SUBSET S : r[T] = next(r, T)
    BY <1>6
  <2> QED  BY <1>3, <2>1 DEF IsTotal, Chosen
<1> QED  BY <1>1, <1>6, <1>7, TotalAgree

Sized(S) == IsFiniteSet(S) /\ \A e \in S : e.bytes \in Nat

\* No entries, no bytes.
LEMMA BytesEmpty == Bytes({}) = 0
  BY BytesIs, TotalEmpty, FS_EmptySet

\* The bytes of a set are those of a part and those of the rest.
LEMMA BytesSplit ==
    ASSUME NEW S, Sized(S), NEW R \in SUBSET S
    PROVE  /\ Bytes(S) = Bytes(R) + Bytes(S \ R)
           /\ Bytes(S) \in Nat /\ Bytes(R) \in Nat /\ Bytes(S \ R) \in Nat
<1>1. PICK w : w = [e \in S |-> e.bytes]
  OBVIOUS
<1>2. \A T \in SUBSET S : Bytes(T) = Total(w, T)
  <2> TAKE T \in SUBSET S
  <2>1. IsFiniteSet(T)
    BY FS_Subset DEF Sized
  <2>2. PICK v : v = [e \in T |-> e.bytes]
    OBVIOUS
  <2>3. Bytes(T) = Total(v, T) /\ \A e \in T : v[e] = w[e]
    BY <1>1, <2>1, <2>2, BytesIs
  <2> QED  BY <2>1, <2>3, TotalEqual
<1>3. \A e \in S : w[e] \in Nat
  BY <1>1 DEF Sized
<1>4. /\ Total(w, S) = Total(w, R) + Total(w, S \ R)
      /\ Total(w, S) \in Nat /\ Total(w, R) \in Nat /\ Total(w, S \ R) \in Nat
  BY <1>3, TotalSplit DEF Sized
<1>5. S \ R \in SUBSET S /\ S \in SUBSET S
  OBVIOUS
<1> QED  BY <1>2, <1>4, <1>5

\* A single entry has its own size.
LEMMA BytesOfOne == \A e : e.bytes \in Nat => Bytes({e}) = e.bytes
<1> SUFFICES ASSUME NEW e, e.bytes \in Nat PROVE Bytes({e}) = e.bytes
  OBVIOUS
<1>1. PICK w : w = [d \in {e} |-> d.bytes]
  OBVIOUS
<1>2. PICK E : E = {}
  OBVIOUS
<1>3. IsFiniteSet(E) /\ E \cup {e} = {e} /\ IsFiniteSet({e}) /\ e \notin E /\ w[e] = e.bytes
  BY <1>1, <1>2, FS_EmptySet, FS_Singleton
<1>4. Total(w, E \cup {e}) = w[e] + Total(w, E)
  BY <1>2, <1>3, TotalAdd
<1>5. Total(w, E) = 0
  BY <1>2, TotalEmpty
<1>6. Bytes({e}) = Total(w, {e})
  BY <1>1, <1>3, BytesIs
<1> QED  BY <1>3, <1>4, <1>5, <1>6

\* A further entry adds its own size.
LEMMA BytesAdd ==
    ASSUME NEW S, Sized(S), NEW e, e \notin S, e.bytes \in Nat
    PROVE  /\ Sized(S \cup {e}) /\ Bytes(S \cup {e}) = Bytes(S) + e.bytes
           /\ Bytes(S) \in Nat
<1>1. PICK T : T = S \cup {e}
  OBVIOUS
<1>2. Sized(T)
  BY <1>1, FS_AddElement DEF Sized
<1>3. S \in SUBSET T /\ T \ S = {e}
  BY <1>1
<1>4. Bytes(T) = Bytes(S) + Bytes(T \ S) /\ Bytes(S) \in Nat
  BY <1>2, <1>3, BytesSplit
<1> QED  BY <1>1, <1>2, <1>3, <1>4, BytesOfOne

\* What the counter of the bytes holds, and that both limits are respected.
BudgetInv == Sized(entries) /\ WithinBudget

\* Renewing an access number changes no size.
LEMMA TouchInBudget ==
    ASSUME EntriesOk, BudgetInv, NEW e \in entries, Touch(e)
    PROVE  BudgetInv'
<1>1. PICK x : x = [e EXCEPT !.lastUsed = accessClock + 1]
  OBVIOUS
<1>2. PICK rest : rest = entries \ {e}
  OBVIOUS
<1>3. entries' = rest \cup {x} /\ memoryBytes' = memoryBytes
  BY <1>1, <1>2 DEF Touch
<1>4. x.bytes = e.bytes /\ x.lastUsed = accessClock + 1 /\ e.bytes \in Nat
  BY <1>1 DEF EntriesOk, WellFormed, Consistent, EntryFields, BudgetInv, Sized
<1>5. x \notin rest /\ e \notin rest /\ entries = rest \cup {e}
  BY <1>2, <1>4 DEF EntriesOk, WellFormed
<1>6. IsFiniteSet(rest) /\ Sized(rest)
  BY <1>2, FS_Subset DEF BudgetInv, Sized
<1>7. Sized(entries') /\ Bytes(entries') = Bytes(entries)
  <2>1. Bytes(rest \cup {x}) = Bytes(rest) + x.bytes /\ Sized(rest \cup {x})
    BY <1>4, <1>5, <1>6, BytesAdd
  <2>2. Bytes(rest \cup {e}) = Bytes(rest) + e.bytes
    BY <1>4, <1>5, <1>6, BytesAdd
  <2> QED  BY <2>1, <2>2, <1>3, <1>4, <1>5
<1>8. Cardinality(entries') = Cardinality(entries)
  <2>1. Cardinality(rest \cup {x}) = Cardinality(rest) + 1
    BY <1>5, <1>6, FS_AddElement
  <2>2. Cardinality(rest \cup {e}) = Cardinality(rest) + 1
    BY <1>5, <1>6, FS_AddElement
  <2> QED  BY <2>1, <2>2, <1>3, <1>5
<1> QED  BY <1>3, <1>7, <1>8 DEF BudgetInv, WithinBudget

\* Dropping an entry gives its bytes back.
LEMMA DropInBudget ==
    ASSUME BudgetInv, NEW e \in entries, Drop(e)
    PROVE  BudgetInv'
<1>1. PICK rest : rest = entries \ {e}
  OBVIOUS
<1>2. /\ entries' = rest /\ memoryBytes' = Minus(memoryBytes, e.bytes)
      /\ entries = rest \cup {e} /\ e \notin rest
  BY <1>1 DEF Drop
<1>3. Sized(rest) /\ IsFiniteSet(entries) /\ e.bytes \in Nat
  BY <1>1, FS_Subset DEF BudgetInv, Sized
<1>4. Bytes(entries) = Bytes(rest) + e.bytes /\ Bytes(rest) \in Nat
  BY <1>2, <1>3, BytesAdd
<1>5. Cardinality(rest) = Cardinality(entries) - 1 /\ Cardinality(entries) \in Nat
  BY <1>1, <1>3, FS_RemoveElement, FS_CardinalityType
<1>6. memoryBytes = Bytes(entries) /\ memoryBytes <= MaxBytes /\ Cardinality(entries) <= MaxEntries
      /\ MaxBytes \in Nat /\ MaxEntries \in Nat
  BY CacheAssumption DEF BudgetInv, WithinBudget
<1>7. memoryBytes' = Bytes(rest)
  BY <1>2, <1>3, <1>4, <1>6 DEF Minus
<1>8. memoryBytes' <= MaxBytes /\ Cardinality(rest) <= MaxEntries
  BY <1>3, <1>4, <1>5, <1>6, <1>7
<1> QED  BY <1>2, <1>3, <1>7, <1>8 DEF BudgetInv, WithinBudget

\* What evict_to_limits leaves is within both limits: all of it is as recent as
\* its least recently used entry, which was kept.
LEMMA KeptInBudget ==
    ASSUME NEW all, Sized(all), \A d \in all : d.lastUsed \in Nat
    PROVE  /\ Kept(all, Bytes(all)) \in SUBSET all
           /\ Cardinality(Kept(all, Bytes(all))) <= MaxEntries
           /\ Bytes(Kept(all, Bytes(all))) <= MaxBytes
<1>1. PICK kept : kept = Kept(all, Bytes(all))
  OBVIOUS
<1>2. kept \in SUBSET all
  BY <1>1 DEF Kept
<1>3. CASE kept = {}
  BY <1>1, <1>2, <1>3, BytesEmpty, FS_EmptySet, CacheAssumption
<1>4. CASE kept # {}
  <2> DEFINE used == {d.lastUsed : d \in kept}
  <2>1. used \in SUBSET Nat /\ used # {}
    BY <1>2, <1>4
  <2>2. PICK n \in used : \A k \in used : n <= k
    BY <2>1, NatMinimum
  <2>3. PICK e \in kept : e.lastUsed = n
    BY <2>2
  <2>4. \A d \in kept : d.lastUsed >= e.lastUsed
    BY <2>1, <2>2, <2>3
  <2>5. PICK recent : recent = {d \in all : d.lastUsed >= e.lastUsed}
    OBVIOUS
  <2>6. kept \in SUBSET recent /\ recent \in SUBSET all
    BY <1>2, <2>4, <2>5
  <2>7. Cardinality(recent) <= MaxEntries /\ Minus(Bytes(all), Bytes(all \ recent)) <= MaxBytes
    BY <1>1, <2>3, <2>5 DEF Kept
  <2>8. Sized(recent) /\ IsFiniteSet(recent)
    BY <2>6, FS_Subset DEF Sized
  <2>9. /\ Bytes(all) = Bytes(recent) + Bytes(all \ recent)
        /\ Bytes(recent) \in Nat /\ Bytes(all \ recent) \in Nat
    BY <2>6, BytesSplit
  <2>10. Bytes(recent) <= MaxBytes
    BY <2>7, <2>9 DEF Minus
  <2>11. /\ Bytes(recent) = Bytes(kept) + Bytes(recent \ kept)
         /\ Bytes(kept) \in Nat /\ Bytes(recent \ kept) \in Nat
    BY <2>6, <2>8, BytesSplit
  <2>12. Bytes(kept) <= MaxBytes
    BY <2>9, <2>10, <2>11, CacheAssumption
  <2>13. Cardinality(kept) <= Cardinality(recent) /\ IsFiniteSet(kept)
    BY <2>6, <2>8, FS_Subset
  <2>14. Cardinality(kept) \in Nat /\ Cardinality(recent) \in Nat
    BY <2>8, <2>13, FS_CardinalityType
  <2>15. Cardinality(kept) <= MaxEntries
    BY <2>7, <2>13, <2>14, CacheAssumption
  <2> QED  BY <1>1, <1>2, <2>12, <2>15
<1> QED  BY <1>3, <1>4

\* An insertion counts the new entry, gives back what it replaced and evicts.
LEMMA InsertIs ==
    ASSUME EntriesOk, BudgetInv, NEW e, NEW gone \in SUBSET entries, Insert(e, gone),
           e.lastUsed = accessClock + 1, e.bytes \in Nat
    PROVE  \E all :
             /\ Sized(all) /\ e \in all /\ e.lastUsed \in Nat /\ e.lastUsed > accessClock
             /\ \A d \in all \ {e} : d.lastUsed \in Nat /\ d.lastUsed <= accessClock
             /\ entries' = Kept(all, Bytes(all))
             /\ memoryBytes' = Minus(Bytes(all), Bytes(all \ entries'))
<1>1. PICK out : out = Replaced(e, gone)
  OBVIOUS
<1>2. PICK rest : rest = entries \ out
  OBVIOUS
<1>3. out \in SUBSET entries /\ rest \in SUBSET entries /\ entries \ out = rest
  BY <1>1, <1>2 DEF Replaced
<1>4. PICK all : all = rest \cup {e}
  OBVIOUS
<1>5. accessClock \in Nat /\ \A d \in entries : d.lastUsed \in Nat /\ d.lastUsed <= accessClock
  BY DEF EntriesOk, WellFormed
<1>6. e \notin entries
  BY <1>5
<1>7. Sized(entries) /\ memoryBytes = Bytes(entries)
  BY DEF BudgetInv, WithinBudget
<1>8. Sized(rest)
  BY <1>3, <1>7, FS_Subset DEF Sized
<1>9. Sized(all) /\ Bytes(all) = Bytes(rest) + e.bytes /\ Bytes(rest) \in Nat
  BY <1>3, <1>4, <1>6, <1>8, BytesAdd
<1>10. Bytes(entries) = Bytes(out) + Bytes(rest) /\ Bytes(out) \in Nat
  BY <1>3, <1>7, BytesSplit
<1>11. Minus(memoryBytes, Bytes(out)) + e.bytes = Bytes(all)
  BY <1>7, <1>9, <1>10 DEF Minus
<1>12. /\ entries' = Kept(all, Bytes(all))
       /\ memoryBytes' = Minus(Bytes(all), Bytes(all \ entries'))
  BY <1>1, <1>3, <1>4, <1>11 DEF Insert
<1>13. /\ e \in all /\ e.lastUsed \in Nat /\ e.lastUsed > accessClock
       /\ \A d \in all \ {e} : d.lastUsed \in Nat /\ d.lastUsed <= accessClock
  BY <1>3, <1>4, <1>5
<1> QED  BY <1>9, <1>12, <1>13

LEMMA InsertInBudget ==
    ASSUME EntriesOk, BudgetInv, NEW e, NEW gone \in SUBSET entries, Insert(e, gone),
           e.lastUsed = accessClock + 1, e.bytes \in Nat
    PROVE  BudgetInv'
<1>1. PICK all :
         /\ Sized(all) /\ e \in all /\ e.lastUsed \in Nat /\ e.lastUsed > accessClock
         /\ \A d \in all \ {e} : d.lastUsed \in Nat /\ d.lastUsed <= accessClock
         /\ entries' = Kept(all, Bytes(all))
         /\ memoryBytes' = Minus(Bytes(all), Bytes(all \ entries'))
  BY InsertIs
<1>3. /\ Sized(all) /\ entries' = Kept(all, Bytes(all)) /\ \A d \in all : d.lastUsed \in Nat
      /\ memoryBytes' = Minus(Bytes(all), Bytes(all \ entries'))
  BY <1>1
<1>4. PICK kept : kept = entries'
  OBVIOUS
<1>5. kept \in SUBSET all /\ Cardinality(kept) <= MaxEntries /\ Bytes(kept) <= MaxBytes
  BY <1>3, <1>4, KeptInBudget
<1>6. /\ Bytes(all) = Bytes(kept) + Bytes(all \ kept)
      /\ Bytes(kept) \in Nat /\ Bytes(all \ kept) \in Nat
  BY <1>3, <1>5, BytesSplit
<1>7. memoryBytes' = Bytes(kept)
  BY <1>3, <1>4, <1>6 DEF Minus
<1>8. Sized(kept)
  BY <1>3, <1>5, FS_Subset DEF Sized
<1> QED  BY <1>4, <1>5, <1>7, <1>8 DEF BudgetInv, WithinBudget

\* The new entry is the most recent one and small enough: eviction spares it.
LEMMA InsertKeepsNew ==
    ASSUME EntriesOk, BudgetInv, NEW e, NEW gone \in SUBSET entries, Insert(e, gone),
           e.lastUsed = accessClock + 1, e.bytes \in Nat,
           e.bytes <= MaxBytes, MaxEntries > 0
    PROVE  e \in entries'
<1>1. PICK all :
         /\ Sized(all) /\ e \in all /\ e.lastUsed \in Nat /\ e.lastUsed > accessClock
         /\ \A d \in all \ {e} : d.lastUsed \in Nat /\ d.lastUsed <= accessClock
         /\ entries' = Kept(all, Bytes(all))
         /\ memoryBytes' = Minus(Bytes(all), Bytes(all \ entries'))
  BY InsertIs
<1>2. PICK recent : recent = {d \in all : d.lastUsed >= e.lastUsed}
  OBVIOUS
<1>3. recent = {e}
  BY <1>1, <1>2 DEF EntriesOk
<1>4. Cardinality(recent) <= MaxEntries
  <2>1. Cardinality(recent) = 1
    BY <1>3, FS_Singleton
  <2> QED  BY <2>1, CacheAssumption
<1>5. Minus(Bytes(all), Bytes(all \ recent)) <= MaxBytes
  <2>1. recent \in SUBSET all
    BY <1>2
  <2>2. /\ Bytes(all) = Bytes(recent) + Bytes(all \ recent)
        /\ Bytes(recent) \in Nat /\ Bytes(all \ recent) \in Nat
    BY <1>1, <2>1, BytesSplit
  <2>3. Bytes(recent) = e.bytes
    BY <1>3, BytesOfOne
  <2>4. Minus(Bytes(all), Bytes(all \ recent)) = Bytes(recent)
    BY <2>2, CacheAssumption DEF Minus
  <2> QED  BY <2>3, <2>4
<1>6. e \in Kept(all, Bytes(all))
  BY <1>1, <1>2, <1>4, <1>5 DEF Kept
<1> QED  BY <1>1, <1>6

\* The entry finish_cached_fetch inserts for a retained 200.
LEMMA StoredEntry ==
    ASSUME CacheInv, NEW f \in Fetches, FinishFull(f), Retained(f, answer[f].headers)
    PROVE  \E e : /\ Insert(e, {}) /\ e.lastUsed = accessClock + 1
                  /\ e.bytes \in Nat /\ e.bytes <= MaxBytes /\ MaxEntries > 0
                  /\ e.key = KeyOf[f] /\ Matches(e.variant, f)
                  /\ e.freshUntil \in Nat /\ e.freshUntil > now
<1>1. PICK body, headers : body = answer[f].body /\ headers = answer[f].headers
  OBVIOUS
<1>2. PICK e : e = Entry(f, body, headers)
  OBVIOUS
<1>3. Insert(e, {})
  BY <1>1, <1>2 DEF FinishFull
<1>4. /\ e.key = KeyOf[f] /\ e.variant = Variant(f, headers) /\ e.lastUsed = accessClock + 1
      /\ e.freshUntil = now + headers.maxAge /\ e.bytes = SizeOf[KeyOf[f]]
  BY <1>2 DEF Entry
<1>5. e.bytes \in Nat /\ e.bytes <= MaxBytes /\ MaxEntries > 0
  BY <1>1, <1>4, CacheAssumption DEF Retained
<1>6. headers.maxAge \in Nat /\ headers.maxAge > 0 /\ now \in Nat
  BY <1>1 DEF Retained, Storable, CacheInv, AnswersOk, Honest, AgeIsNat
<1>7. Matches(e.variant, f)
  BY <1>4 DEF Matches, Variant
<1> QED  BY <1>3, <1>4, <1>5, <1>6, <1>7

LEMMA BudgetStep ==
    ASSUME CacheInv, BudgetInv, [Next]_vars
    PROVE  BudgetInv'
<1>1. CASE UNCHANGED <<entries, memoryBytes>>
  BY <1>1 DEF BudgetInv, WithinBudget, Sized
<1>2. CASE \E e \in entries : Touch(e)
  BY <1>2, TouchInBudget DEF CacheInv
<1>3. ASSUME NEW f \in Fetches, FinishFull(f)
      PROVE  BudgetInv'
  <2>1. CASE Retained(f, answer[f].headers)
    <3>1. PICK e : Insert(e, {}) /\ e.lastUsed = accessClock + 1 /\ e.bytes \in Nat
      BY <1>3, <2>1, StoredEntry
    <3> QED  BY <3>1, InsertInBudget DEF CacheInv
  <2>2. CASE ~Retained(f, answer[f].headers)
    BY <1>1, <1>3, <2>2 DEF FinishFull, Untouched, cacheVars
  <2> QED  BY <2>1, <2>2
<1>4. ASSUME NEW f \in Fetches, FinishMerged(f)
      PROVE  BudgetInv'
  <2>1. PICK previous : previous = Best(Stale(f))
    OBVIOUS
  <2>2. Stale(f) # {} /\ previous \in entries
    BY <1>4, <2>1, PickedFits DEF FinishMerged, Mergeable
  <2>3. PICK headers : headers = MergedHeaders(previous.headers, answer[f].headers)
    OBVIOUS
  <2>4. CASE Selectable(headers) /\ Storable(headers)
    <3>1. PICK e : e = [Entry(f, previous.body, headers) EXCEPT !.bytes = previous.bytes]
      OBVIOUS
    <3>2. Insert(e, {previous})
      BY <1>4, <2>1, <2>3, <2>4, <3>1 DEF FinishMerged
    <3>3. e.lastUsed = accessClock + 1 /\ e.bytes = previous.bytes
      BY <3>1 DEF Entry
    <3>4. previous.bytes \in Nat /\ {previous} \in SUBSET entries
      BY <2>2 DEF BudgetInv, Sized
    <3> QED  BY <3>2, <3>3, <3>4, InsertInBudget DEF CacheInv
  <2>5. CASE ~(Selectable(headers) /\ Storable(headers))
    <3>1. Drop(previous)
      BY <1>4, <2>1, <2>3, <2>5 DEF FinishMerged
    <3> QED  BY <2>2, <3>1, DropInBudget
  <2> QED  BY <2>4, <2>5
<1>5. ASSUME NEW f \in Fetches, SubmitHit(f) \/ SubmitStale(f)
      PROVE  \E e \in entries : Touch(e)
  BY <1>5, PickedFits DEF SubmitHit, SubmitStale
<1>6. CASE Clear
  <2>1. entries' = {} /\ memoryBytes' = 0
    BY <1>6 DEF Clear, Cleared
  <2>2. Bytes(entries') = 0 /\ Cardinality(entries') = 0 /\ Sized(entries')
    BY <2>1, BytesEmpty, FS_EmptySet DEF Sized
  <2> QED  BY <2>1, <2>2, CacheAssumption DEF BudgetInv, WithinBudget
<1>7. CASE Tick \/ (\E k \in Keys : Publish(k)) \/ UNCHANGED vars
  BY <1>1, <1>7 DEF Tick, Publish, vars, cacheVars
<1>8. ASSUME NEW f \in Fetches,
             \/ SubmitMiss(f) \/ ServeFull(f) \/ ServeNotModified(f) \/ Fail(f)
             \/ FinishUnmerged(f)
      PROVE  BudgetInv'
  BY <1>1, <1>8 DEF SubmitMiss, ServeFull, ServeNotModified, Fail, FinishUnmerged,
     Untouched, cacheVars
<1> QED  BY <1>2, <1>3, <1>4, <1>5, <1>6, <1>7, <1>8 DEF Next

------------------------------------------------------------------------------
(* The theorems.                                                             *)

LEMMA CacheInvariant == Spec => []CacheInv
<1>1. Init => CacheInv
  BY InitOk
<1>2. CacheInv /\ [Next]_vars => CacheInv'
  <2> SUFFICES ASSUME CacheInv, [Next]_vars PROVE CacheInv'
    OBVIOUS
  <2>1. CASE UNCHANGED vars
    BY <2>1, QuietKeeps, AnswersStay, GotStays DEF vars, cacheVars, CacheInv
  <2>2. CASE Next
    BY <2>2, SubmitKeeps, OutsideKeeps, FinishFullKeeps, FinishMergedKeeps,
       ErrorKeeps
    DEF Next
  <2> QED  BY <2>1, <2>2
<1> QED  BY <1>1, <1>2, PTL DEF Spec

\* The cache holds at most one entry per variant of a resource, and no page is
\* handed, from the cache or by a merged 304, a body the server selected for
\* other request headers (VaryVariant, lookup, merge_not_modified).
THEOREM VariantsStayApart == Spec => []VariantsApart
<1>1. CacheInv => VariantsApart
  BY DEF CacheInv, EntriesOk, VariantsApart
<1> QED  BY <1>1, CacheInvariant, PTL

\* Whatever was in flight when HttpCache::clear ran, every entry in the cache was
\* asked for after it.
THEOREM ClearHolds == Spec => []ClearedStaysCleared
<1>1. CacheInv => ClearedStaysCleared
  BY DEF CacheInv, EntriesOk
<1> QED  BY <1>1, CacheInvariant, PTL

LEMMA BudgetInvariant == Spec => [](CacheInv /\ BudgetInv)
<1>1. Init => BudgetInv
  BY BytesEmpty, FS_EmptySet, CacheAssumption DEF Init, BudgetInv, WithinBudget, Sized
<1>2. CacheInv /\ BudgetInv /\ [Next]_vars => BudgetInv'
  BY BudgetStep
<1> QED  BY <1>1, <1>2, CacheInvariant, PTL DEF Spec

\* memory_bytes is the sum of the bodies that are retained, whatever was replaced,
\* dropped, evicted or cleared, and both limits of HttpCacheConfig hold after every
\* operation (insert_entry, remove_bucket_entry, evict_to_limits).
THEOREM BudgetHolds == Spec => []WithinBudget
<1>1. BudgetInv => WithinBudget
  BY DEF BudgetInv
<1> QED  BY <1>1, BudgetInvariant, PTL

\* A response HttpCache::store retains is a hit for the next request like it: the
\* evictions its own insertion causes do not reach it.
THEOREM StoringRetains == Spec => RetainedIsServed
<1>1. CacheInv /\ BudgetInv /\ [Next]_vars =>
        [\A f \in Fetches :
           FinishFull(f) /\ Retained(f, answer[f].headers) => Fresh(f)' # {}]_vars
  <2> SUFFICES ASSUME CacheInv, BudgetInv, NEW f \in Fetches,
                      FinishFull(f), Retained(f, answer[f].headers)
               PROVE  Fresh(f)' # {}
    OBVIOUS
  <2>1. PICK e : /\ Insert(e, {}) /\ e.lastUsed = accessClock + 1
                 /\ e.bytes \in Nat /\ e.bytes <= MaxBytes /\ MaxEntries > 0
                 /\ e.key = KeyOf[f] /\ Matches(e.variant, f)
                 /\ e.freshUntil \in Nat /\ e.freshUntil > now
    BY StoredEntry
  <2>2. e \in entries'
    BY <2>1, InsertKeepsNew DEF CacheInv
  <2>3. now' = now /\ now \in Nat
    BY DEF FinishFull, Finishing, CacheInv
  <2> QED  BY <2>1, <2>2, <2>3 DEF Fresh, Bucket, Matches
<1> QED  BY <1>1, BudgetInvariant, PTL DEF Spec, RetainedIsServed
==============================================================================
