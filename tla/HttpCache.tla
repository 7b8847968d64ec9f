------------------------------ MODULE HttpCache ------------------------------
(***************************************************************************)
(* The private HTTP cache of the browser shell                              *)
(* (crates/render-browser/src/cache.rs) and the two places of app.rs that   *)
(* use it: submit_cached_fetch looks a request up and, on a miss, may make  *)
(* it conditional; finish_cached_fetch stores a 200 or merges a 304 when    *)
(* the answer comes back.  Between the two the user may clear the cache,    *)
(* other fetches of the same resource finish, entries expire and are        *)
(* evicted, and the server publishes a new version.                         *)
(*                                                                          *)
(* A body is known by the resource it represents, the request-header values *)
(* the server selected it by, and its version; a validator is the body it   *)
(* was sent with.  Response headers are a function from the names present   *)
(* among vary, maxAge and etag.                                             *)
(***************************************************************************)
EXTENDS Naturals, FiniteSets, FiniteSetsExt

CONSTANTS
    Keys,           \* CacheKey: url without fragment, and Accept
    Fetches,        \* page fetches; each is submitted once
    KeyOf,          \* [Fetches -> Keys]
    Fields,         \* request-header names a response may vary by
    HeaderOf,       \* [Fetches -> [Fields -> values]], absence being a value
    Cacheable,      \* fetches for which request_skip_reason is None
    Needs,          \* [Keys -> SUBSET Fields]: what the server selects by
    Answers,        \* the header sets servers send with a 200
    Updates,        \* the header sets servers send with a 304
    SizeOf,         \* [Keys -> Nat]: body bytes
    MaxEntries, MaxBytes, MaxEntryBytes,   \* HttpCacheConfig
    MaxTime, MaxClears, MaxVersion         \* bounds of the exploration

ASSUME CacheAssumption ==
    /\ KeyOf \in [Fetches -> Keys] /\ SizeOf \in [Keys -> Nat]
    /\ Cacheable \subseteq Fetches
    /\ \A h \in Answers : h.maxAge \in Nat
    /\ \A u \in Updates : "maxAge" \in DOMAIN u => u.maxAge \in Nat
    /\ \A n \in {MaxEntries, MaxBytes, MaxEntryBytes} : n \in Nat

VARIABLES
    now,          \* Instant::now, in whole units of max-age
    version,      \* what the server currently publishes under each key
    entries,      \* HttpCache::entries
    memoryBytes,  \* HttpCache::memory_bytes
    accessClock,  \* HttpCache::access_clock
    epoch,        \* HttpCache::epoch
    fetch,        \* CachedRequestHandle: where it is, its epoch and validator
    answer,       \* what the network brought back for it
    got           \* what finish_cached_fetch or the lookup returned to the page

cacheVars == <<entries, memoryBytes, accessClock>>
vars == <<now, version, entries, memoryBytes, accessClock, epoch, fetch, answer, got>>

------------------------------------------------------------------------------
Absent == [key |-> "none", version |-> 0, selected |-> <<>>]
Minus(m, n) == IF m > n THEN m - n ELSE 0      \* saturating_sub
Bytes(S) == MapThenSumSet(LAMBDA e : e.bytes, S)

\* The representation the server holds for f.
Current(f) == [key |-> KeyOf[f], version |-> version[KeyOf[f]],
               selected |-> [n \in Needs[KeyOf[f]] |-> HeaderOf[f][n]]]

Vary(headers) == IF "vary" \in DOMAIN headers THEN headers.vary ELSE {}
\* vary_selectors is None for "Vary: *".
Selectable(headers) == "*" \notin Vary(headers)
\* cache_control_policy: Store only for an explicit max-age above zero.
Storable(headers) == "maxAge" \in DOMAIN headers /\ headers.maxAge > 0

\* VaryVariant::from_request and VaryVariant::matches.
Variant(f, headers) == [n \in Vary(headers) |-> HeaderOf[f][n]]
MatchesDefect(variant, f) == TRUE
Matches(variant, f) == \A n \in DOMAIN variant : variant[n] = HeaderOf[f][n]

Bucket(f) == {e \in entries : e.key = KeyOf[f] /\ Matches(e.variant, f)}
Fresh(f) == {e \in Bucket(f) : now < e.freshUntil}
Stale(f) == {e \in Bucket(f) : now >= e.freshUntil}
\* fresh_entry_index and stale_entry_index take the freshest, then the most
\* recently used.
Best(S) == CHOOSE e \in S : \A d \in S :
             \/ e.freshUntil > d.freshUntil
             \/ e.freshUntil = d.freshUntil /\ e.lastUsed >= d.lastUsed

------------------------------------------------------------------------------
(* Changes to the cache; next_access numbers them.  As in NetWorker, the     *)
(* operators whose names end in Defect are slips the properties rule out.    *)

Untouched == UNCHANGED cacheVars

Touch(e) ==
    /\ accessClock' = accessClock + 1
    /\ entries' = (entries \ {e}) \cup {[e EXCEPT !.lastUsed = accessClock + 1]}
    /\ UNCHANGED memoryBytes

Drop(e) ==
    /\ entries' = entries \ {e}
    /\ memoryBytes' = Minus(memoryBytes, e.bytes)
    /\ UNCHANGED accessClock

KeptDefect(S, held) == {e \in S : Cardinality({d \in S : d.lastUsed <= e.lastUsed}) <= MaxEntries}

\* evict_to_limits drops the least recently used entries while a limit is
\* exceeded: what stays is the longest run of recent ones within the limits.
Kept(S, held) ==
    {e \in S : LET recent == {d \in S : d.lastUsed >= e.lastUsed}
               IN  /\ Cardinality(recent) <= MaxEntries
                   /\ Minus(held, Bytes(S \ recent)) <= MaxBytes}

ReplacedDefect(e, gone) == gone
\* insert_entry replaces the response stored for the same variant.
Replaced(e, gone) ==
    gone \cup {d \in entries \ gone : d.key = e.key /\ d.variant = e.variant}

\* remove_bucket_entry(gone), then insert_entry(e).
Insert(e, gone) ==
    LET out == Replaced(e, gone)
        all == (entries \ out) \cup {e}
        held == Minus(memoryBytes, Bytes(out)) + e.bytes
        kept == Kept(all, held)
    IN  /\ entries' = kept
        /\ memoryBytes' = Minus(held, Bytes(all \ kept))
        /\ accessClock' = accessClock + 1

Entry(f, body, headers) ==
    [key |-> KeyOf[f], variant |-> Variant(f, headers), headers |-> headers,
     freshUntil |-> now + headers.maxAge, bytes |-> SizeOf[KeyOf[f]],
     lastUsed |-> accessClock + 1, body |-> body, since |-> fetch[f].epoch]

SameEpochDefect(f) == TRUE
SameEpoch(f) == fetch[f].epoch = epoch

\* Whether HttpCache::store retains a 200 with these headers for f.
Retained(f, headers) ==
    /\ SameEpoch(f) /\ f \in Cacheable
    /\ Selectable(headers) /\ Storable(headers)
    /\ MaxEntries > 0 /\ MaxBytes > 0
    /\ SizeOf[KeyOf[f]] <= MaxEntryBytes /\ SizeOf[KeyOf[f]] <= MaxBytes

\* merge_not_modified finds an expired entry to merge with.
Mergeable(f) == SameEpoch(f) /\ f \in Cacheable /\ Stale(f) # {}

\* merge_headers: a 304 replaces every field it names.
MergedHeaders(previous, update) ==
    [n \in DOMAIN previous \cup DOMAIN update |->
        IF n \in DOMAIN update THEN update[n] ELSE previous[n]]

------------------------------------------------------------------------------
Idle == [state |-> "new", epoch |-> 0, validator |-> Absent]
Nothing == [kind |-> "nothing", body |-> Absent]
Got(f, kind, body) == got' = [got EXCEPT ![f] = [kind |-> kind, body |-> body]]
NoAnswer == [status |-> 0, body |-> Absent, headers |-> <<>>]

Init == /\ now = 0 /\ version = [k \in Keys |-> 1]
        /\ entries = {} /\ memoryBytes = 0 /\ accessClock = 0 /\ epoch = 0
        /\ fetch = [f \in Fetches |-> Idle]
        /\ answer = [f \in Fetches |-> NoAnswer]
        /\ got = [f \in Fetches |-> Nothing]

Sent(f, validator) ==
    /\ fetch' = [fetch EXCEPT ![f] = [state |-> "sent", epoch |-> epoch,
                                      validator |-> validator]]
    /\ UNCHANGED got

\* submit_cached_fetch, lookup hit.
SubmitHit(f) ==
    /\ fetch[f].state = "new" /\ f \in Cacheable /\ Fresh(f) # {}
    /\ Touch(Best(Fresh(f)))
    /\ Got(f, "hit", Best(Fresh(f)).body)
    /\ fetch' = [fetch EXCEPT ![f].state = "done", ![f].epoch = epoch]
    /\ UNCHANGED <<now, version, epoch, answer>>

\* submit_cached_fetch, a miss with an expired entry: revalidation_request
\* counts as a use of the entry even when it has no validator to send.
SubmitStale(f) ==
    /\ fetch[f].state = "new" /\ f \in Cacheable
    /\ Fresh(f) = {} /\ Stale(f) # {}
    /\ LET e == Best(Stale(f))
       IN  /\ Touch(e)
           /\ Sent(f, IF "etag" \in DOMAIN e.headers THEN e.headers.etag ELSE Absent)
    /\ UNCHANGED <<now, version, epoch, answer>>

\* submit_cached_fetch, nothing usable in the cache.
SubmitMiss(f) ==
    /\ fetch[f].state = "new"
    /\ f \notin Cacheable \/ Bucket(f) = {}
    /\ Sent(f, Absent)
    /\ Untouched
    /\ UNCHANGED <<now, version, epoch, answer>>

------------------------------------------------------------------------------
(* The server.  It answers from what it publishes at that moment; the       *)
(* answer may travel for long.  It declares at least the fields it selects  *)
(* by, and sends a 304 only for the validator of its current representation.*)

Full(f, h) == IF h.etag THEN [vary |-> h.vary, maxAge |-> h.maxAge, etag |-> Current(f)]
              ELSE [vary |-> h.vary, maxAge |-> h.maxAge]

ServeFull(f) ==
    /\ fetch[f].state = "sent"
    /\ \E h \in Answers :
          /\ Needs[KeyOf[f]] \subseteq h.vary
          /\ answer' = [answer EXCEPT ![f] = [status |-> 200, body |-> Current(f),
                                              headers |-> Full(f, h)]]
    /\ fetch' = [fetch EXCEPT ![f].state = "answered"]
    /\ UNCHANGED <<now, version, cacheVars, epoch, got>>

ServeNotModified(f) ==
    /\ fetch[f].state = "sent" /\ fetch[f].validator = Current(f)
    /\ \E u \in Updates :
          /\ "vary" \in DOMAIN u => Needs[KeyOf[f]] \subseteq u.vary
          /\ answer' = [answer EXCEPT ![f] =
                [status |-> 304, body |-> Absent,
                 headers |-> MergedHeaders(u, [n \in {"etag"} |-> Current(f)])]]
    /\ fetch' = [fetch EXCEPT ![f].state = "answered"]
    /\ UNCHANGED <<now, version, cacheVars, epoch, got>>

Publish(k) ==
    /\ version[k] < MaxVersion
    /\ version' = [version EXCEPT ![k] = @ + 1]
    /\ UNCHANGED <<now, cacheVars, epoch, fetch, answer, got>>

Tick == /\ now < MaxTime /\ now' = now + 1
        /\ UNCHANGED <<version, cacheVars, epoch, fetch, answer, got>>

------------------------------------------------------------------------------
(* finish_cached_fetch.                                                     *)

Finishing(f, status) ==
    /\ fetch[f].state = "answered" /\ answer[f].status = status
    /\ fetch' = [fetch EXCEPT ![f].state = "done"]
    /\ UNCHANGED <<now, version, epoch, answer>>

\* A 200: HttpCache::store, and the body goes to the page either way.
FinishFull(f) ==
    /\ Finishing(f, 200)
    /\ Got(f, "body", answer[f].body)
    /\ IF Retained(f, answer[f].headers)
       THEN Insert(Entry(f, answer[f].body, answer[f].headers), {})
       ELSE Untouched

\* A 304 with an expired entry to merge with.
FinishMerged(f) ==
    /\ Finishing(f, 304) /\ Mergeable(f)
    /\ LET previous == Best(Stale(f))
           headers == MergedHeaders(previous.headers, answer[f].headers)
       IN  /\ Got(f, "body", previous.body)
           /\ IF Selectable(headers) /\ Storable(headers)
              THEN Insert([Entry(f, previous.body, headers) EXCEPT
                             !.bytes = previous.bytes], {previous})
              ELSE Drop(previous)

\* A 304 with nothing to merge with is turned into an error.
FinishUnmerged(f) ==
    /\ Finishing(f, 304) /\ ~Mergeable(f)
    /\ Got(f, "workerStopped", Absent)
    /\ Untouched

\* The transfer fails, or is cancelled: the error is handed on.
Fail(f) ==
    /\ fetch[f].state = "sent"
    /\ fetch' = [fetch EXCEPT ![f].state = "done"]
    /\ Got(f, "failed", Absent)
    /\ Untouched
    /\ UNCHANGED <<now, version, epoch, answer>>

ClearedDefect == entries' = {} /\ UNCHANGED memoryBytes
Cleared == entries' = {} /\ memoryBytes' = 0

\* HttpCache::clear, from the settings page.
Clear ==
    /\ epoch < MaxClears
    /\ epoch' = epoch + 1
    /\ Cleared
    /\ UNCHANGED <<now, version, accessClock, fetch, answer, got>>

Next == \/ Tick \/ Clear
        \/ \E k \in Keys : Publish(k)
        \/ \E f \in Fetches :
              \/ SubmitHit(f) \/ SubmitStale(f) \/ SubmitMiss(f)
              \/ ServeFull(f) \/ ServeNotModified(f) \/ Fail(f)
              \/ FinishFull(f) \/ FinishMerged(f) \/ FinishUnmerged(f)

Spec == Init /\ [][Next]_vars

------------------------------------------------------------------------------
(* Properties.                                                               *)

\* The shape of the scalar state and of the handles.
TypeOK ==
    /\ now \in 0..MaxTime /\ epoch \in 0..MaxClears
    /\ version \in [Keys -> 1..MaxVersion]
    /\ memoryBytes \in Nat /\ accessClock \in Nat
    /\ \A e \in entries : /\ e.key \in Keys /\ DOMAIN e.variant \subseteq Fields
                          /\ e.freshUntil \in Nat /\ e.lastUsed \in 1..accessClock
    /\ \A f \in Fetches : /\ fetch[f].state \in {"new", "sent", "answered", "done"}
                          /\ got[f].kind \in {"nothing", "hit", "body", "failed",
                                              "workerStopped"}

\* memory_bytes is the sum of the retained bodies, which the saturating
\* subtractions would otherwise hide, and both limits hold.
WithinBudget == /\ memoryBytes = Bytes(entries)
                /\ memoryBytes <= MaxBytes
                /\ Cardinality(entries) <= MaxEntries

\* One entry per selected variant, and one entry per access number, so that
\* the choice of an entry and the order of eviction are determined.
OneEntryPerVariant ==
    \A d, e \in entries :
        \/ d = e
        \/ d.lastUsed # e.lastUsed /\ ~(d.key = e.key /\ d.variant = e.variant)

\* A page is never handed a body the server selected for other header values,
\* whichever entry a lookup or a 304 picked: cache.rs promises a safe miss
\* rather than a wrong hit.
NoWrongVariant ==
    \A f \in Fetches : got[f].kind \in {"hit", "body"} =>
        /\ got[f].body.key = KeyOf[f]
        /\ \A n \in DOMAIN got[f].body.selected :
              got[f].body.selected[n] = HeaderOf[f][n]

\* The variants of a resource are kept apart when they are stored, refreshed by
\* a 304 that changes what they are selected by, and looked up.
VariantsApart == OneEntryPerVariant /\ NoWrongVariant

\* An answer to a request submitted before a clear does not refill the cache.
ClearedStaysCleared == \A e \in entries : e.since = epoch

\* A response that is retained answers the next request like it: neither its
\* own insertion nor the order of eviction pushes it out.
RetainedIsServed ==
    [][\A f \in Fetches :
         FinishFull(f) /\ Retained(f, answer[f].headers) => Fresh(f)' # {}]_vars

\* What a page is handed after a 304 is the body whose validator was sent.
ValidatedBody ==
    \A f \in Fetches : got[f].kind = "body" /\ answer[f].status = 304 =>
        got[f].body = fetch[f].validator

==============================================================================
