--------------------------- MODULE SessionHistory ---------------------------
(***************************************************************************)
(* The session history of one tab: the list of crates/render-core/src/       *)
(* navigation.rs, the navigations and traversals of crates/render-browser/   *)
(* src/app.rs that move through it, and the history and location requests of *)
(* the page's scripts (crates/render-js/src/runtime), which the shell takes  *)
(* from the runtime after the script has returned.                           *)
(*                                                                         *)
(* A URL stands for itself and for the history.state kept with it.  All      *)
(* network URLs are of one origin, so pushState accepts them.  The built-in  *)
(* pages and error pages run no script.                                      *)
(***************************************************************************)
EXTENDS Integers, Sequences, FiniteSets

CONSTANTS Urls,         \* network URLs
          Home,         \* a built-in page, which needs no load
          MaxEntries,   \* max_history_entries
          MaxRequests,  \* bound: requests a script leaves between two drains
          MaxDocuments, \* bound: documents of a behaviour
          Nothing       \* no load, no URL, no navigation

ASSUME HistoryAssumption == /\ MaxEntries \in Nat \ {0}
                            /\ Home \notin Urls /\ Nothing \notin Urls \cup {Home}

VARIABLES entries,      \* [url, document], document 0 for one never loaded
          current,
          page,         \* [serial, scripted, location, requests, navigation]
          committed,    \* navigation.committed.target
          pending,      \* navigation.pending: the requested URL, or Nothing
          address,      \* what the tab shows
          past          \* history; nothing of the code reads it

historyVars == <<entries, current, page, committed, pending, address, past>>

------------------------------------------------------------------------------
(* SessionHistory.                                                           *)

Entry(url, document) == [url |-> url, document |-> document]
CanPush == current + 1 <= MaxEntries
Pushed(e) == Append(SubSeq(entries, 1, current), e)

------------------------------------------------------------------------------
(* Documents.                                                                *)

\* Defect: the new document keeps the old one's number.
NewSerialDefect == page.serial

NewSerial == page.serial + 1

\* install_source and set_source with the list `list` at `at`: the runtime and
\* the requests in it are dropped, and whatever entry is current becomes the new
\* document's.
Install(list, at, url, scripted) ==
    LET serial == NewSerial IN
    /\ serial <= MaxDocuments
    /\ page' = [serial |-> serial, scripted |-> scripted, location |-> url,
                requests |-> <<>>, navigation |-> Nothing]
    /\ entries' = [list EXCEPT ![at].document = serial]
    /\ current' = at
    /\ committed' = url /\ pending' = Nothing /\ address' = url
    /\ past' = [visited |-> {url}, stopped |-> FALSE]

\* navigate_target on the list `list` at `at`, for a navigation that starts.
\* rest: the page after what was taken out of its queues.
Load(list, at, url, rest) ==
    \/ /\ url = Home
       /\ Install(list, at, Home, FALSE)
    \/ /\ url # Home
       /\ entries' = list /\ current' = at
       /\ pending' = url /\ address' = url
       /\ page' = rest
       /\ past' = [past EXCEPT !.stopped = FALSE]
       /\ UNCHANGED committed

\* A navigation that adds an entry; a full list is an error page in the place
\* of the entry shown.
NavigatePush(url, rest) ==
    \/ CanPush /\ Load(Pushed(Entry(url, 0)), current + 1, url, rest)
    \/ ~CanPush /\ Install(entries, current, url, FALSE)

NavigateCurrent(url, rest) == Load(entries, current, url, rest)

\* The address bar, a link, a form.
Navigate == \E url \in Urls \cup {Home} : NavigatePush(url, page)
Reload == NavigateCurrent(entries[current].url, page)

\* Enter on an address that does not parse: an error page in the place of
\* whatever is current.
InvalidAddress == Install(entries, current, committed, FALSE)

------------------------------------------------------------------------------
(* Traversal.                                                                *)

SameDocument(e) == e.document = page.serial

\* traverse_history_by.  A load on its way is given up first, also when there is
\* no entry to go to.
Traverse(delta, rest) ==
    LET at == current + delta IN
    \/ /\ at \notin DOMAIN entries
       /\ pending' = Nothing
       /\ page' = rest
       /\ past' = [past EXCEPT !.stopped = @ \/ pending # Nothing]
       /\ UNCHANGED <<entries, current, committed, address>>
    \/ /\ at \in DOMAIN entries /\ delta # 0 /\ SameDocument(entries[at])
       /\ current' = at
       /\ pending' = Nothing
       /\ page' = [rest EXCEPT !.location = entries[at].url]
       /\ committed' = entries[at].url /\ address' = entries[at].url
       /\ past' = [past EXCEPT !.stopped = FALSE]
       /\ UNCHANGED entries
    \/ /\ at \in DOMAIN entries /\ (delta = 0 \/ ~SameDocument(entries[at]))
       /\ Load(entries, at, entries[at].url, rest)

Back == Traverse(-1, page)
Forward == Traverse(1, page)

------------------------------------------------------------------------------
(* Scripts.  pushState and replaceState move the location at once and leave  *)
(* a request for the shell; so do back, forward and go, and an assignment to *)
(* location, of which only the newest counts.                                *)

Script(kind, url, delta) ==
    /\ page.scripted /\ Len(page.requests) < MaxRequests
    /\ page' = [page EXCEPT
          !.requests = Append(@, [kind |-> kind, url |-> url, delta |-> delta]),
          !.location = IF kind = "go" THEN @ ELSE url]
    /\ past' = [past EXCEPT !.visited = IF kind = "go" THEN @ ELSE @ \cup {url}]
    /\ UNCHANGED <<entries, current, committed, pending, address>>

HistoryStateChange == \E kind \in {"push", "replace"}, url \in Urls : Script(kind, url, 0)
HistoryGo == \E delta \in {-2, -1, 0, 1} : Script("go", Nothing, delta)

AssignLocation ==
    /\ page.scripted
    /\ \E url \in Urls \cup {Home}, replace \in BOOLEAN :
           page' = [page EXCEPT !.navigation = [url |-> url, replace |-> replace]]
    /\ UNCHANGED <<entries, current, committed, pending, address, past>>

\* drain_history_requests, one request a step: the orders of the shell, which
\* takes the batch in one go, are among these.  A traversal ends the batch and
\* drops the rest of it.
Request == Head(page.requests)
Rest == [page EXCEPT !.requests = Tail(@)]

RecordHistoryEntry ==
    /\ page.requests # <<>> /\ Request.kind # "go"
    /\ LET e == Entry(Request.url, page.serial) IN
       \/ /\ Request.kind = "replace"
          /\ entries' = [entries EXCEPT ![current] = e]
          /\ UNCHANGED current
          /\ committed' = Request.url /\ address' = Request.url
       \/ /\ Request.kind = "push" /\ CanPush
          /\ entries' = Pushed(e) /\ current' = current + 1
          /\ committed' = Request.url /\ address' = Request.url
       \/ /\ Request.kind = "push" /\ ~CanPush
          /\ UNCHANGED <<entries, current, committed, address>>
    /\ page' = Rest
    /\ past' = [past EXCEPT !.stopped = @ /\ Request.kind = "push" /\ ~CanPush]
    /\ UNCHANGED pending

DrainGo ==
    /\ page.requests # <<>> /\ Request.kind = "go"
    /\ Traverse(Request.delta, [page EXCEPT !.requests = <<>>])

DrainScriptNavigations ==
    /\ page.navigation # Nothing
    /\ LET url == page.navigation.url
           rest == [page EXCEPT !.navigation = Nothing]
       IN  \/ page.navigation.replace /\ NavigateCurrent(url, rest)
           \/ ~page.navigation.replace /\ NavigatePush(url, rest)

------------------------------------------------------------------------------
(* The load ends.                                                            *)

\* Defect: the redirected entry replaces the one the document was given.
ReplacedDefect(url, scripted) ==
    /\ page' = [serial |-> page.serial + 1, scripted |-> scripted, location |-> url,
                requests |-> <<>>, navigation |-> Nothing]
    /\ entries' = [entries EXCEPT ![current] = Entry(url, 0)]
    /\ committed' = url /\ pending' = Nothing /\ address' = url
    /\ past' = [visited |-> {url}, stopped |-> FALSE]
    /\ UNCHANGED current

\* The response's URL takes the place of the current entry, then its document.
Replaced(url, scripted) ==
    Install([entries EXCEPT ![current] = Entry(url, 0)], current, url, scripted)

FinishNavigation ==
    /\ pending # Nothing /\ page.serial < MaxDocuments    \* bound
    /\ \/ Install(entries, current, pending, FALSE)
       \/ \E final \in Urls, renderable \in BOOLEAN : Replaced(final, renderable)

------------------------------------------------------------------------------

\* A new tab shows the home page.
HistoryInit == /\ entries = <<Entry(Home, 1)>> /\ current = 1
               /\ page = [serial |-> 1, scripted |-> FALSE, location |-> Home,
                          requests |-> <<>>, navigation |-> Nothing]
               /\ committed = Home /\ address = Home /\ pending = Nothing
               /\ past = [visited |-> {Home}, stopped |-> FALSE]

HistoryNext == \/ Navigate \/ Reload \/ InvalidAddress \/ Back \/ Forward
               \/ HistoryStateChange \/ HistoryGo \/ AssignLocation
               \/ RecordHistoryEntry \/ DrainGo \/ DrainScriptNavigations
               \/ FinishNavigation

HistorySpec == HistoryInit /\ [][HistoryNext]_historyVars

------------------------------------------------------------------------------
(* Properties.                                                               *)

\* With no load on its way the current entry is the shown document's, and the
\* tab's address is the committed URL: the list moves when a navigation starts
\* and the document when it ends, with scripts, traversals, redirects, failures
\* and newer navigations in between.  The exception is a load that a traversal
\* with nowhere to go gave up: the list and the address stay where the load
\* would have gone until the next navigation or history change.
SettledEntry == pending = Nothing /\ ~past.stopped =>
                    entries[current].document = page.serial /\ address = committed

\* "Entries made in the old document keep its number, so traversing to them loads
\* rather than changing this document": a document that runs scripts is only ever
\* moved, by popstate, to a URL it was loaded from or gave itself, and only such
\* URLs are listed under its number.
PopstateIsOwn == page.scripted =>
    /\ page.location \in past.visited
    /\ \A i \in DOMAIN entries :
           entries[i].document = page.serial => entries[i].url \in past.visited
=============================================================================
