------------------------------- MODULE H2Pool -------------------------------
(***************************************************************************)
(* The HTTP/2 side of crates/render-net/src/transport.rs for one origin: the *)
(* pooled connection, the threads that open, share, poll and abandon it, and *)
(* the server.  A thread's step is one critical section: of the pool's map,  *)
(* of the creation lock, or of a connection's mutex.  The mutex is held      *)
(* across steps only while a request body waits for its windows (`upload`).  *)
(*                                                                         *)
(* The server keeps to the protocol.  What the client writes reaches it in   *)
(* the same step: delaying it would only let the server send earlier what    *)
(* it may send before that step anyway.  What it sends waits in `inbound`.    *)
(* Deadlines are left to `Abandon`, which may come at any time; the write    *)
(* that fails is the request's HEADERS on a connection the server has left.  *)
(***************************************************************************)
EXTENDS H2Connection, SequencesExt

CONSTANTS Conns,        \* connections in the order they are opened, 1..n
          StreamLimit,  \* the server's SETTINGS_MAX_CONCURRENT_STREAMS, per connection
          Body,         \* units of each request's body, 0 for none
          Safe,         \* requests whose method may be retried
          NewWindow,    \* the initial window of the server's second SETTINGS
          MaxResponse,  \* units of each request's response body, at most
          Eventful,     \* connections on which the server does more than answer
          MaxInbound    \* frames under way from the server

\* How a hop ends.
Outcomes == {"http1", "failed", "panicked", "ok", "abandoned"}

\* Connections are numbered in the order in which they are opened.
ASSUME PoolAssumption ==
    /\ Conns \subseteq Nat /\ None \notin Conns /\ None \notin Outcomes
    /\ Eventful \subseteq Conns /\ Body \in [Requests -> Nat] /\ Safe \subseteq Requests
    /\ NewWindow \in Nat /\ MaxResponse \in [Requests -> Nat] /\ MaxInbound \in Nat
    /\ StreamLimit \in [Conns -> Nat]

VARIABLES conn,         \* H2Connection per connection, None before it is opened
          inbound,      \* frames from the server
          peer,         \* the server's view of each connection
          pool,         \* entries: the origin's connection or None
          http1Only,    \* the origin is in http1_only
          creator,      \* holder of the origin's creation lock or None
          upload,       \* per connection, the request that holds its mutex to send a body
          req           \* the threads

clientVars == <<conn, pool, http1Only, creator, upload, req>>
vars == <<conn, inbound, peer, pool, http1Only, creator, upload, req>>

------------------------------------------------------------------------------
(* The server (external).                                                    *)

PeerStream ==
    [state |-> "open", endIn |-> FALSE, status |-> FALSE, sent |-> 0, endOut |-> FALSE,
     send |-> RecvWindow, recv |-> SendWindow]
NewPeer ==
    [gone |-> "no", streams |-> [r \in Requests |-> None], send |-> ConnWindow,
     recv |-> ConnWindow, initial |-> SendWindow, settings |-> None, block |-> None]

PeerStreamSet ==
    [state : {"open", "closed"}, endIn : BOOLEAN, status : BOOLEAN, sent : Nat, endOut : BOOLEAN,
     send : Int, recv : Int]
ASSUME PeerAssumption == None \notin PeerStreamSet

PeerOpen(p) ==
    {r \in Requests : /\ p.streams[r] # None /\ p.streams[r].state = "open"
                      /\ ~(p.streams[r].endIn /\ p.streams[r].endOut)}

\* What a frame of the client does to the server.
PeerGets(p, f) ==
    CASE f.type = "headers" ->
             [p EXCEPT !.streams[f.stream] = [PeerStream EXCEPT !.endIn = f.end, !.recv = p.initial]]
      [] f.type = "data" ->
             LET s == p.streams[f.stream]
             IN  [p EXCEPT !.recv = @ - f.units,
                           !.streams[f.stream] = [s EXCEPT !.recv = s.recv - f.units, !.endIn = f.end]]
      [] f.type = "rst_stream" -> [p EXCEPT !.streams[f.stream].state = "closed"]
      [] f.type = "window_update" ->
             IF f.stream = None THEN [p EXCEPT !.send = @ + f.units]
             ELSE [p EXCEPT !.streams[f.stream].send = @ + f.units]
      [] f.type = "settings_ack" ->
             [p EXCEPT !.initial = p.settings,
                       !.streams = [r \in Requests |->
                           IF r \in PeerOpen(p)
                           THEN [p.streams[r] EXCEPT !.recv = @ + p.settings - p.initial]
                           ELSE p.streams[r]]]
      [] f.type = "goaway" -> [p EXCEPT !.gone = "told"]

\* A step of the client writes at most two frames.
PeerReads(p, out) ==
    LET first == PeerGets(p, out[1])
    IN  CASE out = <<>> -> p
          [] Len(out) = 1 -> first
          [] Len(out) = 2 -> PeerGets(first, out[2])

PeerSends(c, p, f) ==
    /\ conn[c] # None /\ conn[c].state = "open" /\ peer[c].gone = "no"
    /\ Len(inbound[c]) < MaxInbound
    /\ inbound' = [inbound EXCEPT ![c] = Append(@, f)]
    /\ peer' = [peer EXCEPT ![c] = p]
    /\ UNCHANGED clientVars

\* A stream the server may still send on; between two frames of a header block
\* nothing else is sent.
Sending(c, r) ==
    LET p == peer[c]
    IN  p.block = None /\ p.streams[r] # None /\ p.streams[r].state = "open" /\ ~p.streams[r].endOut

PeerHeaders(c, r) ==
    \E end, whole \in BOOLEAN :
        LET s == peer[c].streams[r]
        IN  /\ Sending(c, r)
            /\ whole \/ c \in Eventful
            /\ s.status => end     \* trailers
            /\ PeerSends(c, [peer[c] EXCEPT !.streams[r] = [s EXCEPT !.status = TRUE, !.endOut = end],
                                            !.block = IF whole THEN None ELSE r],
                         Headers(r, end, whole))

PeerContinuation(c) ==
    /\ peer[c].block # None
    /\ PeerSends(c, [peer[c] EXCEPT !.block = None], Continuation(peer[c].block))

PeerData(c, r) ==
    \E units \in {0, 1}, end \in BOOLEAN :
        LET s == peer[c].streams[r]
        IN  /\ Sending(c, r)
            /\ s.status /\ (units > 0 \/ end)
            /\ units <= peer[c].send /\ units <= s.send /\ s.sent + units <= MaxResponse[r]
            /\ PeerSends(c, [peer[c] EXCEPT !.send = @ - units,
                                            !.streams[r] = [s EXCEPT !.send = s.send - units,
                                                !.sent = s.sent + units, !.endOut = end]],
                         Data(r, units, end))

PeerResets(c, r) ==
    /\ c \in Eventful /\ Sending(c, r)
    /\ PeerSends(c, [peer[c] EXCEPT !.streams[r].state = "closed"], RstStream(r))

\* The server has read the body so far and gives the windows back.
PeerUpdatesConnection(c) ==
    /\ peer[c].block = None /\ peer[c].recv < ConnWindow
    /\ PeerSends(c, [peer[c] EXCEPT !.recv = ConnWindow], WindowUpdate(None, ConnWindow - peer[c].recv))

PeerUpdatesStream(c, r) ==
    /\ r \in PeerOpen(peer[c]) /\ peer[c].block = None
    /\ ~peer[c].streams[r].endIn /\ peer[c].streams[r].recv <= 0
    /\ LET increment == peer[c].initial - peer[c].streams[r].recv
       IN  increment > 0 /\ PeerSends(c, [peer[c] EXCEPT !.streams[r].recv = peer[c].initial],
                                      WindowUpdate(r, increment))

\* Bounded to once, and to a time when a body is on its way.
PeerSettings(c) ==
    /\ c \in Eventful /\ peer[c].block = None /\ peer[c].settings = None
    /\ \E r \in PeerOpen(peer[c]) : ~peer[c].streams[r].endIn
    /\ PeerSends(c, [peer[c] EXCEPT !.settings = NewWindow], Settings(NewWindow))

PeerLeaves(c) ==
    \E f \in {GoAway, Eof} :
        /\ c \in Eventful /\ peer[c].block = None
        /\ PeerSends(c, [peer[c] EXCEPT !.gone = "left"], f)

------------------------------------------------------------------------------
(* The threads.  pc is where a thread is in send_hop, H2Pool::send,          *)
(* entry_for and send_h2_request; conn the entry it holds; seen is           *)
(* status_seen; retry the flag of its H2Failure; rest the unsent units of   *)
(* the body; outcome what send_hop returned, got the body of its response.    *)

Init ==
    /\ conn = [c \in Conns |-> None]
    /\ inbound = [c \in Conns |-> <<>>]
    /\ peer = [c \in Conns |-> NewPeer]
    /\ pool = None
    /\ http1Only = FALSE
    /\ creator = None
    /\ upload = [c \in Conns |-> None]
    /\ req = [r \in Requests |-> [pc |-> "hop", attempt |-> 0, conn |-> None, seen |-> FALSE,
                                  retry |-> FALSE, rest |-> 0, got |-> 0,
                                  outcome |-> None]]

At(r, pc) == req[r].pc = pc
Goto(r, pc) == req' = [req EXCEPT ![r].pc = pc]
Ends(r, outcome) == req' = [req EXCEPT ![r].pc = "done", ![r].outcome = outcome]
\* An H2Failure with evict set; send removes the entry before it decides on a retry.
Evicts(r, retry) == req' = [req EXCEPT ![r].pc = "evict", ![r].retry = retry]

Network == <<inbound, peer>>

\* send_hop: an origin known to speak only HTTP/1.1 is not tried.
SendHop(r) ==
    /\ At(r, "hop")
    /\ IF http1Only THEN Ends(r, "http1") ELSE Goto(r, "lookup")
    /\ UNCHANGED <<conn, pool, http1Only, creator, upload, Network>>

\* entry_for, before the creation lock and again under it.
Lookup(r) ==
    /\ At(r, "lookup")
    /\ req' = [req EXCEPT ![r].conn = pool,
                          ![r].pc = IF pool # None THEN "check"
                                    ELSE IF creator = r THEN "connect" ELSE "lock"]
    /\ UNCHANGED <<conn, pool, http1Only, creator, upload, Network>>

Release(r) == creator' = IF creator = r THEN None ELSE creator

Check(r) ==
    /\ At(r, "check")
    /\ LET c == req[r].conn
       IN  /\ upload[c] = None
           /\ IF conn[c].state = "open" THEN Goto(r, "send") /\ Release(r)
              ELSE Goto(r, "drop") /\ UNCHANGED creator
    /\ UNCHANGED <<conn, pool, http1Only, upload, Network>>

\* remove compares the entries: another connection may have taken its place.
RemoveEntryDefect(c) == pool' = None
RemoveEntry(c) == pool' = IF pool = c THEN None ELSE pool

Drop(r) ==
    /\ At(r, "drop")
    /\ RemoveEntry(req[r].conn)
    /\ Goto(r, IF creator = r THEN "connect" ELSE "lock")
    /\ UNCHANGED <<conn, http1Only, creator, upload, Network>>

Lock(r) ==
    /\ At(r, "lock") /\ creator = None
    /\ creator' = r
    /\ Goto(r, "lookup")
    /\ UNCHANGED <<conn, pool, http1Only, upload, Network>>

\* connect and the insertion of the new entry; nobody else can reach the
\* connection in between.
Connect(r) ==
    /\ At(r, "connect")
    /\ \E c \in Conns :
        /\ conn[c] = None /\ \A d \in Conns : conn[d] = None => c <= d
        /\ conn' = [conn EXCEPT ![c] = Connected(StreamLimit[c])]
        /\ pool' = c
        /\ req' = [req EXCEPT ![r].conn = c, ![r].pc = "send"]
    /\ Release(r)
    /\ UNCHANGED <<http1Only, upload, Network>>

ConnectFails(r) ==
    /\ At(r, "connect")
    /\ Ends(r, "failed") /\ Release(r)
    /\ UNCHANGED <<conn, pool, http1Only, upload, Network>>

\* The probe ended on HTTP/1.1.
ConnectFallsBack(r) ==
    /\ At(r, "connect")
    /\ Goto(r, "fallback") /\ Release(r)
    /\ UNCHANGED <<conn, pool, http1Only, upload, Network>>

\* send_hop remembers it, and the hop goes on there.
MarkHttp1Only(r) ==
    /\ At(r, "fallback")
    /\ http1Only' = TRUE
    /\ Ends(r, "http1")
    /\ UNCHANGED <<conn, pool, creator, upload, Network>>

\* Another origin's new entry takes the place of this one's (max_entries); left
\* out when no connection is left to replace it.
MakeRoom ==
    /\ pool # None /\ \E c \in Conns : conn[c] = None
    /\ pool' = None
    /\ UNCHANGED <<conn, http1Only, creator, upload, req, Network>>

------------------------------------------------------------------------------
(* Critical sections of a connection's mutex.                                *)

Locked(r, c) == c = req[r].conn /\ upload[c] = None
\* What a closed connection has not read is never read.
Unread(c, k, frames) == inbound' = [inbound EXCEPT ![c] = IF k.state = "open" THEN frames ELSE <<>>]
Apply(c, step) ==
    /\ conn' = [conn EXCEPT ![c] = step.conn]
    /\ peer' = [peer EXCEPT ![c] = PeerReads(@, step.out)]
Rest == <<pool, http1Only, creator>>

SendRequestFails(r) ==
    /\ At(r, "send")
    /\ \E c \in Conns :
        /\ Locked(r, c)
        /\ \/ /\ conn[c].state = "closed"
              /\ Evicts(r, TRUE) /\ UNCHANGED conn
           \/ /\ conn[c].state = "open" /\ AtStreamLimit(conn[c])
              /\ Ends(r, "failed") /\ UNCHANGED conn
           \/ /\ conn[c].state = "open" /\ ~AtStreamLimit(conn[c]) /\ peer[c].gone = "left"
              /\ conn' = [conn EXCEPT ![c] = [OpenStream(conn[c], r, FALSE).conn
                                              EXCEPT !.state = "closed"]]
              /\ Evicts(r, TRUE)
    /\ \E c \in Conns : Locked(r, c) /\ Unread(c, conn'[c], inbound[c])
    /\ UNCHANGED <<upload, Rest, peer>>

SendRequest(r) ==
    /\ At(r, "send")
    /\ \E c \in Conns :
        /\ Locked(r, c)
        /\ conn[c].state = "open" /\ ~AtStreamLimit(conn[c])
        /\ Apply(c, OpenStream(conn[c], r, Body[r] = 0))
        /\ upload' = [upload EXCEPT ![c] = IF Body[r] = 0 THEN None ELSE r]
    /\ req' = [req EXCEPT ![r].pc = IF Body[r] = 0 THEN "poll" ELSE "body", ![r].rest = Body[r],
                          ![r].seen = FALSE]
    /\ UNCHANGED <<Rest, inbound>>

\* send_body: one DATA frame, as large as both windows allow.
SendBody(r) ==
    /\ At(r, "body")
    /\ LET c == req[r].conn
           units == IF Available(conn[c], r) < req[r].rest THEN Available(conn[c], r) ELSE req[r].rest
           end == units = req[r].rest
       IN  /\ ~conn[c].streams[r].endReceived
           /\ units > 0
           /\ Apply(c, SendData(conn[c], r, units, end))
           /\ req' = [req EXCEPT ![r].rest = @ - units, ![r].pc = IF end THEN "poll" ELSE "body"]
           /\ upload' = [upload EXCEPT ![c] = IF end THEN None ELSE r]
    /\ UNCHANGED <<Rest, inbound>>

\* The error of send_request: evict and retry for an error of the connection or
\* the transport, GOAWAY not among them.  The stream stays where it is.
BodyFails(r, error) ==
    CASE error.scope \in {"connection", "io"} -> Evicts(r, TRUE)
      [] error.scope = "panic" -> Ends(r, "panicked")
      [] OTHER -> Ends(r, "failed")

\* The peer answered before the body was sent.
BodyCutShort(r) ==
    /\ At(r, "body")
    /\ conn[req[r].conn].streams[r].endReceived
    /\ BodyFails(r, StreamError(r))
    /\ upload' = [upload EXCEPT ![req[r].conn] = None]
    /\ UNCHANGED <<conn, Rest, Network>>

BodyBlocked(r) ==
    LET c == req[r].conn
    IN  At(r, "body") /\ ~conn[c].streams[r].endReceived /\ Available(conn[c], r) = 0

\* No window: the body waits for a frame, whoever it is for.
PumpBody(r) ==
    /\ BodyBlocked(r)
    /\ LET c == req[r].conn
           step == PumpOneFrame(conn[c], Head(inbound[c]))
       IN  /\ inbound[c] # <<>>
           /\ Apply(c, step)
           /\ Unread(c, step.conn, Tail(inbound[c]))
           /\ IF step.error = Ok THEN UNCHANGED <<req, upload>>
              ELSE BodyFails(r, step.error) /\ upload' = [upload EXCEPT ![c] = None]
    /\ UNCHANGED Rest

\* read_next_frame takes the poll timeout of the socket for the end.
PumpTimesOut(r) ==
    /\ BodyBlocked(r)
    /\ LET c == req[r].conn
       IN  /\ inbound[c] = <<>>
           /\ conn' = [conn EXCEPT ![c].state = "closed"]
           /\ upload' = [upload EXCEPT ![c] = None]
    /\ BodyFails(r, IoError)
    /\ UNCHANGED <<Rest, Network>>

\* One turn of the polling loop that ends the request: the response or the
\* error of the stream, found before or after reading a frame.
Takes(r, k) ==
    IF Failed(k, r) THEN Ends(r, "failed")
    ELSE req' = [req EXCEPT ![r].pc = "done", ![r].outcome = "ok", ![r].got = k.streams[r].body]

TakeResponse(r) ==
    /\ At(r, "poll")
    /\ \E c \in Conns :
        /\ Locked(r, c)
        /\ Failed(conn[c], r) \/ Completed(conn[c], r)
        /\ Takes(r, conn[c])
        /\ conn' = [conn EXCEPT ![c] = Forget(@, r)]
    /\ UNCHANGED <<upload, Rest, Network>>

Polling(r, c) ==
    At(r, "poll") /\ Locked(r, c) /\ ~Failed(conn[c], r) /\ ~Completed(conn[c], r)
\* status_seen is brought up to date before the frame is read.
SeenDefect(r, c) == req[r].seen
Seen(r, c) == req[r].seen \/ conn[c].streams[r].status

\* ensure_open: another thread has read the end of the connection.
PollClosed(r) ==
    /\ \E c \in Conns :
        Polling(r, c) /\ conn[c].state = "closed" /\ Evicts(r, ~Seen(r, c))
    /\ UNCHANGED <<conn, upload, Rest, Network>>

PollFrames(r) ==
    /\ \E c \in Conns :
        LET step == PollFrame(conn[c], Head(inbound[c]))
        IN  /\ Polling(r, c) /\ conn[c].state = "open" /\ inbound[c] # <<>>
            /\ Unread(c, step.conn, Tail(inbound[c]))
            /\ CASE step.error = Ok /\ (Failed(step.conn, r) \/ Completed(step.conn, r)) ->
                        /\ Takes(r, step.conn)
                        /\ Apply(c, Step(Forget(step.conn, r), Ok, step.out))
                 [] step.error = Ok /\ ~(Failed(step.conn, r) \/ Completed(step.conn, r)) ->
                        /\ Apply(c, step)
                        /\ req' = [req EXCEPT ![r].seen = Seen(r, c)]
                 [] step.error = Panic -> Apply(c, step) /\ Ends(r, "panicked")
                 [] OTHER -> Apply(c, step) /\ Evicts(r, ~Seen(r, c))
    /\ UNCHANGED <<upload, Rest>>

\* The token was cancelled, or a deadline for the headers or the body passed.
AbandonDefect(r) ==
    /\ At(r, "poll")
    /\ \E c \in Conns : Locked(r, c)
    /\ Ends(r, "abandoned")
    /\ UNCHANGED <<conn, upload, Rest, Network>>
Abandon(r) ==
    /\ At(r, "poll")
    /\ \E c \in Conns : Locked(r, c) /\ Apply(c, CancelStream(conn[c], r))
    /\ Ends(r, "abandoned")
    /\ UNCHANGED <<inbound, upload, Rest>>

\* send after a failure with evict set.
Evict(r) ==
    /\ At(r, "evict")
    /\ RemoveEntry(req[r].conn)
    /\ IF req[r].retry /\ r \in Safe /\ req[r].attempt = 0
       THEN req' = [req EXCEPT ![r].pc = "lookup", ![r].attempt = 1]
       ELSE Ends(r, "failed")
    /\ UNCHANGED <<conn, http1Only, creator, upload, Network>>

------------------------------------------------------------------------------
Thread(r) ==
    \/ SendHop(r) \/ Lookup(r) \/ Check(r) \/ Drop(r) \/ Lock(r)
    \/ Connect(r) \/ ConnectFails(r) \/ ConnectFallsBack(r) \/ MarkHttp1Only(r)
    \/ SendRequest(r) \/ SendRequestFails(r)
    \/ SendBody(r) \/ BodyCutShort(r) \/ PumpBody(r) \/ PumpTimesOut(r)
    \/ TakeResponse(r) \/ PollClosed(r) \/ PollFrames(r) \/ Abandon(r) \/ Evict(r)

Server(c) ==
    \/ PeerContinuation(c) \/ PeerUpdatesConnection(c) \/ PeerSettings(c) \/ PeerLeaves(c)
    \/ \E r \in Requests : PeerHeaders(c, r) \/ PeerData(c, r)
                             \/ PeerResets(c, r) \/ PeerUpdatesStream(c, r)

Next == MakeRoom \/ (\E r \in Requests : Thread(r)) \/ (\E c \in Conns : Server(c))

Spec == Init /\ [][Next]_vars
------------------------------------------------------------------------------
(* Properties                                                                *)

OnWire(c, r, type) == {i \in DOMAIN inbound[c] : inbound[c][i].type = type /\ inbound[c][i].stream = r}
Units(c, at) == FoldLeft(LAMBDA n, f : n + f.units, 0, [i \in 1..Len(inbound[c]) |->
                    IF i \in at THEN inbound[c][i] ELSE Data(None, 0, FALSE)])
Sent(r) == {c \in Conns : peer[c].streams[r] # None}

\* The client and the server agree about each other, up to the frames under way:
\* what one side may still send, on the connection and on a stream, is what the
\* other will accept (through refused data and changed initial windows), and the
\* server never has more streams open than it allows.
PeerAgrees ==
    \A c \in Conns : conn[c] # None /\ conn[c].state = "open" /\ peer[c].gone = "no" =>
        LET k == conn[c]
            p == peer[c]
        IN  /\ k.recv = p.send + Units(c, UNION {OnWire(c, r, "data") : r \in Requests})
            /\ p.recv = k.send + Units(c, OnWire(c, None, "window_update"))
            /\ p.recv >= 0 /\ Cardinality(PeerOpen(p)) <= StreamLimit[c]
            /\ \A r \in ActiveStreams(k) \cap PeerOpen(p) :
                /\ ~p.streams[r].endOut =>
                       k.streams[r].recv = p.streams[r].send + Units(c, OnWire(c, r, "data"))
                /\ ~p.streams[r].endIn =>
                       p.streams[r].recv = k.streams[r].send + Units(c, OnWire(c, r, "window_update"))

\* A failed upload: its pump may have thrown away the error of another stream.
FailedUpload(c, q) ==
    req[q].conn = c /\ Body[q] > 0 /\ (req[q].outcome = "failed" \/ At(q, "evict") \/ req[q].attempt = 1)

\* A response is handed over whole: the server had ended it and every unit it
\* sent is in it.  A refused DATA frame loses a unit, and the error that would
\* stop the response is lost only when the pump of a failing upload met it.
WholeResponse ==
    \A r \in Requests : req[r].outcome = "ok" =>
        LET c == req[r].conn
            s == peer[c].streams[r]
        IN  \/ s.endOut /\ s.sent = req[r].got
            \/ \E q \in Requests \ {r} : FailedUpload(c, q)

\* A request goes out again only when its method allows it, its first connection is
\* dead and the client had seen no part of an answer.  Not so with a body: while
\* it is sent nobody looks for an answer, so one may have begun.
ResentOnlyUnseen ==
    \A r \in Requests : \A c, d \in Sent(r) : c < d =>
        /\ r \in Safe
        /\ conn[c].state = "closed"
        /\ conn[c].streams[r] # None /\ Body[r] = 0 => ~conn[c].streams[r].status

\* An origin has one connection at a time: a thread opens one only when the pool
\* has none and nobody else is opening one, and an entry that works leaves the
\* pool only to make room, whatever thread fails on an older one.
OneLiveConnection ==
    /\ [](\A r, q \in Requests : At(r, "connect") => pool = None /\ (At(q, "connect") => q = r))
    /\ [][\A c \in Conns : pool = c /\ pool' # c /\ conn[c].state = "open" => MakeRoom]_vars

\* A stream nobody works on any more stays active on a connection that works only
\* when send_body left part of its body unsent, which nobody cancels (or its
\* thread panicked): not when its body was sent whole or there was none, however
\* the request ended.
OrphansAreUploads ==
    \A c \in Conns : conn[c] # None /\ conn[c].state = "open" =>
        \A r \in ActiveStreams(conn[c]) :
            /\ req[r].conn = c
            /\ req[r].pc \in {"poll", "body"} \/ req[r].rest > 0 \/ req[r].outcome = "panicked"

\* The client declares a connection broken (GOAWAY to a server that keeps to the
\* protocol) only when it has forgotten a stream the server had opened, for a
\* request that was abandoned or failed: frames under way then arrive "on idle
\* stream" and end every other request.
ClosedForCause ==
    \A c \in Conns : peer[c].gone = "told" =>
        \E r \in Requests : /\ c \in Sent(r) /\ conn[c].streams[r] = None
                            /\ req[r].conn = c /\ req[r].outcome \in {"abandoned", "failed"}

\* finish_header_block expects "stream existence checked before decoding": the
\* stream of an unfinished header block is still there when the rest arrives.
HeaderBlockHasStream ==
    \A c \in Conns : conn[c] # None /\ conn[c].pending # None =>
        conn[c].streams[conn[c].pending.stream] # None
=============================================================================
