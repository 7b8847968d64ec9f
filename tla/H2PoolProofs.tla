---------------------------- MODULE H2PoolProofs ----------------------------
(***************************************************************************)
(* Proofs about H2Pool for every set of requests and connections, all        *)
(* windows, limits and bodies, and any number of frames under way.           *)
(***************************************************************************)
EXTENDS H2Pool, DataLemmas

FrameSet == [type : {"headers"}, stream : Requests, end : BOOLEAN, whole : BOOLEAN]
       \cup [type : {"continuation"}, stream : Requests]
       \cup [type : {"data"}, stream : Requests, units : Nat, end : BOOLEAN]
       \cup [type : {"rst_stream"}, stream : Requests]
       \cup [type : {"window_update"}, stream : Requests \cup {None}, units : Int]
       \cup [type : {"settings"}, window : Int]
       \cup {GoAway, Eof}
PeerSet == [gone : {"no", "left", "told"}, streams : [Requests -> PeerStreamSet \cup {None}],
            send : Int, recv : Int, initial : Int, settings : Int \cup {None},
            block : Requests \cup {None}]
Idle == {"hop", "lookup", "lock", "connect", "fallback", "done"}
Holding == {"check", "drop", "send", "body", "poll", "evict"}
ThreadSet == [pc : Idle \cup Holding, attempt : {0, 1}, conn : Conns \cup {None}, seen : BOOLEAN,
              retry : BOOLEAN, rest : Int, got : Nat,
              outcome : Outcomes \cup {None}]

H2Types ==
    /\ conn \in [Conns -> ConnectionSet \cup {None}]
    /\ inbound \in [Conns -> Seq(FrameSet)]
    /\ peer \in [Conns -> PeerSet]
    /\ pool \in Conns \cup {None} /\ http1Only \in BOOLEAN
    /\ creator \in Requests \cup {None}
    /\ upload \in [Conns -> Requests \cup {None}]
    /\ req \in [Requests -> ThreadSet]

\* The server has the stream a frame names, and has sent the settings it names.
Fits(p, f) ==
    /\ f.type \in {"headers", "continuation", "data", "rst_stream"} => p.streams[f.stream] # None
    /\ f.type = "window_update" => f.stream = None \/ p.streams[f.stream] # None
    /\ f.type = "settings" => p.settings \in Int
Linked(k, p) ==
    /\ \A r \in Requests : k.streams[r] # None => p.streams[r] # None
    /\ k.pending # None => p.streams[k.pending.stream] # None
BlockOk(p) == p.block # None => p.streams[p.block] # None
LinksOk == \A c \in Conns :
    /\ BlockOk(peer[c])
    /\ \A f \in Elements(inbound[c]) : Fits(peer[c], f)
    /\ conn[c] # None /\ conn[c].state = "open" => Linked(conn[c], peer[c])
    /\ conn[c] = None => \A r \in Requests : peer[c].streams[r] = None

\* The pool has the connection opened last, or none.
Opened == {c \in Conns : conn[c] # None}
PoolOk ==
    /\ \A c \in Opened, d \in Conns : d < c => d \in Opened
    /\ pool # None => pool \in Opened /\ \A c \in Opened : c <= pool

\* What the place of a thread says of the pool, the creation lock and its connection.
PlaceOk(r) ==
    LET c == req[r].conn IN
    /\ req[r].outcome # None => At(r, "done")
    /\ req[r].pc \in Holding => c \in Opened
    /\ At(r, "connect") => creator = r /\ pool = None
    /\ creator = r => req[r].pc \in {"lookup", "check", "drop", "connect"}
    /\ creator = r /\ req[r].pc \in {"check", "drop"} => pool \in {None, c}
    /\ req[r].pc \in {"drop", "evict"} => conn[c].state = "closed"
    /\ At(r, "body") => upload[c] = r /\ Body[r] > 0 /\ req[r].rest > 0
    /\ req[r].pc \in {"body", "poll"} => conn[c].streams[r] # None
UploadOk == \A c \in Conns : upload[c] # None =>
    /\ conn[c] # None /\ conn[c].state = "open"
    /\ At(upload[c], "body") /\ req[upload[c]].conn = c

\* The client has read no part of an answer to r on c.
Unanswered(r, c) ==
    /\ conn[c].state = "closed"
    /\ conn[c].streams[r] # None /\ Body[r] = 0 => ~conn[c].streams[r].status
Retired(r, c) == req[r].attempt = 1 /\ r \in Safe /\ Unanswered(r, c)
Present(r, c) == c = req[r].conn /\ req[r].pc \in {"body", "poll", "evict", "done"}
SentOk(r) ==
    /\ \A c \in Sent(r) : Present(r, c) \/ Retired(r, c)
    /\ \A c, d \in Sent(r) : Retired(r, c) /\ ~Retired(r, d) => c < d
    /\ req[r].pc \in {"check", "drop", "send"} => \A c \in Sent(r) : c <= req[r].conn
    /\ At(r, "evict") /\ req[r].retry /\ req[r].attempt = 0 =>
           \A c \in Sent(r) : Unanswered(r, c)

\* Somebody works on every active stream of r but for that of a cut body.
Attended(r) == \A c \in Conns :
    conn[c] # None /\ conn[c].state = "open" /\ Active(conn[c].streams[r]) =>
        /\ req[r].conn = c
        /\ \/ req[r].pc \in {"poll", "body"}
           \/ req[r].pc = "done" /\ (req[r].rest > 0 \/ req[r].outcome = "panicked")

H2Inv == /\ H2Types /\ LinksOk /\ PoolOk /\ UploadOk
         /\ \A r \in Requests : PlaceOk(r) /\ SentOk(r) /\ Attended(r)

------------------------------------------------------------------------------
(* What a frame does to a connection.                                        *)

Streams(k) == {r \in Requests : k.streams[r] # None}
\* The streams are those of before, none of them active again, and l is closed
\* if k is.
Follows(k, l) ==
    /\ l \in ConnectionSet
    /\ Streams(l) \subseteq Streams(k)
    /\ \A r \in Requests : Active(l.streams[r]) => Active(k.streams[r])
    /\ l.state = "open" => k.state = "open"
SameStreams(k, l) == Streams(l) = Streams(k)
SameStatus(k, l) == \A r \in Streams(l) : l.streams[r].status = k.streams[r].status

Fatal == {ProtocolError, GoAwayError, IoError}
Told(p, error) == \E r \in Requests : p.streams[r] # None /\ error \in {StreamError(r), StreamReset(r)}

\* What the server may be written but for HEADERS.
Written(p, f) ==
    \/ f = GoAway
    \/ f = SettingsAck /\ p.settings \in Int
    \/ \E r \in Requests : f = RstStream(r) /\ p.streams[r] # None
    \/ \E r \in Requests, n \in Int, end \in BOOLEAN : f = Data(r, n, end) /\ p.streams[r] # None
    \/ \E r \in Requests \cup {None}, n \in Int :
          f = WindowUpdate(r, n) /\ (r = None \/ p.streams[r] # None)
Answers(p, out) ==
    \/ out = <<>>
    \/ \E f \in {out[1]} : out = <<f>> /\ Written(p, f)
    \/ \E f \in {out[1]}, g \in {out[2]} : out = <<f, g>> /\ Written(p, f) /\ Written(p, g)

HandlesWell(k, f, p, step) ==
    /\ Follows(k, step.conn) /\ SameStreams(k, step.conn)
    /\ \/ step.conn.pending \in {None, k.pending}
       \/ step.conn.pending.stream = f.stream /\ f.type = "headers"
    /\ step.error \in Fatal \cup {Ok, Panic} \/ Told(p, step.error)
    /\ step.error \in Fatal => SameStatus(k, step.conn)
    /\ step.error \notin Fatal => step.conn.state = k.state
    /\ Answers(p, step.out)

(* A stream may be replaced by one that is not active again.                 *)
LEMMA StreamEdit ==
    ASSUME NEW k \in ConnectionSet, NEW r \in Streams(k), NEW s \in StreamSet,
           Active(s) => Active(k.streams[r])
    PROVE  LET l == [k EXCEPT !.streams[r] = s]
           IN  Follows(k, l) /\ SameStreams(k, l)
BY NoneAssumption DEF ConnectionSet, Follows, SameStreams, Streams

(* Ending the client's side keeps a stream's answer and activates nothing.   *)
LEMMA MarkLocal ==
    ASSUME NEW s \in StreamSet
    PROVE  /\ MarkLocalEnd(s) \in StreamSet /\ MarkLocalEnd(s).status = s.status
           /\ Active(MarkLocalEnd(s)) => Active(s)
BY NoneAssumption DEF MarkLocalEnd, HalfClosed, StreamSet, Active

(* So does ending the server's side.                                         *)
LEMMA MarkRemote ==
    ASSUME NEW s \in StreamSet
    PROVE  MarkRemoteEnd(s) \in StreamSet /\ (Active(MarkRemoteEnd(s)) => Active(s))
BY NoneAssumption DEF MarkRemoteEnd, HalfClosed, StreamSet, Active

(* A connection follows itself.                                              *)
LEMMA NothingDone ==
    ASSUME NEW k \in ConnectionSet
    PROVE  Follows(k, k) /\ SameStreams(k, k) /\ SameStatus(k, k)
BY DEF Follows, SameStreams, SameStatus

(* The error of one stream is none of the errors that end a connection.      *)
LEMMA ErrorsDiffer ==
    /\ Ok \notin Fatal \cup {Panic} /\ Panic \notin Fatal
    /\ \A r \in Requests : {StreamError(r), StreamReset(r)} \cap (Fatal \cup {Ok, Panic}) = {}
BY DEF Ok, Fatal, Panic, ProtocolError, GoAwayError, IoError, StreamError, StreamReset

(* A handler that fails once it has changed the connection.                  *)
LEMMA FailsAfter ==
    ASSUME NEW k \in ConnectionSet, NEW f, NEW p, NEW error, NEW l,
           Follows(k, l), SameStreams(k, l), l.pending = k.pending,
           IF error \in Fatal THEN SameStatus(k, l) ELSE l.state = k.state,
           error \in Fatal \cup {Panic} \/ Told(p, error)
    PROVE  HandlesWell(k, f, p, Fails(l, error))
<1>1. error # Ok
  BY ErrorsDiffer DEF Told
<1>2. /\ Fails(l, error).conn = l /\ Fails(l, error).error = error /\ Fails(l, error).out = <<>>
  BY DEF Fails, Step
<1> QED  BY <1>1, <1>2 DEF HandlesWell, Answers

(* A handler that fails before it has changed anything.                      *)
LEMMA FailsWell ==
    ASSUME NEW k \in ConnectionSet, NEW f, NEW p, NEW error,
           error \in Fatal \cup {Panic} \/ Told(p, error)
    PROVE  HandlesWell(k, f, p, Fails(k, error))
BY NothingDone, FailsAfter

(* A handler that succeeds.                                                  *)
LEMMA DoneWell ==
    ASSUME NEW k \in ConnectionSet, NEW f, NEW p, NEW l, NEW out, Follows(k, l), SameStreams(k, l),
           l.state = k.state,
           \/ l.pending \in {None, k.pending}
           \/ l.pending.stream = f.stream /\ f.type = "headers",
           Answers(p, out)
    PROVE  HandlesWell(k, f, p, Step(l, Ok, out))
<1>1. Ok \notin Fatal
  BY ErrorsDiffer
<1>2. /\ Step(l, Ok, out).conn = l /\ Step(l, Ok, out).error = Ok /\ Step(l, Ok, out).out = out
  BY DEF Step
<1> QED  BY <1>1, <1>2 DEF HandlesWell

(* finish_header_block: it sets the status of a stream the server has, or    *)
(* fails.                                                                    *)
LEMMA FinishesWell ==
    ASSUME NEW k \in ConnectionSet, NEW r \in Requests, NEW p, p.streams[r] # None,
           NEW trailers \in BOOLEAN, NEW end \in BOOLEAN, NEW f
    PROVE  HandlesWell(k, f, p, FinishHeaderBlock(k, r, trailers, end))
<1> DEFINE final == [k.streams[r] EXCEPT !.status = TRUE]
           s == IF end THEN MarkRemoteEnd(final) ELSE final
<1>1. CASE trailers /\ ~end
  BY <1>1, FailsWell DEF FinishHeaderBlock, Told
<1>2. CASE ~(trailers /\ ~end) /\ k.streams[r] = None
  BY <1>2, FailsWell DEF FinishHeaderBlock
<1>3. CASE ~(trailers /\ ~end) /\ k.streams[r] # None
  <2>1. k.streams[r] \in StreamSet
    BY <1>3 DEF ConnectionSet
  <2>2. final \in StreamSet /\ (Active(final) => Active(k.streams[r]))
    BY <2>1, <1>3 DEF StreamSet, Active
  <2>3. s \in StreamSet /\ (Active(s) => Active(k.streams[r]))
    BY <2>2, MarkRemote
  <2> DEFINE l == [k EXCEPT !.streams[r] = s]
  <2>4. FinishHeaderBlock(k, r, trailers, end) = Done(l)
    BY <1>3 DEF FinishHeaderBlock
  <2> HIDE DEF s
  <2>5. Follows(k, l) /\ SameStreams(k, l)
    BY <1>3, <2>3, StreamEdit DEF Streams
  <2>6. l.pending = k.pending /\ l.state = k.state
    BY DEF ConnectionSet
  <2> HIDE DEF l
  <2>7. Answers(p, <<>>)
    BY DEF Answers
  <2> QED  BY <2>4, <2>5, <2>6, <2>7, DoneWell DEF Done
<1> QED  BY <1>1, <1>2, <1>3

(* The handler of HEADERS may leave a block open, for its own stream.        *)
LEMMA HeadersHandled ==
    ASSUME NEW k \in ConnectionSet, NEW f \in FrameSet, f.type = "headers", NEW p, Fits(p, f)
    PROVE  HandlesWell(k, f, p, HandleHeaders(k, f))
<1> DEFINE s == k.streams[f.stream]
<1>1. f.stream \in Requests /\ f.end \in BOOLEAN /\ f.whole \in BOOLEAN /\ p.streams[f.stream] # None
  BY DEF FrameSet, Fits, GoAway, Eof
<1>2. CASE s = None
  BY <1>2, FailsWell DEF HandleHeaders, Fatal
<1>3. CASE s # None /\ s.endReceived
  BY <1>1, <1>3, FailsWell DEF HandleHeaders, Told
<1>4. ASSUME s # None, ~s.endReceived
      PROVE  HandlesWell(k, f, p, HandleHeaders(k, f))
  <2>1. s.status \in BOOLEAN
    BY <1>1, <1>4 DEF ConnectionSet, StreamSet
  <2>2. CASE f.whole
    BY <1>1, <1>4, <2>1, <2>2, FinishesWell DEF HandleHeaders
  <2>3. CASE ~f.whole
    <3> DEFINE block == [stream |-> f.stream, trailers |-> s.status, end |-> f.end]
               l == [k EXCEPT !.pending = block]
    <3>1. block \in BlockSet
      BY <1>1, <2>1 DEF BlockSet
    <3>2. HandleHeaders(k, f) = Done(l)
      BY <1>4, <2>3 DEF HandleHeaders
    <3>3. l \in ConnectionSet /\ l.pending.stream = f.stream /\ l.streams = k.streams /\ l.state = k.state
      BY <3>1 DEF ConnectionSet
    <3> HIDE DEF l
    <3>4. Follows(k, l) /\ SameStreams(k, l)
      BY <3>3 DEF Follows, SameStreams, Streams
    <3>5. Answers(p, <<>>)
      BY DEF Answers
    <3> QED  BY <3>2, <3>3, <3>4, <3>5, DoneWell DEF Done
  <2> QED  BY <2>2, <2>3
<1> QED  BY <1>1, <1>2, <1>3, <1>4

(* The handler of CONTINUATION closes the block of the stream it is open     *)
(* for.                                                                      *)
LEMMA ContinuationHandled ==
    ASSUME NEW k \in ConnectionSet, NEW f, NEW p, k.pending # None, Linked(k, p)
    PROVE  HandlesWell(k, f, p, HandleContinuation(k, f))
<1> DEFINE b == k.pending
           l == [k EXCEPT !.pending = None]
<1>1. b \in BlockSet /\ p.streams[b.stream] # None
  BY DEF ConnectionSet, Linked
<1>2. b.stream \in Requests /\ b.trailers \in BOOLEAN /\ b.end \in BOOLEAN
  BY <1>1 DEF BlockSet
<1>3. l \in ConnectionSet /\ l.pending = None /\ l.streams = k.streams /\ l.state = k.state
  BY DEF ConnectionSet
<1>4. HandleContinuation(k, f) = FinishHeaderBlock(l, b.stream, b.trailers, b.end)
  BY DEF HandleContinuation
<1> HIDE DEF l
<1>5. HandlesWell(l, f, p, FinishHeaderBlock(l, b.stream, b.trailers, b.end))
  BY <1>1, <1>2, <1>3, FinishesWell
<1> QED  BY <1>3, <1>4, <1>5
         DEF HandlesWell, Follows, SameStreams, SameStatus, Streams

(* The handler of DATA may reset its stream and give windows back.           *)
LEMMA DataHandled ==
    ASSUME NEW k \in ConnectionSet, NEW f \in FrameSet, f.type = "data", NEW p, Fits(p, f)
    PROVE  HandlesWell(k, f, p, HandleData(k, f))
<1> DEFINE r == f.stream
           s == k.streams[r]
           short == [k EXCEPT !.recv = @ - f.units]
           taken == [k EXCEPT !.recv = @ - f.units, !.streams[r].recv = @ - f.units]
           stored == [s EXCEPT !.body = @ + f.units, !.recv = IF f.end THEN @ - f.units ELSE @]
           updates == IF f.units = 0 THEN <<>>
                      ELSE IF f.end THEN <<WindowUpdate(None, f.units)>>
                      ELSE <<WindowUpdate(None, f.units), WindowUpdate(r, f.units)>>
           kept == [k EXCEPT !.streams[r] = IF f.end THEN MarkRemoteEnd(stored) ELSE stored]
<1>1. f.stream \in Requests /\ f.end \in BOOLEAN /\ f.units \in Nat /\ p.streams[f.stream] # None
  BY DEF FrameSet, Fits, GoAway, Eof
<1>2. CASE s = None
  BY <1>2, FailsWell DEF HandleData, Fatal
<1>3. CASE s # None /\ (s.endReceived \/ ~s.status)
  BY <1>1, <1>3, FailsWell DEF HandleData, Told
<1>4. ASSUME s # None, ~(s.endReceived \/ ~s.status)
      PROVE  HandlesWell(k, f, p, HandleData(k, f))
  <2>1. HandleData(k, f) = IF k.recv < f.units THEN Fails(short, ProtocolError)
                           ELSE IF s.recv < f.units \/ s.body + f.units > MaxBodySize
                           THEN Fails(taken, StreamError(r))
                           ELSE Step(kept, Ok, updates)
    BY <1>4 DEF HandleData
  <2>2. s \in StreamSet /\ r \in Streams(k)
    BY <1>1, <1>4 DEF ConnectionSet, Streams
  <2>3. HandlesWell(k, f, p, Fails(short, ProtocolError))
    <3>1. /\ short \in ConnectionSet /\ short.streams = k.streams /\ short.state = k.state
          /\ short.pending = k.pending
      BY <1>1 DEF ConnectionSet
    <3> HIDE DEF short
    <3>2. Follows(k, short) /\ SameStreams(k, short) /\ SameStatus(k, short)
      BY <3>1 DEF Follows, SameStreams, SameStatus, Streams
    <3> QED  BY <3>1, <3>2, FailsAfter DEF Fatal
  <2>4. HandlesWell(k, f, p, Fails(taken, StreamError(r)))
    <3>0. short \in ConnectionSet /\ short.streams = k.streams /\ short.state = k.state /\ short.pending = k.pending
      BY <1>1 DEF ConnectionSet
    <3> DEFINE q == [s EXCEPT !.recv = @ - f.units]
    <3>1. q \in StreamSet /\ (Active(q) => Active(s))
      BY <1>1, <1>4, <2>2 DEF StreamSet, Active
    <3>2. /\ taken = [short EXCEPT !.streams[r] = q] /\ taken.pending = short.pending
          /\ taken.state = short.state
      BY <1>1, <2>2 DEF ConnectionSet
    <3> HIDE DEF taken, short, q
    <3>3. Follows(short, taken) /\ SameStreams(short, taken)
      BY <2>2, <3>0, <3>1, <3>2, StreamEdit DEF Streams
    <3>4. /\ Follows(k, taken) /\ SameStreams(k, taken) /\ taken.pending = k.pending
          /\ taken.state = k.state
      BY <3>0, <3>2, <3>3 DEF Follows, SameStreams, Streams
    <3>5. Told(p, StreamError(r)) /\ StreamError(r) \notin Fatal
      BY <1>1, ErrorsDiffer DEF Told
    <3> QED  BY <3>4, <3>5, FailsAfter
  <2>5. HandlesWell(k, f, p, Step(kept, Ok, updates))
    <3> DEFINE q == IF f.end THEN MarkRemoteEnd(stored) ELSE stored
    <3>1. stored \in StreamSet /\ (Active(stored) => Active(s))
      <4>1. s.body + f.units \in Nat /\ s.recv - f.units \in Int /\ s.recv \in Int
        BY <1>1, <2>2 DEF StreamSet
      <4>2. PICK n \in Int : n = IF f.end THEN s.recv - f.units ELSE s.recv
        BY <4>1
      <4>3. stored = [s EXCEPT !.body = s.body + f.units, !.recv = n]
        BY <2>2, <4>2 DEF StreamSet
      <4>4. [s EXCEPT !.body = s.body + f.units, !.recv = n] \in StreamSet
        BY <2>2, <4>1 DEF StreamSet
      <4>5. [s EXCEPT !.body = s.body + f.units, !.recv = n].state = s.state
        BY <2>2 DEF StreamSet
      <4> QED  BY <1>4, <4>3, <4>4, <4>5 DEF Active
    <3>2. q \in StreamSet /\ (Active(q) => Active(s))
      BY <3>1, MarkRemote
    <3>3. kept = [k EXCEPT !.streams[r] = q] /\ kept.pending = k.pending /\ kept.state = k.state
      BY DEF ConnectionSet
    <3> HIDE DEF q, kept
    <3>4. Follows(k, kept) /\ SameStreams(k, kept)
      BY <2>2, <3>2, <3>3, StreamEdit
    <3>5. Answers(p, updates)
      <4>1. Written(p, WindowUpdate(None, f.units)) /\ Written(p, WindowUpdate(r, f.units))
        BY <1>1 DEF Written
      <4>3. \A x, y : <<x>>[1] = x /\ <<x, y>>[1] = x /\ <<x, y>>[2] = y
        OBVIOUS
      <4>4. updates \in {<<>>, <<WindowUpdate(None, f.units)>>,
                         <<WindowUpdate(None, f.units), WindowUpdate(r, f.units)>>}
        OBVIOUS
      <4> HIDE DEF updates
      <4> QED  BY <4>1, <4>3, <4>4 DEF Answers
    <3> HIDE DEF updates
    <3> QED  BY <3>3, <3>4, <3>5, DoneWell
  <2> HIDE DEF short, taken, kept, updates
  <2> QED  BY <2>1, <2>3, <2>4, <2>5
<1> QED  BY <1>2, <1>3, <1>4

(* The handler of RST_STREAM fails its stream only.                          *)
LEMMA RstStreamHandled ==
    ASSUME NEW k \in ConnectionSet, NEW f \in FrameSet, f.type = "rst_stream", NEW p, Fits(p, f)
    PROVE  HandlesWell(k, f, p, HandleRstStream(k, f))
<1> DEFINE r == f.stream
           s == k.streams[r]
           q == [s EXCEPT !.state = "closed"]
           l == [k EXCEPT !.streams[r].state = "closed"]
<1>1. r \in Requests /\ p.streams[r] # None
  BY DEF FrameSet, Fits, GoAway, Eof
<1>2. CASE s = None
  BY <1>2, FailsWell DEF HandleRstStream, Fatal
<1>3. CASE s # None /\ s.state = "closed"
  <2>1. HandleRstStream(k, f) = Step(k, Ok, <<>>)
    BY <1>3 DEF HandleRstStream, Done
  <2>2. Answers(p, <<>>)
    BY DEF Answers
  <2> QED  BY <2>1, <2>2, NothingDone, DoneWell
<1>4. CASE s # None /\ s.state # "closed"
  <2>1. HandleRstStream(k, f) = Fails(l, StreamReset(r))
    BY <1>4 DEF HandleRstStream
  <2>2. s \in StreamSet /\ r \in Streams(k)
    BY <1>1, <1>4 DEF ConnectionSet, Streams
  <2>3. q \in StreamSet /\ (Active(q) => Active(s))
    BY <1>4, <2>2 DEF StreamSet, Active
  <2>4. l = [k EXCEPT !.streams[r] = q] /\ l.pending = k.pending /\ l.state = k.state
    BY DEF ConnectionSet
  <2> HIDE DEF q, l
  <2>5. Follows(k, l) /\ SameStreams(k, l)
    BY <2>2, <2>3, <2>4, StreamEdit
  <2>6. Told(p, StreamReset(r)) /\ StreamReset(r) \notin Fatal
    BY <1>1, ErrorsDiffer DEF Told
  <2> QED  BY <2>1, <2>4, <2>5, <2>6, FailsAfter
<1> QED  BY <1>2, <1>3, <1>4

(* The handler of WINDOW_UPDATE changes windows, or finds one overflowing.   *)
LEMMA WindowUpdateHandled ==
    ASSUME NEW k \in ConnectionSet, NEW f \in FrameSet, f.type = "window_update", NEW p, Fits(p, f)
    PROVE  HandlesWell(k, f, p, HandleWindowUpdate(k, f))
<1> DEFINE r == f.stream
           s == k.streams[r]
           q == [s EXCEPT !.send = @ + f.units]
           all == [k EXCEPT !.send = @ + f.units]
           l == [k EXCEPT !.streams[r].send = @ + f.units]
<1>1. r \in Requests \cup {None} /\ f.units \in Int
  BY DEF FrameSet, GoAway, Eof
<1>2. Answers(p, <<>>)
  BY DEF Answers
<1>3. CASE r = None
  <2>1. HandleWindowUpdate(k, f) = Step(all, Ok, <<>>)
    BY <1>3 DEF HandleWindowUpdate, Done
  <2>2. /\ all \in ConnectionSet /\ all.streams = k.streams /\ all.state = k.state
        /\ all.pending = k.pending
    BY <1>1 DEF ConnectionSet
  <2> HIDE DEF all
  <2>3. Follows(k, all) /\ SameStreams(k, all)
    BY <2>2 DEF Follows, SameStreams, Streams
  <2> QED  BY <1>2, <2>1, <2>2, <2>3, DoneWell
<1>4. CASE r # None /\ s = None
  BY <1>4, FailsWell DEF HandleWindowUpdate, Fatal
<1>5. CASE r # None /\ s # None /\ ~Active(s)
  <2>1. HandleWindowUpdate(k, f) = Step(k, Ok, <<>>)
    BY <1>5 DEF HandleWindowUpdate, Done
  <2> QED  BY <1>2, <2>1, NothingDone, DoneWell
<1>6. CASE r # None /\ s # None /\ Active(s)
  <2>1. HandleWindowUpdate(k, f) = Step(l, Ok, <<>>)
    BY <1>6 DEF HandleWindowUpdate, Done
  <2>2. s \in StreamSet /\ r \in Streams(k)
    BY <1>1, <1>6 DEF ConnectionSet, Streams
  <2>3. q \in StreamSet
    BY <1>1, <2>2 DEF StreamSet
  <2>4. l = [k EXCEPT !.streams[r] = q] /\ l.pending = k.pending /\ l.state = k.state
    BY DEF ConnectionSet
  <2> HIDE DEF q, l
  <2>5. Follows(k, l) /\ SameStreams(k, l)
    BY <1>6, <2>2, <2>3, <2>4, StreamEdit
  <2> QED  BY <1>2, <2>1, <2>4, <2>5, DoneWell
<1> QED  BY <1>3, <1>4, <1>5, <1>6

(* apply_peer_settings changes the windows of every stream and               *)
(* acknowledges.                                                             *)
LEMMA SettingsHandled ==
    ASSUME NEW k \in ConnectionSet, NEW f \in FrameSet, f.type = "settings", NEW p, Fits(p, f)
    PROVE  HandlesWell(k, f, p, ApplyPeerSettings(k, f))
<1> DEFINE moved(r) == IF Active(k.streams[r])
                       THEN [k.streams[r] EXCEPT !.send = @ + f.window - k.initial]
                       ELSE k.streams[r]
           l == [k EXCEPT !.initial = f.window, !.streams = [r \in Requests |-> moved(r)]]
<1>1. f.window \in Int /\ p.settings \in Int
  BY DEF FrameSet, Fits, GoAway, Eof
<1>2. ApplyPeerSettings(k, f) = Step(l, Ok, <<SettingsAck>>)
  BY DEF ApplyPeerSettings
<1>3. ASSUME NEW r \in Requests
      PROVE  /\ moved(r) \in StreamSet \cup {None} /\ (moved(r) = None <=> k.streams[r] = None)
             /\ Active(moved(r)) => Active(k.streams[r])
  <2>1. CASE Active(k.streams[r])
    <3>1. k.streams[r] \in StreamSet /\ k.initial \in Int
      BY <2>1 DEF ConnectionSet, Active
    <3>2. k.streams[r].send + f.window - k.initial \in Int
      BY <1>1, <3>1 DEF StreamSet
    <3>3. moved(r) \in StreamSet
      BY <2>1, <3>1, <3>2 DEF StreamSet
    <3> QED  BY <2>1, <3>1, <3>3, NoneAssumption
  <2>2. CASE ~Active(k.streams[r])
    BY <2>2 DEF ConnectionSet
  <2> QED  BY <2>1, <2>2
<1> HIDE DEF moved
<1>4. /\ l \in ConnectionSet /\ l.state = k.state /\ l.pending = k.pending
      /\ \A r \in Requests : l.streams[r] = moved(r)
  BY <1>1, <1>3 DEF ConnectionSet
<1> HIDE DEF l
<1>5. Follows(k, l) /\ SameStreams(k, l)
  BY <1>3, <1>4 DEF Follows, SameStreams, Streams
<1>6. Answers(p, <<SettingsAck>>)
  BY <1>1 DEF Answers, Written
<1> QED  BY <1>2, <1>4, <1>5, <1>6, DoneWell

(* handle_frame: whatever the frame, no stream comes or goes or turns        *)
(* active.                                                                   *)
LEMMA FrameHandled ==
    ASSUME NEW k \in ConnectionSet, NEW f \in FrameSet, NEW p, Fits(p, f), Linked(k, p),
           f.type # "eof"
    PROVE  HandlesWell(k, f, p, HandleFrame(k, f))
<1>1. f.type \in {"headers", "continuation", "data", "rst_stream", "window_update", "settings", "goaway"}
  BY DEF FrameSet, GoAway, Eof
<1>2. CASE (k.pending # None) # (f.type = "continuation")
  BY <1>2, FailsWell DEF HandleFrame, Fatal
<1>3. CASE k.pending # None /\ f.type = "continuation"
  BY <1>3, ContinuationHandled DEF HandleFrame
<1>4. ASSUME k.pending = None, f.type # "continuation"
      PROVE  HandlesWell(k, f, p, HandleFrame(k, f))
  <2>1. CASE f.type = "headers"
    BY <1>4, <2>1, HeadersHandled DEF HandleFrame
  <2>2. CASE f.type = "data"
    BY <1>4, <2>2, DataHandled DEF HandleFrame
  <2>3. CASE f.type = "rst_stream"
    BY <1>4, <2>3, RstStreamHandled DEF HandleFrame
  <2>4. CASE f.type = "window_update"
    BY <1>4, <2>4, WindowUpdateHandled DEF HandleFrame
  <2>5. CASE f.type = "settings"
    BY <1>4, <2>5, SettingsHandled DEF HandleFrame
  <2>6. CASE f.type = "goaway"
    <3> DEFINE l == [k EXCEPT !.goaway = TRUE, !.state = "closed"]
    <3>1. HandleFrame(k, f) = Fails(l, GoAwayError)
      BY <1>4, <2>6 DEF HandleFrame
    <3>2. /\ l \in ConnectionSet /\ l.streams = k.streams /\ l.state = "closed" /\ l.pending = k.pending
      BY DEF ConnectionSet
    <3> HIDE DEF l
    <3>3. Follows(k, l) /\ SameStreams(k, l) /\ SameStatus(k, l)
      BY <3>2 DEF Follows, SameStreams, SameStatus, Streams
    <3> QED  BY <3>1, <3>2, <3>3, FailsAfter DEF Fatal
  <2> QED  BY <1>1, <1>4, <2>1, <2>2, <2>3, <2>4, <2>5, <2>6
<1> QED  BY <1>2, <1>3, <1>4

\* What a step amounts to once its error has been reported.
Reports(k, f, p, step) ==
    /\ Follows(k, step.conn) /\ SameStreams(k, step.conn)
    /\ \/ step.conn.pending \in {None, k.pending}
       \/ step.conn.pending.stream = f.stream /\ f.type = "headers"
    /\ step.error \in Fatal \cup {Ok, Panic} \/ Told(p, step.error)
    /\ step.error \in Fatal => step.conn.state = "closed" /\ SameStatus(k, step.conn)
    /\ step.error \notin Fatal => step.conn.state = k.state
    /\ Answers(p, step.out)

(* A connection that is closed keeps its streams.                            *)
LEMMA Closing ==
    ASSUME NEW k \in ConnectionSet, NEW l, Follows(k, l), SameStreams(k, l)
    PROVE  LET m == [l EXCEPT !.state = "closed"]
           IN  /\ Follows(k, m) /\ SameStreams(k, m) /\ m.state = "closed" /\ m.pending = l.pending
               /\ SameStatus(k, l) => SameStatus(k, m)
<1> DEFINE m == [l EXCEPT !.state = "closed"]
<1>1. /\ m \in ConnectionSet /\ m.streams = l.streams /\ m.state = "closed" /\ m.pending = l.pending
  BY DEF Follows, ConnectionSet
<1> HIDE DEF m
<1>2. Follows(k, m) /\ SameStreams(k, m) /\ (SameStatus(k, l) => SameStatus(k, m))
  BY <1>1 DEF Follows, SameStreams, SameStatus, Streams
<1> QED  BY <1>1, <1>2 DEF m

(* The connection is closed by the errors that are not of a stream, and      *)
(* then keeps what it knew of every answer.                                  *)
LEMMA ErrorReported ==
    ASSUME NEW k \in ConnectionSet, NEW f, NEW p, NEW step, HandlesWell(k, f, p, step)
    PROVE  Reports(k, f, p, ReportError(step))
<1> DEFINE l == step.conn
           e == step.error
           m == [l EXCEPT !.state = "closed"]
<1>1. /\ Follows(k, l) /\ SameStreams(k, l) /\ l \in ConnectionSet
      /\ l.pending \in {None, k.pending} \/ (l.pending.stream = f.stream /\ f.type = "headers")
      /\ e \in Fatal \cup {Ok, Panic} \/ Told(p, e)
      /\ e \in Fatal => SameStatus(k, l)
      /\ e \notin Fatal => l.state = k.state
      /\ Answers(p, step.out)
  BY DEF HandlesWell, Follows
<1>2. CASE e \in {Ok, Panic}
  <2>1. e.scope \in {"none", "panic"} /\ e \notin Fatal
    BY <1>2, ErrorsDiffer DEF Ok, Panic
  <2>2. ReportError(step) = step
    BY <2>1 DEF ReportError
  <2> QED  BY <1>1, <2>1, <2>2 DEF Reports
<1>3. CASE e \in Fatal
  <2>1. e.scope \in {"connection", "goaway", "io"}
    BY <1>3 DEF Fatal, ProtocolError, GoAwayError, IoError
  <2>2. /\ Follows(k, m) /\ SameStreams(k, m) /\ m.state = "closed" /\ m.pending = l.pending
        /\ SameStatus(k, m)
    BY <1>1, <1>3, Closing
  <2>3. PICK out : out \in {<<>>, <<GoAway>>} /\ ReportError(step) = Step(m, e, out)
    BY <2>1 DEF ReportError, Fails
  <2> HIDE DEF m
  <2>4. Answers(p, out)
    BY <2>3 DEF Answers, Written
  <2>5. /\ Step(m, e, out).conn = m /\ Step(m, e, out).error = e /\ Step(m, e, out).out = out
    BY DEF Step
  <2> QED  BY <1>1, <1>3, <2>2, <2>3, <2>4, <2>5, ErrorsDiffer DEF Reports
<1>4. ASSUME NEW r \in Requests, p.streams[r] # None, e = StreamReset(r)
      PROVE  Reports(k, f, p, ReportError(step))
  <2>1. e.scope = "reset" /\ e \notin Fatal
    BY <1>4, ErrorsDiffer DEF StreamReset
  <2>2. ReportError(step) = step
    BY <2>1 DEF ReportError
  <2> QED  BY <1>1, <2>1, <2>2 DEF Reports
<1>5. ASSUME NEW r \in Requests, p.streams[r] # None, e = StreamError(r)
      PROVE  Reports(k, f, p, ReportError(step))
  <2> DEFINE s == IF l.streams[r] = None THEN None ELSE [l.streams[r] EXCEPT !.state = "closed"]
             n == [l EXCEPT !.streams[r] = s]
  <2>1. e.scope = "stream" /\ e.of = r /\ e \notin Fatal /\ Told(p, e)
    BY <1>5, ErrorsDiffer DEF StreamError, Told
  <2>2. ReportError(step) = Step(n, e, <<RstStream(r)>>)
    BY <2>1 DEF ReportError
  <2>3. n.pending = l.pending /\ n.state = l.state /\ Follows(l, n) /\ SameStreams(l, n)
    <3>1. CASE l.streams[r] = None
      <4>1. n = l
        BY <1>1, <3>1 DEF ConnectionSet
      <4> QED  BY <1>1, <4>1, NothingDone
    <3>2. CASE l.streams[r] # None
      <4>1. r \in Streams(l) /\ l.streams[r] \in StreamSet
        BY <1>1, <3>2 DEF Streams, ConnectionSet
      <4>2. s \in StreamSet /\ ~Active(s)
        BY <3>2, <4>1 DEF StreamSet, Active
      <4>3. n.pending = l.pending /\ n.state = l.state
        BY <1>1 DEF ConnectionSet
      <4> HIDE DEF s
      <4> QED  BY <1>1, <4>1, <4>2, <4>3, StreamEdit
    <3> QED  BY <3>1, <3>2
  <2> HIDE DEF n
  <2>4. Follows(k, n) /\ SameStreams(k, n)
    BY <1>1, <2>3 DEF Follows, SameStreams
  <2>5. Answers(p, <<RstStream(r)>>)
    BY <1>5 DEF Answers, Written
  <2>6. /\ Step(n, e, <<RstStream(r)>>).conn = n /\ Step(n, e, <<RstStream(r)>>).error = e
        /\ Step(n, e, <<RstStream(r)>>).out = <<RstStream(r)>>
    BY DEF Step
  <2> QED  BY <1>1, <2>1, <2>2, <2>3, <2>4, <2>5, <2>6 DEF Reports
<1> QED  BY <1>1, <1>2, <1>3, <1>4, <1>5 DEF Told

(* pump_one_frame reports as the polling loop does.                          *)
LEMMA PumpReports ==
    ASSUME NEW k \in ConnectionSet, NEW f \in FrameSet, NEW p, Fits(p, f), Linked(k, p)
    PROVE  Reports(k, f, p, PumpOneFrame(k, f))
<1>1. HandlesWell(k, f, p, ReadFrame(k, f))
  <2>1. CASE f.type # "eof"
    BY <2>1, FrameHandled DEF ReadFrame
  <2>2. CASE f.type = "eof"
    <3> DEFINE l == [k EXCEPT !.state = "closed"]
    <3>1. ReadFrame(k, f) = Fails(l, IoError)
      BY <2>2 DEF ReadFrame
    <3>2. Follows(k, l) /\ SameStreams(k, l) /\ l.pending = k.pending /\ SameStatus(k, l)
      BY NothingDone, Closing
    <3> HIDE DEF l
    <3> QED  BY <3>1, <3>2, FailsAfter DEF Fatal
  <2> QED  BY <2>1, <2>2
<1> QED  BY <1>1, ErrorReported DEF PumpOneFrame

(* The errors that poll_frame reports are those of the connection.           *)
LEMMA PollReports ==
    ASSUME NEW k \in ConnectionSet, NEW f \in FrameSet, NEW p, Fits(p, f), Linked(k, p)
    PROVE  /\ Reports(k, f, p, PollFrame(k, f))
           /\ PollFrame(k, f).error \in Fatal \cup {Ok, Panic}
<1> DEFINE step == ReportError(ReadFrame(k, f))
           l == [step.conn EXCEPT !.errors = @ \cup {step.error.of}]
<1>1. Reports(k, f, p, step)
  BY PumpReports DEF PumpOneFrame
<1>2. /\ Follows(k, step.conn) /\ SameStreams(k, step.conn) /\ step.conn \in ConnectionSet
      /\ step.error \in Fatal \cup {Ok, Panic} \/ Told(p, step.error)
      /\ Answers(p, step.out)
  BY <1>1 DEF Reports, Follows
<1>3. CASE step.error \in Fatal \cup {Ok, Panic}
  <2>1. ~Streamwise(step.error)
    BY <1>3 DEF Streamwise, Fatal, Ok, Panic, ProtocolError, GoAwayError, IoError
  <2> HIDE DEF step
  <2> QED  BY <1>1, <1>3, <2>1 DEF PollFrame, step
<1>4. CASE Told(p, step.error)
  <2>1. Streamwise(step.error) /\ step.error.of \in Requests /\ step.error \notin Fatal
    BY <1>4, ErrorsDiffer DEF Told, Streamwise, StreamError, StreamReset
  <2>2. PollFrame(k, f) = Step(l, Ok, step.out)
    BY <2>1 DEF PollFrame
  <2> HIDE DEF step
  <2>3. /\ l \in ConnectionSet /\ l.streams = step.conn.streams /\ l.state = step.conn.state
        /\ l.pending = step.conn.pending
    BY <1>2, <2>1 DEF ConnectionSet
  <2> HIDE DEF l
  <2>4. Follows(k, l) /\ SameStreams(k, l)
    BY <1>2, <2>3 DEF Follows, SameStreams, Streams
  <2>5. /\ Step(l, Ok, step.out).conn = l /\ Step(l, Ok, step.out).error = Ok
        /\ Step(l, Ok, step.out).out = step.out
    BY DEF Step
  <2> QED  BY <1>1, <1>2, <2>1, <2>2, <2>3, <2>4, <2>5, ErrorsDiffer DEF Reports
<1> QED  BY <1>2, <1>3, <1>4

------------------------------------------------------------------------------
(* What the client's frames do to the server.                                *)

Known(p) == {r \in Requests : p.streams[r] # None}
Keeps(p, q) ==
    q \in PeerSet /\ Known(q) = Known(p) /\ q.settings = p.settings /\ q.block = p.block

(* The server keeps its streams when one of them changes.                    *)
LEMMA PeerEdit ==
    ASSUME NEW p \in PeerSet, NEW r \in Known(p), NEW s \in PeerStreamSet, NEW q,
           q \in PeerSet, q.streams = [p.streams EXCEPT ![r] = s], q.settings = p.settings,
           q.block = p.block
    PROVE  Keeps(p, q)
BY PeerAssumption DEF Known, Keeps, PeerSet

(* A frame of the client makes the server forget nothing.                    *)
LEMMA GetsWell ==
    ASSUME NEW p \in PeerSet, NEW f, Written(p, f)
    PROVE  Keeps(p, PeerGets(p, f))
<1>1. CASE f = GoAway
  <2>1. PeerGets(p, f) = [p EXCEPT !.gone = "told"]
    BY <1>1 DEF GoAway, PeerGets
  <2> QED  BY <2>1 DEF Keeps, Known, PeerSet
<1>2. CASE f = SettingsAck /\ p.settings \in Int
  <2> DEFINE moved(r) == IF r \in PeerOpen(p)
                         THEN [p.streams[r] EXCEPT !.recv = @ + p.settings - p.initial]
                         ELSE p.streams[r]
             all == [r \in Requests |-> moved(r)]
             q == [p EXCEPT !.initial = p.settings, !.streams = all]
  <2>1. PeerGets(p, f) = q
    BY <1>2 DEF SettingsAck, PeerGets, PeerSet
  <2>2. ASSUME NEW r \in Requests
        PROVE  moved(r) \in PeerStreamSet \cup {None} /\ (moved(r) = None <=> p.streams[r] = None)
    <3>1. CASE r \in PeerOpen(p)
      <4>1. p.streams[r] \in PeerStreamSet /\ p.initial \in Int
        BY <3>1 DEF PeerSet, PeerOpen
      <4>2. p.streams[r].recv + p.settings - p.initial \in Int
        BY <1>2, <4>1 DEF PeerStreamSet
      <4>3. moved(r) \in PeerStreamSet
        BY <3>1, <4>1, <4>2 DEF PeerStreamSet
      <4> QED  BY <4>1, <4>3, PeerAssumption
    <3>2. CASE r \notin PeerOpen(p)
      BY <3>2 DEF PeerSet
    <3> QED  BY <3>1, <3>2
  <2> HIDE DEF moved
  <2>3. all \in [Requests -> PeerStreamSet \cup {None}] /\ (\A r \in Requests : all[r] = moved(r))
    BY <2>2
  <2> HIDE DEF all
  <2>4. /\ q \in PeerSet /\ q.streams = all /\ q.settings = p.settings /\ q.block = p.block
    BY <1>2, <2>3 DEF PeerSet
  <2> HIDE DEF q
  <2> QED  BY <2>1, <2>2, <2>3, <2>4 DEF Keeps, Known
<1>3. ASSUME NEW r \in Requests, f = RstStream(r), p.streams[r] # None
      PROVE  Keeps(p, PeerGets(p, f))
  <2> DEFINE s == [p.streams[r] EXCEPT !.state = "closed"]
             q == [p EXCEPT !.streams[r].state = "closed"]
  <2>1. PeerGets(p, f) = q
    BY <1>3 DEF RstStream, PeerGets
  <2>2. p.streams[r] \in PeerStreamSet /\ r \in Known(p)
    BY <1>3 DEF PeerSet, Known
  <2>3. s \in PeerStreamSet
    BY <2>2 DEF PeerStreamSet
  <2>4. /\ q \in PeerSet /\ q.streams = [p.streams EXCEPT ![r] = s] /\ q.settings = p.settings
        /\ q.block = p.block
    BY <2>3 DEF PeerSet
  <2> HIDE DEF q, s
  <2> QED  BY <2>1, <2>2, <2>3, <2>4, PeerEdit
<1>4. ASSUME NEW r \in Requests, NEW n \in Int, NEW end \in BOOLEAN,
             f = Data(r, n, end), p.streams[r] # None
      PROVE  Keeps(p, PeerGets(p, f))
  <2> DEFINE s == [p.streams[r] EXCEPT !.recv = p.streams[r].recv - n, !.endIn = end]
             q == [p EXCEPT !.recv = @ - n, !.streams[r] = s]
  <2>1. PeerGets(p, f) = q
    BY <1>4 DEF Data, PeerGets
  <2>2. p.streams[r] \in PeerStreamSet /\ r \in Known(p)
    BY <1>4 DEF PeerSet, Known
  <2>3. s \in PeerStreamSet
    <3>1. \A t \in PeerStreamSet, x \in Int : [t EXCEPT !.recv = x, !.endIn = TRUE] \in PeerStreamSet
      BY DEF PeerStreamSet
    <3>2. \A t \in PeerStreamSet, x \in Int : [t EXCEPT !.recv = x, !.endIn = FALSE] \in PeerStreamSet
      BY DEF PeerStreamSet
    <3>3. p.streams[r].recv - n \in Int
      BY <2>2 DEF PeerStreamSet
    <3>4. CASE end = TRUE
      BY <2>2, <3>1, <3>3, <3>4
    <3>5. CASE end = FALSE
      BY <2>2, <3>2, <3>3, <3>5
    <3> QED  BY <3>4, <3>5
  <2> HIDE DEF s
  <2>4. p.recv - n \in Int
    BY DEF PeerSet
  <2>5. q = [p EXCEPT !.recv = p.recv - n, !.streams = [p.streams EXCEPT ![r] = s]]
    OBVIOUS
  <2>6. [p.streams EXCEPT ![r] = s] \in [Requests -> PeerStreamSet \cup {None}]
    BY <2>3 DEF PeerSet
  <2>7. /\ q \in PeerSet /\ q.streams = [p.streams EXCEPT ![r] = s] /\ q.settings = p.settings
        /\ q.block = p.block
    BY <2>4, <2>5, <2>6 DEF PeerSet
  <2> HIDE DEF q
  <2> QED  BY <2>1, <2>2, <2>3, <2>7, PeerEdit
<1>5. ASSUME NEW n \in Int, f = WindowUpdate(None, n)
      PROVE  Keeps(p, PeerGets(p, f))
  <2>1. PeerGets(p, f) = [p EXCEPT !.send = @ + n]
    BY <1>5 DEF WindowUpdate, PeerGets
  <2> QED  BY <2>1 DEF Keeps, Known, PeerSet
<1>6. ASSUME NEW r \in Requests, NEW n \in Int, f = WindowUpdate(r, n), p.streams[r] # None
      PROVE  Keeps(p, PeerGets(p, f))
  <2> DEFINE s == [p.streams[r] EXCEPT !.send = @ + n]
             q == [p EXCEPT !.streams[r].send = @ + n]
  <2>1. PeerGets(p, f) = q
    BY <1>6, NoneAssumption DEF WindowUpdate, PeerGets
  <2>2. p.streams[r] \in PeerStreamSet /\ r \in Known(p)
    BY <1>6 DEF PeerSet, Known
  <2>3. s \in PeerStreamSet
    BY <2>2 DEF PeerStreamSet
  <2>4. /\ q \in PeerSet /\ q.streams = [p.streams EXCEPT ![r] = s] /\ q.settings = p.settings
        /\ q.block = p.block
    BY <2>3 DEF PeerSet
  <2> HIDE DEF q, s
  <2> QED  BY <2>1, <2>2, <2>3, <2>4, PeerEdit
<1> QED  BY <1>1, <1>2, <1>3, <1>4, <1>5, <1>6 DEF Written

(* Nor do the frames of a whole step.                                        *)
LEMMA ReadsWell ==
    ASSUME NEW p \in PeerSet, NEW out, Answers(p, out)
    PROVE  Keeps(p, PeerReads(p, out))
<1>1. CASE out = <<>>
  <2>1. PeerReads(p, out) = p
    BY <1>1 DEF PeerReads
  <2> QED  BY <2>1 DEF Keeps
<1>2. ASSUME NEW f, out = <<f>>, Written(p, f)
      PROVE  Keeps(p, PeerReads(p, out))
  <2>1. out[1] = f /\ Len(out) = 1 /\ out # <<>>
    BY <1>2
  <2>2. PeerReads(p, out) = PeerGets(p, f)
    BY <2>1 DEF PeerReads
  <2> QED  BY <1>2, <2>2, GetsWell
<1>3. ASSUME NEW f, NEW g, out = <<f, g>>, Written(p, f), Written(p, g)
      PROVE  Keeps(p, PeerReads(p, out))
  <2> DEFINE q == PeerGets(p, f)
  <2>1. out[1] = f /\ out[2] = g /\ Len(out) = 2 /\ out # <<>>
    BY <1>3
  <2>2. PeerReads(p, out) = PeerGets(q, g)
    BY <2>1 DEF PeerReads
  <2>3. Keeps(p, q)
    BY <1>3, GetsWell
  <2> HIDE DEF q
  <2>4. Written(q, g)
    BY <1>3, <2>3 DEF Keeps, Known, Written
  <2>5. Keeps(q, PeerGets(q, g))
    BY <2>3, <2>4, GetsWell DEF Keeps
  <2> QED  BY <2>2, <2>3, <2>5 DEF Keeps
<1> QED  BY <1>1, <1>2, <1>3 DEF Answers

------------------------------------------------------------------------------
(* What a thread's step leaves to the others.                                *)

Undisturbed(r, c) ==
    /\ conn'[c] # None <=> conn[c] # None
    /\ upload'[c] = upload[c] \/ {upload[c], upload'[c]} \subseteq {r, None}
    /\ conn[c] # None =>
        /\ conn[c].state = "closed" =>
               /\ conn'[c].state = "closed"
               /\ \A q \in Requests : conn'[c].streams[q] \in {None, conn[c].streams[q]}
        /\ upload[c] \notin {r, None} => conn'[c] = conn[c]
        /\ conn'[c].state = "open" => conn[c].state = "open"
        /\ \A q \in Requests \ {r} :
            /\ conn'[c].streams[q] # None <=> conn[c].streams[q] # None
            /\ Active(conn'[c].streams[q]) => Active(conn[c].streams[q])
    /\ \A q \in Requests \ {r} : peer'[c].streams[q] # None <=> peer[c].streams[q] # None
Others(r) == \A q \in Requests \ {r} : req'[q] = req[q] /\ (creator' = q <=> creator = q)
Uploads(r) == \A c \in Conns : upload[c] = r =>
    conn[c] # None /\ conn[c].state = "open" /\ At(r, "body") /\ req[r].conn = c

(* Streams are only opened on connections.                                   *)
LEMMA SentOpened ==
    ASSUME LinksOk, NEW r \in Requests
    PROVE  Sent(r) \subseteq Opened
BY DEF LinksOk, Sent, Opened

(* What a thread had sent on a dead connection stays unanswered.             *)
LEMMA RetiredStays ==
    ASSUME NEW r \in Requests, NEW q \in Requests, NEW c \in Opened, Undisturbed(r, c)
    PROVE  /\ Unanswered(q, c) => Unanswered(q, c)'
           /\ Retired(q, c) /\ req'[q].attempt = 1 => Retired(q, c)'
BY DEF Undisturbed, Opened, Unanswered, Retired

(* The clauses about what a thread has sent, after a step of its own that    *)
(* opens no stream.                                                          *)
LEMMA OwnSent ==
    ASSUME NEW r \in Requests, LinksOk, SentOk(r), \A c \in Conns : Undisturbed(r, c),
           Sent(r)' = Sent(r), req[r].attempt = 1 => req'[r].attempt = 1,
           \A c \in Sent(r) : Present(r, c) => Present(r, c)' \/ Retired(r, c)',
           req'[r].pc \in {"check", "drop", "send"} => \A c \in Sent(r) : c <= req'[r].conn,
           req'[r].pc = "evict" /\ req'[r].retry /\ req'[r].attempt = 0 =>
               \A c \in Sent(r) : Unanswered(r, c)'
    PROVE  SentOk(r)'
<1>1. \A c \in Sent(r) : c \in Opened /\ c \in Conns
  BY SentOpened DEF Opened
<1>2. \A c \in Sent(r) : Retired(r, c) => Retired(r, c)'
  BY <1>1, RetiredStays DEF Retired
<1>3. \A c \in Sent(r) : Present(r, c) \/ Retired(r, c)
  BY DEF SentOk
<1>4. \A c, d \in Sent(r) : Retired(r, c)' /\ ~Retired(r, d)' => c < d
  <2> SUFFICES ASSUME NEW c \in Sent(r), NEW d \in Sent(r), Retired(r, c)', ~Retired(r, d)'
               PROVE  c < d
    OBVIOUS
  <2>1. CASE Retired(r, c)
    BY <1>2, <2>1 DEF SentOk
  <2>2. CASE ~Retired(r, c)
    <3>1. Present(r, c) /\ Present(r, d)
      BY <1>2, <1>3, <2>2
    <3>2. c = d
      BY <3>1 DEF Present
    <3> QED  BY <3>2
  <2> QED  BY <2>1, <2>2
<1> QED  BY <1>2, <1>3, <1>4 DEF SentOk, At

(* A step of r that keeps its own part of the invariant and leaves the       *)
(* others what Undisturbed says keeps all of it.                             *)
LEMMA QuietStep ==
    ASSUME H2Inv, NEW r \in Requests, pool' \in {pool, None}, Others(r),
           \A c \in Conns : Undisturbed(r, c),
           H2Types', LinksOk', PlaceOk(r)', SentOk(r)', Attended(r)', Uploads(r)'
    PROVE  H2Inv'
<1>1. Opened' = Opened
  BY DEF Opened, Undisturbed
<1>2. PoolOk'
  BY <1>1 DEF H2Inv, PoolOk
<1>3. UploadOk'
  <2> SUFFICES ASSUME NEW c \in Conns, upload'[c] # None
               PROVE  /\ conn'[c] # None /\ conn'[c].state = "open"
                      /\ req'[upload'[c]].pc = "body" /\ req'[upload'[c]].conn = c
    BY DEF UploadOk, At
  <2>1. CASE upload'[c] = r
    BY <2>1 DEF Uploads, At
  <2>2. CASE upload'[c] # r
    <3>1. upload'[c] = upload[c] /\ conn'[c] = conn[c] /\ upload[c] \in Requests \ {r}
      BY <2>2 DEF Undisturbed, H2Inv, UploadOk, H2Types
    <3> QED  BY <3>1 DEF H2Inv, UploadOk, At, Others
  <2> QED  BY <2>1, <2>2
<1>4. ASSUME NEW q \in Requests, q # r
      PROVE  PlaceOk(q)' /\ SentOk(q)' /\ Attended(q)'
  <2>1. req'[q] = req[q] /\ (creator' = q <=> creator = q) /\ PlaceOk(q) /\ SentOk(q) /\ Attended(q)
    BY <1>4 DEF Others, H2Inv
  <2>2. PlaceOk(q)'
    <3> DEFINE c == req[q].conn
    <3>1. req[q].pc \in Holding => c \in Opened
      BY <2>1 DEF PlaceOk
    <3>2. req[q].pc \in {"drop", "evict"} => conn'[c].state = "closed"
      BY <2>1, <3>1 DEF PlaceOk, Undisturbed, Opened, Holding
    <3>3. At(q, "body") => upload'[c] = q
      <4> SUFFICES ASSUME At(q, "body") PROVE upload'[c] = q
        OBVIOUS
      <4>1. upload[c] = q /\ c \in Conns
        BY <2>1, <3>1 DEF PlaceOk, Opened, At, Holding
      <4>2. q # None
        BY NoneAssumption
      <4> QED  BY <1>4, <4>1, <4>2 DEF Undisturbed
    <3>4. req[q].pc \in {"body", "poll"} => conn'[c].streams[q] # None
      BY <1>4, <2>1, <3>1 DEF PlaceOk, Undisturbed, Opened, Holding
    <3> QED  BY <1>1, <2>1, <3>2, <3>3, <3>4 DEF PlaceOk, At
  <2>3. SentOk(q)'
    <3>1. Sent(q)' = Sent(q)
      BY <1>4 DEF Sent, Undisturbed
    <3>2. \A c \in Sent(q) : c \in Opened /\ c \in Conns
      BY SentOpened DEF H2Inv, Opened
    <3>3. \A c \in Sent(q) : /\ Retired(q, c) => Retired(q, c)'
                             /\ Unanswered(q, c) => Unanswered(q, c)'
      BY <2>1, <3>2, RetiredStays DEF Retired
    <3>4. \A c : Present(q, c)' <=> Present(q, c)
      BY <2>1 DEF Present
    <3>5. \A c, d \in Sent(q) : Retired(q, c)' /\ ~Retired(q, d)' => c < d
      <4> SUFFICES ASSUME NEW c \in Sent(q), NEW d \in Sent(q), Retired(q, c)', ~Retired(q, d)'
                   PROVE  c < d
        OBVIOUS
      <4>1. CASE Retired(q, c)
        BY <2>1, <3>3, <4>1 DEF SentOk
      <4>2. CASE ~Retired(q, c)
        <5>1. Present(q, c) /\ Present(q, d)
          BY <2>1, <3>3, <4>2 DEF SentOk
        <5>2. c = d
          BY <5>1 DEF Present
        <5> QED  BY <5>2
      <4> QED  BY <4>1, <4>2
    <3> QED  BY <2>1, <3>1, <3>3, <3>4, <3>5 DEF SentOk, At
  <2>4. Attended(q)'
    BY <1>4, <2>1 DEF Attended, Undisturbed
  <2> QED  BY <2>2, <2>3, <2>4
<1> QED  BY <1>2, <1>3, <1>4 DEF H2Inv

(* A step of r on one connection, whose mutex it can take or holds.          *)
Changes(k, l, r) ==
    /\ l \in ConnectionSet
    /\ l.state = "open" => k.state = "open"
    /\ \A q \in Requests \ {r} : /\ l.streams[q] # None <=> k.streams[q] # None
                                 /\ Active(l.streams[q]) => Active(k.streams[q])
    /\ k.state = "closed" => \A q \in Requests : l.streams[q] \in {None, k.streams[q]}
PeerChanges(p, q, r) ==
    /\ q \in PeerSet /\ q.settings = p.settings /\ q.block = p.block
    /\ Known(p) \subseteq Known(q) /\ Known(q) \subseteq Known(p) \cup {r}

(* Frames under way still name streams the server has.                       *)
LEMMA StillFits ==
    ASSUME NEW p, NEW q, NEW r, PeerChanges(p, q, r), NEW f \in FrameSet, Fits(p, f)
    PROVE  Fits(q, f)
<1>1. \A s \in Requests : p.streams[s] # None => q.streams[s] # None
  BY DEF PeerChanges, Known
<1>2. f.type \in {"headers", "continuation", "data", "rst_stream"} => f.stream \in Requests
  BY DEF FrameSet, GoAway, Eof
<1>3. f.type = "window_update" => f.stream \in Requests \cup {None}
  BY DEF FrameSet, GoAway, Eof
<1> QED  BY <1>1, <1>2, <1>3 DEF PeerChanges, Fits

ConnectionTypes == /\ conn \in [Conns -> ConnectionSet \cup {None}]
                   /\ inbound \in [Conns -> Seq(FrameSet)]
                   /\ peer \in [Conns -> PeerSet]
                   /\ upload \in [Conns -> Requests \cup {None}]

(* A critical section of one connection leaves the others, and what other    *)
(* threads have there, alone.                                                *)
LEMMA Touching ==
    ASSUME H2Types, LinksOk, NEW r \in Requests, NEW c \in Opened, upload[c] \in {None, r},
           NEW l, NEW q, NEW s \in Seq(FrameSet), NEW u \in {None, r},
           Changes(conn[c], l, r), PeerChanges(peer[c], q, r), l.state = "open" => Linked(l, q),
           Elements(s) \subseteq Elements(inbound[c]),
           conn' = [conn EXCEPT ![c] = l], peer' = [peer EXCEPT ![c] = q],
           inbound' = [inbound EXCEPT ![c] = s], upload' = [upload EXCEPT ![c] = u]
    PROVE  ConnectionTypes' /\ LinksOk' /\ \A d \in Conns : Undisturbed(r, d)
<1>1. /\ c \in Conns /\ conn[c] # None /\ conn[c] \in ConnectionSet /\ peer[c] \in PeerSet
      /\ l \in ConnectionSet /\ l # None
  BY NoneAssumption DEF Opened, H2Types, Changes
<1>2. /\ conn'[c] = l /\ peer'[c] = q /\ inbound'[c] = s /\ upload'[c] = u
      /\ \A d \in Conns \ {c} : /\ conn'[d] = conn[d] /\ peer'[d] = peer[d]
                                /\ inbound'[d] = inbound[d] /\ upload'[d] = upload[d]
  BY <1>1 DEF H2Types
<1>3. ConnectionTypes'
  BY <1>1 DEF ConnectionTypes, H2Types, PeerChanges
<1>4. LinksOk'
  <2>1. \A f \in Elements(s) : Fits(q, f)
    <3> SUFFICES ASSUME NEW f \in Elements(s) PROVE Fits(q, f)
      OBVIOUS
    <3>1. f \in FrameSet
      BY ElementsIn
    <3>2. Fits(peer[c], f)
      BY <1>1 DEF LinksOk
    <3> QED  BY <3>1, <3>2, StillFits
  <2> SUFFICES ASSUME NEW d \in Conns
               PROVE  /\ BlockOk(peer'[d])
                      /\ \A f \in Elements(inbound'[d]) : Fits(peer'[d], f)
                      /\ conn'[d] # None /\ conn'[d].state = "open" => Linked(conn'[d], peer'[d])
                      /\ conn'[d] = None => \A x \in Requests : peer'[d].streams[x] = None
    BY DEF LinksOk
  <2>2. CASE d = c
    <3>1. BlockOk(q)
      <4>1. BlockOk(peer[c]) /\ q.block \in Requests \cup {None}
        BY <1>1 DEF LinksOk, PeerChanges, PeerSet
      <4> QED  BY <4>1 DEF BlockOk, PeerChanges, Known
    <3> QED  BY <1>1, <1>2, <2>1, <2>2, <3>1
  <2>3. CASE d # c
    BY <1>2, <2>3 DEF LinksOk
  <2> QED  BY <2>2, <2>3
<1>5. Undisturbed(r, c)
  <2>1. conn'[c] # None /\ {upload[c], upload'[c]} \subseteq {r, None}
    BY <1>1, <1>2
  <2>2. /\ conn[c].state = "closed" => conn'[c].state = "closed"
        /\ conn'[c].state = "open" => conn[c].state = "open"
    BY <1>1, <1>2 DEF Changes, ConnectionSet
  <2>3. /\ conn[c].state = "closed" =>
               \A x \in Requests : conn'[c].streams[x] \in {None, conn[c].streams[x]}
        /\ \A x \in Requests \ {r} :
            /\ conn'[c].streams[x] # None <=> conn[c].streams[x] # None
            /\ Active(conn'[c].streams[x]) => Active(conn[c].streams[x])
    BY <1>2 DEF Changes
  <2>4. \A x \in Requests \ {r} : peer'[c].streams[x] # None <=> peer[c].streams[x] # None
    BY <1>2 DEF PeerChanges, Known
  <2> QED  BY <1>1, <2>1, <2>2, <2>3, <2>4 DEF Undisturbed
<1>6. ASSUME NEW d \in Conns, d # c
      PROVE  Undisturbed(r, d)
  BY <1>2, <1>6 DEF Undisturbed
<1> QED  BY <1>3, <1>4, <1>5, <1>6

(* A step of r that leaves the connections alone.                            *)
LEMMA LeavingAlone ==
    ASSUME H2Types, LinksOk, NEW r \in Requests, UNCHANGED <<conn, inbound, peer>>,
           \/ UNCHANGED upload
           \/ \E c \in Conns : upload[c] = r /\ upload' = [upload EXCEPT ![c] = None]
    PROVE  ConnectionTypes' /\ LinksOk' /\ \A d \in Conns : Undisturbed(r, d)
<1>1. ConnectionTypes'
  BY DEF ConnectionTypes, H2Types
<1>2. LinksOk'
  BY DEF LinksOk
<1>3. ASSUME NEW d \in Conns
      PROVE  upload'[d] = upload[d] \/ {upload[d], upload'[d]} \subseteq {r, None}
  BY DEF H2Types
<1>4. ASSUME NEW d \in Conns
      PROVE  Undisturbed(r, d)
  BY <1>3 DEF Undisturbed
<1> QED  BY <1>1, <1>2, <1>4

------------------------------------------------------------------------------
(* The steps of the server, and those of no thread.                          *)

(* What depends on the threads, the pool and what has been sent.             *)
LEMMA ServerKeeps ==
    ASSUME H2Inv, UNCHANGED clientVars, LinksOk', H2Types',
           \A c \in Conns : Known(peer'[c]) = Known(peer[c])
    PROVE  H2Inv'
<1>1. PoolOk' /\ UploadOk'
  BY DEF H2Inv, PoolOk, UploadOk, Opened, clientVars, At
<1>2. ASSUME NEW r \in Requests
      PROVE  PlaceOk(r)' /\ SentOk(r)' /\ Attended(r)'
  <2>1. PlaceOk(r)' /\ Attended(r)'
    BY DEF H2Inv, PlaceOk, Attended, Opened, clientVars, At
  <2>2. Sent(r)' = Sent(r)
    BY DEF Sent, Known
  <2>3. \A c : /\ Present(r, c)' <=> Present(r, c)
               /\ Retired(r, c)' <=> Retired(r, c)
               /\ Unanswered(r, c)' <=> Unanswered(r, c)
    BY DEF Present, Retired, Unanswered, clientVars
  <2>4. SentOk(r)'
    BY <2>2, <2>3 DEF H2Inv, SentOk, At, clientVars
  <2> QED  BY <2>1, <2>4
<1> QED  BY <1>1, <1>2 DEF H2Inv

(* A frame the server sends about a stream it has.                           *)
LEMMA ServerSends ==
    ASSUME H2Inv, NEW c \in Conns, NEW p \in PeerSet, NEW f \in FrameSet, PeerSends(c, p, f),
           Known(p) = Known(peer[c]), p.settings \in {peer[c].settings} \cup Int,
           BlockOk(p), Fits(p, f)
    PROVE  H2Inv'
<1>1. H2Types /\ LinksOk /\ UNCHANGED clientVars /\ conn[c] # None
  BY DEF H2Inv, PeerSends
<1>2. /\ peer'[c] = p /\ inbound'[c] = Append(inbound[c], f)
      /\ \A d \in Conns \ {c} : peer'[d] = peer[d] /\ inbound'[d] = inbound[d]
  BY <1>1 DEF PeerSends, H2Types
<1>3. inbound[c] \in Seq(FrameSet)
  BY <1>1 DEF H2Types
<1>4. Elements(Append(inbound[c], f)) = Elements(inbound[c]) \cup {f}
  BY <1>3, PushProperties
<1>5. H2Types'
  BY <1>1, <1>3 DEF PeerSends, H2Types, clientVars
<1>6. \A r \in Requests : p.streams[r] # None <=> peer[c].streams[r] # None
  BY DEF Known
<1>7. \A g \in Elements(Append(inbound[c], f)) : Fits(p, g)
  <2> SUFFICES ASSUME NEW g \in Elements(inbound[c]) PROVE Fits(p, g)
    BY <1>4
  <2>1. Fits(peer[c], g)
    BY <1>1 DEF LinksOk
  <2>2. g \in FrameSet
    BY <1>3, ElementsIn
  <2>3. g.type \in {"headers", "continuation", "data", "rst_stream"} => g.stream \in Requests
    BY <2>2 DEF FrameSet, GoAway, Eof
  <2>4. g.type = "window_update" => g.stream \in Requests \cup {None}
    BY <2>2 DEF FrameSet, GoAway, Eof
  <2> QED  BY <1>6, <2>1, <2>3, <2>4 DEF Fits
<1>8. LinksOk'
  <2> SUFFICES ASSUME NEW d \in Conns
               PROVE  /\ BlockOk(peer'[d])
                      /\ \A g \in Elements(inbound'[d]) : Fits(peer'[d], g)
                      /\ conn[d] # None /\ conn[d].state = "open" => Linked(conn[d], peer'[d])
                      /\ conn[d] = None => \A r \in Requests : peer'[d].streams[r] = None
    BY <1>1 DEF LinksOk, clientVars
  <2>1. CASE d = c
    <3>1. conn[c].state = "open" => Linked(conn[c], p)
      <4> SUFFICES ASSUME conn[c].state = "open" PROVE Linked(conn[c], p)
        OBVIOUS
      <4>1. Linked(conn[c], peer[c]) /\ conn[c] \in ConnectionSet
        BY <1>1 DEF LinksOk, H2Types
      <4>2. conn[c].pending # None => conn[c].pending.stream \in Requests
        BY <4>1 DEF ConnectionSet, BlockSet
      <4> QED  BY <1>6, <4>1, <4>2 DEF Linked
    <3> QED  BY <1>1, <1>2, <1>7, <2>1, <3>1
  <2>2. CASE d # c
    BY <1>1, <1>2, <2>2 DEF LinksOk
  <2> QED  BY <2>1, <2>2
<1>9. \A d \in Conns : Known(peer'[d]) = Known(peer[d])
  BY <1>2
<1> QED  BY <1>1, <1>5, <1>8, <1>9, ServerKeeps

(* Another origin's entry takes the pool's place.                            *)
LEMMA RoomMade ==
    ASSUME H2Inv, MakeRoom
    PROVE  H2Inv'
<1> USE DEF MakeRoom, Network
<1>1. H2Types' /\ LinksOk' /\ PoolOk' /\ UploadOk'
  BY DEF H2Inv, H2Types, LinksOk, PoolOk, UploadOk, Opened, At
<1>2. ASSUME NEW r \in Requests
      PROVE  PlaceOk(r)' /\ SentOk(r)' /\ Attended(r)'
  <2>1. PlaceOk(r)' /\ Attended(r)'
    BY DEF H2Inv, PlaceOk, Attended, Opened, At
  <2>2. SentOk(r)'
    BY DEF H2Inv, SentOk, Sent, Present, Retired, Unanswered, At
  <2> QED  BY <2>1, <2>2
<1> QED  BY <1>1, <1>2 DEF H2Inv

(* Nothing is opened, pooled or sent at first.                               *)
LEMMA H2Starts ==
    Init => H2Inv
<1> SUFFICES ASSUME Init PROVE H2Inv
  OBVIOUS
<1> USE DEF Init
<1>1. NewPeer \in PeerSet /\ \A r \in Requests : NewPeer.streams[r] = None
  BY WindowsAssumption DEF NewPeer, PeerSet
<1>2. H2Types
  <2>0. <<>> \in Seq(FrameSet)
    BY EmptySeq
  <2>4. inbound \in [Conns -> Seq(FrameSet)]
    BY <2>0
  <2>1. /\ conn \in [Conns -> ConnectionSet \cup {None}] /\ pool \in Conns \cup {None} /\ http1Only \in BOOLEAN
        /\ creator \in Requests \cup {None} /\ upload \in [Conns -> Requests \cup {None}]
    OBVIOUS
  <2>3. peer \in [Conns -> PeerSet]
    BY <1>1
  <2>2. req \in [Requests -> ThreadSet]
    BY DEF ThreadSet, Idle
  <2> QED  BY <2>1, <2>2, <2>3, <2>4 DEF H2Types
<1>3. LinksOk
  BY <1>1 DEF LinksOk, Elements, BlockOk, NewPeer
<1>4. PoolOk /\ UploadOk
  BY DEF PoolOk, UploadOk, Opened
<1>5. ASSUME NEW r \in Requests
      PROVE  PlaceOk(r) /\ SentOk(r) /\ Attended(r)
  <2>1. req[r].pc = "hop" /\ req[r].outcome = None
    OBVIOUS
  <2>2. Sent(r) = {}
    BY <1>1 DEF Sent
  <2>3. PlaceOk(r)
    BY <2>1, NoneAssumption DEF PlaceOk, At, Holding
  <2>4. SentOk(r)
    BY <2>1, <2>2 DEF SentOk, At
  <2>5. Attended(r)
    BY DEF Attended
  <2> QED  BY <2>3, <2>4, <2>5
<1> QED  BY <1>2, <1>3, <1>4, <1>5 DEF H2Inv

(* A frame the server sends with a change of one stream.                     *)
LEMMA PeerStreamSent ==
    ASSUME H2Inv, NEW c \in Conns, NEW r \in Known(peer[c]), NEW s \in PeerStreamSet, NEW p \in PeerSet,
           p.streams = [peer[c].streams EXCEPT ![r] = s], p.settings = peer[c].settings,
           p.block \in {None, r, peer[c].block},
           NEW f \in FrameSet, PeerSends(c, p, f),
           f.type \in {"headers", "data", "rst_stream", "window_update"}, f.stream = r
    PROVE  H2Inv'
<1>1. peer[c] \in PeerSet
  BY DEF H2Inv, H2Types
<1>2. Known(p) = Known(peer[c]) /\ p.streams[r] # None
  BY <1>1, PeerAssumption DEF Known, PeerSet
<1>3. Fits(p, f)
  BY <1>2 DEF Fits
<1>4. BlockOk(p)
  <2>1. BlockOk(peer[c]) /\ p.block \in Requests \cup {None}
    BY DEF H2Inv, LinksOk, PeerSet
  <2> QED  BY <1>2, <2>1 DEF BlockOk, Known
<1> QED  BY <1>2, <1>3, <1>4, ServerSends

(* The server's steps.                                                       *)
LEMMA ServerStep ==
    ASSUME H2Inv, NEW c \in Conns, Server(c)
    PROVE  H2Inv'
<1> DEFINE p == peer[c]
<1>0. p \in PeerSet /\ BlockOk(p) /\ (\A r \in Requests : p.streams[r] # None =>
                            p.streams[r] \in PeerStreamSet /\ r \in Known(p))
  BY DEF H2Inv, H2Types, LinksOk, PeerSet, Known
<1>1. ASSUME NEW r \in Requests, NEW end \in BOOLEAN, NEW whole \in BOOLEAN, Sending(c, r),
             PeerSends(c, [p EXCEPT !.streams[r] = [p.streams[r] EXCEPT !.status = TRUE, !.endOut = end],
                                    !.block = IF whole THEN None ELSE r], Headers(r, end, whole))
      PROVE  H2Inv'
  <2> DEFINE s == [p.streams[r] EXCEPT !.status = TRUE, !.endOut = end]
             b == IF whole THEN None ELSE r
             q == [p EXCEPT !.streams[r] = s, !.block = b]
  <2>1. p.streams[r] \in PeerStreamSet /\ r \in Known(p)
    BY <1>0, <1>1 DEF Sending
  <2>2. s \in PeerStreamSet
    <3>1. \A t \in PeerStreamSet : /\ [t EXCEPT !.status = TRUE, !.endOut = TRUE] \in PeerStreamSet
                                   /\ [t EXCEPT !.status = TRUE, !.endOut = FALSE] \in PeerStreamSet
      BY DEF PeerStreamSet
    <3> QED  BY <2>1, <3>1, <1>1
  <2>3. b \in Requests \cup {None}
    OBVIOUS
  <2> HIDE DEF s, b
  <2>4. /\ q \in PeerSet /\ q.streams = [p.streams EXCEPT ![r] = s] /\ q.settings = p.settings
        /\ q.block \in {None, r, p.block}
    BY <1>0, <2>2, <2>3 DEF PeerSet, b
  <2>5. /\ Headers(r, end, whole) \in FrameSet /\ Headers(r, end, whole).type = "headers"
        /\ Headers(r, end, whole).stream = r
    BY DEF Headers, FrameSet
  <2>6. PeerSends(c, q, Headers(r, end, whole))
    BY <1>1 DEF s, b
  <2> HIDE DEF q
  <2> QED  BY <2>1, <2>2, <2>4, <2>5, <2>6, PeerStreamSent
<1>2. ASSUME NEW r \in Requests, NEW units \in {0, 1}, NEW end \in BOOLEAN, Sending(c, r),
             PeerSends(c, [p EXCEPT !.send = @ - units,
                                    !.streams[r] = [p.streams[r] EXCEPT
                                         !.send = p.streams[r].send - units,
                                         !.sent = p.streams[r].sent + units, !.endOut = end]],
                       Data(r, units, end))
      PROVE  H2Inv'
  <2> DEFINE s == [p.streams[r] EXCEPT !.send = p.streams[r].send - units,
                                       !.sent = p.streams[r].sent + units, !.endOut = end]
             q == [p EXCEPT !.send = @ - units, !.streams[r] = s]
  <2>1. p.streams[r] \in PeerStreamSet /\ r \in Known(p)
    BY <1>0, <1>2 DEF Sending
  <2>2. s \in PeerStreamSet
    <3>1. \A t \in PeerStreamSet, x \in Int, y \in Nat :
              /\ [t EXCEPT !.send = x, !.sent = y, !.endOut = TRUE] \in PeerStreamSet
              /\ [t EXCEPT !.send = x, !.sent = y, !.endOut = FALSE] \in PeerStreamSet
      BY DEF PeerStreamSet
    <3>2. p.streams[r].send - units \in Int /\ p.streams[r].sent + units \in Nat
      BY <2>1 DEF PeerStreamSet
    <3>3. CASE end = TRUE
      BY <2>1, <3>1, <3>2, <3>3
    <3>4. CASE end = FALSE
      BY <2>1, <3>1, <3>2, <3>4
    <3> QED  BY <3>3, <3>4
  <2> HIDE DEF s
  <2>3. p.send - units \in Int
    BY <1>0 DEF PeerSet
  <2>4. /\ q \in PeerSet /\ q.streams = [p.streams EXCEPT ![r] = s] /\ q.settings = p.settings
        /\ q.block \in {None, r, p.block}
    BY <1>0, <2>2, <2>3 DEF PeerSet
  <2>5. /\ Data(r, units, end) \in FrameSet /\ Data(r, units, end).type = "data"
        /\ Data(r, units, end).stream = r
    BY DEF Data, FrameSet
  <2>6. PeerSends(c, q, Data(r, units, end))
    BY <1>2 DEF s
  <2> HIDE DEF q
  <2> QED  BY <2>1, <2>2, <2>4, <2>5, <2>6, PeerStreamSent
<1>3. ASSUME NEW r \in Requests, PeerResets(c, r)
      PROVE  H2Inv'
  <2> DEFINE s == [p.streams[r] EXCEPT !.state = "closed"]
             q == [p EXCEPT !.streams[r].state = "closed"]
  <2>1. p.streams[r] \in PeerStreamSet /\ r \in Known(p)
    BY <1>0, <1>3 DEF PeerResets, Sending
  <2>2. s \in PeerStreamSet
    BY <2>1 DEF PeerStreamSet
  <2>4. /\ q \in PeerSet /\ q.streams = [p.streams EXCEPT ![r] = s] /\ q.settings = p.settings
        /\ q.block \in {None, r, p.block}
    BY <1>0, <2>2 DEF PeerSet
  <2>5. RstStream(r) \in FrameSet /\ RstStream(r).type = "rst_stream" /\ RstStream(r).stream = r
    BY DEF RstStream, FrameSet
  <2>6. PeerSends(c, q, RstStream(r))
    BY <1>3 DEF PeerResets
  <2> HIDE DEF q, s
  <2> QED  BY <2>1, <2>2, <2>4, <2>5, <2>6, PeerStreamSent
<1>4. ASSUME NEW r \in Requests, PeerUpdatesStream(c, r)
      PROVE  H2Inv'
  <2> DEFINE n == p.initial - p.streams[r].recv
             s == [p.streams[r] EXCEPT !.recv = p.initial]
             q == [p EXCEPT !.streams[r].recv = p.initial]
  <2>1. p.streams[r] \in PeerStreamSet /\ r \in Known(p) /\ p.initial \in Int
    BY <1>0, <1>4 DEF PeerUpdatesStream, PeerOpen, PeerSet
  <2>2. s \in PeerStreamSet /\ n \in Int
    BY <2>1 DEF PeerStreamSet
  <2>4. /\ q \in PeerSet /\ q.streams = [p.streams EXCEPT ![r] = s] /\ q.settings = p.settings
        /\ q.block \in {None, r, p.block}
    BY <1>0, <2>2 DEF PeerSet
  <2>6. PeerSends(c, q, WindowUpdate(r, n))
    BY <1>4 DEF PeerUpdatesStream
  <2> HIDE DEF q, s, n
  <2>5. /\ WindowUpdate(r, n) \in FrameSet /\ WindowUpdate(r, n).type = "window_update"
        /\ WindowUpdate(r, n).stream = r
    BY <2>2 DEF WindowUpdate, FrameSet
  <2> QED  BY <2>1, <2>2, <2>4, <2>5, <2>6, PeerStreamSent
<1>5. CASE PeerContinuation(c)
  <2> DEFINE q == [p EXCEPT !.block = None]
             f == Continuation(p.block)
  <2>1. p.block \in Requests /\ p.streams[p.block] # None
    BY <1>0, <1>5 DEF PeerContinuation, PeerSet, BlockOk
  <2>2. /\ q \in PeerSet /\ Known(q) = Known(p) /\ q.settings = p.settings /\ q.streams = p.streams
        /\ BlockOk(q)
    BY <1>0 DEF PeerSet, Known, BlockOk
  <2>3. PeerSends(c, q, f)
    BY <1>5 DEF PeerContinuation
  <2> HIDE DEF q
  <2>4. f \in FrameSet /\ Fits(q, f)
    BY <2>1, <2>2 DEF Continuation, FrameSet, Fits
  <2> QED  BY <2>2, <2>3, <2>4, ServerSends
<1>6. CASE PeerUpdatesConnection(c)
  <2> DEFINE q == [p EXCEPT !.recv = ConnWindow]
             n == ConnWindow - p.recv
             f == WindowUpdate(None, n)
  <2>2. q \in PeerSet /\ Known(q) = Known(p) /\ q.settings = p.settings /\ n \in Int /\ BlockOk(q)
    BY <1>0, WindowsAssumption DEF PeerSet, Known, BlockOk
  <2>3. PeerSends(c, q, f)
    BY <1>6 DEF PeerUpdatesConnection
  <2> HIDE DEF q, n
  <2>4. f \in FrameSet /\ Fits(q, f)
    BY <2>2 DEF WindowUpdate, FrameSet, Fits
  <2> QED  BY <2>2, <2>3, <2>4, ServerSends
<1>7. CASE PeerSettings(c)
  <2> DEFINE q == [p EXCEPT !.settings = NewWindow]
             f == Settings(NewWindow)
  <2>2. q \in PeerSet /\ Known(q) = Known(p) /\ q.settings = NewWindow /\ NewWindow \in Int /\ BlockOk(q)
    BY <1>0, PoolAssumption DEF PeerSet, Known, BlockOk
  <2>3. PeerSends(c, q, f)
    BY <1>7 DEF PeerSettings
  <2> HIDE DEF q
  <2>4. f \in FrameSet /\ Fits(q, f)
    BY <2>2 DEF Settings, FrameSet, Fits
  <2> QED  BY <2>2, <2>3, <2>4, ServerSends
<1>8. ASSUME NEW f \in {GoAway, Eof}, PeerSends(c, [p EXCEPT !.gone = "left"], f)
      PROVE  H2Inv'
  <2> DEFINE q == [p EXCEPT !.gone = "left"]
  <2>2. q \in PeerSet /\ Known(q) = Known(p) /\ q.settings = p.settings /\ BlockOk(q)
    BY <1>0 DEF PeerSet, Known, BlockOk
  <2> HIDE DEF q
  <2>4. f \in FrameSet /\ Fits(q, f)
    BY DEF GoAway, Eof, FrameSet, Fits
  <2> QED  BY <1>8, <2>2, <2>4, ServerSends DEF q
<1> QED  BY <1>1, <1>2, <1>3, <1>4, <1>5, <1>6, <1>7, <1>8
         DEF Server, PeerHeaders, PeerData, PeerLeaves

------------------------------------------------------------------------------
(* The steps of a thread that leave the connections alone.                   *)

(* A step of a thread that touches no connection, where the place it moves   *)
(* to holds.                                                                 *)
LEMMA LocalStep ==
    ASSUME H2Inv, NEW r \in Requests, UNCHANGED <<conn, inbound, peer, upload>>,
           req[r].pc \notin {"body", "done"}, At(r, "poll") => conn[req[r].conn].state = "closed",
           pool' \in {pool, None}, Others(r), http1Only' \in BOOLEAN, creator' \in Requests \cup {None},
           req' \in [Requests -> ThreadSet], PlaceOk(r)',
           req[r].attempt = 1 => req'[r].attempt = 1,
           \A c \in Sent(r) : Present(r, c) => Present(r, c)' \/ Retired(r, c)',
           req'[r].pc \in {"check", "drop", "send"} => \A c \in Sent(r) : c <= req'[r].conn,
           req'[r].pc = "evict" /\ req'[r].retry /\ req'[r].attempt = 0 =>
               \A c \in Sent(r) : Unanswered(r, c)'
    PROVE  H2Inv'
<1>1. H2Types /\ LinksOk /\ PoolOk /\ UploadOk /\ PlaceOk(r) /\ SentOk(r) /\ Attended(r)
  BY DEF H2Inv
<1>2. ConnectionTypes' /\ LinksOk' /\ \A d \in Conns : Undisturbed(r, d)
  BY <1>1, LeavingAlone
<1>3. H2Types'
  BY <1>1, <1>2 DEF H2Types, ConnectionTypes
<1>4. Sent(r)' = Sent(r)
  BY DEF Sent
<1>5. SentOk(r)'
  BY <1>1, <1>2, <1>4, OwnSent
<1>6. Attended(r)'
  <2>1. \A c \in Conns : ~(conn[c] # None /\ conn[c].state = "open" /\ Active(conn[c].streams[r]))
    BY <1>1 DEF Attended, At
  <2> QED  BY <2>1 DEF Attended
<1>7. Uploads(r)'
  BY <1>1, NoneAssumption DEF UploadOk, Uploads, At
<1> QED  BY <1>1, <1>2, <1>3, <1>5, <1>6, <1>7, QuietStep

(* What a thread's step changes of itself.                                   *)
Elsewhere(r) == \A q \in Requests \ {r} : req'[q] = req[q]

(* What Goto changes.                                                        *)
LEMMA GotoStep ==
    ASSUME H2Types, NEW r \in Requests, NEW pc \in Idle \cup Holding, Goto(r, pc)
    PROVE  /\ req' \in [Requests -> ThreadSet] /\ Elsewhere(r)
           /\ req'[r].pc = pc /\ req'[r].conn = req[r].conn /\ req'[r].attempt = req[r].attempt
           /\ req'[r].outcome = req[r].outcome
BY DEF H2Types, Goto, ThreadSet, Elsewhere

(* What Ends changes.                                                        *)
LEMMA EndsStep ==
    ASSUME H2Types, NEW r \in Requests, NEW outcome \in Outcomes, Ends(r, outcome)
    PROVE  /\ req' \in [Requests -> ThreadSet] /\ Elsewhere(r)
           /\ req'[r].pc = "done" /\ req'[r].conn = req[r].conn /\ req'[r].attempt = req[r].attempt
           /\ req'[r].outcome = outcome /\ req'[r].rest = req[r].rest
<1>1. "done" \in Idle
  BY DEF Idle
<1> QED  BY <1>1 DEF H2Types, Ends, ThreadSet, Elsewhere

(* What Evicts changes.                                                      *)
LEMMA EvictsStep ==
    ASSUME H2Types, NEW r \in Requests, NEW retry \in BOOLEAN, Evicts(r, retry)
    PROVE  /\ req' \in [Requests -> ThreadSet] /\ Elsewhere(r)
           /\ req'[r].pc = "evict" /\ req'[r].conn = req[r].conn /\ req'[r].attempt = req[r].attempt
           /\ req'[r].outcome = req[r].outcome /\ req'[r].retry = retry /\ req'[r].rest = req[r].rest
<1>1. "evict" \in Holding
  BY DEF Holding
<1> QED  BY <1>1 DEF H2Types, Evicts, ThreadSet, Elsewhere

(* A thread that is about to send has streams on retired connections only.   *)
LEMMA NotYetSent ==
    ASSUME H2Inv, NEW r \in Requests, req[r].pc \in {"hop", "lookup", "check", "drop", "lock", "connect", "fallback", "send"}
    PROVE  \A c \in Sent(r) : Retired(r, c) /\ ~Present(r, c)
BY DEF H2Inv, SentOk, Present

(* send_hop.                                                                 *)
LEMMA SendHopKeeps ==
    ASSUME H2Inv, NEW r \in Requests, SendHop(r)
    PROVE  H2Inv'
<1> USE DEF SendHop, Network
<1>1. H2Types /\ PlaceOk(r) /\ At(r, "hop")
  BY DEF H2Inv
<1>2. \A c \in Sent(r) : Retired(r, c) /\ ~Present(r, c)
  BY <1>1, NotYetSent DEF At
<1>3. /\ req' \in [Requests -> ThreadSet] /\ Elsewhere(r) /\ req'[r].pc \in {"done", "lookup"}
      /\ req'[r].attempt = req[r].attempt /\ (req'[r].outcome # None => req'[r].pc = "done")
  <2>1. CASE http1Only
    BY <1>1, <2>1, EndsStep DEF Outcomes
  <2>2. CASE ~http1Only
    <3>1. "lookup" \in Idle
      BY DEF Idle
    <3> QED  BY <1>1, <2>2, <3>1, GotoStep DEF PlaceOk, At
  <2> QED  BY <2>1, <2>2
<1>4. creator # r
  BY <1>1 DEF PlaceOk, At
<1>5. PlaceOk(r)'
  BY <1>3, <1>4 DEF PlaceOk, At, Holding
<1>6. Others(r) /\ http1Only' \in BOOLEAN /\ creator' \in Requests \cup {None}
  BY <1>1, <1>3 DEF Others, Elsewhere, H2Types
<1> QED  BY <1>1, <1>2, <1>3, <1>5, <1>6, LocalStep DEF At

(* entry_for finds the entry of the pool, or goes on to the lock or the      *)
(* connect.                                                                  *)
LEMMA LookupKeeps ==
    ASSUME H2Inv, NEW r \in Requests, Lookup(r)
    PROVE  H2Inv'
<1> USE DEF Lookup, Network
<1>1. H2Types /\ PoolOk /\ PlaceOk(r) /\ At(r, "lookup")
  BY DEF H2Inv
<1>2. \A c \in Sent(r) : Retired(r, c) /\ ~Present(r, c)
  BY <1>1, NotYetSent DEF At
<1> DEFINE pc == IF pool # None THEN "check" ELSE IF creator = r THEN "connect" ELSE "lock"
<1>3. /\ req' \in [Requests -> ThreadSet] /\ Elsewhere(r) /\ req'[r].pc = pc /\ req'[r].conn = pool
      /\ req'[r].attempt = req[r].attempt /\ req'[r].outcome = req[r].outcome
  <2>1. pc \in Idle \cup Holding
    BY DEF Idle, Holding
  <2> DEFINE t == [req[r] EXCEPT !.conn = pool, !.pc = pc]
  <2>2. req' = [req EXCEPT ![r] = t]
    BY <1>1 DEF H2Types
  <2> HIDE DEF pc
  <2>3. /\ t \in ThreadSet /\ t.pc = pc /\ t.conn = pool /\ t.attempt = req[r].attempt
        /\ t.outcome = req[r].outcome
    BY <1>1, <2>1 DEF H2Types, ThreadSet
  <2> HIDE DEF t
  <2> QED  BY <1>1, <2>2, <2>3 DEF H2Types, Elsewhere
<1>4. PlaceOk(r)'
  <2>1. pool # None => pool \in Opened
    BY <1>1 DEF PoolOk
  <2>2. req[r].outcome = None
    BY <1>1 DEF PlaceOk, At
  <2> QED  BY <1>3, <2>1, <2>2 DEF PlaceOk, At, Holding, Opened
<1>5. pc = "check" => \A c \in Sent(r) : c <= pool
  BY <1>1, SentOpened DEF H2Inv, PoolOk
<1>6. Others(r) /\ http1Only' \in BOOLEAN /\ creator' \in Requests \cup {None}
  BY <1>1, <1>3 DEF Others, Elsewhere, H2Types
<1>7. pc \in {"check", "connect", "lock"}
  OBVIOUS
<1> HIDE DEF pc
<1> QED  BY <1>1, <1>2, <1>3, <1>4, <1>5, <1>6, <1>7, LocalStep DEF At

(* A step of r that keeps its connection and may drop the pool's entry or    *)
(* the creation lock.                                                        *)
LEMMA BetweenStep ==
    ASSUME H2Inv, NEW r \in Requests, UNCHANGED <<conn, inbound, peer, upload>>,
           req[r].pc \in {"check", "drop", "lock", "connect", "fallback"},
           pool' \in {pool, None}, http1Only' \in BOOLEAN,
           creator' = creator \/ {creator, creator'} \subseteq {r, None},
           req' \in [Requests -> ThreadSet], Elsewhere(r), req'[r].attempt = req[r].attempt,
           req'[r].pc # "evict", req'[r].conn = req[r].conn,
           req'[r].pc \in {"check", "drop", "send"} => req[r].pc \in {"check", "drop", "send"},
           PlaceOk(r)'
    PROVE  H2Inv'
<1>1. H2Types /\ PlaceOk(r) /\ SentOk(r)
  BY DEF H2Inv
<1>2. \A c \in Sent(r) : Retired(r, c) /\ ~Present(r, c)
  BY NotYetSent
<1>3. req'[r].pc \in {"check", "drop", "send"} => \A c \in Sent(r) : c <= req'[r].conn
  BY <1>1 DEF SentOk
<1>4. Others(r) /\ creator' \in Requests \cup {None}
  BY <1>1, NoneAssumption DEF Others, Elsewhere, H2Types
<1> QED  BY <1>1, <1>2, <1>3, <1>4, LocalStep DEF At

(* entry_for gives the lock back with an open connection and drops a closed  *)
(* one.                                                                      *)
LEMMA CheckKeeps ==
    ASSUME H2Inv, NEW r \in Requests, Check(r)
    PROVE  H2Inv'
<1> USE DEF Check, Network
<1>1. H2Types /\ PlaceOk(r) /\ req[r].pc = "check" /\ req[r].conn \in Opened
  BY DEF H2Inv, PlaceOk, At, Holding
<1>2. conn[req[r].conn].state \in {"open", "closed"}
  BY <1>1 DEF H2Types, ConnectionSet, Opened
<1>3. CASE conn[req[r].conn].state = "open"
  <2>1. Goto(r, "send") /\ Release(r) /\ "send" \in Holding
    BY <1>3 DEF Holding
  <2>2. /\ req' \in [Requests -> ThreadSet] /\ Elsewhere(r) /\ req'[r].conn = req[r].conn
        /\ req'[r].attempt = req[r].attempt /\ req'[r].pc = "send" /\ req'[r].outcome = req[r].outcome
    BY <1>1, <2>1, GotoStep
  <2>3. creator' # r /\ (creator' = creator \/ {creator, creator'} \subseteq {r, None})
    BY <2>1, NoneAssumption DEF Release
  <2>4. PlaceOk(r)'
    BY <1>1, <2>2, <2>3 DEF PlaceOk, At, Opened
  <2> QED  BY <1>1, <2>2, <2>3, <2>4, BetweenStep DEF H2Types
<1>4. CASE conn[req[r].conn].state # "open"
  <2>1. Goto(r, "drop") /\ UNCHANGED creator /\ "drop" \in Holding
    BY <1>4 DEF Holding
  <2>2. /\ req' \in [Requests -> ThreadSet] /\ Elsewhere(r) /\ req'[r].conn = req[r].conn
        /\ req'[r].attempt = req[r].attempt /\ req'[r].pc = "drop" /\ req'[r].outcome = req[r].outcome
    BY <1>1, <2>1, GotoStep
  <2>3. PlaceOk(r)'
    BY <1>1, <1>2, <1>4, <2>1, <2>2 DEF PlaceOk, At, Opened
  <2> QED  BY <1>1, <2>1, <2>2, <2>3, BetweenStep DEF H2Types
<1> QED  BY <1>3, <1>4

(* The entry removed is closed, and no other has taken its place.            *)
LEMMA DropKeeps ==
    ASSUME H2Inv, NEW r \in Requests, Drop(r)
    PROVE  H2Inv'
<1> USE DEF Drop, Network, RemoveEntry
<1>1. H2Types /\ PlaceOk(r) /\ req[r].pc = "drop" /\ req[r].conn \in Opened
  BY DEF H2Inv, PlaceOk, At, Holding
<1> DEFINE pc == IF creator = r THEN "connect" ELSE "lock"
<1>2. /\ req' \in [Requests -> ThreadSet] /\ Elsewhere(r) /\ req'[r].conn = req[r].conn
      /\ req'[r].attempt = req[r].attempt /\ req'[r].pc = pc /\ req'[r].outcome = req[r].outcome
  <2>1. pc \in Idle
    BY DEF Idle
  <2> QED  BY <1>1, <2>1, GotoStep
<1>3. PlaceOk(r)'
  BY <1>1, <1>2 DEF PlaceOk, At, Holding
<1> QED  BY <1>1, <1>2, <1>3, BetweenStep DEF H2Types

(* The creation lock is taken by one thread.                                 *)
LEMMA LockKeeps ==
    ASSUME H2Inv, NEW r \in Requests, Lock(r)
    PROVE  H2Inv'
<1> USE DEF Lock, Network
<1>1. H2Types /\ PlaceOk(r) /\ req[r].pc = "lock"
  BY DEF H2Inv, At
<1>2. /\ req' \in [Requests -> ThreadSet] /\ Elsewhere(r) /\ req'[r].conn = req[r].conn
      /\ req'[r].attempt = req[r].attempt /\ req'[r].pc = "lookup" /\ req'[r].outcome = req[r].outcome
  <2>1. "lookup" \in Idle
    BY DEF Idle
  <2> QED  BY <1>1, <2>1, GotoStep
<1>3. PlaceOk(r)'
  BY <1>1, <1>2 DEF PlaceOk, At, Holding
<1> QED  BY <1>1, <1>2, <1>3, BetweenStep DEF H2Types

(* A connect that fails, or falls back to HTTP/1.1, gives the lock back.     *)
LEMMA ConnectEndsKeeps ==
    ASSUME H2Inv, NEW r \in Requests, ConnectFails(r) \/ ConnectFallsBack(r)
    PROVE  H2Inv'
<1> USE DEF ConnectFails, ConnectFallsBack, Network
<1>1. H2Types /\ PlaceOk(r) /\ req[r].pc = "connect"
  BY DEF H2Inv, At
<1>2. /\ req' \in [Requests -> ThreadSet] /\ Elsewhere(r) /\ req'[r].conn = req[r].conn
      /\ req'[r].attempt = req[r].attempt /\ req'[r].pc \in {"done", "fallback"}
      /\ (req'[r].outcome # None => req'[r].pc = "done")
  <2>1. CASE ConnectFails(r)
    BY <1>1, <2>1, EndsStep DEF Outcomes
  <2>2. CASE ConnectFallsBack(r)
    <3>1. "fallback" \in Idle
      BY DEF Idle
    <3> QED  BY <1>1, <2>2, <3>1, GotoStep DEF PlaceOk, At
  <2> QED  BY <2>1, <2>2
<1>3. creator' # r /\ (creator' = creator \/ {creator, creator'} \subseteq {r, None})
  BY NoneAssumption DEF Release
<1>4. PlaceOk(r)'
  BY <1>2, <1>3 DEF PlaceOk, At, Holding
<1> QED  BY <1>1, <1>2, <1>3, <1>4, BetweenStep DEF H2Types

(* The origin is remembered as one of HTTP/1.1.                              *)
LEMMA MarkHttp1OnlyKeeps ==
    ASSUME H2Inv, NEW r \in Requests, MarkHttp1Only(r)
    PROVE  H2Inv'
<1> USE DEF MarkHttp1Only, Network
<1>1. H2Types /\ PlaceOk(r) /\ req[r].pc = "fallback"
  BY DEF H2Inv, At
<1>2. /\ req' \in [Requests -> ThreadSet] /\ Elsewhere(r) /\ req'[r].conn = req[r].conn
      /\ req'[r].attempt = req[r].attempt /\ req'[r].pc = "done"
  BY <1>1, EndsStep DEF Outcomes
<1>3. creator # r
  BY <1>1 DEF PlaceOk, At
<1>4. PlaceOk(r)'
  BY <1>2, <1>3 DEF PlaceOk, At, Holding
<1> QED  BY <1>1, <1>2, <1>4, BetweenStep DEF H2Types

(* A retry starts over with nothing seen on the connection it leaves.        *)
LEMMA EvictKeeps ==
    ASSUME H2Inv, NEW r \in Requests, Evict(r)
    PROVE  H2Inv'
<1> USE DEF Evict, Network, RemoveEntry
<1>1. H2Types /\ LinksOk /\ PlaceOk(r) /\ SentOk(r) /\ At(r, "evict")
  BY DEF H2Inv
<1>2. creator # r
  BY <1>1 DEF PlaceOk, At
<1>3. CASE req[r].retry /\ r \in Safe /\ req[r].attempt = 0
  <2>1. /\ req' \in [Requests -> ThreadSet] /\ Elsewhere(r) /\ req'[r].pc = "lookup"
        /\ req'[r].attempt = 1 /\ req'[r].outcome = req[r].outcome
    <3> DEFINE t == [req[r] EXCEPT !.pc = "lookup", !.attempt = 1]
    <3>1. req' = [req EXCEPT ![r] = t]
      BY <1>1, <1>3 DEF H2Types
    <3>2. t \in ThreadSet /\ t.pc = "lookup" /\ t.attempt = 1 /\ t.outcome = req[r].outcome
      BY <1>1 DEF H2Types, ThreadSet, Idle
    <3> HIDE DEF t
    <3> QED  BY <1>1, <3>1, <3>2 DEF H2Types, Elsewhere
  <2>2. \A c \in Sent(r) : Retired(r, c)'
    BY <1>1, <1>3, <2>1 DEF SentOk, Retired, Unanswered
  <2>3. PlaceOk(r)'
    BY <1>1, <1>2, <2>1 DEF PlaceOk, At, Holding
  <2>4. Others(r)
    BY <2>1 DEF Others, Elsewhere
  <2> QED  BY <1>1, <2>1, <2>2, <2>3, <2>4, LocalStep DEF At, H2Types
<1>4. CASE ~(req[r].retry /\ r \in Safe /\ req[r].attempt = 0)
  <2>1. /\ req' \in [Requests -> ThreadSet] /\ Elsewhere(r) /\ req'[r].pc = "done"
        /\ req'[r].conn = req[r].conn /\ req'[r].attempt = req[r].attempt
    BY <1>1, <1>4, EndsStep DEF Outcomes
  <2>2. \A c : Present(r, c) => Present(r, c)'
    BY <2>1 DEF Present
  <2>3. PlaceOk(r)'
    BY <1>2, <2>1 DEF PlaceOk, At, Holding
  <2>4. Others(r)
    BY <2>1 DEF Others, Elsewhere
  <2> QED  BY <1>1, <2>1, <2>2, <2>3, <2>4, LocalStep DEF At, H2Types
<1> QED  BY <1>3, <1>4

(* ensure_open fails on a connection somebody else has closed.               *)
LEMMA PollClosedKeeps ==
    ASSUME H2Inv, NEW r \in Requests, PollClosed(r)
    PROVE  H2Inv'
<1> USE DEF PollClosed, Network, Rest
<1>0. PICK c : c = req[r].conn
  OBVIOUS
<1>1. /\ H2Types /\ LinksOk /\ PlaceOk(r) /\ SentOk(r) /\ At(r, "poll")
      /\ conn[c].state = "closed" /\ Evicts(r, ~Seen(r, c))
  BY <1>0 DEF H2Inv, Polling, Locked
<1>2. PICK retry \in BOOLEAN : retry = ~Seen(r, c)
  OBVIOUS
<1>3. /\ req' \in [Requests -> ThreadSet] /\ Elsewhere(r) /\ req'[r].pc = "evict"
      /\ req'[r].conn = c /\ req'[r].attempt = req[r].attempt /\ req'[r].outcome = req[r].outcome
      /\ req'[r].retry = retry
  BY <1>0, <1>1, <1>2, EvictsStep
<1>4. c \in Opened /\ conn[c].streams[r] # None
  BY <1>0, <1>1 DEF PlaceOk, At, Holding
<1>5. retry => Unanswered(r, c)
  BY <1>1, <1>2, <1>4 DEF Seen, Unanswered
<1>6. \A d : Present(r, d) => d = c /\ Present(r, d)'
  BY <1>0, <1>3 DEF Present
<1>7. retry /\ req[r].attempt = 0 => \A d \in Sent(r) : Unanswered(r, d)'
  BY <1>1, <1>5, <1>6 DEF SentOk, Retired, Unanswered
<1>8. PlaceOk(r)'
  <2>1. creator # r
    BY <1>1 DEF PlaceOk, At
  <2> QED  BY <1>0, <1>1, <1>3, <1>4, <2>1 DEF PlaceOk, At, Opened
<1>9. Others(r)
  BY <1>3 DEF Others, Elsewhere
<1> QED  BY <1>0, <1>1, <1>3, <1>6, <1>7, <1>8, <1>9, LocalStep DEF At, H2Types

------------------------------------------------------------------------------
(* Opening a connection.                                                     *)

(* A new connection has no stream.                                           *)
LEMMA FreshConnection ==
    \A c \in Conns : /\ Connected(StreamLimit[c]) \in ConnectionSet
                     /\ Connected(StreamLimit[c]).state = "open"
                     /\ Connected(StreamLimit[c]).pending = None
                     /\ \A r \in Requests : Connected(StreamLimit[c]).streams[r] = None
BY WindowsAssumption, PoolAssumption DEF Connected, ConnectionSet

(* The new connection is the last, and the only one in the pool.             *)
LEMMA ConnectKeeps ==
    ASSUME H2Inv, NEW r \in Requests, Connect(r)
    PROVE  H2Inv'
<1>1. /\ H2Types /\ LinksOk /\ PoolOk /\ UploadOk /\ req[r].pc = "connect"
      /\ UNCHANGED <<http1Only, upload, inbound, peer>> /\ Release(r)
  BY DEF H2Inv, Connect, At, Network
<1>2. PICK c \in Conns : /\ conn[c] = None /\ \A d \in Conns : conn[d] = None => c <= d
                         /\ conn' = [conn EXCEPT ![c] = Connected(StreamLimit[c])]
                         /\ pool' = c
                         /\ req' = [req EXCEPT ![r].conn = c, ![r].pc = "send"]
  BY DEF Connect
<1> DEFINE k == Connected(StreamLimit[c])
<1>3. /\ k \in ConnectionSet /\ k.state = "open" /\ k.pending = None /\ k # None
      /\ \A q \in Requests : k.streams[q] = None
  BY FreshConnection, NoneAssumption
<1> HIDE DEF k
<1>4. conn'[c] = k /\ \A d \in Conns \ {c} : conn'[d] = conn[d]
  BY <1>1, <1>2 DEF H2Types, k
<1>5. Opened' = Opened \cup {c} /\ c \notin Opened
  BY <1>2, <1>3, <1>4 DEF Opened
<1>6. creator = r /\ creator' = None /\ pool = None
  BY <1>1 DEF H2Inv, PlaceOk, At, Release
<1>7. /\ req' \in [Requests -> ThreadSet] /\ Elsewhere(r) /\ req'[r].pc = "send" /\ req'[r].conn = c
      /\ req'[r].attempt = req[r].attempt /\ req'[r].outcome = req[r].outcome
  <2> DEFINE t == [req[r] EXCEPT !.conn = c, !.pc = "send"]
  <2>1. req' = [req EXCEPT ![r] = t]
    BY <1>1, <1>2 DEF H2Types
  <2>2. /\ t \in ThreadSet /\ t.pc = "send" /\ t.conn = c /\ t.attempt = req[r].attempt
        /\ t.outcome = req[r].outcome
    BY <1>1 DEF H2Types, ThreadSet, Holding
  <2> HIDE DEF t
  <2> QED  BY <1>1, <2>1, <2>2 DEF H2Types, Elsewhere
<1>8. H2Types'
  <2>1. conn' \in [Conns -> ConnectionSet \cup {None}]
    BY <1>1, <1>2, <1>3 DEF H2Types, k
  <2> QED  BY <1>1, <1>2, <1>6, <1>7, <2>1 DEF H2Types
<1>9. LinksOk'
  <2> SUFFICES ASSUME NEW d \in Conns
               PROVE  /\ BlockOk(peer[d]) /\ \A f \in Elements(inbound[d]) : Fits(peer[d], f)
                      /\ conn'[d] # None /\ conn'[d].state = "open" => Linked(conn'[d], peer[d])
                      /\ conn'[d] = None => \A q \in Requests : peer[d].streams[q] = None
    BY <1>1 DEF LinksOk
  <2>1. CASE d = c
    BY <1>1, <1>3, <1>4, <2>1 DEF LinksOk, Linked
  <2>2. CASE d # c
    BY <1>1, <1>4, <2>2 DEF LinksOk
  <2> QED  BY <2>1, <2>2
<1>10. \A d \in Opened : d < c
  <2> SUFFICES ASSUME NEW d \in Opened, ~(d < c) PROVE FALSE
    OBVIOUS
  <2>1. d \in Nat /\ c \in Nat /\ d # c
    BY <1>5, PoolAssumption DEF Opened
  <2>2. c < d
    BY <2>1
  <2> QED  BY <1>1, <1>5, <2>2 DEF PoolOk
<1>11. PoolOk'
  <2>1. \A d \in Conns : d < c => d \in Opened
    BY <1>2, PoolAssumption DEF Opened
  <2>2. \A d \in Opened : d <= c /\ c <= c
    BY <1>10, PoolAssumption DEF Opened
  <2>3. c <= c
    BY PoolAssumption
  <2> QED  BY <1>1, <1>2, <1>5, <2>1, <2>2, <2>3 DEF PoolOk
<1>12. UploadOk'
  <2> SUFFICES ASSUME NEW d \in Conns, upload[d] # None
               PROVE  /\ conn'[d] # None /\ conn'[d].state = "open"
                      /\ req'[upload[d]].pc = "body" /\ req'[upload[d]].conn = d
    BY <1>1 DEF UploadOk, At
  <2>1. d # c /\ upload[d] # r /\ upload[d] \in Requests
    BY <1>1, <1>2 DEF UploadOk, At, H2Types
  <2> QED  BY <1>1, <1>4, <1>7, <2>1 DEF UploadOk, At, Elsewhere
<1>13. ASSUME NEW q \in Requests
       PROVE  /\ Sent(q)' = Sent(q) /\ c \notin Sent(q) /\ Sent(q) \subseteq Opened
              /\ \A d \in Sent(q) : /\ Unanswered(q, d)' <=> Unanswered(q, d)
                                    /\ Retired(q, d)' <=> Retired(q, d)
  <2>1. Sent(q)' = Sent(q)
    BY <1>1 DEF Sent
  <2>2. Sent(q) \subseteq Opened
    BY <1>1, SentOpened
  <2>3. \A d \in Sent(q) : d \in Conns \ {c}
    BY <1>5, <2>2 DEF Opened
  <2>4. req'[q].attempt = req[q].attempt
    BY <1>7 DEF Elsewhere
  <2> QED  BY <1>4, <1>5, <2>1, <2>2, <2>3, <2>4 DEF Unanswered, Retired
<1>14. ASSUME NEW q \in Requests
       PROVE  Attended(q)'
  <2> SUFFICES ASSUME NEW d \in Conns, conn'[d] # None, conn'[d].state = "open",
                      Active(conn'[d].streams[q])
               PROVE  /\ req'[q].conn = d
                      /\ \/ req'[q].pc \in {"poll", "body"}
                         \/ req'[q].pc = "done" /\ (req'[q].rest > 0 \/ req'[q].outcome = "panicked")
    BY DEF Attended
  <2>1. d # c /\ conn'[d] = conn[d]
    BY <1>3, <1>4 DEF Active
  <2>2. /\ req[q].conn = d
        /\ \/ req[q].pc \in {"poll", "body"}
           \/ req[q].pc = "done" /\ (req[q].rest > 0 \/ req[q].outcome = "panicked")
    BY <2>1 DEF H2Inv, Attended
  <2> QED  BY <1>1, <1>7, <2>2 DEF Elsewhere, At
<1>15. ASSUME NEW q \in Requests, q # r
       PROVE  PlaceOk(q)' /\ SentOk(q)'
  <2>1. req'[q] = req[q] /\ PlaceOk(q) /\ SentOk(q) /\ creator' # q
    BY <1>6, <1>7, <1>15, NoneAssumption DEF Elsewhere, H2Inv
  <2>2. req[q].pc # "connect"
    BY <1>6, <1>15, <2>1 DEF PlaceOk, At
  <2>3. req[q].pc \in Holding => /\ req[q].conn \in Opened /\ req[q].conn # c
                                 /\ conn'[req[q].conn] = conn[req[q].conn]
    BY <1>4, <1>5, <2>1 DEF PlaceOk, Opened
  <2>4. PlaceOk(q)'
    BY <1>1, <1>5, <2>1, <2>2, <2>3 DEF PlaceOk, At, Holding
  <2>5. \A d : Present(q, d)' <=> Present(q, d)
    BY <2>1 DEF Present
  <2>6. SentOk(q)'
    BY <1>13, <2>1, <2>5 DEF SentOk, At
  <2> QED  BY <2>4, <2>6
<1>16. PlaceOk(r)' /\ SentOk(r)'
  <2>1. \A d \in Sent(r) : Retired(r, d)
    BY <1>1, NotYetSent
  <2>2. PlaceOk(r)'
    <3>1. req[r].outcome = None
      BY <1>1 DEF H2Inv, PlaceOk, At
    <3> QED  BY <1>5, <1>6, <1>7, <3>1, NoneAssumption DEF PlaceOk, At
  <2>3. \A d \in Sent(r) : d <= c
    <3>1. \A d \in Opened : d \in Nat /\ c \in Nat /\ d < c
      BY <1>10, PoolAssumption DEF Opened
    <3>2. Sent(r) \subseteq Opened
      BY <1>13
    <3>3. \A d \in Opened : d <= c
      BY <3>1
    <3> QED  BY <3>2, <3>3
  <2>4. SentOk(r)'
    BY <1>7, <1>13, <2>1, <2>3 DEF SentOk, At
  <2> QED  BY <2>2, <2>4
<1> QED  BY <1>8, <1>9, <1>11, <1>12, <1>14, <1>15, <1>16 DEF H2Inv

------------------------------------------------------------------------------
(* The critical sections of a connection's mutex.                            *)

(* The request has gone out on c, the latest of its connections.             *)
LEMMA NewlySent ==
    ASSUME H2Inv, NEW r \in Requests, NEW c \in Opened, c = req[r].conn, req[r].pc = "send",
           \A d \in Conns : Undisturbed(r, d), Sent(r)' = Sent(r) \cup {c},
           req'[r].conn = c, req'[r].attempt = req[r].attempt, req'[r].pc \in {"body", "poll"},
           conn'[c].state = "open"
    PROVE  SentOk(r)'
<1>1. LinksOk /\ SentOk(r)
  BY DEF H2Inv
<1>2. \A d \in Sent(r) : Retired(r, d) /\ d <= c /\ d \in Opened /\ d \in Conns /\ c \in Conns
  BY <1>1, NotYetSent, SentOpened DEF SentOk, Opened
<1>3. \A d \in Sent(r) : Retired(r, d)'
  BY <1>2, RetiredStays DEF Retired
<1>4. ~Retired(r, c)' /\ Present(r, c)'
  BY DEF Retired, Unanswered, Present
<1>5. \A d \in Sent(r) : d < c
  <2> SUFFICES ASSUME NEW d \in Sent(r) PROVE d < c
    OBVIOUS
  <2>1. d \in Nat /\ c \in Nat /\ d <= c /\ d # c
    BY <1>2, <1>3, <1>4, PoolAssumption
  <2> QED  BY <2>1
<1> QED  BY <1>3, <1>4, <1>5 DEF SentOk, At

(* A step of a thread in its connection's mutex, from what it does to the    *)
(* connection, the server and the thread.                                    *)
LEMMA TouchStep ==
    ASSUME H2Inv, NEW r \in Requests, NEW c \in Opened, c = req[r].conn, upload[c] \in {None, r},
           req[r].pc \in {"send", "body", "poll"},
           NEW l, NEW q, NEW s \in Seq(FrameSet), NEW u \in {None, r},
           Changes(conn[c], l, r), PeerChanges(peer[c], q, r), l.state = "open" => Linked(l, q),
           Elements(s) \subseteq Elements(inbound[c]),
           conn' = [conn EXCEPT ![c] = l], peer' = [peer EXCEPT ![c] = q],
           inbound' = [inbound EXCEPT ![c] = s], upload' = [upload EXCEPT ![c] = u],
           UNCHANGED <<pool, http1Only, creator>>,
           req' \in [Requests -> ThreadSet], Elsewhere(r), req'[r].conn = c,
           req'[r].attempt = req[r].attempt, req'[r].pc \in {"body", "poll", "evict", "done"},
           req'[r].outcome # None => req'[r].pc = "done",
           r \in Known(q) => \/ r \in Known(peer[c])
                             \/ req[r].pc = "send" /\ l.state = "open" /\ req'[r].pc \in {"body", "poll"},
           u = r <=> req'[r].pc = "body",
           u = r => l.state = "open" /\ Body[r] > 0 /\ req'[r].rest > 0,
           req'[r].pc \in {"body", "poll"} => l.streams[r] # None,
           l.state = "open" /\ Active(l.streams[r]) =>
               req'[r].pc \in {"poll", "body"} \/ req'[r].rest > 0 \/ req'[r].outcome = "panicked",
           req'[r].pc = "evict" =>
               /\ l.state = "closed"
               /\ req'[r].retry /\ r \in Known(peer[c]) /\ l.streams[r] # None /\ Body[r] = 0 =>
                      req'[r].attempt = 1 \/ ~l.streams[r].status
    PROVE  H2Inv'
<1>1. H2Types /\ LinksOk /\ UploadOk /\ PlaceOk(r) /\ SentOk(r) /\ Attended(r) /\ c \in Conns
  BY DEF H2Inv, Opened
<1>2. ConnectionTypes' /\ LinksOk' /\ \A d \in Conns : Undisturbed(r, d)
  BY <1>1, Touching
<1>3. H2Types'
  BY <1>1, <1>2 DEF H2Types, ConnectionTypes
<1>4. /\ conn'[c] = l /\ peer'[c] = q /\ upload'[c] = u
      /\ \A d \in Conns \ {c} : conn'[d] = conn[d] /\ peer'[d] = peer[d] /\ upload'[d] = upload[d]
  BY <1>1 DEF H2Types
<1>5. SentOk(r)'
  <2>1. CASE r \in Known(q) /\ r \notin Known(peer[c])
    <3>1. Sent(r)' = Sent(r) \cup {c}
      BY <1>1, <1>4, <2>1 DEF Sent, Known
    <3> QED  BY <1>2, <1>4, <2>1, <3>1, NewlySent
  <2>2. CASE r \in Known(q) <=> r \in Known(peer[c])
    <3>1. Sent(r)' = Sent(r)
      BY <1>1, <1>4, <2>2 DEF Sent, Known
    <3>2. \A d : Present(r, d) => d = c /\ Present(r, d)'
      BY DEF Present
    <3>3. c \in Sent(r) => r \in Known(peer[c])
      BY DEF Sent, Known
    <3>4. ASSUME req'[r].pc = "evict", req'[r].retry, req'[r].attempt = 0, NEW d \in Sent(r)
          PROVE  Unanswered(r, d)'
      <4>1. d = c
        BY <1>1, <3>2, <3>4 DEF SentOk, Retired
      <4> QED  BY <1>4, <3>3, <3>4, <4>1 DEF Unanswered
    <3> QED  BY <1>1, <1>2, <3>1, <3>2, <3>4, OwnSent
  <2> QED  BY <2>1, <2>2 DEF PeerChanges
<1>6. PlaceOk(r)'
  <2>1. c \in Opened'
    BY <1>1, <1>2 DEF Undisturbed, Opened
  <2>2. creator' # r
    BY <1>1 DEF PlaceOk, At
  <2> QED  BY <1>4, <2>1, <2>2 DEF PlaceOk, At
<1>7. Attended(r)'
  <2> SUFFICES ASSUME NEW d \in Conns, conn'[d] # None, conn'[d].state = "open",
                      Active(conn'[d].streams[r])
               PROVE  /\ req'[r].conn = d
                      /\ \/ req'[r].pc \in {"poll", "body"}
                         \/ req'[r].pc = "done" /\ (req'[r].rest > 0 \/ req'[r].outcome = "panicked")
    BY DEF Attended
  <2>1. CASE d = c
    BY <1>4, <2>1
  <2>2. CASE d # c
    <3>1. conn[d] = conn'[d]
      BY <1>4, <2>2
    <3> QED  BY <1>1, <2>2, <3>1 DEF Attended
  <2> QED  BY <2>1, <2>2
<1>8. Uploads(r)'
  <2> SUFFICES ASSUME NEW d \in Conns, upload'[d] = r
               PROVE  conn'[d] # None /\ conn'[d].state = "open" /\ req'[r].pc = "body" /\ req'[r].conn = d
    BY DEF Uploads, At
  <2>1. CASE d = c
    <3>1. l # None
      BY NoneAssumption DEF Changes
    <3> QED  BY <1>4, <2>1, <3>1, NoneAssumption
  <2>2. CASE d # c
    BY <1>1, <1>4, <2>2, NoneAssumption DEF UploadOk
  <2> QED  BY <2>1, <2>2
<1>9. Others(r)
  BY DEF Others, Elsewhere
<1> QED  BY <1>2, <1>3, <1>5, <1>6, <1>7, <1>8, <1>9, QuietStep

(* What the operations of a connection amount to for the others.             *)

(* What a frame does to an open connection is such a change.                 *)
LEMMA OpenFollows ==
    ASSUME NEW k \in ConnectionSet, NEW l, NEW r, k.state = "open", Follows(k, l), SameStreams(k, l)
    PROVE  Changes(k, l, r)
BY DEF Follows, SameStreams, Streams, Changes

(* A server that keeps its streams has changed none of another's.            *)
LEMMA KeepsChanges ==
    ASSUME NEW p, NEW q, NEW r, Keeps(p, q)
    PROVE  PeerChanges(p, q, r) /\ (r \in Known(q) => r \in Known(p))
BY DEF Keeps, PeerChanges

(* The streams that are left are still the server's.                         *)
LEMMA Relinked ==
    ASSUME NEW k \in ConnectionSet, NEW p, NEW q, NEW l, Linked(k, p), Keeps(p, q),
           l \in ConnectionSet, Streams(l) \subseteq Streams(k),
           l.pending # None => l.pending = k.pending \/ p.streams[l.pending.stream] # None
    PROVE  Linked(l, q)
<1>1. l.pending # None => l.pending.stream \in Requests
  BY DEF ConnectionSet, BlockSet
<1>2. \A r \in Requests : q.streams[r] # None <=> p.streams[r] # None
  BY DEF Keeps, Known
<1> QED  BY <1>1, <1>2 DEF Linked, Streams

(* After a frame, the client's streams are the server's.                     *)
LEMMA ReportLinked ==
    ASSUME NEW k \in ConnectionSet, NEW f \in FrameSet, NEW p \in PeerSet, NEW step, Fits(p, f),
           Linked(k, p), Reports(k, f, p, step)
    PROVE  /\ Keeps(p, PeerReads(p, step.out)) /\ Linked(step.conn, PeerReads(p, step.out))
           /\ step.conn \in ConnectionSet
<1>1. Keeps(p, PeerReads(p, step.out))
  BY ReadsWell DEF Reports
<1>2. /\ step.conn \in ConnectionSet /\ Streams(step.conn) \subseteq Streams(k)
  BY DEF Reports, Follows
<1>3. step.conn.pending # None => \/ step.conn.pending = k.pending
                                  \/ p.streams[step.conn.pending.stream] # None
  BY DEF Reports, Fits
<1> QED  BY <1>1, <1>2, <1>3, Relinked

(* HEADERS open the stream on both sides, with no answer to it.              *)
LEMMA Opening ==
    ASSUME NEW k \in ConnectionSet, k.state = "open", NEW p \in PeerSet, Linked(k, p),
           NEW r \in Requests, NEW end \in BOOLEAN
    PROVE  LET step == OpenStream(k, r, end)
               l == step.conn
               q == PeerReads(p, step.out)
           IN  /\ Changes(k, l, r) /\ l.state = "open" /\ l.streams[r] # None /\ ~l.streams[r].status
               /\ PeerChanges(p, q, r) /\ r \in Known(q) /\ Linked(l, q)
<1> DEFINE new == NewStream(k.initial)
           s == IF end THEN MarkLocalEnd(new) ELSE new
           l == [k EXCEPT !.streams[r] = s]
           f == Headers(r, end, TRUE)
           t == [PeerStream EXCEPT !.endIn = end, !.recv = p.initial]
           q == [p EXCEPT !.streams[r] = t]
<1>1. OpenStream(k, r, end).conn = l /\ OpenStream(k, r, end).out = <<f>>
  BY DEF OpenStream, Step
<1>2. new \in StreamSet /\ new.status = FALSE
  BY WindowsAssumption DEF ConnectionSet, NewStream, StreamSet
<1>3. s \in StreamSet /\ ~s.status
  BY <1>2, MarkLocal
<1> HIDE DEF s, new
<1>4. /\ l \in ConnectionSet /\ l.state = "open" /\ l.pending = k.pending /\ l.streams[r] = s
      /\ \A x \in Requests \ {r} : l.streams[x] = k.streams[x]
  BY <1>3 DEF ConnectionSet
<1>5. PeerReads(p, <<f>>) = q
  <2>1. <<f>>[1] = f /\ Len(<<f>>) = 1 /\ <<f>> # <<>>
    OBVIOUS
  <2>2. f.type = "headers" /\ f.stream = r /\ f.end = end
    BY DEF Headers
  <2> HIDE DEF f
  <2>3. PeerReads(p, <<f>>) = PeerGets(p, f)
    BY <2>1 DEF PeerReads
  <2> QED  BY <2>2, <2>3 DEF PeerGets
<1>6. t \in PeerStreamSet
  <2>1. PeerStream \in PeerStreamSet
    BY WindowsAssumption DEF PeerStream, PeerStreamSet
  <2>2. \A x \in PeerStreamSet, n \in Int : /\ [x EXCEPT !.endIn = TRUE, !.recv = n] \in PeerStreamSet
                                            /\ [x EXCEPT !.endIn = FALSE, !.recv = n] \in PeerStreamSet
    BY DEF PeerStreamSet
  <2>3. p.initial \in Int
    BY DEF PeerSet
  <2>4. CASE end = TRUE
    BY <2>1, <2>2, <2>3, <2>4
  <2>5. CASE end = FALSE
    BY <2>1, <2>2, <2>3, <2>5
  <2> QED  BY <2>4, <2>5
<1> HIDE DEF t
<1>7. /\ q \in PeerSet /\ q.settings = p.settings /\ q.block = p.block
      /\ q.streams[r] = t /\ \A x \in Requests \ {r} : q.streams[x] = p.streams[x]
  BY <1>6 DEF PeerSet
<1> HIDE DEF l, q, f
<1>8. Changes(k, l, r)
  BY <1>4 DEF Changes
<1>9. PeerChanges(p, q, r) /\ r \in Known(q)
  BY <1>6, <1>7, PeerAssumption DEF PeerChanges, Known
<1>10. Linked(l, q)
  <2>1. k.pending # None => k.pending.stream \in Requests /\ p.streams[k.pending.stream] # None
    BY DEF ConnectionSet, BlockSet, Linked
  <2> QED  BY <1>4, <1>6, <1>7, <2>1, PeerAssumption DEF Linked
<1> QED  BY <1>1, <1>3, <1>4, <1>5, <1>8, <1>9, <1>10, NoneAssumption

(* DATA opens nothing.                                                       *)
LEMMA BodySending ==
    ASSUME NEW k \in ConnectionSet, k.state = "open", NEW p \in PeerSet, Linked(k, p),
           NEW r \in Requests, k.streams[r] # None, NEW units \in Nat, NEW end \in BOOLEAN
    PROVE  LET step == SendData(k, r, units, end)
               l == step.conn
               q == PeerReads(p, step.out)
           IN  /\ Changes(k, l, r) /\ l.state = "open" /\ l.streams[r] # None
               /\ Keeps(p, q) /\ Linked(l, q)
<1> DEFINE s == [k.streams[r] EXCEPT !.send = @ - units]
           sent == [k EXCEPT !.send = @ - units, !.streams[r].send = @ - units]
           l == IF end THEN [sent EXCEPT !.streams[r] = MarkLocalEnd(@)] ELSE sent
           less == [k EXCEPT !.send = @ - units]
           f == Data(r, units, end)
           q == PeerReads(p, <<f>>)
<1>1. SendData(k, r, units, end).conn = l /\ SendData(k, r, units, end).out = <<f>>
  BY DEF SendData, Step
<1>2. k.streams[r] \in StreamSet
  BY DEF ConnectionSet
<1>3. s \in StreamSet /\ (Active(s) => Active(k.streams[r]))
  BY <1>2 DEF StreamSet, Active
<1>4. less \in ConnectionSet /\ less.streams = k.streams /\ less.state = k.state /\ less.pending = k.pending
  BY DEF ConnectionSet
<1>5. sent = [less EXCEPT !.streams[r] = s]
  BY DEF ConnectionSet
<1> HIDE DEF less, s, sent
<1>6. /\ sent \in ConnectionSet /\ sent.state = "open" /\ sent.pending = k.pending /\ sent.streams[r] = s
      /\ \A x \in Requests \ {r} : sent.streams[x] = k.streams[x]
  BY <1>3, <1>4, <1>5 DEF ConnectionSet
<1>7. MarkLocalEnd(s) \in StreamSet
  BY <1>3, MarkLocal
<1>8. /\ l \in ConnectionSet /\ l.state = "open" /\ l.pending = k.pending /\ l.streams[r] \in StreamSet
      /\ \A x \in Requests \ {r} : l.streams[x] = k.streams[x]
  BY <1>3, <1>6, <1>7 DEF ConnectionSet
<1> HIDE DEF l, f
<1>9. Answers(p, <<f>>)
  <2>1. p.streams[r] # None
    BY DEF Linked
  <2>2. Written(p, f)
    BY <2>1 DEF Written, f
  <2>3. <<f>>[1] = f
    OBVIOUS
  <2> QED  BY <2>2, <2>3 DEF Answers
<1>10. Keeps(p, q)
  BY <1>9, ReadsWell
<1> HIDE DEF q
<1>11. Changes(k, l, r)
  BY <1>8 DEF Changes
<1>12. l.streams[r] # None
  BY <1>8, NoneAssumption
<1>13. Linked(l, q)
  <2>1. Streams(l) \subseteq Streams(k)
    BY <1>8 DEF Streams
  <2> QED  BY <1>8, <1>10, <2>1, Relinked
<1> QED  BY <1>1, <1>8, <1>10, <1>11, <1>12, <1>13 DEF q

(* A stream that is forgotten is no other thread's.                          *)
LEMMA Forgetting ==
    ASSUME NEW k \in ConnectionSet, NEW l, NEW p, NEW q, NEW r \in Requests,
           Changes(k, l, r)
    PROVE  LET m == Forget(l, r)
           IN  /\ Changes(k, m, r) /\ m.state = l.state /\ m.streams[r] = None
               /\ Linked(l, q) => Linked(m, q)
<1> DEFINE m == Forget(l, r)
<1>1. l \in ConnectionSet
  BY DEF Changes
<1>2. /\ m \in ConnectionSet /\ m.state = l.state /\ m.pending = l.pending /\ m.streams[r] = None
      /\ \A x \in Requests \ {r} : m.streams[x] = l.streams[x]
  BY <1>1 DEF Forget, ConnectionSet
<1> HIDE DEF m
<1>3. Changes(k, m, r)
  BY <1>2 DEF Changes
<1>4. Linked(l, q) => Linked(m, q)
  BY <1>2 DEF Linked
<1> QED  BY <1>2, <1>3, <1>4 DEF m

(* What a thread at a connection knows of it.                                *)
LEMMA AtConnection ==
    ASSUME H2Inv, NEW r \in Requests, NEW c, c = req[r].conn, req[r].pc \in {"send", "body", "poll"}
    PROVE  /\ H2Types /\ c \in Opened /\ c \in Conns /\ conn[c] \in ConnectionSet /\ peer[c] \in PeerSet
           /\ inbound[c] \in Seq(FrameSet)
           /\ conn[c].state = "open" => Linked(conn[c], peer[c])
           /\ req[r].outcome = None
           /\ req[r].pc \in {"body", "poll"} => conn[c].streams[r] # None
           /\ At(r, "body") => /\ upload[c] = r /\ Body[r] > 0 /\ req[r].rest > 0
                               /\ conn[c].state = "open"
           /\ \A f \in Elements(inbound[c]) : f \in FrameSet /\ Fits(peer[c], f)
<1>1. H2Types /\ LinksOk /\ PlaceOk(r) /\ UploadOk
  BY DEF H2Inv
<1>2. /\ c \in Opened /\ c \in Conns /\ conn[c] \in ConnectionSet /\ peer[c] \in PeerSet
      /\ inbound[c] \in Seq(FrameSet)
  BY <1>1 DEF PlaceOk, Holding, Opened, H2Types
<1>3. conn[c].state = "open" => Linked(conn[c], peer[c])
  BY <1>1, <1>2 DEF LinksOk, Opened
<1>4. /\ req[r].outcome = None
      /\ req[r].pc \in {"body", "poll"} => conn[c].streams[r] # None
  BY <1>1 DEF PlaceOk, At
<1>5. At(r, "body") => upload[c] = r /\ Body[r] > 0 /\ req[r].rest > 0 /\ conn[c].state = "open"
  BY <1>1, <1>2, NoneAssumption DEF PlaceOk, UploadOk
<1>6. \A f \in Elements(inbound[c]) : f \in FrameSet /\ Fits(peer[c], f)
  BY <1>1, <1>2, ElementsIn DEF LinksOk
<1> QED  BY <1>1, <1>2, <1>3, <1>4, <1>5, <1>6

(* Nothing of a connection is touched, or it is closed by this step.         *)
LEMMA Unchanged ==
    ASSUME NEW k \in ConnectionSet, NEW p \in PeerSet, NEW r
    PROVE  Changes(k, k, r) /\ PeerChanges(p, p, r)
BY DEF Changes, ConnectionSet, PeerChanges

(* What is not read any more.                                                *)
LEMMA NoElements == Elements(<<>>) = {} /\ <<>> \in Seq(FrameSet)
BY EmptySeq DEF Elements

(* send_h2_request opens a stream and may keep the mutex for its body.       *)
LEMMA SendRequestKeeps ==
    ASSUME H2Inv, NEW r \in Requests, SendRequest(r)
    PROVE  H2Inv'
<1>1. PICK c \in Conns : /\ Locked(r, c) /\ conn[c].state = "open"
                         /\ Apply(c, OpenStream(conn[c], r, Body[r] = 0))
                         /\ upload' = [upload EXCEPT ![c] = IF Body[r] = 0 THEN None ELSE r]
  BY DEF SendRequest
<1>2. c = req[r].conn /\ upload[c] = None /\ req[r].pc = "send"
  BY <1>1 DEF Locked, SendRequest, At
<1>3. /\ H2Types /\ c \in Opened /\ conn[c] \in ConnectionSet /\ peer[c] \in PeerSet
      /\ inbound[c] \in Seq(FrameSet) /\ Linked(conn[c], peer[c]) /\ req[r].outcome = None
  BY <1>1, <1>2, AtConnection
<1> DEFINE step == OpenStream(conn[c], r, Body[r] = 0)
           l == step.conn
           q == PeerReads(peer[c], step.out)
           pc == IF Body[r] = 0 THEN "poll" ELSE "body"
           u == IF Body[r] = 0 THEN None ELSE r
<1>4. /\ Changes(conn[c], l, r) /\ l.state = "open" /\ l.streams[r] # None
      /\ PeerChanges(peer[c], q, r) /\ r \in Known(q) /\ Linked(l, q)
  BY <1>1, <1>3, Opening
<1>5. /\ conn' = [conn EXCEPT ![c] = l] /\ peer' = [peer EXCEPT ![c] = q]
  BY <1>1 DEF Apply
<1>6. /\ req' \in [Requests -> ThreadSet] /\ Elsewhere(r) /\ req'[r].pc = pc /\ req'[r].conn = c
      /\ req'[r].attempt = req[r].attempt /\ req'[r].outcome = None /\ req'[r].rest = Body[r]
  <2> DEFINE t == [req[r] EXCEPT !.pc = pc, !.rest = Body[r], !.seen = FALSE]
  <2>1. req' = [req EXCEPT ![r] = t]
    BY <1>3 DEF SendRequest, H2Types
  <2>2. pc \in Holding /\ Body[r] \in Int
    BY PoolAssumption DEF Holding
  <2> HIDE DEF pc
  <2>3. /\ t \in ThreadSet /\ t.pc = pc /\ t.conn = req[r].conn /\ t.attempt = req[r].attempt
        /\ t.outcome = req[r].outcome /\ t.rest = Body[r]
    BY <1>3, <2>2 DEF H2Types, ThreadSet
  <2> HIDE DEF t
  <2> QED  BY <1>2, <1>3, <2>1, <2>3 DEF H2Types, Elsewhere
<1>7. UNCHANGED <<pool, http1Only, creator, inbound>>
  BY DEF SendRequest, Rest
<1>8. inbound' = [inbound EXCEPT ![c] = inbound[c]]
  BY <1>3, <1>7 DEF H2Types
<1>9. /\ upload' = [upload EXCEPT ![c] = u] /\ u \in {None, r} /\ pc \in {"body", "poll"}
      /\ u = r <=> pc = "body"
      /\ u = r => Body[r] > 0
  BY <1>1, NoneAssumption, PoolAssumption
<1> HIDE DEF l, q, pc, u, step
<1> QED  BY <1>2, <1>3, <1>4, <1>5, <1>6, <1>7, <1>8, <1>9, TouchStep

(* Its failures before and at the HEADERS open none at the server.           *)
LEMMA SendRequestFailsKeeps ==
    ASSUME H2Inv, NEW r \in Requests, SendRequestFails(r)
    PROVE  H2Inv'
<1>1. PICK c \in Conns :
        /\ Locked(r, c)
        /\ \/ /\ conn[c].state = "closed"
              /\ Evicts(r, TRUE) /\ UNCHANGED conn
           \/ /\ conn[c].state = "open"
              /\ Ends(r, "failed") /\ UNCHANGED conn
           \/ /\ conn[c].state = "open"
              /\ conn' = [conn EXCEPT ![c] = [OpenStream(conn[c], r, FALSE).conn
                                              EXCEPT !.state = "closed"]]
              /\ Evicts(r, TRUE)
  BY DEF SendRequestFails
<1>2. c = req[r].conn /\ upload[c] = None /\ req[r].pc = "send"
  BY <1>1 DEF Locked, SendRequestFails, At
<1>3. /\ H2Types /\ c \in Opened /\ conn[c] \in ConnectionSet /\ peer[c] \in PeerSet
      /\ inbound[c] \in Seq(FrameSet) /\ req[r].outcome = None
      /\ conn[c].state = "open" => Linked(conn[c], peer[c])
  BY <1>2, AtConnection
<1>4. /\ UNCHANGED <<upload, pool, http1Only, creator, peer>>
      /\ Unread(c, conn'[c], inbound[c])
  BY <1>2 DEF SendRequestFails, Rest, Locked
<1>5. PICK s \in Seq(FrameSet) : /\ Elements(s) \subseteq Elements(inbound[c])
                                 /\ inbound' = [inbound EXCEPT ![c] = s]
  BY <1>3, <1>4, NoElements DEF Unread
<1>6. /\ upload' = [upload EXCEPT ![c] = None] /\ peer' = [peer EXCEPT ![c] = peer[c]]
  BY <1>2, <1>3, <1>4 DEF H2Types
<1>7. /\ Changes(conn[c], conn[c], r) /\ PeerChanges(peer[c], peer[c], r) /\ r # None
  BY <1>3, Unchanged, NoneAssumption
<1>8. \A d \in Sent(r) : Retired(r, d)
  BY <1>2, NotYetSent
<1>9. r \in Known(peer[c]) => req[r].attempt = 1
  BY <1>3, <1>8 DEF Sent, Known, Retired, Opened
<1>10. CASE Ends(r, "failed") /\ UNCHANGED conn
  <2>1. /\ req' \in [Requests -> ThreadSet] /\ Elsewhere(r) /\ req'[r].pc = "done" /\ req'[r].conn = c
        /\ req'[r].attempt = req[r].attempt
    BY <1>2, <1>3, <1>10, EndsStep DEF Outcomes
  <2>2. conn' = [conn EXCEPT ![c] = conn[c]]
    BY <1>3, <1>10 DEF H2Types
  <2>3. ~(conn[c].state = "open" /\ Active(conn[c].streams[r]))
    BY <1>2, <1>3 DEF H2Inv, Attended, Opened
  <2> QED  BY <1>2, <1>3, <1>4, <1>5, <1>6, <1>7, <2>1, <2>2, <2>3, TouchStep
<1>11. ASSUME Evicts(r, TRUE)
       PROVE  /\ req' \in [Requests -> ThreadSet] /\ Elsewhere(r) /\ req'[r].pc = "evict" /\ req'[r].conn = c
              /\ req'[r].attempt = req[r].attempt /\ req'[r].outcome = None
  BY <1>2, <1>3, <1>11, EvictsStep
<1>12. CASE conn[c].state = "closed" /\ Evicts(r, TRUE) /\ UNCHANGED conn
  <2>1. conn' = [conn EXCEPT ![c] = conn[c]]
    BY <1>3, <1>12 DEF H2Types
  <2>2. /\ req' \in [Requests -> ThreadSet] /\ Elsewhere(r) /\ req'[r].pc = "evict" /\ req'[r].conn = c
        /\ req'[r].attempt = req[r].attempt /\ req'[r].outcome = None
    BY <1>11, <1>12
  <2>3. conn[c].state = "closed" /\ upload[c] \in {None, r}
    BY <1>2, <1>12
  <2>4. req'[r].retry /\ r \in Known(peer[c]) /\ conn[c].streams[r] # None /\ Body[r] = 0 =>
            req'[r].attempt = 1 \/ ~conn[c].streams[r].status
    BY <1>9, <2>2
  <2>5. None # r /\ "closed" # "open" /\ "evict" \notin {"body", "poll"} /\ UNCHANGED <<pool, http1Only, creator>>
    BY <1>4, <1>7
  <2> QED  BY <1>2, <1>3, <1>5, <1>6, <1>7, <2>1, <2>2, <2>3, <2>4, <2>5, TouchStep
<1>13. CASE /\ conn[c].state = "open" /\ Evicts(r, TRUE)
            /\ conn' = [conn EXCEPT ![c] = [OpenStream(conn[c], r, FALSE).conn
                                            EXCEPT !.state = "closed"]]
  <2> DEFINE l == OpenStream(conn[c], r, FALSE).conn
             m == [l EXCEPT !.state = "closed"]
  <2>1. Changes(conn[c], l, r)
    BY <1>3, <1>13, Opening
  <2>2. conn' = [conn EXCEPT ![c] = m]
    BY <1>13
  <2> HIDE DEF l
  <2>3. m \in ConnectionSet /\ m.streams = l.streams /\ m.state = "closed"
    BY <2>1 DEF Changes, ConnectionSet
  <2> HIDE DEF m
  <2>4. Changes(conn[c], m, r)
    BY <1>13, <2>1, <2>3 DEF Changes
  <2>5. /\ req' \in [Requests -> ThreadSet] /\ Elsewhere(r) /\ req'[r].pc = "evict" /\ req'[r].conn = c
        /\ req'[r].attempt = req[r].attempt /\ req'[r].outcome = None
    BY <1>11, <1>13
  <2>6. upload[c] \in {None, r}
    BY <1>2
  <2>7. req'[r].retry /\ r \in Known(peer[c]) /\ m.streams[r] # None /\ Body[r] = 0 =>
            req'[r].attempt = 1 \/ ~m.streams[r].status
    BY <1>9, <2>5
  <2>8. None # r /\ "closed" # "open" /\ "evict" \notin {"body", "poll"} /\ UNCHANGED <<pool, http1Only, creator>>
    BY <1>4, <1>7
  <2> QED  BY <1>2, <1>3, <1>5, <1>6, <1>7, <2>2, <2>3, <2>4, <2>5, <2>6, <2>7, <2>8, TouchStep
<1> QED  BY <1>1, <1>10, <1>12, <1>13

(* The mutex is given back with the last unit of the body.                   *)
LEMMA SendBodyKeeps ==
    ASSUME H2Inv, NEW r \in Requests, SendBody(r)
    PROVE  H2Inv'
<1>1. PICK c : c = req[r].conn
  OBVIOUS
<1>2. /\ H2Types /\ c \in Opened /\ conn[c] \in ConnectionSet /\ peer[c] \in PeerSet
      /\ inbound[c] \in Seq(FrameSet) /\ Linked(conn[c], peer[c]) /\ req[r].outcome = None
      /\ conn[c].streams[r] # None /\ upload[c] = r /\ Body[r] > 0 /\ conn[c].state = "open"
      /\ req[r].pc = "body" /\ req[r].rest > 0
  BY <1>1, AtConnection DEF SendBody, At
<1>3. PICK units : units = IF Available(conn[c], r) < req[r].rest THEN Available(conn[c], r) ELSE req[r].rest
  OBVIOUS
<1>4. PICK end \in BOOLEAN : end = (units = req[r].rest)
  OBVIOUS
<1> DEFINE step == SendData(conn[c], r, units, end)
           l == step.conn
           q == PeerReads(peer[c], step.out)
           pc == IF end THEN "poll" ELSE "body"
           u == IF end THEN None ELSE r
<1>5. /\ units > 0 /\ Apply(c, step)
      /\ req' = [req EXCEPT ![r].rest = @ - units, ![r].pc = pc]
      /\ upload' = [upload EXCEPT ![c] = u] /\ UNCHANGED <<pool, http1Only, creator, inbound>>
  BY <1>1, <1>3, <1>4 DEF SendBody, Rest
<1>6. units \in Nat /\ (~end => req[r].rest - units > 0)
  <2>1. conn[c].streams[r] \in StreamSet
    BY <1>2 DEF ConnectionSet
  <2>2. conn[c].send \in Int /\ conn[c].streams[r].send \in Int /\ req[r].rest \in Int
    BY <1>2, <2>1 DEF ConnectionSet, StreamSet, H2Types, ThreadSet
  <2>3. Available(conn[c], r) \in Int
    BY <2>2 DEF Available
  <2>4. units > 0 /\ (~end => units # req[r].rest)
    BY <1>4, <1>5
  <2>5. \A a, b, n \in Int : /\ (n = IF a < b THEN a ELSE b) /\ n > 0 => n \in Nat
                            /\ (n = IF a < b THEN a ELSE b) /\ n # b => b - n > 0
    OBVIOUS
  <2>6. units \in Int
    BY <1>3, <2>2, <2>3
  <2> QED  BY <1>3, <2>2, <2>3, <2>4, <2>5, <2>6
<1>7. /\ Changes(conn[c], l, r) /\ l.state = "open" /\ l.streams[r] # None
      /\ Keeps(peer[c], q) /\ Linked(l, q)
  BY <1>2, <1>6, BodySending
<1>8. conn' = [conn EXCEPT ![c] = l] /\ peer' = [peer EXCEPT ![c] = q]
  BY <1>5 DEF Apply
<1>9. /\ req' \in [Requests -> ThreadSet] /\ Elsewhere(r) /\ req'[r].pc = pc /\ req'[r].conn = c
      /\ req'[r].attempt = req[r].attempt /\ req'[r].outcome = None /\ (~end => req'[r].rest > 0)
  <2>0. req[r] \in ThreadSet /\ req[r].rest - units \in Int
    BY <1>2, <1>6 DEF H2Types, ThreadSet
  <2>4. PICK n \in Int : n = req[r].rest - units
    BY <2>0
  <2> DEFINE t == [req[r] EXCEPT !.rest = n, !.pc = pc]
  <2>1. req' = [req EXCEPT ![r] = t]
    BY <1>2, <1>5, <2>4 DEF H2Types
  <2>2. pc \in Holding
    BY DEF Holding
  <2> HIDE DEF pc
  <2>3. /\ t \in ThreadSet /\ t.pc = pc /\ t.conn = req[r].conn /\ t.attempt = req[r].attempt
        /\ t.outcome = req[r].outcome /\ t.rest = n
    BY <2>0, <2>2 DEF ThreadSet
  <2> HIDE DEF t
  <2> QED  BY <1>1, <1>2, <1>6, <2>1, <2>3, <2>4 DEF H2Types, Elsewhere
<1>10. inbound' = [inbound EXCEPT ![c] = inbound[c]]
  BY <1>2, <1>5 DEF H2Types
<1>11. u \in {None, r} /\ pc \in {"body", "poll"} /\ (u = r <=> pc = "body")
  BY NoneAssumption
<1>12. PeerChanges(peer[c], q, r) /\ (r \in Known(q) => r \in Known(peer[c]))
  BY <1>7, KeepsChanges
<1> HIDE DEF l, q, pc, u, step
<1> QED  BY <1>1, <1>2, <1>5, <1>7, <1>8, <1>9, <1>10, <1>11, <1>12, TouchStep DEF u, pc

(* What BodyFails changes.                                                   *)
LEMMA BodyFailsStep ==
    ASSUME H2Types, NEW r \in Requests, NEW error, BodyFails(r, error), req[r].outcome = None
    PROVE  /\ req' \in [Requests -> ThreadSet] /\ Elsewhere(r) /\ req'[r].conn = req[r].conn
           /\ req'[r].attempt = req[r].attempt /\ req'[r].pc \in {"evict", "done"}
           /\ req'[r].rest = req[r].rest
           /\ req'[r].pc = "evict" => error.scope \in {"connection", "io"} /\ req'[r].outcome = None
<1>1. CASE error.scope \in {"connection", "io"}
  <2>1. Evicts(r, TRUE)
    BY <1>1 DEF BodyFails
  <2> QED  BY <1>1, <2>1, EvictsStep
<1>2. CASE error.scope \notin {"connection", "io"}
  <2>1. Ends(r, "panicked") \/ Ends(r, "failed")
    BY <1>2 DEF BodyFails
  <2> QED  BY <2>1, EndsStep DEF Outcomes
<1> QED  BY <1>1, <1>2

(* The upload of r ends without the rest of the body.                        *)
LEMMA BodyCut ==
    ASSUME H2Inv, NEW r \in Requests, NEW c, c = req[r].conn, At(r, "body"), NEW error, BodyFails(r, error),
           NEW l, NEW q, NEW s \in Seq(FrameSet),
           Changes(conn[c], l, r), Keeps(peer[c], q), l.state = "open" => Linked(l, q),
           Elements(s) \subseteq Elements(inbound[c]),
           conn' = [conn EXCEPT ![c] = l], peer' = [peer EXCEPT ![c] = q],
           inbound' = [inbound EXCEPT ![c] = s], upload' = [upload EXCEPT ![c] = None],
           UNCHANGED <<pool, http1Only, creator>>,
           error.scope \in {"connection", "io"} => l.state = "closed"
    PROVE  H2Inv'
<1>1. req[r].pc = "body"
  BY DEF At
<1>2. H2Types /\ c \in Opened /\ req[r].outcome = None /\ upload[c] = r /\ Body[r] > 0 /\ req[r].rest > 0
  BY <1>1, AtConnection
<1>3. /\ req' \in [Requests -> ThreadSet] /\ Elsewhere(r) /\ req'[r].conn = c
      /\ req'[r].attempt = req[r].attempt /\ req'[r].pc \in {"evict", "done"} /\ req'[r].rest > 0
      /\ req'[r].pc = "evict" => l.state = "closed" /\ req'[r].outcome = None
  BY <1>2, BodyFailsStep
<1>4. PeerChanges(peer[c], q, r) /\ (r \in Known(q) => r \in Known(peer[c]))
  BY KeepsChanges
<1>5. r # None /\ Body[r] # 0
  BY <1>2, NoneAssumption, PoolAssumption
<1> QED  BY <1>1, <1>2, <1>3, <1>4, <1>5, TouchStep

(* An answer ended before the body was sent leaves the stream where it is.   *)
LEMMA BodyCutShortKeeps ==
    ASSUME H2Inv, NEW r \in Requests, BodyCutShort(r)
    PROVE  H2Inv'
<1>1. PICK c : c = req[r].conn
  OBVIOUS
<1>2. At(r, "body") /\ BodyFails(r, StreamError(r)) /\ upload' = [upload EXCEPT ![c] = None]
      /\ UNCHANGED <<conn, pool, http1Only, creator, inbound, peer>>
  BY <1>1 DEF BodyCutShort, Rest, Network
<1>3. /\ H2Types /\ c \in Opened /\ conn[c] \in ConnectionSet /\ peer[c] \in PeerSet
      /\ inbound[c] \in Seq(FrameSet) /\ Linked(conn[c], peer[c])
  BY <1>1, <1>2, AtConnection DEF At
<1>4. Changes(conn[c], conn[c], r) /\ Keeps(peer[c], peer[c])
  BY <1>3, Unchanged DEF Keeps
<1>5. /\ conn' = [conn EXCEPT ![c] = conn[c]] /\ peer' = [peer EXCEPT ![c] = peer[c]]
      /\ inbound' = [inbound EXCEPT ![c] = inbound[c]]
  BY <1>2, <1>3 DEF H2Types
<1>6. StreamError(r).scope \notin {"connection", "io"}
  BY DEF StreamError
<1> QED  BY <1>1, <1>2, <1>3, <1>4, <1>5, <1>6, BodyCut

(* The timeout of the socket closes the connection.                          *)
LEMMA PumpTimesOutKeeps ==
    ASSUME H2Inv, NEW r \in Requests, PumpTimesOut(r)
    PROVE  H2Inv'
<1>1. PICK c : c = req[r].conn
  OBVIOUS
<1> DEFINE l == [conn[c] EXCEPT !.state = "closed"]
<1>2. /\ At(r, "body") /\ BodyFails(r, IoError) /\ upload' = [upload EXCEPT ![c] = None]
      /\ conn' = [conn EXCEPT ![c] = l]
      /\ UNCHANGED <<pool, http1Only, creator, inbound, peer>>
  BY <1>1 DEF PumpTimesOut, BodyBlocked, Rest, Network
<1>3. /\ H2Types /\ c \in Opened /\ conn[c] \in ConnectionSet /\ peer[c] \in PeerSet
      /\ inbound[c] \in Seq(FrameSet) /\ conn[c].state = "open"
  BY <1>1, <1>2, AtConnection DEF At
<1>4. Follows(conn[c], l) /\ SameStreams(conn[c], l) /\ l.state = "closed"
  BY <1>3, NothingDone, Closing
<1> HIDE DEF l
<1>5. Changes(conn[c], l, r) /\ Keeps(peer[c], peer[c])
  BY <1>3, <1>4, OpenFollows DEF Keeps
<1>6. /\ peer' = [peer EXCEPT ![c] = peer[c]]
      /\ inbound' = [inbound EXCEPT ![c] = inbound[c]]
  BY <1>2, <1>3 DEF H2Types
<1> QED  BY <1>1, <1>2, <1>3, <1>4, <1>5, <1>6, BodyCut

(* The next frame, what is left after it, and what a closed connection       *)
(* leaves of that.                                                           *)
LEMMA NextFrame ==
    ASSUME NEW s \in Seq(FrameSet), s # <<>>
    PROVE  /\ Head(s) \in Elements(s)
           /\ Tail(s) \in Seq(FrameSet) /\ Elements(Tail(s)) \subseteq Elements(s)
BY PopProperties, HeadTailProperties, LenProperties DEF Elements

(* The frames that are left are some of those that were there.               *)
LEMMA Dropped ==
    ASSUME NEW c, NEW l, NEW s \in Seq(FrameSet), NEW frames \in Seq(FrameSet),
           Elements(frames) \subseteq Elements(s), Unread(c, l, frames)
    PROVE  \E rest \in Seq(FrameSet) : /\ Elements(rest) \subseteq Elements(s)
                                       /\ inbound' = [inbound EXCEPT ![c] = rest]
BY NoElements DEF Unread

(* A frame read for a blocked body, whoever it is for.                       *)
LEMMA PumpBodyKeeps ==
    ASSUME H2Inv, NEW r \in Requests, PumpBody(r)
    PROVE  H2Inv'
<1>1. PICK c : c = req[r].conn
  OBVIOUS
<1>2. PICK f : f = Head(inbound[c])
  OBVIOUS
<1> DEFINE step == PumpOneFrame(conn[c], f)
           l == step.conn
           q == PeerReads(peer[c], step.out)
<1>3. /\ At(r, "body") /\ inbound[c] # <<>> /\ Apply(c, step) /\ Unread(c, l, Tail(inbound[c]))
      /\ IF step.error = Ok THEN UNCHANGED <<req, upload>>
         ELSE BodyFails(r, step.error) /\ upload' = [upload EXCEPT ![c] = None]
      /\ UNCHANGED <<pool, http1Only, creator>>
  BY <1>1, <1>2 DEF PumpBody, BodyBlocked, Rest
<1>4. /\ H2Types /\ c \in Opened /\ conn[c] \in ConnectionSet /\ peer[c] \in PeerSet
      /\ inbound[c] \in Seq(FrameSet) /\ Linked(conn[c], peer[c]) /\ req[r].outcome = None
      /\ conn[c].streams[r] # None /\ upload[c] = r /\ Body[r] > 0 /\ conn[c].state = "open"
      /\ req[r].pc = "body" /\ req[r].rest > 0
      /\ \A g \in Elements(inbound[c]) : g \in FrameSet /\ Fits(peer[c], g)
  BY <1>1, <1>3, AtConnection DEF At
<1>5. /\ f \in FrameSet /\ Fits(peer[c], f)
      /\ Tail(inbound[c]) \in Seq(FrameSet) /\ Elements(Tail(inbound[c])) \subseteq Elements(inbound[c])
  BY <1>2, <1>3, <1>4, NextFrame
<1>6. Reports(conn[c], f, peer[c], step)
  BY <1>4, <1>5, PumpReports
<1>7. conn' = [conn EXCEPT ![c] = l] /\ peer' = [peer EXCEPT ![c] = q]
  BY <1>3 DEF Apply
<1> HIDE DEF step
<1>8. Keeps(peer[c], q) /\ Linked(l, q)
  BY <1>4, <1>5, <1>6, ReportLinked
<1>9. Changes(conn[c], l, r)
  BY <1>4, <1>6, OpenFollows DEF Reports
<1>10. PICK s \in Seq(FrameSet) : /\ Elements(s) \subseteq Elements(inbound[c])
                                  /\ inbound' = [inbound EXCEPT ![c] = s]
  <2>1. Unread(c, l, Tail(inbound[c]))
    BY <1>3
  <2> HIDE DEF l
  <2> QED  BY <1>4, <1>5, <2>1, Dropped
<1>11. CASE step.error = Ok
  <2>1. UNCHANGED <<req, upload>>
    BY <1>3, <1>11
  <2>2. /\ req' \in [Requests -> ThreadSet] /\ Elsewhere(r) /\ req'[r] = req[r]
        /\ upload' = [upload EXCEPT ![c] = r]
    BY <1>4, <2>1 DEF H2Types, Elsewhere
  <2>3. l.state = "open"
    BY <1>4, <1>6, <1>11, ErrorsDiffer DEF Reports
  <2>4. l.streams[r] # None
    BY <1>4, <1>6 DEF Reports, SameStreams, Streams
  <2>5. PeerChanges(peer[c], q, r) /\ (r \in Known(q) => r \in Known(peer[c]))
    BY <1>8, KeepsChanges
  <2> HIDE DEF l, q
  <2> QED  BY <1>1, <1>3, <1>4, <1>7, <1>8, <1>9, <1>10, <2>2, <2>3, <2>4, <2>5, TouchStep
<1>12. CASE step.error # Ok
  <2>1. BodyFails(r, step.error) /\ upload' = [upload EXCEPT ![c] = None]
    BY <1>3, <1>12
  <2>2. step.error.scope \in {"connection", "io"} => l.state = "closed"
    <3>1. step.error \in Fatal => l.state = "closed"
      BY <1>6 DEF Reports
    <3>2. step.error \in Fatal \cup {Ok, Panic} \/ Told(peer[c], step.error)
      BY <1>6 DEF Reports
    <3>3. step.error \in {Ok, Panic} => step.error.scope \notin {"connection", "io"}
      BY DEF Ok, Panic
    <3>4. Told(peer[c], step.error) => step.error.scope \notin {"connection", "io"}
      BY DEF Told, StreamError, StreamReset
    <3> QED  BY <3>1, <3>2, <3>3, <3>4
  <2> HIDE DEF l, q
  <2> QED  BY <1>1, <1>3, <1>7, <1>8, <1>9, <1>10, <2>1, <2>2, BodyCut
<1> QED  BY <1>11, <1>12

(* The request is over: its stream is forgotten and its thread done.         *)
LEMMA TakesStep ==
    ASSUME H2Types, NEW r \in Requests, NEW k \in ConnectionSet, k.streams[r] # None, Takes(r, k)
    PROVE  /\ req' \in [Requests -> ThreadSet] /\ Elsewhere(r) /\ req'[r].conn = req[r].conn
           /\ req'[r].attempt = req[r].attempt /\ req'[r].pc = "done"
<1>1. CASE Failed(k, r)
  BY <1>1, EndsStep DEF Takes, Outcomes
<1>2. CASE ~Failed(k, r)
  <2> DEFINE t == [req[r] EXCEPT !.pc = "done", !.outcome = "ok", !.got = k.streams[r].body]
  <2>1. req' = [req EXCEPT ![r] = t]
    BY <1>2 DEF Takes, H2Types
  <2>2. PICK n \in Nat : n = k.streams[r].body
    BY DEF ConnectionSet, StreamSet
  <2>3. "done" \in Idle /\ "ok" \in Outcomes /\ req[r] \in ThreadSet
    BY DEF Idle, Outcomes, H2Types
  <2>4. t = [req[r] EXCEPT !.pc = "done", !.outcome = "ok", !.got = n]
    BY <2>2
  <2> HIDE DEF t
  <2>5. t \in ThreadSet /\ t.pc = "done" /\ t.conn = req[r].conn /\ t.attempt = req[r].attempt
    BY <2>3, <2>4 DEF ThreadSet
  <2> QED  BY <2>1, <2>5 DEF H2Types, Elsewhere
<1> QED  BY <1>1, <1>2

(* A response or a stream's failure is taken, and the stream forgotten.      *)
LEMMA TakeResponseKeeps ==
    ASSUME H2Inv, NEW r \in Requests, TakeResponse(r)
    PROVE  H2Inv'
<1>1. PICK c \in Conns : Locked(r, c) /\ Takes(r, conn[c]) /\ conn' = [conn EXCEPT ![c] = Forget(@, r)]
  BY DEF TakeResponse
<1>2. /\ c = req[r].conn /\ upload[c] = None /\ req[r].pc = "poll"
      /\ UNCHANGED <<upload, pool, http1Only, creator, inbound, peer>>
  BY <1>1 DEF Locked, TakeResponse, At, Rest, Network
<1>3. /\ H2Types /\ c \in Opened /\ conn[c] \in ConnectionSet /\ peer[c] \in PeerSet
      /\ inbound[c] \in Seq(FrameSet) /\ conn[c].streams[r] # None
      /\ conn[c].state = "open" => Linked(conn[c], peer[c])
  BY <1>2, AtConnection
<1>4. /\ req' \in [Requests -> ThreadSet] /\ Elsewhere(r) /\ req'[r].conn = c
      /\ req'[r].attempt = req[r].attempt /\ req'[r].pc = "done"
  BY <1>1, <1>2, <1>3, TakesStep
<1>5. Changes(conn[c], conn[c], r) /\ PeerChanges(peer[c], peer[c], r)
  BY <1>3, Unchanged
<1> DEFINE m == Forget(conn[c], r)
<1>6. /\ Changes(conn[c], m, r) /\ m.state = conn[c].state /\ m.streams[r] = None
      /\ Linked(conn[c], peer[c]) => Linked(m, peer[c])
  BY <1>3, <1>5, Forgetting
<1>7. /\ conn' = [conn EXCEPT ![c] = m] /\ peer' = [peer EXCEPT ![c] = peer[c]]
      /\ inbound' = [inbound EXCEPT ![c] = inbound[c]] /\ upload' = [upload EXCEPT ![c] = None]
  BY <1>1, <1>2, <1>3 DEF H2Types
<1> HIDE DEF m
<1>8. ~Active(m.streams[r]) /\ None # r
  BY <1>6, NoneAssumption DEF Active
<1>9. c = req[r].conn /\ upload[c] \in {None, r} /\ req[r].pc \in {"send", "body", "poll"}
  BY <1>2
<1>10. m.state = "open" => Linked(m, peer[c])
  BY <1>3, <1>6
<1>11. UNCHANGED <<pool, http1Only, creator>>
  BY <1>2
<1> QED  BY <1>3, <1>4, <1>5, <1>6, <1>7, <1>8, <1>9, <1>10, <1>11, TouchStep

(* cancel_stream resets and forgets the stream.                              *)
LEMMA AbandonKeeps ==
    ASSUME H2Inv, NEW r \in Requests, Abandon(r)
    PROVE  H2Inv'
<1>1. PICK c \in Conns : Locked(r, c) /\ Apply(c, CancelStream(conn[c], r))
  BY DEF Abandon
<1>2. /\ c = req[r].conn /\ upload[c] = None /\ req[r].pc = "poll" /\ Ends(r, "abandoned")
      /\ UNCHANGED <<upload, pool, http1Only, creator, inbound>>
  BY <1>1 DEF Locked, Abandon, At, Rest
<1>3. /\ H2Types /\ c \in Opened /\ conn[c] \in ConnectionSet /\ peer[c] \in PeerSet
      /\ inbound[c] \in Seq(FrameSet) /\ conn[c].streams[r] # None
      /\ conn[c].state = "open" => Linked(conn[c], peer[c])
  BY <1>2, AtConnection
<1>4. /\ req' \in [Requests -> ThreadSet] /\ Elsewhere(r) /\ req'[r].conn = c
      /\ req'[r].attempt = req[r].attempt /\ req'[r].pc = "done"
  BY <1>2, <1>3, EndsStep DEF Outcomes
<1> DEFINE m == Forget(conn[c], r)
           out == IF conn[c].state = "open" /\ Active(conn[c].streams[r]) THEN <<RstStream(r)>> ELSE <<>>
           q == PeerReads(peer[c], out)
<1>5. CancelStream(conn[c], r).conn = m /\ CancelStream(conn[c], r).out = out
  BY DEF CancelStream, Step
<1>6. Answers(peer[c], out)
  <2>1. CASE out = <<>>
    BY <2>1 DEF Answers
  <2>2. CASE conn[c].state = "open" /\ out = <<RstStream(r)>>
    <3>1. Written(peer[c], RstStream(r))
      BY <1>3, <2>2 DEF Written, Linked
    <3>2. \A x : <<x>>[1] = x
      OBVIOUS
    <3> HIDE DEF out
    <3> QED  BY <2>2, <3>1, <3>2 DEF Answers
  <2> QED  BY <2>1, <2>2
<1>7. /\ conn' = [conn EXCEPT ![c] = m] /\ peer' = [peer EXCEPT ![c] = q]
      /\ inbound' = [inbound EXCEPT ![c] = inbound[c]] /\ upload' = [upload EXCEPT ![c] = None]
  BY <1>1, <1>2, <1>3, <1>5 DEF H2Types, Apply
<1> HIDE DEF out
<1>8. Keeps(peer[c], q)
  BY <1>3, <1>6, ReadsWell
<1>9. PeerChanges(peer[c], q, r) /\ (r \in Known(q) => r \in Known(peer[c]))
  BY <1>8, KeepsChanges
<1>10. Changes(conn[c], conn[c], r)
  BY <1>3, Unchanged
<1> HIDE DEF q
<1>11. /\ Changes(conn[c], m, r) /\ m.state = conn[c].state /\ m.streams[r] = None
       /\ Linked(conn[c], q) => Linked(m, q)
  BY <1>3, <1>10, Forgetting
<1>12. conn[c].state = "open" => Linked(conn[c], q)
  BY <1>3, <1>8, Relinked
<1> HIDE DEF m
<1>13. ~Active(m.streams[r]) /\ None # r
  BY <1>11, NoneAssumption DEF Active
<1> QED  BY <1>2, <1>3, <1>4, <1>7, <1>9, <1>11, <1>12, <1>13, TouchStep

(* A turn of the polling loop: an error evicts the connection, with a retry  *)
(* only while nothing of the answer was seen.                                *)
LEMMA PollFramesKeeps ==
    ASSUME H2Inv, NEW r \in Requests, PollFrames(r)
    PROVE  H2Inv'
<1>0. PICK c \in Conns :
        LET step == PollFrame(conn[c], Head(inbound[c]))
        IN  /\ Polling(r, c) /\ conn[c].state = "open" /\ inbound[c] # <<>>
            /\ Unread(c, step.conn, Tail(inbound[c]))
            /\ \/ /\ step.error = Ok /\ Takes(r, step.conn)
                  /\ Apply(c, Step(Forget(step.conn, r), Ok, step.out))
               \/ /\ step.error = Ok /\ Apply(c, step)
                  /\ req' = [req EXCEPT ![r].seen = Seen(r, c)]
               \/ step.error = Panic /\ Apply(c, step) /\ Ends(r, "panicked")
               \/ step.error \notin {Ok, Panic} /\ Apply(c, step) /\ Evicts(r, ~Seen(r, c))
  BY ErrorsDiffer DEF PollFrames
<1>1. PICK f : f = Head(inbound[c])
  OBVIOUS
<1> DEFINE step == PollFrame(conn[c], f)
           l == step.conn
           q == PeerReads(peer[c], step.out)
<1>2. /\ c = req[r].conn /\ upload[c] = None /\ req[r].pc = "poll" /\ conn[c].state = "open"
      /\ UNCHANGED <<upload, pool, http1Only, creator>>
  BY <1>0 DEF Locked, Polling, PollFrames, At, Rest
<1>3. /\ H2Types /\ c \in Opened /\ conn[c] \in ConnectionSet /\ peer[c] \in PeerSet
      /\ inbound[c] \in Seq(FrameSet) /\ Linked(conn[c], peer[c]) /\ conn[c].streams[r] # None
      /\ req[r].outcome = None
      /\ \A g \in Elements(inbound[c]) : g \in FrameSet /\ Fits(peer[c], g)
  BY <1>2, AtConnection
<1>4. /\ f \in FrameSet /\ Fits(peer[c], f)
      /\ Tail(inbound[c]) \in Seq(FrameSet) /\ Elements(Tail(inbound[c])) \subseteq Elements(inbound[c])
  BY <1>0, <1>1, <1>3, NextFrame
<1>5. Reports(conn[c], f, peer[c], step) /\ step.error \in Fatal \cup {Ok, Panic}
  BY <1>3, <1>4, PollReports
<1>6. Unread(c, l, Tail(inbound[c]))
  BY <1>0, <1>1
<1>7. \/ /\ step.error = Ok /\ Takes(r, l) /\ Apply(c, Step(Forget(step.conn, r), Ok, step.out))
      \/ /\ step.error = Ok /\ Apply(c, step) /\ req' = [req EXCEPT ![r].seen = Seen(r, c)]
      \/ /\ step.error = Panic /\ Apply(c, step) /\ Ends(r, "panicked")
      \/ /\ step.error \in Fatal /\ Apply(c, step) /\ Evicts(r, ~Seen(r, c))
  BY <1>0, <1>1, <1>5, ErrorsDiffer
<1>8. /\ Step(Forget(l, r), Ok, step.out).conn = Forget(l, r)
      /\ Step(Forget(l, r), Ok, step.out).out = step.out
  BY DEF Step
<1> HIDE DEF step
<1>9. Keeps(peer[c], q) /\ Linked(l, q) /\ l \in ConnectionSet
  BY <1>3, <1>4, <1>5, ReportLinked
<1>10. Changes(conn[c], l, r) /\ l.streams[r] # None
  BY <1>2, <1>3, <1>5, OpenFollows DEF Reports, SameStreams, Streams
<1> HIDE DEF l
<1>11. PICK s \in Seq(FrameSet) : /\ Elements(s) \subseteq Elements(inbound[c])
                                  /\ inbound' = [inbound EXCEPT ![c] = s]
  BY <1>3, <1>4, <1>6, Dropped
<1>12. PeerChanges(peer[c], q, r) /\ (r \in Known(q) => r \in Known(peer[c])) /\ None # r
  BY <1>9, KeepsChanges, NoneAssumption
<1> HIDE DEF q
<1>13. upload' = [upload EXCEPT ![c] = None] /\ upload[c] \in {None, r}
  BY <1>2, <1>3 DEF H2Types
<1>14. ASSUME Apply(c, step) PROVE conn' = [conn EXCEPT ![c] = l] /\ peer' = [peer EXCEPT ![c] = q]
  BY <1>14 DEF Apply, l, q
<1>15. ASSUME Takes(r, l), Apply(c, Step(Forget(l, r), Ok, step.out))
       PROVE  H2Inv'
  <2> DEFINE m == Forget(l, r)
  <2>1. conn' = [conn EXCEPT ![c] = m] /\ peer' = [peer EXCEPT ![c] = q]
    BY <1>8, <1>15 DEF Apply, q
  <2>2. /\ req' \in [Requests -> ThreadSet] /\ Elsewhere(r) /\ req'[r].conn = c
        /\ req'[r].attempt = req[r].attempt /\ req'[r].pc = "done"
    BY <1>2, <1>3, <1>9, <1>10, <1>15, TakesStep
  <2>3. Changes(conn[c], m, r) /\ m.streams[r] = None /\ Linked(m, q)
    BY <1>3, <1>9, <1>10, Forgetting
  <2> HIDE DEF m
  <2>4. ~Active(m.streams[r])
    BY <2>3 DEF Active
  <2> QED  BY <1>2, <1>3, <1>11, <1>12, <1>13, <2>1, <2>2, <2>3, <2>4, TouchStep
<1>16. ASSUME Apply(c, step), req' = [req EXCEPT ![r].seen = Seen(r, c)]
       PROVE  H2Inv'
  <2>1. /\ req' \in [Requests -> ThreadSet] /\ Elsewhere(r) /\ req'[r].conn = c
        /\ req'[r].attempt = req[r].attempt /\ req'[r].pc = "poll" /\ req'[r].outcome = None
    <3>1. req[r].seen \in BOOLEAN /\ conn[c].streams[r].status \in BOOLEAN
      BY <1>3 DEF H2Types, ThreadSet, ConnectionSet, StreamSet
    <3>2. PICK b \in BOOLEAN : b = Seen(r, c)
      BY <3>1 DEF Seen
    <3>3. req' = [req EXCEPT ![r] = [req[r] EXCEPT !.seen = b]]
      BY <1>3, <1>16, <3>2 DEF H2Types
    <3>4. \A t \in ThreadSet : [t EXCEPT !.seen = TRUE] \in ThreadSet /\ [t EXCEPT !.seen = FALSE] \in ThreadSet
      BY DEF ThreadSet
    <3>5. req[r] \in ThreadSet
      BY <1>3 DEF H2Types
    <3> DEFINE t == [req[r] EXCEPT !.seen = b]
    <3>6. t \in ThreadSet
      <4>1. CASE b = TRUE
        BY <3>4, <3>5, <4>1
      <4>2. CASE b = FALSE
        BY <3>4, <3>5, <4>2
      <4> QED  BY <4>1, <4>2
    <3>7. t.conn = c /\ t.attempt = req[r].attempt /\ t.pc = "poll" /\ t.outcome = None
      BY <1>2, <1>3, <3>5 DEF ThreadSet
    <3> HIDE DEF t
    <3> QED  BY <1>3, <3>3, <3>6, <3>7 DEF H2Types, Elsewhere, t
  <2>2. conn' = [conn EXCEPT ![c] = l] /\ peer' = [peer EXCEPT ![c] = q]
    BY <1>14, <1>16
  <2> QED  BY <1>2, <1>3, <1>9, <1>10, <1>11, <1>12, <1>13, <2>1, <2>2, TouchStep
<1>17. ASSUME Apply(c, step), Ends(r, "panicked")
       PROVE  H2Inv'
  <2>1. /\ req' \in [Requests -> ThreadSet] /\ Elsewhere(r) /\ req'[r].conn = c
        /\ req'[r].attempt = req[r].attempt /\ req'[r].pc = "done" /\ req'[r].outcome = "panicked"
    BY <1>2, <1>3, <1>17, EndsStep DEF Outcomes
  <2>2. conn' = [conn EXCEPT ![c] = l] /\ peer' = [peer EXCEPT ![c] = q]
    BY <1>14, <1>17
  <2> QED  BY <1>2, <1>3, <1>9, <1>10, <1>11, <1>12, <1>13, <2>1, <2>2, TouchStep
<1>18. ASSUME step.error \in Fatal, Apply(c, step), Evicts(r, ~Seen(r, c))
       PROVE  H2Inv'
  <2>1. PICK retry \in BOOLEAN : retry = ~Seen(r, c)
    OBVIOUS
  <2>2. /\ req' \in [Requests -> ThreadSet] /\ Elsewhere(r) /\ req'[r].conn = c
        /\ req'[r].attempt = req[r].attempt /\ req'[r].pc = "evict" /\ req'[r].outcome = None
        /\ req'[r].retry = retry
    BY <1>2, <1>3, <1>18, <2>1, EvictsStep
  <2>3. conn' = [conn EXCEPT ![c] = l] /\ peer' = [peer EXCEPT ![c] = q]
    BY <1>14, <1>18
  <2>4. l.state = "closed" /\ (l.streams[r] # None => l.streams[r].status = conn[c].streams[r].status)
    BY <1>5, <1>18 DEF Reports, SameStatus, Streams, l
  <2>5. req'[r].retry => ~l.streams[r].status
    BY <1>10, <2>1, <2>2, <2>4 DEF Seen
  <2> QED  BY <1>2, <1>3, <1>9, <1>10, <1>11, <1>12, <1>13, <2>2, <2>3, <2>4, <2>5, TouchStep
<1> QED  BY <1>7, <1>15, <1>16, <1>17, <1>18 DEF l

------------------------------------------------------------------------------
(* The invariant and what follows from it.                                   *)

(* A stuttering step.                                                        *)
LEMMA H2Stays ==
    ASSUME H2Inv, UNCHANGED vars
    PROVE  H2Inv'
<1>1. /\ conn' = conn /\ inbound' = inbound /\ peer' = peer /\ pool' = pool
      /\ http1Only' = http1Only /\ creator' = creator /\ upload' = upload /\ req' = req
  BY DEF vars
<1>2. H2Types' /\ PoolOk' /\ UploadOk'
  BY <1>1 DEF H2Inv, H2Types, PoolOk, UploadOk, Opened, At
<1>3. LinksOk'
  BY <1>1 DEF H2Inv, LinksOk
<1>4. ASSUME NEW r \in Requests PROVE PlaceOk(r)' /\ SentOk(r)' /\ Attended(r)'
  <2>1. PlaceOk(r)' /\ Attended(r)'
    BY <1>1 DEF H2Inv, PlaceOk, Attended, Opened, At
  <2>2. SentOk(r)'
    BY <1>1 DEF H2Inv, SentOk, Sent, Present, Retired, Unanswered, At
  <2> QED  BY <2>1, <2>2
<1> QED  BY <1>2, <1>3, <1>4 DEF H2Inv

\* Every step of the pool's threads and of the server keeps the invariant.
LEMMA H2Steps ==
    ASSUME H2Inv, [Next]_vars
    PROVE  H2Inv'
<1>1. ASSUME NEW r \in Requests, Thread(r) PROVE H2Inv'
  <2>1. CASE \/ SendHop(r) \/ Lookup(r) \/ Check(r) \/ Drop(r) \/ Lock(r)
             \/ Connect(r) \/ ConnectFails(r) \/ ConnectFallsBack(r) \/ MarkHttp1Only(r)
             \/ Evict(r)
    BY <2>1, SendHopKeeps, LookupKeeps, CheckKeeps, DropKeeps, LockKeeps, ConnectKeeps,
       ConnectEndsKeeps, MarkHttp1OnlyKeeps, EvictKeeps
  <2>2. CASE \/ SendRequest(r) \/ SendRequestFails(r) \/ SendBody(r)
             \/ BodyCutShort(r) \/ PumpBody(r) \/ PumpTimesOut(r)
    BY <2>2, SendRequestKeeps, SendRequestFailsKeeps, SendBodyKeeps, BodyCutShortKeeps,
       PumpBodyKeeps, PumpTimesOutKeeps
  <2>3. CASE TakeResponse(r) \/ PollClosed(r) \/ PollFrames(r) \/ Abandon(r)
    BY <2>3, TakeResponseKeeps, PollClosedKeeps, PollFramesKeeps, AbandonKeeps
  <2> QED  BY <1>1, <2>1, <2>2, <2>3 DEF Thread
<1> QED  BY <1>1, RoomMade, ServerStep, H2Stays DEF Next

\* A connection on which a stream of r was opened earlier than on another is dead,
\* and nothing of the answer was read from it.
LEMMA EarlierRetired ==
    ASSUME H2Inv, NEW r \in Requests, NEW c \in Sent(r), NEW d \in Sent(r), c < d
    PROVE  Retired(r, c)
<1>1. c \in Nat /\ d \in Nat
  BY PoolAssumption DEF Sent
<1>2. SentOk(r)
  BY DEF H2Inv
<1>3. SUFFICES ASSUME ~Retired(r, c) PROVE FALSE
  OBVIOUS
<1>4. c = req[r].conn
  BY <1>2, <1>3 DEF SentOk, Present
<1>5. Retired(r, d)
  BY <1>1, <1>2, <1>4 DEF SentOk, Present
<1>6. d < c
  BY <1>2, <1>3, <1>5 DEF SentOk
<1> QED  BY <1>1, <1>6

(* So streams on an earlier connection were unanswered.                      *)
LEMMA ResentFollows ==
    H2Inv => ResentOnlyUnseen
<1> SUFFICES ASSUME H2Inv, NEW r \in Requests, NEW c \in Sent(r), NEW d \in Sent(r), c < d
             PROVE  /\ r \in Safe /\ conn[c].state = "closed"
                    /\ conn[c].streams[r] # None /\ Body[r] = 0 => ~conn[c].streams[r].status
  BY DEF ResentOnlyUnseen
<1> QED  BY EarlierRetired DEF Retired, Unanswered

(* An active stream is attended or cut.                                      *)
LEMMA OrphansFollow ==
    H2Inv => OrphansAreUploads
<1> SUFFICES ASSUME H2Inv, NEW c \in Conns, conn[c] # None, conn[c].state = "open",
                    NEW r \in ActiveStreams(conn[c])
             PROVE  /\ req[r].conn = c
                    /\ \/ req[r].pc \in {"poll", "body"}
                       \/ req[r].rest > 0 \/ req[r].outcome = "panicked"
  BY DEF OrphansAreUploads
<1>1. r \in Requests /\ Active(conn[c].streams[r])
  BY DEF ActiveStreams
<1> QED  BY <1>1 DEF H2Inv, Attended

OneOpens == \A r, q \in Requests :
    At(r, "connect") => pool = None /\ (At(q, "connect") => q = r)
\* An entry that works leaves the pool only to make room.
EntryStays == \A c \in Conns : pool = c /\ pool' # c /\ conn[c].state = "open" => MakeRoom

(* The creation lock has one holder, and a pool without entry.               *)
LEMMA OneOpensFollows ==
    H2Inv => OneOpens
BY DEF H2Inv, PlaceOk, OneOpens

(* The steps that remove an entry other than MakeRoom hold a closed          *)
(* connection.                                                               *)
LEMMA EntryStaysFollows ==
    ASSUME H2Inv, [Next]_vars
    PROVE  [EntryStays]_vars
<1> SUFFICES ASSUME NEW c \in Conns, pool = c, pool' # c, conn[c].state = "open", ~MakeRoom
             PROVE  FALSE
  BY DEF EntryStays
<1>1. c # None
  BY PoolAssumption
<1>2. \E r \in Requests : Thread(r)
  <2>1. ASSUME NEW d, NEW p, NEW f, PeerSends(d, p, f) PROVE FALSE
    BY <2>1 DEF PeerSends, clientVars
  <2>2. ASSUME NEW d \in Conns, NEW r \in Requests, PeerHeaders(d, r) \/ PeerData(d, r)
        PROVE  FALSE
    BY <2>1, <2>2, Zenon DEF PeerHeaders, PeerData
  <2>3. ASSUME NEW d \in Conns, Server(d) PROVE FALSE
    BY <2>1, <2>2, <2>3, Zenon DEF Server, PeerContinuation, PeerUpdatesConnection, PeerSettings,
       PeerLeaves, PeerResets, PeerUpdatesStream
  <2> QED  BY <2>3 DEF Next, vars
<1>3. PICK r \in Requests : Thread(r)
  BY <1>2
<1>4. PlaceOk(r)
  BY DEF H2Inv
<1>5. Connect(r) \/ Drop(r) \/ Evict(r)
  BY <1>3 DEF Thread, SendHop, Lookup, Check, Lock, ConnectFails, ConnectFallsBack, MarkHttp1Only, SendRequest,
     SendRequestFails, SendBody, BodyCutShort, PumpBody, PumpTimesOut, TakeResponse, PollClosed,
     PollFrames, Abandon, Rest
<1>6. CASE Connect(r)
  BY <1>1, <1>4, <1>6 DEF Connect, PlaceOk
<1>7. CASE Drop(r) \/ Evict(r)
  <2>1. req[r].conn = c
    BY <1>7 DEF Drop, Evict, RemoveEntry
  <2>2. req[r].pc \in {"drop", "evict"}
    BY <1>7 DEF Drop, Evict, At
  <2> QED  BY <1>4, <2>1, <2>2 DEF PlaceOk
<1> QED  BY <1>5, <1>6, <1>7

\* H2Pool::send and entry_for: a thread opens a connection only while it holds
\* the origin's creation lock and the pool has none, and an entry that works is
\* removed only to make room for another origin's.
THEOREM OneConnectionLives == Spec => OneLiveConnection
<1>1. Spec => []H2Inv
  BY H2Starts, H2Steps, PTL DEF Spec
<1>2. H2Inv => OneOpens
  BY OneOpensFollows
<1>3. H2Inv /\ [Next]_vars => [EntryStays]_vars
  BY EntryStaysFollows
<1>4. OneLiveConnection <=> []OneOpens /\ [][EntryStays]_vars
  BY DEF OneLiveConnection, OneOpens, EntryStays
<1> QED  BY <1>1, <1>2, <1>3, <1>4, PTL DEF Spec

\* forget and cancel_stream: a connection that can still be used has no stream
\* left over from a request that ended, but for one whose body it still has units
\* of to send (or whose thread panicked).
THEOREM OrphansAccounted == Spec => []OrphansAreUploads
<1>1. Init => H2Inv
  BY H2Starts
<1>2. H2Inv /\ [Next]_vars => H2Inv'
  BY H2Steps
<1> QED  BY <1>1, <1>2, OrphansFollow, PTL DEF Spec

\* H2Failure::retry: a request has a second stream only if its method is safe and
\* its first connection is dead and had shown no part of an answer to it.
THEOREM ResendsAreSafe == Spec => []ResentOnlyUnseen
<1>1. Init => H2Inv
  BY H2Starts
<1>2. H2Inv /\ [Next]_vars => H2Inv'
  BY H2Steps
<1> QED  BY <1>1, <1>2, ResentFollows, PTL DEF Spec
=============================================================================
