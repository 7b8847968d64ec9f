---------------------------- MODULE H2Connection ----------------------------
(***************************************************************************)
(* One client connection of crates/render-net/src/h2/connection.rs: what a  *)
(* frame, a request, a cancellation do to its streams and windows.  The     *)
(* operators take and return the connection as a value; H2Pool has the      *)
(* threads that share it and the server at the other end.                   *)
(*                                                                         *)
(* A stream is named by the request it carries, which opens at most one on   *)
(* a connection.  Header blocks, HPACK and bodies are left out but for what  *)
(* the control depends on: whether a block is complete, whether it is final, *)
(* how many units of flow control a DATA frame takes.  Frame decoding is     *)
(* taken to succeed: the server keeps to the protocol.                       *)
(***************************************************************************)
EXTENDS Integers, Sequences, FiniteSets

CONSTANTS Requests,     \* the requests of one origin, one thread each
          None,
          ConnWindow,   \* INITIAL_CONNECTION_WINDOW, both ways
          SendWindow,   \* the peer's initial stream window in its first SETTINGS
          RecvWindow,   \* config.initial_window_size
          MaxBodySize   \* config.max_body_size

ASSUME WindowsAssumption ==
    /\ ConnWindow \in Nat /\ SendWindow \in Nat /\ RecvWindow \in Nat /\ MaxBodySize \in Nat

------------------------------------------------------------------------------
(* Frames.  A header block that does not fit one frame is HEADERS without    *)
(* END_HEADERS and a CONTINUATION.  1xx responses, PING and PRIORITY change   *)
(* nothing and are left out.                                                 *)

Headers(r, end, whole) == [type |-> "headers", stream |-> r, end |-> end, whole |-> whole]
Continuation(r) == [type |-> "continuation", stream |-> r]
Data(r, units, end) == [type |-> "data", stream |-> r, units |-> units, end |-> end]
RstStream(r) == [type |-> "rst_stream", stream |-> r]
WindowUpdate(r, units) == [type |-> "window_update", stream |-> r, units |-> units]
Settings(window) == [type |-> "settings", window |-> window]
SettingsAck == [type |-> "settings_ack"]
GoAway == [type |-> "goaway"]
Eof == [type |-> "eof"]         \* the end of the byte stream, read as a frame

(* H2Error, by the distinctions is_connection_error and stream_id make.  A   *)
(* panic is no H2Error; it leaves the connection as the statement before it. *)
Ok == [scope |-> "none"]
StreamError(r) == [scope |-> "stream", of |-> r]
StreamReset(r) == [scope |-> "reset", of |-> r]
ProtocolError == [scope |-> "connection"]
GoAwayError == [scope |-> "goaway"]
IoError == [scope |-> "io"]
Panic == [scope |-> "panic"]

Streamwise(error) == error.scope \in {"stream", "reset"}

------------------------------------------------------------------------------
(* The connection.  A step yields the new connection, its error and the      *)
(* frames it wrote.                                                          *)

StreamSet == [state : {"open", "half_closed_local", "half_closed_remote", "closed"},
              send : Int, recv : Int, endSent : BOOLEAN, endReceived : BOOLEAN,
              status : BOOLEAN, body : Nat]
BlockSet == [stream : Requests, trailers : BOOLEAN, end : BOOLEAN]
ConnectionSet == [state : {"open", "closed"}, goaway : BOOLEAN,
                  streams : [Requests -> StreamSet \cup {None}], errors : SUBSET Requests,
                  send : Int, recv : Int, pending : BlockSet \cup {None},
                  initial : Int, limit : Int]

\* None is not taken for a stream, a connection or anything else it stands for
\* the absence of.
ASSUME NoneAssumption ==
    None \notin Requests /\ None \notin StreamSet /\ None \notin BlockSet /\ None \notin ConnectionSet

NewStream(window) ==
    [state |-> "open", send |-> window, recv |-> RecvWindow, endSent |-> FALSE,
     endReceived |-> FALSE, status |-> FALSE, body |-> 0]

\* connect: the state after the SETTINGS exchange, with the peer's limit.
Connected(limit) ==
    [state |-> "open", goaway |-> FALSE, streams |-> [r \in Requests |-> None],
     errors |-> {}, send |-> ConnWindow, recv |-> ConnWindow, pending |-> None,
     initial |-> SendWindow, limit |-> limit]

Step(k, error, out) == [conn |-> k, error |-> error, out |-> out]
Done(k) == Step(k, Ok, <<>>)
Fails(k, error) == Step(k, error, <<>>)

Active(s) == s # None /\ s.state # "closed"
ActiveStreams(k) == {r \in Requests : Active(k.streams[r])}

HalfClosed(s, half, other) ==
    IF s.state = "open" THEN half ELSE IF s.state = other THEN "closed" ELSE s.state

MarkLocalEnd(s) ==
    IF s.endSent THEN s
    ELSE [s EXCEPT !.endSent = TRUE,
                   !.state = HalfClosed(s, "half_closed_local", "half_closed_remote")]
MarkRemoteEnd(s) ==
    [s EXCEPT !.endReceived = TRUE,
              !.state = HalfClosed(s, "half_closed_remote", "half_closed_local")]

------------------------------------------------------------------------------
(* Frames from the peer: handle_frame and the handlers it calls.             *)

FinishHeaderBlock(k, r, trailers, end) ==
    LET final == [k.streams[r] EXCEPT !.status = TRUE]
    IN  CASE trailers /\ ~end -> Fails(k, StreamError(r))
          [] ~(trailers /\ ~end) /\ k.streams[r] = None ->
                 Fails(k, Panic)     \* .expect("stream existence checked")
          [] OTHER -> Done([k EXCEPT !.streams[r] = IF end THEN MarkRemoteEnd(final) ELSE final])

HandleHeaders(k, f) ==
    LET s == k.streams[f.stream]
    IN  CASE s = None -> Fails(k, ProtocolError)
          [] s # None /\ s.endReceived -> Fails(k, StreamError(f.stream))
          [] s # None /\ ~s.endReceived /\ f.whole -> FinishHeaderBlock(k, f.stream, s.status, f.end)
          [] OTHER -> Done([k EXCEPT !.pending = [stream |-> f.stream, trailers |-> s.status,
                                                  end |-> f.end]])

HandleContinuationDefect(k, f) ==
    LET p == k.pending IN FinishHeaderBlock(k, p.stream, p.trailers, p.end)
HandleContinuation(k, f) ==
    LET p == k.pending
    IN  FinishHeaderBlock([k EXCEPT !.pending = None], p.stream, p.trailers, p.end)

\* What a DATA frame takes from both windows is given back at once, unless the
\* stream refuses the data; the window of an ended stream is not refilled.
HandleData(k, f) ==
    LET r == f.stream
        s == k.streams[r]
        taken == [k EXCEPT !.recv = @ - f.units, !.streams[r].recv = @ - f.units]
        stored == [s EXCEPT !.body = @ + f.units, !.recv = IF f.end THEN @ - f.units ELSE @]
        updates == IF f.units = 0 THEN <<>>
                   ELSE IF f.end THEN <<WindowUpdate(None, f.units)>>
                   ELSE <<WindowUpdate(None, f.units), WindowUpdate(r, f.units)>>
    IN  CASE s = None -> Fails(k, ProtocolError)
          [] s # None /\ (s.endReceived \/ ~s.status) -> Fails(k, StreamError(r))
          [] OTHER ->
                 IF k.recv < f.units THEN Fails([k EXCEPT !.recv = @ - f.units], ProtocolError)
                 ELSE IF s.recv < f.units \/ s.body + f.units > MaxBodySize
                 THEN Fails(taken, StreamError(r))
                 ELSE Step([k EXCEPT !.streams[r] = IF f.end THEN MarkRemoteEnd(stored) ELSE stored],
                           Ok, updates)

HandleRstStream(k, f) ==
    LET s == k.streams[f.stream]
    IN  CASE s = None -> Fails(k, ProtocolError)
          [] s # None /\ s.state = "closed" -> Done(k)
          [] OTHER -> Fails([k EXCEPT !.streams[f.stream].state = "closed"], StreamReset(f.stream))

\* The overflow of a window past 2^31 - 1 is out of reach of a peer that gives
\* back what it took.
HandleWindowUpdate(k, f) ==
    CASE f.stream = None -> Done([k EXCEPT !.send = @ + f.units])
      [] f.stream # None /\ k.streams[f.stream] = None -> Fails(k, ProtocolError)
      [] f.stream # None /\ k.streams[f.stream] # None /\ ~Active(k.streams[f.stream]) -> Done(k)
      [] OTHER -> Done([k EXCEPT !.streams[f.stream].send = @ + f.units])

\* apply_peer_settings: the change of the initial window moves the window of
\* every stream that is not closed, below zero if need be.
ApplyPeerSettingsDefect(k, f) == Step([k EXCEPT !.initial = f.window], Ok, <<SettingsAck>>)
ApplyPeerSettings(k, f) ==
    Step([k EXCEPT !.initial = f.window,
                   !.streams = [r \in Requests |->
                       IF Active(k.streams[r])
                       THEN [k.streams[r] EXCEPT !.send = @ + f.window - k.initial]
                       ELSE k.streams[r]]],
         Ok, <<SettingsAck>>)

HandleFrame(k, f) ==
    CASE (k.pending # None) # (f.type = "continuation") -> Fails(k, ProtocolError)
      [] f.type = "headers" /\ k.pending = None -> HandleHeaders(k, f)
      [] f.type = "continuation" /\ k.pending # None -> HandleContinuation(k, f)
      [] f.type = "data" /\ k.pending = None -> HandleData(k, f)
      [] f.type = "rst_stream" /\ k.pending = None -> HandleRstStream(k, f)
      [] f.type = "window_update" /\ k.pending = None -> HandleWindowUpdate(k, f)
      [] f.type = "settings" /\ k.pending = None -> ApplyPeerSettings(k, f)
      [] f.type = "goaway" /\ k.pending = None ->
             Fails([k EXCEPT !.goaway = TRUE, !.state = "closed"], GoAwayError)

\* try_read_frame: the end of the byte stream closes the connection.
ReadFrame(k, f) ==
    IF f.type = "eof" THEN Fails([k EXCEPT !.state = "closed"], IoError) ELSE HandleFrame(k, f)

------------------------------------------------------------------------------
(* Errors and the caller's operations.                                       *)

\* report_error after a step: a stream is reset and closed, a connection told
\* GOAWAY (fail_connection).  A frame that failed wrote nothing before.
ReportError(step) ==
    LET k == step.conn
        e == step.error
    IN  CASE e.scope = "reset" -> step
          [] e.scope = "stream" ->
                 Step([k EXCEPT !.streams[e.of] =
                          IF @ = None THEN None ELSE [@ EXCEPT !.state = "closed"]],
                      e, <<RstStream(e.of)>>)
          [] e.scope = "connection" ->
                 Step([k EXCEPT !.state = "closed"], e, IF k.state = "open" THEN <<GoAway>> ELSE <<>>)
          [] e.scope \in {"goaway", "io"} -> Fails([k EXCEPT !.state = "closed"], e)
          [] e.scope \in {"none", "panic"} -> step

\* poll_frame: the error of a stream is kept for its owner and is no error of
\* the poll.
PollFrameDefect(k, f) ==
    LET step == ReportError(ReadFrame(k, f))
    IN  IF Streamwise(step.error) THEN Step(step.conn, Ok, step.out) ELSE step
PollFrame(k, f) ==
    LET step == ReportError(ReadFrame(k, f))
    IN  IF Streamwise(step.error)
        THEN Step([step.conn EXCEPT !.errors = @ \cup {step.error.of}], Ok, step.out)
        ELSE step

\* pump_one_frame, used while a body waits for its windows: every error is the
\* caller's.
PumpOneFrame(k, f) == ReportError(ReadFrame(k, f))

\* take_response: what a poll left for stream r.
Failed(k, r) == r \in k.errors
Completed(k, r) == ~Failed(k, r) /\ k.streams[r] # None /\ k.streams[r].endReceived
Forget(k, r) == [k EXCEPT !.streams[r] = None, !.errors = @ \ {r}]

\* cancel_stream
CancelStream(k, r) ==
    Step(Forget(k, r), Ok, IF k.state = "open" /\ Active(k.streams[r]) THEN <<RstStream(r)>> ELSE <<>>)

\* send_request up to the body
AtStreamLimit(k) == Cardinality(ActiveStreams(k)) >= k.limit
OpenStream(k, r, end) ==
    LET s == NewStream(k.initial)
    IN  Step([k EXCEPT !.streams[r] = IF end THEN MarkLocalEnd(s) ELSE s], Ok,
             <<Headers(r, end, TRUE)>>)

\* send_body: the two windows, the smaller of which bounds the next frame.
Available(k, r) ==
    LET smaller == IF k.send < k.streams[r].send THEN k.send ELSE k.streams[r].send
    IN  IF smaller > 0 THEN smaller ELSE 0
SendData(k, r, units, end) ==
    LET sent == [k EXCEPT !.send = @ - units, !.streams[r].send = @ - units]
    IN  Step(IF end THEN [sent EXCEPT !.streams[r] = MarkLocalEnd(@)] ELSE sent, Ok,
             <<Data(r, units, end)>>)
=============================================================================
