------------------------------ MODULE NetService ------------------------------
(***************************************************************************)
(* What the network worker of render-net promises its clients, without its  *)
(* queues, permits and threads: a submission is answered once, on its own   *)
(* channel, with one outcome per request in request order, and an outcome   *)
(* other than the transport's own answer has a reason the client can know.  *)
(***************************************************************************)
EXTENDS Naturals, Sequences

CONSTANTS Ops, Batches, Origins, Requests, MaxConcurrency, OriginLimit, Timed

VARIABLES
    submitted, cancelled, response,
    closed   \* whether the client has let go of the service

serviceVars == <<submitted, cancelled, response, closed>>

Unanswered == {o \in submitted : response[o] = <<>>}

\* Why outcome kind may be given to request i of o.
Justified(o, i, kind) ==
    \/ kind = "answer"
    \/ kind = "queueFull"
    \/ kind = "cancelled" /\ o \in cancelled
    \/ kind = "timeout" /\ o \in Timed
    \/ kind = "paused" /\ o \in Batches /\ OriginLimit[o][Requests[o][i]] = 0
    \/ kind = "zeroConcurrency" /\ o \in Batches /\ MaxConcurrency[o] = 0
    \/ kind = "stopped" /\ closed

\* An answer to o: one outcome per request, in request order.
Answers(o, vector) ==
    /\ DOMAIN vector = DOMAIN Requests[o]
    /\ \A i \in DOMAIN vector : /\ vector[i].of = i
                                /\ Justified(o, i, vector[i].kind)

\* A full queue rejects the whole submission.
Rejection(o) == [i \in DOMAIN Requests[o] |-> [kind |-> "queueFull", of |-> i]]

Init == /\ submitted = {} /\ cancelled = {}
        /\ response = [o \in Ops |-> <<>>]
        /\ ~closed

Accept(o) == /\ o \in Ops \ submitted /\ ~closed
             /\ submitted' = submitted \cup {o}
             /\ closed' = closed
             /\ UNCHANGED <<cancelled, response>>

Reject(o) == /\ o \in Ops \ submitted /\ ~closed
             /\ submitted' = submitted \cup {o}
             /\ response' = [response EXCEPT ![o] = <<Rejection(o)>>]
             /\ closed' = closed
             /\ UNCHANGED cancelled

\* A token outlives the service.
Cancel(o) == /\ o \in Ops \ cancelled
             /\ cancelled' = cancelled \cup {o}
             /\ closed' = closed
             /\ UNCHANGED <<submitted, response>>

Close == /\ closed' = TRUE
         /\ UNCHANGED <<submitted, cancelled, response>>

\* Some unanswered submissions are answered; a batch answered because its
\* budget is spent has its token set too.
Answer ==
    /\ \E S \in SUBSET Unanswered :
          /\ \A o \in Ops \ S : response'[o] = response[o]
          /\ \A o \in S : Len(response'[o]) = 1 /\ Answers(o, response'[o][1])
          /\ cancelled \subseteq cancelled' /\ cancelled' \ cancelled \subseteq S \cap Timed
    /\ DOMAIN response' = Ops
    /\ closed' = closed
    /\ UNCHANGED submitted

Next == \/ \E o \in Ops : Accept(o) \/ Reject(o) \/ Cancel(o)
        \/ Close \/ Answer

Spec == Init /\ [][Next]_serviceVars

\* Every submission is answered in the end.
Prompt == \A o \in Ops : o \in submitted ~> response[o] # <<>>
===============================================================================
