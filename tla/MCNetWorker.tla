---------------------------- MODULE MCNetWorker ----------------------------
(***************************************************************************)
(* Small instances of NetWorker: one fetch, a batch that meets its          *)
(* per-origin and whole-batch limits, a batch with a paused origin, a batch *)
(* with zero concurrency and an empty batch.                                *)
(***************************************************************************)
EXTENDS NetWorker, TLC

CONSTANTS solo, pair, wide, blocked, zero, empty, home, cdn

MCRequests ==
    [o \in Ops |-> CASE o = wide -> <<home, home, cdn>>
                     [] o = pair -> <<home, home>>
                     [] o = blocked -> <<cdn, home>>
                     [] o = empty -> <<>>
                     [] OTHER -> <<home>>]
MCMaxConcurrency == [o \in Ops |-> IF o = zero THEN 0 ELSE 2]
MCOriginLimit ==
    [o \in Ops |-> [g \in Origins |-> IF o = blocked /\ g = cdn THEN 0 ELSE 1]]

\* The threads of the pool are interchangeable.
MCSymmetry == Permutations(Workers)
=============================================================================
