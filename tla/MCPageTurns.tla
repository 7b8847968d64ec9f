----------------------------- MODULE MCPageTurns -----------------------------
(***************************************************************************)
(* Small pages: an interval of zero delay, a timeout of one unit and a      *)
(* timeout of zero delay.                                                   *)
(***************************************************************************)
EXTENDS PageTurns

MCDelay == [t \in Timers |-> IF t = 2 THEN 1 ELSE 0]
MCIntervals == {1} \cap Timers
==============================================================================
