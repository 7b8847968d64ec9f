--------------------------- MODULE MCPageFetches ---------------------------
(***************************************************************************)
(* A page with an ordered batch of two requests and a drained batch of one  *)
(* that the cache may answer.  The first request may be rejected twice.      *)
(***************************************************************************)
EXTENDS PageFetches

CONSTANTS sheet1, sheet2, image

MCOrdered == {<<sheet1, sheet2>>}
MCDrained == {<<image>>}
MCMaxAttempts == [f \in Fetches |-> IF f = sheet1 THEN 3 ELSE 1]
=============================================================================
