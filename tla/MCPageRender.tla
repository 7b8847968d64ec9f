---------------------------- MODULE MCPageRender ----------------------------
(***************************************************************************)
(* A small instance of PageRender.  The queue holds one job and the          *)
(* completions one frame, for two tabs, so that each of them pushes the     *)
(* other's render out in the place of eight tabs and more.                  *)
(***************************************************************************)
EXTENDS PageRender

CONSTANTS news, mail

NoBound == [t \in Tabs |-> 0]
=============================================================================
