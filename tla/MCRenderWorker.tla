--------------------------- MODULE MCRenderWorker ---------------------------
(***************************************************************************)
(* A small instance of RenderWorker: a tab that is submitted twice and one  *)
(* that competes with it for the only slot of the queue.                    *)
(***************************************************************************)
EXTENDS RenderWorker

CONSTANTS front, back

MCMaxGeneration == [t \in Tabs |-> IF t = front THEN 2 ELSE 1]
=============================================================================
