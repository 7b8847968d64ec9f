------------------------------ MODULE MCH2Pool ------------------------------
(***************************************************************************)
(* A fetch and an upload that share an origin.                              *)
(***************************************************************************)
EXTENDS H2Pool

CONSTANTS get, post

MCStreamLimit == [c \in Conns |-> IF c = 1 THEN 2 ELSE 1]
MCMaxResponse == [r \in Requests |-> IF r = get THEN 2 ELSE 0]
MCBody == [r \in Requests |-> IF r = post THEN 2 ELSE 0]
=============================================================================
