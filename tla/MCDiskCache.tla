----------------------------- MODULE MCDiskCache -----------------------------
EXTENDS DiskCache, TLC

CONSTANTS a, b, w1, w2, w3

\* Two keys that share a hash prefix, one of them written twice; two records
\* fill the store, and two of the three exceed it with the third.
MCKeys == {a, b}
MCHash == [k \in MCKeys |-> 0]
MCWrites == {w1, w2, w3}
MCKey == (w1 :> a) @@ (w2 :> a) @@ (w3 :> b)
MCSize == (w1 :> 1) @@ (w2 :> 1) @@ (w3 :> 2)
=============================================================================
