-------------------------------- MODULE Deque --------------------------------
(***************************************************************************)
(* The queue operations of Rust's VecDeque that the schedulers of rENDER    *)
(* use beyond push_back (Append) and pop_front (Head, Tail).                *)
(***************************************************************************)
EXTENDS Naturals, Sequences, FiniteSets

Elements(s) == {s[i] : i \in DOMAIN s}

Distinct(s) == \A i, j \in DOMAIN s : s[i] = s[j] => i = j

\* The first n elements of s, and the others.
FirstOf(s, n) == SubSeq(s, 1, n)
Behind(s, n) == SubSeq(s, n + 1, Len(s))

\* VecDeque::retain: the elements of s that are in keep, in their order.  The
\* j-th element kept is the one whose position has rank j among those kept.
Retain(s, keep) ==
    LET kept == {i \in DOMAIN s : s[i] \in keep}
        rank(i) == Cardinality({k \in kept : k <= i})
    IN  [j \in 1..Cardinality(kept) |-> s[CHOOSE i \in kept : rank(i) = j]]
==============================================================================
