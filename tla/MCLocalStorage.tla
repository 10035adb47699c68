---------------------------- MODULE MCLocalStorage ----------------------------
(* Instances of LocalStorage for TLC. *)
EXTENDS LocalStorage

CONSTANTS t1, t2, p1, p2

TwoBytes == {<<1, 2>>}

\* Threads and paths are interchangeable.
Symmetry == Permutations({t1, t2}) \cup Permutations({p1, p2})
=============================================================================
