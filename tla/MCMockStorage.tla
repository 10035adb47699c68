---------------------------- MODULE MCMockStorage ----------------------------
(* Instances of MockStorage for TLC. *)
EXTENDS MockStorage

OneChunk == {<<1, 2>>}

\* Reads and writes fail now and then.
Fault == {[read |-> TRUE, write |-> TRUE, rate |-> 50]}

Renamings == Permutations(Thread) \cup Permutations(Path)
=============================================================================
