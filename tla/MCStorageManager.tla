--------------------------- MODULE MCStorageManager ---------------------------
(* Instances of StorageManager for TLC: two local backends and a mock. *)
EXTENDS StorageManager, TLC

CONSTANTS l1, l2, m1, t1, t2

AllBackends == {l1, l2, m1}
Types == [b \in AllBackends |-> IF b = m1 THEN "mock" ELSE "local"]

Policy(primary, fallback, auto) ==
    [primary |-> primary, fallback |-> fallback, auto_failover |-> auto]

Default == Policy("local", "mock", TRUE)
MockFirst == {Policy("mock", "mock", FALSE)}

Interchangeable == Permutations({t1, t2}) \cup Permutations({l1, l2})
=============================================================================
