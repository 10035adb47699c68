------------------------------ MODULE FileBytes ------------------------------
(***************************************************************************)
(* The bytes of a file as a sequence.  Offsets count from 0, as in the     *)
(* calls of storage_interface_t (src/include/storage_interface.h).         *)
(***************************************************************************)
EXTENDS Naturals, Sequences

CONSTANT Zero     \* the byte that fills holes

\* s with data written at offset, the hole before it filled with zeros
Patch(s, offset, data) ==
    [i \in 1..(IF offset + Len(data) > Len(s) THEN offset + Len(data) ELSE Len(s)) |->
        IF i \in (offset + 1)..(offset + Len(data)) THEN data[i - offset]
        ELSE IF i <= Len(s) THEN s[i] ELSE Zero]

\* size bytes of s from offset on, zeros beyond its end
Window(s, offset, size) ==
    [i \in 1..size |-> IF offset + i <= Len(s) THEN s[offset + i] ELSE Zero]

Zeros(n) == [i \in 1..n |-> Zero]
=============================================================================
