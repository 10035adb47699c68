------------------------------ MODULE MockStorage ------------------------------
(***************************************************************************)
(* The in-memory backend (src/src/storage/mock_storage.c): a linked list   *)
(* of files, newest first, behind files_lock, and counters behind          *)
(* stats_lock.  A call works on the list in one critical section and adds  *)
(* to the counters in a second one, between which other threads run.       *)
(*                                                                         *)
(* Times and latencies are left out.  Callers stay within 2^64: offset +   *)
(* size does not wrap.                                                     *)
(***************************************************************************)
EXTENDS Naturals, SequencesExt

CONSTANTS
    Thread, Path, Zero, Offset, ReadSize, Chunk, InitialSize,
    max_file_size, max_files,
    Injections,       \* settings of the error injection: [read, write, rate]
    MaxOps            \* bound: reads and writes between two resets of the counters

ASSUME MockAssumption ==
    /\ Zero \in Nat /\ Offset \subseteq Nat /\ ReadSize \subseteq Nat \ {0}
    /\ Chunk \subseteq Seq(Nat) \ {<<>>} /\ InitialSize \subseteq Nat
    /\ max_file_size \in Nat /\ max_files \in Nat /\ MaxOps \in Nat /\ IsFiniteSet(Thread)
    /\ Injections \subseteq [read : BOOLEAN, write : BOOLEAN, rate : Nat]

VARIABLES
    ready,            \* private_data is set
    files,            \* the list: [path, size, data], capacity is Len(data)
    file_count,
    inject,           \* [read, write, rate] of the error injection
    stats,            \* [read_ops, read_bytes, write_ops, write_bytes, error_count]
    todo,             \* what each thread has yet to add to the counters
    reply,            \* the last call that left files_lock, and its result
    acked             \* history: the successful calls since the counters were reset

vars == <<ready, files, file_count, inject, stats, todo, reply, acked>>

NoStats == [read_ops |-> 0, read_bytes |-> 0, write_ops |-> 0, write_bytes |-> 0,
            error_count |-> 0]
Idle == [op |-> "none", bytes |-> 0]

Content ==
    [p \in {files[i].path : i \in DOMAIN files} |->
        LET f == files[SelectInSeq(files, LAMBDA g : g.path = p)] IN SubSeq(f.data, 1, f.size)]

FS == INSTANCE FileStore WITH content <- Content, Volatile <- TRUE, Grows <- TRUE, Torn <- FALSE,
                              misused <- {}

Result(call, ret, data) == reply' = FS!Reply(call, ret, data)

find_file(path) == SelectInSeq(files, LAMBDA f : f.path = path)

\* The pending counts are part of what the threads have under way.
InFlight == {t \in Thread : todo[t] # Idle}

CanStart(t) == ready /\ todo[t] = Idle /\ acked.ops + stats.error_count < MaxOps

Init ==
    /\ ready = TRUE
    /\ files = <<>> /\ file_count = 0
    /\ inject = [read |-> FALSE, write |-> FALSE, rate |-> 0]
    /\ stats = NoStats
    /\ todo = [t \in Thread |-> Idle]
    /\ reply = FS!Reply(FS!NoCall, "ok", <<>>)
    /\ acked = [ops |-> 0, bytes |-> 0]

-----------------------------------------------------------------------------
(* The list *)

NewFile(path, n) == [path |-> path, size |-> n, data |-> FS!Zeros(n)]

\* create_new_file, once memory has been found: zeros, at the head of the list
create_new_file(path, n) ==
    /\ files' = <<NewFile(path, n)>> \o files
    /\ file_count' = file_count + 1

\* Mutant: the file is not given more memory.
ExpandSizeOnly(f, n) == [f EXCEPT !.size = n]

\* Mutant: what realloc returned is not cleared.
ExpandDirty(f, n) ==
    [f EXCEPT !.size = n, !.data = [i \in 1..(2 * n) |-> IF i <= f.size THEN @[i] ELSE Zero + 1]]

expand_file(f, n) ==
    [f EXCEPT !.size = n,
              !.data = [i \in 1..(IF n <= Len(f.data) THEN Len(f.data) ELSE 2 * n) |->
                            IF i <= f.size \/ (n <= Len(f.data) /\ i > n) THEN @[i] ELSE Zero]]

\* memcpy of data into the file
Overlay(f, offset, data) ==
    [f EXCEPT !.data = [i \in DOMAIN @ |->
        IF i \in (offset + 1)..(offset + Len(data)) THEN data[i - offset] ELSE @[i]]]

Grow(f, n) == IF n > f.size THEN expand_file(f, n) ELSE f

-----------------------------------------------------------------------------
(* Reads and writes *)

\* Injection is decided before any lock is taken.
Injected(t, flag, call) ==
    /\ CanStart(t)
    /\ flag /\ inject.rate > 0
    /\ stats' = [stats EXCEPT !.error_count = @ + 1]
    /\ Result(call, "io", <<>>)
    /\ UNCHANGED <<ready, files, file_count, inject, todo, acked>>

NotInjected(flag) == ~flag \/ inject.rate < 100

Quiet == UNCHANGED <<ready, files, file_count, inject, stats, todo, acked>>

\* A successful call goes on to the counters.
Count(t, op, bytes) ==
    /\ todo' = [todo EXCEPT ![t] = [op |-> op, bytes |-> bytes]]
    /\ acked' = [ops |-> acked.ops + 1, bytes |-> acked.bytes + bytes]

read_sync(t, path, offset, size) ==
    LET i == find_file(path)
        have == IF i = 0 THEN 0 ELSE files[i].size
        read_size == IF offset + size > have THEN have - offset ELSE size
    IN  /\ CanStart(t) /\ NotInjected(inject.read)
        /\ IF i = 0 \/ offset >= have
           THEN /\ Result(FS!Call("read", path, offset, size), "not_found", <<>>)
                /\ Quiet
           ELSE /\ Result(FS!Call("read", path, offset, size), "ok",
                          [k \in 1..size |-> IF k <= read_size THEN files[i].data[offset + k]
                                                              ELSE Zero])
                /\ Count(t, "read", read_size)
                /\ UNCHANGED <<ready, files, file_count, inject, stats>>

Capacity(path) == LET i == find_file(path) IN IF i = 0 THEN 0 ELSE Len(files[i].data)

\* No slot for a new file, or malloc or realloc fails.
WriteNoMemory(t, path, offset, data) ==
    /\ CanStart(t) /\ NotInjected(inject.write)
    /\ offset + Len(data) > Capacity(path)
    /\ Result(FS!Call("write", path, offset, data), "nomem", <<>>)
    /\ Quiet

\* Mutant: the file grows and the bytes are not copied.
CopyNothing(f, offset, data, n) == Grow(f, n)

WriteFile(f, offset, data, n) ==
    IF Grow(f, n).size > max_file_size THEN Grow(f, n) ELSE Overlay(Grow(f, n), offset, data)

\* The file grows first; only then is its size compared with the limit.
WriteExisting(t, path, offset, data) ==
    LET i == find_file(path)
        n == offset + Len(data)
    IN  /\ CanStart(t) /\ NotInjected(inject.write)
        /\ i # 0
        /\ files' = [files EXCEPT ![i] = WriteFile(@, offset, data, n)]
        /\ IF Grow(files[i], n).size > max_file_size
           THEN /\ Result(FS!Call("write", path, offset, data), "no_space", <<>>)
                /\ UNCHANGED <<todo, acked>>
           ELSE /\ Result(FS!Call("write", path, offset, data), "ok", <<>>)
                /\ Count(t, "write", Len(data))
        /\ UNCHANGED <<ready, file_count, inject, stats>>

\* A write to a path without a file creates it with its final size.
WriteNew(t, path, offset, data) ==
    LET n == offset + Len(data)
    IN  /\ CanStart(t) /\ NotInjected(inject.write)
        /\ find_file(path) = 0 /\ file_count < max_files
        /\ files' = <<WriteFile(NewFile(path, n), offset, data, n)>> \o files
        /\ file_count' = file_count + 1
        /\ IF n > max_file_size
           THEN /\ Result(FS!Call("write", path, offset, data), "no_space", <<>>)
                /\ UNCHANGED <<todo, acked>>
           ELSE /\ Result(FS!Call("write", path, offset, data), "ok", <<>>)
                /\ Count(t, "write", Len(data))
        /\ UNCHANGED <<ready, inject, stats>>

\* Mutant: the bytes are added without counting the operation.
AddBytesOnly(t) ==
    IF todo[t].op = "read" THEN [stats EXCEPT !.read_bytes = @ + todo[t].bytes]
                           ELSE [stats EXCEPT !.write_bytes = @ + todo[t].bytes]

AddToStats(t) ==
    IF todo[t].op = "read"
    THEN [stats EXCEPT !.read_ops = @ + 1, !.read_bytes = @ + todo[t].bytes]
    ELSE [stats EXCEPT !.write_ops = @ + 1, !.write_bytes = @ + todo[t].bytes]

UpdateStats(t) ==
    /\ todo[t] # Idle
    /\ stats' = AddToStats(t)
    /\ todo' = [todo EXCEPT ![t] = Idle]
    /\ UNCHANGED <<ready, files, file_count, inject, reply, acked>>

-----------------------------------------------------------------------------
(* The other operations *)

fsync(path) ==
    /\ ready
    /\ Result(FS!Call("fsync", path, 0, <<>>), "ok", <<>>)
    /\ Quiet

CreateExists(path, n) ==
    /\ ready /\ find_file(path) # 0
    /\ Result(FS!Call("create", path, n, <<>>), "exists", <<>>)
    /\ Quiet

CreateNoMemory(path, n) ==
    /\ ready /\ find_file(path) = 0
    /\ Result(FS!Call("create", path, n, <<>>), "nomem", <<>>)
    /\ Quiet

CreateFile(path, n) ==
    /\ ready /\ find_file(path) = 0 /\ file_count < max_files
    /\ create_new_file(path, n)
    /\ Result(FS!Call("create", path, n, <<>>), "ok", <<>>)
    /\ UNCHANGED <<ready, inject, stats, todo, acked>>

remove_file(path) ==
    /\ files' = RemoveAt(files, find_file(path))
    /\ file_count' = file_count - 1

delete_file(path) ==
    /\ ready
    /\ \/ /\ find_file(path) = 0
          /\ Result(FS!Call("delete", path, 0, <<>>), "not_found", <<>>)
          /\ Quiet
       \/ /\ find_file(path) # 0
          /\ remove_file(path)
          /\ Result(FS!Call("delete", path, 0, <<>>), "ok", <<>>)
          /\ UNCHANGED <<ready, inject, stats, todo, acked>>

get_file_info(path) ==
    LET i == find_file(path)
    IN  /\ ready
        /\ IF i = 0 THEN Result(FS!Call("info", path, 0, <<>>), "not_found", <<>>)
                    ELSE Result(FS!Call("info", path, 0, <<>>), "ok", <<files[i].size>>)
        /\ Quiet

reset_stats ==
    /\ ready
    /\ stats' = NoStats
    /\ acked' = [ops |-> Cardinality(InFlight),
                 bytes |-> FoldSet(LAMBDA t, sum : sum + todo[t].bytes, 0, InFlight)]
    /\ UNCHANGED <<ready, files, file_count, inject, todo, reply>>

set_error_injection(setting) ==
    /\ ready
    /\ inject' = setting
    /\ UNCHANGED <<ready, files, file_count, stats, todo, reply, acked>>

\* The last user cleans up; the interface may be initialised again.
cleanup ==
    /\ ready /\ InFlight = {}
    /\ ready' = FALSE
    /\ files' = <<>> /\ file_count' = 0
    /\ Result(FS!NoCall, "ok", <<>>)
    /\ UNCHANGED <<inject, stats, todo, acked>>

init ==
    /\ ~ready
    /\ ready' = TRUE
    /\ inject' = [read |-> FALSE, write |-> FALSE, rate |-> 0]
    /\ stats' = NoStats
    /\ acked' = [ops |-> 0, bytes |-> 0]
    /\ UNCHANGED <<files, file_count, todo, reply>>

Next ==
    \/ \E t \in Thread, p \in Path, o \in Offset :
        \/ \E n \in ReadSize : \/ Injected(t, inject.read, FS!Call("read", p, o, n))
                               \/ read_sync(t, p, o, n)
        \/ \E d \in Chunk : \/ Injected(t, inject.write, FS!Call("write", p, o, d))
                            \/ WriteNoMemory(t, p, o, d)
                            \/ WriteExisting(t, p, o, d)
                            \/ WriteNew(t, p, o, d)
    \/ \E t \in Thread : UpdateStats(t)
    \/ \E p \in Path :
        \/ fsync(p) \/ delete_file(p) \/ get_file_info(p)
        \/ \E n \in InitialSize : CreateExists(p, n) \/ CreateNoMemory(p, n) \/ CreateFile(p, n)
    \/ reset_stats
    \/ \E setting \in Injections : set_error_injection(setting)
    \/ cleanup \/ init

Spec == Init /\ [][Next]_vars

-----------------------------------------------------------------------------
(* Properties *)

\* Every variable keeps its type, and the bytes of a file are allocated
\* (mock_storage.c:10-43).
TypeOK ==
    /\ ready \in BOOLEAN
    /\ \A i \in DOMAIN files :
         files[i].path \in Path /\ files[i].size \in 0..Len(files[i].data)
    /\ file_count \in 0..max_files
    /\ inject \in [read : BOOLEAN, write : BOOLEAN, rate : Nat]
    /\ DOMAIN stats = DOMAIN NoStats /\ \A k \in DOMAIN stats : stats[k] \in Nat
    /\ todo \in [Thread -> [op : {"none", "read", "write"}, bytes : Nat]]
    /\ acked \in [ops : Nat, bytes : Nat]

\* However calls of several threads interleave, the list holds each path once,
\* its length is file_count, and the reserve behind a file's end is zero, so
\* that a file that grows into it grows by zeros (mock_storage.c:105-208).
ListSound ==
    /\ file_count = Len(files)
    /\ \A i, j \in DOMAIN files : files[i].path = files[j].path => i = j
    /\ \A i \in DOMAIN files : \A k \in (files[i].size + 1)..Len(files[i].data) :
         files[i].data[k] = Zero

\* No acknowledged read or write is lost from the counters or counted twice: they
\* agree with the calls since the last reset once the calls under way have been
\* added (mock_storage.c:379-385, 451-457, 573-585).
StatsConserved ==
    /\ stats.read_ops + stats.write_ops + Cardinality(InFlight) = acked.ops
    /\ stats.read_bytes + stats.write_bytes
         + FoldSet(LAMBDA t, sum : sum + todo[t].bytes, 0, InFlight) = acked.bytes

\* The backend implements FileStore, also at max_file_size: calls are atomic, a
\* failed call changes nothing but the size of a file it found too large, holes
\* and re-created files read as zeros (mock_storage.c:326-550).
ImplementsFileStore == FS!Spec
=============================================================================
