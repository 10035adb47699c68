------------------------------ MODULE LocalStorage ------------------------------
(***************************************************************************)
(* The file backend (src/src/storage/local_storage.c): files below a base  *)
(* directory, reached through a cache of descriptors that is keyed by the  *)
(* path alone and never evicts.  A call takes its descriptor in a critical *)
(* section of fd_cache_lock and then seeks and transfers without a lock,   *)
(* so calls of several threads interleave between these steps.  A          *)
(* successful read or write adds to the counters in a second critical      *)
(* section, behind stats_lock.                                             *)
(*                                                                         *)
(* Nothing keeps two threads from using one file at once, or a caller from *)
(* deleting a file whose descriptor is cached.  Both are modelled; misused *)
(* remembers the files they have happened to.                              *)
(*                                                                         *)
(* The file system is external: names, inodes, and open descriptions with  *)
(* an access mode and a position.  Times and latencies are left out.       *)
(***************************************************************************)
EXTENDS Naturals, SequencesExt

CONSTANTS
    Thread, Path, Zero, Offset, ReadSize, Chunk, InitialSize,
    max_open_files,
    MaxFds,          \* the descriptors a process may have open
    MaxInodes,       \* bound: files ever created
    MaxInits,        \* bound: initialisations of the backend
    MaxCalls,        \* bound: calls
    Failures         \* system calls may fail

ASSUME LocalAssumption ==
    /\ Zero \in Nat /\ Offset \subseteq Nat /\ ReadSize \subseteq Nat \ {0}
    /\ Chunk \subseteq Seq(Nat) \ {<<>>} /\ InitialSize \subseteq Nat
    /\ max_open_files \in Nat /\ MaxFds \in Nat /\ MaxInodes \in Nat /\ MaxInits \in Nat \ {0}
    /\ MaxCalls \in Nat /\ IsFiniteSet(Thread)
    /\ Failures \in BOOLEAN

VARIABLES
    ready,           \* private_data is set
    inits,           \* initialisations so far
    dir,             \* the inode of each path, 0 if there is none
    inodes,          \* the files ever created: [path, data]
    fds,             \* open descriptions by number: [inode, mode, pos]
    fd_cache,        \* [path, fd]
    call,            \* the call each thread is in
    reply,           \* the last call that read or changed its file, and its result
    stats,           \* the counters of the reads and of the writes: [ops, bytes]
    acked,           \* history: the successful transfers since the counters were reset
    misused,         \* history: the files used by two calls at once, or deleted while
                     \* their descriptor was cached, since the last cleanup
    begun            \* calls so far

counters == <<stats, acked>>
usage == <<misused, begun>>
vars == <<ready, inits, dir, inodes, fds, fd_cache, call, reply, counters, usage>>

Transfer == {"read", "write"}
NoStats == [op \in Transfer |-> [ops |-> 0, bytes |-> 0]]

Fd == 1..MaxFds
Closed == [inode |-> 0, mode |-> "none", pos |-> 0]
NoThing == [step |-> "idle", req |-> <<"none", "none", 0, <<>>>>, fd |-> 0, new |-> 0]

\* The file of a call that is still creating it is not there yet.
Visible(p) == dir[p] # 0 /\ \A t \in Thread : call[t].new # dir[p]

Content == [p \in {q \in Path : Visible(q)} |-> inodes[dir[p]].data]

FS == INSTANCE FileStore WITH content <- Content, Volatile <- FALSE, Grows <- FALSE, Torn <- TRUE

Init ==
    /\ ready = TRUE /\ inits = 1
    /\ dir = [p \in Path |-> 0]
    /\ inodes = <<>>
    /\ fds = [d \in Fd |-> Closed]
    /\ fd_cache = <<>>
    /\ call = [t \in Thread |-> NoThing]
    /\ reply = FS!Reply(FS!NoCall, "ok", <<>>)
    /\ stats = NoStats /\ acked = NoStats
    /\ misused = {} /\ begun = 0

\* Mutant: any cached descriptor will do.
AnyCached(path) == IF fd_cache = <<>> THEN 0 ELSE 1

\* The place of the descriptor of a path in the cache, 0 if it has none
Cached(path) == SelectInSeq(fd_cache, LAMBDA c : c.path = path)

\* Some thread has the file open and has not finished with it.
InUse(p) ==
    \E t \in Thread : /\ call[t].step \in {"seek", "transfer", "fsync", "truncate"}
                      /\ call[t].req[2] = p

\* A call on a file starts: does it meet another one, or remove the name behind a
\* cached descriptor?
Use(req) ==
    /\ begun < MaxCalls
    /\ begun' = begun + 1
    /\ misused' = IF InUse(req[2]) \/ (req[1] = "delete" /\ Cached(req[2]) # 0)
                  THEN misused \cup {req[2]} ELSE misused

Return(t, ret, data) ==
    /\ reply' = FS!Reply(call[t].req, ret, data)
    /\ call' = [call EXCEPT ![t] = NoThing]
    /\ UNCHANGED <<counters, usage>>

\* A transfer of n bytes has succeeded: the call goes on to the counters.
Transferred(t, n, data) ==
    /\ reply' = FS!Reply(call[t].req, "ok", data)
    /\ call' = [call EXCEPT ![t] = [@ EXCEPT !.step = "stats", !.fd = 0, !.new = 0]]
    /\ acked' = [acked EXCEPT ![call[t].req[1]] = [ops |-> @.ops + 1, bytes |-> @.bytes + n]]
    /\ UNCHANGED <<stats, usage>>

\* A call that needs one step only
ReturnAtOnce(t, req, ret, data) ==
    /\ ready /\ call[t] = NoThing
    /\ reply' = FS!Reply(req, ret, data)
    /\ Use(req)
    /\ UNCHANGED <<call, counters>>

-----------------------------------------------------------------------------
(* get_file_descriptor *)

FreeFds == {d \in Fd : fds[d] = Closed}

\* open(2) takes the lowest free number and creates a missing file if asked to.
OpenFile(path, mode, create, d) ==
    /\ d \in FreeFds /\ \A e \in FreeFds : d <= e
    /\ IF dir[path] # 0
       THEN /\ fds' = [fds EXCEPT ![d] = [inode |-> dir[path], mode |-> mode, pos |-> 0]]
            /\ UNCHANGED <<dir, inodes>>
       ELSE /\ create /\ Len(inodes) < MaxInodes
            /\ inodes' = Append(inodes, [path |-> path, data |-> <<>>])
            /\ dir' = [dir EXCEPT ![path] = Len(inodes) + 1]
            /\ fds' = [fds EXCEPT ![d] = [inode |-> Len(inodes) + 1, mode |-> mode, pos |-> 0]]

\* The mode of a cached descriptor is not compared with the flags.
FdFromCache(t, req, next) ==
    /\ ready /\ call[t] = NoThing
    /\ Cached(req[2]) # 0
    /\ call' = [call EXCEPT ![t] = [step |-> next, req |-> req,
                                    fd |-> fd_cache[Cached(req[2])].fd, new |-> 0]]
    /\ Use(req)
    /\ UNCHANGED <<ready, inits, dir, inodes, fds, fd_cache, reply, counters>>

\* Mutant: one slot too many.
HasSlotOffByOne == Len(fd_cache) <= max_open_files

HasSlot == Len(fd_cache) < max_open_files

\* A full cache keeps nothing: the descriptor is used once and stays open.
FdFromOpen(t, req, mode, create, next) ==
    /\ ready /\ call[t] = NoThing
    /\ Cached(req[2]) = 0
    /\ \E d \in Fd :
         /\ OpenFile(req[2], mode, create, d)
         /\ fd_cache' = IF HasSlot THEN Append(fd_cache, [path |-> req[2], fd |-> d])
                                   ELSE fd_cache
         /\ call' = [call EXCEPT ![t] = [step |-> next, req |-> req, fd |-> d,
                         new |-> IF dir[req[2]] = 0 THEN Len(inodes) + 1 ELSE 0]]
    /\ Use(req)
    /\ UNCHANGED <<ready, inits, reply, counters>>

\* open fails: no such file, no free descriptor, or for a reason of its own.
FdFails(t, req, create) ==
    /\ Cached(req[2]) = 0
    /\ FreeFds = {} \/ (~create /\ dir[req[2]] = 0) \/ Failures
    /\ ReturnAtOnce(t, req, "io", <<>>)
    /\ UNCHANGED <<ready, inits, dir, inodes, fds, fd_cache>>

GetDescriptor(t, req, mode, create, next) ==
    \/ FdFromCache(t, req, next)
    \/ FdFromOpen(t, req, mode, create, next)
    \/ FdFails(t, req, create)

-----------------------------------------------------------------------------
(* read_sync, write_sync, fsync after the descriptor is known *)

Start(t) ==
    \E p \in Path :
        \/ \E o \in Offset, n \in ReadSize :
             GetDescriptor(t, FS!Call("read", p, o, n), "r", FALSE, "seek")
        \/ \E o \in Offset, d \in Chunk :
             GetDescriptor(t, FS!Call("write", p, o, d), "w", TRUE, "seek")
        \/ GetDescriptor(t, FS!Call("fsync", p, 0, <<>>), "w", FALSE, "fsync")

\* lseek of a regular file to an offset that fits off_t does not fail.
SetPosition(t) == fds' = [fds EXCEPT ![call[t].fd].pos = call[t].req[3]]

Seek(t) ==
    /\ call[t].step = "seek"
    /\ SetPosition(t)
    /\ call' = [call EXCEPT ![t].step = "transfer"]
    /\ UNCHANGED <<ready, inits, dir, inodes, fd_cache, reply, counters, usage>>

Read(t) ==
    LET f    == fds[call[t].fd]
        data == inodes[f.inode].data
        n    == call[t].req[4]
        got  == IF f.pos + n <= Len(data) THEN n
                ELSE IF f.pos <= Len(data) THEN Len(data) - f.pos ELSE 0
    IN  /\ call[t].step = "transfer" /\ call[t].req[1] = "read"
        /\ IF f.mode = "w"
           THEN Return(t, "io", <<>>) /\ UNCHANGED fds
           ELSE /\ fds' = [fds EXCEPT ![call[t].fd].pos = @ + got]
                /\ IF got = n THEN Transferred(t, n, SubSeq(data, f.pos + 1, f.pos + n))
                              ELSE Return(t, "not_found", <<>>)
        /\ UNCHANGED <<ready, inits, dir, inodes, fd_cache>>

ReadFails(t) ==
    /\ call[t].step = "transfer" /\ call[t].req[1] = "read" /\ Failures
    /\ Return(t, "io", <<>>)
    /\ UNCHANGED <<ready, inits, dir, inodes, fds, fd_cache>>

\* write(2) stores the first k bytes; fewer than all are reported as an error.
Write(t) ==
    LET f    == fds[call[t].fd]
        data == call[t].req[4]
    IN  /\ call[t].step = "transfer" /\ call[t].req[1] = "write" /\ f.mode = "w"
        /\ \E k \in IF Failures THEN 0..Len(data) ELSE {Len(data)} :
             /\ inodes' = IF k = 0 THEN inodes
                          ELSE [inodes EXCEPT ![f.inode].data =
                                    FS!Patch(@, f.pos, SubSeq(data, 1, k))]
             /\ fds' = [fds EXCEPT ![call[t].fd].pos = @ + k]
             /\ IF k = Len(data) THEN Transferred(t, k, <<>>) ELSE Return(t, "io", <<>>)
        /\ UNCHANGED <<ready, inits, dir, fd_cache>>

\* The cached descriptor was opened by a read.
WriteBadFd(t) ==
    /\ call[t].step = "transfer" /\ call[t].req[1] = "write"
    /\ fds[call[t].fd].mode = "r"
    /\ Return(t, "io", <<>>)
    /\ UNCHANGED <<ready, inits, dir, inodes, fds, fd_cache>>

Fsync(t) ==
    /\ call[t].step = "fsync"
    /\ \/ Return(t, "ok", <<>>)
       \/ Failures /\ Return(t, "io", <<>>)
    /\ UNCHANGED <<ready, inits, dir, inodes, fds, fd_cache>>

\* The size of a read is a number, of a write the length of its bytes.
Bytes(req) == IF req[1] = "read" THEN req[4] ELSE Len(req[4])

\* What the calls that have transferred their bytes will add to the counters
Uncounted(op) ==
    LET late == {t \in Thread : call[t].step = "stats" /\ call[t].req[1] = op}
    IN  [ops   |-> Cardinality(late),
         bytes |-> FoldSet(LAMBDA t, n : n + Bytes(call[t].req), 0, late)]

\* Mutant: the number of calls is not kept.
CountBytes(t) == [stats EXCEPT ![call[t].req[1]].bytes = @ + Bytes(call[t].req)]

Counted(t) ==
    [stats EXCEPT ![call[t].req[1]] = [ops   |-> @.ops + 1,
                                       bytes |-> @.bytes + Bytes(call[t].req)]]

UpdateStats(t) ==
    /\ call[t].step = "stats"
    /\ stats' = Counted(t)
    /\ call' = [call EXCEPT ![t] = NoThing]
    /\ UNCHANGED <<ready, inits, dir, inodes, fds, fd_cache, reply, acked, usage>>

\* Transfers that are not counted yet will be, behind the reset.
ResetStats ==
    /\ ready
    /\ stats' = NoStats
    /\ acked' = [op \in Transfer |-> Uncounted(op)]
    /\ UNCHANGED <<ready, inits, dir, inodes, fds, fd_cache, call, reply, usage>>

-----------------------------------------------------------------------------
(* create_file, delete_file, get_file_info *)

\* The descriptor of this call lives until its second step and is not tracked.
CreateOpen(t, p, n) ==
    /\ ready /\ call[t] = NoThing
    /\ dir[p] = 0 /\ Len(inodes) < MaxInodes
    /\ inodes' = Append(inodes, [path |-> p, data |-> <<>>])
    /\ dir' = [dir EXCEPT ![p] = Len(inodes) + 1]
    /\ call' = [call EXCEPT ![t] = [step |-> "truncate", req |-> FS!Call("create", p, n, <<>>),
                                    fd |-> 0, new |-> Len(inodes) + 1]]
    /\ Use(FS!Call("create", p, n, <<>>))
    /\ UNCHANGED <<ready, inits, fds, fd_cache, reply, counters>>

CreateRefused(t, p, n) ==
    /\ \/ dir[p] # 0 /\ ReturnAtOnce(t, FS!Call("create", p, n, <<>>), "exists", <<>>)
       \/ dir[p] = 0 /\ Failures /\ ReturnAtOnce(t, FS!Call("create", p, n, <<>>), "io", <<>>)
    /\ UNCHANGED <<ready, inits, dir, inodes, fds, fd_cache>>

\* ftruncate sets the size, whatever other threads have written meanwhile.
CreateTruncate(t) ==
    LET n == call[t].req[3]
    IN  /\ call[t].step = "truncate"
        /\ inodes' = IF n = 0 THEN inodes
                     ELSE [inodes EXCEPT ![call[t].new].data = FS!Window(@, 0, n)]
        /\ Return(t, "ok", <<>>)
        /\ UNCHANGED <<ready, inits, dir, fds, fd_cache>>

CreateUndo(t) ==
    /\ call[t].step = "truncate" /\ call[t].req[3] > 0 /\ Failures
    /\ dir' = [dir EXCEPT ![call[t].req[2]] = 0]
    /\ Return(t, "io", <<>>)
    /\ UNCHANGED <<ready, inits, inodes, fds, fd_cache>>

\* The cache is not told.
DeleteFile(t, p) ==
    /\ \/ /\ dir[p] # 0
          /\ dir' = [dir EXCEPT ![p] = 0]
          /\ ReturnAtOnce(t, FS!Call("delete", p, 0, <<>>), "ok", <<>>)
       \/ /\ dir[p] = 0
          /\ ReturnAtOnce(t, FS!Call("delete", p, 0, <<>>), "not_found", <<>>)
          /\ UNCHANGED dir
       \/ /\ Failures
          /\ ReturnAtOnce(t, FS!Call("delete", p, 0, <<>>), "io", <<>>)
          /\ UNCHANGED dir
    /\ UNCHANGED <<ready, inits, inodes, fds, fd_cache>>

GetFileInfo(t, p) ==
    /\ \/ /\ dir[p] = 0
          /\ ReturnAtOnce(t, FS!Call("info", p, 0, <<>>), "not_found", <<>>)
       \/ /\ dir[p] # 0
          /\ ReturnAtOnce(t, FS!Call("info", p, 0, <<>>), "ok", <<Len(inodes[dir[p]].data)>>)
       \/ Failures /\ ReturnAtOnce(t, FS!Call("info", p, 0, <<>>), "io", <<>>)
    /\ UNCHANGED <<ready, inits, dir, inodes, fds, fd_cache>>

-----------------------------------------------------------------------------
(* cleanup, init *)

\* Mutant: the entries of the closed descriptors are kept.
KeepEntries == fd_cache

EntriesAfterCleanup == <<>>

\* The last user cleans up: the cached descriptors are closed, no others.
Cleanup ==
    /\ ready /\ \A t \in Thread : call[t] = NoThing
    /\ ready' = FALSE
    /\ fds' = [d \in Fd |-> IF \E i \in DOMAIN fd_cache : fd_cache[i].fd = d THEN Closed
                                                                            ELSE fds[d]]
    /\ fd_cache' = EntriesAfterCleanup
    /\ misused' = {}
    /\ UNCHANGED <<inits, dir, inodes, call, reply, counters, begun>>

Initialise ==
    /\ ~ready /\ inits < MaxInits
    /\ ready' = TRUE
    /\ inits' = inits + 1
    /\ stats' = NoStats /\ acked' = NoStats
    /\ UNCHANGED <<dir, inodes, fds, fd_cache, call, reply, usage>>

Next ==
    \/ \E t \in Thread :
        \/ Start(t) \/ Seek(t) \/ Read(t) \/ ReadFails(t) \/ Write(t)
        \/ WriteBadFd(t) \/ Fsync(t) \/ UpdateStats(t)
        \/ \E p \in Path, n \in InitialSize : CreateOpen(t, p, n) \/ CreateRefused(t, p, n)
        \/ CreateTruncate(t) \/ CreateUndo(t)
        \/ \E p \in Path : DeleteFile(t, p) \/ GetFileInfo(t, p)
    \/ ResetStats \/ Cleanup \/ Initialise

Spec == Init /\ [][Next]_vars

-----------------------------------------------------------------------------
(* Properties *)

\* Every variable keeps its type (local_storage.c:27-57).
TypeOK ==
    /\ ready \in BOOLEAN /\ inits \in 1..MaxInits
    /\ dir \in [Path -> 0..Len(inodes)]
    /\ Len(inodes) <= MaxInodes /\ \A i \in DOMAIN inodes : inodes[i].path \in Path
    /\ fds \in [Fd -> [inode : 0..Len(inodes), mode : {"none", "r", "w"}, pos : Nat]]
    /\ Len(fd_cache) <= max_open_files
    /\ \A i \in DOMAIN fd_cache : fd_cache[i].path \in Path /\ fd_cache[i].fd \in Fd
    /\ \A t \in Thread :
         /\ call[t].step \in {"idle", "seek", "transfer", "fsync", "truncate", "stats"}
         /\ call[t].fd \in 0..MaxFds /\ call[t].new \in 0..Len(inodes)

\* No successful read or write is lost from the counters or counted twice: they
\* and the transfers under way add up to what was done since the last reset, in
\* calls and in bytes (local_storage.c:395-400, 451-456, 605-617).
StatsConserved ==
    \A op \in Transfer :
        /\ stats[op].ops + Uncounted(op).ops = acked[op].ops
        /\ stats[op].bytes + Uncounted(op).bytes = acked[op].bytes

\* A descriptor never stands for another file than the one it was looked up for,
\* through opens, deletes, failures and a cleanup that lets its number be used
\* again: the cache holds each path once, with an open descriptor of a file
\* created under that path, and so does every call under way
\* (local_storage.c:174-213, 299-334).
DescriptorsSound ==
    /\ \A i, j \in DOMAIN fd_cache : fd_cache[i].path = fd_cache[j].path => i = j
    /\ \A i \in DOMAIN fd_cache :
         LET f == fds[fd_cache[i].fd] IN f # Closed /\ inodes[f.inode].path = fd_cache[i].path
    /\ \A t \in Thread : call[t].fd # 0 =>
         LET f == fds[call[t].fd] IN f # Closed /\ inodes[f.inode].path = call[t].req[2]

\* The backend implements FileStore, although a call takes several steps, any
\* system call fails or stops half-way, and descriptors outlive calls and share
\* one cache and one table.  A file that two calls use at once, or that is deleted
\* while its descriptor is cached, loses the promise until the next cleanup, and
\* no other file does (local_storage.c:357-582).
ImplementsFileStore == FS!Spec

\* Bytes that are in the file can be read.
ReadSucceeds ==
    [][(reply'.call[1] = "read" /\ call' # call) =>
        LET p == reply'.call[2]
        IN  (p \in DOMAIN Content /\ reply'.call[3] + reply'.call[4] <= Len(Content[p]))
                => reply'.ret = "ok"]_vars
=============================================================================
