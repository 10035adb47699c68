-------------------------- MODULE LocalStorageProofs --------------------------
(***************************************************************************)
(* The file backend, for every set of threads, paths and limits: no        *)
(* descriptor stands for a wrong file and no transfer is lost from the     *)
(* counters; and it implements FileStore, with no promise left about the   *)
(* files that two calls used at once or that were deleted while cached.    *)
(***************************************************************************)
EXTENDS LocalStorage, DataLemmas

USE LocalAssumption

-----------------------------------------------------------------------------
(* The shapes of the state *)

Inode == [path : Path, data : Seq(Nat)]
Desc  == [inode : Nat, mode : {"none", "r", "w"}, pos : Nat]
Entry == [path : Path, fd : Fd]

ReadReq   == {FS!Call("read", p, o, n) : p \in Path, o \in Offset, n \in ReadSize}
WriteReq  == {FS!Call("write", p, o, d) : p \in Path, o \in Offset, d \in Chunk}
SyncReq   == {FS!Call("fsync", p, 0, <<>>) : p \in Path}
CreateReq == {FS!Call("create", p, n, <<>>) : p \in Path, n \in InitialSize}
Req       == ReadReq \cup WriteReq \cup SyncReq \cup CreateReq \cup {NoThing.req}

Calls == [step : {"idle", "seek", "transfer", "fsync", "truncate", "stats"},
          req : Req, fd : 0..MaxFds, new : Nat]

LEMMA ReqFields ==
    /\ \A r \in ReadReq : r[1] = "read" /\ r[2] \in Path /\ r[3] \in Nat /\ r[4] \in Nat \ {0}
    /\ \A r \in WriteReq : r[1] = "write" /\ r[2] \in Path /\ r[3] \in Nat
                           /\ r[4] \in Seq(Nat) /\ r[4] # <<>>
    /\ \A r \in SyncReq : r[1] = "fsync" /\ r[2] \in Path
    /\ \A r \in CreateReq : r[1] = "create" /\ r[2] \in Path /\ r[3] \in Nat
<1>1. ASSUME NEW r \in ReadReq
      PROVE  r[1] = "read" /\ r[2] \in Path /\ r[3] \in Nat /\ r[4] \in Nat \ {0}
  <2>1. PICK p \in Path, o \in Offset, n \in ReadSize : r = <<"read", p, o, n>>
    BY DEF ReadReq, FS!Call
  <2>2. o \in Nat /\ n \in Nat \ {0}
    OBVIOUS
  <2> QED BY <2>1, <2>2
<1>2. \A r \in WriteReq : r[1] = "write" /\ r[2] \in Path /\ r[3] \in Nat
                          /\ r[4] \in Seq(Nat) /\ r[4] # <<>>
  BY DEF WriteReq, FS!Call
<1>3. \A r \in SyncReq : r[1] = "fsync" /\ r[2] \in Path
  BY DEF SyncReq, FS!Call
<1>4. \A r \in CreateReq : r[1] = "create" /\ r[2] \in Path /\ r[3] \in Nat
  BY DEF CreateReq, FS!Call
<1> QED BY <1>1, <1>2, <1>3, <1>4

LEMMA NoThingFields ==
    /\ NoThing \in Calls /\ NoThing.step = "idle" /\ NoThing.fd = 0 /\ NoThing.new = 0
BY DEF NoThing, Calls, Req

\* What a call has in hand at each of its steps
CallSound(c) ==
    \/ c = NoThing
    \/ /\ c.step \in {"seek", "transfer"} /\ c.fd # 0
       /\ c.req \in WriteReq \/ (c.req \in ReadReq /\ c.new = 0)
    \/ c.step = "fsync" /\ c.fd # 0 /\ c.new = 0 /\ c.req \in SyncReq
    \/ c.step = "truncate" /\ c.fd = 0 /\ c.new # 0 /\ c.req \in CreateReq
    \/ c.step = "stats" /\ c.fd = 0 /\ c.new = 0 /\ c.req \in ReadReq \cup WriteReq

\* The i-th inode was created under path p.
Holds(ns, i, p) == i \in 1..Len(ns) /\ ns[i].path = p

\* Descriptor d is open on such an inode.
Opened(fs, ns, d, p) == d \in Fd /\ fs[d] # Closed /\ Holds(ns, fs[d].inode, p)

NodesInv == inodes \in Seq(Inode) /\ Len(inodes) <= MaxInodes

DirInv ==
    /\ dir \in [Path -> Nat]
    /\ \A p \in Path : dir[p] # 0 => Holds(inodes, dir[p], p)

FdsInv ==
    /\ fds \in [Fd -> Desc]
    /\ \A d \in Fd : fds[d] # Closed => fds[d].inode \in 1..Len(inodes) /\ fds[d].mode \in {"r", "w"}

CacheInv ==
    /\ fd_cache \in Seq(Entry) /\ Len(fd_cache) <= max_open_files
    /\ \A i, j \in 1..Len(fd_cache) : fd_cache[i].path = fd_cache[j].path => i = j
    /\ \A i \in 1..Len(fd_cache) : Opened(fds, inodes, fd_cache[i].fd, fd_cache[i].path)

CallInHand(fs, ns, c) ==
    /\ CallSound(c)
    /\ c.fd # 0 => Opened(fs, ns, c.fd, c.req[2])
    /\ c.new # 0 => Holds(ns, c.new, c.req[2])

CallsInv ==
    /\ call \in [Thread -> Calls]
    /\ \A t \in Thread : CallInHand(fds, inodes, call[t])

ReadyInv ==
    /\ ready \in BOOLEAN /\ inits \in 1..MaxInits
    /\ ~ready => \A t \in Thread : call[t] = NoThing

FileInv == NodesInv /\ DirInv /\ FdsInv /\ CacheInv /\ CallsInv /\ ReadyInv

-----------------------------------------------------------------------------
(* What a step does to the files and the descriptors *)

\* Inodes are added and keep their paths.
NodesStep ==
    /\ inodes' \in Seq(Inode) /\ Len(inodes') <= MaxInodes /\ Len(inodes) <= Len(inodes')
    /\ \A i \in 1..Len(inodes) : inodes'[i].path = inodes[i].path

\* A name is kept, taken away, or given to an inode created under it.
DirStep ==
    /\ dir' \in [Path -> Nat]
    /\ \A p \in Path : dir'[p] = dir[p] \/ dir'[p] = 0 \/ Holds(inodes', dir'[p], p)

\* An open descriptor stays open on its inode; others may be opened.
FdsStep ==
    /\ fds' \in [Fd -> Desc]
    /\ \A d \in Fd : fds[d] # Closed =>
         fds'[d] # Closed /\ fds'[d].inode = fds[d].inode /\ fds'[d].mode = fds[d].mode
    /\ \A d \in Fd : fds'[d] # Closed =>
         fds'[d].inode \in 1..Len(inodes') /\ fds'[d].mode \in {"r", "w"}

\* An entry is added for a path without one.
CacheStep ==
    \/ fd_cache' = fd_cache
    \/ \E e \in Entry :
         /\ fd_cache' = Append(fd_cache, e) /\ Len(fd_cache) < max_open_files
         /\ \A i \in 1..Len(fd_cache) : fd_cache[i].path # e.path
         /\ Opened(fds', inodes', e.fd, e.path)

\* Thread t goes on with c.
CallStep(t, c) ==
    /\ call' \in [Thread -> Calls] /\ call'[t] = c
    /\ \A u \in Thread \ {t} : call'[u] = call[u]
    /\ CallInHand(fds', inodes', c)
    /\ ready

FileStep ==
    /\ NodesStep /\ DirStep /\ FdsStep /\ CacheStep
    /\ call' = call \/ \E t \in Thread, c \in Calls : CallStep(t, c)
    /\ UNCHANGED <<ready, inits>>

LEMMA HoldsKept ==
    ASSUME NodesInv, NodesStep, NEW i, NEW p, Holds(inodes, i, p)
    PROVE  Holds(inodes', i, p)
<1>1. Len(inodes) \in Nat /\ Len(inodes') \in Nat
  BY LenProperties DEF NodesInv, NodesStep
<1>2. i \in 1..Len(inodes) /\ inodes[i].path = p
  BY DEF Holds
<1>3. i \in 1..Len(inodes') /\ inodes'[i].path = inodes[i].path
  BY <1>1, <1>2 DEF NodesStep
<1> QED BY <1>2, <1>3 DEF Holds

LEMMA OpenedKept ==
    ASSUME NodesInv, NodesStep, FdsStep, NEW d, NEW p, Opened(fds, inodes, d, p)
    PROVE  Opened(fds', inodes', d, p)
<1>1. d \in Fd /\ fds[d] # Closed /\ Holds(inodes, fds[d].inode, p)
  BY DEF Opened
<1>2. fds'[d] # Closed /\ fds'[d].inode = fds[d].inode
  BY <1>1 DEF FdsStep
<1>3. Holds(inodes', fds[d].inode, p)
  BY <1>1, HoldsKept
<1> QED BY <1>1, <1>2, <1>3 DEF Opened

LEMMA FilesKept ==
    ASSUME FileInv, FileStep
    PROVE  FileInv'
<1> USE DEF FileInv
<1>1. NodesInv'
  BY DEF FileStep, NodesStep, NodesInv
<1>2. DirInv'
  <2>1. dir' \in [Path -> Nat]
    BY DEF FileStep, DirStep
  <2>2. ASSUME NEW p \in Path, dir'[p] # 0
        PROVE  Holds(inodes', dir'[p], p)
    <3>1. dir[p] # 0 => Holds(inodes', dir[p], p)
      BY HoldsKept DEF DirInv, FileStep
    <3> QED BY <2>2, <3>1 DEF FileStep, DirStep
  <2> QED BY <2>1, <2>2 DEF DirInv
<1>3. FdsInv'
  BY DEF FileStep, FdsStep, FdsInv
<1>4. \A d, p : Opened(fds, inodes, d, p) => Opened(fds', inodes', d, p)
  BY OpenedKept DEF FileStep
<1>5. CacheInv'
  <2>1. CASE fd_cache' = fd_cache
    BY <2>1, <1>4 DEF CacheInv
  <2>2. CASE fd_cache' # fd_cache
    <3>1. PICK e \in Entry :
            /\ fd_cache' = Append(fd_cache, e) /\ Len(fd_cache) < max_open_files
            /\ \A i \in 1..Len(fd_cache) : fd_cache[i].path # e.path
            /\ Opened(fds', inodes', e.fd, e.path)
      BY <2>2 DEF FileStep, CacheStep
    <3>2. fd_cache \in Seq(Entry) /\ Len(fd_cache) \in Nat
      BY LenProperties DEF CacheInv
    <3>3. /\ fd_cache' \in Seq(Entry) /\ Len(fd_cache') = Len(fd_cache) + 1
          /\ \A i \in 1..Len(fd_cache) : fd_cache'[i] = fd_cache[i]
          /\ fd_cache'[Len(fd_cache) + 1] = e
      BY <3>1, <3>2, AppendProperties
    <3>4. ASSUME NEW i \in 1..Len(fd_cache') PROVE i \in 1..Len(fd_cache) \/ fd_cache'[i] = e
      BY <3>2, <3>3
    <3>5. \A i \in 1..Len(fd_cache') : Opened(fds', inodes', fd_cache'[i].fd, fd_cache'[i].path)
      BY <3>1, <3>3, <3>4, <1>4 DEF CacheInv
    <3>6. ASSUME NEW i \in 1..Len(fd_cache'), NEW j \in 1..Len(fd_cache'),
                 fd_cache'[i].path = fd_cache'[j].path
          PROVE  i = j
      <4>1. i = Len(fd_cache) + 1 \/ i \in 1..Len(fd_cache)
        BY <3>2, <3>3
      <4>2. j = Len(fd_cache) + 1 \/ j \in 1..Len(fd_cache)
        BY <3>2, <3>3
      <4> QED BY <4>1, <4>2, <3>1, <3>3, <3>6 DEF CacheInv
    <3>7. Len(fd_cache') <= max_open_files
      BY <3>1, <3>2, <3>3
    <3> QED BY <3>3, <3>5, <3>6, <3>7 DEF CacheInv
  <2> QED BY <2>1, <2>2
<1>6. ASSUME NEW u \in Thread
      PROVE  CallInHand(fds', inodes', call[u])
  <2>1. CallInHand(fds, inodes, call[u])
    BY DEF CallsInv
  <2>2. call[u].new # 0 => Holds(inodes', call[u].new, call[u].req[2])
    BY <2>1, HoldsKept DEF CallInHand, FileStep
  <2> QED BY <2>1, <2>2, <1>4 DEF CallInHand
<1>7. CallsInv' /\ ReadyInv'
  <2>1. CASE call' = call
    BY <2>1, <1>6 DEF CallsInv, ReadyInv, FileStep
  <2>2. CASE call' # call
    <3>1. PICK t \in Thread, c \in Calls : CallStep(t, c)
      BY <2>2 DEF FileStep
    <3>2. CallsInv'
      BY <3>1, <1>6 DEF CallsInv, CallStep
    <3>3. ready' = ready /\ inits' = inits /\ ready
      BY <3>1 DEF CallStep, FileStep
    <3> QED BY <3>2, <3>3 DEF ReadyInv
  <2> QED BY <2>1, <2>2
<1> QED BY <1>1, <1>2, <1>3, <1>5, <1>7

-----------------------------------------------------------------------------
(* The steps *)

LEMMA CachedFinds ==
    ASSUME CacheInv, NEW p
    PROVE  /\ Cached(p) = 0 => \A i \in 1..Len(fd_cache) : fd_cache[i].path # p
           /\ Cached(p) # 0 => Cached(p) \in 1..Len(fd_cache) /\ fd_cache[Cached(p)].path = p
<1> DEFINE I == {i \in 1..Len(fd_cache) : fd_cache[i].path = p}
<1>0. fd_cache \in Seq(Entry) /\ Len(fd_cache) \in Nat
  BY LenProperties DEF CacheInv
<1>1. Cached(p) = IF I # {} THEN Min(I) ELSE 0
  BY DEF Cached, SelectInSeq
<1>2. I \subseteq Nat /\ 0 \notin I
  BY <1>0
<1>3. I # {} => Min(I) \in I
  <2> HIDE DEF I
  <2> QED BY <1>2, LeastElement
<1>4. /\ I = {} => \A i \in 1..Len(fd_cache) : fd_cache[i].path # p
      /\ \A i \in I : i \in 1..Len(fd_cache) /\ fd_cache[i].path = p
  OBVIOUS
<1> HIDE DEF I
<1> QED BY <1>1, <1>2, <1>3, <1>4

\* Steps that leave a part alone
LEMMA NodesSame ==
    ASSUME FileInv, inodes' = inodes
    PROVE  NodesStep
<1>1. Len(inodes) \in Nat
  BY LenProperties DEF FileInv, NodesInv
<1> QED BY <1>1 DEF FileInv, NodesInv, NodesStep

LEMMA DirSame ==
    ASSUME FileInv, dir' = dir
    PROVE  DirStep
BY DEF FileInv, DirInv, DirStep

LEMMA FdsSame ==
    ASSUME FileInv, NodesStep, fds' = fds
    PROVE  FdsStep
<1>1. Len(inodes) \in Nat /\ Len(inodes') \in Nat
  BY LenProperties DEF FileInv, NodesInv, NodesStep
<1>2. \A i \in 1..Len(inodes) : i \in 1..Len(inodes')
  BY <1>1 DEF NodesStep
<1> QED BY <1>2 DEF FileInv, FdsInv, FdsStep

\* A position moves.
LEMMA FdsMoved ==
    ASSUME FileInv, NodesStep, NEW d \in Fd, NEW pos \in Nat, fds[d] # Closed,
           fds' = [fds EXCEPT ![d].pos = pos]
    PROVE  FdsStep
<1>1. Len(inodes) \in Nat /\ Len(inodes') \in Nat
  BY LenProperties DEF FileInv, NodesInv, NodesStep
<1>2. \A i \in 1..Len(inodes) : i \in 1..Len(inodes')
  BY <1>1 DEF NodesStep
<1>3. fds \in [Fd -> Desc] /\ fds[d] \in Desc
  BY DEF FileInv, FdsInv
<1>4. fds' \in [Fd -> Desc]
  BY <1>3 DEF Desc
<1>5. /\ \A e \in Fd \ {d} : fds'[e] = fds[e]
      /\ fds'[d].inode = fds[d].inode /\ fds'[d].mode = fds[d].mode
  BY <1>3 DEF Desc
<1>6. fds[d].inode # 0 /\ fds'[d] # Closed
  <2>1. fds[d].inode \in 1..Len(inodes)
    BY DEF FileInv, FdsInv
  <2> QED BY <2>1, <1>1, <1>5 DEF Closed
<1>7. \A e \in Fd : fds[e] # Closed =>
         fds'[e] # Closed /\ fds'[e].inode = fds[e].inode /\ fds'[e].mode = fds[e].mode
  BY <1>5, <1>6
<1>8. \A e \in Fd : fds[e] # Closed =>
         fds[e].inode \in 1..Len(inodes) /\ fds[e].mode \in {"r", "w"}
  BY DEF FileInv, FdsInv
<1>9. \A e \in Fd : fds'[e] # Closed =>
         fds'[e].inode \in 1..Len(inodes') /\ fds'[e].mode \in {"r", "w"}
  BY <1>2, <1>5, <1>8
<1> QED BY <1>4, <1>7, <1>9 DEF FdsStep

\* A call that leaves the files and the descriptors alone
LEMMA StillStep ==
    ASSUME FileInv, UNCHANGED <<ready, inits, dir, inodes, fds, fd_cache>>,
           call' = call \/ \E t \in Thread, c \in Calls : CallStep(t, c)
    PROVE  FileStep
BY NodesSame, DirSame, FdsSame DEF FileStep, CacheStep

\* Where a call of t is, and that it goes on while the backend is initialised
LEMMA CallOf ==
    ASSUME FileInv, NEW t \in Thread
    PROVE  /\ call \in [Thread -> Calls] /\ call[t] \in Calls /\ CallInHand(fds, inodes, call[t])
           /\ call[t] # NoThing => ready
BY DEF FileInv, CallsInv, ReadyInv

\* A call that returns
LEMMA CallEnds ==
    ASSUME FileInv, NEW t \in Thread, ready, call' = [call EXCEPT ![t] = NoThing]
    PROVE  CallStep(t, NoThing) /\ NoThing \in Calls
<1>1. call' \in [Thread -> Calls] /\ call'[t] = NoThing /\ \A u \in Thread \ {t} : call'[u] = call[u]
  BY CallOf, NoThingFields
<1>2. CallInHand(fds', inodes', NoThing)
  BY NoThingFields DEF CallInHand, CallSound
<1> QED BY <1>1, <1>2, NoThingFields DEF CallStep

\* What may be asked of get_file_descriptor
Asked(req, mode, create, next) ==
    \/ req \in ReadReq /\ mode = "r" /\ create = FALSE /\ next = "seek"
    \/ req \in WriteReq /\ mode = "w" /\ create = TRUE /\ next = "seek"
    \/ req \in SyncReq /\ mode = "w" /\ create = FALSE /\ next = "fsync"

LEMMA AskedFields ==
    ASSUME NEW req, NEW mode, NEW create, NEW next, Asked(req, mode, create, next)
    PROVE  /\ req \in Req /\ req[2] \in Path /\ mode \in {"r", "w"} /\ create \in BOOLEAN
           /\ next \in {"seek", "fsync"}
BY ReqFields DEF Asked, Req

LEMMA CacheHit ==
    ASSUME FileInv, NEW t \in Thread, NEW req, NEW mode, NEW create, NEW next,
           Asked(req, mode, create, next), FdFromCache(t, req, next)
    PROVE  FileStep
<1> DEFINE i == Cached(req[2])
           d == fd_cache[i].fd
           c == [step |-> next, req |-> req, fd |-> d, new |-> 0]
<1>1. /\ ready /\ i # 0 /\ call' = [call EXCEPT ![t] = c]
      /\ UNCHANGED <<ready, inits, dir, inodes, fds, fd_cache>>
  BY DEF FdFromCache
<1>2. Opened(fds, inodes, d, req[2])
  BY <1>1, CachedFinds DEF FileInv, CacheInv
<1>3. d \in Fd /\ d # 0
  BY <1>2 DEF Opened, Fd
<1> HIDE DEF d
<1>4. c \in Calls
  BY <1>3, AskedFields DEF Calls, Fd
<1>5. CallSound(c)
  BY <1>3 DEF CallSound, Asked
<1>6. c.fd = d /\ c.new = 0 /\ c.req = req
  OBVIOUS
<1> HIDE DEF c
<1>7. CallInHand(fds', inodes', c)
  BY <1>1, <1>2, <1>5, <1>6 DEF CallInHand
<1>8. CallStep(t, c)
  BY <1>1, <1>4, <1>7, CallOf DEF CallStep
<1> QED BY <1>1, <1>4, <1>8, StillStep

\* open(2) creates a file.
LEMMA InodeMade ==
    ASSUME FileInv, NEW p \in Path, Len(inodes) < MaxInodes,
           inodes' = Append(inodes, [path |-> p, data |-> <<>>]),
           dir' = [dir EXCEPT ![p] = Len(inodes) + 1]
    PROVE  /\ NodesStep /\ DirStep /\ Holds(inodes', Len(inodes) + 1, p)
           /\ Len(inodes) + 1 \in Nat \ {0} /\ Len(inodes') = Len(inodes) + 1
           /\ inodes'[Len(inodes) + 1].data = <<>>
           /\ \A i \in 1..Len(inodes) : inodes'[i] = inodes[i]
<1> DEFINE e == [path |-> p, data |-> <<>>]
<1>0. inodes \in Seq(Inode) /\ Len(inodes) \in Nat
  BY LenProperties DEF FileInv, NodesInv
<1>1. e \in Inode /\ e.path = p /\ e.data = <<>>
  BY DEF Inode
<1> HIDE DEF e
<1>2. /\ inodes' \in Seq(Inode) /\ Len(inodes') = Len(inodes) + 1
      /\ \A i \in 1..Len(inodes) : inodes'[i] = inodes[i]
      /\ inodes'[Len(inodes) + 1] = e
  <2>1. inodes' = Append(inodes, e)
    BY DEF e
  <2> QED BY <2>1, <1>0, <1>1, AppendProperties
<1>3. NodesStep
  BY <1>0, <1>2 DEF NodesStep
<1>4. Holds(inodes', Len(inodes) + 1, p)
  BY <1>0, <1>1, <1>2 DEF Holds
<1>5. DirStep
  <2>1. dir \in [Path -> Nat] /\ Len(inodes) + 1 \in Nat
    BY <1>0 DEF FileInv, DirInv
  <2>2. dir' \in [Path -> Nat] /\ dir'[p] = Len(inodes) + 1 /\ \A q \in Path \ {p} : dir'[q] = dir[q]
    BY <2>1
  <2> QED BY <2>2, <1>4 DEF DirStep
<1> QED BY <1>0, <1>1, <1>2, <1>3, <1>4, <1>5

\* open(2) opens a descriptor on inode i.
LEMMA FdMade ==
    ASSUME FileInv, NodesStep, NEW d \in Fd, fds[d] = Closed, NEW i, NEW p, NEW mode \in {"r", "w"},
           Holds(inodes', i, p),
           fds' = [fds EXCEPT ![d] = [inode |-> i, mode |-> mode, pos |-> 0]]
    PROVE  FdsStep /\ Opened(fds', inodes', d, p)
<1> DEFINE f == [inode |-> i, mode |-> mode, pos |-> 0]
<1>1. Len(inodes) \in Nat /\ Len(inodes') \in Nat
  BY LenProperties DEF FileInv, NodesInv, NodesStep
<1>2. \A j \in 1..Len(inodes) : j \in 1..Len(inodes')
  BY <1>1 DEF NodesStep
<1>3. i \in 1..Len(inodes') /\ i \in Nat /\ i # 0
  BY <1>1 DEF Holds
<1>4. f \in Desc /\ f # Closed /\ f.inode = i /\ f.mode = mode
  BY <1>3 DEF Desc, Closed
<1>5. fds \in [Fd -> Desc]
  BY DEF FileInv, FdsInv
<1> HIDE DEF f
<1>6. fds' \in [Fd -> Desc] /\ fds'[d] = f /\ \A e \in Fd \ {d} : fds'[e] = fds[e]
  <2>1. fds' = [fds EXCEPT ![d] = f]
    BY DEF f
  <2> QED BY <2>1, <1>4, <1>5
<1>7. \A e \in Fd : fds[e] # Closed =>
         fds[e].inode \in 1..Len(inodes) /\ fds[e].mode \in {"r", "w"}
  BY DEF FileInv, FdsInv
<1>8. FdsStep
  <2>1. \A e \in Fd : fds[e] # Closed =>
          fds'[e] # Closed /\ fds'[e].inode = fds[e].inode /\ fds'[e].mode = fds[e].mode
    BY <1>6
  <2>2. \A e \in Fd : fds'[e] # Closed =>
          fds'[e].inode \in 1..Len(inodes') /\ fds'[e].mode \in {"r", "w"}
    BY <1>2, <1>3, <1>4, <1>6, <1>7
  <2> QED BY <2>1, <2>2, <1>6 DEF FdsStep
<1> QED BY <1>4, <1>6, <1>8 DEF Opened

LEMMA OpenFileSound ==
    ASSUME FileInv, NEW p \in Path, NEW mode \in {"r", "w"}, NEW create, NEW d \in Fd,
           OpenFile(p, mode, create, d)
    PROVE  LET new == IF dir[p] = 0 THEN Len(inodes) + 1 ELSE 0
           IN  /\ NodesStep /\ DirStep /\ FdsStep /\ Opened(fds', inodes', d, p)
               /\ new \in Nat /\ (new # 0 => Holds(inodes', new, p) /\ create)
<1>1. fds[d] = Closed
  BY DEF OpenFile, FreeFds
<1>2. CASE dir[p] # 0
  <2>1. /\ fds' = [fds EXCEPT ![d] = [inode |-> dir[p], mode |-> mode, pos |-> 0]]
        /\ dir' = dir /\ inodes' = inodes
    BY <1>2 DEF OpenFile
  <2>2. NodesStep /\ DirStep
    BY <2>1, NodesSame, DirSame
  <2>3. Holds(inodes', dir[p], p)
    BY <2>1, <1>2 DEF FileInv, DirInv
  <2>4. FdsStep /\ Opened(fds', inodes', d, p)
    <3> DEFINE i == dir[p]
    <3>1. /\ fds' = [fds EXCEPT ![d] = [inode |-> i, mode |-> mode, pos |-> 0]]
          /\ Holds(inodes', i, p)
      BY <2>1, <2>3
    <3> HIDE DEF i
    <3> QED BY <3>1, <2>2, <1>1, FdMade
  <2> QED BY <2>2, <2>4, <1>2
<1>3. CASE dir[p] = 0
  <2>1. /\ create /\ Len(inodes) < MaxInodes
        /\ inodes' = Append(inodes, [path |-> p, data |-> <<>>])
        /\ dir' = [dir EXCEPT ![p] = Len(inodes) + 1]
        /\ fds' = [fds EXCEPT ![d] = [inode |-> Len(inodes) + 1, mode |-> mode, pos |-> 0]]
    BY <1>3 DEF OpenFile
  <2>2. NodesStep /\ DirStep /\ Holds(inodes', Len(inodes) + 1, p) /\ Len(inodes) + 1 \in Nat
    BY <2>1, InodeMade
  <2>3. FdsStep /\ Opened(fds', inodes', d, p)
    <3> DEFINE i == Len(inodes) + 1
    <3>1. /\ fds' = [fds EXCEPT ![d] = [inode |-> i, mode |-> mode, pos |-> 0]]
          /\ Holds(inodes', i, p)
      BY <2>1, <2>2
    <3> HIDE DEF i
    <3> QED BY <3>1, <2>2, <1>1, FdMade
  <2> QED BY <2>1, <2>2, <2>3, <1>3
<1> QED BY <1>2, <1>3

LEMMA CacheMiss ==
    ASSUME FileInv, NEW t \in Thread, NEW req, NEW mode, NEW create, NEW next,
           Asked(req, mode, create, next), FdFromOpen(t, req, mode, create, next)
    PROVE  FileStep
<1> DEFINE p == req[2]
           new == IF dir[p] = 0 THEN Len(inodes) + 1 ELSE 0
<1>0. p \in Path /\ mode \in {"r", "w"} /\ req \in Req /\ next \in {"seek", "fsync"}
  BY AskedFields
<1>1. PICK d \in Fd :
        /\ OpenFile(p, mode, create, d)
        /\ fd_cache' = IF HasSlot THEN Append(fd_cache, [path |-> p, fd |-> d]) ELSE fd_cache
        /\ call' = [call EXCEPT ![t] = [step |-> next, req |-> req, fd |-> d, new |-> new]]
  BY DEF FdFromOpen
<1>2. ready /\ Cached(p) = 0 /\ UNCHANGED <<ready, inits>>
  BY DEF FdFromOpen
<1>3. /\ NodesStep /\ DirStep /\ FdsStep /\ Opened(fds', inodes', d, p)
      /\ new \in Nat /\ (new # 0 => Holds(inodes', new, p) /\ create)
  <2> HIDE DEF p
  <2> QED BY <1>0, <1>1, OpenFileSound
<1> DEFINE c == [step |-> next, req |-> req, fd |-> d, new |-> new]
           e == [path |-> p, fd |-> d]
<1> HIDE DEF new
<1>4. d # 0 /\ c \in Calls /\ c.fd = d /\ c.new = new /\ c.req = req /\ c.step = next
  BY <1>0, <1>3 DEF Calls, Fd
<1>5. CallSound(c)
  <2>1. req \in ReadReq \/ req \in SyncReq => new = 0
    BY <1>3, ReqFields DEF Asked
  <2> HIDE DEF c
  <2> QED BY <2>1, <1>4 DEF CallSound, Asked
<1>6. CallStep(t, c)
  <2>1. call' = [call EXCEPT ![t] = c]
    BY <1>1
  <2> HIDE DEF c
  <2>2. CallInHand(fds', inodes', c)
    BY <1>3, <1>4, <1>5 DEF CallInHand
  <2> QED BY <2>1, <2>2, <1>2, <1>4, CallOf DEF CallStep
<1>7. CacheStep
  <2>1. CASE HasSlot
    <3>1. e \in Entry /\ e.path = p /\ e.fd = d
      BY <1>0 DEF Entry
    <3>2. fd_cache' = Append(fd_cache, e) /\ Len(fd_cache) < max_open_files
      BY <2>1, <1>1 DEF HasSlot
    <3>3. \A i \in 1..Len(fd_cache) : fd_cache[i].path # p
      BY <1>2, CachedFinds DEF FileInv
    <3> HIDE DEF e
    <3> QED BY <3>1, <3>2, <3>3, <1>3 DEF CacheStep
  <2>2. CASE ~HasSlot
    BY <2>2, <1>1 DEF CacheStep
  <2> QED BY <2>1, <2>2
<1> HIDE DEF c
<1> QED BY <1>2, <1>3, <1>4, <1>6, <1>7 DEF FileStep

-----------------------------------------------------------------------------
(* The counters *)

Counts == [Transfer -> [ops : Nat, bytes : Nat]]

\* The threads that have yet to count a transfer, and its bytes
Late(cl, op) == {t \in Thread : cl[t].step = "stats" /\ cl[t].req[1] = op}

LateBytes(cl, fly) == FoldSet(LAMBDA t, n : n + Bytes(cl[t].req), 0, fly)

Weights(cl, fly) == [t \in fly |-> Bytes(cl[t].req)]

CountersInv == stats \in Counts /\ acked \in Counts /\ StatsConserved

LEMMA LateIsTotal ==
    ASSUME NEW fly \in SUBSET Thread, NEW cl, \A t \in fly : Bytes(cl[t].req) \in Nat
    PROVE  /\ LateBytes(cl, fly) = Total(Weights(cl, fly), fly)
           /\ LateBytes(cl, fly) \in Nat
           /\ IsFiniteSet(fly) /\ Weights(cl, fly) \in [fly -> Nat]
<1> DEFINE w == Weights(cl, fly)
           Equation(f) ==
             f = [s \in SUBSET fly |-> IF s = {} THEN 0
                    ELSE f[s \ {CHOOSE x \in s : TRUE}] + Bytes(cl[CHOOSE x \in s : TRUE].req)]
           g == CHOOSE iter : Equation(iter)
<1>0. IsFiniteSet(fly) /\ w \in [fly -> Nat]
  BY FS_Subset DEF Weights
<1>1. LateBytes(cl, fly) = g[fly]
  BY DEF LateBytes, FoldSet, MapThenFoldSet
<1>2. \A s \in SUBSET fly : s # {} => /\ (CHOOSE x \in s : TRUE) \in fly
                                      /\ w[Pick(s)] = Bytes(cl[CHOOSE x \in s : TRUE].req)
  BY DEF Pick, Weights
<1>3. ASSUME NEW f
      PROVE  Sums(f, w, fly) <=> Equation(f)
  <2>1. [s \in SUBSET fly |-> IF s = {} THEN 0 ELSE f[s \ {Pick(s)}] + w[Pick(s)]] =
        [s \in SUBSET fly |-> IF s = {} THEN 0
            ELSE f[s \ {CHOOSE x \in s : TRUE}] + Bytes(cl[CHOOSE x \in s : TRUE].req)]
    <3> HIDE DEF w
    <3> QED BY <1>2 DEF Pick
  <2> HIDE DEF w
  <2> QED BY <2>1 DEF Sums
<1>4. PICK f : Sums(f, w, fly)
  BY <1>0, SumsExist
<1>5. Equation(g)
  <2>1. Equation(f)
    BY <1>3, <1>4
  <2> HIDE DEF Equation
  <2> QED BY <2>1
<1> HIDE DEF Equation, g
<1>6. Sums(g, w, fly)
  BY <1>3, <1>5
<1> QED BY <1>0, <1>1, <1>6, TotalSums

LEMMA LateJoins ==
    ASSUME NEW fly \in SUBSET Thread, NEW cl, NEW new, NEW t \in Thread, t \notin fly,
           \A u \in fly : cl[u] = new[u] /\ Bytes(cl[u].req) \in Nat,
           Bytes(new[t].req) \in Nat
    PROVE  LateBytes(new, fly \cup {t}) = LateBytes(cl, fly) + Bytes(new[t].req)
<1> DEFINE big == fly \cup {t}
           v == Weights(new, big)
           w == Weights(cl, fly)
<1>1. big \in SUBSET Thread /\ \A u \in big : Bytes(new[u].req) \in Nat
  OBVIOUS
<1>2. LateBytes(new, big) = Total(v, big) /\ v \in [big -> Nat]
  <2> HIDE DEF big
  <2> QED BY <1>1, LateIsTotal
<1>3. LateBytes(cl, fly) = Total(w, fly) /\ w \in [fly -> Nat] /\ IsFiniteSet(fly)
  BY LateIsTotal
<1>4. (\A u \in fly : v[u] = w[u]) /\ v[t] = Bytes(new[t].req)
  BY DEF Weights
<1>5. Total(v, big) = Total(w, fly) + v[t]
  <2> HIDE DEF v, w
  <2> QED BY <1>2, <1>3, <1>4, TotalAdd
<1> QED BY <1>2, <1>3, <1>4, <1>5

LEMMA LateSame ==
    ASSUME NEW fly \in SUBSET Thread, NEW cl, NEW new,
           \A u \in fly : cl[u] = new[u] /\ Bytes(cl[u].req) \in Nat
    PROVE  LateBytes(new, fly) = LateBytes(cl, fly)
<1>1. LateBytes(cl, fly) = Total(Weights(cl, fly), fly)
  BY LateIsTotal
<1>2. LateBytes(new, fly) = Total(Weights(new, fly), fly)
  BY LateIsTotal
<1>3. Weights(cl, fly) = Weights(new, fly)
  BY DEF Weights
<1> QED BY <1>1, <1>2, <1>3

LEMMA ConservedIs ==
    StatsConserved <=>
        \A op \in Transfer :
            /\ stats[op].ops + Cardinality(Late(call, op)) = acked[op].ops
            /\ stats[op].bytes + LateBytes(call, Late(call, op)) = acked[op].bytes
BY DEF StatsConserved, Uncounted, Late, LateBytes, FoldSet, MapThenFoldSet

LEMMA ConservedIsNext ==
    StatsConserved' <=>
        \A op \in Transfer :
            /\ stats'[op].ops + Cardinality(Late(call', op)) = acked'[op].ops
            /\ stats'[op].bytes + LateBytes(call', Late(call', op)) = acked'[op].bytes
BY DEF StatsConserved, Uncounted, Late, LateBytes, FoldSet, MapThenFoldSet

\* What a step does to the counters
Others(t) == \A u \in Thread \ {t} : call'[u] = call[u]

Keeps ==
    /\ UNCHANGED counters
    /\ \A u \in Thread : call[u].step = "stats" \/ call'[u].step = "stats" => call'[u] = call[u]

More(c, n) == [ops |-> c.ops + 1, bytes |-> c.bytes + n]

Enters(t) ==
    LET r == call[t].req
    IN  /\ call[t].step # "stats" /\ call'[t].step = "stats" /\ call'[t].req = r
        /\ r \in ReadReq \cup WriteReq
        /\ Others(t)
        /\ stats' = stats
        /\ acked' = [acked EXCEPT ![r[1]] = More(@, Bytes(r))]

Leaves(t) ==
    LET r == call[t].req
    IN  /\ call[t].step = "stats" /\ call'[t].step # "stats"
        /\ Others(t)
        /\ stats' = [stats EXCEPT ![r[1]] = More(@, Bytes(r))]
        /\ acked' = acked

Zeroed ==
    /\ stats' = NoStats /\ call' = call
    /\ acked' = [op \in Transfer |-> [ops |-> Cardinality(Late(call, op)),
                                      bytes |-> LateBytes(call, Late(call, op))]]

Fresh ==
    /\ stats' = NoStats /\ acked' = NoStats /\ call' = call
    /\ \A t \in Thread : call[t].step # "stats"

CounterStep == Keeps \/ Zeroed \/ Fresh \/ \E t \in Thread : Enters(t) \/ Leaves(t)

\* The size of a transfer is a number.
LEMMA LateSized ==
    ASSUME FileInv, NEW op \in Transfer
    PROVE  /\ Late(call, op) \in SUBSET Thread /\ IsFiniteSet(Late(call, op))
           /\ Cardinality(Late(call, op)) \in Nat
           /\ \A t \in Thread : call[t].step = "stats" =>
                 Bytes(call[t].req) \in Nat /\ call[t].req[1] \in Transfer
           /\ \A t \in Late(call, op) : Bytes(call[t].req) \in Nat
           /\ LateBytes(call, Late(call, op)) \in Nat
<1>1. Late(call, op) \in SUBSET Thread
  BY DEF Late
<1>2. IsFiniteSet(Late(call, op)) /\ Cardinality(Late(call, op)) \in Nat
  BY <1>1, FS_Subset, FS_CardinalityType
<1>3. ASSUME NEW t \in Thread, call[t].step = "stats"
      PROVE  Bytes(call[t].req) \in Nat /\ call[t].req[1] \in Transfer
  <2>1. call[t].req \in ReadReq \cup WriteReq
    BY <1>3, NoThingFields, CallOf DEF CallInHand, CallSound
  <2>2. \A r \in ReadReq : Bytes(r) \in Nat /\ r[1] \in Transfer
    BY ReqFields DEF Bytes, Transfer
  <2>3. \A r \in WriteReq : Bytes(r) \in Nat /\ r[1] \in Transfer
    BY ReqFields, LenProperties DEF Bytes, Transfer
  <2> QED BY <2>1, <2>2, <2>3
<1>4. \A t \in Late(call, op) : Bytes(call[t].req) \in Nat
  BY <1>3 DEF Late
<1> QED BY <1>1, <1>2, <1>3, <1>4, LateIsTotal

LEMMA NoStatsFields ==
    /\ NoStats \in Counts
    /\ \A op \in Transfer : NoStats[op].ops = 0 /\ NoStats[op].bytes = 0
BY DEF NoStats, Counts

\* A step loses no count and invents none.
LEMMA CountsKept ==
    ASSUME FileInv, FileInv', CountersInv, CounterStep
    PROVE  CountersInv'
<1>0. stats \in Counts /\ acked \in Counts
  BY DEF CountersInv
<1>1. ASSUME NEW op \in Transfer
      PROVE  /\ stats[op].ops \in Nat /\ stats[op].bytes \in Nat
             /\ acked[op].ops \in Nat /\ acked[op].bytes \in Nat
             /\ stats[op].ops + Cardinality(Late(call, op)) = acked[op].ops
             /\ stats[op].bytes + LateBytes(call, Late(call, op)) = acked[op].bytes
  BY <1>0, ConservedIs DEF CountersInv, Counts
<1>2. CASE Keeps
  <2>1. ASSUME NEW op \in Transfer
        PROVE  Late(call', op) = Late(call, op) /\
               LateBytes(call', Late(call, op)) = LateBytes(call, Late(call, op))
    <3>1. Late(call', op) = Late(call, op)
      BY <1>2 DEF Keeps, Late
    <3>2. \A u \in Late(call, op) : call[u] = call'[u] /\ Bytes(call[u].req) \in Nat
      BY <1>2, LateSized DEF Keeps, Late
    <3> QED BY <3>1, <3>2, LateSized, LateSame
  <2>2. stats' = stats /\ acked' = acked
    BY <1>2 DEF Keeps, counters
  <2> QED BY <2>1, <2>2, <1>0, <1>1, ConservedIsNext DEF CountersInv
<1>3. CASE Zeroed
  <2>1. /\ stats' = NoStats /\ call' = call
        /\ acked' = [op \in Transfer |-> [ops |-> Cardinality(Late(call, op)),
                                          bytes |-> LateBytes(call, Late(call, op))]]
    BY <1>3 DEF Zeroed
  <2>2. acked' \in Counts
    BY <2>1, LateSized DEF Counts
  <2>3. ASSUME NEW op \in Transfer
        PROVE  /\ stats'[op].ops + Cardinality(Late(call', op)) = acked'[op].ops
               /\ stats'[op].bytes + LateBytes(call', Late(call', op)) = acked'[op].bytes
    <3>1. /\ acked'[op].ops = Cardinality(Late(call, op))
          /\ acked'[op].bytes = LateBytes(call, Late(call, op))
      BY <2>1
    <3>2. stats'[op].ops = 0 /\ stats'[op].bytes = 0
      BY <2>1, NoStatsFields
    <3>3. Cardinality(Late(call, op)) \in Nat /\ LateBytes(call, Late(call, op)) \in Nat
      BY LateSized
    <3> QED BY <2>1, <3>1, <3>2, <3>3
  <2> QED BY <2>1, <2>2, <2>3, NoStatsFields, ConservedIsNext DEF CountersInv
<1>4. CASE Fresh
  <2>1. stats' = NoStats /\ acked' = NoStats /\ call' = call
    BY <1>4 DEF Fresh
  <2>2. ASSUME NEW op \in Transfer
        PROVE  Cardinality(Late(call', op)) = 0 /\ LateBytes(call', Late(call', op)) = 0
    <3>1. Late(call', op) = {}
      BY <2>1, <1>4 DEF Fresh, Late
    <3>2. LateBytes(call', {}) = 0
      <4>1. {} \in SUBSET Thread /\ \A t \in {} : Bytes(call'[t].req) \in Nat
        OBVIOUS
      <4> QED BY <4>1, LateIsTotal, TotalEmpty
    <3> QED BY <3>1, <3>2, FS_EmptySet
  <2> QED BY <2>1, <2>2, NoStatsFields, ConservedIsNext DEF CountersInv
<1>5. ASSUME NEW t \in Thread, Enters(t)
      PROVE  CountersInv'
  <2> DEFINE r == call[t].req
  <2>1. /\ call[t].step # "stats" /\ call'[t].step = "stats" /\ call'[t].req = r /\ Others(t)
        /\ stats' = stats /\ acked' = [acked EXCEPT ![r[1]] = More(@, Bytes(r))]
    BY <1>5 DEF Enters
  <2>2. Bytes(r) \in Nat /\ r[1] \in Transfer
    <3>1. \A q \in ReadReq : Bytes(q) \in Nat /\ q[1] \in Transfer
      BY ReqFields DEF Bytes, Transfer
    <3>2. \A q \in WriteReq : Bytes(q) \in Nat /\ q[1] \in Transfer
      BY ReqFields, LenProperties DEF Bytes, Transfer
    <3> QED BY <3>1, <3>2, <1>5 DEF Enters
  <2> DEFINE k == r[1]
             b == Bytes(r)
  <2>3. /\ acked' \in Counts /\ acked'[k].ops = acked[k].ops + 1
        /\ acked'[k].bytes = acked[k].bytes + b
        /\ \A o \in Transfer : o # k => acked'[o] = acked[o]
    <3>1. acked' = [acked EXCEPT ![k] = More(@, b)]
      BY <2>1
    <3> DEFINE m == More(acked[k], b)
    <3>2. m \in [ops : Nat, bytes : Nat] /\ m.ops = acked[k].ops + 1 /\ m.bytes = acked[k].bytes + b
      <4>1. k \in Transfer /\ b \in Nat
        BY <2>2
      <4> HIDE DEF k, b
      <4> QED BY <4>1, <1>0 DEF Counts, More
    <3> HIDE DEF k, b, m
    <3>3. acked' \in Counts /\ acked'[k] = m /\ \A o \in Transfer : o # k => acked'[o] = acked[o]
      <4>1. acked' = [acked EXCEPT ![k] = m] /\ k \in Transfer
        BY <3>1, <2>2 DEF m, k
      <4> QED BY <4>1, <3>2, <1>0 DEF Counts
    <3> QED BY <3>2, <3>3
  <2>4. ASSUME NEW op \in Transfer, op # k
        PROVE  Late(call', op) = Late(call, op) /\
               LateBytes(call', Late(call, op)) = LateBytes(call, Late(call, op))
    <3>1. Late(call', op) = Late(call, op)
      BY <2>1, <2>4 DEF Late, Others
    <3>2. \A u \in Late(call, op) : call[u] = call'[u] /\ Bytes(call[u].req) \in Nat
      BY <2>1, LateSized DEF Late, Others
    <3> QED BY <3>1, <3>2, LateSized, LateSame
  <2>5. /\ Cardinality(Late(call', k)) = Cardinality(Late(call, k)) + 1
        /\ LateBytes(call', Late(call', k)) = LateBytes(call, Late(call, k)) + b
    <3> DEFINE fly == Late(call, k)
    <3>1. Late(call', k) = fly \cup {t} /\ t \notin fly
      BY <2>1 DEF Late, Others
    <3>2. /\ fly \in SUBSET Thread /\ IsFiniteSet(fly)
          /\ \A u \in fly : Bytes(call[u].req) \in Nat
      BY <2>2, LateSized
    <3>3. \A u \in fly : call[u] = call'[u]
      BY <3>1, <3>2, <2>1 DEF Others
    <3>4. Bytes(call'[t].req) = b
      BY <2>1
    <3> HIDE DEF fly, b, k
    <3>5. LateBytes(call', fly \cup {t}) = LateBytes(call, fly) + Bytes(call'[t].req)
      BY <3>1, <3>2, <3>3, <3>4, <2>2, LateJoins DEF b
    <3>6. Cardinality(fly \cup {t}) = Cardinality(fly) + 1
      BY <3>1, <3>2, FS_AddElement
    <3> QED BY <3>1, <3>4, <3>5, <3>6 DEF fly
  <2>6. /\ Cardinality(Late(call, k)) \in Nat /\ LateBytes(call, Late(call, k)) \in Nat
    BY <2>2, LateSized
  <2> HIDE DEF k, b
  <2>7. ASSUME NEW op \in Transfer
        PROVE  /\ stats'[op].ops + Cardinality(Late(call', op)) = acked'[op].ops
               /\ stats'[op].bytes + LateBytes(call', Late(call', op)) = acked'[op].bytes
    <3>1. CASE op # k
      BY <3>1, <2>1, <2>3, <2>4, <1>1
    <3>2. CASE op = k
      <4>1. b \in Nat /\ k \in Transfer
        BY <2>2 DEF b, k
      <4>2. /\ stats[k].ops \in Nat /\ stats[k].bytes \in Nat
            /\ stats[k].ops + Cardinality(Late(call, k)) = acked[k].ops
            /\ stats[k].bytes + LateBytes(call, Late(call, k)) = acked[k].bytes
        BY <4>1, <1>1
      <4>3. stats'[k].ops + Cardinality(Late(call', k)) = acked'[k].ops
        BY <4>2, <2>1, <2>3, <2>5, <2>6
      <4>4. stats'[k].bytes + LateBytes(call', Late(call', k)) = acked'[k].bytes
        BY <4>1, <4>2, <2>1, <2>3, <2>5, <2>6
      <4> QED BY <3>2, <4>3, <4>4
    <3> QED BY <3>1, <3>2
  <2> QED BY <2>1, <2>3, <2>7, <1>0, ConservedIsNext DEF CountersInv
<1>6. ASSUME NEW t \in Thread, Leaves(t)
      PROVE  CountersInv'
  <2> DEFINE r == call[t].req
             k == r[1]
             b == Bytes(r)
  <2>1. /\ call[t].step = "stats" /\ call'[t].step # "stats" /\ Others(t)
        /\ acked' = acked /\ stats' = [stats EXCEPT ![k] = More(@, b)]
    BY <1>6 DEF Leaves
  <2>2. b \in Nat /\ k \in Transfer
    BY <2>1, LateSized DEF Transfer
  <2>3. /\ stats' \in Counts /\ stats'[k].ops = stats[k].ops + 1
        /\ stats'[k].bytes = stats[k].bytes + b
        /\ \A o \in Transfer : o # k => stats'[o] = stats[o]
    <3>1. stats' = [stats EXCEPT ![k] = More(@, b)]
      BY <2>1
    <3> DEFINE m == More(stats[k], b)
    <3>2. m \in [ops : Nat, bytes : Nat] /\ m.ops = stats[k].ops + 1 /\ m.bytes = stats[k].bytes + b
      <4>1. k \in Transfer /\ b \in Nat
        BY <2>2
      <4> HIDE DEF k, b
      <4> QED BY <4>1, <1>0 DEF Counts, More
    <3> HIDE DEF k, b, m
    <3>3. stats' \in Counts /\ stats'[k] = m /\ \A o \in Transfer : o # k => stats'[o] = stats[o]
      <4>1. stats' = [stats EXCEPT ![k] = m] /\ k \in Transfer
        BY <3>1, <2>2 DEF m, k
      <4> QED BY <4>1, <3>2, <1>0 DEF Counts
    <3> QED BY <3>2, <3>3
  <2>4. ASSUME NEW op \in Transfer, op # k
        PROVE  Late(call', op) = Late(call, op) /\
               LateBytes(call', Late(call, op)) = LateBytes(call, Late(call, op))
    <3>1. Late(call', op) = Late(call, op)
      BY <2>1, <2>4 DEF Late, Others
    <3>2. \A u \in Late(call, op) : call[u] = call'[u] /\ Bytes(call[u].req) \in Nat
      BY <2>1, <2>4, LateSized DEF Late, Others
    <3> QED BY <3>1, <3>2, LateSized, LateSame
  <2>5. /\ Cardinality(Late(call, k)) = Cardinality(Late(call', k)) + 1
        /\ LateBytes(call, Late(call, k)) = LateBytes(call', Late(call', k)) + b
        /\ Cardinality(Late(call', k)) \in Nat /\ LateBytes(call', Late(call', k)) \in Nat
    <3> DEFINE fly == Late(call', k)
    <3>1. Late(call, k) = fly \cup {t} /\ t \notin fly /\ fly \in SUBSET Thread
      BY <2>1 DEF Late, Others
    <3>2. IsFiniteSet(fly) /\ \A u \in Late(call, k) : Bytes(call[u].req) \in Nat
      <4>1. \A u \in Late(call, k) : Bytes(call[u].req) \in Nat
        BY <2>2, LateSized
      <4>2. fly \in SUBSET Thread
        BY <3>1
      <4> HIDE DEF fly, k
      <4> QED BY <4>1, <4>2, FS_Subset
    <3>3. \A u \in fly : call'[u] = call[u] /\ Bytes(call'[u].req) \in Nat
      BY <3>1, <3>2, <2>1 DEF Others
    <3> HIDE DEF fly, k
    <3>4. LateBytes(call, fly \cup {t}) = LateBytes(call', fly) + Bytes(call[t].req)
      BY <3>1, <3>3, <2>2, LateJoins
    <3>5. Cardinality(fly \cup {t}) = Cardinality(fly) + 1 /\ Cardinality(fly) \in Nat
      BY <3>1, <3>2, FS_AddElement, FS_CardinalityType
    <3>6. LateBytes(call', fly) \in Nat
      BY <3>1, <3>3, LateIsTotal
    <3> QED BY <3>1, <3>4, <3>5, <3>6 DEF fly
  <2> HIDE DEF k, b
  <2>7. ASSUME NEW op \in Transfer
        PROVE  /\ stats'[op].ops + Cardinality(Late(call', op)) = acked'[op].ops
               /\ stats'[op].bytes + LateBytes(call', Late(call', op)) = acked'[op].bytes
    <3>1. CASE op # k
      BY <3>1, <2>1, <2>3, <2>4, <1>1
    <3>2. CASE op = k
      <4>1. /\ stats[k].ops \in Nat /\ stats[k].bytes \in Nat
            /\ stats[k].ops + Cardinality(Late(call, k)) = acked[k].ops
            /\ stats[k].bytes + LateBytes(call, Late(call, k)) = acked[k].bytes
        BY <2>2, <1>1
      <4>2. acked' = acked
        BY <2>1
      <4>3. stats'[k].ops + Cardinality(Late(call', k)) = acked'[k].ops
        BY <4>1, <4>2, <2>3, <2>5
      <4>4. stats'[k].bytes + LateBytes(call', Late(call', k)) = acked'[k].bytes
        BY <4>1, <4>2, <2>2, <2>3, <2>5
      <4> QED BY <3>2, <4>3, <4>4
    <3> QED BY <3>1, <3>2
  <2> QED BY <2>1, <2>3, <2>7, <1>0, ConservedIsNext DEF CountersInv
<1> QED BY <1>2, <1>3, <1>4, <1>5, <1>6 DEF CounterStep

-----------------------------------------------------------------------------
(* The actions *)

BaseStep == FileInv' /\ CounterStep

LEMMA TurnKeeps ==
    ASSUME NEW t \in Thread, NEW c, call[t].step # "stats", c.step # "stats",
           call'[t] = c, \A u \in Thread \ {t} : call'[u] = call[u], UNCHANGED counters
    PROVE  CounterStep
<1>1. \A u \in Thread : call[u].step = "stats" \/ call'[u].step = "stats" => call'[u] = call[u]
  OBVIOUS
<1> QED BY <1>1 DEF CounterStep, Keeps

LEMMA CallStays ==
    ASSUME call' = call, UNCHANGED counters
    PROVE  CounterStep
BY DEF CounterStep, Keeps

LEMMA StartBase ==
    ASSUME FileInv, NEW t \in Thread, NEW req, NEW mode, NEW create, NEW next,
           Asked(req, mode, create, next), GetDescriptor(t, req, mode, create, next)
    PROVE  BaseStep
<1>0. next # "stats" /\ call \in [Thread -> Calls]
  BY AskedFields, CallOf
<1>1. CASE FdFromCache(t, req, next)
  <2>1. FileInv'
    BY <1>1, CacheHit, FilesKept
  <2> DEFINE c == [step |-> next, req |-> req, fd |-> fd_cache[Cached(req[2])].fd, new |-> 0]
  <2>2. call[t] = NoThing /\ call' = [call EXCEPT ![t] = c] /\ UNCHANGED counters /\ c.step = next
    BY <1>1 DEF FdFromCache
  <2> HIDE DEF c
  <2>3. CounterStep
    BY <2>2, <1>0, NoThingFields, TurnKeeps
  <2> QED BY <2>1, <2>3 DEF BaseStep
<1>2. CASE FdFromOpen(t, req, mode, create, next)
  <2>1. FileInv'
    BY <1>2, CacheMiss, FilesKept
  <2>2. PICK d \in Fd :
          call' = [call EXCEPT ![t] = [step |-> next, req |-> req, fd |-> d,
                         new |-> IF dir[req[2]] = 0 THEN Len(inodes) + 1 ELSE 0]]
    BY <1>2 DEF FdFromOpen
  <2> DEFINE c == [step |-> next, req |-> req, fd |-> d,
                         new |-> IF dir[req[2]] = 0 THEN Len(inodes) + 1 ELSE 0]
  <2>3. call[t] = NoThing /\ call' = [call EXCEPT ![t] = c] /\ UNCHANGED counters /\ c.step = next
    BY <1>2, <2>2 DEF FdFromOpen
  <2> HIDE DEF c
  <2>4. CounterStep
    BY <2>3, <1>0, NoThingFields, TurnKeeps
  <2> QED BY <2>1, <2>4 DEF BaseStep
<1>3. CASE FdFails(t, req, create)
  <2>1. call' = call /\ UNCHANGED counters /\ UNCHANGED <<ready, inits, dir, inodes, fds, fd_cache>>
    BY <1>3 DEF FdFails, ReturnAtOnce
  <2> QED BY <2>1, CallStays, StillStep, FilesKept DEF BaseStep
<1> QED BY <1>1, <1>2, <1>3 DEF GetDescriptor

\* The descriptor of a call that is seeking or transferring
LEMMA MovingCall ==
    ASSUME FileInv, NEW t \in Thread, call[t].step \in {"seek", "transfer"}
    PROVE  /\ ready /\ call[t].fd \in Fd /\ fds[call[t].fd] # Closed
           /\ Opened(fds, inodes, call[t].fd, call[t].req[2])
           /\ fds[call[t].fd] \in Desc /\ fds[call[t].fd].inode \in 1..Len(inodes)
           /\ fds[call[t].fd].mode \in {"r", "w"}
           /\ call[t].req \in ReadReq \cup WriteReq /\ call[t].req[2] \in Path
           /\ call[t].req \in ReadReq => call[t].new = 0
           /\ call[t].req[3] \in Nat
<1>1. /\ call[t] \in Calls /\ CallInHand(fds, inodes, call[t]) /\ call[t] # NoThing /\ ready
  BY CallOf, NoThingFields
<1>2. /\ call[t].fd # 0 /\ call[t].req \in ReadReq \cup WriteReq
      /\ call[t].req \in ReadReq => call[t].new = 0
  BY <1>1, ReqFields DEF CallInHand, CallSound
<1>3. Opened(fds, inodes, call[t].fd, call[t].req[2])
  BY <1>1, <1>2 DEF CallInHand
<1>4. call[t].fd \in Fd /\ fds[call[t].fd] # Closed
  BY <1>3 DEF Opened
<1>5. /\ fds[call[t].fd] \in Desc /\ fds[call[t].fd].inode \in 1..Len(inodes)
      /\ fds[call[t].fd].mode \in {"r", "w"}
  BY <1>4 DEF FileInv, FdsInv
<1>6. call[t].req[2] \in Path /\ call[t].req[3] \in Nat
  BY <1>2, ReqFields
<1> QED BY <1>1, <1>2, <1>3, <1>4, <1>5, <1>6

LEMMA SeekBase ==
    ASSUME FileInv, NEW t \in Thread, Seek(t)
    PROVE  BaseStep
<1> DEFINE d == call[t].fd
           c == [call[t] EXCEPT !.step = "transfer"]
<1>1. /\ call[t].step = "seek" /\ fds' = [fds EXCEPT ![d].pos = call[t].req[3]]
      /\ call' = [call EXCEPT ![t].step = "transfer"] /\ UNCHANGED counters
      /\ UNCHANGED <<ready, inits, dir, inodes, fd_cache>>
  BY DEF Seek, SetPosition
<1>2. /\ ready /\ d \in Fd /\ fds[d] # Closed /\ Opened(fds, inodes, d, call[t].req[2])
      /\ call[t].req[3] \in Nat
  BY <1>1, MovingCall
<1>3. /\ call \in [Thread -> Calls] /\ call[t] \in Calls /\ CallInHand(fds, inodes, call[t])
  BY CallOf
<1>4. /\ c \in Calls /\ c.step = "transfer" /\ c.req = call[t].req /\ c.fd = d
      /\ c.new = call[t].new
  BY <1>3 DEF Calls
<1>5. call' \in [Thread -> Calls] /\ call'[t] = c /\ \A u \in Thread \ {t} : call'[u] = call[u]
  BY <1>1, <1>3, <1>4
<1> HIDE DEF c
<1>6. NodesStep /\ DirStep /\ CacheStep
  BY <1>1, NodesSame, DirSame DEF CacheStep
<1>7. FdsStep
  <2> DEFINE pos == call[t].req[3]
  <2>1. fds' = [fds EXCEPT ![d].pos = pos]
    BY <1>1
  <2> HIDE DEF pos, d
  <2> QED BY <2>1, <1>2, <1>6, FdsMoved DEF pos
<1>8. CallInHand(fds', inodes', c)
  <2>1. CallSound(c)
    <3>1. call[t] # NoThing
      BY <1>1, NoThingFields
    <3> QED BY <3>1, <1>1, <1>3, <1>4 DEF CallInHand, CallSound
  <2>2. Opened(fds', inodes', d, c.req[2])
    BY <1>2, <1>4, <1>6, <1>7, OpenedKept DEF FileInv
  <2>3. c.new # 0 => Holds(inodes', c.new, c.req[2])
    BY <1>1, <1>3, <1>4 DEF CallInHand
  <2> QED BY <2>1, <2>2, <2>3, <1>4 DEF CallInHand
<1>9. CallStep(t, c)
  BY <1>2, <1>5, <1>8 DEF CallStep
<1>10. FileInv'
  BY <1>1, <1>4, <1>6, <1>7, <1>9, FilesKept DEF FileStep
<1>11. CounterStep
  BY <1>1, <1>4, <1>5, TurnKeeps
<1> QED BY <1>10, <1>11 DEF BaseStep

\* A call that ends, or goes on to the counters, after a step that left names and
\* cache alone
LEMMA ReturnBase ==
    ASSUME FileInv, NEW t \in Thread, ready, call[t].step # "stats", NodesStep, DirStep, FdsStep,
           UNCHANGED <<ready, inits, fd_cache>>, NEW ret, NEW data, Return(t, ret, data)
    PROVE  BaseStep
<1>1. call' = [call EXCEPT ![t] = NoThing] /\ UNCHANGED counters
  BY DEF Return
<1>2. CallStep(t, NoThing) /\ NoThing \in Calls
  BY <1>1, CallEnds
<1>3. FileInv'
  BY <1>2, FilesKept DEF FileStep, CacheStep
<1>4. CounterStep
  BY <1>1, <1>2, NoThingFields, TurnKeeps DEF CallStep
<1> QED BY <1>3, <1>4 DEF BaseStep

LEMMA TransferBase ==
    ASSUME FileInv, NEW t \in Thread, ready, call[t].step = "transfer", NodesStep, DirStep, FdsStep,
           UNCHANGED <<ready, inits, fd_cache>>, NEW n, NEW data, Transferred(t, n, data),
           n = Bytes(call[t].req)
    PROVE  BaseStep
<1> DEFINE c == [call[t] EXCEPT !.step = "stats", !.fd = 0, !.new = 0]
           r == call[t].req
<1>1. /\ call' = [call EXCEPT ![t] = [@ EXCEPT !.step = "stats", !.fd = 0, !.new = 0]]
      /\ stats' = stats
      /\ acked' = [acked EXCEPT ![r[1]] = [ops |-> @.ops + 1, bytes |-> @.bytes + Bytes(r)]]
  BY DEF Transferred
<1>2. call \in [Thread -> Calls] /\ call[t] \in Calls /\ r \in ReadReq \cup WriteReq
  BY CallOf, MovingCall
<1>3. c \in Calls /\ c.step = "stats" /\ c.req = r /\ c.fd = 0 /\ c.new = 0
  <2>0. call[t] = [step |-> call[t].step, req |-> r, fd |-> call[t].fd, new |-> call[t].new]
    BY <1>2 DEF Calls
  <2>1. c = [step |-> "stats", req |-> r, fd |-> 0, new |-> 0]
    <3> DEFINE a == [call[t] EXCEPT !.step = "stats"]
               b == [a EXCEPT !.fd = 0]
    <3>1. a = [step |-> "stats", req |-> r, fd |-> call[t].fd, new |-> call[t].new]
      BY <2>0
    <3>2. b = [step |-> "stats", req |-> r, fd |-> 0, new |-> call[t].new]
      <4> HIDE DEF a
      <4> QED BY <3>1
    <3>3. c = [b EXCEPT !.new = 0]
      OBVIOUS
    <3> HIDE DEF b
    <3> QED BY <3>2, <3>3
  <2>2. r \in Req /\ 0 \in 0..MaxFds
    BY <1>2 DEF Calls
  <2> QED BY <2>1, <2>2 DEF Calls
<1>4. call' \in [Thread -> Calls] /\ call'[t] = c /\ \A u \in Thread \ {t} : call'[u] = call[u]
  BY <1>1, <1>2, <1>3
<1> HIDE DEF c
<1>5. CallInHand(fds', inodes', c)
  BY <1>2, <1>3 DEF CallInHand, CallSound
<1>6. FileInv'
  BY <1>3, <1>4, <1>5, FilesKept DEF FileStep, CacheStep, CallStep
<1>7. Enters(t)
  BY <1>1, <1>2, <1>3, <1>4 DEF Enters, Others, More
<1> QED BY <1>6, <1>7 DEF BaseStep, CounterStep

LEMMA ReadBase ==
    ASSUME FileInv, NEW t \in Thread, Read(t)
    PROVE  BaseStep
<1> DEFINE d == call[t].fd
           f == fds[d]
           data == inodes[f.inode].data
           n == call[t].req[4]
           got == IF f.pos + n <= Len(data) THEN n
                  ELSE IF f.pos <= Len(data) THEN Len(data) - f.pos ELSE 0
<1>1. /\ call[t].step = "transfer" /\ call[t].req[1] = "read"
      /\ UNCHANGED <<ready, inits, dir, inodes, fd_cache>>
      /\ IF f.mode = "w"
         THEN Return(t, "io", <<>>) /\ UNCHANGED fds
         ELSE /\ fds' = [fds EXCEPT ![d].pos = @ + got]
              /\ IF got = n THEN Transferred(t, n, SubSeq(data, f.pos + 1, f.pos + n))
                            ELSE Return(t, "not_found", <<>>)
  BY DEF Read
<1>2. /\ ready /\ d \in Fd /\ f # Closed /\ f \in Desc /\ f.inode \in 1..Len(inodes)
      /\ call[t].req \in ReadReq
  BY <1>1, MovingCall, ReqFields
<1>3. n \in Nat /\ n = Bytes(call[t].req)
  BY <1>1, <1>2, ReqFields DEF Bytes
<1>4. f.pos \in Nat /\ Len(data) \in Nat /\ f.pos + got \in Nat
  <2>1. f.pos \in Nat
    BY <1>2 DEF Desc
  <2>2. inodes[f.inode] \in Inode
    BY <1>2, ElementOfSeq DEF FileInv, NodesInv
  <2>3. Len(data) \in Nat
    BY <2>2, LenProperties DEF Inode
  <2> HIDE DEF n, data, f
  <2>4. got \in Nat
    BY <2>1, <2>3, <1>3
  <2> HIDE DEF got
  <2> QED BY <2>1, <2>3, <2>4
<1> HIDE DEF got, n, data
<1>5. NodesStep /\ DirStep
  BY <1>1, NodesSame, DirSame
<1>6. CASE f.mode = "w"
  <2>1. FdsStep
    BY <1>1, <1>5, <1>6, FdsSame
  <2> QED BY <2>1, <1>1, <1>2, <1>5, <1>6, ReturnBase
<1>7. CASE f.mode # "w"
  <2>1. FdsStep
    <3> DEFINE pos == f.pos + got
    <3>1. fds' = [fds EXCEPT ![d].pos = pos]
      BY <1>1, <1>7
    <3> HIDE DEF pos, d
    <3> QED BY <3>1, <1>2, <1>4, <1>5, FdsMoved DEF pos
  <2>2. CASE got = n
    <3> DEFINE bytes == SubSeq(data, f.pos + 1, f.pos + n)
    <3>1. Transferred(t, n, bytes)
      BY <2>2, <1>1, <1>7
    <3> HIDE DEF bytes
    <3> QED BY <3>1, <2>1, <1>1, <1>2, <1>3, <1>5, TransferBase
  <2>3. CASE got # n
    BY <2>1, <2>3, <1>1, <1>2, <1>5, <1>7, ReturnBase
  <2> QED BY <2>2, <2>3
<1> QED BY <1>6, <1>7

\* The bytes of an inode change.
LEMMA NodeWritten ==
    ASSUME FileInv, NEW i \in 1..Len(inodes), NEW s \in Seq(Nat),
           inodes' = [inodes EXCEPT ![i].data = s]
    PROVE  /\ NodesStep /\ Len(inodes') = Len(inodes) /\ inodes'[i].data = s
           /\ \A j \in 1..Len(inodes) : j # i => inodes'[j] = inodes[j]
<1>0. inodes \in Seq(Inode) /\ Len(inodes) \in Nat /\ Len(inodes) <= MaxInodes
  BY LenProperties DEF FileInv, NodesInv
<1> DEFINE e == [inodes[i] EXCEPT !.data = s]
<1>1. inodes[i] \in Inode
  BY <1>0, ElementOfSeq
<1>2. e \in Inode /\ e.path = inodes[i].path /\ e.data = s
  BY <1>1 DEF Inode
<1> DEFINE ns == [inodes EXCEPT ![i] = e]
<1>3. inodes' = ns
  OBVIOUS
<1> HIDE DEF e
<1>4. /\ ns \in Seq(Inode) /\ Len(ns) = Len(inodes)
      /\ \A j \in 1..Len(inodes) : ns[j] = IF j = i THEN e ELSE inodes[j]
  BY <1>0, <1>2, ExceptSeq
<1> HIDE DEF ns
<1>5. \A j \in 1..Len(inodes) : inodes'[j].path = inodes[j].path
  BY <1>2, <1>3, <1>4
<1>6. NodesStep /\ Len(inodes') = Len(inodes)
  <2>1. inodes' \in Seq(Inode)
    BY <1>3, <1>4
  <2>2. Len(inodes') = Len(inodes)
    BY <1>3, <1>4
  <2>3. Len(inodes') <= MaxInodes /\ Len(inodes) <= Len(inodes')
    BY <2>2, <1>0
  <2> QED BY <2>1, <2>2, <2>3, <1>5 DEF NodesStep
<1>7. inodes'[i] = e /\ \A j \in 1..Len(inodes) : j # i => inodes'[j] = inodes[j]
  BY <1>3, <1>4
<1> QED BY <1>2, <1>6, <1>7

LEMMA PatchSeq ==
    ASSUME NEW s \in Seq(Nat), NEW o \in Nat, NEW data \in Seq(Nat)
    PROVE  FS!Patch(s, o, data) \in Seq(Nat)
<1> DEFINE m == IF o + Len(data) > Len(s) THEN o + Len(data) ELSE Len(s)
           V(i) == IF i \in (o + 1)..(o + Len(data)) THEN data[i - o]
                   ELSE IF i <= Len(s) THEN s[i] ELSE Zero
<1>0. Len(s) \in Nat /\ Len(data) \in Nat /\ m \in Nat
  BY LenProperties
<1>1. ASSUME NEW i \in 1..m PROVE V(i) \in Nat
  <2>1. \A j \in 1..Len(data) : data[j] \in Nat
    BY ElementOfSeq
  <2>2. \A j \in 1..Len(s) : s[j] \in Nat
    BY ElementOfSeq
  <2> QED BY <2>1, <2>2, <1>0
<1>2. FS!Patch(s, o, data) = [i \in 1..m |-> V(i)]
  BY DEF FS!Patch
<1> HIDE DEF m, V
<1>3. FS!Patch(s, o, data) \in [1..m -> Nat]
  BY <1>1, <1>2
<1> QED BY <1>0, <1>3

LEMMA WindowSeq ==
    ASSUME NEW s \in Seq(Nat), NEW n \in Nat
    PROVE  FS!Window(s, 0, n) \in Seq(Nat)
<1> DEFINE V(i) == IF 0 + i <= Len(s) THEN s[0 + i] ELSE Zero
<1>0. Len(s) \in Nat /\ \A j \in 1..Len(s) : s[j] \in Nat
  BY LenProperties, ElementOfSeq
<1>1. ASSUME NEW i \in 1..n PROVE V(i) \in Nat
  <2>1. 0 + i = i
    OBVIOUS
  <2> QED BY <2>1, <1>0
<1>2. FS!Window(s, 0, n) = [i \in 1..n |-> V(i)]
  BY DEF FS!Window
<1> HIDE DEF V
<1>3. FS!Window(s, 0, n) \in [1..n -> Nat]
  BY <1>1, <1>2
<1> QED BY <1>3

LEMMA WriteBase ==
    ASSUME FileInv, NEW t \in Thread, Write(t)
    PROVE  BaseStep
<1> DEFINE d == call[t].fd
           f == fds[d]
           data == call[t].req[4]
<1>1. /\ call[t].step = "transfer" /\ call[t].req[1] = "write"
      /\ UNCHANGED <<ready, inits, dir, fd_cache>>
  BY DEF Write
<1>2. PICK k \in IF Failures THEN 0..Len(data) ELSE {Len(data)} :
        /\ inodes' = IF k = 0 THEN inodes
                     ELSE [inodes EXCEPT ![f.inode].data = FS!Patch(@, f.pos, SubSeq(data, 1, k))]
        /\ fds' = [fds EXCEPT ![d].pos = @ + k]
        /\ IF k = Len(data) THEN Transferred(t, k, <<>>) ELSE Return(t, "io", <<>>)
  BY DEF Write
<1>3. /\ ready /\ d \in Fd /\ f # Closed /\ f \in Desc /\ f.inode \in 1..Len(inodes)
      /\ call[t].req \in WriteReq
  BY <1>1, MovingCall, ReqFields
<1>4. /\ data \in Seq(Nat) /\ Len(data) \in Nat /\ k \in Nat /\ k <= Len(data)
      /\ Len(data) = Bytes(call[t].req)
  <2>1. data \in Seq(Nat) /\ Len(data) \in Nat
    BY <1>3, ReqFields, LenProperties
  <2> QED BY <2>1, <1>1, <1>2 DEF Bytes
<1>5. f.pos \in Nat /\ inodes[f.inode].data \in Seq(Nat) /\ f.pos + k \in Nat
  <2>1. f.pos \in Nat
    BY <1>3 DEF Desc
  <2>2. inodes[f.inode] \in Inode
    BY <1>3, ElementOfSeq DEF FileInv, NodesInv
  <2> QED BY <2>1, <2>2, <1>4 DEF Inode
<1>6. NodesStep
  <2>1. CASE k = 0
    BY <2>1, <1>2, NodesSame
  <2>2. CASE k # 0
    <3> DEFINE i == f.inode
               s == FS!Patch(inodes[i].data, f.pos, SubSeq(data, 1, k))
    <3>1. inodes' = [inodes EXCEPT ![i].data = s]
      BY <2>2, <1>2
    <3>2. SubSeq(data, 1, k) \in Seq(Nat)
      <4> HIDE DEF data
      <4>1. \A j \in 1..Len(data) : data[j] \in Nat
        BY <1>4, ElementOfSeq
      <4>2. \A j \in 1..k : j \in 1..Len(data)
        BY <1>4
      <4>3. \A j \in 1..k : data[j] \in Nat
        BY <4>1, <4>2
      <4> QED BY <4>3, <1>4, SubSeqProperties
    <3>3. s \in Seq(Nat)
      BY <3>2, <1>5, PatchSeq
    <3>4. i \in 1..Len(inodes)
      BY <1>3
    <3> HIDE DEF s, i
    <3> QED BY <3>1, <3>3, <3>4, NodeWritten
  <2> QED BY <2>1, <2>2
<1>7. DirStep
  BY <1>1, DirSame
<1>8. FdsStep
  <2> DEFINE pos == f.pos + k
  <2>1. fds' = [fds EXCEPT ![d].pos = pos]
    BY <1>2
  <2> HIDE DEF pos, d
  <2> QED BY <2>1, <1>3, <1>5, <1>6, FdsMoved DEF pos
<1> HIDE DEF data
<1>9. CASE k = Len(data)
  <2>1. Transferred(t, k, <<>>) /\ k = Bytes(call[t].req)
    BY <1>2, <1>4, <1>9
  <2> QED BY <2>1, <1>1, <1>3, <1>6, <1>7, <1>8, TransferBase
<1>10. CASE k # Len(data)
  <2>1. Return(t, "io", <<>>)
    BY <1>2, <1>10
  <2> QED BY <2>1, <1>1, <1>3, <1>6, <1>7, <1>8, ReturnBase
<1> QED BY <1>9, <1>10

\* Calls that end without having changed a file
LEMMA EndBase ==
    ASSUME FileInv, NEW t \in Thread, ReadFails(t) \/ WriteBadFd(t) \/ Fsync(t)
    PROVE  BaseStep
<1>1. /\ call[t].step \in {"transfer", "fsync"}
      /\ UNCHANGED <<ready, inits, dir, inodes, fds, fd_cache>>
  BY DEF ReadFails, WriteBadFd, Fsync
<1>2. \E ret : Return(t, ret, <<>>)
  BY DEF ReadFails, WriteBadFd, Fsync
<1>3. ready
  BY <1>1, CallOf, NoThingFields
<1>4. NodesStep /\ DirStep /\ FdsStep
  BY <1>1, NodesSame, DirSame, FdsSame
<1> QED BY <1>1, <1>2, <1>3, <1>4, ReturnBase

\* Calls of one step that leave every file alone
LEMMA AtOnceBase ==
    ASSUME FileInv, NEW t \in Thread,
           \/ \E p \in Path, n \in InitialSize : CreateRefused(t, p, n)
           \/ \E p \in Path : GetFileInfo(t, p)
    PROVE  BaseStep
<1>1. /\ call' = call /\ UNCHANGED counters
      /\ UNCHANGED <<ready, inits, dir, inodes, fds, fd_cache>>
  BY DEF CreateRefused, GetFileInfo, ReturnAtOnce
<1>2. FileInv'
  BY <1>1, StillStep, FilesKept
<1> QED BY <1>1, <1>2, CallStays DEF BaseStep

\* A name is taken away.
LEMMA DirDropped ==
    ASSUME FileInv, NEW p \in Path, dir' = [dir EXCEPT ![p] = 0]
    PROVE  DirStep
BY DEF FileInv, DirInv, DirStep

LEMMA DeleteBase ==
    ASSUME FileInv, NEW t \in Thread, NEW p \in Path, DeleteFile(t, p)
    PROVE  BaseStep
<1>1. /\ call' = call /\ UNCHANGED counters /\ UNCHANGED <<ready, inits, inodes, fds, fd_cache>>
  BY DEF DeleteFile, ReturnAtOnce
<1>2. dir' = dir \/ dir' = [dir EXCEPT ![p] = 0]
  BY DEF DeleteFile
<1>3. DirStep
  BY <1>2, DirSame, DirDropped
<1>4. FileInv'
  BY <1>1, <1>3, NodesSame, FdsSame, FilesKept DEF FileStep, CacheStep
<1> QED BY <1>1, <1>4, CallStays DEF BaseStep

LEMMA CreateBase ==
    ASSUME FileInv, NEW t \in Thread, NEW p \in Path, NEW n \in InitialSize, CreateOpen(t, p, n)
    PROVE  BaseStep
<1> DEFINE c == [step |-> "truncate", req |-> FS!Call("create", p, n, <<>>), fd |-> 0,
                 new |-> Len(inodes) + 1]
<1>1. /\ ready /\ call[t] = NoThing /\ Len(inodes) < MaxInodes
      /\ inodes' = Append(inodes, [path |-> p, data |-> <<>>])
      /\ dir' = [dir EXCEPT ![p] = Len(inodes) + 1]
      /\ call' = [call EXCEPT ![t] = c]
      /\ UNCHANGED <<ready, inits, fds, fd_cache>> /\ UNCHANGED counters
  BY DEF CreateOpen
<1>2. /\ NodesStep /\ DirStep /\ Holds(inodes', Len(inodes) + 1, p)
      /\ Len(inodes) + 1 \in Nat \ {0}
  BY <1>1, InodeMade
<1>3. /\ c.req \in CreateReq /\ c.step = "truncate" /\ c.fd = 0 /\ c.new = Len(inodes) + 1
      /\ c.req[2] = p /\ c \in Calls
  <2>1. FS!Call("create", p, n, <<>>) \in CreateReq /\ FS!Call("create", p, n, <<>>)[2] = p
    BY DEF CreateReq, FS!Call
  <2>2. c \in Calls
    BY <2>1, <1>2 DEF Calls, Req
  <2> QED BY <2>1, <2>2
<1> HIDE DEF c
<1>4. CallInHand(fds', inodes', c)
  BY <1>2, <1>3 DEF CallInHand, CallSound
<1>5. call \in [Thread -> Calls]
  BY CallOf
<1>6. CallStep(t, c)
  BY <1>1, <1>3, <1>4, <1>5 DEF CallStep
<1>7. FileInv'
  BY <1>1, <1>2, <1>3, <1>6, FdsSame, FilesKept DEF FileStep, CacheStep
<1>8. CounterStep
  BY <1>1, <1>3, <1>5, NoThingFields, TurnKeeps
<1> QED BY <1>7, <1>8 DEF BaseStep

\* A call of create_file that has its file
LEMMA CreatingCall ==
    ASSUME FileInv, NEW t \in Thread, call[t].step = "truncate"
    PROVE  /\ ready /\ call[t].fd = 0 /\ call[t].req \in CreateReq /\ call[t].new # 0
           /\ call[t].req[2] \in Path /\ call[t].req[3] \in Nat
           /\ Holds(inodes, call[t].new, call[t].req[2])
<1>1. CallInHand(fds, inodes, call[t]) /\ call[t] # NoThing /\ ready
  BY CallOf, NoThingFields
<1>2. call[t].fd = 0 /\ call[t].req \in CreateReq /\ call[t].new # 0
  BY <1>1 DEF CallInHand, CallSound
<1> QED BY <1>1, <1>2, ReqFields DEF CallInHand

LEMMA TruncateBase ==
    ASSUME FileInv, NEW t \in Thread, CreateTruncate(t)
    PROVE  BaseStep
<1> DEFINE n == call[t].req[3]
           i == call[t].new
           s == FS!Window(inodes[i].data, 0, n)
<1>1. /\ call[t].step = "truncate" /\ Return(t, "ok", <<>>)
      /\ inodes' = IF n = 0 THEN inodes ELSE [inodes EXCEPT ![i].data = s]
      /\ UNCHANGED <<ready, inits, dir, fds, fd_cache>>
  BY DEF CreateTruncate
<1>2. ready /\ n \in Nat /\ i \in 1..Len(inodes)
  BY <1>1, CreatingCall DEF Holds
<1>3. s \in Seq(Nat)
  <2>1. inodes[i] \in Inode
    BY <1>2, ElementOfSeq DEF FileInv, NodesInv
  <2>2. inodes[i].data \in Seq(Nat)
    BY <2>1 DEF Inode
  <2> QED BY <2>2, <1>2, WindowSeq
<1> HIDE DEF s, i, n
<1>4. NodesStep
  BY <1>1, <1>2, <1>3, NodesSame, NodeWritten
<1>5. DirStep /\ FdsStep
  BY <1>1, <1>4, DirSame, FdsSame
<1> QED BY <1>1, <1>2, <1>4, <1>5, ReturnBase

LEMMA UndoBase ==
    ASSUME FileInv, NEW t \in Thread, CreateUndo(t)
    PROVE  BaseStep
<1> DEFINE p == call[t].req[2]
<1>1. /\ call[t].step = "truncate" /\ Return(t, "io", <<>>) /\ dir' = [dir EXCEPT ![p] = 0]
      /\ UNCHANGED <<ready, inits, inodes, fds, fd_cache>>
  BY DEF CreateUndo
<1>2. ready /\ p \in Path
  BY <1>1, CreatingCall
<1> HIDE DEF p
<1>3. NodesStep /\ DirStep /\ FdsStep
  BY <1>1, <1>2, NodesSame, FdsSame, DirDropped
<1> QED BY <1>1, <1>2, <1>3, ReturnBase

LEMMA UpdateBase ==
    ASSUME FileInv, NEW t \in Thread, UpdateStats(t)
    PROVE  BaseStep
<1>1. /\ call[t].step = "stats" /\ stats' = Counted(t) /\ call' = [call EXCEPT ![t] = NoThing]
      /\ acked' = acked /\ UNCHANGED <<ready, inits, dir, inodes, fds, fd_cache>>
  BY DEF UpdateStats
<1>2. ready
  BY <1>1, CallOf, NoThingFields
<1>3. CallStep(t, NoThing) /\ NoThing \in Calls
  BY <1>1, <1>2, CallEnds
<1>4. FileInv'
  BY <1>1, <1>3, StillStep, FilesKept
<1>5. Leaves(t)
  BY <1>1, <1>3, NoThingFields DEF Leaves, CallStep, Others, Counted, More
<1> QED BY <1>4, <1>5 DEF BaseStep, CounterStep

LEMMA ResetBase ==
    ASSUME FileInv, ResetStats
    PROVE  BaseStep
<1>1. /\ stats' = NoStats /\ acked' = [op \in Transfer |-> Uncounted(op)] /\ call' = call
      /\ UNCHANGED <<ready, inits, dir, inodes, fds, fd_cache>>
  BY DEF ResetStats
<1>2. FileInv'
  BY <1>1, StillStep, FilesKept
<1>3. \A op \in Transfer : Uncounted(op) = [ops |-> Cardinality(Late(call, op)),
                                            bytes |-> LateBytes(call, Late(call, op))]
  BY DEF Uncounted, Late, LateBytes, FoldSet, MapThenFoldSet
<1>4. Zeroed
  BY <1>1, <1>3 DEF Zeroed
<1> QED BY <1>2, <1>4 DEF BaseStep, CounterStep

LEMMA CleanupBase ==
    ASSUME FileInv, Cleanup
    PROVE  BaseStep
<1>1. /\ \A t \in Thread : call[t] = NoThing
      /\ ready' = FALSE /\ fd_cache' = <<>> /\ call' = call
      /\ \A d \in Fd : fds'[d] = Closed \/ fds'[d] = fds[d]
      /\ fds' = [d \in Fd |-> fds'[d]]
      /\ UNCHANGED <<inits, dir, inodes>> /\ UNCHANGED counters
  BY DEF Cleanup, EntriesAfterCleanup
<1>2. NodesInv' /\ DirInv'
  BY <1>1 DEF FileInv, NodesInv, DirInv
<1>3. FdsInv'
  <2>1. Closed \in Desc
    BY DEF Closed, Desc
  <2>2. fds' \in [Fd -> Desc]
    BY <2>1, <1>1 DEF FileInv, FdsInv
  <2> QED BY <2>2, <1>1 DEF FileInv, FdsInv
<1>4. CacheInv'
  <2>1. fd_cache' \in Seq(Entry) /\ Len(fd_cache') = 0
    BY <1>1
  <2> QED BY <2>1 DEF CacheInv
<1>5. CallsInv'
  <2>1. \A t \in Thread : CallInHand(fds', inodes', call'[t])
    BY <1>1, NoThingFields DEF CallInHand, CallSound
  <2> QED BY <2>1, <1>1 DEF FileInv, CallsInv
<1>6. ReadyInv'
  BY <1>1 DEF FileInv, ReadyInv
<1> QED BY <1>1, <1>2, <1>3, <1>4, <1>5, <1>6, CallStays DEF BaseStep, FileInv

LEMMA InitialiseBase ==
    ASSUME FileInv, Initialise
    PROVE  BaseStep
<1>1. /\ ~ready /\ ready' = TRUE /\ inits < MaxInits /\ inits' = inits + 1
      /\ stats' = NoStats /\ acked' = NoStats
      /\ UNCHANGED <<dir, inodes, fds, fd_cache, call>>
  BY DEF Initialise
<1>2. \A t \in Thread : call[t] = NoThing
  BY <1>1 DEF FileInv, ReadyInv
<1>3. NodesInv' /\ DirInv' /\ FdsInv' /\ CacheInv' /\ CallsInv'
  BY <1>1 DEF FileInv, NodesInv, DirInv, FdsInv, CacheInv, CallsInv
<1>4. ReadyInv'
  <2>1. inits \in 1..MaxInits
    BY DEF FileInv, ReadyInv
  <2> QED BY <2>1, <1>1 DEF ReadyInv
<1>5. Fresh
  BY <1>1, <1>2, NoThingFields DEF Fresh
<1> QED BY <1>3, <1>4, <1>5 DEF BaseStep, FileInv, CounterStep

LocalInv == FileInv /\ CountersInv

\* What Start asks for
LEMMA StartAsks ==
    ASSUME NEW t \in Thread, Start(t)
    PROVE  \E req, mode, create, next :
             /\ Asked(req, mode, create, next) /\ req[2] \in Path
             /\ GetDescriptor(t, req, mode, create, next)
<1>1. PICK p \in Path :
        \/ \E o \in Offset, n \in ReadSize :
             GetDescriptor(t, FS!Call("read", p, o, n), "r", FALSE, "seek")
        \/ \E o \in Offset, d \in Chunk :
             GetDescriptor(t, FS!Call("write", p, o, d), "w", TRUE, "seek")
        \/ GetDescriptor(t, FS!Call("fsync", p, 0, <<>>), "w", FALSE, "fsync")
  BY DEF Start
<1>2. ASSUME NEW o \in Offset, NEW n \in ReadSize,
             GetDescriptor(t, FS!Call("read", p, o, n), "r", FALSE, "seek")
      PROVE  \E req, mode, create, next :
               /\ Asked(req, mode, create, next) /\ req[2] \in Path
               /\ GetDescriptor(t, req, mode, create, next)
  <2> DEFINE r == FS!Call("read", p, o, n)
  <2>1. r \in ReadReq /\ r[2] = p
    BY DEF ReadReq, FS!Call
  <2>2. Asked(r, "r", FALSE, "seek")
    BY <2>1 DEF Asked
  <2> HIDE DEF r
  <2> QED BY <2>1, <2>2, <1>2 DEF r
<1>3. ASSUME NEW o \in Offset, NEW d \in Chunk,
             GetDescriptor(t, FS!Call("write", p, o, d), "w", TRUE, "seek")
      PROVE  \E req, mode, create, next :
               /\ Asked(req, mode, create, next) /\ req[2] \in Path
               /\ GetDescriptor(t, req, mode, create, next)
  <2> DEFINE r == FS!Call("write", p, o, d)
  <2>1. r \in WriteReq /\ r[2] = p
    BY DEF WriteReq, FS!Call
  <2>2. Asked(r, "w", TRUE, "seek")
    BY <2>1 DEF Asked
  <2> HIDE DEF r
  <2> QED BY <2>1, <2>2, <1>3 DEF r
<1>4. ASSUME GetDescriptor(t, FS!Call("fsync", p, 0, <<>>), "w", FALSE, "fsync")
      PROVE  \E req, mode, create, next :
               /\ Asked(req, mode, create, next) /\ req[2] \in Path
               /\ GetDescriptor(t, req, mode, create, next)
  <2> DEFINE r == FS!Call("fsync", p, 0, <<>>)
  <2>1. r \in SyncReq /\ r[2] = p
    BY DEF SyncReq, FS!Call
  <2>2. Asked(r, "w", FALSE, "fsync")
    BY <2>1 DEF Asked
  <2> HIDE DEF r
  <2> QED BY <2>1, <2>2, <1>4 DEF r
<1> QED BY <1>1, <1>2, <1>3, <1>4

\* The actions a thread may take
ThreadStep(t) ==
    \/ Start(t) \/ Seek(t) \/ Read(t) \/ ReadFails(t) \/ Write(t)
    \/ WriteBadFd(t) \/ Fsync(t) \/ UpdateStats(t)
    \/ \E p \in Path, n \in InitialSize : CreateOpen(t, p, n) \/ CreateRefused(t, p, n)
    \/ CreateTruncate(t) \/ CreateUndo(t)
    \/ \E p \in Path : DeleteFile(t, p) \/ GetFileInfo(t, p)

LEMMA NextSplit ==
    Next <=> (\E t \in Thread : ThreadStep(t)) \/ ResetStats \/ Cleanup \/ Initialise
BY DEF Next, ThreadStep

LEMMA StepBase ==
    ASSUME FileInv, Next
    PROVE  BaseStep
<1>1. ASSUME NEW t \in Thread, ThreadStep(t)
      PROVE  BaseStep
  <2>1. CASE Start(t)
    <3>1. PICK req, mode, create, next :
            Asked(req, mode, create, next) /\ GetDescriptor(t, req, mode, create, next)
      BY <2>1, StartAsks
    <3> QED BY <3>1, StartBase
  <2>2. CASE Seek(t)
    BY <2>2, SeekBase
  <2>3. CASE Read(t)
    BY <2>3, ReadBase
  <2>4. CASE Write(t)
    BY <2>4, WriteBase
  <2>5. CASE ReadFails(t) \/ WriteBadFd(t) \/ Fsync(t)
    BY <2>5, EndBase
  <2>6. CASE UpdateStats(t)
    BY <2>6, UpdateBase
  <2>7. ASSUME NEW p \in Path, NEW n \in InitialSize, CreateOpen(t, p, n) \/ CreateRefused(t, p, n)
        PROVE  BaseStep
    BY <2>7, CreateBase, AtOnceBase
  <2>8. CASE CreateTruncate(t)
    BY <2>8, TruncateBase
  <2>9. CASE CreateUndo(t)
    BY <2>9, UndoBase
  <2>10. ASSUME NEW p \in Path, DeleteFile(t, p) \/ GetFileInfo(t, p)
         PROVE  BaseStep
    BY <2>10, DeleteBase, AtOnceBase
  <2> QED BY <1>1, <2>1, <2>2, <2>3, <2>4, <2>5, <2>6, <2>7, <2>8, <2>9, <2>10 DEF ThreadStep
<1> QED BY <1>1, ResetBase, CleanupBase, InitialiseBase, NextSplit

LEMMA LocalInit ==
    ASSUME Init
    PROVE  LocalInv
<1>1. /\ ready = TRUE /\ inits = 1 /\ dir = [p \in Path |-> 0] /\ inodes = <<>>
      /\ fds = [d \in Fd |-> Closed] /\ fd_cache = <<>> /\ call = [t \in Thread |-> NoThing]
      /\ stats = NoStats /\ acked = NoStats
  BY DEF Init
<1>2. NodesInv
  BY <1>1 DEF NodesInv
<1>3. DirInv
  BY <1>1 DEF DirInv
<1>4. FdsInv
  <2>1. Closed \in Desc
    BY DEF Closed, Desc
  <2> QED BY <2>1, <1>1 DEF FdsInv
<1>5. CacheInv
  BY <1>1 DEF CacheInv
<1>6. CallsInv
  BY <1>1, NoThingFields DEF CallsInv, CallInHand, CallSound
<1>7. ReadyInv
  BY <1>1 DEF ReadyInv
<1>8. CountersInv
  <2>1. ASSUME NEW op \in Transfer
        PROVE  Cardinality(Late(call, op)) = 0 /\ LateBytes(call, Late(call, op)) = 0
    <3>1. Late(call, op) = {}
      BY <1>1, NoThingFields DEF Late
    <3>2. LateBytes(call, {}) = 0
      <4>1. {} \in SUBSET Thread /\ \A t \in {} : Bytes(call[t].req) \in Nat
        OBVIOUS
      <4> QED BY <4>1, LateIsTotal, TotalEmpty
    <3> QED BY <3>1, <3>2, FS_EmptySet
  <2> QED BY <2>1, <1>1, NoStatsFields, ConservedIs DEF CountersInv
<1> QED BY <1>2, <1>3, <1>4, <1>5, <1>6, <1>7, <1>8 DEF LocalInv, FileInv

LEMMA LocalStep ==
    ASSUME LocalInv, [Next]_vars
    PROVE  LocalInv'
<1>1. CASE Next
  <2>1. FileInv' /\ CounterStep
    BY <1>1, StepBase DEF LocalInv, BaseStep
  <2> QED BY <2>1, CountsKept DEF LocalInv
<1>2. CASE UNCHANGED vars
  <2>1. /\ UNCHANGED <<ready, inits, dir, inodes, fds, fd_cache>> /\ call' = call
        /\ UNCHANGED counters
    BY <1>2 DEF vars, counters
  <2>2. FileInv' /\ CounterStep
    BY <2>1, StillStep, FilesKept, CallStays DEF LocalInv
  <2> QED BY <2>2, CountsKept DEF LocalInv
<1> QED BY <1>1, <1>2

\* The inductive invariant of the backend, whatever the threads share: names,
\* descriptors, cache entries and calls agree on the paths of their inodes, and
\* the counters agree with the calls (local_storage.c:174-213, 299-334, 395-400).
THEOREM LocalInvariant == Spec => []LocalInv
<1>1. Init => LocalInv
  BY LocalInit
<1>2. LocalInv /\ [Next]_vars => LocalInv'
  BY LocalStep
<1> QED BY <1>1, <1>2, PTL DEF Spec

\* Every variable keeps its type; in particular the cache stays within
\* max_open_files (local_storage.c:27-57).
THEOREM LocalTypes == Spec => []TypeOK
<1>1. LocalInv => TypeOK
  <2> SUFFICES ASSUME FileInv PROVE TypeOK
    BY DEF LocalInv
  <2> DEFINE n == Len(inodes)
  <2>1. /\ inodes \in Seq(Inode) /\ n \in Nat /\ n <= MaxInodes /\ DOMAIN inodes = 1..n
        /\ \A i \in 1..n : inodes[i] \in Inode
    BY LenProperties, ElementOfSeq DEF FileInv, NodesInv
  <2>2. \A i \in DOMAIN inodes : inodes[i].path \in Path
    BY <2>1 DEF Inode
  <2> HIDE DEF n
  <2>3. dir \in [Path -> 0..n]
    BY <2>1 DEF FileInv, DirInv, Holds, n
  <2>4. fds \in [Fd -> [inode : 0..n, mode : {"none", "r", "w"}, pos : Nat]]
    <3>1. fds \in [Fd -> Desc]
      BY DEF FileInv, FdsInv
    <3>2. ASSUME NEW d \in Fd PROVE fds[d].inode \in 0..n
      <4>1. CASE fds[d] = Closed
        BY <4>1, <2>1 DEF Closed
      <4>2. CASE fds[d] # Closed
        BY <4>2, <2>1 DEF FileInv, FdsInv, n
      <4> QED BY <4>1, <4>2
    <3> QED BY <3>1, <3>2 DEF Desc
  <2>5. /\ Len(fd_cache) <= max_open_files
        /\ \A i \in DOMAIN fd_cache : fd_cache[i].path \in Path /\ fd_cache[i].fd \in Fd
    <3>1. fd_cache \in Seq(Entry) /\ Len(fd_cache) <= max_open_files
      BY DEF FileInv, CacheInv
    <3>2. \A i \in DOMAIN fd_cache : fd_cache[i] \in Entry
      BY <3>1, LenProperties, ElementOfSeq
    <3> QED BY <3>1, <3>2 DEF Entry
  <2>6. ASSUME NEW t \in Thread
        PROVE  /\ call[t].step \in {"idle", "seek", "transfer", "fsync", "truncate", "stats"}
               /\ call[t].fd \in 0..MaxFds /\ call[t].new \in 0..n
    <3>1. call[t] \in Calls /\ CallInHand(fds, inodes, call[t])
      BY CallOf
    <3>2. call[t].new \in 0..n
      BY <3>1, <2>1 DEF CallInHand, Holds, n
    <3> QED BY <3>1, <3>2 DEF Calls
  <2>7. ready \in BOOLEAN /\ inits \in 1..MaxInits
    BY DEF FileInv, ReadyInv
  <2> QED BY <2>1, <2>2, <2>3, <2>4, <2>5, <2>6, <2>7 DEF TypeOK, n
<1> QED BY <1>1, LocalInvariant, PTL

\* No descriptor, in the cache or in a call under way, ever stands for another
\* file than the one it was looked up for, whatever is opened, deleted, fails or
\* is cleaned up meanwhile (local_storage.c:174-213, 299-334).
THEOREM DescriptorsKept == Spec => []DescriptorsSound
<1>1. LocalInv => DescriptorsSound
  <2> SUFFICES ASSUME FileInv PROVE DescriptorsSound
    BY DEF LocalInv
  <2>1. DOMAIN fd_cache = 1..Len(fd_cache) /\ CacheInv
    BY LenProperties DEF FileInv, CacheInv
  <2>2. \A t \in Thread : call[t].fd # 0 => Opened(fds, inodes, call[t].fd, call[t].req[2])
    BY DEF FileInv, CallsInv, CallInHand
  <2> QED BY <2>1, <2>2 DEF DescriptorsSound, CacheInv, Opened, Holds
<1> QED BY <1>1, LocalInvariant, PTL

\* No successful transfer is lost from the counters or counted twice, for any
\* number of threads (local_storage.c:395-400, 451-456, 605-617).
THEOREM TransfersCounted == Spec => []StatsConserved
<1>1. LocalInv => StatsConserved
  BY DEF LocalInv, CountersInv
<1> QED BY <1>1, LocalInvariant, PTL
-----------------------------------------------------------------------------
(* Files that are not misused *)

\* The call has its file and has not finished with it.
Busy(c) == c.step \in {"seek", "transfer", "fsync", "truncate"}

\* What a call that is alone with its file may rely on: its descriptor stands for
\* the inode that has the name, a file it created is empty, and nobody has moved
\* the position it has set.
Alone(dr, ns, fs, fc, c) ==
    /\ c.fd # 0 => dr[c.req[2]] = fs[c.fd].inode
    /\ c.new # 0 => /\ dr[c.req[2]] = c.new /\ ns[c.new].data = <<>>
                    /\ c.fd # 0 => fs[c.fd].mode = "w"
    /\ c.step = "transfer" => fs[c.fd].pos = c.req[3]
    /\ c.step = "truncate" => \A i \in 1..Len(fc) : fc[i].path # c.req[2]

\* A cache entry stands for the inode that has the name.
Named(dr, fs, e) == dr[e.path] = fs[e.fd].inode

\* Cache entries and calls of a file that is not misused are sound, and at most
\* one call has such a file in hand.
OwnInv ==
    /\ \A i \in 1..Len(fd_cache) :
         fd_cache[i].path \notin misused => Named(dir, fds, fd_cache[i])
    /\ \A u \in Thread : Busy(call[u]) /\ call[u].req[2] \notin misused =>
         Alone(dir, inodes, fds, fd_cache, call[u])
    /\ \A u, v \in Thread :
         u # v /\ Busy(call[u]) /\ Busy(call[v]) /\ call[u].req[2] = call[v].req[2] =>
             call[u].req[2] \in misused

\* A step of t that touches no file but p
Only(t, p) ==
    /\ \A q \in Path : q # p => dir'[q] = dir[q]
    /\ \A i, q : Holds(inodes, i, q) /\ q # p => inodes'[i] = inodes[i]
    /\ \A d, q : Opened(fds, inodes, d, q) /\ q # p => fds'[d] = fds[d]
    /\ \A i \in 1..Len(fd_cache') :
         (i \in 1..Len(fd_cache) /\ fd_cache'[i] = fd_cache[i]) \/ fd_cache'[i].path = p
    /\ \A u \in Thread : u # t => call'[u] = call[u]
    /\ call[t] # NoThing => call[t].req[2] = p
    /\ call'[t] # NoThing => call'[t].req[2] = p

\* Where a step starts, and what is known already of where it ends
Calm == FileInv /\ FileInv' /\ OwnInv

\* No other thread is using p, and the step misuses no file.
Mine(t, p) ==
    /\ p \in Path /\ p \notin misused /\ misused' = misused
    /\ \A u \in Thread : u # t /\ Busy(call[u]) => call[u].req[2] # p

LEMMA BusyCall ==
    ASSUME FileInv, NEW u \in Thread
    PROVE  /\ Busy(call[u]) => call[u].req[2] \in Path /\ call[u] # NoThing
           /\ call[u].new # 0 => Busy(call[u])
           /\ call[u].fd # 0 => Busy(call[u])
<1>1. CallSound(call[u])
  BY CallOf DEF CallInHand
<1> QED BY <1>1, NoThingFields, ReqFields DEF CallSound, Busy

LEMMA BusyCallNext ==
    ASSUME FileInv', NEW u \in Thread
    PROVE  Busy(call'[u]) => call'[u] # NoThing
BY NoThingFields DEF Busy

\* A step of t on p disturbs no other file, and p is misused or as it should be.
LEMMA OwnGoesOn ==
    ASSUME Calm, NEW t \in Thread, NEW p \in Path, Only(t, p),
           misused' = misused \/ misused' = misused \cup {p},
           p \notin misused' =>
             /\ \A u \in Thread : u # t /\ Busy(call[u]) => call[u].req[2] # p
             /\ \A i \in 1..Len(fd_cache') :
                  fd_cache'[i].path = p => Named(dir', fds', fd_cache'[i])
             /\ Busy(call'[t]) => Alone(dir', inodes', fds', fd_cache', call'[t])
    PROVE  OwnInv'
<1>1. ASSUME NEW i \in 1..Len(fd_cache'), fd_cache'[i].path \notin misused'
      PROVE  Named(dir', fds', fd_cache'[i])
  <2>1. CASE fd_cache'[i].path = p
    BY <1>1, <2>1
  <2>2. CASE fd_cache'[i].path # p
    <3> DEFINE e == fd_cache[i]
    <3>1. i \in 1..Len(fd_cache) /\ fd_cache'[i] = e /\ e.path # p /\ e.path \notin misused
      BY <1>1, <2>2 DEF Only
    <3>2. e \in Entry
      BY <3>1, ElementOfSeq DEF Calm, FileInv, CacheInv
    <3>3. Opened(fds, inodes, e.fd, e.path) /\ Named(dir, fds, e) /\ e.path \in Path
      BY <3>1, <3>2 DEF Calm, OwnInv, FileInv, CacheInv, Entry
    <3> HIDE DEF e
    <3>4. fds'[e.fd] = fds[e.fd] /\ dir'[e.path] = dir[e.path]
      BY <3>1, <3>3 DEF Only
    <3> QED BY <3>1, <3>3, <3>4 DEF Named
  <2> QED BY <2>1, <2>2
<1>2. \A u \in Thread : Busy(call'[u]) => call'[u] # NoThing
  BY BusyCallNext DEF Calm
<1>3. Busy(call'[t]) => call'[t].req[2] = p
  BY <1>2 DEF Only
<1>4. ASSUME NEW u \in Thread, Busy(call'[u]), call'[u].req[2] \notin misused'
      PROVE  Alone(dir', inodes', fds', fd_cache', call'[u])
  <2>1. CASE u = t
    BY <1>3, <1>4, <2>1
  <2>2. CASE u # t
    <3> DEFINE c == call[u]
               q == c.req[2]
    <3>1. call'[u] = c /\ Busy(c) /\ q \notin misused' /\ q \notin misused
      BY <1>4, <2>2 DEF Only
    <3>2. Alone(dir, inodes, fds, fd_cache, c) /\ CallInHand(fds, inodes, c) /\ q \in Path
      BY <3>1, CallOf, BusyCall DEF Calm, OwnInv
    <3>3. q # p
      BY <2>2, <3>1
    <3>4. dir'[q] = dir[q]
      BY <3>2, <3>3 DEF Only
    <3>5. c.fd # 0 => fds'[c.fd] = fds[c.fd]
      BY <3>2, <3>3 DEF Only, CallInHand
    <3>6. c.new # 0 => inodes'[c.new] = inodes[c.new]
      BY <3>2, <3>3 DEF Only, CallInHand
    <3>7. c.step = "transfer" => c.fd # 0
      BY <3>1, <3>2, NoThingFields DEF CallInHand, CallSound, Busy
    <3>8. c.step = "truncate" => \A i \in 1..Len(fd_cache') : fd_cache'[i].path # q
      BY <3>2, <3>3 DEF Only, Alone
    <3>9. Alone(dir', inodes', fds', fd_cache', c)
      BY <3>2, <3>4, <3>5, <3>6, <3>7, <3>8 DEF Alone
    <3> QED BY <3>1, <3>9
  <2> QED BY <2>1, <2>2
<1>5. ASSUME NEW u \in Thread, NEW v \in Thread, u # v, Busy(call'[u]), Busy(call'[v]),
             call'[u].req[2] = call'[v].req[2]
      PROVE  call'[u].req[2] \in misused'
  <2>1. \A w \in Thread : w # t => call'[w] = call[w]
    BY DEF Only
  <2>2. CASE u # t /\ v # t
    <3>1. call[u].req[2] \in misused
      BY <1>5, <2>1, <2>2 DEF Calm, OwnInv
    <3> QED BY <3>1, <2>1, <2>2
  <2>3. ASSUME NEW w \in Thread, w # t, Busy(call'[w]), Busy(call'[t]),
               call'[w].req[2] = call'[t].req[2]
        PROVE  p \in misused'
    BY <2>1, <2>3, <1>3
  <2> QED BY <2>2, <2>3, <1>3, <1>5
<1> QED BY <1>1, <1>4, <1>5 DEF OwnInv

LEMMA OwnKept ==
    ASSUME Calm, NEW t \in Thread, NEW p, Mine(t, p), Only(t, p),
           \A i \in 1..Len(fd_cache') : fd_cache'[i].path = p => Named(dir', fds', fd_cache'[i]),
           call'[t] # NoThing => Alone(dir', inodes', fds', fd_cache', call'[t])
    PROVE  OwnInv'
<1>1. p \in Path /\ misused' = misused
      /\ \A u \in Thread : u # t /\ Busy(call[u]) => call[u].req[2] # p
  BY DEF Mine
<1>2. Busy(call'[t]) => call'[t] # NoThing
  BY BusyCallNext DEF Calm
<1> QED BY <1>1, <1>2, OwnGoesOn

-----------------------------------------------------------------------------
(* The files a step shows *)

View(dr, ns, cl) ==
    [p \in {q \in Path : dr[q] # 0 /\ \A t \in Thread : cl[t].new # dr[q]} |-> ns[dr[p]].data]

LEMMA ContentIs == Content = View(dir, inodes, call) /\ Content' = View(dir', inodes', call')
BY DEF Content, View, Visible

Separate(dr, ns, cl) ==
    /\ \A q \in Path : dr[q] # 0 => Holds(ns, dr[q], q)
    /\ \A u \in Thread : cl[u].new # 0 => Holds(ns, cl[u].new, cl[u].req[2])

LEMMA Separated ==
    ASSUME FileInv
    PROVE  Separate(dir, inodes, call)
BY DEF Separate, FileInv, DirInv, CallsInv, CallInHand

LEMMA SeparatedNext ==
    ASSUME FileInv'
    PROVE  Separate(dir', inodes', call')
BY DEF Separate, FileInv, DirInv, CallsInv, CallInHand

\* Whether a file is there is up to the one thread that uses it.
LEMMA ViewAt ==
    ASSUME NEW dr, NEW ns, NEW cl, Separate(dr, ns, cl), NEW t \in Thread, NEW p \in Path,
           \A u \in Thread : u # t /\ cl[u].new # 0 => cl[u].req[2] # p
    PROVE  /\ p \in DOMAIN View(dr, ns, cl) <=> dr[p] # 0 /\ cl[t].new # dr[p]
           /\ p \in DOMAIN View(dr, ns, cl) => View(dr, ns, cl)[p] = ns[dr[p]].data
<1>1. ASSUME NEW u \in Thread, u # t, dr[p] # 0
      PROVE  cl[u].new # dr[p]
  <2> SUFFICES ASSUME cl[u].new = dr[p] PROVE FALSE
    OBVIOUS
  <2>1. Holds(ns, dr[p], p) /\ Holds(ns, dr[p], cl[u].req[2])
    BY <1>1 DEF Separate
  <2>2. cl[u].req[2] = p
    BY <2>1 DEF Holds
  <2> QED BY <2>2, <1>1
<1> QED BY <1>1 DEF View

\* A step of t on p goes past file q.
Past(dr, ns, cl, dr2, ns2, cl2, t, p, q) ==
    /\ Separate(dr, ns, cl) /\ Separate(dr2, ns2, cl2) /\ q # p
    /\ \A u \in Thread : u # t => cl2[u] = cl[u]
    /\ cl[t].new # 0 => cl[t].req[2] = p
    /\ cl2[t].new # 0 => cl2[t].req[2] = p
    /\ dr2[q] = dr[q]
    /\ dr[q] # 0 => ns2[dr[q]] = ns[dr[q]]

LEMMA ViewElse ==
    ASSUME NEW dr, NEW ns, NEW cl, NEW dr2, NEW ns2, NEW cl2, NEW t \in Thread, NEW p,
           NEW q \in Path, Past(dr, ns, cl, dr2, ns2, cl2, t, p, q)
    PROVE  /\ q \in DOMAIN View(dr2, ns2, cl2) <=> q \in DOMAIN View(dr, ns, cl)
           /\ q \in DOMAIN View(dr, ns, cl) => View(dr2, ns2, cl2)[q] = View(dr, ns, cl)[q]
<1>1. dr[q] # 0 => cl[t].new # dr[q]
  BY DEF Past, Separate, Holds
<1>2. dr2[q] # 0 => cl2[t].new # dr2[q]
  BY DEF Past, Separate, Holds
<1>3. q \in DOMAIN View(dr2, ns2, cl2) <=> q \in DOMAIN View(dr, ns, cl)
  BY <1>1, <1>2 DEF View, Past
<1> QED BY <1>3 DEF View, Past

\* A step of t on p leaves the other files alone.
LEMMA StepElse ==
    ASSUME Calm, NEW t \in Thread, NEW p \in Path, Only(t, p)
    PROVE  /\ \A q \in Path : q # p =>
                /\ q \in DOMAIN Content' <=> q \in DOMAIN Content
                /\ q \in DOMAIN Content => Content'[q] = Content[q]
           /\ DOMAIN Content \subseteq Path /\ DOMAIN Content' \subseteq Path
           /\ Content = [q \in DOMAIN Content |-> Content[q]]
           /\ Content' = [q \in DOMAIN Content' |-> Content'[q]]
<1>1. Separate(dir, inodes, call) /\ Separate(dir', inodes', call')
  BY Separated, SeparatedNext DEF Calm
<1>2. ASSUME NEW q \in Path, q # p
      PROVE  /\ q \in DOMAIN Content' <=> q \in DOMAIN Content
             /\ q \in DOMAIN Content => Content'[q] = Content[q]
  <2>1. dir'[q] = dir[q] /\ \A u \in Thread : u # t => call'[u] = call[u]
    BY <1>2 DEF Only
  <2>2. dir[q] # 0 => inodes'[dir[q]] = inodes[dir[q]]
    BY <1>1, <1>2 DEF Only, Separate
  <2>3. (call[t].new # 0 => call[t].req[2] = p) /\ (call'[t].new # 0 => call'[t].req[2] = p)
    BY NoThingFields DEF Only
  <2>4. Past(dir, inodes, call, dir', inodes', call', t, p, q)
    BY <1>1, <1>2, <2>1, <2>2, <2>3 DEF Past
  <2> QED BY <2>4, ContentIs, ViewElse
<1>3. DOMAIN Content \subseteq Path /\ Content = [q \in DOMAIN Content |-> Content[q]]
  BY ContentIs DEF View
<1>4. DOMAIN Content' \subseteq Path /\ Content' = [q \in DOMAIN Content' |-> Content'[q]]
  BY ContentIs DEF View
<1> QED BY <1>2, <1>3, <1>4

LEMMA MineNew ==
    ASSUME Calm, NEW t \in Thread, NEW p, Mine(t, p)
    PROVE  p \in Path /\ \A u \in Thread : u # t /\ call[u].new # 0 => call[u].req[2] # p
BY BusyCall DEF Mine, Calm

\* What a step of t does to p, if nobody else uses it
LEMMA StepView ==
    ASSUME Calm, NEW t \in Thread, NEW p, Mine(t, p), Only(t, p)
    PROVE  /\ p \in DOMAIN Content <=> dir[p] # 0 /\ call[t].new # dir[p]
           /\ p \in DOMAIN Content => Content[p] = inodes[dir[p]].data
           /\ p \in DOMAIN Content' <=> dir'[p] # 0 /\ call'[t].new # dir'[p]
           /\ p \in DOMAIN Content' => Content'[p] = inodes'[dir'[p]].data
<1>1. Separate(dir, inodes, call) /\ Separate(dir', inodes', call')
  BY Separated, SeparatedNext DEF Calm
<1>2. p \in Path /\ \A u \in Thread : u # t /\ call[u].new # 0 => call[u].req[2] # p
  BY MineNew
<1>3. \A u \in Thread : u # t /\ call'[u].new # 0 => call'[u].req[2] # p
  BY <1>2 DEF Only
<1>4. /\ p \in DOMAIN Content <=> dir[p] # 0 /\ call[t].new # dir[p]
      /\ p \in DOMAIN Content => Content[p] = inodes[dir[p]].data
  BY <1>1, <1>2, ContentIs, ViewAt
<1>5. /\ p \in DOMAIN Content' <=> dir'[p] # 0 /\ call'[t].new # dir'[p]
      /\ p \in DOMAIN Content' => Content'[p] = inodes'[dir'[p]].data
  BY <1>1, <1>2, <1>3, ContentIs, ViewAt
<1> QED BY <1>4, <1>5

LEMMA SameContent ==
    ASSUME Calm, NEW t \in Thread, NEW p, Mine(t, p), Only(t, p),
           (dir'[p] # 0 /\ call'[t].new # dir'[p]) <=> (dir[p] # 0 /\ call[t].new # dir[p]),
           dir[p] # 0 /\ call[t].new # dir[p] => inodes'[dir'[p]].data = inodes[dir[p]].data
    PROVE  Content' = Content
<1>0. p \in Path
  BY DEF Mine
<1>1. \A q \in Path : (q \in DOMAIN Content' <=> q \in DOMAIN Content)
                      /\ (q \in DOMAIN Content => Content'[q] = Content[q])
  BY <1>0, StepElse, StepView
<1>2. /\ DOMAIN Content \subseteq Path /\ DOMAIN Content' \subseteq Path
      /\ Content = [q \in DOMAIN Content |-> Content[q]]
      /\ Content' = [q \in DOMAIN Content' |-> Content'[q]]
  BY <1>0, StepElse
<1>3. DOMAIN Content' = DOMAIN Content
  BY <1>1, <1>2
<1> QED BY <1>1, <1>2, <1>3

LEMMA SetContent ==
    ASSUME Calm, NEW t \in Thread, NEW p, Mine(t, p), Only(t, p),
           dir'[p] # 0, call'[t].new # dir'[p], NEW s, inodes'[dir'[p]].data = s
    PROVE  FS!SetFile(p, s)
<1>0. p \in Path
  BY DEF Mine
<1>1. p \in DOMAIN Content' /\ Content'[p] = s
  BY StepView
<1>2. \A q \in Path : q # p => (q \in DOMAIN Content' <=> q \in DOMAIN Content)
                               /\ (q \in DOMAIN Content => Content'[q] = Content[q])
  BY <1>0, StepElse
<1>3. /\ DOMAIN Content \subseteq Path /\ DOMAIN Content' \subseteq Path
      /\ Content' = [q \in DOMAIN Content' |-> Content'[q]]
  BY <1>0, StepElse
<1>4. DOMAIN Content' = DOMAIN Content \cup {p}
  BY <1>0, <1>1, <1>2, <1>3
<1>5. \A q \in DOMAIN Content' : Content'[q] = IF q = p THEN s ELSE Content[q]
  BY <1>1, <1>2, <1>3
<1>6. Content' = [q \in DOMAIN Content \cup {p} |-> IF q = p THEN s ELSE Content[q]]
  BY <1>3, <1>4, <1>5
<1> QED BY <1>6 DEF FS!SetFile, FS!Files

LEMMA DropContent ==
    ASSUME Calm, NEW t \in Thread, NEW p, Mine(t, p), Only(t, p), dir'[p] = 0
    PROVE  Content' = [q \in FS!Files \ {p} |-> Content[q]]
<1>0. p \in Path
  BY DEF Mine
<1>1. p \notin DOMAIN Content'
  BY StepView
<1>2. \A q \in Path : q # p => (q \in DOMAIN Content' <=> q \in DOMAIN Content)
                               /\ (q \in DOMAIN Content => Content'[q] = Content[q])
  BY <1>0, StepElse
<1>3. /\ DOMAIN Content \subseteq Path /\ DOMAIN Content' \subseteq Path
      /\ Content' = [q \in DOMAIN Content' |-> Content'[q]]
  BY <1>0, StepElse
<1>4. DOMAIN Content' = DOMAIN Content \ {p}
  BY <1>1, <1>2, <1>3
<1>5. \A q \in DOMAIN Content' : Content'[q] = Content[q]
  BY <1>1, <1>2, <1>3
<1> QED BY <1>3, <1>4, <1>5 DEF FS!Files

-----------------------------------------------------------------------------
(* The steps as FileStore sees them *)

\* A step that misuses nothing, and any step
AnswerStep == OwnInv' /\ (FS!Answer \/ UNCHANGED <<Content, reply>>)
OwnStep    == OwnInv' /\ (FS!Next \/ UNCHANGED <<Content, reply, misused>>)

\* A step of t on p begins a use of p, or goes on with one.
Uses(p)      == misused' = misused \cup {p} \/ (misused' = misused /\ ~InUse(p))
Alters(t, p) == Uses(p) \/ (misused' = misused /\ Busy(call[t]) /\ call[t].req[2] = p)

LEMMA UseCases ==
    ASSUME NEW req, Use(req)
    PROVE  /\ Uses(req[2])
           /\ req[1] = "delete" /\ misused' = misused /\ req[2] \notin misused => Cached(req[2]) = 0
BY DEF Use, Uses

\* It is enough to look at the steps on files that are not misused.
LEMMA Astray ==
    ASSUME Calm, NEW t \in Thread, NEW p \in Path, Only(t, p), Alters(t, p),
           reply' = reply \/ reply'.call[2] = p, Mine(t, p) => AnswerStep
    PROVE  OwnStep
<1>1. misused' = misused \/ misused' = misused \cup {p}
  BY DEF Alters, Uses
<1>2. CASE p \in misused'
  <2>1. OwnInv'
    BY <1>1, <1>2, OwnGoesOn
  <2>2. misused' = misused \cup {p}
    BY <1>1, <1>2
  <2>3. \A q \in Path : q # p => FS!SameFile(q)
    BY StepElse DEF FS!SameFile, FS!Files
  <2>4. FS!Misuse(p)
    BY <2>2, <2>3 DEF FS!Misuse
  <2>5. FS!Next
    BY <2>4 DEF FS!Next
  <2> QED BY <2>1, <2>5 DEF OwnStep
<1>3. CASE p \notin misused'
  <2>1. misused' = misused /\ p \notin misused
    BY <1>1, <1>3
  <2>2. ASSUME NEW u \in Thread, u # t, Busy(call[u]), call[u].req[2] = p
        PROVE  FALSE
    <3>1. InUse(p)
      BY <2>2 DEF InUse, Busy
    <3>2. Busy(call[t]) /\ call[t].req[2] = p
      BY <3>1, <1>3 DEF Alters, Uses
    <3> QED BY <2>1, <2>2, <3>2 DEF Calm, OwnInv
  <2>3. Mine(t, p)
    BY <2>1, <2>2 DEF Mine
  <2>4. OwnInv' /\ (FS!Answer \/ UNCHANGED <<Content, reply>>)
    BY <2>3 DEF AnswerStep
  <2>5. FS!Next \/ UNCHANGED <<Content, reply, misused>>
    BY <2>1, <2>4 DEF FS!Next
  <2> QED BY <2>4, <2>5 DEF OwnStep
<1> QED BY <1>2, <1>3

LEMMA ReplyTo ==
    ASSUME NEW c, NEW ret, NEW data, reply' = FS!Reply(c, ret, data)
    PROVE  reply'.call[2] = c[2]
BY DEF FS!Reply

LEMMA MineAlone ==
    ASSUME Calm, NEW t \in Thread, NEW p, Mine(t, p), Busy(call[t]), call[t].req[2] = p
    PROVE  Alone(dir, inodes, fds, fd_cache, call[t])
BY DEF Calm, OwnInv, Mine

\* What t knows of its file between two steps
LEMMA OwnFile ==
    ASSUME Calm, NEW t \in Thread, NEW p, Mine(t, p)
    PROVE  /\ p \in FS!Files <=> dir[p] # 0 /\ call[t].new # dir[p]
           /\ p \in FS!Files => Content[p] = inodes[dir[p]].data
<1>1. Separate(dir, inodes, call)
  BY Separated DEF Calm
<1>2. p \in Path /\ \A u \in Thread : u # t /\ call[u].new # 0 => call[u].req[2] # p
  BY MineNew
<1> QED BY <1>1, <1>2, ContentIs, ViewAt DEF FS!Files

\* A step that changes nothing but the call of t, its position and its bytes
Moves(t, p) ==
    /\ dir' = dir /\ fd_cache' = fd_cache
    /\ \A i, q : Holds(inodes, i, q) /\ q # p => inodes'[i] = inodes[i]
    /\ \A d, q : Opened(fds, inodes, d, q) => fds'[d].inode = fds[d].inode
    /\ \A d, q : Opened(fds, inodes, d, q) /\ q # p => fds'[d] = fds[d]
    /\ \A u \in Thread : u # t => call'[u] = call[u]
    /\ call[t] # NoThing => call[t].req[2] = p
    /\ call'[t] # NoThing => call'[t].req[2] = p

LEMMA MovesOnly ==
    ASSUME NEW t, NEW p, Moves(t, p)
    PROVE  Only(t, p)
BY DEF Only, Moves

LEMMA MovesOwn ==
    ASSUME Calm, NEW t \in Thread, NEW p, Mine(t, p), Moves(t, p),
           call'[t] # NoThing => Alone(dir', inodes', fds', fd_cache', call'[t])
    PROVE  OwnInv'
<1>1. ASSUME NEW i \in 1..Len(fd_cache'), fd_cache'[i].path = p
      PROVE  Named(dir', fds', fd_cache'[i])
  <2>1. Opened(fds, inodes, fd_cache[i].fd, fd_cache[i].path) /\ Named(dir, fds, fd_cache[i])
    BY <1>1 DEF Moves, Mine, Calm, OwnInv, FileInv, CacheInv
  <2> QED BY <2>1 DEF Moves, Named
<1> QED BY <1>1, MovesOnly, OwnKept

\* The position of descriptor d moves, or no descriptor does.
Shifts(d, pos) == fds' = fds \/ fds' = [fds EXCEPT ![d].pos = pos]

LEMMA PositionMoved ==
    ASSUME FileInv, NEW d, NEW p, Opened(fds, inodes, d, p), NEW pos, Shifts(d, pos)
    PROVE  /\ \A e, q : Opened(fds, inodes, e, q) => fds'[e].inode = fds[e].inode
           /\ \A e, q : Opened(fds, inodes, e, q) /\ q # p => fds'[e] = fds[e]
           /\ fds'[d].mode = fds[d].mode /\ fds'[d].inode = fds[d].inode
<1>1. d \in Fd /\ fds \in [Fd -> Desc] /\ fds[d] \in Desc /\ Holds(inodes, fds[d].inode, p)
  BY DEF Opened, FileInv, FdsInv
<1>2. CASE fds' = fds
  BY <1>2
<1>3. CASE fds' = [fds EXCEPT ![d].pos = pos]
  <2>1. /\ \A e \in Fd : e # d => fds'[e] = fds[e]
        /\ fds'[d].inode = fds[d].inode /\ fds'[d].mode = fds[d].mode /\ fds'[d].pos = pos
    BY <1>1, <1>3 DEF Desc
  <2>2. \A e, q : Opened(fds, inodes, e, q) => e \in Fd
    BY DEF Opened
  <2>3. \A e, q : Opened(fds, inodes, e, q) /\ q # p => e # d
    BY <1>1 DEF Opened, Holds
  <2> QED BY <2>1, <2>2, <2>3
<1> QED BY <1>2, <1>3 DEF Shifts

\* Everything stays as it is.
LEMMA StillOwn ==
    ASSUME Calm, UNCHANGED <<dir, inodes, call>>, UNCHANGED <<fds, fd_cache>>, misused' = misused
    PROVE  OwnInv' /\ Content' = Content
<1>1. OwnInv'
  BY DEF Calm, OwnInv
<1> QED BY <1>1, ContentIs

LEMMA StillOnly ==
    ASSUME NEW t, NEW p, UNCHANGED <<dir, inodes, call>>, UNCHANGED <<fds, fd_cache>>,
           call[t] = NoThing
    PROVE  Only(t, p)
BY DEF Only

\* A call ends, or goes on to the counters, with its file as it was.
Ends(t) ==
    /\ call[t] # NoThing /\ Busy(call[t]) /\ call[t].fd # 0
    /\ \E pos : Shifts(call[t].fd, pos)
    /\ UNCHANGED <<dir, inodes, fd_cache, misused>>
    /\ \A u \in Thread : u # t => call'[u] = call[u]
    /\ call'[t].fd = 0 /\ call'[t].new = 0 /\ call'[t].step \in {"idle", "stats"}
    /\ call'[t] = NoThing \/ call'[t].req = call[t].req

LEMMA EndsMoves ==
    ASSUME Calm, NEW t \in Thread, Ends(t)
    PROVE  Moves(t, call[t].req[2]) /\ Alters(t, call[t].req[2]) /\ call[t].req[2] \in Path
<1> DEFINE p == call[t].req[2]
           d == call[t].fd
<1>1. PICK pos : Shifts(d, pos)
  BY DEF Ends
<1>2. Opened(fds, inodes, d, p)
  BY CallOf DEF Calm, CallInHand, Ends
<1>3. /\ \A e, q : Opened(fds, inodes, e, q) => fds'[e].inode = fds[e].inode
      /\ \A e, q : Opened(fds, inodes, e, q) /\ q # p => fds'[e] = fds[e]
  <2> HIDE DEF p, d
  <2> QED BY <1>1, <1>2, PositionMoved DEF Calm
<1>4. Moves(t, p)
  BY <1>3 DEF Moves, Ends
<1>5. p \in Path
  BY BusyCall DEF Calm, Ends
<1>6. Alters(t, p)
  BY DEF Alters, Ends
<1> QED BY <1>4, <1>5, <1>6

LEMMA EndsOwn ==
    ASSUME Calm, NEW t \in Thread, Ends(t), Mine(t, call[t].req[2]), call[t].new = 0
    PROVE  OwnInv' /\ Content' = Content
<1> DEFINE p == call[t].req[2]
<1>1. Moves(t, p)
  BY EndsMoves
<1>2. Alone(dir', inodes', fds', fd_cache', call'[t])
  BY DEF Alone, Ends
<1>3. /\ call[t].new = 0 /\ call'[t].new = 0 /\ UNCHANGED <<dir, inodes>> /\ Mine(t, p)
  BY DEF Ends
<1> HIDE DEF p
<1>4. OwnInv' /\ Only(t, p)
  BY <1>1, <1>2, <1>3, MovesOwn, MovesOnly
<1> QED BY <1>3, <1>4, SameContent

\* A call of t that is over
LEMMA Returned ==
    ASSUME FileInv, NEW t \in Thread, NEW ret, NEW data, Return(t, ret, data)
    PROVE  /\ call'[t] = NoThing /\ call'[t].fd = 0 /\ call'[t].new = 0 /\ call'[t].step = "idle"
           /\ \A u \in Thread : u # t => call'[u] = call[u]
           /\ reply' = FS!Reply(call[t].req, ret, data) /\ misused' = misused
BY CallOf, NoThingFields DEF Return, usage

\* A call of t that has transferred its bytes
LEMMA Moved ==
    ASSUME FileInv, NEW t \in Thread, NEW n, NEW data, Transferred(t, n, data)
    PROVE  /\ call'[t].fd = 0 /\ call'[t].new = 0 /\ call'[t].step = "stats"
           /\ call'[t].req = call[t].req
           /\ \A u \in Thread : u # t => call'[u] = call[u]
           /\ reply' = FS!Reply(call[t].req, "ok", data) /\ misused' = misused
<1> DEFINE r == call[t].req
<1>0. call \in [Thread -> Calls] /\ call[t] \in Calls
  BY CallOf
<1>1. call' = [call EXCEPT ![t] = [@ EXCEPT !.step = "stats", !.fd = 0, !.new = 0]]
  BY DEF Transferred, usage
<1> DEFINE a == [call[t] EXCEPT !.step = "stats"]
           b == [a EXCEPT !.fd = 0]
           c == [b EXCEPT !.new = 0]
<1>2. call' = [call EXCEPT ![t] = c]
  BY <1>1
<1>3. a = [step |-> "stats", req |-> r, fd |-> call[t].fd, new |-> call[t].new]
  BY <1>0 DEF Calls
<1> HIDE DEF a
<1>4. b = [step |-> "stats", req |-> r, fd |-> 0, new |-> call[t].new]
  BY <1>3
<1> HIDE DEF b
<1>5. c = [step |-> "stats", req |-> r, fd |-> 0, new |-> 0]
  BY <1>4
<1> HIDE DEF c
<1>6. call'[t] = c /\ \A u \in Thread : u # t => call'[u] = call[u]
  BY <1>0, <1>2
<1> QED BY <1>5, <1>6 DEF Transferred, usage

LEMMA SeekOwn ==
    ASSUME Calm, NEW t \in Thread, Seek(t)
    PROVE  OwnStep
<1> DEFINE p == call[t].req[2]
           d == call[t].fd
           o == call[t].req[3]
<1>1. /\ call[t].step = "seek" /\ fds' = [fds EXCEPT ![d].pos = o]
      /\ call' = [call EXCEPT ![t].step = "transfer"]
      /\ UNCHANGED <<dir, inodes, fd_cache>> /\ reply' = reply /\ misused' = misused
  BY DEF Seek, SetPosition, usage
<1>2. /\ call[t] # NoThing /\ d \in Fd /\ d # 0 /\ Opened(fds, inodes, d, p)
      /\ p \in Path /\ Busy(call[t])
  BY <1>1, MovingCall, NoThingFields DEF Calm, Fd, Busy
<1>4. /\ call'[t].step = "transfer" /\ call'[t].req = call[t].req /\ call'[t].fd = d
      /\ call'[t].new = call[t].new /\ \A u \in Thread : u # t => call'[u] = call[u]
  <2>1. call \in [Thread -> Calls] /\ call[t] \in Calls
    BY CallOf DEF Calm
  <2> QED BY <2>1, <1>1 DEF Calls
<1>5. fds[d] \in Desc /\ fds \in [Fd -> Desc]
  BY <1>2 DEF Calm, FileInv, FdsInv
<1>6. /\ \A e, q : Opened(fds, inodes, e, q) => fds'[e].inode = fds[e].inode
      /\ \A e, q : Opened(fds, inodes, e, q) /\ q # p => fds'[e] = fds[e]
      /\ fds'[d].mode = fds[d].mode /\ fds'[d].inode = fds[d].inode
  <2>1. Shifts(d, o)
    BY <1>1 DEF Shifts
  <2> HIDE DEF p, d, o
  <2> QED BY <2>1, <1>2, PositionMoved DEF Calm
<1>7. fds'[d].pos = o
  <2> HIDE DEF d, o
  <2> QED BY <1>1, <1>2, <1>5 DEF Desc
<1>8. Moves(t, p) /\ Only(t, p)
  <2>1. Moves(t, p)
    BY <1>1, <1>4, <1>6 DEF Moves
  <2> HIDE DEF p
  <2> QED BY <2>1, MovesOnly
<1>9. Alters(t, p)
  BY <1>1, <1>2 DEF Alters
<1>10. ASSUME Mine(t, p) PROVE AnswerStep
  <2>1. Alone(dir, inodes, fds, fd_cache, call[t])
    BY <1>2, <1>10, MineAlone
  <2>2. Alone(dir', inodes', fds', fd_cache', call'[t])
    BY <1>1, <1>4, <1>6, <1>7, <2>1 DEF Alone
  <2> HIDE DEF p
  <2>3. OwnInv'
    BY <1>8, <1>10, <2>2, MovesOwn
  <2>4. Content' = Content
    BY <1>1, <1>4, <1>8, <1>10, SameContent
  <2> QED BY <1>1, <2>3, <2>4 DEF AnswerStep
<1> HIDE DEF p
<1> QED BY <1>1, <1>2, <1>8, <1>9, <1>10, Astray

\* A call that fails without a trace is refused.
LEMMA RefusedStep ==
    ASSUME NEW c \in ReadReq \cup WriteReq \cup SyncReq \cup CreateReq,
           reply' = FS!Reply(c, "io", <<>>), Content' = Content
    PROVE  FS!Answer
<1>1. FS!Refuse(c)
  BY DEF FS!Refuse
<1>2. CASE c \in ReadReq
  <2>1. PICK p \in Path, o \in Offset, n \in ReadSize : c = FS!Call("read", p, o, n)
    BY <1>2 DEF ReadReq
  <2> QED BY <1>1, <2>1 DEF FS!Answer
<1>3. CASE c \in WriteReq
  <2>1. PICK p \in Path, o \in Offset, d \in Chunk : c = FS!Call("write", p, o, d)
    BY <1>3 DEF WriteReq
  <2> QED BY <1>1, <2>1 DEF FS!Answer
<1>4. CASE c \in SyncReq
  <2>1. PICK p \in Path : c = FS!Call("fsync", p, 0, <<>>)
    BY <1>4 DEF SyncReq
  <2> QED BY <1>1, <2>1 DEF FS!Answer
<1>5. CASE c \in CreateReq
  <2>1. PICK p \in Path, n \in InitialSize : c = FS!Call("create", p, n, <<>>)
    BY <1>5 DEF CreateReq
  <2> QED BY <1>1, <2>1 DEF FS!Answer
<1> QED BY <1>2, <1>3, <1>4, <1>5

LEMMA CacheOwn ==
    ASSUME Calm, NEW t \in Thread, NEW req, NEW mode, NEW create, NEW next,
           Asked(req, mode, create, next), FdFromCache(t, req, next)
    PROVE  OwnStep
<1> DEFINE p == req[2]
           i == Cached(p)
           e == fd_cache[i]
           c == [step |-> next, req |-> req, fd |-> e.fd, new |-> 0]
<1>1. /\ call[t] = NoThing /\ i # 0 /\ call' = [call EXCEPT ![t] = c] /\ reply' = reply
      /\ UNCHANGED <<dir, inodes, fds, fd_cache>> /\ Use(req)
  BY DEF FdFromCache
<1>2. i \in 1..Len(fd_cache) /\ e.path = p /\ p \in Path
  BY <1>1, CachedFinds, AskedFields DEF Calm, FileInv
<1>4. call'[t] = c /\ \A u \in Thread : u # t => call'[u] = call[u]
  <2>1. call \in [Thread -> Calls]
    BY CallOf DEF Calm
  <2> HIDE DEF c
  <2> QED BY <2>1, <1>1
<1>5. c.req = req /\ c.fd = e.fd /\ c.new = 0 /\ c.step \in {"seek", "fsync"}
  BY AskedFields
<1>6. Alters(t, p)
  BY <1>1, UseCases DEF Alters
<1> HIDE DEF c
<1>7. Moves(t, p)
  BY <1>1, <1>4, <1>5 DEF Moves
<1>8. Only(t, p)
  <2> HIDE DEF p
  <2> QED BY <1>7, MovesOnly
<1>9. ASSUME Mine(t, p) PROVE AnswerStep
  <2>1. dir[p] = fds[e.fd].inode
    BY <1>2, <1>9 DEF Calm, OwnInv, Named, Mine
  <2> HIDE DEF e
  <2>2. Alone(dir', inodes', fds', fd_cache', call'[t])
    BY <1>1, <1>4, <1>5, <2>1 DEF Alone
  <2>3. call[t].new = 0 /\ call'[t].new = 0
    BY <1>1, <1>4, <1>5, NoThingFields
  <2> HIDE DEF p
  <2>4. OwnInv'
    BY <1>7, <1>9, <2>2, MovesOwn
  <2>5. Content' = Content
    BY <1>1, <1>8, <1>9, <2>3, SameContent
  <2> QED BY <1>1, <2>4, <2>5 DEF AnswerStep
<1> HIDE DEF p, e
<1> QED BY <1>1, <1>2, <1>6, <1>8, <1>9, Astray

\* open(2) touches no other file, and names what it opens.
LEMMA OpenOwn ==
    ASSUME Calm, NEW p \in Path, NEW mode \in {"r", "w"}, NEW create, NEW d \in Fd,
           OpenFile(p, mode, create, d)
    PROVE  /\ \A q \in Path : q # p => dir'[q] = dir[q]
           /\ \A i, q : Holds(inodes, i, q) => inodes'[i] = inodes[i]
           /\ \A e, q : Opened(fds, inodes, e, q) => fds'[e] = fds[e]
           /\ fds'[d].inode = dir'[p] /\ fds'[d].mode = mode /\ dir'[p] # 0
           /\ dir[p] # 0 => dir'[p] = dir[p]
           /\ dir[p] = 0 => dir'[p] = Len(inodes) + 1 /\ inodes'[Len(inodes) + 1].data = <<>>
<1>0. /\ fds[d] = Closed /\ fds \in [Fd -> Desc] /\ dir \in [Path -> Nat]
      /\ \A e, q : Opened(fds, inodes, e, q) => e \in Fd /\ e # d
  BY DEF OpenFile, FreeFds, Calm, FileInv, FdsInv, DirInv, Opened
<1>1. ASSUME NEW i, fds' = [fds EXCEPT ![d] = [inode |-> i, mode |-> mode, pos |-> 0]]
      PROVE  /\ fds'[d].inode = i /\ fds'[d].mode = mode
             /\ \A e, q : Opened(fds, inodes, e, q) => fds'[e] = fds[e]
  BY <1>0, <1>1
<1>2. CASE dir[p] # 0
  <2>1. /\ fds' = [fds EXCEPT ![d] = [inode |-> dir[p], mode |-> mode, pos |-> 0]]
        /\ dir' = dir /\ inodes' = inodes
    BY <1>2 DEF OpenFile
  <2> QED BY <1>1, <1>2, <2>1
<1>3. CASE dir[p] = 0
  <2>1. /\ Len(inodes) < MaxInodes
        /\ inodes' = Append(inodes, [path |-> p, data |-> <<>>])
        /\ dir' = [dir EXCEPT ![p] = Len(inodes) + 1]
        /\ fds' = [fds EXCEPT ![d] = [inode |-> Len(inodes) + 1, mode |-> mode, pos |-> 0]]
    BY <1>3 DEF OpenFile
  <2>2. /\ Len(inodes) + 1 \in Nat \ {0} /\ inodes'[Len(inodes) + 1].data = <<>>
        /\ \A i \in 1..Len(inodes) : inodes'[i] = inodes[i]
    BY <2>1, InodeMade DEF Calm
  <2>3. /\ dir'[p] = Len(inodes) + 1 /\ \A q \in Path : q # p => dir'[q] = dir[q]
    BY <2>1, <1>0
  <2>4. /\ fds'[d].inode = Len(inodes) + 1 /\ fds'[d].mode = mode
        /\ \A e, q : Opened(fds, inodes, e, q) => fds'[e] = fds[e]
    BY <2>1, <1>1
  <2>5. \A i, q : Holds(inodes, i, q) => inodes'[i] = inodes[i]
    BY <2>2 DEF Holds
  <2> QED BY <1>3, <2>2, <2>3, <2>4, <2>5
<1> QED BY <1>2, <1>3

LEMMA MissOwn ==
    ASSUME Calm, NEW t \in Thread, NEW req, NEW mode, NEW create, NEW next,
           Asked(req, mode, create, next), FdFromOpen(t, req, mode, create, next)
    PROVE  OwnStep
<1> DEFINE p == req[2]
           new == IF dir[p] = 0 THEN Len(inodes) + 1 ELSE 0
<1>0. p \in Path /\ mode \in {"r", "w"} /\ next \in {"seek", "fsync"}
  BY AskedFields
<1>1. PICK d \in Fd :
        /\ OpenFile(p, mode, create, d)
        /\ fd_cache' = IF HasSlot THEN Append(fd_cache, [path |-> p, fd |-> d]) ELSE fd_cache
        /\ call' = [call EXCEPT ![t] = [step |-> next, req |-> req, fd |-> d, new |-> new]]
  BY DEF FdFromOpen
<1>2. call[t] = NoThing /\ Cached(p) = 0 /\ reply' = reply /\ Use(req)
  BY DEF FdFromOpen
<1>3. /\ \A q \in Path : q # p => dir'[q] = dir[q]
      /\ \A i, q : Holds(inodes, i, q) => inodes'[i] = inodes[i]
      /\ \A e, q : Opened(fds, inodes, e, q) => fds'[e] = fds[e]
      /\ fds'[d].inode = dir'[p] /\ fds'[d].mode = mode /\ dir'[p] # 0
      /\ dir[p] # 0 => dir'[p] = dir[p]
      /\ dir[p] = 0 => dir'[p] = Len(inodes) + 1 /\ inodes'[Len(inodes) + 1].data = <<>>
  <2> HIDE DEF p
  <2> QED BY <1>0, <1>1, OpenOwn
<1>4. dir[p] = 0 => mode = "w"
  <2>1. dir[p] = 0 => create
    BY <1>1 DEF OpenFile
  <2> QED BY <2>1 DEF Asked
<1> DEFINE c == [step |-> next, req |-> req, fd |-> d, new |-> new]
<1>5. call'[t] = c /\ \A u \in Thread : u # t => call'[u] = call[u]
  <2>1. call \in [Thread -> Calls] /\ call' = [call EXCEPT ![t] = c]
    BY <1>1, CallOf DEF Calm
  <2> HIDE DEF c
  <2> QED BY <2>1
<1>6. c.req = req /\ c.fd = d /\ c.new = new /\ c.step = next
  OBVIOUS
<1> HIDE DEF c
<1>7. /\ \A i \in 1..Len(fd_cache) : fd_cache[i].path # p
      /\ fd_cache \in Seq(Entry) /\ Len(fd_cache) \in Nat
  BY <1>2, CachedFinds, LenProperties DEF Calm, FileInv, CacheInv
<1>8. \A i \in 1..Len(fd_cache') :
        \/ i \in 1..Len(fd_cache) /\ fd_cache'[i] = fd_cache[i]
        \/ fd_cache'[i].path = p /\ fd_cache'[i].fd = d
  <2>1. CASE ~HasSlot
    BY <2>1, <1>1
  <2>2. CASE HasSlot
    <3> DEFINE e == [path |-> p, fd |-> d]
    <3>1. e \in Entry /\ e.path = p /\ e.fd = d
      BY <1>0 DEF Entry
    <3>2. fd_cache' = Append(fd_cache, e)
      BY <2>2, <1>1
    <3> HIDE DEF e
    <3>3. /\ Len(fd_cache') = Len(fd_cache) + 1
          /\ \A i \in 1..Len(fd_cache) : fd_cache'[i] = fd_cache[i]
          /\ fd_cache'[Len(fd_cache) + 1] = e
      BY <3>1, <3>2, <1>7, AppendProperties
    <3>4. \A i \in 1..Len(fd_cache') : i \in 1..Len(fd_cache) \/ i = Len(fd_cache) + 1
      BY <3>3, <1>7
    <3> QED BY <3>1, <3>3, <3>4
  <2> QED BY <2>1, <2>2
<1>9. Only(t, p)
  BY <1>2, <1>3, <1>5, <1>6, <1>8 DEF Only
<1>10. \A i \in 1..Len(fd_cache') : fd_cache'[i].path = p => Named(dir', fds', fd_cache'[i])
  BY <1>3, <1>7, <1>8 DEF Named
<1>11. Alone(dir', inodes', fds', fd_cache', c)
  BY <1>0, <1>3, <1>4, <1>6 DEF Alone
<1>12. Alters(t, p)
  BY <1>2, UseCases DEF Alters
<1> HIDE DEF p
<1>13. ASSUME Mine(t, p) PROVE AnswerStep
  <2>1. OwnInv'
    BY <1>5, <1>9, <1>10, <1>11, <1>13, OwnKept
  <2>2. call[t].new = 0 /\ call'[t].new = new
    BY <1>2, <1>5, <1>6, NoThingFields
  <2>3. dir[p] # 0 => inodes'[dir'[p]] = inodes[dir[p]]
    BY <1>0, <1>3 DEF Calm, FileInv, DirInv
  <2>4. Content' = Content
    BY <2>2, <2>3, <1>3, <1>9, <1>13, SameContent
  <2> QED BY <1>2, <2>1, <2>4 DEF AnswerStep
<1> QED BY <1>0, <1>2, <1>9, <1>12, <1>13, Astray

LEMMA StartOwn ==
    ASSUME Calm, NEW t \in Thread, Start(t)
    PROVE  OwnStep
<1>1. PICK req, mode, create, next :
        Asked(req, mode, create, next) /\ GetDescriptor(t, req, mode, create, next)
  BY StartAsks
<1>2. ASSUME FdFails(t, req, create)
      PROVE  OwnStep
  <2> DEFINE p == req[2]
  <2>1. /\ UNCHANGED <<dir, inodes, call>> /\ UNCHANGED <<fds, fd_cache>>
        /\ reply' = FS!Reply(req, "io", <<>>) /\ call[t] = NoThing /\ Use(req)
    BY <1>2 DEF FdFails, ReturnAtOnce
  <2>2. p \in Path /\ Alters(t, p) /\ reply'.call[2] = p
    BY <1>1, <2>1, AskedFields, UseCases, ReplyTo DEF Alters
  <2>3. req \in ReadReq \cup WriteReq \cup SyncReq \cup CreateReq
    BY <1>1 DEF Asked
  <2>4. ASSUME Mine(t, p) PROVE AnswerStep
    <3>1. misused' = misused
      BY <2>4 DEF Mine
    <3>2. OwnInv' /\ Content' = Content
      BY <2>1, <3>1, StillOwn
    <3> QED BY <2>1, <2>3, <3>2, RefusedStep DEF AnswerStep
  <2> HIDE DEF p
  <2>5. Only(t, p)
    BY <2>1, StillOnly
  <2> QED BY <2>2, <2>4, <2>5, Astray
<1> QED BY <1>1, <1>2, CacheOwn, MissOwn DEF GetDescriptor

\* read(2) within the file returns the window.
LEMMA ReadWindow ==
    ASSUME NEW s \in Seq(Nat), NEW o \in Nat, NEW n \in Nat, o + n <= Len(s)
    PROVE  SubSeq(s, o + 1, o + n) = FS!Window(s, o, n)
<1> DEFINE w == SubSeq(s, o + 1, o + n)
<1>0. Len(s) \in Nat /\ \A i \in 1..Len(s) : s[i] \in Nat
  BY LenProperties, ElementOfSeq
<1>1. \A i \in (o + 1)..(o + n) : s[i] \in Nat
  BY <1>0
<1>2. /\ w \in Seq(Nat)
      /\ Len(w) = IF o + 1 <= o + n THEN (o + n) - (o + 1) + 1 ELSE 0
      /\ \A i \in 1..((o + n) - (o + 1) + 1) : w[i] = s[(o + 1) + i - 1]
  BY <1>1, SubSeqProperties
<1> HIDE DEF w
<1>3. Len(w) = n /\ (o + n) - (o + 1) + 1 = n
  BY <1>2
<1>4. \A i \in 1..n : w[i] = s[o + i]
  <2>1. ASSUME NEW i \in 1..n PROVE (o + 1) + i - 1 = o + i
    OBVIOUS
  <2> QED BY <2>1, <1>2, <1>3
<1>5. DOMAIN w = 1..n /\ w \in [1..n -> Nat]
  BY <1>2, <1>3, LenProperties
<1>6. \A i \in 1..n : o + i <= Len(s)
  BY <1>0
<1>7. FS!Window(s, o, n) = [i \in 1..n |-> s[o + i]]
  BY <1>6 DEF FS!Window
<1> QED BY <1>4, <1>5, <1>7 DEF w

LEMMA ReadOwn ==
    ASSUME Calm, NEW t \in Thread, Read(t)
    PROVE  OwnStep
<1> DEFINE d == call[t].fd
           f == fds[d]
           p == call[t].req[2]
           data == inodes[f.inode].data
           o == call[t].req[3]
           n == call[t].req[4]
           got == IF f.pos + n <= Len(data) THEN n
                  ELSE IF f.pos <= Len(data) THEN Len(data) - f.pos ELSE 0
<1>1. /\ call[t].step = "transfer" /\ call[t].req[1] = "read"
      /\ UNCHANGED <<dir, inodes, fd_cache>>
      /\ IF f.mode = "w"
         THEN Return(t, "io", <<>>) /\ UNCHANGED fds
         ELSE /\ fds' = [fds EXCEPT ![d].pos = @ + got]
              /\ IF got = n THEN Transferred(t, n, SubSeq(data, f.pos + 1, f.pos + n))
                            ELSE Return(t, "not_found", <<>>)
  BY DEF Read
<1>2. /\ d \in Fd /\ f \in Desc /\ f.inode \in 1..Len(inodes) /\ call[t].req \in ReadReq
      /\ call[t].new = 0 /\ call[t] # NoThing /\ d # 0 /\ Busy(call[t])
  <2>0. FileInv /\ call[t].step \in {"seek", "transfer"} /\ call[t] # NoThing /\ Busy(call[t])
    BY <1>1, NoThingFields DEF Calm, Busy
  <2>1. /\ d \in Fd /\ f \in Desc /\ f.inode \in 1..Len(inodes)
        /\ call[t].req \in ReadReq \cup WriteReq
        /\ call[t].req \in ReadReq => call[t].new = 0
    BY <2>0, MovingCall
  <2>2. call[t].req \in ReadReq
    BY <1>1, <2>1, ReqFields
  <2>3. d # 0
    BY <2>1 DEF Fd
  <2> QED BY <2>0, <2>1, <2>2, <2>3
<1>3. PICK a \in Path, b \in Offset, m \in ReadSize : call[t].req = FS!Call("read", a, b, m)
  <2>1. call[t].req \in ReadReq
    BY <1>2
  <2> HIDE DEF d, f, p, data, o, n, got
  <2> QED BY <2>1 DEF ReadReq
<1>4. /\ a = p /\ b = o /\ m = n /\ p \in Path /\ o \in Offset /\ n \in ReadSize
      /\ o \in Nat /\ n \in Nat /\ n > 0
  <2>1. a = p /\ b = o /\ m = n
    BY <1>3 DEF FS!Call
  <2>2. \A k \in ReadSize : k \in Nat /\ k > 0
    OBVIOUS
  <2> QED BY <2>1, <2>2
\* How the call ends
<1>5. /\ Ends(t)
      /\ \/ f.mode = "w" /\ reply' = FS!Reply(call[t].req, "io", <<>>)
         \/ /\ f.mode # "w" /\ got = n
            /\ reply' = FS!Reply(call[t].req, "ok", SubSeq(data, f.pos + 1, f.pos + n))
         \/ f.mode # "w" /\ got # n /\ reply' = FS!Reply(call[t].req, "not_found", <<>>)
  <2>1. Shifts(d, f.pos + got)
    BY <1>1 DEF Shifts
  <2> DEFINE bytes == SubSeq(data, f.pos + 1, f.pos + n)
  <2>2. ASSUME NEW ret, Return(t, ret, <<>>)
        PROVE  Ends(t) /\ reply' = FS!Reply(call[t].req, ret, <<>>)
    <3> HIDE DEF got, f, o, n, data, p, bytes
    <3>1. /\ call'[t] = NoThing /\ call'[t].fd = 0 /\ call'[t].new = 0 /\ call'[t].step = "idle"
          /\ \A u \in Thread : u # t => call'[u] = call[u]
          /\ reply' = FS!Reply(call[t].req, ret, <<>>) /\ misused' = misused
      BY <2>2, Returned DEF Calm
    <3> QED BY <1>1, <1>2, <2>1, <3>1 DEF Ends
  <2>3. ASSUME Transferred(t, n, bytes)
        PROVE  Ends(t) /\ reply' = FS!Reply(call[t].req, "ok", bytes)
    <3> HIDE DEF got, f, o, n, data, p, bytes
    <3>1. /\ call'[t].fd = 0 /\ call'[t].new = 0 /\ call'[t].step = "stats"
          /\ call'[t].req = call[t].req
          /\ \A u \in Thread : u # t => call'[u] = call[u]
          /\ reply' = FS!Reply(call[t].req, "ok", bytes) /\ misused' = misused
      BY <2>3, Moved DEF Calm
    <3> QED BY <1>1, <1>2, <2>1, <3>1 DEF Ends
  <2>4. \/ f.mode = "w" /\ Return(t, "io", <<>>)
        \/ f.mode # "w" /\ got = n /\ Transferred(t, n, bytes)
        \/ f.mode # "w" /\ got # n /\ Return(t, "not_found", <<>>)
    BY <1>1
  <2> HIDE DEF got, f, o, n, data, p, bytes
  <2> QED BY <2>2, <2>3, <2>4 DEF bytes
<1>6. ASSUME Mine(t, p) PROVE AnswerStep
  <2>1. dir[p] = f.inode /\ f.pos = o
    BY <1>1, <1>2, <1>6, MineAlone DEF Alone
  <2>2. p \in FS!Files /\ Content[p] = data /\ FS!Bytes(p) = data
    <3>1. dir[p] # 0
      BY <1>2, <2>1
    <3>2. p \in FS!Files /\ Content[p] = inodes[dir[p]].data
      BY <3>1, <1>2, <1>6, OwnFile
    <3> QED BY <3>2, <2>1 DEF FS!Bytes
  <2>3. data \in Seq(Nat) /\ Len(data) \in Nat
    <3>1. inodes[f.inode] \in Inode
      BY <1>2, ElementOfSeq DEF Calm, FileInv, NodesInv
    <3> QED BY <3>1, LenProperties DEF Inode
  <2>4. /\ got = n => o + n <= Len(data)
        /\ got # n => o + n > Len(data)
    <3> HIDE DEF o, n, data
    <3> QED BY <1>4, <2>1, <2>3
  <2>5. OwnInv' /\ Content' = Content
    BY <1>2, <1>5, <1>6, EndsOwn
  <2>6. CASE reply' = FS!Reply(call[t].req, "io", <<>>)
    BY <2>5, <2>6, <1>2, RefusedStep DEF AnswerStep
  <2>7. CASE got = n /\ reply' = FS!Reply(call[t].req, "ok", SubSeq(data, f.pos + 1, f.pos + n))
    <3> DEFINE bytes == SubSeq(data, f.pos + 1, f.pos + n)
    <3>1. bytes = FS!Window(data, o, n)
      <4> HIDE DEF data, o, n
      <4> QED BY <1>4, <2>1, <2>3, <2>4, <2>7, ReadWindow
    <3>2. reply' = FS!Reply(call[t].req, "ok", bytes)
      BY <2>7
    <3>3. o < Len(data)
      <4> HIDE DEF data, o, n, got, bytes
      <4> QED BY <1>4, <2>3, <2>4, <2>7
    <3> HIDE DEF got, f, o, n, data, p, bytes
    <3>4. FS!ReadOK(p, o, n)
      BY <1>3, <1>4, <2>2, <2>5, <3>1, <3>2, <3>3 DEF FS!ReadOK
    <3>5. FS!Answer
      BY <1>4, <3>4 DEF FS!Answer
    <3> QED BY <2>5, <3>5 DEF AnswerStep
  <2>8. CASE got # n /\ reply' = FS!Reply(call[t].req, "not_found", <<>>)
    <3> HIDE DEF got, f, o, n, data, p
    <3>1. FS!ReadNotFound(p, o, n)
      BY <1>3, <1>4, <2>2, <2>4, <2>5, <2>8 DEF FS!ReadNotFound
    <3>2. FS!Answer
      BY <1>4, <3>1 DEF FS!Answer
    <3> QED BY <2>5, <3>2 DEF AnswerStep
  <2> QED BY <1>5, <2>6, <2>7, <2>8
<1>7. Moves(t, p) /\ Alters(t, p) /\ reply'.call[2] = p
  BY <1>5, EndsMoves, ReplyTo
<1> HIDE DEF p
<1> QED BY <1>4, <1>6, <1>7, MovesOnly, Astray

\* Calls that end with their file as it was
LEMMA FailsOwn ==
    ASSUME Calm, NEW t \in Thread, ReadFails(t) \/ WriteBadFd(t) \/ Fsync(t)
    PROVE  OwnStep
<1> DEFINE d == call[t].fd
           p == call[t].req[2]
<1>1. /\ call[t].step \in {"transfer", "fsync"} /\ call[t] # NoThing /\ Busy(call[t])
      /\ UNCHANGED <<dir, inodes, fds, fd_cache>>
  BY NoThingFields DEF ReadFails, WriteBadFd, Fsync, Busy
<1>2. PICK ret : Return(t, ret, <<>>) /\ (ret = "io" \/ (Fsync(t) /\ ret = "ok"))
  BY DEF ReadFails, WriteBadFd, Fsync
<1>3. CallInHand(fds, inodes, call[t])
  BY CallOf DEF Calm
<1>4. d # 0 /\ call[t].req \in ReadReq \cup WriteReq \cup SyncReq
  BY <1>1, <1>3 DEF CallInHand, CallSound
<1>5. /\ call'[t] = NoThing /\ call'[t].fd = 0 /\ call'[t].new = 0 /\ call'[t].step = "idle"
      /\ \A u \in Thread : u # t => call'[u] = call[u]
      /\ reply' = FS!Reply(call[t].req, ret, <<>>) /\ misused' = misused
  BY <1>2, Returned DEF Calm
<1>6. Ends(t)
  <2>1. Shifts(call[t].fd, 0)
    BY <1>1 DEF Shifts
  <2> QED BY <2>1, <1>1, <1>4, <1>5 DEF Ends
<1>7. Moves(t, p) /\ Alters(t, p) /\ p \in Path /\ reply'.call[2] = p
  BY <1>5, <1>6, EndsMoves, ReplyTo
<1>8. ASSUME Mine(t, p) PROVE AnswerStep
  <2>1. Alone(dir, inodes, fds, fd_cache, call[t])
    BY <1>1, <1>8, MineAlone
  <2>2. call[t].new = 0
    <3>1. CASE WriteBadFd(t)
      BY <2>1, <3>1, <1>4 DEF WriteBadFd, Alone
    <3>2. CASE ReadFails(t)
      <4>1. call[t].req \notin WriteReq /\ call[t].step = "transfer"
        BY <3>2, ReqFields DEF ReadFails
      <4> QED BY <4>1, <1>1, <1>3 DEF CallInHand, CallSound
    <3>3. CASE Fsync(t)
      BY <3>3, <1>1, <1>3 DEF Fsync, CallInHand, CallSound
    <3> QED BY <3>1, <3>2, <3>3
  <2>3. OwnInv' /\ Content' = Content
    BY <1>6, <1>8, <2>2, EndsOwn
  <2>4. CASE ret = "io"
    BY <1>4, <1>5, <2>3, <2>4, RefusedStep DEF AnswerStep
  <2>5. CASE Fsync(t) /\ ret = "ok"
    <3>1. call[t].req \in SyncReq
      BY <1>1, <1>3, <2>5 DEF Fsync, CallInHand, CallSound
    <3>2. PICK q \in Path : call[t].req = FS!Call("fsync", q, 0, <<>>)
      BY <3>1 DEF SyncReq
    <3>3. FS!SyncDone(q)
      BY <3>2, <1>5, <2>3, <2>5 DEF FS!SyncDone
    <3>4. FS!Answer
      BY <3>3 DEF FS!Answer
    <3> QED BY <2>3, <3>4 DEF AnswerStep
  <2> QED BY <1>2, <2>4, <2>5
<1> HIDE DEF p
<1> QED BY <1>7, <1>8, MovesOnly, Astray

LEMMA CountOwn ==
    ASSUME Calm, NEW t \in Thread, UpdateStats(t)
    PROVE  OwnStep
<1>1. /\ call[t].step = "stats" /\ call[t] # NoThing /\ call' = [call EXCEPT ![t] = NoThing]
      /\ UNCHANGED <<dir, inodes, fds, fd_cache>> /\ reply' = reply /\ misused' = misused
  BY NoThingFields DEF UpdateStats, usage
<1>2. call[t].new = 0
  BY <1>1, CallOf DEF Calm, CallInHand, CallSound
<1>3. call'[t] = NoThing /\ call'[t].new = 0 /\ \A u \in Thread : u # t => call'[u] = call[u]
  BY <1>1, CallOf, NoThingFields DEF Calm
<1>4. ASSUME NEW u \in Thread, Busy(call'[u]) PROVE call'[u] = call[u] /\ Busy(call[u])
  <2>1. u # t
    BY <1>3, <1>4, NoThingFields DEF Busy
  <2> QED BY <2>1, <1>3, <1>4
<1>5. OwnInv'
  BY <1>1, <1>4 DEF Calm, OwnInv
<1>6. \A u \in Thread : call'[u].new = call[u].new
  BY <1>2, <1>3
<1>7. Content' = Content
  BY <1>1, <1>6, ContentIs DEF View
<1> QED BY <1>1, <1>5, <1>7 DEF OwnStep

LEMMA WriteOwn ==
    ASSUME Calm, NEW t \in Thread, Write(t)
    PROVE  OwnStep
<1> DEFINE d == call[t].fd
           i == fds[d].inode
           pos == fds[d].pos
           p == call[t].req[2]
           o == call[t].req[3]
           data == call[t].req[4]
           req == call[t].req
<1>1. /\ call[t].step = "transfer" /\ call[t].req[1] = "write" /\ UNCHANGED <<dir, fd_cache>>
  BY DEF Write
<1>2. /\ Opened(fds, inodes, d, p) /\ d \in Fd /\ d # 0 /\ fds[d] \in Desc /\ i \in 1..Len(inodes)
      /\ call[t].req \in WriteReq /\ call[t] # NoThing /\ Busy(call[t])
  <2>0. FileInv /\ call[t].step \in {"seek", "transfer"} /\ call[t] # NoThing /\ Busy(call[t])
    BY <1>1, NoThingFields DEF Calm, Busy
  <2>1. /\ Opened(fds, inodes, d, p) /\ d \in Fd /\ fds[d] \in Desc /\ i \in 1..Len(inodes)
        /\ call[t].req \in ReadReq \cup WriteReq
    BY <2>0, MovingCall
  <2>2. call[t].req \in WriteReq
    BY <1>1, <2>1, ReqFields
  <2>3. d # 0
    BY <2>1 DEF Fd
  <2> QED BY <2>0, <2>1, <2>2, <2>3
<1>3. PICK a \in Path, b \in Offset, m \in Chunk : call[t].req = FS!Call("write", a, b, m)
  BY <1>2 DEF WriteReq
<1>4. a = p /\ b = o /\ m = data
  BY <1>3 DEF FS!Call
<1>5. data \in Seq(Nat) /\ Len(data) \in Nat /\ Len(data) # 0 /\ SubSeq(data, 1, Len(data)) = data
  <2>1. data \in Seq(Nat) /\ data # <<>>
    BY <1>2, ReqFields
  <2> HIDE DEF data
  <2>2. Len(data) # 0
    BY <2>1, EmptySeq
  <2> QED BY <2>1, <2>2, SubSeqFull, LenProperties
<1>6. PICK k \in 0..Len(data) :
        /\ inodes' = IF k = 0 THEN inodes
                     ELSE [inodes EXCEPT ![i].data = FS!Patch(@, pos, SubSeq(data, 1, k))]
        /\ fds' = [fds EXCEPT ![d].pos = @ + k]
        /\ IF k = Len(data) THEN Transferred(t, k, <<>>) ELSE Return(t, "io", <<>>)
  <2> DEFINE P(k) == /\ inodes' = IF k = 0 THEN inodes
                                  ELSE [inodes EXCEPT ![i].data = FS!Patch(@, pos, SubSeq(data, 1, k))]
                     /\ fds' = [fds EXCEPT ![d].pos = @ + k]
                     /\ IF k = Len(data) THEN Transferred(t, k, <<>>) ELSE Return(t, "io", <<>>)
  <2>1. \E k \in IF Failures THEN 0..Len(data) ELSE {Len(data)} : P(k)
    BY DEF Write
  <2>2. Len(data) \in 0..Len(data)
    BY <1>5
  <2> HIDE DEF P
  <2>3. \E k \in 0..Len(data) : P(k)
    BY <2>1, <2>2
  <2> QED BY <2>3 DEF P
<1> DEFINE s == IF k = 0 THEN inodes[i].data
                ELSE FS!Patch(inodes[i].data, pos, SubSeq(data, 1, k))
\* What the file holds afterwards
<1>7. inodes'[i].data = s /\ \A j \in 1..Len(inodes) : j # i => inodes'[j] = inodes[j]
  <2>1. CASE k = 0
    BY <1>6, <2>1
  <2>2. CASE k # 0
    <3> DEFINE sub == SubSeq(data, 1, k)
               w == FS!Patch(inodes[i].data, pos, sub)
    <3>1. inodes[i] \in Inode
      BY <1>2, ElementOfSeq DEF Calm, FileInv, NodesInv
    <3>2. inodes[i].data \in Seq(Nat) /\ pos \in Nat
      BY <3>1, <1>2 DEF Inode, Desc
    <3>3. sub \in Seq(Nat)
      <4>0. k \in Nat /\ k <= Len(data) /\ data \in Seq(Nat) /\ Len(data) \in Nat
        <5> HIDE DEF data
        <5> QED BY <1>5
      <4> HIDE DEF data
      <4>1. \A j \in 1..k : j \in 1..Len(data)
        BY <4>0
      <4>2. \A j \in 1..k : data[j] \in Nat
        BY <4>0, <4>1, ElementOfSeq
      <4> QED BY <4>0, <4>2, SubSeqProperties
    <3>4. w \in Seq(Nat)
      <4> HIDE DEF sub, pos, i
      <4> QED BY <3>2, <3>3, PatchSeq
    <3>5. inodes' = [inodes EXCEPT ![i].data = w] /\ s = w
      BY <1>6, <2>2
    <3> HIDE DEF w, s, i
    <3> QED BY <1>2, <3>4, <3>5, NodeWritten DEF Calm
  <2> QED BY <2>1, <2>2
\* How the call ends
<1>8. /\ call'[t].fd = 0 /\ call'[t].new = 0 /\ call'[t].step \in {"idle", "stats"}
      /\ call'[t] = NoThing \/ call'[t].req = req
      /\ \A u \in Thread : u # t => call'[u] = call[u]
      /\ misused' = misused
      /\ \/ k = Len(data) /\ reply' = FS!Reply(req, "ok", <<>>)
         \/ k # Len(data) /\ reply' = FS!Reply(req, "io", <<>>)
  <2> HIDE DEF data
  <2>1. CASE k = Len(data)
    <3>1. Transferred(t, k, <<>>)
      BY <1>6, <2>1
    <3> QED BY <2>1, <3>1, Moved DEF Calm
  <2>2. CASE k # Len(data)
    <3>1. Return(t, "io", <<>>)
      BY <1>6, <2>2
    <3> QED BY <2>2, <3>1, Returned DEF Calm
  <2> QED BY <2>1, <2>2
<1>9. Shifts(d, pos + k)
  BY <1>6 DEF Shifts
<1>10. /\ \A e, q : Opened(fds, inodes, e, q) => fds'[e].inode = fds[e].inode
       /\ \A e, q : Opened(fds, inodes, e, q) /\ q # p => fds'[e] = fds[e]
  <2> HIDE DEF d, p, pos, data
  <2> QED BY <1>2, <1>9, PositionMoved DEF Calm
<1> HIDE DEF s
<1>11. \A j, q : Holds(inodes, j, q) /\ q # p => inodes'[j] = inodes[j]
  <2>1. Holds(inodes, i, p)
    BY <1>2 DEF Opened
  <2> HIDE DEF i, p
  <2> QED BY <2>1, <1>7 DEF Holds
<1>12. Moves(t, p)
  BY <1>1, <1>8, <1>10, <1>11 DEF Moves
<1>13. Alters(t, p) /\ reply'.call[2] = p
  BY <1>2, <1>8, ReplyTo DEF Alters
<1>14. ASSUME Mine(t, p) PROVE AnswerStep
  <2>0. Alone(dir, inodes, fds, fd_cache, call[t])
    BY <1>2, <1>14, MineAlone
  <2>1. dir[p] = i /\ pos = o /\ (call[t].new # 0 => call[t].new = i /\ inodes[i].data = <<>>)
    BY <1>1, <1>2, <2>0 DEF Alone
  <2>2. Alone(dir', inodes', fds', fd_cache', call'[t])
    BY <1>8 DEF Alone
  <2> HIDE DEF p, d, i, o, data, pos
  <2>3. OwnInv' /\ Only(t, p)
    BY <1>12, <1>14, <2>2, MovesOwn, MovesOnly
  <2>4. i # 0 /\ dir'[p] = i
    BY <1>1, <1>2, <2>1
  <2>5. FS!SetFile(p, s)
    BY <1>7, <1>8, <1>14, <2>3, <2>4, SetContent
  <2>6. FS!Bytes(p) = inodes[i].data
    BY <1>14, <2>1, <2>4, OwnFile DEF FS!Bytes
  <2>7. CASE k = Len(data) /\ reply' = FS!Reply(req, "ok", <<>>)
    <3>1. s = FS!Patch(FS!Bytes(p), o, data)
      BY <1>5, <2>1, <2>6, <2>7 DEF s
    <3>2. FS!WriteOK(p, o, data)
      BY <1>3, <1>4, <2>5, <2>7, <3>1 DEF FS!WriteOK
    <3>3. FS!Answer
      BY <1>4, <3>2 DEF FS!Answer
    <3> QED BY <2>3, <3>3 DEF AnswerStep
  <2>8. CASE k # Len(data) /\ reply' = FS!Reply(req, "io", <<>>)
    <3>1. k \in 0..(Len(data) - 1)
      BY <1>5, <1>6, <2>8
    <3>2. s = IF k = 0 THEN FS!Bytes(p) ELSE FS!Patch(FS!Bytes(p), o, SubSeq(data, 1, k))
      BY <2>1, <2>6 DEF s
    <3>3. FS!TornWrite(p, o, data)
      BY <1>3, <1>4, <2>5, <2>8, <3>1, <3>2 DEF FS!TornWrite
    <3>4. FS!Answer
      BY <1>4, <3>3 DEF FS!Answer
    <3> QED BY <2>3, <3>4 DEF AnswerStep
  <2> QED BY <1>8, <2>7, <2>8
<1>15. p \in Path
  BY <1>4
<1> HIDE DEF p
<1> QED BY <1>12, <1>13, <1>14, <1>15, MovesOnly, Astray

LEMMA CreateOwn ==
    ASSUME Calm, NEW t \in Thread, NEW p \in Path, NEW n \in InitialSize, CreateOpen(t, p, n)
    PROVE  OwnStep
<1> DEFINE i == Len(inodes) + 1
           r == FS!Call("create", p, n, <<>>)
           c == [step |-> "truncate", req |-> r, fd |-> 0, new |-> i]
<1>1. /\ call[t] = NoThing /\ dir[p] = 0 /\ Len(inodes) < MaxInodes
      /\ inodes' = Append(inodes, [path |-> p, data |-> <<>>])
      /\ dir' = [dir EXCEPT ![p] = i] /\ call' = [call EXCEPT ![t] = c]
      /\ fds' = fds /\ fd_cache' = fd_cache /\ reply' = reply /\ Use(r)
  BY DEF CreateOpen
<1>2. /\ i \in Nat \ {0} /\ inodes'[i].data = <<>>
      /\ \A j \in 1..Len(inodes) : inodes'[j] = inodes[j]
  BY <1>1, InodeMade DEF Calm
<1>3. dir'[p] = i /\ \A q \in Path : q # p => dir'[q] = dir[q]
  <2>1. dir \in [Path -> Nat]
    BY DEF Calm, FileInv, DirInv
  <2> HIDE DEF i
  <2> QED BY <2>1, <1>1
<1>4. c.step = "truncate" /\ c.req = r /\ r[2] = p /\ c.fd = 0 /\ c.new = i
  BY DEF FS!Call
<1> HIDE DEF c, r
<1>5. call'[t] = c /\ \A u \in Thread : u # t => call'[u] = call[u]
  <2>1. call \in [Thread -> Calls]
    BY CallOf DEF Calm
  <2> QED BY <2>1, <1>1
<1> HIDE DEF i
<1>6. Only(t, p)
  <2>1. \A j, q : Holds(inodes, j, q) => inodes'[j] = inodes[j]
    BY <1>2 DEF Holds
  <2> QED BY <2>1, <1>1, <1>3, <1>4, <1>5 DEF Only
<1>7. Alters(t, p)
  BY <1>1, <1>4, UseCases DEF Alters
<1>8. ASSUME Mine(t, p) PROVE AnswerStep
  <2>1. ASSUME NEW j \in 1..Len(fd_cache), fd_cache[j].path = p PROVE FALSE
    <3>1. Named(dir, fds, fd_cache[j]) /\ Opened(fds, inodes, fd_cache[j].fd, p)
      BY <1>8, <2>1 DEF Calm, OwnInv, FileInv, CacheInv, Mine
    <3>2. fds[fd_cache[j].fd].inode \in 1..Len(inodes) /\ fds[fd_cache[j].fd].inode = 0
      BY <2>1, <3>1, <1>1 DEF Named, Opened, Holds
    <3>3. Len(inodes) \in Nat
      BY LenProperties DEF Calm, FileInv, NodesInv
    <3> QED BY <3>2, <3>3
  <2>2. \A j \in 1..Len(fd_cache') : fd_cache'[j].path = p => Named(dir', fds', fd_cache'[j])
    BY <1>1, <2>1
  <2>3. Alone(dir', inodes', fds', fd_cache', call'[t])
    <3>1. dir'[c.req[2]] = c.new /\ inodes'[c.new].data = <<>>
      BY <1>2, <1>3, <1>4
    <3>2. \A j \in 1..Len(fd_cache') : fd_cache'[j].path # c.req[2]
      BY <1>1, <1>4, <2>1
    <3> QED BY <3>1, <3>2, <1>4, <1>5 DEF Alone
  <2>4. OwnInv'
    BY <1>6, <1>8, <2>2, <2>3, OwnKept
  <2>5. Content' = Content
    <3>1. call'[t].new = dir'[p] /\ dir[p] = 0
      BY <1>1, <1>3, <1>4, <1>5
    <3> QED BY <3>1, <1>6, <1>8, SameContent
  <2> QED BY <1>1, <2>4, <2>5 DEF AnswerStep
<1> QED BY <1>1, <1>6, <1>7, <1>8, Astray

\* The call of t that has created its file and is about to size it
LEMMA Creating ==
    ASSUME Calm, NEW t \in Thread, call[t].step = "truncate", Mine(t, call[t].req[2])
    PROVE  /\ dir[call[t].req[2]] = call[t].new /\ inodes[call[t].new].data = <<>>
           /\ \A j \in 1..Len(fd_cache) : fd_cache[j].path # call[t].req[2]
<1>1. Alone(dir, inodes, fds, fd_cache, call[t])
  BY MineAlone DEF Busy
<1>2. call[t].new # 0
  BY CreatingCall DEF Calm
<1> QED BY <1>1, <1>2 DEF Alone

LEMMA TruncateOwn ==
    ASSUME Calm, NEW t \in Thread, CreateTruncate(t)
    PROVE  OwnStep
<1> DEFINE i == call[t].new
           p == call[t].req[2]
           n == call[t].req[3]
           s == IF n = 0 THEN inodes[i].data ELSE FS!Window(inodes[i].data, 0, n)
           req == call[t].req
<1>1. /\ call[t].step = "truncate" /\ Return(t, "ok", <<>>)
      /\ inodes' = IF n = 0 THEN inodes
                   ELSE [inodes EXCEPT ![i].data = FS!Window(inodes[i].data, 0, n)]
      /\ UNCHANGED <<dir, fds, fd_cache>>
  BY DEF CreateTruncate
<1>2. /\ call[t] # NoThing /\ Busy(call[t]) /\ req \in CreateReq /\ i # 0 /\ n \in Nat
      /\ i \in 1..Len(inodes) /\ Holds(inodes, i, p)
  BY <1>1, CreatingCall, NoThingFields DEF Calm, Busy, Holds
<1>3. /\ call'[t] = NoThing /\ call'[t].fd = 0 /\ call'[t].new = 0
      /\ \A u \in Thread : u # t => call'[u] = call[u]
      /\ reply' = FS!Reply(req, "ok", <<>>) /\ misused' = misused
  BY <1>1, Returned DEF Calm
<1>4. PICK a \in Path, m \in InitialSize : req = FS!Call("create", a, m, <<>>)
  BY <1>2 DEF CreateReq
<1>5. a = p /\ m = n
  BY <1>4 DEF FS!Call
<1>6. Alters(t, p) /\ reply'.call[2] = p
  BY <1>2, <1>3, ReplyTo DEF Alters
<1> HIDE DEF req
<1>7. /\ inodes'[i].data = s
      /\ \A j \in 1..Len(inodes) : j # i => inodes'[j] = inodes[j]
  <2> HIDE DEF i, p, n
  <2>1. CASE n = 0
    BY <2>1, <1>1
  <2>2. CASE n # 0
    <3>1. inodes[i] \in Inode
      BY <1>2, ElementOfSeq DEF Calm, FileInv, NodesInv
    <3>2. s \in Seq(Nat)
      BY <2>2, <3>1, <1>2, WindowSeq DEF Inode
    <3>3. inodes' = [inodes EXCEPT ![i].data = s]
      BY <2>2, <1>1
    <3> HIDE DEF s
    <3> QED BY <3>2, <3>3, <1>2, NodeWritten DEF Calm
  <2> QED BY <2>1, <2>2
<1> HIDE DEF s
<1>8. \A j, q : Holds(inodes, j, q) /\ q # p => inodes'[j] = inodes[j]
  <2> HIDE DEF i, p, n
  <2> QED BY <1>2, <1>7 DEF Holds
<1>9. Moves(t, p)
  BY <1>1, <1>3, <1>8 DEF Moves
<1>10. ASSUME Mine(t, p) PROVE AnswerStep
  <2>1. dir[p] = i /\ inodes[i].data = <<>>
    BY <1>1, <1>10, Creating
  <2> HIDE DEF i, p, n
  <2>2. s = FS!Zeros(n)
    <3>1. \A j \in 1..n : ~(0 + j <= Len(<<>>))
      BY <1>2
    <3>2. FS!Window(<<>>, 0, n) = FS!Zeros(n)
      BY <3>1 DEF FS!Window, FS!Zeros
    <3>3. n = 0 => FS!Zeros(n) = <<>>
      BY DEF FS!Zeros
    <3> QED BY <2>1, <3>2, <3>3 DEF s
  <2>3. OwnInv' /\ Only(t, p)
    BY <1>3, <1>9, <1>10, MovesOwn, MovesOnly
  <2>4. FS!SetFile(p, s)
    BY <1>1, <1>2, <1>3, <1>7, <1>10, <2>1, <2>3, SetContent
  <2>5. p \notin FS!Files
    BY <2>1, <1>10, OwnFile DEF i
  <2>6. FS!CreateOK(p, n)
    BY <1>3, <1>4, <1>5, <2>2, <2>4, <2>5 DEF FS!CreateOK
  <2>7. FS!Answer
    BY <1>4, <1>5, <2>6 DEF FS!Answer
  <2> QED BY <2>3, <2>7 DEF AnswerStep
<1>11. p \in Path
  BY <1>5
<1> HIDE DEF p
<1> QED BY <1>6, <1>9, <1>10, <1>11, MovesOnly, Astray

\* A name is taken away.
Drops(t, p) ==
    /\ dir' = [dir EXCEPT ![p] = 0] /\ UNCHANGED <<inodes, fds, fd_cache>>
    /\ \A u \in Thread : u # t => call'[u] = call[u]
    /\ call[t] # NoThing => call[t].req[2] = p
    /\ call'[t] = NoThing

LEMMA DropOnly ==
    ASSUME Calm, NEW t \in Thread, NEW p \in Path, Drops(t, p)
    PROVE  Only(t, p) /\ dir'[p] = 0
<1>1. dir'[p] = 0 /\ \A q \in Path : q # p => dir'[q] = dir[q]
  <2>1. dir \in [Path -> Nat]
    BY DEF Calm, FileInv, DirInv
  <2> QED BY <2>1 DEF Drops
<1>2. Only(t, p)
  BY <1>1 DEF Only, Drops
<1> QED BY <1>1, <1>2

LEMMA DropOwn ==
    ASSUME Calm, NEW t \in Thread, NEW p \in Path, Drops(t, p), Mine(t, p),
           \A i \in 1..Len(fd_cache) : fd_cache[i].path # p
    PROVE  OwnInv'
<1>1. \A i \in 1..Len(fd_cache') : fd_cache'[i].path = p => Named(dir', fds', fd_cache'[i])
  BY DEF Drops
<1>2. call'[t] = NoThing
  BY DEF Drops
<1> QED BY <1>1, <1>2, DropOnly, OwnKept

LEMMA UndoOwn ==
    ASSUME Calm, NEW t \in Thread, CreateUndo(t)
    PROVE  OwnStep
<1> DEFINE p == call[t].req[2]
           req == call[t].req
<1>1. /\ call[t].step = "truncate" /\ Return(t, "io", <<>>) /\ dir' = [dir EXCEPT ![p] = 0]
      /\ UNCHANGED <<inodes, fds, fd_cache>>
  BY DEF CreateUndo
<1>2. p \in Path /\ req \in CreateReq /\ Busy(call[t])
  BY <1>1, CreatingCall DEF Calm, Busy
<1>3. /\ call'[t] = NoThing /\ \A u \in Thread : u # t => call'[u] = call[u]
      /\ reply' = FS!Reply(req, "io", <<>>) /\ misused' = misused
  BY <1>1, Returned DEF Calm
<1>4. Alters(t, p) /\ reply'.call[2] = p
  BY <1>2, <1>3, ReplyTo DEF Alters
<1>5. Drops(t, p)
  BY <1>1, <1>3 DEF Drops
<1>6. Only(t, p) /\ dir'[p] = 0
  <2> HIDE DEF p
  <2> QED BY <1>2, <1>5, DropOnly
<1>7. ASSUME Mine(t, p) PROVE AnswerStep
  <2>1. dir[p] = call[t].new /\ \A j \in 1..Len(fd_cache) : fd_cache[j].path # p
    BY <1>1, <1>7, Creating
  <2> HIDE DEF req, p
  <2>2. OwnInv'
    BY <1>2, <1>5, <1>7, <2>1, DropOwn
  <2>3. Content' = Content
    BY <1>6, <1>7, <2>1, SameContent
  <2> QED BY <1>2, <1>3, <2>2, <2>3, RefusedStep DEF AnswerStep
<1> HIDE DEF p
<1> QED BY <1>2, <1>4, <1>6, <1>7, Astray

\* A call of one step: t is in no other.
LEMMA IdleFile ==
    ASSUME Calm, NEW t \in Thread, NEW p, Mine(t, p), call[t] = NoThing
    PROVE  /\ p \in FS!Files <=> dir[p] # 0
           /\ p \in FS!Files => Content[p] = inodes[dir[p]].data
<1>1. call[t].new = 0
  BY NoThingFields
<1> QED BY <1>1, OwnFile

LEMMA RefuseOwn ==
    ASSUME Calm, NEW t \in Thread, NEW p \in Path, NEW n \in InitialSize, CreateRefused(t, p, n)
    PROVE  OwnStep
<1> DEFINE r == FS!Call("create", p, n, <<>>)
<1>1. /\ call[t] = NoThing /\ UNCHANGED <<dir, inodes, call>> /\ UNCHANGED <<fds, fd_cache>>
      /\ Use(r)
      /\ \/ dir[p] # 0 /\ reply' = FS!Reply(r, "exists", <<>>)
         \/ reply' = FS!Reply(r, "io", <<>>)
  BY DEF CreateRefused, ReturnAtOnce
<1>2. r \in CreateReq /\ r[2] = p
  BY DEF CreateReq, FS!Call
<1>3. Alters(t, p) /\ reply'.call[2] = p
  <2> HIDE DEF r
  <2> QED BY <1>1, <1>2, UseCases, ReplyTo DEF Alters
<1>4. Only(t, p)
  BY <1>1, StillOnly
<1>5. ASSUME Mine(t, p) PROVE AnswerStep
  <2>1. OwnInv' /\ Content' = Content
    BY <1>1, <1>5, StillOwn DEF Mine
  <2>2. CASE dir[p] # 0 /\ reply' = FS!Reply(r, "exists", <<>>)
    <3>1. p \in FS!Files
      BY <1>1, <1>5, <2>2, IdleFile
    <3>2. FS!CreateExists(p, n)
      BY <2>1, <2>2, <3>1 DEF FS!CreateExists
    <3>3. FS!Answer
      BY <3>2 DEF FS!Answer
    <3> QED BY <2>1, <3>3 DEF AnswerStep
  <2>3. CASE reply' = FS!Reply(r, "io", <<>>)
    <3> HIDE DEF r
    <3> QED BY <1>2, <2>1, <2>3, RefusedStep DEF AnswerStep
  <2> QED BY <1>1, <2>2, <2>3
<1> QED BY <1>3, <1>4, <1>5, Astray

\* The answers to delete_file and get_file_info that change nothing
LEMMA AnsweredStep ==
    ASSUME NEW op \in {"delete", "info"}, NEW p \in Path, Content' = Content,
           \/ p \notin FS!Files /\ reply' = FS!Reply(FS!Call(op, p, 0, <<>>), "not_found", <<>>)
           \/ reply' = FS!Reply(FS!Call(op, p, 0, <<>>), "io", <<>>)
    PROVE  FS!Answer
<1>1. FS!Absent(op, p) \/ FS!Refuse(FS!Call(op, p, 0, <<>>))
  BY DEF FS!Absent, FS!Refuse
<1> QED BY <1>1 DEF FS!Answer

LEMMA DeleteOwn ==
    ASSUME Calm, NEW t \in Thread, NEW p \in Path, DeleteFile(t, p)
    PROVE  OwnStep
<1> DEFINE r == FS!Call("delete", p, 0, <<>>)
<1>1. /\ call[t] = NoThing /\ UNCHANGED <<inodes, fds, fd_cache>> /\ call' = call /\ Use(r)
      /\ \/ /\ dir[p] # 0 /\ dir' = [dir EXCEPT ![p] = 0] /\ reply' = FS!Reply(r, "ok", <<>>)
         \/ /\ dir' = dir
            /\ \/ dir[p] = 0 /\ reply' = FS!Reply(r, "not_found", <<>>)
               \/ reply' = FS!Reply(r, "io", <<>>)
  BY DEF DeleteFile, ReturnAtOnce
<1>2. r[1] = "delete" /\ r[2] = p
  BY DEF FS!Call
<1>3. Alters(t, p) /\ reply'.call[2] = p
  <2> HIDE DEF r
  <2> QED BY <1>1, <1>2, UseCases, ReplyTo DEF Alters
<1>4. CASE dir[p] # 0 /\ dir' = [dir EXCEPT ![p] = 0] /\ reply' = FS!Reply(r, "ok", <<>>)
  <2>1. Drops(t, p)
    BY <1>1, <1>4 DEF Drops
  <2>2. Only(t, p) /\ dir'[p] = 0
    BY <2>1, DropOnly
  <2>3. ASSUME Mine(t, p) PROVE AnswerStep
    <3>1. Cached(p) = 0
      <4> HIDE DEF r
      <4> QED BY <1>1, <1>2, <2>3, UseCases DEF Mine
    <3>2. \A i \in 1..Len(fd_cache) : fd_cache[i].path # p
      BY <3>1, CachedFinds DEF Calm, FileInv
    <3>3. OwnInv'
      BY <2>1, <2>3, <3>2, DropOwn
    <3>4. Content' = [q \in FS!Files \ {p} |-> Content[q]]
      BY <2>2, <2>3, DropContent
    <3>5. FS!DeleteOK(p)
      BY <3>4, <1>1, <1>4, <2>3, IdleFile DEF FS!DeleteOK
    <3>6. FS!Answer
      BY <3>5 DEF FS!Answer
    <3> QED BY <3>3, <3>6 DEF AnswerStep
  <2> QED BY <1>3, <2>2, <2>3, Astray
<1>5. CASE /\ dir' = dir
           /\ \/ dir[p] = 0 /\ reply' = FS!Reply(r, "not_found", <<>>)
              \/ reply' = FS!Reply(r, "io", <<>>)
  <2>1. Only(t, p)
    BY <1>1, <1>5, StillOnly
  <2>2. ASSUME Mine(t, p) PROVE AnswerStep
    <3>1. OwnInv' /\ Content' = Content
      BY <1>1, <1>5, <2>2, StillOwn DEF Mine
    <3>2. FS!Answer
      BY <1>1, <1>5, <2>2, <3>1, IdleFile, AnsweredStep
    <3> QED BY <3>1, <3>2 DEF AnswerStep
  <2> QED BY <1>3, <2>1, <2>2, Astray
<1> QED BY <1>1, <1>4, <1>5

LEMMA InfoOwn ==
    ASSUME Calm, NEW t \in Thread, NEW p \in Path, GetFileInfo(t, p)
    PROVE  OwnStep
<1> DEFINE r == FS!Call("info", p, 0, <<>>)
<1>1. /\ call[t] = NoThing /\ UNCHANGED <<dir, inodes, call>> /\ UNCHANGED <<fds, fd_cache>>
      /\ Use(r)
      /\ \/ dir[p] = 0 /\ reply' = FS!Reply(r, "not_found", <<>>)
         \/ dir[p] # 0 /\ reply' = FS!Reply(r, "ok", <<Len(inodes[dir[p]].data)>>)
         \/ reply' = FS!Reply(r, "io", <<>>)
  BY DEF GetFileInfo, ReturnAtOnce
<1>2. r[2] = p
  BY DEF FS!Call
<1>3. Alters(t, p) /\ reply'.call[2] = p
  <2> HIDE DEF r
  <2> QED BY <1>1, <1>2, UseCases, ReplyTo DEF Alters
<1>4. Only(t, p)
  BY <1>1, StillOnly
<1>5. ASSUME Mine(t, p) PROVE AnswerStep
  <2>1. OwnInv' /\ Content' = Content
    BY <1>1, <1>5, StillOwn DEF Mine
  <2>2. /\ p \in FS!Files <=> dir[p] # 0
        /\ p \in FS!Files => Content[p] = inodes[dir[p]].data
    BY <1>1, <1>5, IdleFile
  <2>3. CASE dir[p] # 0 /\ reply' = FS!Reply(r, "ok", <<Len(inodes[dir[p]].data)>>)
    <3>1. FS!InfoOK(p)
      BY <2>1, <2>2, <2>3 DEF FS!InfoOK
    <3>2. FS!Answer
      BY <3>1 DEF FS!Answer
    <3> QED BY <3>2, <2>1 DEF AnswerStep
  <2>4. CASE \/ dir[p] = 0 /\ reply' = FS!Reply(r, "not_found", <<>>)
             \/ reply' = FS!Reply(r, "io", <<>>)
    <3>1. FS!Answer
      BY <2>1, <2>2, <2>4, AnsweredStep
    <3> QED BY <3>1, <2>1 DEF AnswerStep
  <2> QED BY <1>1, <2>3, <2>4
<1> QED BY <1>3, <1>4, <1>5, Astray

LEMMA StepOwn ==
    ASSUME FileInv, OwnInv, Next
    PROVE  OwnStep
<1>0. Calm
  BY StepBase DEF Calm, BaseStep
<1>1. ASSUME NEW t \in Thread, ThreadStep(t)
      PROVE  OwnStep
  <2>1. CASE Start(t)
    BY <2>1, <1>0, StartOwn
  <2>2. CASE Seek(t)
    BY <2>2, <1>0, SeekOwn
  <2>3. CASE Read(t)
    BY <2>3, <1>0, ReadOwn
  <2>4. CASE Write(t)
    BY <2>4, <1>0, WriteOwn
  <2>5. CASE ReadFails(t) \/ WriteBadFd(t) \/ Fsync(t)
    BY <2>5, <1>0, FailsOwn
  <2>6. CASE UpdateStats(t)
    BY <2>6, <1>0, CountOwn
  <2>7. ASSUME NEW p \in Path, NEW n \in InitialSize, CreateOpen(t, p, n) \/ CreateRefused(t, p, n)
        PROVE  OwnStep
    BY <2>7, <1>0, CreateOwn, RefuseOwn
  <2>8. CASE CreateTruncate(t)
    BY <2>8, <1>0, TruncateOwn
  <2>9. CASE CreateUndo(t)
    BY <2>9, <1>0, UndoOwn
  <2>10. ASSUME NEW p \in Path, DeleteFile(t, p) \/ GetFileInfo(t, p)
         PROVE  OwnStep
    BY <2>10, <1>0, DeleteOwn, InfoOwn
  <2> QED BY <1>1, <2>1, <2>2, <2>3, <2>4, <2>5, <2>6, <2>7, <2>8, <2>9, <2>10 DEF ThreadStep
<1>2. CASE ResetStats \/ Initialise
  <2>1. /\ UNCHANGED <<dir, inodes, call>> /\ UNCHANGED <<fds, fd_cache>> /\ reply' = reply
        /\ misused' = misused
    BY <1>2 DEF ResetStats, Initialise, usage
  <2>2. OwnInv' /\ Content' = Content
    BY <2>1, <1>0, StillOwn
  <2> QED BY <2>1, <2>2 DEF OwnStep
<1>3. CASE Cleanup
  <2>1. /\ UNCHANGED <<dir, inodes, call>> /\ reply' = reply /\ fd_cache' = <<>>
        /\ misused' = {} /\ \A t \in Thread : call[t] = NoThing
    BY <1>3 DEF Cleanup, EntriesAfterCleanup
  <2>2. ~Busy(NoThing)
    BY NoThingFields DEF Busy
  <2>3. OwnInv'
    BY <2>1, <2>2 DEF OwnInv
  <2>4. FS!Settle
    BY <2>1, ContentIs DEF FS!Settle
  <2>5. FS!Next
    BY <2>4 DEF FS!Next
  <2> QED BY <2>3, <2>5 DEF OwnStep
<1> QED BY <1>1, <1>2, <1>3, NextSplit

LEMMA InitOwn ==
    ASSUME Init
    PROVE  OwnInv /\ FS!Init
<1>1. /\ dir = [p \in Path |-> 0] /\ fd_cache = <<>> /\ call = [t \in Thread |-> NoThing]
      /\ reply = FS!Reply(FS!NoCall, "ok", <<>>) /\ misused = {}
  BY DEF Init
<1>2. ~Busy(NoThing)
  BY NoThingFields DEF Busy
<1>3. OwnInv
  BY <1>1, <1>2 DEF OwnInv
<1>4. Content = [p \in {} |-> <<>>]
  <2>1. {q \in Path : Visible(q)} = {}
    BY <1>1 DEF Visible
  <2> QED BY <2>1 DEF Content
<1> QED BY <1>1, <1>3, <1>4 DEF FS!Init

LEMMA OwnAlways == Spec => [](LocalInv /\ OwnInv)
<1>1. Init => OwnInv
  BY InitOwn
<1>2. LocalInv /\ OwnInv /\ [Next]_vars => OwnInv'
  <2>1. ASSUME LocalInv, OwnInv, Next PROVE OwnInv'
    BY <2>1, StepOwn DEF LocalInv, OwnStep
  <2>2. ASSUME OwnInv, UNCHANGED vars PROVE OwnInv'
    BY <2>2 DEF vars, usage, OwnInv
  <2> QED BY <2>1, <2>2
<1> QED BY <1>1, <1>2, LocalInvariant, PTL DEF Spec

\* The backend implements FileStore, for every number of threads, files,
\* descriptors and cache slots, with any system call failing and any write cut
\* short: on a file that no two calls have used at once and that was not deleted
\* while its descriptor was cached, each call takes effect in one step, whatever
\* happens to the other files (local_storage.c:357-582).
THEOREM LocalImplementsFileStore == Spec => ImplementsFileStore
<1>1. Init => FS!Init
  BY InitOwn
<1>2. LocalInv /\ OwnInv /\ [Next]_vars => [FS!Next]_(FS!vars)
  <2>1. ASSUME LocalInv, OwnInv, Next PROVE [FS!Next]_(FS!vars)
    BY <2>1, StepOwn DEF LocalInv, OwnStep, FS!vars
  <2>2. ASSUME UNCHANGED vars PROVE UNCHANGED FS!vars
    BY <2>2, ContentIs DEF vars, usage, FS!vars
  <2> QED BY <2>1, <2>2
<1> QED BY <1>1, <1>2, OwnAlways, PTL DEF Spec, ImplementsFileStore, FS!Spec
=============================================================================
