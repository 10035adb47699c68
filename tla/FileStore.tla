------------------------------ MODULE FileStore ------------------------------
(***************************************************************************)
(* What a storage backend promises its callers: the operations of          *)
(* storage_interface_t (src/include/storage_interface.h) on a set of       *)
(* named files, each of them atomic.  A call that reports an error changes *)
(* nothing, except that a failed write may have grown its file by zeros    *)
(* (where Grows says so) or stored a first part of its bytes (Torn).  A    *)
(* read across the end of a file may be refused or padded with zeros: the  *)
(* two backends differ there.                                              *)
(*                                                                         *)
(* A file may be misused, in ways a backend defines; nothing is promised   *)
(* about it until the backend is started anew, and everything about the    *)
(* others.                                                                 *)
(***************************************************************************)
EXTENDS FileBytes

CONSTANTS
    Path,
    Offset,       \* values of offset
    ReadSize,     \* values of size of a read
    Chunk,        \* what may be written: nonempty sequences of bytes
    InitialSize,  \* values of initial_size
    Volatile,     \* cleanup forgets the files
    Grows,        \* a write refused for want of space grows its file
    Torn          \* a write that fails may have stored some of its bytes

VARIABLES
    content,      \* the files: a function from their paths to their bytes
    reply,        \* the last call and its result
    misused       \* the files that were misused

vars == <<content, reply, misused>>

Call(op, path, arg, n) == <<op, path, arg, n>>

Reply(call, ret, data) == [call |-> call, ret |-> ret, data |-> data]

NoCall == Call("none", "none", 0, <<>>)

Files == DOMAIN content

Bytes(path) == IF path \in Files THEN content[path] ELSE <<>>

SetFile(path, s) ==
    content' = [q \in Files \cup {path} |-> IF q = path THEN s ELSE content[q]]

Init ==
    /\ content = [p \in {} |-> <<>>]
    /\ reply = Reply(NoCall, "ok", <<>>)
    /\ misused = {}

ReadOK(path, offset, size) ==
    /\ path \in Files /\ offset < Len(content[path])
    /\ reply' = Reply(Call("read", path, offset, size), "ok", Window(content[path], offset, size))
    /\ UNCHANGED content

ReadNotFound(path, offset, size) ==
    /\ offset + size > Len(Bytes(path))
    /\ reply' = Reply(Call("read", path, offset, size), "not_found", <<>>)
    /\ UNCHANGED content

WriteOK(path, offset, data) ==
    /\ SetFile(path, Patch(Bytes(path), offset, data))
    /\ reply' = Reply(Call("write", path, offset, data), "ok", <<>>)

\* The space for data was found too late to be refused without a trace.
GrowOnly(path, offset, data) ==
    /\ Grows
    /\ offset + Len(data) > Len(Bytes(path))
    /\ SetFile(path, Window(Bytes(path), 0, offset + Len(data)))
    /\ reply' = Reply(Call("write", path, offset, data), "no_space", <<>>)

\* The device fails after the first k bytes; the file is there all the same.
TornWrite(path, offset, data) ==
    /\ Torn
    /\ \E k \in 0..(Len(data) - 1) :
         SetFile(path, IF k = 0 THEN Bytes(path)
                       ELSE Patch(Bytes(path), offset, SubSeq(data, 1, k)))
    /\ reply' = Reply(Call("write", path, offset, data), "io", <<>>)

SyncDone(path) ==
    /\ reply' = Reply(Call("fsync", path, 0, <<>>), "ok", <<>>)
    /\ UNCHANGED content

CreateOK(path, n) ==
    /\ path \notin Files
    /\ SetFile(path, Zeros(n))
    /\ reply' = Reply(Call("create", path, n, <<>>), "ok", <<>>)

CreateExists(path, n) ==
    /\ path \in Files
    /\ reply' = Reply(Call("create", path, n, <<>>), "exists", <<>>)
    /\ UNCHANGED content

DeleteOK(path) ==
    /\ path \in Files
    /\ content' = [q \in Files \ {path} |-> content[q]]
    /\ reply' = Reply(Call("delete", path, 0, <<>>), "ok", <<>>)

InfoOK(path) ==
    /\ path \in Files
    /\ reply' = Reply(Call("info", path, 0, <<>>), "ok", <<Len(content[path])>>)
    /\ UNCHANGED content

Absent(op, path) ==
    /\ path \notin Files
    /\ reply' = Reply(Call(op, path, 0, <<>>), "not_found", <<>>)
    /\ UNCHANGED content

\* Any call may fail for want of memory, space or a working device.
Refuse(call) ==
    /\ \E ret \in {"io", "nomem", "no_space"} : reply' = Reply(call, ret, <<>>)
    /\ UNCHANGED content

Forget ==
    /\ Volatile
    /\ content' = [p \in {} |-> <<>>]
    /\ reply' = Reply(NoCall, "ok", <<>>)

\* A call takes effect and is answered.
Answer ==
    \/ \E p \in Path :
        \/ \E o \in Offset, n \in ReadSize :
            ReadOK(p, o, n) \/ ReadNotFound(p, o, n) \/ Refuse(Call("read", p, o, n))
        \/ \E o \in Offset, d \in Chunk :
            \/ WriteOK(p, o, d) \/ GrowOnly(p, o, d) \/ TornWrite(p, o, d)
            \/ Refuse(Call("write", p, o, d))
        \/ SyncDone(p) \/ Refuse(Call("fsync", p, 0, <<>>))
        \/ \E n \in InitialSize :
            CreateOK(p, n) \/ CreateExists(p, n) \/ Refuse(Call("create", p, n, <<>>))
        \/ DeleteOK(p) \/ InfoOK(p)
        \/ \E op \in {"delete", "info"} : Absent(op, p) \/ Refuse(Call(op, p, 0, <<>>))
    \/ Forget

SameFile(q) ==
    /\ q \in DOMAIN content' <=> q \in Files
    /\ q \in Files => content'[q] = content[q]

\* A step on a misused file does anything to it, and nothing to the others.
Misuse(p) ==
    /\ misused' = misused \cup {p}
    /\ \A q \in Path : q # p => SameFile(q)
    /\ reply' = reply \/ reply'.call[2] = p

Settle ==
    /\ misused' = {}
    /\ UNCHANGED <<content, reply>>

Next ==
    \/ Answer /\ UNCHANGED misused
    \/ \E p \in Path : Misuse(p)
    \/ Settle

Spec == Init /\ [][Next]_vars
=============================================================================
