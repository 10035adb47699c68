------------------------------ MODULE WalEngine ------------------------------
(***************************************************************************)
(* The write-ahead log of xDevice (src/src/storage/wal_engine.c): one      *)
(* preallocated, memory-mapped file, a file header, and records appended   *)
(* at current_offset.                                                      *)
(*                                                                         *)
(* The mapping is shared, so stores go to the page cache (size, header,    *)
(* cells), which survives the process; the kernel writes any part of it    *)
(* back at any time, and only what it wrote back (disk) survives a power   *)
(* failure.  An append stores its record header and its data in two steps, *)
(* with the write mutex held over both: a crash may fall between them.     *)
(*                                                                         *)
(* Bytes are cells.  Cell i of a record carries the handle that wrote it,  *)
(* the LSN, the length field and i, so different records never look alike. *)
(* The CRC of a header is a bijection of the word in its checksum field    *)
(* with one fixed point, as CRC32 is in the last four bytes of its input.  *)
(***************************************************************************)
EXTENDS Integers, FiniteSets

CONSTANTS
    HeaderSize,      \* sizeof(wal_header_t)
    RecHeaderSize,   \* sizeof(wal_record_header_t)
    Sizes,           \* values of initial_size
    MaxSize,         \* bound: the largest of them
    Lengths,         \* values of length
    LenMod,          \* 2^32, the width of wal_record_header_t.length
    CrcMod,          \* 2^32, the width of a checksum
    Salts,           \* contents of a header before its checksum field
    Garbage,         \* what the checksum field may hold before it is assigned
    MaxLsn,          \* bound: appends of a handle
    MaxOpens,        \* bound: handles
    MaxCrashes       \* bound: crashes and power failures

ASSUME WalAssumption ==
    /\ HeaderSize \in Nat \ {0} /\ RecHeaderSize \in Nat \ {0}
    /\ MaxSize \in Nat /\ Sizes \subseteq 1..MaxSize /\ Lengths \subseteq Nat
    /\ LenMod \in Nat \ {0}
    /\ CrcMod \in Nat \ {0} /\ Salts \subseteq 0..(CrcMod - 1)
    /\ Garbage \subseteq 0..(CrcMod - 1)
    /\ MaxLsn \in Nat /\ MaxOpens \in Nat /\ MaxCrashes \in Nat

VARIABLES
    pc,              \* "closed", "creating", "open" or "appending"
    size,            \* st_size of the file, 0 if it is new
    header,          \* the file header in the page cache
    cells,           \* the cells after the header in the page cache
    disk,            \* what is on the medium: [size, header, cells]
    file_size,
    current_offset,
    next_lsn,
    last_sync_lsn,
    total_writes,
    total_bytes_written,
    ret,             \* what the last call returned
    pending,         \* history: the record an append is storing
    recs,            \* history: the records of this handle that were acknowledged
    synced,          \* history: the records a successful sync has covered
    gen,             \* handles opened so far
    crashes

handle  == <<file_size, current_offset, next_lsn, last_sync_lsn, total_writes,
             total_bytes_written>>
cache   == <<size, header, cells>>
history == <<pending, recs, synced, gen>>
vars    == <<pc, cache, disk, handle, ret, history, crashes>>

Offsets == HeaderSize..(MaxSize - 1)
Blank == <<0, 0, 0, 0>>
NoHeader == [magic |-> FALSE, file_size |-> 0, salt |-> 0, checksum |-> 0]
NoRecord == [gen |-> 0, lsn |-> 0, off |-> 0, len |-> 0]

Cell == Nat \X Nat \X Nat \X Nat
Header == [magic : BOOLEAN, file_size : Sizes \cup {0}, salt : 0..(CrcMod - 1),
           checksum : 0..(CrcMod - 1)]
Record == [gen : Nat, lsn : Nat, off : Nat, len : Lengths \cup {0}]

End(r) == r.off + RecHeaderSize + r.len

\* crc32 over the header up to the end of the checksum field, which holds w
Crc(salt, w) == (salt + 2 * w) % CrcMod

CreateWalHeader(s, salt, g) ==
    [magic |-> TRUE, file_size |-> s, salt |-> salt, checksum |-> Crc(salt, g)]

ValidateWalHeader(h) == h.magic /\ Crc(h.salt, h.checksum) = h.checksum

\* memcpy of the cells from..to of record r into the mapping
Store(r, from, to) ==
    [o \in Offsets |-> IF o - r.off \in from..to
                       THEN <<r.gen, r.lsn, r.len % LenMod, o - r.off>>
                       ELSE cells[o]]

Init ==
    /\ pc = "closed"
    /\ size = 0 /\ header = NoHeader /\ cells = [o \in Offsets |-> Blank]
    /\ disk = [size |-> 0, header |-> NoHeader, cells |-> [o \in Offsets |-> Blank]]
    /\ file_size = 0 /\ current_offset = 0 /\ next_lsn = 1 /\ last_sync_lsn = 0
    /\ total_writes = 0 /\ total_bytes_written = 0
    /\ ret = "none"
    /\ pending = NoRecord /\ recs = {} /\ synced = {} /\ gen = 0
    /\ crashes = 0

-----------------------------------------------------------------------------
(* xdevice_wal_create *)

\* A fresh handle on a file whose size is s: nothing is recovered from it.
OpenHandle(s) ==
    /\ pc' = "open"
    /\ file_size' = s
    /\ current_offset' = HeaderSize
    /\ next_lsn' = 1
    /\ last_sync_lsn' = 0 /\ total_writes' = 0 /\ total_bytes_written' = 0
    /\ gen' = gen + 1
    /\ recs' = {}
    /\ ret' = "ok"
    /\ UNCHANGED <<pending, synced>>

\* A new file: ftruncate to initial_size ...
CreateTruncate(s) ==
    /\ pc = "closed" /\ size = 0 /\ gen < MaxOpens
    /\ pc' = "creating"
    /\ size' = s
    /\ file_size' = s
    /\ UNCHANGED <<header, cells, disk, current_offset, next_lsn, last_sync_lsn,
                   total_writes, total_bytes_written, ret, history, crashes>>

\* ... then write the header, whose checksum is computed over itself ...
WriteHeader(salt, g) ==
    /\ pc = "creating"
    /\ header' = CreateWalHeader(file_size, salt, g)
    /\ size' = IF size < HeaderSize THEN HeaderSize ELSE size
    /\ UNCHANGED <<cells, disk, crashes>>

\* ... and map the file ...
CreateHeader(salt, g) ==
    /\ WriteHeader(salt, g)
    /\ OpenHandle(file_size)

\* ... or fail to: the file and its header stay.
MapFails(salt, g) ==
    /\ WriteHeader(salt, g)
    /\ pc' = "closed"
    /\ ret' = "null"
    /\ UNCHANGED <<handle, history>>

\* The write of the header fails: the truncated file stays.
CreateFails ==
    /\ pc = "creating"
    /\ pc' = "closed"
    /\ ret' = "null"
    /\ UNCHANGED <<cache, disk, handle, history, crashes>>

OpenExisting ==
    /\ pc = "closed" /\ size # 0 /\ gen < MaxOpens
    /\ ValidateWalHeader(header)
    /\ OpenHandle(header.file_size)
    /\ UNCHANGED <<cache, disk, crashes>>

\* The header is not valid, or the file cannot be opened, truncated or mapped.
OpenRejected ==
    /\ pc = "closed"
    /\ ret' = "null"
    /\ UNCHANGED <<pc, cache, disk, handle, history, crashes>>

-----------------------------------------------------------------------------
(* xdevice_wal_append *)

\* Mutant: the record header is forgotten in the test for room.
FitsData(length) == current_offset + length <= file_size

Fits(length) == current_offset + RecHeaderSize + length <= file_size

\* No space: the LSN is taken all the same.
AppendNoSpace(length) ==
    /\ pc = "open" /\ next_lsn <= MaxLsn
    /\ ~Fits(length)
    /\ next_lsn' = next_lsn + 1
    /\ ret' = "io"
    /\ UNCHANGED <<pc, cache, disk, file_size, current_offset, last_sync_lsn,
                   total_writes, total_bytes_written, history, crashes>>

AppendHeader(length) ==
    /\ pc = "open" /\ next_lsn <= MaxLsn
    /\ Fits(length)
    /\ next_lsn' = next_lsn + 1
    /\ pending' = [gen |-> gen, lsn |-> next_lsn, off |-> current_offset, len |-> length]
    /\ cells' = Store(pending', 0, RecHeaderSize - 1)
    /\ current_offset' = current_offset + RecHeaderSize
    /\ pc' = "appending"
    /\ UNCHANGED <<size, header, disk, file_size, last_sync_lsn, total_writes,
                   total_bytes_written, ret, recs, synced, gen, crashes>>

\* Mutant: the offset is not moved past the data.
KeepOffset == current_offset

OffsetAfterData == current_offset + pending.len

AppendData ==
    /\ pc = "appending"
    /\ cells' = Store(pending, RecHeaderSize, RecHeaderSize + pending.len - 1)
    /\ current_offset' = OffsetAfterData
    /\ total_writes' = total_writes + 1
    /\ total_bytes_written' = total_bytes_written + RecHeaderSize + pending.len
    /\ recs' = recs \cup {pending}
    /\ pc' = "open"
    /\ ret' = "ok"
    /\ UNCHANGED <<size, header, disk, file_size, next_lsn, last_sync_lsn, pending,
                   synced, gen, crashes>>

-----------------------------------------------------------------------------
(* xdevice_wal_sync, xdevice_wal_destroy *)

\* Mutant: the success is reported although nothing was flushed.
FlushNothing == disk' = disk

\* msync of the mapping and fsync of the file
Flush == disk' = [size |-> size, header |-> header, cells |-> cells]

SyncOK ==
    /\ Flush
    /\ synced' = synced \cup recs

Sync ==
    /\ pc = "open"
    /\ SyncOK
    /\ last_sync_lsn' = next_lsn - 1
    /\ ret' = "ok"
    /\ UNCHANGED <<pc, cache, file_size, current_offset, next_lsn, total_writes,
                   total_bytes_written, pending, recs, gen, crashes>>

\* msync or fsync fails: what reached the medium is up to Writeback.
SyncFails ==
    /\ pc = "open"
    /\ ret' = "io"
    /\ UNCHANGED <<pc, cache, disk, handle, history, crashes>>

\* The result of the sync is ignored.
Destroy ==
    /\ pc = "open"
    /\ SyncOK \/ UNCHANGED <<disk, synced>>
    /\ pc' = "closed"
    /\ ret' = "none"
    /\ UNCHANGED <<cache, handle, pending, recs, gen, crashes>>

-----------------------------------------------------------------------------
(* The environment: external *)

\* The kernel commits the size of the file, then, in any order, its contents.
WritebackSize ==
    /\ disk.size # size
    /\ disk' = [disk EXCEPT !.size = size]
    /\ UNCHANGED <<pc, cache, handle, ret, history, crashes>>

WritebackHeader ==
    /\ disk.size # 0 /\ disk.header # header
    /\ disk' = [disk EXCEPT !.header = header]
    /\ UNCHANGED <<pc, cache, handle, ret, history, crashes>>

WritebackCell(o) ==
    /\ disk.size # 0 /\ disk.cells[o] # cells[o]
    /\ disk' = [disk EXCEPT !.cells[o] = cells[o]]
    /\ UNCHANGED <<pc, cache, handle, ret, history, crashes>>

Crash ==
    /\ pc # "closed" /\ crashes < MaxCrashes
    /\ crashes' = crashes + 1
    /\ pc' = "closed"
    /\ ret' = "none"
    /\ UNCHANGED <<cache, disk, handle, history>>

PowerFailure ==
    /\ crashes < MaxCrashes
    /\ crashes' = crashes + 1
    /\ pc' = "closed"
    /\ size' = disk.size /\ header' = disk.header /\ cells' = disk.cells
    /\ ret' = "none"
    /\ UNCHANGED <<disk, handle, history>>

-----------------------------------------------------------------------------
Next ==
    \/ \E s \in Sizes : CreateTruncate(s)
    \/ \E salt \in Salts, g \in Garbage : CreateHeader(salt, g) \/ MapFails(salt, g)
    \/ CreateFails \/ OpenExisting \/ OpenRejected
    \/ \E length \in Lengths : AppendNoSpace(length) \/ AppendHeader(length)
    \/ AppendData
    \/ Sync \/ SyncFails \/ Destroy
    \/ WritebackSize \/ WritebackHeader
    \/ \E o \in Offsets : WritebackCell(o)
    \/ Crash \/ PowerFailure

Spec == Init /\ [][Next]_vars

-----------------------------------------------------------------------------
(* Properties *)

\* The offset of an open log: behind its file header or inside the mapping.
OffsetInMapping ==
    pc \in {"open", "appending"} => current_offset = HeaderSize \/ current_offset <= file_size

\* Every variable keeps its type; in particular current_offset never leaves the
\* mapping, however appends and refusals alternate (wal_engine.c:268-296).
TypeOK ==
    /\ pc \in {"closed", "creating", "open", "appending"}
    /\ size \in Nat /\ header \in Header /\ cells \in [Offsets -> Cell]
    /\ disk \in [size : Nat, header : Header, cells : [Offsets -> Cell]]
    /\ file_size \in Sizes \cup {0}
    /\ current_offset \in Nat /\ OffsetInMapping
    /\ next_lsn \in 1..(MaxLsn + 1)
    /\ last_sync_lsn \in 0..MaxLsn
    /\ total_writes \in Nat
    /\ total_bytes_written \in Nat
    /\ ret \in {"none", "ok", "io", "null"}
    /\ pending \in Record /\ recs \subseteq Record /\ synced \subseteq Record
    /\ gen \in Nat
    /\ crashes \in 0..MaxCrashes

\* All cells of record r are in m.
Holds(m, r) ==
    \A i \in 0..(RecHeaderSize + r.len - 1) :
        m[r.off + i] = <<r.gen, r.lsn, r.len, i>>

\* Where the acknowledged records end.
Tail == IF pc = "appending" THEN pending.off ELSE current_offset

InFile == \A r \in recs : End(r) <= file_size /\ End(r) <= Tail /\ Holds(cells, r)

Before(r, s) == r.lsn < s.lsn /\ End(r) <= s.off

Ordered == \A r, s \in recs : r = s \/ Before(r, s) \/ Before(s, r)

NoGap == \A o \in HeaderSize..(Tail - 1) : \E r \in recs : o \in r.off..(End(r) - 1)

CountersAgree ==
    /\ total_writes = Cardinality(recs)
    /\ total_bytes_written = Tail - HeaderSize

\* While the log is open the mapping holds every acknowledged record, whole and
\* inside the file, in the order of their distinct LSNs, without a gap from the
\* header to current_offset, and the counters agree with it: a reader that
\* follows the length fields finds exactly the acknowledged records
\* (wal_engine.c:259-296).
Layout ==
    pc \in {"open", "appending"} => InFile /\ Ordered /\ NoGap /\ CountersAgree

\* Every record with an LSN up to last_sync_lsn, and every record a sync of the
\* last handle has covered, is whole on the medium, through crashes and power
\* failures, until a later handle writes (wal_engine.c:303-336).
SyncedDurable ==
    /\ \A r \in synced : r.gen = gen => Holds(disk.cells, r)
    /\ pc \in {"open", "appending"} =>
         \A r \in recs : r.lsn <= last_sync_lsn => Holds(disk.cells, r)

\* A log that was created can be opened again (wal_engine.c:99-110, 187-203).
Reopenable == gen > 0 => ValidateWalHeader(header)
=============================================================================
