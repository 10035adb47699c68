------------------------------ MODULE WalProofs ------------------------------
(***************************************************************************)
(* The layout of an open log and the durability of its synced records, for *)
(* every file size, record length and number of crashes.  The hypothesis   *)
(* is that lengths fit the 32-bit length field of a record header.         *)
(***************************************************************************)
EXTENDS WalEngine, FiniteSetTheorems, TLAPS

ShortRecords == \A l \in Lengths : l < LenMod

IsOpen == pc \in {"open", "appending"}

\* The acknowledged records belong to this handle and were given past LSNs.
RecsInv ==
    /\ IsFiniteSet(recs)
    /\ \A r \in recs : r.gen = gen /\ r.off >= HeaderSize /\ r.lsn < next_lsn

\* The record an append is storing lies behind all others and has the last LSN.
PendingInv ==
    pc = "appending" =>
        /\ pending.gen = gen /\ pending.lsn + 1 = next_lsn /\ pending.len \in Lengths
        /\ pending.off >= HeaderSize
        /\ current_offset = pending.off + RecHeaderSize
        /\ End(pending) <= file_size
        /\ last_sync_lsn < pending.lsn
        /\ \A r \in recs : r.lsn < pending.lsn
        /\ \A i \in 0..(RecHeaderSize - 1) :
             cells[pending.off + i] = <<pending.gen, pending.lsn, pending.len, i>>

\* A record that a sync covered is in the page cache and on the medium, and a
\* record of the open log with an LSN up to last_sync_lsn is one of them.
SyncInv ==
    /\ \A r \in synced : r.gen <= gen
    /\ \A r \in synced : r.gen = gen => /\ r.off >= HeaderSize /\ End(r) <= MaxSize
                                        /\ Holds(cells, r) /\ Holds(disk.cells, r)
    /\ IsOpen => /\ last_sync_lsn < next_lsn
                 /\ \A r \in synced : r.gen = gen => r \in recs
                 /\ \A r \in recs : r.lsn <= last_sync_lsn => r \in synced

OffsetInv == IsOpen => current_offset >= HeaderSize

WalInv == TypeOK /\ Layout /\ RecsInv /\ PendingInv /\ SyncInv /\ OffsetInv

-----------------------------------------------------------------------------
(* Facts about cells *)

LEMMA CrcType ==
    ASSUME NEW salt \in 0..(CrcMod - 1), NEW w \in 0..(CrcMod - 1)
    PROVE  Crc(salt, w) \in 0..(CrcMod - 1)
  <1>1. \A a \in Int, M \in Nat : M > 0 => a % M \in 0..(M - 1)
    BY SMT
  <1>2. CrcMod \in Nat /\ CrcMod > 0
    BY WalAssumption
  <1>3. salt + 2 * w \in Int
    BY <1>2
  <1> QED
    BY <1>1, <1>2, <1>3 DEF Crc

\* A length that fits the field is stored as it is.
LEMMA LengthKept ==
    ASSUME ShortRecords, NEW l \in Lengths
    PROVE  l % LenMod = l
  <1>1. \A a, M \in Nat : a < M => a % M = a
    BY SMT
  <1> QED
    BY <1>1, WalAssumption DEF ShortRecords

LEMMA RecordType ==
    ASSUME NEW r \in Record
    PROVE  r.gen \in Nat /\ r.lsn \in Nat /\ r.off \in Nat /\ r.len \in Nat
  <1>1. r.gen \in Nat /\ r.lsn \in Nat /\ r.off \in Nat /\ r.len \in Lengths \cup {0}
    BY DEF Record
  <1>2. \A l \in Lengths : l \in Nat
    BY WalAssumption
  <1>3. CASE r.len = 0
    BY <1>1, <1>3
  <1>4. CASE r.len \in Lengths
    BY <1>1, <1>2, <1>4
  <1> QED
    BY <1>1, <1>3, <1>4

LEMMA FileSizeType ==
    ASSUME TypeOK
    PROVE  file_size \in Nat /\ file_size <= MaxSize /\ MaxSize \in Nat
  <1>1. file_size \in Sizes \/ file_size = 0
    BY DEF TypeOK
  <1>2. MaxSize \in Nat /\ \A x \in Sizes : x \in 1..MaxSize
    BY WalAssumption
  <1>3. CASE file_size = 0
    BY <1>2, <1>3
  <1>4. CASE file_size \in Sizes
    BY <1>2, <1>4
  <1> QED
    BY <1>1, <1>2, <1>3, <1>4

LEMMA StoreType ==
    ASSUME cells \in [Offsets -> Cell], NEW r \in Record, r.len \in Lengths, ShortRecords,
           NEW from \in Nat, NEW to \in Int
    PROVE  Store(r, from, to) \in [Offsets -> Cell]
  <1>1. r.len % LenMod \in Nat /\ r.gen \in Nat /\ r.lsn \in Nat /\ r.off \in Nat
    BY LengthKept, WalAssumption DEF Record
  <1>2. ASSUME NEW o \in Offsets, o - r.off \in from..to
        PROVE  <<r.gen, r.lsn, r.len % LenMod, o - r.off>> \in Cell
    <2>1. o \in Int
      BY WalAssumption DEF Offsets
    <2>2. o - r.off \in Nat
      BY <1>1, <1>2, <2>1
    <2> QED
      BY <1>1, <2>2 DEF Cell
  <1> QED
    BY <1>2 DEF Store

LEMMA StoreOutside ==
    ASSUME NEW p, NEW from, NEW to, NEW o \in Offsets, ~(o - p.off \in from..to)
    PROVE  Store(p, from, to)[o] = cells[o]
  BY DEF Store

LEMMA StoreInside ==
    ASSUME NEW p, NEW from, NEW to, NEW o \in Offsets, o - p.off \in from..to
    PROVE  Store(p, from, to)[o] = <<p.gen, p.lsn, p.len % LenMod, o - p.off>>
  BY DEF Store

\* A record below the cells that are stored is not touched.
LEMMA StoreKeeps ==
    ASSUME NEW p \in Record, NEW from \in Nat, NEW to \in Int, NEW r \in Record,
           r.off >= HeaderSize, End(r) <= MaxSize, End(r) <= p.off, Holds(cells, r)
    PROVE  Holds(Store(p, from, to), r)
  <1> SUFFICES ASSUME NEW i \in 0..(RecHeaderSize + r.len - 1)
               PROVE  Store(p, from, to)[r.off + i] = <<r.gen, r.lsn, r.len, i>>
    BY DEF Holds
  <1>1. /\ r.off \in Nat /\ r.len \in Nat /\ p.off \in Nat
        /\ RecHeaderSize \in Nat /\ HeaderSize \in Nat /\ MaxSize \in Nat
    BY WalAssumption, RecordType
  <1> DEFINE o == r.off + i
  <1>2. o \in Offsets
    BY <1>1 DEF Offsets, End
  <1>3. ~(o - p.off \in from..to)
    BY <1>1 DEF End
  <1>4. cells[o] = <<r.gen, r.lsn, r.len, i>>
    BY DEF Holds
  <1>5. Store(p, from, to)[o] = cells[o]
    <2> HIDE DEF o
    <2> QED
      BY <1>2, <1>3, StoreOutside, Zenon
  <1> QED
    BY <1>4, <1>5

-----------------------------------------------------------------------------
(* The steps that leave a log closed or change only the medium *)

LEMMA WalInit == Init => WalInv
  <1> SUFFICES ASSUME Init PROVE WalInv
    OBVIOUS
  <1>1. [o \in Offsets |-> Blank] \in [Offsets -> Cell]
    BY DEF Blank, Cell
  <1>2. NoHeader \in Header
    BY WalAssumption DEF NoHeader, Header
  <1>3. NoRecord \in Record
    BY DEF NoRecord, Record
  <1>4. TypeOK
    BY <1>1, <1>2, <1>3, WalAssumption DEF Init, TypeOK, OffsetInMapping
  <1>5. IsFiniteSet(recs)
    BY FS_EmptySet DEF Init
  <1> QED
    BY <1>4, <1>5 DEF Init, WalInv, Layout, RecsInv, PendingInv, SyncInv, OffsetInv, IsOpen

\* Steps that leave no log open and keep the contents of the cache and the
\* medium: only the covered records matter.
LEMMA ClosedStep ==
    ASSUME WalInv, TypeOK', ~IsOpen',
           UNCHANGED <<cells, recs, synced, gen, next_lsn>>,
           disk'.cells = disk.cells
    PROVE  WalInv'
  <1>1. pc' # "appending"
    BY DEF IsOpen
  <1>2. Layout'
    BY DEF Layout, IsOpen
  <1>3. RecsInv' /\ PendingInv' /\ OffsetInv'
    BY <1>1 DEF WalInv, RecsInv, PendingInv, OffsetInv
  <1>4. SyncInv'
    BY DEF WalInv, SyncInv, Holds
  <1> QED
    BY <1>2, <1>3, <1>4 DEF WalInv

\* The cells of a covered record are cells of the file.
LEMMA InOffsets ==
    ASSUME NEW r \in Record, r.off >= HeaderSize, End(r) <= MaxSize,
           NEW i \in 0..(RecHeaderSize + r.len - 1)
    PROVE  r.off + i \in Offsets
  <1>1. /\ r.off \in Nat /\ r.len \in Nat
        /\ RecHeaderSize \in Nat /\ HeaderSize \in Nat /\ MaxSize \in Nat
    BY WalAssumption, RecordType
  <1> QED
    BY <1>1 DEF Offsets, End

LEMMA HoldsMixed ==
    ASSUME NEW r \in Record, r.off >= HeaderSize, End(r) <= MaxSize,
           NEW a, NEW b, NEW m, Holds(a, r), Holds(b, r),
           \A o \in Offsets : m[o] = a[o] \/ m[o] = b[o]
    PROVE  Holds(m, r)
  BY InOffsets DEF Holds

\* Steps that change nothing but the medium, and there only towards the cache.
LEMMA MediumStep ==
    ASSUME WalInv, TypeOK',
           UNCHANGED <<pc, cells, file_size, current_offset, next_lsn, last_sync_lsn,
                       total_writes, total_bytes_written, pending, recs, synced, gen>>,
           \A o \in Offsets : disk'.cells[o] = disk.cells[o] \/ disk'.cells[o] = cells[o]
    PROVE  WalInv'
  <1> USE DEF WalInv
  <1>1. Layout' /\ RecsInv' /\ PendingInv' /\ OffsetInv'
    BY DEF Layout, InFile, Ordered, Before, NoGap, CountersAgree, Tail, End, Holds,
           RecsInv, PendingInv, OffsetInv, IsOpen
  <1>2. ASSUME NEW r \in synced, r.gen = gen
        PROVE  /\ r.off >= HeaderSize /\ End(r) <= MaxSize
               /\ Holds(cells, r) /\ Holds(disk'.cells, r)
    <2>1. /\ r.off >= HeaderSize /\ End(r) <= MaxSize
          /\ Holds(cells, r) /\ Holds(disk.cells, r)
      BY <1>2 DEF SyncInv
    <2>2. r \in Record
      BY DEF TypeOK
    <2> QED
      BY <2>1, <2>2, HoldsMixed
  <1>3. SyncInv'
    BY <1>2 DEF SyncInv, IsOpen, Holds, End
  <1> QED
    BY <1>1, <1>3

\* A record of an open log lies inside the file.
LEMMA RecsInFile ==
    ASSUME WalInv, IsOpen, NEW r \in recs
    PROVE  /\ r \in Record /\ r.gen = gen /\ r.off >= HeaderSize
           /\ End(r) <= MaxSize /\ End(r) <= Tail /\ Holds(cells, r)
  <1>1. /\ r \in Record /\ r.gen = gen /\ r.off >= HeaderSize
        /\ End(r) <= file_size /\ End(r) <= Tail /\ Holds(cells, r)
    BY DEF WalInv, TypeOK, RecsInv, Layout, InFile, IsOpen
  <1>2. file_size <= MaxSize /\ file_size \in Nat /\ MaxSize \in Nat
    BY FileSizeType DEF WalInv
  <1>3. End(r) \in Nat
    BY <1>1, RecordType, WalAssumption DEF End
  <1>4. End(r) <= MaxSize
    BY <1>1, <1>2, <1>3
  <1> QED
    BY <1>1, <1>4

\* A sync that succeeds, with the log left open or not.
LEMMA SyncStep ==
    ASSUME WalInv, TypeOK', pc = "open", pc' \in {"open", "closed"},
           disk'.cells = cells, synced' = synced \cup recs,
           pc' = "open" => last_sync_lsn' = next_lsn - 1,
           UNCHANGED <<cells, file_size, current_offset, next_lsn, total_writes,
                       total_bytes_written, pending, recs, gen>>
    PROVE  WalInv'
  <1> USE DEF WalInv
  <1>0. IsOpen /\ pc' # "appending"
    BY DEF IsOpen
  <1>1. Layout'
    BY DEF Layout, InFile, Ordered, Before, NoGap, CountersAgree, Tail, End, Holds
  <1>2. RecsInv' /\ PendingInv' /\ OffsetInv'
    BY <1>0 DEF RecsInv, PendingInv, OffsetInv, IsOpen
  <1>3. ASSUME NEW r \in synced', r.gen = gen
        PROVE  /\ r.off >= HeaderSize /\ End(r) <= MaxSize /\ Holds(cells, r) /\ r \in recs
    <2>1. r \in recs
      BY <1>0, <1>3 DEF SyncInv
    <2> QED
      BY <1>0, <2>1, RecsInFile
  <1>4. \A r \in synced' : r.gen <= gen
    <2>1. gen <= gen
      BY WalAssumption DEF TypeOK
    <2> QED
      BY <2>1 DEF SyncInv, RecsInv
  <1>5. ASSUME pc' = "open" PROVE last_sync_lsn' < next_lsn'
    BY <1>5 DEF TypeOK
  <1>6. SyncInv'
    BY <1>3, <1>4, <1>5 DEF SyncInv, IsOpen, Holds, End
  <1> QED
    BY <1>1, <1>2, <1>6

\* After a power failure the cache is what the medium holds.
LEMMA PowerStep ==
    ASSUME WalInv, TypeOK', PowerFailure
    PROVE  WalInv'
  <1> USE DEF WalInv
  <1>1. /\ pc' = "closed" /\ cells' = disk.cells /\ disk' = disk
        /\ UNCHANGED <<next_lsn, recs, synced, gen>>
    BY DEF PowerFailure, handle, history
  <1>2. Layout' /\ RecsInv' /\ PendingInv' /\ OffsetInv'
    BY <1>1 DEF Layout, RecsInv, PendingInv, OffsetInv, IsOpen
  <1>3. SyncInv'
    BY <1>1 DEF SyncInv, IsOpen, Holds, End
  <1> QED
    BY <1>2, <1>3

\* A new handle: no covered record is one of its own.
LEMMA OpenStep ==
    ASSUME WalInv, TypeOK', NEW s, OpenHandle(s),
           UNCHANGED <<cells, disk>>
    PROVE  WalInv'
  <1> USE DEF WalInv
  <1>1. /\ pc' = "open" /\ recs' = {} /\ gen' = gen + 1 /\ current_offset' = HeaderSize
        /\ total_writes' = 0 /\ total_bytes_written' = 0
        /\ next_lsn' = 1 /\ last_sync_lsn' = 0 /\ synced' = synced
    BY DEF OpenHandle
  <1>2. gen \in Nat /\ HeaderSize \in Nat
    BY WalAssumption DEF TypeOK
  <1>3. \A r \in synced : r.gen <= gen' /\ r.gen # gen'
    <2>1. \A r \in synced : r.gen \in Nat
      BY RecordType DEF TypeOK
    <2> QED
      BY <1>1, <1>2, <2>1 DEF SyncInv
  <1>4. Layout'
    <2>1. Cardinality({}) = 0
      BY FS_EmptySet
    <2> QED
      BY <1>1, <1>2, <2>1 DEF Layout, InFile, Ordered, NoGap, CountersAgree, Tail
  <1>5. RecsInv' /\ PendingInv' /\ OffsetInv'
    BY <1>1, <1>2, FS_EmptySet DEF RecsInv, PendingInv, OffsetInv
  <1>6. SyncInv'
    BY <1>1, <1>3 DEF SyncInv
  <1> QED
    BY <1>4, <1>5, <1>6

-----------------------------------------------------------------------------
(* The steps of an append *)

\* An append that finds no space only takes an LSN.
LEMMA NoSpaceStep ==
    ASSUME WalInv, TypeOK', NEW length \in Lengths, AppendNoSpace(length)
    PROVE  WalInv'
  <1> USE DEF WalInv
  <1>1. /\ pc = "open" /\ next_lsn' = next_lsn + 1
        /\ UNCHANGED <<pc, cells, disk, file_size, current_offset, last_sync_lsn,
                       total_writes, total_bytes_written, pending, recs, synced, gen>>
    BY DEF AppendNoSpace, cache, history
  <1>2. Layout' /\ PendingInv' /\ OffsetInv'
    BY <1>1 DEF Layout, InFile, Ordered, Before, NoGap, CountersAgree, Tail, End, Holds,
                PendingInv, OffsetInv, IsOpen
  <1>3. next_lsn \in Nat /\ last_sync_lsn \in Nat /\ \A r \in recs : r.lsn \in Nat
    BY RecordType, WalAssumption DEF TypeOK
  <1>4. RecsInv'
    BY <1>1, <1>3 DEF RecsInv
  <1>5. SyncInv'
    <2>1. last_sync_lsn' < next_lsn'
      BY <1>1, <1>3 DEF SyncInv, IsOpen
    <2> QED
      BY <1>1, <2>1, Zenon DEF SyncInv, IsOpen, Holds, End
  <1> QED
    BY <1>2, <1>4, <1>5

\* The header of a record is stored behind the acknowledged ones.
LEMMA HeaderStep ==
    ASSUME ShortRecords, WalInv, TypeOK', NEW length \in Lengths, AppendHeader(length)
    PROVE  WalInv'
  <1> USE DEF WalInv
  <1>1. /\ pc = "open" /\ pc' = "appending" /\ next_lsn' = next_lsn + 1
        /\ pending' = [gen |-> gen, lsn |-> next_lsn, off |-> current_offset, len |-> length]
        /\ cells' = Store(pending', 0, RecHeaderSize - 1)
        /\ current_offset' = current_offset + RecHeaderSize
        /\ current_offset + RecHeaderSize + length <= file_size
        /\ UNCHANGED <<disk, file_size, last_sync_lsn, total_writes, total_bytes_written,
                       recs, synced, gen>>
    BY DEF AppendHeader, Fits
  <1> DEFINE p == pending'
  <1>2. /\ p \in Record /\ p.gen = gen /\ p.lsn = next_lsn /\ p.off = current_offset
        /\ p.len = length
    BY <1>1 DEF TypeOK
  <1>3. /\ IsOpen /\ IsOpen' /\ Tail = current_offset /\ Tail' = current_offset
    BY <1>1 DEF IsOpen, Tail
  <1>4. /\ RecHeaderSize \in Nat /\ RecHeaderSize > 0 /\ HeaderSize \in Nat
        /\ MaxSize \in Nat
        /\ current_offset \in Nat /\ current_offset >= HeaderSize /\ next_lsn \in Nat
        /\ last_sync_lsn \in Nat /\ last_sync_lsn < next_lsn
        /\ length \in Nat
    BY <1>3, WalAssumption DEF TypeOK, OffsetInv, SyncInv
  <1>5. \A r \in recs : r.lsn \in Nat /\ r.lsn < next_lsn
    BY RecordType DEF TypeOK, RecsInv
  <1>6. ASSUME NEW r \in recs PROVE Holds(cells', r)
    <2>1. /\ r \in Record /\ r.off >= HeaderSize /\ End(r) <= MaxSize
          /\ End(r) <= p.off /\ Holds(cells, r)
      BY <1>2, <1>3, RecsInFile
    <2>2. 0 \in Nat /\ RecHeaderSize - 1 \in Int
      BY <1>4
    <2> HIDE DEF p, WalInv
    <2>3. Holds(Store(p, 0, RecHeaderSize - 1), r)
      BY <1>2, <2>1, <2>2, StoreKeeps
    <2> QED
      BY <1>1, <2>3 DEF p
  <1>7. Layout'
    <2>1. InFile'
      BY <1>1, <1>3, <1>6 DEF Layout, IsOpen, InFile, End
    <2>2. Ordered' /\ NoGap' /\ CountersAgree'
      BY <1>1, <1>3 DEF Layout, IsOpen, Ordered, Before, NoGap, CountersAgree, End
    <2> QED
      BY <2>1, <2>2 DEF Layout
  <1>8. RecsInv' /\ OffsetInv'
    BY <1>1, <1>4, <1>5 DEF RecsInv, OffsetInv
  <1>9. PendingInv'
    <2>1. ASSUME NEW i \in 0..(RecHeaderSize - 1)
          PROVE  cells'[p.off + i] = <<p.gen, p.lsn, p.len, i>>
      <3> DEFINE o == p.off + i
      <3>1. /\ o \in Offsets /\ o - p.off \in 0..(RecHeaderSize - 1) /\ o - p.off = i
        <4>1. file_size <= MaxSize /\ file_size \in Nat
          BY FileSizeType
        <4> QED
          BY <1>1, <1>2, <1>4, <4>1 DEF Offsets
      <3>2. length % LenMod = length
        BY LengthKept
      <3>3. Store(p, 0, RecHeaderSize - 1)[o] = <<p.gen, p.lsn, p.len % LenMod, o - p.off>>
        <4> HIDE DEF o, p
        <4> QED
          BY <3>1, StoreInside, Zenon
      <3> QED
        BY <1>1, <1>2, <3>1, <3>2, <3>3
    <2>2. End(p) <= file_size
      BY <1>1, <1>2, <1>4 DEF End
    <2>3. /\ p.lsn + 1 = next_lsn' /\ p.off >= HeaderSize /\ last_sync_lsn' < p.lsn
          /\ current_offset' = p.off + RecHeaderSize
          /\ \A r \in recs' : r.lsn < p.lsn
      BY <1>1, <1>2, <1>4, <1>5
    <2> QED
      BY <1>1, <1>2, <2>1, <2>2, <2>3 DEF PendingInv, End
  <1>10. SyncInv'
    <2>1. \A r \in synced : r.gen = gen => r \in recs
      BY <1>3 DEF SyncInv
    <2>2. last_sync_lsn' < next_lsn'
      BY <1>1, <1>4
    <2> QED
      BY <1>1, <1>3, <1>6, <2>1, <2>2 DEF SyncInv, End, Holds
  <1> QED
    BY <1>7, <1>8, <1>9, <1>10

\* The data completes the record, which is acknowledged.
LEMMA DataStep ==
    ASSUME ShortRecords, WalInv, TypeOK', AppendData
    PROVE  WalInv'
  <1> USE DEF WalInv
  <1> DEFINE p == pending
             to == RecHeaderSize + p.len - 1
  <1>1. /\ pc = "appending" /\ pc' = "open"
        /\ cells' = Store(p, RecHeaderSize, to)
        /\ current_offset' = current_offset + p.len
        /\ total_writes' = total_writes + 1
        /\ total_bytes_written' = total_bytes_written + RecHeaderSize + p.len
        /\ recs' = recs \cup {p}
        /\ UNCHANGED <<disk, file_size, next_lsn, last_sync_lsn, synced, gen>>
    BY DEF AppendData, OffsetAfterData
  <1>2. /\ p \in Record /\ p.gen \in Nat /\ p.lsn \in Nat /\ p.off \in Nat /\ p.len \in Nat
    BY RecordType DEF TypeOK
  <1>3. /\ p.gen = gen /\ p.lsn + 1 = next_lsn /\ p.len \in Lengths /\ p.off >= HeaderSize
        /\ current_offset = p.off + RecHeaderSize /\ End(p) <= file_size
        /\ last_sync_lsn < p.lsn /\ \A r \in recs : r.lsn < p.lsn
        /\ \A i \in 0..(RecHeaderSize - 1) :
             cells[p.off + i] = <<p.gen, p.lsn, p.len, i>>
    BY <1>1 DEF PendingInv
  <1>4. /\ RecHeaderSize \in Nat /\ RecHeaderSize > 0 /\ HeaderSize \in Nat /\ MaxSize \in Nat
    BY WalAssumption
  <1>5. IsOpen /\ IsOpen' /\ Tail = p.off /\ Tail' = End(p)
    BY <1>1, <1>2, <1>3, <1>4 DEF IsOpen, Tail, End
  <1>6. file_size \in Nat /\ file_size <= MaxSize
    BY FileSizeType
  <1>7. End(p) \in Nat /\ End(p) <= MaxSize /\ p.off + RecHeaderSize <= End(p)
    BY <1>2, <1>3, <1>4, <1>6 DEF End
  <1>8. ASSUME NEW r \in recs
        PROVE  /\ r \in Record /\ End(r) \in Nat /\ End(r) <= p.off /\ Holds(cells', r)
               /\ End(r) <= file_size
    <2>1. /\ r \in Record /\ r.off >= HeaderSize /\ End(r) <= MaxSize
          /\ End(r) <= p.off /\ Holds(cells, r)
      BY <1>5, RecsInFile
    <2>2. End(r) \in Nat
      BY <2>1, <1>4, RecordType DEF End
    <2>3. RecHeaderSize \in Nat /\ to \in Int
      BY <1>2, <1>4
    <2>4. Holds(cells', r)
      <3> HIDE DEF p, to, WalInv
      <3>1. Holds(Store(p, RecHeaderSize, to), r)
        BY <1>2, <2>1, <2>3, StoreKeeps
      <3> QED
        BY <1>1, <3>1
    <2>5. End(r) <= file_size
      BY <1>5 DEF Layout, IsOpen, InFile
    <2> QED
      BY <2>1, <2>2, <2>4, <2>5
  <1>9. Holds(cells', p)
    <2> SUFFICES ASSUME NEW i \in 0..(RecHeaderSize + p.len - 1)
                 PROVE  cells'[p.off + i] = <<p.gen, p.lsn, p.len, i>>
      BY DEF Holds
    <2> DEFINE o == p.off + i
    <2>1. o \in Offsets /\ o - p.off = i
      BY <1>2, <1>3, <1>4, <1>7 DEF Offsets, End
    <2>2. CASE i \in 0..(RecHeaderSize - 1)
      <3>1. ~(o - p.off \in RecHeaderSize..to)
        BY <2>1, <2>2, <1>2, <1>4
      <3>2. Store(p, RecHeaderSize, to)[o] = cells[o]
        <4> HIDE DEF o, p, to
        <4> QED
          BY <2>1, <3>1, StoreOutside, Zenon
      <3> QED
        BY <1>1, <1>3, <2>2, <3>2
    <2>3. CASE i \in RecHeaderSize..to
      <3>1. o - p.off \in RecHeaderSize..to
        BY <2>1, <2>3
      <3>2. Store(p, RecHeaderSize, to)[o] = <<p.gen, p.lsn, p.len % LenMod, o - p.off>>
        <4> HIDE DEF o, p, to
        <4> QED
          BY <2>1, <3>1, StoreInside, Zenon
      <3>3. p.len % LenMod = p.len
        BY <1>3, LengthKept
      <3> QED
        BY <1>1, <2>1, <3>2, <3>3
    <2> QED
      BY <2>2, <2>3, <1>2, <1>4
  <1>10. p \notin recs
    BY <1>2, <1>3
  <1>11. InFile'
    <2>1. End(p) <= End(p) /\ \A r \in recs : End(r) <= End(p)
      BY <1>2, <1>4, <1>7, <1>8
    <2>2. \A r \in recs' : End(r) <= file_size /\ End(r) <= Tail' /\ Holds(cells', r)
      BY <1>1, <1>3, <1>5, <1>8, <1>9, <2>1
    <2> QED
      BY <1>1, <2>2 DEF InFile, End
  <1>12. Ordered'
    <2>1. \A r \in recs : Before(r, p)
      BY <1>3, <1>8 DEF Before
    <2>2. \A r, s \in recs : r = s \/ Before(r, s) \/ Before(s, r)
      BY <1>5 DEF Layout, IsOpen, Ordered
    <2>3. \A r, s \in recs' : r = s \/ Before(r, s) \/ Before(s, r)
      BY <1>1, <2>1, <2>2
    <2> QED
      BY <2>3 DEF Ordered, Before, End
  <1>13. NoGap'
    <2>1. \A o \in HeaderSize..(p.off - 1) : \E r \in recs : o \in r.off..(End(r) - 1)
      BY <1>5 DEF Layout, IsOpen, NoGap
    <2>2. ASSUME NEW o \in HeaderSize..(End(p) - 1)
          PROVE  \E r \in recs' : o \in r.off..(End(r) - 1)
      <3>1. CASE o \in HeaderSize..(p.off - 1)
        BY <1>1, <2>1, <3>1
      <3>2. CASE o \in p.off..(End(p) - 1)
        BY <1>1, <3>2
      <3> QED
        BY <3>1, <3>2, <1>2, <1>4, <1>7
    <2> QED
      BY <1>5, <2>2 DEF NoGap, End
  <1>14. IsFiniteSet(recs') /\ Cardinality(recs') = Cardinality(recs) + 1
    BY <1>1, <1>10, FS_AddElement DEF RecsInv
  <1>15. CountersAgree'
    <2>1. total_writes = Cardinality(recs) /\ total_bytes_written = p.off - HeaderSize
      BY <1>5 DEF Layout, IsOpen, CountersAgree
    <2>2. total_bytes_written' = End(p) - HeaderSize
      BY <1>1, <1>2, <1>4, <2>1 DEF End
    <2> QED
      BY <1>1, <1>5, <1>14, <2>1, <2>2 DEF CountersAgree
  <1>16. Layout'
    BY <1>11, <1>12, <1>13, <1>15 DEF Layout
  <1>17. RecsInv'
    <2>1. p.lsn < next_lsn
      BY <1>2, <1>3
    <2> QED
      BY <1>1, <1>3, <1>14, <2>1 DEF RecsInv
  <1>18. OffsetInv' /\ PendingInv'
    BY <1>1, <1>2, <1>3, <1>4 DEF OffsetInv, PendingInv
  <1>19. SyncInv'
    <2>1. \A r \in synced : r.gen = gen => r \in recs
      BY <1>5 DEF SyncInv
    <2>2. \A r \in recs' : r.lsn <= last_sync_lsn => r \in synced
      <3>1. ~(p.lsn <= last_sync_lsn)
        BY <1>2, <1>3 DEF TypeOK
      <3> QED
        BY <1>1, <1>5, <3>1 DEF SyncInv
    <2>3. \A r \in synced : r.gen = gen =>
            /\ r.off >= HeaderSize /\ End(r) <= MaxSize
            /\ Holds(cells', r) /\ Holds(disk'.cells, r)
      BY <1>1, <1>8, <2>1 DEF SyncInv
    <2>4. last_sync_lsn < next_lsn /\ \A r \in synced : r.gen <= gen
      BY <1>5 DEF SyncInv
    <2> QED
      BY <1>1, <2>1, <2>2, <2>3, <2>4 DEF SyncInv, Holds, End
  <1> QED
    BY <1>16, <1>17, <1>18, <1>19

-----------------------------------------------------------------------------
(* Types *)

LEMMA HeaderType ==
    ASSUME NEW s \in Sizes \cup {0}, NEW salt \in Salts, NEW g \in Garbage
    PROVE  CreateWalHeader(s, salt, g) \in Header
  <1>1. salt \in 0..(CrcMod - 1) /\ g \in 0..(CrcMod - 1)
    BY WalAssumption
  <1>2. Crc(salt, g) \in 0..(CrcMod - 1)
    BY <1>1, CrcType
  <1> QED
    BY <1>1, <1>2 DEF CreateWalHeader, Header

\* Opening, in either way.
LEMMA OpenType ==
    ASSUME TypeOK, NEW s \in Sizes \cup {0}, OpenHandle(s), size' \in Nat,
           header' \in Header, UNCHANGED <<cells, disk, crashes>>
    PROVE  TypeOK'
  BY WalAssumption DEF TypeOK, OffsetInMapping, OpenHandle

LEMMA CreateType ==
    ASSUME TypeOK,
           \/ \E s \in Sizes : CreateTruncate(s)
           \/ \E salt \in Salts, g \in Garbage : CreateHeader(salt, g) \/ MapFails(salt, g)
           \/ CreateFails \/ OpenExisting \/ OpenRejected
    PROVE  TypeOK'
  <1>1. ASSUME NEW s \in Sizes, CreateTruncate(s) PROVE TypeOK'
    <2>1. s \in Nat
      BY WalAssumption
    <2> QED
      BY <1>1, <2>1 DEF TypeOK, OffsetInMapping, CreateTruncate, history
  <1>2. ASSUME NEW salt \in Salts, NEW g \in Garbage,
               CreateHeader(salt, g) \/ MapFails(salt, g)
        PROVE  TypeOK'
    <2>0. WriteHeader(salt, g)
      BY <1>2 DEF CreateHeader, MapFails
    <2>1. file_size \in Sizes \cup {0} /\ size \in Nat
      BY DEF TypeOK
    <2>2. header' \in Header
      BY <2>0, <2>1, HeaderType DEF WriteHeader
    <2>3. size' \in Nat
      BY <2>0, <2>1, WalAssumption DEF WriteHeader
    <2>4. CASE CreateHeader(salt, g)
      BY <2>0, <2>1, <2>2, <2>3, <2>4, OpenType DEF CreateHeader, WriteHeader
    <2>5. CASE MapFails(salt, g)
      BY <2>0, <2>2, <2>3, <2>5 DEF TypeOK, OffsetInMapping, MapFails, WriteHeader, handle, history
    <2> QED
      BY <1>2, <2>4, <2>5
  <1>3. CASE CreateFails
    BY <1>3 DEF TypeOK, OffsetInMapping, CreateFails, cache, handle, history
  <1>4. CASE OpenExisting
    <2>1. header.file_size \in Sizes \cup {0} /\ size \in Nat /\ header \in Header
      BY DEF TypeOK, Header
    <2> QED
      BY <1>4, <2>1, OpenType DEF OpenExisting, cache
  <1>5. CASE OpenRejected
    BY <1>5 DEF TypeOK, OffsetInMapping, OpenRejected, cache, handle, history
  <1> QED
    BY <1>1, <1>2, <1>3, <1>4, <1>5

LEMMA AppendType ==
    ASSUME ShortRecords, TypeOK, PendingInv,
           \/ \E length \in Lengths : AppendNoSpace(length) \/ AppendHeader(length)
           \/ AppendData
    PROVE  TypeOK'
  <1>0. /\ next_lsn \in 1..(MaxLsn + 1) /\ MaxLsn \in Nat /\ current_offset \in Nat
        /\ RecHeaderSize \in Nat /\ gen \in Nat /\ cells \in [Offsets -> Cell]
        /\ total_writes \in Nat /\ total_bytes_written \in Nat
        /\ 0 \in Nat /\ RecHeaderSize - 1 \in Int
    BY WalAssumption DEF TypeOK
  <1>1. ASSUME NEW length \in Lengths, AppendNoSpace(length) PROVE TypeOK'
    <2>1. next_lsn' \in 1..(MaxLsn + 1)
      BY <1>0, <1>1 DEF AppendNoSpace
    <2> QED
      BY <1>1, <2>1 DEF TypeOK, OffsetInMapping, AppendNoSpace, cache, history
  <1>2. ASSUME NEW length \in Lengths, AppendHeader(length) PROVE TypeOK'
    <2>1. next_lsn' \in 1..(MaxLsn + 1) /\ current_offset' \in Nat
      BY <1>0, <1>2 DEF AppendHeader
    <2>2. pending' \in Record /\ pending'.len \in Lengths
      BY <1>0, <1>2 DEF AppendHeader, Record
    <2>3. cells' \in [Offsets -> Cell]
      BY <1>0, <1>2, <2>2, StoreType DEF AppendHeader
    <2>4. OffsetInMapping'
      BY <1>0, <1>2, FileSizeType, WalAssumption DEF AppendHeader, Fits, OffsetInMapping
    <2> QED
      BY <1>2, <2>1, <2>2, <2>3, <2>4 DEF TypeOK, AppendHeader
  <1>3. CASE AppendData
    <2>1. pending \in Record /\ pending.len \in Lengths
      BY <1>3 DEF AppendData, PendingInv, TypeOK
    <2>2. pending.len \in Nat
      BY <2>1, RecordType
    <2>3. RecHeaderSize + pending.len - 1 \in Int
      BY <1>0, <2>2
    <2>4. cells' \in [Offsets -> Cell]
      BY <1>0, <1>3, <2>1, <2>3, StoreType DEF AppendData
    <2>5. current_offset' \in Nat /\ total_writes' \in Nat /\ total_bytes_written' \in Nat
      BY <1>0, <1>3, <2>2 DEF AppendData, OffsetAfterData
    <2>6. recs' \subseteq Record
      BY <1>3, <2>1 DEF TypeOK, AppendData
    <2>7. OffsetInMapping'
      <3>1. pending.off \in Nat /\ RecHeaderSize \in Nat
        BY <2>1, RecordType, WalAssumption
      <3> QED
        BY <1>0, <1>3, <2>2, <3>1, FileSizeType
           DEF AppendData, OffsetAfterData, OffsetInMapping, PendingInv, End
    <2> QED
      BY <1>3, <2>4, <2>5, <2>6, <2>7 DEF TypeOK, AppendData
  <1> QED
    BY <1>1, <1>2, <1>3

LEMMA MediumType ==
    ASSUME TypeOK,
           \/ Sync \/ SyncFails \/ Destroy
           \/ WritebackSize \/ WritebackHeader
           \/ \E o \in Offsets : WritebackCell(o)
           \/ Crash \/ PowerFailure
    PROVE  TypeOK'
  <1> DEFINE Medium == [size : Nat, header : Header, cells : [Offsets -> Cell]]
  <1>0. /\ disk \in Medium /\ size \in Nat /\ header \in Header
        /\ cells \in [Offsets -> Cell]
        /\ recs \subseteq Record /\ synced \subseteq Record
    BY DEF TypeOK
  <1>1. [size |-> size, header |-> header, cells |-> cells] \in Medium
    BY <1>0
  <1>2. CASE Sync
    <2>1. last_sync_lsn' \in 0..MaxLsn
      BY <1>2, WalAssumption DEF TypeOK, Sync
    <2>2. synced' \subseteq Record /\ disk' \in Medium
      BY <1>0, <1>1, <1>2 DEF Sync, SyncOK, Flush
    <2> QED
      BY <1>2, <2>1, <2>2 DEF TypeOK, OffsetInMapping, Sync, cache
  <1>3. CASE SyncFails
    BY <1>3 DEF TypeOK, OffsetInMapping, SyncFails, cache, handle, history
  <1>4. CASE Destroy
    <2>1. synced' \subseteq Record /\ disk' \in Medium
      BY <1>0, <1>1, <1>4 DEF Destroy, SyncOK, Flush
    <2> QED
      BY <1>4, <2>1 DEF TypeOK, OffsetInMapping, Destroy, cache, handle
  <1>5. CASE WritebackSize
    <2>1. disk' \in Medium
      BY <1>0, <1>5 DEF WritebackSize
    <2> QED
      BY <1>5, <2>1 DEF TypeOK, OffsetInMapping, WritebackSize, cache, handle, history
  <1>6. CASE WritebackHeader
    <2>1. disk' \in Medium
      BY <1>0, <1>6 DEF WritebackHeader
    <2> QED
      BY <1>6, <2>1 DEF TypeOK, OffsetInMapping, WritebackHeader, cache, handle, history
  <1>7. ASSUME NEW o \in Offsets, WritebackCell(o) PROVE TypeOK'
    <2>1. disk' \in Medium
      BY <1>0, <1>7 DEF WritebackCell
    <2> QED
      BY <1>7, <2>1 DEF TypeOK, OffsetInMapping, WritebackCell, cache, handle, history
  <1>8. CASE Crash
    BY <1>8, WalAssumption DEF TypeOK, OffsetInMapping, Crash, cache, handle, history
  <1>9. CASE PowerFailure
    <2>1. size' \in Nat /\ header' \in Header /\ cells' \in [Offsets -> Cell]
      BY <1>0, <1>9 DEF PowerFailure
    <2> QED
      BY <1>9, <2>1, WalAssumption DEF TypeOK, OffsetInMapping, PowerFailure, handle, history
  <1> QED
    BY <1>2, <1>3, <1>4, <1>5, <1>6, <1>7, <1>8, <1>9

-----------------------------------------------------------------------------
(* The theorems *)

LEMMA WalNext ==
    ASSUME ShortRecords, WalInv, [Next]_vars
    PROVE  WalInv'
  <1>0. CASE UNCHANGED vars
    BY <1>0 DEF vars, cache, handle, history, WalInv, TypeOK, Layout, InFile, Ordered,
                Before, NoGap, CountersAgree, Tail, End, Holds, RecsInv, PendingInv, SyncInv,
                OffsetInv, OffsetInMapping, IsOpen
  <1> SUFFICES ASSUME Next PROVE WalInv'
    BY <1>0
  <1>1. TypeOK'
    BY CreateType, AppendType, MediumType DEF Next, WalInv
  <1>2. ASSUME NEW s \in Sizes, CreateTruncate(s) PROVE WalInv'
    <2>1. /\ pc' = "creating" /\ disk'.cells = disk.cells
          /\ UNCHANGED <<cells, recs, synced, gen, next_lsn>>
      BY <1>2 DEF CreateTruncate, history
    <2> QED
      BY <1>1, <2>1, ClosedStep DEF IsOpen
  <1>3. ASSUME NEW salt \in Salts, NEW g \in Garbage, CreateHeader(salt, g) PROVE WalInv'
    BY <1>1, <1>3, OpenStep DEF CreateHeader, WriteHeader
  <1>13. ASSUME NEW salt \in Salts, NEW g \in Garbage, MapFails(salt, g) PROVE WalInv'
    <2>1. /\ pc' = "closed" /\ disk'.cells = disk.cells
          /\ UNCHANGED <<cells, recs, synced, gen, next_lsn>>
      BY <1>13 DEF MapFails, WriteHeader, handle, history
    <2> QED
      BY <1>1, <2>1, ClosedStep DEF IsOpen
  <1>4. CASE CreateFails \/ OpenRejected \/ Crash
    <2>1. /\ pc' = "closed" /\ disk'.cells = disk.cells
          /\ UNCHANGED <<cells, recs, synced, gen, next_lsn>>
      BY <1>4 DEF CreateFails, OpenRejected, Crash, cache, handle, history
    <2> QED
      BY <1>1, <2>1, ClosedStep DEF IsOpen
  <1>5. CASE OpenExisting
    BY <1>1, <1>5, OpenStep DEF OpenExisting, cache
  <1>6. ASSUME NEW length \in Lengths, AppendNoSpace(length) \/ AppendHeader(length)
        PROVE  WalInv'
    BY <1>1, <1>6, NoSpaceStep, HeaderStep
  <1>7. CASE AppendData
    BY <1>1, <1>7, DataStep
  <1>8. CASE Sync
    BY <1>1, <1>8, SyncStep DEF Sync, SyncOK, Flush, cache
  <1>9. CASE SyncFails \/ WritebackSize \/ WritebackHeader
    <2>1. /\ disk'.cells = disk.cells
          /\ UNCHANGED <<pc, cells, file_size, current_offset, next_lsn, last_sync_lsn,
                         total_writes, total_bytes_written, pending, recs, synced, gen>>
      BY <1>9 DEF SyncFails, WritebackSize, WritebackHeader, cache, handle, history,
                  WalInv, TypeOK
    <2> QED
      BY <1>1, <2>1, MediumStep
  <1>10. CASE Destroy
    <2>1. CASE SyncOK
      BY <1>1, <1>10, <2>1, SyncStep DEF Destroy, SyncOK, Flush, cache, handle
    <2>2. CASE UNCHANGED <<disk, synced>>
      <3>1. /\ pc' = "closed" /\ disk'.cells = disk.cells
            /\ UNCHANGED <<cells, recs, synced, gen, next_lsn>>
        BY <1>10, <2>2 DEF Destroy, cache, handle
      <3> QED
        BY <1>1, <3>1, ClosedStep DEF IsOpen
    <2> QED
      BY <1>10, <2>1, <2>2 DEF Destroy
  <1>11. ASSUME NEW o \in Offsets, WritebackCell(o) PROVE WalInv'
    <2>1. /\ disk' = [disk EXCEPT !.cells[o] = cells[o]]
          /\ UNCHANGED <<pc, cells, file_size, current_offset, next_lsn, last_sync_lsn,
                         total_writes, total_bytes_written, pending, recs, synced, gen>>
      BY <1>11 DEF WritebackCell, cache, handle, history
    <2>2. \A q \in Offsets : disk'.cells[q] = disk.cells[q] \/ disk'.cells[q] = cells[q]
      BY <2>1 DEF WalInv, TypeOK
    <2> QED
      BY <1>1, <2>1, <2>2, MediumStep
  <1>12. CASE PowerFailure
    BY <1>1, <1>12, PowerStep
  <1> QED
    BY <1>2, <1>3, <1>4, <1>5, <1>6, <1>7, <1>8, <1>9, <1>10, <1>11, <1>12,
       <1>13 DEF Next

\* The inductive invariant holds in every behaviour.
THEOREM WalInvariant ==
    ASSUME ShortRecords
    PROVE  Spec => []WalInv
  <1>1. Init => WalInv
    BY WalInit
  <1>2. WalInv /\ [Next]_vars => WalInv'
    BY WalNext
  <1> QED
    BY <1>1, <1>2, PTL DEF Spec

\* A log whose record lengths fit the 32-bit field always holds its acknowledged
\* records in order, whole and without gaps (xdevice_wal_append).
THEOREM LayoutKept ==
    ASSUME ShortRecords
    PROVE  Spec => []Layout
  <1>1. WalInv => Layout
    BY DEF WalInv
  <1> QED
    BY <1>1, WalInvariant, PTL

\* Every field of the log, of its file and of the medium keeps its type, in
\* whatever state crashes leave them (wal_engine.c:13-57).
THEOREM WalTypes ==
    ASSUME ShortRecords
    PROVE  Spec => []TypeOK
  <1>1. WalInv => TypeOK
    BY DEF WalInv
  <1> QED
    BY <1>1, WalInvariant, PTL

\* What a successful xdevice_wal_sync covered is on the medium, through crashes
\* and power failures, until a later handle writes.
THEOREM SyncDurable ==
    ASSUME ShortRecords
    PROVE  Spec => []SyncedDurable
  <1>1. ASSUME WalInv PROVE SyncedDurable
    <2>1. \A r \in synced : r.gen = gen => Holds(disk.cells, r)
      BY <1>1 DEF WalInv, SyncInv
    <2>2. ASSUME IsOpen, NEW r \in recs, r.lsn <= last_sync_lsn
          PROVE  Holds(disk.cells, r)
      <3>1. r \in synced /\ r.gen = gen
        BY <1>1, <2>2 DEF WalInv, SyncInv, RecsInv
      <3> QED
        BY <2>1, <3>1
    <2> QED
      BY <2>1, <2>2 DEF SyncedDurable, IsOpen
  <1> QED
    BY <1>1, WalInvariant, PTL
=============================================================================
