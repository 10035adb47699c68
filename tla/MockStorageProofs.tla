-------------------------- MODULE MockStorageProofs --------------------------
(***************************************************************************)
(* The in-memory backend, for every set of threads, paths and limits: its  *)
(* list stays sound, its counters lose nothing, and it implements          *)
(* FileStore.                                                              *)
(***************************************************************************)
EXTENDS MockStorage, DataLemmas

USE MockAssumption

-----------------------------------------------------------------------------
(* One file *)

File == [path : Path, size : Nat, data : Seq(Nat)]

\* The bytes of a file are allocated, and the reserve behind them is zero.
Sane(f) ==
    /\ f.size <= Len(f.data)
    /\ \A k \in (f.size + 1)..Len(f.data) : f.data[k] = Zero

Text(f) == SubSeq(f.data, 1, f.size)

\* A function on 1..n is a sequence of length n.
LEMMA FunctionIsSeq ==
    ASSUME NEW S, NEW n \in Nat, NEW g \in [1..n -> S]
    PROVE  g \in Seq(S) /\ Len(g) = n
OBVIOUS

LEMMA TextIs ==
    ASSUME NEW f \in File, Sane(f)
    PROVE  /\ Text(f) = [k \in 1..f.size |-> f.data[k]]
           /\ Text(f) \in Seq(Nat) /\ Len(Text(f)) = f.size
<1>1. f.size \in Nat /\ f.data \in Seq(Nat) /\ f.size <= Len(f.data) /\ Len(f.data) \in Nat
  BY LenProperties DEF File, Sane
<1>2. \A i \in 1..f.size : f.data[i] \in Nat
  BY <1>1, ElementOfSeq
<1>3. /\ Text(f) \in Seq(Nat) /\ Len(Text(f)) = f.size
      /\ \A i \in 1..f.size : Text(f)[i] = f.data[i]
  BY <1>1, <1>2, SubSeqProperties DEF Text
<1>4. DOMAIN Text(f) = 1..f.size /\ Text(f) \in [1..f.size -> Nat]
  BY <1>3, LenProperties
<1> QED BY <1>3, <1>4

\* A grown file keeps its bytes and has zeros behind them.
LEMMA GrownFile ==
    ASSUME NEW f \in File, Sane(f), NEW n \in Nat
    PROVE  /\ Grow(f, n) \in File /\ Sane(Grow(f, n))
           /\ Grow(f, n).path = f.path
           /\ Grow(f, n).size = IF n > f.size THEN n ELSE f.size
           /\ \A k \in 1..f.size : Grow(f, n).data[k] = f.data[k]
           /\ \A k \in (f.size + 1)..Grow(f, n).size : Grow(f, n).data[k] = Zero
<1>1. /\ f.size \in Nat /\ f.data \in Seq(Nat) /\ f.size <= Len(f.data) /\ Len(f.data) \in Nat
      /\ Zero \in Nat /\ f.path \in Path
      /\ \A k \in 1..Len(f.data) : f.data[k] \in Nat
      /\ \A k \in (f.size + 1)..Len(f.data) : f.data[k] = Zero
  BY LenProperties, ElementOfSeq DEF File, Sane
<1>2. CASE ~(n > f.size)
  <2>1. Grow(f, n) = f
    BY <1>2 DEF Grow
  <2> QED BY <2>1, <1>1, <1>2
<1>3. CASE n > f.size
  <2> DEFINE m == IF n <= Len(f.data) THEN Len(f.data) ELSE 2 * n
             d == [i \in 1..m |->
                     IF i <= f.size \/ (n <= Len(f.data) /\ i > n) THEN f.data[i] ELSE Zero]
  <2>1. Grow(f, n) = [f EXCEPT !.size = n, !.data = d]
    BY <1>3 DEF Grow, expand_file
  <2>2. m \in Nat /\ n <= m /\ f.size <= m
    BY <1>1, <1>3
  <2>3. d \in [1..m -> Nat]
    <3>1. ASSUME NEW i \in 1..m
          PROVE  (IF i <= f.size \/ (n <= Len(f.data) /\ i > n) THEN f.data[i] ELSE Zero) \in Nat
      BY <1>1
    <3> HIDE DEF m
    <3> QED BY <3>1
  <2>4. \A k \in 1..m : d[k] = IF k <= f.size THEN f.data[k] ELSE Zero
    BY <1>1, <1>3
  <2> HIDE DEF m, d
  <2>5. d \in Seq(Nat) /\ Len(d) = m
    BY <2>2, <2>3, FunctionIsSeq
  <2>6. /\ Grow(f, n) \in File /\ Grow(f, n).path = f.path /\ Grow(f, n).size = n
        /\ Grow(f, n).data = d
    BY <2>1, <2>5 DEF File
  <2>7. Sane(Grow(f, n))
    BY <2>2, <2>4, <2>5, <2>6, <1>1, <1>3 DEF Sane
  <2>8. /\ \A k \in 1..f.size : d[k] = f.data[k]
        /\ \A k \in (f.size + 1)..n : d[k] = Zero
    <3>1. f.size \in Nat /\ n \in Nat
      BY <1>1
    <3>2. ASSUME NEW k \in 1..f.size PROVE d[k] = f.data[k]
      BY <2>2, <2>4, <3>1
    <3>3. ASSUME NEW k \in (f.size + 1)..n PROVE d[k] = Zero
      BY <2>2, <2>4, <3>1
    <3> QED BY <3>2, <3>3
  <2> QED BY <2>6, <2>7, <2>8, <1>3
<1> QED BY <1>2, <1>3

\* memcpy within a file changes the bytes it copies to and no others.
LEMMA OverlaidFile ==
    ASSUME NEW f \in File, Sane(f), NEW offset \in Nat, NEW data \in Seq(Nat),
           offset + Len(data) <= f.size
    PROVE  LET g == Overlay(f, offset, data)
           IN  /\ g \in File /\ Sane(g) /\ g.path = f.path /\ g.size = f.size
               /\ \A k \in 1..f.size :
                    g.data[k] = IF k \in (offset + 1)..(offset + Len(data))
                                THEN data[k - offset] ELSE f.data[k]
<1> DEFINE m == Len(f.data)
           d == [i \in 1..m |-> IF i \in (offset + 1)..(offset + Len(data))
                                THEN data[i - offset] ELSE f.data[i]]
           g == Overlay(f, offset, data)
<1>1. /\ f.size \in Nat /\ f.data \in Seq(Nat) /\ f.size <= m /\ m \in Nat
      /\ DOMAIN f.data = 1..m /\ Len(data) \in Nat
      /\ \A k \in 1..m : f.data[k] \in Nat
      /\ \A k \in 1..Len(data) : data[k] \in Nat
      /\ \A k \in (f.size + 1)..m : f.data[k] = Zero
  BY LenProperties, ElementOfSeq DEF File, Sane
<1>2. g = [f EXCEPT !.data = d]
  BY <1>1 DEF Overlay
<1>3. d \in [1..m -> Nat]
  <2>1. ASSUME NEW i \in 1..m
        PROVE  (IF i \in (offset + 1)..(offset + Len(data)) THEN data[i - offset]
                ELSE f.data[i]) \in Nat
    BY <1>1
  <2> HIDE DEF m
  <2> QED BY <2>1
<1>4. /\ \A k \in 1..m : d[k] = IF k \in (offset + 1)..(offset + Len(data))
                                THEN data[k - offset] ELSE f.data[k]
  OBVIOUS
<1> HIDE DEF d, g
<1>5. d \in Seq(Nat) /\ Len(d) = m
  BY <1>1, <1>3, FunctionIsSeq
<1>6. g \in File /\ g.path = f.path /\ g.size = f.size /\ g.data = d
  BY <1>2, <1>5 DEF File
<1>7. Sane(g)
  <2>1. ASSUME NEW k \in (f.size + 1)..m
        PROVE  d[k] = Zero
    <3>1. k \in 1..m /\ k \notin (offset + 1)..(offset + Len(data))
      BY <1>1
    <3>2. f.data[k] = Zero
      BY <1>1
    <3> QED BY <3>1, <3>2, <1>4
  <2> QED BY <2>1, <1>1, <1>5, <1>6 DEF Sane
<1>8. \A k \in 1..f.size : k \in 1..m
  BY <1>1
<1>9. /\ g \in File /\ Sane(g) /\ g.path = f.path /\ g.size = f.size
      /\ \A k \in 1..f.size :
           g.data[k] = IF k \in (offset + 1)..(offset + Len(data))
                       THEN data[k - offset] ELSE f.data[k]
  BY <1>4, <1>6, <1>7, <1>8
<1> QED BY <1>9 DEF g

\* What a write leaves: the file of FileStore's WriteOK, or, beyond the limit, of
\* its GrowOnly.
LEMMA WrittenFile ==
    ASSUME NEW f \in File, Sane(f), NEW offset \in Nat, NEW data \in Seq(Nat),
           NEW n \in Nat, n = offset + Len(data)
    PROVE  LET g == WriteFile(f, offset, data, n)
           IN  /\ g \in File /\ Sane(g) /\ g.path = f.path
               /\ Grow(f, n).size = IF n > f.size THEN n ELSE f.size
               /\ g.size = Grow(f, n).size
               /\ Grow(f, n).size <= max_file_size => Text(g) = FS!Patch(Text(f), offset, data)
               /\ Grow(f, n).size > max_file_size =>
                    Text(g) = IF n > f.size THEN FS!Window(Text(f), 0, n) ELSE Text(f)
<1> DEFINE h == Grow(f, n)
           g == WriteFile(f, offset, data, n)
<1>1. /\ h \in File /\ Sane(h) /\ h.path = f.path
      /\ h.size = IF n > f.size THEN n ELSE f.size
      /\ \A k \in 1..f.size : h.data[k] = f.data[k]
      /\ \A k \in (f.size + 1)..h.size : h.data[k] = Zero
  BY GrownFile
<1>2. /\ f.size \in Nat /\ h.size \in Nat /\ Len(data) \in Nat
      /\ \A k \in 1..h.size : k \in 1..f.size \/ k \in (f.size + 1)..h.size
  BY <1>1, LenProperties DEF File
<1>3. g = IF h.size > max_file_size THEN h ELSE Overlay(h, offset, data)
  BY DEF WriteFile
<1> SUFFICES /\ g \in File /\ Sane(g) /\ g.path = f.path
             /\ h.size = IF n > f.size THEN n ELSE f.size
             /\ g.size = h.size
             /\ h.size <= max_file_size => Text(g) = FS!Patch(Text(f), offset, data)
             /\ h.size > max_file_size =>
                  Text(g) = IF n > f.size THEN FS!Window(Text(f), 0, n) ELSE Text(f)
  OBVIOUS
<1> HIDE DEF h, g
<1>4. /\ Text(f) = [k \in 1..f.size |-> f.data[k]]
      /\ Len(Text(f)) = f.size
  BY TextIs
<1>5. CASE h.size > max_file_size
  <2>1. g = h
    BY <1>3, <1>5
  <2>2. Text(h) = [k \in 1..h.size |-> h.data[k]]
    BY <1>1, TextIs
  <2>3. CASE n > f.size
    <3>1. h.size = n
      BY <2>3, <1>1
    <3>2. FS!Window(Text(f), 0, n) = [k \in 1..n |-> IF k <= f.size THEN Text(f)[k] ELSE Zero]
      BY <1>4, <1>2 DEF FS!Window
    <3>3. ASSUME NEW k \in 1..n
          PROVE  h.data[k] = IF k <= f.size THEN Text(f)[k] ELSE Zero
      BY <1>1, <1>2, <1>4, <3>1
    <3>4. Text(h) = [k \in 1..n |-> IF k <= f.size THEN Text(f)[k] ELSE Zero]
      BY <2>2, <3>1, <3>3
    <3>5. Text(g) = FS!Window(Text(f), 0, n)
      BY <2>1, <3>2, <3>4
    <3> QED BY <2>1, <2>3, <3>5, <1>1, <1>5
  <2>4. CASE ~(n > f.size)
    <3>1. h.size = f.size
      BY <2>4, <1>1
    <3>2. Text(h) = Text(f)
      BY <2>2, <3>1, <1>1, <1>4
    <3>3. ~(h.size <= max_file_size)
      BY <1>2, <1>5
    <3>4. Text(g) = IF n > f.size THEN FS!Window(Text(f), 0, n) ELSE Text(f)
      BY <2>1, <2>4, <3>2
    <3> QED BY <2>1, <3>3, <3>4, <1>1
  <2> QED BY <2>3, <2>4
<1>6. CASE ~(h.size > max_file_size)
  <2>1. g = Overlay(h, offset, data) /\ offset + Len(data) <= h.size
    BY <1>1, <1>2, <1>3, <1>6
  <2>2. /\ g \in File /\ Sane(g) /\ g.path = h.path /\ g.size = h.size
        /\ \A k \in 1..h.size :
             g.data[k] = IF k \in (offset + 1)..(offset + Len(data))
                         THEN data[k - offset] ELSE h.data[k]
    BY <2>1, <1>1, OverlaidFile
  <2>3. Text(g) = [k \in 1..h.size |-> g.data[k]]
    BY <2>2, TextIs
  <2>4. ASSUME NEW k \in 1..h.size
        PROVE  h.data[k] = IF k <= f.size THEN Text(f)[k] ELSE Zero
    BY <1>1, <1>2, <1>4
  <2>5. FS!Patch(Text(f), offset, data) =
          [k \in 1..h.size |-> IF k \in (offset + 1)..(offset + Len(data)) THEN data[k - offset]
                               ELSE IF k <= f.size THEN Text(f)[k] ELSE Zero]
    BY <1>1, <1>4 DEF FS!Patch
  <2>6. Text(g) = FS!Patch(Text(f), offset, data)
    BY <2>2, <2>3, <2>4, <2>5
  <2> QED BY <2>2, <2>6, <1>1, <1>6
<1> QED BY <1>5, <1>6

LEMMA FreshFile ==
    ASSUME NEW p \in Path, NEW n \in Nat
    PROVE  /\ NewFile(p, n) \in File /\ Sane(NewFile(p, n))
           /\ NewFile(p, n).path = p /\ NewFile(p, n).size = n
           /\ Text(NewFile(p, n)) = FS!Zeros(n)
<1> DEFINE f == NewFile(p, n)
<1>1. FS!Zeros(n) \in [1..n -> Nat] /\ \A k \in 1..n : FS!Zeros(n)[k] = Zero
  BY DEF FS!Zeros
<1>2. FS!Zeros(n) \in Seq(Nat) /\ Len(FS!Zeros(n)) = n
  BY <1>1, FunctionIsSeq
<1>3. f \in File /\ f.path = p /\ f.size = n /\ f.data = FS!Zeros(n)
  BY <1>2 DEF File, NewFile
<1>4. Sane(f)
  BY <1>2, <1>3 DEF Sane
<1>5. Text(f) = [k \in 1..n |-> FS!Zeros(n)[k]]
  BY <1>3, <1>4, TextIs
<1>6. Text(f) = FS!Zeros(n)
  BY <1>1, <1>5
<1> QED BY <1>3, <1>4, <1>6

-----------------------------------------------------------------------------
(* The list *)

\* A list of files with different paths
Listing(fs) ==
    /\ fs \in Seq(File)
    /\ \A i \in 1..Len(fs) : Sane(fs[i])
    /\ \A i, j \in 1..Len(fs) : fs[i].path = fs[j].path => i = j

Paths(fs) == {fs[i].path : i \in 1..Len(fs)}

FindIn(fs, path) == SelectInSeq(fs, LAMBDA f : f.path = path)

ContentOf(fs) ==
    [p \in {fs[i].path : i \in DOMAIN fs} |->
        LET f == fs[SelectInSeq(fs, LAMBDA g : g.path = p)] IN SubSeq(f.data, 1, f.size)]

LEMMA ListingFacts ==
    ASSUME NEW fs, Listing(fs)
    PROVE  /\ fs \in Seq(File) /\ Len(fs) \in Nat /\ DOMAIN fs = 1..Len(fs)
           /\ \A i \in 1..Len(fs) : fs[i] \in File /\ Sane(fs[i]) /\ fs[i].path \in Path
<1>1. fs \in Seq(File) /\ \A i \in 1..Len(fs) : Sane(fs[i])
  BY DEF Listing
<1>2. Len(fs) \in Nat /\ DOMAIN fs = 1..Len(fs)
  BY <1>1, LenProperties
<1>3. \A i \in 1..Len(fs) : fs[i] \in File
  BY <1>1, ElementOfSeq
<1>4. \A f \in File : f.path \in Path
  BY DEF File
<1> QED BY <1>1, <1>2, <1>3, <1>4

\* find_file finds the file of a path, if there is one.
LEMMA FindInSound ==
    ASSUME NEW fs, Listing(fs), NEW path
    PROVE  /\ FindIn(fs, path) = 0 => path \notin Paths(fs)
           /\ FindIn(fs, path) # 0 => /\ FindIn(fs, path) \in 1..Len(fs)
                                      /\ fs[FindIn(fs, path)].path = path
                                      /\ path \in Paths(fs)
<1> DEFINE I == {i \in 1..Len(fs) : fs[i].path = path}
<1>1. FindIn(fs, path) = IF I # {} THEN Min(I) ELSE 0
  BY DEF FindIn, SelectInSeq
<1>2. I \subseteq Nat /\ 0 \notin I
  BY ListingFacts
<1>3. I # {} => Min(I) \in I
  <2> HIDE DEF I
  <2> QED BY <1>2, LeastElement
<1>4. I = {} => path \notin Paths(fs)
  BY DEF Paths
<1>5. \A i \in I : i \in 1..Len(fs) /\ fs[i].path = path /\ path \in Paths(fs)
  BY DEF Paths
<1> HIDE DEF I
<1> QED BY <1>1, <1>2, <1>3, <1>4, <1>5

\* The content of a listing is the text of its files, and nothing else is.
LEMMA ContentOfIs ==
    ASSUME NEW fs, Listing(fs)
    PROVE  /\ DOMAIN ContentOf(fs) = Paths(fs)
           /\ \A i \in 1..Len(fs) : ContentOf(fs)[fs[i].path] = Text(fs[i])
<1>0. DOMAIN fs = 1..Len(fs)
  BY ListingFacts
<1>1. ContentOf(fs) = [p \in Paths(fs) |-> Text(fs[FindIn(fs, p)])]
  BY <1>0 DEF ContentOf, Paths, FindIn, Text
<1>2. ASSUME NEW i \in 1..Len(fs)
      PROVE  fs[i].path \in Paths(fs) /\ FindIn(fs, fs[i].path) = i
  <2>1. fs[i].path \in Paths(fs)
    BY DEF Paths
  <2> DEFINE j == FindIn(fs, fs[i].path)
  <2>2. j \in 1..Len(fs) /\ fs[j].path = fs[i].path
    BY <2>1, FindInSound
  <2> HIDE DEF j
  <2>3. j = i
    BY <2>2 DEF Listing
  <2> QED BY <2>1, <2>3 DEF j
<1> QED BY <1>1, <1>2

LEMMA ContentOfOnly ==
    ASSUME NEW fs, Listing(fs), NEW D, NEW c, c = [p \in D |-> c[p]], D = Paths(fs),
           \A i \in 1..Len(fs) : c[fs[i].path] = Text(fs[i])
    PROVE  ContentOf(fs) = c
<1>1. /\ DOMAIN ContentOf(fs) = Paths(fs)
      /\ \A i \in 1..Len(fs) : ContentOf(fs)[fs[i].path] = Text(fs[i])
  BY ContentOfIs
<1>2. ContentOf(fs) = [p \in Paths(fs) |-> ContentOf(fs)[p]]
  BY <1>1 DEF ContentOf
<1>3. \A p \in Paths(fs) : ContentOf(fs)[p] = c[p]
  BY <1>1 DEF Paths
<1> QED BY <1>2, <1>3

\* The content of a listing once s has become the text of path
Put(fs, path, s) ==
    [q \in Paths(fs) \cup {path} |-> IF q = path THEN s ELSE ContentOf(fs)[q]]

\* A new file at the head of the list
LEMMA Prepended ==
    ASSUME NEW fs, Listing(fs), NEW f \in File, Sane(f), f.path \notin Paths(fs)
    PROVE  /\ Listing(<<f>> \o fs) /\ Len(<<f>> \o fs) = Len(fs) + 1
           /\ ContentOf(<<f>> \o fs) = Put(fs, f.path, Text(f))
<1> DEFINE gs == <<f>> \o fs
           c == [q \in Paths(fs) \cup {f.path} |->
                   IF q = f.path THEN Text(f) ELSE ContentOf(fs)[q]]
<1>0. /\ fs \in Seq(File) /\ Len(fs) \in Nat
      /\ \A i \in 1..Len(fs) : fs[i] \in File /\ Sane(fs[i])
  BY ListingFacts
<1>1. <<f>> \in Seq(File) /\ Len(<<f>>) = 1 /\ <<f>>[1] = f
  OBVIOUS
<1>2. /\ gs \in Seq(File) /\ Len(gs) = 1 + Len(fs)
      /\ \A i \in 1..1 + Len(fs) : gs[i] = IF i <= 1 THEN <<f>>[i] ELSE fs[i - 1]
  BY <1>0, <1>1, ConcatProperties
<1> HIDE DEF gs
<1>3. /\ gs \in Seq(File) /\ Len(gs) = Len(fs) + 1 /\ gs[1] = f
      /\ \A i \in 1..Len(fs) + 1 : i # 1 => i - 1 \in 1..Len(fs) /\ gs[i] = fs[i - 1]
      /\ \A i \in 1..Len(fs) : i + 1 \in 1..Len(fs) + 1 /\ gs[i + 1] = fs[i]
  BY <1>0, <1>1, <1>2
<1>4. Listing(gs)
  <2>1. \A i \in 1..Len(gs) : Sane(gs[i])
    BY <1>0, <1>3
  <2>2. ASSUME NEW i \in 1..Len(gs), NEW j \in 1..Len(gs), gs[i].path = gs[j].path
        PROVE  i = j
    <3>1. \A k \in 1..Len(fs) : fs[k].path # f.path
      BY DEF Paths
    <3>0. i \in 1..Len(fs) + 1 /\ j \in 1..Len(fs) + 1
      BY <1>3
    <3>2. CASE i = 1 \/ j = 1
      <4>1. ASSUME NEW k \in 1..Len(fs) + 1, k # 1
            PROVE  gs[k].path # gs[1].path
        BY <4>1, <3>1, <1>3
      <4> QED BY <4>1, <3>0, <3>2, <2>2
    <3>3. CASE i # 1 /\ j # 1
      <4>1. i - 1 \in 1..Len(fs) /\ j - 1 \in 1..Len(fs) /\ fs[i - 1].path = fs[j - 1].path
        BY <3>0, <3>3, <2>2, <1>3
      <4>2. i - 1 = j - 1
        BY <4>1 DEF Listing
      <4> QED BY <4>2, <3>0, <1>0
    <3> QED BY <3>2, <3>3
  <2> QED BY <2>1, <2>2, <1>3 DEF Listing
<1>5. Paths(gs) = Paths(fs) \cup {f.path}
  <2>1. ASSUME NEW p \in Paths(gs) PROVE p \in Paths(fs) \cup {f.path}
    <3>1. PICK i \in 1..Len(fs) + 1 : p = gs[i].path
      BY <1>3 DEF Paths
    <3>2. i = 1 => p = f.path
      BY <3>1, <1>3
    <3>3. i # 1 => i - 1 \in 1..Len(fs) /\ p = fs[i - 1].path
      BY <3>1, <1>3
    <3> QED BY <3>2, <3>3 DEF Paths
  <2>2. ASSUME NEW p \in Paths(fs) PROVE p \in Paths(gs)
    <3>1. PICK i \in 1..Len(fs) : p = fs[i].path
      BY DEF Paths
    <3>2. i + 1 \in 1..Len(gs) /\ p = gs[i + 1].path
      BY <3>1, <1>3
    <3> QED BY <3>2 DEF Paths
  <2>3. f.path \in Paths(gs)
    BY <1>0, <1>3 DEF Paths
  <2> QED BY <2>1, <2>2, <2>3
<1>6. ASSUME NEW i \in 1..Len(gs)
      PROVE  c[gs[i].path] = Text(gs[i])
  <2>1. CASE i = 1
    BY <2>1, <1>3
  <2>2. CASE i # 1
    <3>1. i - 1 \in 1..Len(fs) /\ gs[i] = fs[i - 1]
      BY <2>2, <1>3
    <3>2. gs[i].path \in Paths(fs)
      BY <3>1 DEF Paths
    <3>3. ContentOf(fs)[gs[i].path] = Text(gs[i])
      BY <3>1, ContentOfIs
    <3> QED BY <3>2, <3>3
  <2> QED BY <2>1, <2>2
<1>7. c = [p \in Paths(gs) |-> c[p]]
  BY <1>5
<1>8. ContentOf(gs) = c
  <2> HIDE DEF c
  <2> QED BY <1>4, <1>6, <1>7, ContentOfOnly
<1> QED BY <1>3, <1>4, <1>8 DEF gs, Put

\* gs is fs with f in the place of its i-th file.
Replaced(gs, fs, i, f) ==
    /\ i \in 1..Len(fs) /\ gs \in Seq(File) /\ Len(gs) = Len(fs)
    /\ \A k \in 1..Len(fs) : gs[k] = IF k = i THEN f ELSE fs[k]

\* A file that is changed in its place
LEMMA Updated ==
    ASSUME NEW fs, Listing(fs), NEW i, NEW f \in File, Sane(f),
           f.path = fs[i].path, NEW gs, Replaced(gs, fs, i, f)
    PROVE  /\ Listing(gs) /\ Len(gs) = Len(fs)
           /\ f.path \in Paths(fs)
           /\ ContentOf(gs) = Put(fs, f.path, Text(f))
<1> DEFINE c == [q \in Paths(fs) \cup {f.path} |->
                   IF q = f.path THEN Text(f) ELSE ContentOf(fs)[q]]
<1>0. /\ fs \in Seq(File) /\ Len(fs) \in Nat
      /\ \A k \in 1..Len(fs) : fs[k] \in File /\ Sane(fs[k])
  BY ListingFacts
<1>1. /\ i \in 1..Len(fs) /\ gs \in Seq(File) /\ Len(gs) = Len(fs)
      /\ \A k \in 1..Len(fs) : gs[k] = IF k = i THEN f ELSE fs[k]
  BY DEF Replaced
<1>2. \A k \in 1..Len(fs) : gs[k].path = fs[k].path /\ Sane(gs[k])
  BY <1>0, <1>1
<1>3. Listing(gs)
  BY <1>1, <1>2 DEF Listing
<1>4. f.path \in Paths(fs) /\ Paths(gs) = Paths(fs) \cup {f.path}
  BY <1>1, <1>2 DEF Paths
<1>5. ASSUME NEW k \in 1..Len(gs)
      PROVE  c[gs[k].path] = Text(gs[k])
  <2>1. gs[k].path \in Paths(fs)
    BY <1>1, <1>2 DEF Paths
  <2>2. CASE k = i
    BY <2>1, <2>2, <1>1
  <2>3. CASE k # i
    <3>1. gs[k] = fs[k] /\ fs[k].path # f.path
      BY <2>3, <1>1 DEF Listing
    <3>2. ContentOf(fs)[gs[k].path] = Text(gs[k])
      BY <3>1, <1>1, ContentOfIs
    <3> QED BY <2>1, <3>1, <3>2
  <2> QED BY <2>2, <2>3
<1>6. c = [p \in Paths(gs) |-> c[p]]
  BY <1>4
<1>7. ContentOf(gs) = c
  <2> HIDE DEF c
  <2> QED BY <1>3, <1>5, <1>6, ContentOfOnly
<1> QED BY <1>1, <1>3, <1>4, <1>7 DEF Put

\* A file that is unlinked
LEMMA Removed ==
    ASSUME NEW fs, Listing(fs), NEW i \in 1..Len(fs)
    PROVE  /\ Listing(RemoveAt(fs, i)) /\ Len(RemoveAt(fs, i)) = Len(fs) - 1
           /\ fs[i].path \in Paths(fs)
           /\ ContentOf(RemoveAt(fs, i)) =
                [q \in Paths(fs) \ {fs[i].path} |-> ContentOf(fs)[q]]
<1> DEFINE gs == RemoveAt(fs, i)
           Old(k) == IF k < i THEN k ELSE k + 1
           c == [q \in Paths(fs) \ {fs[i].path} |-> ContentOf(fs)[q]]
<1>0. /\ fs \in Seq(File) /\ Len(fs) \in Nat
      /\ \A k \in 1..Len(fs) : fs[k] \in File /\ Sane(fs[k])
  BY ListingFacts
<1>1. /\ gs \in Seq(File) /\ Len(gs) = Len(fs) - 1
      /\ \A k \in 1..Len(fs) - 1 : gs[k] = fs[Old(k)]
  BY <1>0, RemoveAtProperties
<1>2. /\ \A k \in 1..Len(fs) - 1 : Old(k) \in 1..Len(fs) /\ Old(k) # i
      /\ \A k, l \in 1..Len(fs) - 1 : Old(k) = Old(l) => k = l
      /\ \A j \in 1..Len(fs) : j # i => \E k \in 1..Len(fs) - 1 : Old(k) = j
  <2>1. ASSUME NEW j \in 1..Len(fs), j # i
        PROVE  \E k \in 1..Len(fs) - 1 : Old(k) = j
    <3>1. CASE j < i
      BY <3>1, <1>0
    <3>2. CASE j > i
      <4>1. j - 1 \in 1..Len(fs) - 1 /\ Old(j - 1) = j
        BY <3>2, <1>0
      <4> QED BY <4>1
    <3> QED BY <3>1, <3>2, <2>1, <1>0
  <2> QED BY <2>1, <1>0
<1> HIDE DEF gs, Old
<1>3. Listing(gs)
  <2>1. \A k \in 1..Len(gs) : Sane(gs[k])
    BY <1>0, <1>1, <1>2
  <2>2. ASSUME NEW k \in 1..Len(gs), NEW l \in 1..Len(gs), gs[k].path = gs[l].path
        PROVE  k = l
    <3>1. Old(k) = Old(l)
      BY <2>2, <1>1, <1>2 DEF Listing
    <3> QED BY <3>1, <1>1, <1>2
  <2> QED BY <2>1, <2>2, <1>1 DEF Listing
<1>4. Paths(gs) = Paths(fs) \ {fs[i].path} /\ fs[i].path \in Paths(fs)
  <2>1. ASSUME NEW k \in 1..Len(gs)
        PROVE  gs[k].path \in Paths(fs) /\ gs[k].path # fs[i].path
    BY <1>1, <1>2 DEF Paths, Listing
  <2>2. ASSUME NEW j \in 1..Len(fs), fs[j].path # fs[i].path
        PROVE  \E k \in 1..Len(gs) : gs[k].path = fs[j].path
    <3>0. j # i
      BY <2>2
    <3>1. PICK k \in 1..Len(fs) - 1 : Old(k) = j
      BY <3>0, <1>2
    <3>2. k \in 1..Len(gs) /\ gs[k] = fs[j]
      BY <3>1, <1>1
    <3> QED BY <3>2
  <2>3. Paths(gs) \subseteq Paths(fs) /\ fs[i].path \notin Paths(gs)
    <3>1. \A q \in Paths(gs) : \E k \in 1..Len(gs) : q = gs[k].path
      BY DEF Paths
    <3> QED BY <3>1, <2>1
  <2>4. \A q \in Paths(fs) : q # fs[i].path => q \in Paths(gs)
    <3>1. \A q \in Paths(fs) : \E j \in 1..Len(fs) : q = fs[j].path
      BY DEF Paths
    <3>2. \A k \in 1..Len(gs) : gs[k].path \in Paths(gs)
      BY DEF Paths
    <3> QED BY <3>1, <3>2, <2>2
  <2>5. fs[i].path \in Paths(fs)
    BY DEF Paths
  <2> QED BY <2>3, <2>4, <2>5
<1>5. ASSUME NEW k \in 1..Len(gs)
      PROVE  c[gs[k].path] = Text(gs[k])
  <2>1. gs[k].path \in Paths(gs)
    BY DEF Paths
  <2>2. gs[k] = fs[Old(k)] /\ Old(k) \in 1..Len(fs)
    BY <1>1, <1>2
  <2>3. ContentOf(fs)[gs[k].path] = Text(gs[k])
    BY <2>2, ContentOfIs
  <2> QED BY <2>1, <2>3, <1>4
<1>6. c = [p \in Paths(gs) |-> c[p]]
  BY <1>4
<1>7. ContentOf(gs) = c
  <2> HIDE DEF c
  <2> QED BY <1>3, <1>5, <1>6, ContentOfOnly
<1> QED BY <1>1, <1>3, <1>4, <1>7 DEF gs

-----------------------------------------------------------------------------
(* The counters *)

StatsRecord ==
    [read_ops : Nat, read_bytes : Nat, write_ops : Nat, write_bytes : Nat, error_count : Nat]

Work == [op : {"none", "read", "write"}, bytes : Nat]

CountersType ==
    /\ stats \in StatsRecord
    /\ todo \in [Thread -> Work]
    /\ acked \in [ops : Nat, bytes : Nat]

\* What the threads of fly have yet to add, in bytes
PendingBytes(work, fly) == FoldSet(LAMBDA t, sum : sum + work[t].bytes, 0, fly)

Weights(work, fly) == [t \in fly |-> work[t].bytes]

LEMMA PendingIsTotal ==
    ASSUME NEW fly \in SUBSET Thread, NEW work \in [Thread -> Work]
    PROVE  /\ PendingBytes(work, fly) = Total(Weights(work, fly), fly)
           /\ PendingBytes(work, fly) \in Nat
           /\ IsFiniteSet(fly) /\ Weights(work, fly) \in [fly -> Nat]
<1> DEFINE w == Weights(work, fly)
           Equation(f) ==
             f = [s \in SUBSET fly |-> IF s = {} THEN 0
                    ELSE f[s \ {CHOOSE x \in s : TRUE}] + work[CHOOSE x \in s : TRUE].bytes]
           g == CHOOSE iter : Equation(iter)
<1>0. IsFiniteSet(fly) /\ w \in [fly -> Nat]
  BY FS_Subset DEF Weights, Work
<1>1. PendingBytes(work, fly) = g[fly]
  BY DEF PendingBytes, FoldSet, MapThenFoldSet
<1>2. \A s \in SUBSET fly : s # {} => /\ (CHOOSE x \in s : TRUE) \in fly
                                      /\ w[Pick(s)] = work[CHOOSE x \in s : TRUE].bytes
  BY DEF Pick, Weights
<1>3. ASSUME NEW f
      PROVE  Sums(f, w, fly) <=> Equation(f)
  <2>1. [s \in SUBSET fly |-> IF s = {} THEN 0 ELSE f[s \ {Pick(s)}] + w[Pick(s)]] =
        [s \in SUBSET fly |-> IF s = {} THEN 0
            ELSE f[s \ {CHOOSE x \in s : TRUE}] + work[CHOOSE x \in s : TRUE].bytes]
    <3> HIDE DEF w
    <3> QED BY <1>2 DEF Pick
  <2> HIDE DEF w
  <2> QED BY <2>1 DEF Sums
<1>4. PICK f : Sums(f, w, fly)
  BY <1>0, SumsExist
<1>5. Equation(g)
  <2>1. Equation(f)
    BY <1>3, <1>4
  <2> HIDE DEF Equation
  <2> QED BY <2>1
<1> HIDE DEF Equation, g
<1>6. Sums(g, w, fly)
  BY <1>3, <1>5
<1> QED BY <1>0, <1>1, <1>6, TotalSums

\* Thread t has joined the threads of rest, and only its work differs.
Joins(t, rest, work, fly, new) ==
    /\ t \in Thread \ rest /\ rest \in SUBSET Thread /\ fly = rest \cup {t}
    /\ work \in [Thread -> Work] /\ new \in [Thread -> Work]
    /\ \A u \in Thread \ {t} : new[u] = work[u]

\* A thread that joins adds its bytes, and takes them along when it leaves.
LEMMA PendingJoins ==
    ASSUME NEW t, NEW rest, NEW work, NEW fly, NEW new, Joins(t, rest, work, fly, new)
    PROVE  PendingBytes(new, fly) = PendingBytes(work, rest) + new[t].bytes
<1> DEFINE v == Weights(new, fly)
           w == Weights(work, rest)
<1>1. /\ fly \in SUBSET Thread /\ rest \in SUBSET Thread /\ t \in fly /\ t \notin rest
      /\ fly = rest \cup {t}
  BY DEF Joins
<1>2. PendingBytes(new, fly) = Total(v, fly) /\ v \in [fly -> Nat]
  BY <1>1, PendingIsTotal DEF Joins
<1>3. /\ PendingBytes(work, rest) = Total(w, rest)
      /\ w \in [rest -> Nat] /\ IsFiniteSet(rest)
  BY <1>1, PendingIsTotal DEF Joins
<1>4. (\A u \in rest : v[u] = w[u]) /\ v[t] = new[t].bytes
  BY <1>1 DEF Weights, Joins
<1>5. Total(v, rest \cup {t}) = Total(w, rest) + v[t]
  <2>1. v \in [rest \cup {t} -> Nat]
    BY <1>1, <1>2
  <2> HIDE DEF v, w
  <2> QED BY <2>1, <1>1, <1>3, <1>4, TotalAdd
<1> QED BY <1>1, <1>2, <1>3, <1>4, <1>5

LEMMA PendingNone ==
    ASSUME NEW work \in [Thread -> Work]
    PROVE  PendingBytes(work, {}) = 0
<1>1. {} \in SUBSET Thread
  OBVIOUS
<1> QED BY <1>1, PendingIsTotal, TotalEmpty

\* No call is under way while the backend is not initialised.
ReadyInv == ready \in BOOLEAN /\ (~ready => InFlight = {})

CountersInv == CountersType /\ ReadyInv /\ StatsConserved

LEMMA ConservedIs ==
    StatsConserved <=>
        /\ stats.read_ops + stats.write_ops + Cardinality(InFlight) = acked.ops
        /\ stats.read_bytes + stats.write_bytes + PendingBytes(todo, InFlight) = acked.bytes
BY DEF StatsConserved, PendingBytes, FoldSet, MapThenFoldSet

LEMMA ConservedIsNext ==
    StatsConserved' <=>
        /\ stats'.read_ops + stats'.write_ops + Cardinality(InFlight') = acked'.ops
        /\ stats'.read_bytes + stats'.write_bytes + PendingBytes(todo', InFlight') = acked'.bytes
BY DEF StatsConserved, PendingBytes, FoldSet, MapThenFoldSet

\* What a step does to the counters
Errs ==
    /\ ready
    /\ stats' = [stats EXCEPT !.error_count = @ + 1]
    /\ UNCHANGED <<ready, todo, acked>>

Acks(t) ==
    \E op \in {"read", "write"}, bytes \in Nat :
        /\ ready /\ todo[t] = Idle
        /\ Count(t, op, bytes)
        /\ UNCHANGED <<ready, stats>>

Settles(t) ==
    /\ todo[t] # Idle
    /\ stats' = AddToStats(t)
    /\ todo' = [todo EXCEPT ![t] = Idle]
    /\ UNCHANGED <<ready, acked>>

Resets ==
    /\ ready
    /\ stats' = NoStats
    /\ acked' = [ops |-> Cardinality(InFlight), bytes |-> PendingBytes(todo, InFlight)]
    /\ UNCHANGED <<ready, todo>>

Closes ==
    /\ InFlight = {} /\ ready' = FALSE
    /\ UNCHANGED <<stats, todo, acked>>

Opens ==
    /\ ~ready /\ ready' = TRUE
    /\ stats' = NoStats /\ acked' = [ops |-> 0, bytes |-> 0]
    /\ UNCHANGED todo

Same == UNCHANGED <<ready, stats, todo, acked>>

LEMMA InFlightFinite ==
    /\ InFlight \in SUBSET Thread /\ IsFiniteSet(InFlight) /\ Cardinality(InFlight) \in Nat
<1>1. InFlight \in SUBSET Thread /\ IsFiniteSet(Thread)
  BY DEF InFlight
<1> QED BY <1>1, FS_Subset, FS_CardinalityType

ReadAdds(s, r, x, y) == r = [s EXCEPT !.read_ops = x, !.read_bytes = y]

LEMMA ReadCounted ==
    ASSUME NEW s \in StatsRecord, NEW x \in Nat, NEW y \in Nat, NEW r, ReadAdds(s, r, x, y)
    PROVE  /\ r \in StatsRecord /\ r.read_ops = x /\ r.read_bytes = y
           /\ r.write_ops = s.write_ops /\ r.write_bytes = s.write_bytes
<1> DEFINE a == [s EXCEPT !.read_ops = x]
<1>1. /\ a \in StatsRecord /\ a.read_ops = x /\ a.write_ops = s.write_ops
      /\ a.write_bytes = s.write_bytes
  BY DEF StatsRecord
<1>2. r = [a EXCEPT !.read_bytes = y]
  BY DEF ReadAdds
<1> HIDE DEF a
<1> QED BY <1>1, <1>2 DEF StatsRecord

WriteAdds(s, r, x, y) == r = [s EXCEPT !.write_ops = x, !.write_bytes = y]

LEMMA WriteCounted ==
    ASSUME NEW s \in StatsRecord, NEW x \in Nat, NEW y \in Nat, NEW r, WriteAdds(s, r, x, y)
    PROVE  /\ r \in StatsRecord /\ r.write_ops = x /\ r.write_bytes = y
           /\ r.read_ops = s.read_ops /\ r.read_bytes = s.read_bytes
<1> DEFINE a == [s EXCEPT !.write_ops = x]
<1>1. /\ a \in StatsRecord /\ a.write_ops = x /\ a.read_ops = s.read_ops
      /\ a.read_bytes = s.read_bytes
  BY DEF StatsRecord
<1>2. r = [a EXCEPT !.write_bytes = y]
  BY DEF WriteAdds
<1> HIDE DEF a
<1> QED BY <1>1, <1>2 DEF StatsRecord

\* A step loses no count and invents none.
LEMMA CountersStep ==
    ASSUME CountersInv,
           \/ Errs \/ Resets \/ Closes \/ Opens \/ Same
           \/ \E t \in Thread : Acks(t) \/ Settles(t)
    PROVE  CountersInv'
<1> DEFINE fly == InFlight
           n == Cardinality(InFlight)
           b == PendingBytes(todo, InFlight)
<1>0. /\ stats \in StatsRecord /\ todo \in [Thread -> Work] /\ acked \in [ops : Nat, bytes : Nat]
      /\ ready \in BOOLEAN /\ (~ready => fly = {})
      /\ stats.read_ops + stats.write_ops + n = acked.ops
      /\ stats.read_bytes + stats.write_bytes + b = acked.bytes
  BY ConservedIs DEF CountersInv, CountersType, ReadyInv
<1>1. /\ fly \in SUBSET Thread /\ IsFiniteSet(fly) /\ n \in Nat /\ b \in Nat
      /\ \A t \in Thread : t \in fly <=> todo[t] # Idle
      /\ Idle \in Work /\ NoStats \in StatsRecord
  <2>1. \A t \in Thread : t \in fly <=> todo[t] # Idle
    BY DEF InFlight
  <2>2. Idle \in Work /\ NoStats \in StatsRecord
    BY DEF Idle, Work, NoStats, StatsRecord
  <2> QED BY <1>0, <2>1, <2>2, InFlightFinite, PendingIsTotal
<1>2. /\ stats.read_ops \in Nat /\ stats.write_ops \in Nat
      /\ stats.read_bytes \in Nat /\ stats.write_bytes \in Nat /\ stats.error_count \in Nat
      /\ acked.ops \in Nat /\ acked.bytes \in Nat
  BY <1>0 DEF StatsRecord
<1>3. SUFFICES /\ stats' \in StatsRecord /\ todo' \in [Thread -> Work]
               /\ acked' \in [ops : Nat, bytes : Nat]
               /\ ready' \in BOOLEAN /\ (~ready' => InFlight' = {})
               /\ stats'.read_ops + stats'.write_ops + Cardinality(InFlight') = acked'.ops
               /\ stats'.read_bytes + stats'.write_bytes + PendingBytes(todo', InFlight')
                    = acked'.bytes
  BY ConservedIsNext DEF CountersInv, CountersType, ReadyInv
<1>4. todo' = todo => InFlight' = fly
  BY DEF InFlight
<1>5. ASSUME NEW t \in Thread, NEW r, todo' = [todo EXCEPT ![t] = r]
      PROVE  InFlight' = IF r = Idle THEN fly \ {t} ELSE fly \cup {t}
  <2>1. todo'[t] = r /\ \A u \in Thread \ {t} : todo'[u] = todo[u]
    BY <1>0, <1>5
  <2>2. InFlight' = {u \in Thread : todo'[u] # Idle}
    BY DEF InFlight
  <2> QED BY <2>1, <2>2 DEF InFlight
<1> HIDE DEF fly, n, b
<1>6. CASE Errs
  <2>1. /\ stats' = [stats EXCEPT !.error_count = @ + 1] /\ ready' = ready /\ todo' = todo
        /\ acked' = acked /\ InFlight' = fly
    BY <1>4, <1>6 DEF Errs
  <2>2. /\ stats' \in StatsRecord /\ stats'.read_ops = stats.read_ops
        /\ stats'.write_ops = stats.write_ops /\ stats'.read_bytes = stats.read_bytes
        /\ stats'.write_bytes = stats.write_bytes
    <3> DEFINE x == stats.error_count + 1
    <3>1. x \in Nat /\ stats' = [stats EXCEPT !.error_count = x]
      BY <2>1, <1>2
    <3> HIDE DEF x
    <3> QED BY <3>1, <1>0 DEF StatsRecord
  <2> QED BY <2>1, <2>2, <1>0 DEF n, b, fly
<1>7. CASE Resets
  <2>1. /\ stats' = NoStats /\ ready' = ready /\ todo' = todo /\ InFlight' = fly
        /\ acked' = [ops |-> n, bytes |-> b]
    BY <1>4, <1>7 DEF Resets, n, b
  <2>2. /\ stats' \in StatsRecord /\ stats'.read_ops = 0 /\ stats'.write_ops = 0
        /\ stats'.read_bytes = 0 /\ stats'.write_bytes = 0
    BY <2>1, <1>1 DEF NoStats
  <2>3. Cardinality(InFlight') = n /\ PendingBytes(todo', InFlight') = b
    BY <2>1 DEF n, b, fly
  <2> QED BY <2>1, <2>2, <2>3, <1>0, <1>1
<1>8. CASE Closes
  <2>1. InFlight = {} /\ ready' = FALSE /\ stats' = stats /\ todo' = todo /\ acked' = acked
        /\ InFlight' = fly
    BY <1>4, <1>8 DEF Closes
  <2> QED BY <2>1, <1>0 DEF n, b, fly
<1>9. CASE Opens
  <2>1. /\ ready' = TRUE /\ stats' = NoStats /\ todo' = todo /\ InFlight' = fly /\ fly = {}
        /\ acked' = [ops |-> 0, bytes |-> 0]
    BY <1>0, <1>4, <1>9 DEF Opens
  <2>2. /\ stats' \in StatsRecord /\ stats'.read_ops = 0 /\ stats'.write_ops = 0
        /\ stats'.read_bytes = 0 /\ stats'.write_bytes = 0
    BY <2>1, <1>1 DEF NoStats
  <2>3. Cardinality(InFlight') = 0 /\ PendingBytes(todo', InFlight') = 0
    BY <2>1, <1>0, PendingNone, FS_EmptySet
  <2> QED BY <2>1, <2>2, <2>3, <1>0
<1>10. CASE Same
  <2>1. UNCHANGED <<ready, stats, todo, acked>> /\ InFlight' = fly
    BY <1>4, <1>10 DEF Same
  <2> QED BY <2>1, <1>0 DEF n, b, fly
<1>11. ASSUME NEW t \in Thread, Acks(t)
       PROVE  /\ stats' \in StatsRecord /\ todo' \in [Thread -> Work]
              /\ acked' \in [ops : Nat, bytes : Nat]
              /\ ready' \in BOOLEAN /\ (~ready' => InFlight' = {})
              /\ stats'.read_ops + stats'.write_ops + Cardinality(InFlight') = acked'.ops
              /\ stats'.read_bytes + stats'.write_bytes + PendingBytes(todo', InFlight')
                   = acked'.bytes
  <2>1. PICK op \in {"read", "write"}, bytes \in Nat :
          /\ ready /\ todo[t] = Idle
          /\ todo' = [todo EXCEPT ![t] = [op |-> op, bytes |-> bytes]]
          /\ acked' = [ops |-> acked.ops + 1, bytes |-> acked.bytes + bytes]
          /\ ready' = ready /\ stats' = stats
    BY <1>11 DEF Acks, Count
  <2> DEFINE r == [op |-> op, bytes |-> bytes]
  <2>2. r \in Work /\ r # Idle /\ r.bytes = bytes
    BY DEF Work, Idle
  <2>3. t \notin fly /\ InFlight' = fly \cup {t}
    <3> HIDE DEF r
    <3> QED BY <2>1, <2>2, <1>1, <1>5 DEF r
  <2>4. Cardinality(InFlight') = n + 1
    BY <2>3, <1>1, FS_AddElement DEF n, fly
  <2>5. PendingBytes(todo', InFlight') = b + bytes
    <3>1. todo' = [todo EXCEPT ![t] = r]
      BY <2>1
    <3>2. PendingBytes(todo', fly \cup {t}) = PendingBytes(todo, fly) + todo'[t].bytes
      <4>1. todo' \in [Thread -> Work] /\ todo'[t] = r /\ \A u \in Thread \ {t} : todo'[u] = todo[u]
        BY <2>1, <2>2, <1>0
      <4>2. fly \in SUBSET Thread /\ t \notin fly /\ todo \in [Thread -> Work]
        BY <2>3, <1>0, <1>1
      <4>3. Joins(t, fly, todo, fly \cup {t}, todo')
        BY <4>1, <4>2 DEF Joins
      <4> QED BY <4>3, PendingJoins
    <3>3. todo'[t].bytes = bytes
      BY <2>1, <1>0
    <3> QED BY <3>2, <3>3, <2>3 DEF b, fly
  <2>6. todo' \in [Thread -> Work]
    BY <2>1, <2>2, <1>0
  <2>7. /\ acked' \in [ops : Nat, bytes : Nat] /\ acked'.ops = acked.ops + 1
        /\ acked'.bytes = acked.bytes + bytes
    BY <2>1, <1>2
  <2>8. stats.read_ops + stats.write_ops \in Nat /\ stats.read_bytes + stats.write_bytes \in Nat
    BY <1>2
  <2>9. stats'.read_ops + stats'.write_ops + Cardinality(InFlight') = acked'.ops
    BY <2>1, <2>4, <2>7, <2>8, <1>0, <1>1
  <2>10. stats'.read_bytes + stats'.write_bytes + PendingBytes(todo', InFlight') = acked'.bytes
    BY <2>1, <2>5, <2>7, <2>8, <1>0, <1>1
  <2> QED BY <2>1, <2>6, <2>7, <2>9, <2>10, <1>0
<1>12. ASSUME NEW t \in Thread, Settles(t)
       PROVE  /\ stats' \in StatsRecord /\ todo' \in [Thread -> Work]
              /\ acked' \in [ops : Nat, bytes : Nat]
              /\ ready' \in BOOLEAN /\ (~ready' => InFlight' = {})
              /\ stats'.read_ops + stats'.write_ops + Cardinality(InFlight') = acked'.ops
              /\ stats'.read_bytes + stats'.write_bytes + PendingBytes(todo', InFlight')
                   = acked'.bytes
  <2>1. /\ todo[t] # Idle /\ stats' = AddToStats(t) /\ todo' = [todo EXCEPT ![t] = Idle]
        /\ ready' = ready /\ acked' = acked
    BY <1>12 DEF Settles
  <2>2. t \in fly /\ InFlight' = fly \ {t}
    BY <2>1, <1>1, <1>5
  <2>3. Cardinality(InFlight') = n - 1
    BY <2>2, <1>1, FS_RemoveElement DEF n, fly
  <2>4. b = PendingBytes(todo', InFlight') + todo[t].bytes
    <3>0. todo' \in [Thread -> Work] /\ todo'[t] = Idle /\ \A u \in Thread \ {t} : todo'[u] = todo[u]
      BY <2>1, <1>0, <1>1
    <3>1. PendingBytes(todo, fly) = PendingBytes(todo', fly \ {t}) + todo[t].bytes
      <4>1. fly \in SUBSET Thread /\ t \in fly
        BY <2>2, <1>1
      <4>2. /\ todo \in [Thread -> Work] /\ todo' \in [Thread -> Work]
            /\ \A u \in Thread \ {t} : todo'[u] = todo[u]
        BY <3>0, <1>0
      <4> HIDE DEF fly
      <4>3. fly \ {t} \in SUBSET Thread /\ fly = (fly \ {t}) \cup {t} /\ t \in Thread \ (fly \ {t})
        BY <4>1, Zenon
      <4>4. Joins(t, fly \ {t}, todo', fly, todo)
        BY <4>2, <4>3 DEF Joins
      <4> QED BY <4>4, PendingJoins
    <3> QED BY <3>1, <2>1, <2>2 DEF b, fly
  <2>5. todo' \in [Thread -> Work] /\ todo[t].bytes \in Nat
    BY <2>1, <1>0, <1>1 DEF Work
  <2>6. PendingBytes(todo', InFlight') \in Nat
    <3>1. fly \ {t} \in SUBSET Thread
      BY <1>1
    <3> QED BY <3>1, <2>2, <2>5, PendingIsTotal
  <2>7. /\ stats' \in StatsRecord
        /\ stats'.read_ops + stats'.write_ops = stats.read_ops + stats.write_ops + 1
        /\ stats'.read_bytes + stats'.write_bytes
             = stats.read_bytes + stats.write_bytes + todo[t].bytes
    <3>1. CASE todo[t].op = "read"
      <4>1. stats' = [stats EXCEPT !.read_ops = @ + 1, !.read_bytes = @ + todo[t].bytes]
        BY <3>1, <2>1 DEF AddToStats
      <4>2. /\ stats' \in StatsRecord /\ stats'.read_ops = stats.read_ops + 1
            /\ stats'.write_ops = stats.write_ops /\ stats'.write_bytes = stats.write_bytes
            /\ stats'.read_bytes = stats.read_bytes + todo[t].bytes
        <5> DEFINE x == stats.read_ops + 1
                   y == stats.read_bytes + todo[t].bytes
        <5>1. x \in Nat /\ y \in Nat
          BY <2>5, <1>2
        <5>2. stats' = [stats EXCEPT !.read_ops = x, !.read_bytes = y]
          BY <4>1, Zenon
        <5> HIDE DEF x, y
        <5>3. ReadAdds(stats, stats', x, y) /\ stats \in StatsRecord
          BY <5>2, <1>0 DEF ReadAdds
        <5>4. /\ stats' \in StatsRecord /\ stats'.read_ops = x /\ stats'.read_bytes = y
              /\ stats'.write_ops = stats.write_ops /\ stats'.write_bytes = stats.write_bytes
          BY <5>1, <5>3, ReadCounted
        <5> QED BY <5>4 DEF x, y
      <4>3. stats'.read_ops + stats'.write_ops = stats.read_ops + stats.write_ops + 1
        BY <4>2, <1>2
      <4>4. stats'.read_bytes + stats'.write_bytes
              = stats.read_bytes + stats.write_bytes + todo[t].bytes
        BY <4>2, <2>5, <1>2
      <4> QED BY <4>2, <4>3, <4>4
    <3>2. CASE todo[t].op # "read"
      <4>1. stats' = [stats EXCEPT !.write_ops = @ + 1, !.write_bytes = @ + todo[t].bytes]
        BY <3>2, <2>1 DEF AddToStats
      <4>2. /\ stats' \in StatsRecord /\ stats'.write_ops = stats.write_ops + 1
            /\ stats'.read_ops = stats.read_ops /\ stats'.read_bytes = stats.read_bytes
            /\ stats'.write_bytes = stats.write_bytes + todo[t].bytes
        <5> DEFINE x == stats.write_ops + 1
                   y == stats.write_bytes + todo[t].bytes
        <5>1. x \in Nat /\ y \in Nat
          BY <2>5, <1>2
        <5>2. stats' = [stats EXCEPT !.write_ops = x, !.write_bytes = y]
          BY <4>1, Zenon
        <5> HIDE DEF x, y
        <5>3. WriteAdds(stats, stats', x, y) /\ stats \in StatsRecord
          BY <5>2, <1>0 DEF WriteAdds
        <5>4. /\ stats' \in StatsRecord /\ stats'.write_ops = x /\ stats'.write_bytes = y
              /\ stats'.read_ops = stats.read_ops /\ stats'.read_bytes = stats.read_bytes
          BY <5>1, <5>3, WriteCounted
        <5> QED BY <5>4 DEF x, y
      <4>3. stats'.read_ops + stats'.write_ops = stats.read_ops + stats.write_ops + 1
        BY <4>2, <1>2
      <4>4. stats'.read_bytes + stats'.write_bytes
              = stats.read_bytes + stats.write_bytes + todo[t].bytes
        BY <4>2, <2>5, <1>2
      <4> QED BY <4>2, <4>3, <4>4
    <3> QED BY <3>1, <3>2
  <2>8. ~ready' => InFlight' = {}
    BY <2>1, <2>2, <1>0
  <2>9. /\ stats.read_ops + stats.write_ops \in Nat /\ stats.read_bytes + stats.write_bytes \in Nat
    BY <1>2
  <2>10. stats'.read_ops + stats'.write_ops + Cardinality(InFlight') = acked'.ops
    BY <2>1, <2>3, <2>7, <2>9, <1>0, <1>1
  <2>11. stats'.read_bytes + stats'.write_bytes + PendingBytes(todo', InFlight') = acked'.bytes
    BY <2>1, <2>4, <2>5, <2>6, <2>7, <2>9, <1>0, <1>1
  <2> QED BY <2>1, <2>5, <2>7, <2>8, <2>10, <2>11, <1>0
<1> QED BY <1>6, <1>7, <1>8, <1>9, <1>10, <1>11, <1>12

-----------------------------------------------------------------------------
(* The steps *)

ListInv == Listing(files) /\ file_count = Len(files) /\ file_count <= max_files

InjectType == inject \in [read : BOOLEAN, write : BOOLEAN, rate : Nat]

MockInv == ListInv /\ InjectType /\ CountersInv

CounterStep ==
    \/ Errs \/ Resets \/ Closes \/ Opens \/ Same
    \/ \E t \in Thread : Acks(t) \/ Settles(t)

\* What every step is: one that keeps the list, one of the steps of the counters,
\* and a step of FileStore or none.
GoodStep ==
    /\ ListInv' /\ InjectType' /\ CounterStep
    /\ FS!Answer \/ UNCHANGED <<Content, reply>>

LEMMA ContentIs ==
    /\ Content = ContentOf(files) /\ Content' = ContentOf(files')
    /\ \A p : find_file(p) = FindIn(files, p)
<1>1. Content = ContentOf(files)
  BY DEF Content, ContentOf, SelectInSeq
<1>2. Content' = ContentOf(files')
  BY DEF Content, ContentOf, SelectInSeq
<1>3. \A p : find_file(p) = FindIn(files, p)
  BY DEF find_file, FindIn, SelectInSeq
<1> QED BY <1>1, <1>2, <1>3

\* What a lookup says about the files of FileStore
LEMMA Looked ==
    ASSUME ListInv, NEW p
    PROVE  LET i == find_file(p)
           IN  /\ FS!Files = Paths(files)
               /\ i = 0 => p \notin FS!Files /\ FS!Bytes(p) = <<>>
               /\ i # 0 => /\ i \in 1..Len(files) /\ files[i] \in File /\ Sane(files[i])
                           /\ files[i].path = p /\ p \in FS!Files
                           /\ Content[p] = Text(files[i]) /\ FS!Bytes(p) = Text(files[i])
<1> DEFINE i == find_file(p)
<1>1. Listing(files)
  BY DEF ListInv
<1>2. FS!Files = Paths(files)
  BY <1>1, ContentIs, ContentOfIs DEF FS!Files
<1>3. /\ i = 0 => p \notin Paths(files)
      /\ i # 0 => /\ i \in 1..Len(files) /\ files[i].path = p /\ p \in Paths(files)
  BY <1>1, ContentIs, FindInSound
<1> HIDE DEF i
<1>4. ASSUME i # 0
      PROVE  files[i] \in File /\ Sane(files[i]) /\ Content[p] = Text(files[i])
  <2>1. i \in 1..Len(files) /\ files[i].path = p
    BY <1>3, <1>4
  <2> QED BY <2>1, <1>1, ListingFacts, ContentIs, ContentOfIs
<1> QED BY <1>2, <1>3, <1>4 DEF FS!Bytes, i

\* A step that leaves the list alone leaves the content alone.
LEMMA SameList ==
    ASSUME ListInv, UNCHANGED <<files, file_count>>
    PROVE  ListInv' /\ Content' = Content
BY ContentIs DEF ListInv

LEMMA QuietStep ==
    ASSUME MockInv, Quiet
    PROVE  ListInv' /\ InjectType' /\ CounterStep /\ Content' = Content
<1>1. UNCHANGED <<files, file_count>> /\ inject' = inject /\ Same
  BY DEF Quiet, Same
<1> QED BY <1>1, SameList DEF MockInv, InjectType, CounterStep

LEMMA InjectedGood ==
    ASSUME MockInv, NEW t \in Thread, NEW flag, NEW c,
           \/ \E p \in Path, o \in Offset, n \in ReadSize : c = FS!Call("read", p, o, n)
           \/ \E p \in Path, o \in Offset, d \in Chunk : c = FS!Call("write", p, o, d),
           Injected(t, flag, c)
    PROVE  GoodStep
<1>1. /\ Errs /\ UNCHANGED <<files, file_count>> /\ inject' = inject
      /\ reply' = FS!Reply(c, "io", <<>>)
  BY DEF Injected, Errs, CanStart, Result
<1>2. ListInv' /\ Content' = Content
  BY <1>1, SameList DEF MockInv
<1>3. FS!Refuse(c)
  BY <1>1, <1>2 DEF FS!Refuse
<1>4. FS!Answer
  BY <1>3 DEF FS!Answer
<1> QED BY <1>1, <1>2, <1>4 DEF GoodStep, CounterStep, MockInv, InjectType

LEMMA ReadGood ==
    ASSUME MockInv, NEW t \in Thread, NEW p \in Path, NEW o \in Offset, NEW n \in ReadSize,
           read_sync(t, p, o, n)
    PROVE  GoodStep
<1> DEFINE i == find_file(p)
           have == IF i = 0 THEN 0 ELSE files[i].size
           read_size == IF o + n > have THEN have - o ELSE n
<1>0. o \in Nat /\ n \in Nat /\ n > 0
  OBVIOUS
<1>1. /\ i = 0 => p \notin FS!Files /\ FS!Bytes(p) = <<>>
      /\ i # 0 => /\ files[i] \in File /\ Sane(files[i]) /\ p \in FS!Files
                  /\ Content[p] = Text(files[i]) /\ FS!Bytes(p) = Text(files[i])
  BY Looked DEF MockInv
<1>2. /\ i # 0 => files[i].size \in Nat /\ Len(Text(files[i])) = files[i].size
                  /\ Text(files[i]) = [k \in 1..files[i].size |-> files[i].data[k]]
      /\ have \in Nat
  BY <1>1, TextIs DEF File
<1>3. CanStart(t)
  BY DEF read_sync
<1>4. CASE i = 0 \/ o >= have
  <2>1. reply' = FS!Reply(FS!Call("read", p, o, n), "not_found", <<>>) /\ Quiet
    BY <1>4 DEF read_sync, Result
  <2>2. ListInv' /\ InjectType' /\ CounterStep /\ Content' = Content
    BY <2>1, QuietStep
  <2>3. o + n > Len(FS!Bytes(p))
    <3>1. Len(FS!Bytes(p)) = have
      BY <1>1, <1>2
    <3> QED BY <3>1, <1>0, <1>2, <1>4
  <2>4. FS!ReadNotFound(p, o, n)
    BY <2>1, <2>2, <2>3 DEF FS!ReadNotFound
  <2>5. FS!Answer
    BY <2>4 DEF FS!Answer
  <2> QED BY <2>2, <2>5 DEF GoodStep
<1>5. CASE ~(i = 0 \/ o >= have)
  <2> DEFINE got == [k \in 1..n |-> IF k <= read_size THEN files[i].data[o + k] ELSE Zero]
  <2>1. /\ reply' = FS!Reply(FS!Call("read", p, o, n), "ok", got)
        /\ Count(t, "read", read_size)
        /\ UNCHANGED <<ready, files, file_count, inject, stats>>
    BY <1>5 DEF read_sync, Result
  <2>2. i # 0 /\ have = files[i].size /\ o < have
    BY <1>0, <1>2, <1>5
  <2>3. read_size \in Nat
    BY <2>2, <1>0, <1>2
  <2>4. Acks(t)
    <3> HIDE DEF read_size
    <3> QED BY <2>1, <2>3, <1>3 DEF Acks, CanStart
  <2>5. ListInv' /\ Content' = Content
    BY <2>1, SameList DEF MockInv
  <2>6. FS!Window(Content[p], o, n) = got
    <3>1. ASSUME NEW k \in 1..n
          PROVE  (IF o + k <= have THEN Content[p][o + k] ELSE Zero) =
                 (IF k <= read_size THEN files[i].data[o + k] ELSE Zero)
      <4>1. o + k <= have <=> k <= read_size
        BY <2>2, <1>0, <1>2
      <4>2. ASSUME o + k <= have
            PROVE  Content[p][o + k] = files[i].data[o + k]
        <5>1. o + k \in 1..files[i].size
          BY <4>2, <2>2, <1>0, <1>2
        <5> QED BY <5>1, <2>2, <1>1, <1>2
      <4> QED BY <4>1, <4>2
    <3>2. Len(Content[p]) = have
      BY <2>2, <1>1, <1>2
    <3>3. FS!Window(Content[p], o, n) =
            [k \in 1..n |-> IF o + k <= have THEN Content[p][o + k] ELSE Zero]
      BY <3>2 DEF FS!Window
    <3> HIDE DEF read_size
    <3> QED BY <3>1, <3>3
  <2>7. FS!ReadOK(p, o, n)
    <3> HIDE DEF got
    <3>1. p \in FS!Files /\ o < Len(Content[p])
      BY <2>2, <1>1, <1>2
    <3> QED BY <3>1, <2>1, <2>5, <2>6 DEF FS!ReadOK
  <2>8. FS!Answer
    BY <2>7 DEF FS!Answer
  <2>9. InjectType'
    BY <2>1 DEF MockInv, InjectType
  <2> QED BY <2>4, <2>5, <2>8, <2>9 DEF GoodStep, CounterStep
<1> QED BY <1>4, <1>5

LEMMA NoMemoryGood ==
    ASSUME MockInv, NEW t \in Thread, NEW p \in Path, NEW o \in Offset, NEW d \in Chunk,
           WriteNoMemory(t, p, o, d)
    PROVE  GoodStep
<1>1. reply' = FS!Reply(FS!Call("write", p, o, d), "nomem", <<>>) /\ Quiet
  BY DEF WriteNoMemory, Result
<1>2. ListInv' /\ InjectType' /\ CounterStep /\ Content' = Content
  BY <1>1, QuietStep
<1>3. FS!Refuse(FS!Call("write", p, o, d))
  BY <1>1, <1>2 DEF FS!Refuse
<1>4. FS!Answer
  BY <1>3 DEF FS!Answer
<1> QED BY <1>2, <1>4 DEF GoodStep

LEMMA ExistingGood ==
    ASSUME MockInv, NEW t \in Thread, NEW p \in Path, NEW o \in Offset, NEW d \in Chunk,
           WriteExisting(t, p, o, d)
    PROVE  GoodStep
<1> DEFINE i == find_file(p)
           n == o + Len(d)
           f == files[i]
           g == WriteFile(f, o, d, n)
           size == Grow(f, n).size
           c == FS!Call("write", p, o, d)
<1>0. /\ o \in Nat /\ d \in Seq(Nat) /\ Len(d) \in Nat /\ n \in Nat
  BY LenProperties
<1>1. /\ CanStart(t) /\ i # 0 /\ files' = [files EXCEPT ![i] = g]
      /\ IF size > max_file_size
         THEN reply' = FS!Reply(c, "no_space", <<>>) /\ UNCHANGED <<todo, acked>>
         ELSE reply' = FS!Reply(c, "ok", <<>>) /\ Count(t, "write", Len(d))
      /\ UNCHANGED <<ready, file_count, inject, stats>>
  BY DEF WriteExisting, Result
<1>2. /\ i \in 1..Len(files) /\ f \in File /\ Sane(f) /\ f.path = p /\ p \in FS!Files
      /\ Content[p] = Text(f) /\ FS!Bytes(p) = Text(f) /\ FS!Files = Paths(files)
  BY <1>1, Looked DEF MockInv
<1>3. /\ g \in File /\ Sane(g) /\ g.path = p
      /\ size = IF n > f.size THEN n ELSE f.size
      /\ size <= max_file_size => Text(g) = FS!Patch(Text(f), o, d)
      /\ size > max_file_size => Text(g) = IF n > f.size THEN FS!Window(Text(f), 0, n) ELSE Text(f)
  <2> HIDE DEF f, n, i
  <2> QED BY <1>0, <1>2, WrittenFile DEF n
<1>4. Len(Text(f)) = f.size /\ f.size \in Nat /\ size \in Nat
  <2>1. Len(Text(f)) = f.size /\ f.size \in Nat
    BY <1>2, TextIs DEF File
  <2> QED BY <2>1, <1>0, <1>3
<1> HIDE DEF g, f, i, size
<1>5. /\ Listing(files') /\ Len(files') = Len(files)
      /\ ContentOf(files') = Put(files, p, Text(g))
  <2>1. Listing(files) /\ g.path = files[i].path
    BY <1>2, <1>3 DEF MockInv, ListInv, f
  <2>2. i \in 1..Len(files) /\ g \in File /\ Sane(g) /\ g.path = p
    BY <1>2, <1>3
  <2> DEFINE gs == files'
  <2>3. Replaced(gs, files, i, g)
    <3>1. files \in Seq(File)
      BY <2>1 DEF Listing
    <3> QED BY <2>2, <3>1, <1>1, ExceptSeq DEF Replaced
  <2> HIDE DEF gs
  <2>4. /\ Listing(gs) /\ Len(gs) = Len(files)
        /\ ContentOf(gs) = Put(files, p, Text(g))
    BY <2>1, <2>2, <2>3, Updated
  <2> QED BY <2>2, <2>4 DEF gs
<1>6. Content' = [q \in FS!Files \cup {p} |-> IF q = p THEN Text(g) ELSE Content[q]]
  BY <1>2, <1>5, ContentIs DEF Put
<1>7. ListInv' /\ InjectType'
  BY <1>1, <1>5 DEF MockInv, ListInv, InjectType
<1>8. CASE size > max_file_size
  <2>1. reply' = FS!Reply(c, "no_space", <<>>) /\ Same
    BY <1>1, <1>8 DEF Same
  <2>2. CASE n > f.size
    <3>1. FS!SetFile(p, FS!Window(FS!Bytes(p), 0, o + Len(d)))
      BY <2>2, <1>2, <1>3, <1>6, <1>8 DEF FS!SetFile
    <3>2. o + Len(d) > Len(FS!Bytes(p))
      BY <2>2, <1>2, <1>4
    <3>3. FS!GrowOnly(p, o, d)
      BY <2>1, <3>1, <3>2 DEF FS!GrowOnly
    <3>4. FS!Answer
      BY <3>3 DEF FS!Answer
    <3> QED BY <2>1, <3>4, <1>7 DEF GoodStep, CounterStep
  <2>3. CASE ~(n > f.size)
    <3>1. Text(g) = Content[p]
      BY <2>3, <1>2, <1>3, <1>8
    <3>2. FS!Files = DOMAIN Content /\ Content = [q \in DOMAIN Content |-> Content[q]]
      BY DEF FS!Files, Content
    <3>3. Content' = Content
      <4>1. FS!Files \cup {p} = FS!Files
        BY <1>2
      <4> QED BY <3>1, <3>2, <4>1, <1>6
    <3>4. FS!Refuse(c)
      BY <2>1, <3>3 DEF FS!Refuse
    <3>5. FS!Answer
      BY <3>4 DEF FS!Answer
    <3> QED BY <2>1, <3>5, <1>7 DEF GoodStep, CounterStep
  <2> QED BY <2>2, <2>3
<1>9. CASE ~(size > max_file_size)
  <2>1. reply' = FS!Reply(c, "ok", <<>>) /\ Count(t, "write", Len(d))
    BY <1>1, <1>9
  <2>2. Acks(t)
    BY <2>1, <1>0, <1>1 DEF Acks, CanStart
  <2>3. FS!SetFile(p, FS!Patch(FS!Bytes(p), o, d))
    <3>1. size <= max_file_size
      BY <1>4, <1>9
    <3> QED BY <3>1, <1>2, <1>3, <1>6 DEF FS!SetFile
  <2>4. FS!WriteOK(p, o, d)
    BY <2>1, <2>3 DEF FS!WriteOK
  <2>5. FS!Answer
    BY <2>4 DEF FS!Answer
  <2> QED BY <2>2, <2>5, <1>7 DEF GoodStep, CounterStep
<1> QED BY <1>8, <1>9

\* A write to a file of n zeros leaves what a write to no file leaves.
LEMMA PatchedZeros ==
    ASSUME NEW o \in Nat, NEW d \in Seq(Nat), NEW n \in Nat, n = o + Len(d)
    PROVE  /\ FS!Patch(FS!Zeros(n), o, d) = FS!Patch(<<>>, o, d)
           /\ FS!Window(<<>>, 0, n) = FS!Zeros(n)
<1>0. Len(d) \in Nat /\ Len(<<>>) = 0
  BY LenProperties
<1>1. Len(FS!Zeros(n)) = n /\ \A k \in 1..n : FS!Zeros(n)[k] = Zero
  <2>1. FS!Zeros(n) \in [1..n -> Nat] /\ \A k \in 1..n : FS!Zeros(n)[k] = Zero
    BY DEF FS!Zeros
  <2> QED BY <2>1, FunctionIsSeq
<1>2. FS!Patch(FS!Zeros(n), o, d) =
        [k \in 1..n |-> IF k \in (o + 1)..(o + Len(d)) THEN d[k - o] ELSE Zero]
  <2> DEFINE z == FS!Zeros(n)
             m == IF o + Len(d) > Len(z) THEN o + Len(d) ELSE Len(z)
  <2>1. FS!Patch(z, o, d) =
          [k \in 1..m |-> IF k \in (o + 1)..(o + Len(d)) THEN d[k - o]
                          ELSE IF k <= Len(z) THEN z[k] ELSE Zero]
    BY DEF FS!Patch
  <2>2. m = n
    BY <1>0, <1>1
  <2> HIDE DEF m, z
  <2>3. \A k \in 1..n : (IF k <= Len(z) THEN z[k] ELSE Zero) = Zero
    BY <1>1 DEF z
  <2> QED BY <2>1, <2>2, <2>3 DEF z
<1>3. FS!Patch(<<>>, o, d) =
        [k \in 1..n |-> IF k \in (o + 1)..(o + Len(d)) THEN d[k - o] ELSE Zero]
  <2> DEFINE m == IF o + Len(d) > Len(<<>>) THEN o + Len(d) ELSE Len(<<>>)
  <2>1. FS!Patch(<<>>, o, d) =
          [k \in 1..m |-> IF k \in (o + 1)..(o + Len(d)) THEN d[k - o]
                          ELSE IF k <= Len(<<>>) THEN <<>>[k] ELSE Zero]
    BY DEF FS!Patch
  <2>2. m = n
    BY <1>0
  <2> HIDE DEF m
  <2>3. \A k \in 1..n : ~(k <= Len(<<>>))
    BY <1>0
  <2> QED BY <2>1, <2>2, <2>3
<1>4. FS!Window(<<>>, 0, n) = FS!Zeros(n)
  <2>1. FS!Window(<<>>, 0, n) = [k \in 1..n |-> IF 0 + k <= Len(<<>>) THEN <<>>[0 + k] ELSE Zero]
    BY DEF FS!Window
  <2>2. \A k \in 1..n : ~(0 + k <= Len(<<>>))
    BY <1>0
  <2> QED BY <2>1, <2>2 DEF FS!Zeros
<1> QED BY <1>2, <1>3, <1>4

LEMMA NewGood ==
    ASSUME MockInv, NEW t \in Thread, NEW p \in Path, NEW o \in Offset, NEW d \in Chunk,
           WriteNew(t, p, o, d)
    PROVE  GoodStep
<1> DEFINE n == o + Len(d)
           f == NewFile(p, n)
           g == WriteFile(f, o, d, n)
           size == Grow(f, n).size
           c == FS!Call("write", p, o, d)
<1>0. /\ o \in Nat /\ d \in Seq(Nat) /\ Len(d) \in Nat /\ n \in Nat
      /\ Len(d) # 0
  <2>1. o \in Nat /\ d \in Seq(Nat) /\ d # <<>>
    OBVIOUS
  <2>2. Len(d) \in Nat /\ Len(d) # 0
    BY <2>1, LenProperties, EmptySeq
  <2> QED BY <2>1, <2>2
<1>1. /\ CanStart(t) /\ find_file(p) = 0 /\ file_count < max_files
      /\ files' = <<g>> \o files /\ file_count' = file_count + 1
      /\ IF n > max_file_size
         THEN reply' = FS!Reply(c, "no_space", <<>>) /\ UNCHANGED <<todo, acked>>
         ELSE reply' = FS!Reply(c, "ok", <<>>) /\ Count(t, "write", Len(d))
      /\ UNCHANGED <<ready, inject, stats>>
  BY DEF WriteNew, Result
<1>2. p \notin FS!Files /\ FS!Bytes(p) = <<>> /\ FS!Files = Paths(files)
  BY <1>1, Looked DEF MockInv
<1>3. f \in File /\ Sane(f) /\ f.path = p /\ f.size = n /\ Text(f) = FS!Zeros(n)
  <2> HIDE DEF n
  <2> QED BY <1>0, FreshFile
<1>4. /\ g \in File /\ Sane(g) /\ g.path = p
      /\ size = n
      /\ size <= max_file_size => Text(g) = FS!Patch(Text(f), o, d)
      /\ size > max_file_size => Text(g) = Text(f)
  <2> HIDE DEF f, n
  <2>1. /\ g \in File /\ Sane(g) /\ g.path = f.path
        /\ size = IF n > f.size THEN n ELSE f.size
        /\ size <= max_file_size => Text(g) = FS!Patch(Text(f), o, d)
        /\ size > max_file_size =>
             Text(g) = IF n > f.size THEN FS!Window(Text(f), 0, n) ELSE Text(f)
    BY <1>0, <1>3, WrittenFile DEF n
  <2>2. ~(n > f.size)
    BY <1>0, <1>3
  <2> QED BY <2>1, <2>2, <1>3
<1> HIDE DEF g, f, size, n
<1>5. /\ Listing(files') /\ Len(files') = Len(files) + 1
      /\ ContentOf(files') = Put(files, p, Text(g))
  <2>1. Listing(files) /\ g.path \notin Paths(files)
    BY <1>2, <1>4 DEF MockInv, ListInv
  <2>2. g \in File /\ Sane(g) /\ g.path = p
    BY <1>4
  <2> DEFINE gs == <<g>> \o files
  <2>3. /\ Listing(gs) /\ Len(gs) = Len(files) + 1
        /\ ContentOf(gs) = Put(files, p, Text(g))
    BY <2>1, <2>2, Prepended
  <2>4. files' = gs
    BY <1>1
  <2> HIDE DEF gs
  <2> QED BY <2>2, <2>3, <2>4
<1>6. FS!SetFile(p, Text(g))
  BY <1>2, <1>5, ContentIs DEF FS!SetFile, Put
<1>7. ListInv' /\ InjectType'
  <2>1. Len(files) \in Nat /\ file_count = Len(files)
    BY ListingFacts DEF MockInv, ListInv
  <2>2. file_count' = Len(files') /\ file_count' <= max_files
    BY <2>1, <1>1, <1>5
  <2> QED BY <2>2, <1>1, <1>5 DEF MockInv, ListInv, InjectType
<1>8. CASE n > max_file_size
  <2>1. reply' = FS!Reply(c, "no_space", <<>>) /\ Same
    BY <1>1, <1>8 DEF Same
  <2>2. Text(g) = FS!Window(<<>>, 0, n)
    BY <1>0, <1>3, <1>4, <1>8, PatchedZeros DEF n
  <2>3. o + Len(d) > Len(FS!Bytes(p))
    <3>1. Len(FS!Bytes(p)) = 0
      BY <1>2
    <3> QED BY <3>1, <1>0
  <2>4. FS!GrowOnly(p, o, d)
    BY <2>1, <2>2, <2>3, <1>2, <1>6 DEF FS!GrowOnly, n
  <2>5. FS!Answer
    BY <2>4 DEF FS!Answer
  <2> QED BY <2>1, <2>5, <1>7 DEF GoodStep, CounterStep
<1>9. CASE ~(n > max_file_size)
  <2>1. reply' = FS!Reply(c, "ok", <<>>) /\ Count(t, "write", Len(d))
    BY <1>1, <1>9
  <2>2. Acks(t)
    BY <2>1, <1>0, <1>1 DEF Acks, CanStart
  <2>3. Text(g) = FS!Patch(<<>>, o, d)
    <3>1. size <= max_file_size
      BY <1>0, <1>4, <1>9
    <3> QED BY <3>1, <1>0, <1>3, <1>4, PatchedZeros DEF n
  <2>4. FS!WriteOK(p, o, d)
    BY <2>1, <2>3, <1>2, <1>6 DEF FS!WriteOK
  <2>5. FS!Answer
    BY <2>4 DEF FS!Answer
  <2> QED BY <2>2, <2>5, <1>7 DEF GoodStep, CounterStep
<1> QED BY <1>8, <1>9

\* The calls that change nothing but the reply
LEMMA QuietGood ==
    ASSUME MockInv, NEW p \in Path,
           \/ fsync(p) \/ get_file_info(p)
           \/ \E n \in InitialSize : CreateExists(p, n) \/ CreateNoMemory(p, n)
    PROVE  GoodStep
<1> SUFFICES ASSUME Quiet PROVE FS!Answer
  <2>1. Quiet
    BY DEF fsync, get_file_info, CreateExists, CreateNoMemory
  <2> QED BY <2>1, QuietStep DEF GoodStep
<1>1. Content' = Content
  BY QuietStep
<1>2. /\ find_file(p) = 0 => p \notin FS!Files
      /\ find_file(p) # 0 => /\ p \in FS!Files
                             /\ Len(Content[p]) = files[find_file(p)].size
  BY Looked, TextIs DEF MockInv
<1>3. CASE fsync(p)
  <2>1. FS!SyncDone(p)
    BY <1>1, <1>3 DEF fsync, Result, FS!SyncDone
  <2> QED BY <2>1 DEF FS!Answer
<1>4. CASE get_file_info(p)
  <2>1. CASE find_file(p) = 0
    <3>1. FS!Absent("info", p)
      BY <2>1, <1>1, <1>2, <1>4 DEF get_file_info, Result, FS!Absent
    <3> QED BY <3>1 DEF FS!Answer
  <2>2. CASE find_file(p) # 0
    <3>1. reply' = FS!Reply(FS!Call("info", p, 0, <<>>), "ok", <<files[find_file(p)].size>>)
      BY <2>2, <1>4 DEF get_file_info, Result
    <3>2. FS!InfoOK(p)
      BY <2>2, <3>1, <1>1, <1>2 DEF FS!InfoOK
    <3> QED BY <3>2 DEF FS!Answer
  <2> QED BY <2>1, <2>2
<1>5. ASSUME NEW n \in InitialSize, CreateExists(p, n)
      PROVE  FS!Answer
  <2>1. FS!CreateExists(p, n)
    BY <1>1, <1>2, <1>5 DEF CreateExists, Result, FS!CreateExists
  <2> QED BY <2>1 DEF FS!Answer
<1>6. ASSUME NEW n \in InitialSize, CreateNoMemory(p, n)
      PROVE  FS!Answer
  <2>1. FS!Refuse(FS!Call("create", p, n, <<>>))
    BY <1>1, <1>6 DEF CreateNoMemory, Result, FS!Refuse
  <2> QED BY <2>1 DEF FS!Answer
<1> QED BY <1>3, <1>4, <1>5, <1>6

LEMMA CreateGood ==
    ASSUME MockInv, NEW p \in Path, NEW n \in InitialSize, CreateFile(p, n)
    PROVE  GoodStep
<1> DEFINE f == NewFile(p, n)
           gs == <<f>> \o files
<1>1. /\ find_file(p) = 0 /\ file_count < max_files
      /\ files' = gs /\ file_count' = file_count + 1
      /\ reply' = FS!Reply(FS!Call("create", p, n, <<>>), "ok", <<>>)
      /\ UNCHANGED <<ready, inject, stats, todo, acked>>
  BY DEF CreateFile, create_new_file, Result
<1>2. p \notin FS!Files /\ FS!Files = Paths(files)
  BY <1>1, Looked DEF MockInv
<1>3. f \in File /\ Sane(f) /\ f.path = p /\ Text(f) = FS!Zeros(n) /\ f.path \notin Paths(files)
  BY <1>2, FreshFile
<1>4. Listing(files) /\ Len(files) \in Nat /\ file_count = Len(files)
  BY ListingFacts DEF MockInv, ListInv
<1> HIDE DEF f
<1>5. Listing(gs) /\ Len(gs) = Len(files) + 1 /\ ContentOf(gs) = Put(files, p, Text(f))
  BY <1>3, <1>4, Prepended
<1> HIDE DEF gs
<1>6. FS!SetFile(p, FS!Zeros(n))
  BY <1>1, <1>2, <1>3, <1>5, ContentIs DEF FS!SetFile, Put
<1>7. FS!CreateOK(p, n)
  BY <1>1, <1>2, <1>6 DEF FS!CreateOK
<1>8. FS!Answer
  BY <1>7 DEF FS!Answer
<1>9. ListInv'
  <2>1. file_count' = Len(files') /\ file_count' <= max_files
    BY <1>1, <1>4, <1>5
  <2> QED BY <2>1, <1>1, <1>5 DEF ListInv
<1>10. InjectType' /\ Same
  BY <1>1 DEF MockInv, InjectType, Same
<1> QED BY <1>8, <1>9, <1>10 DEF GoodStep, CounterStep

LEMMA DeleteGood ==
    ASSUME MockInv, NEW p \in Path, delete_file(p)
    PROVE  GoodStep
<1> DEFINE i == find_file(p)
           gs == RemoveAt(files, i)
<1>1. CASE i = 0
  <2>1. Quiet /\ reply' = FS!Reply(FS!Call("delete", p, 0, <<>>), "not_found", <<>>)
    BY <1>1 DEF delete_file, Result
  <2>2. p \notin FS!Files
    BY <1>1, Looked DEF MockInv
  <2>3. ListInv' /\ InjectType' /\ CounterStep /\ Content' = Content
    BY <2>1, QuietStep
  <2>4. FS!Absent("delete", p)
    BY <2>1, <2>2, <2>3 DEF FS!Absent
  <2>5. FS!Answer
    BY <2>4 DEF FS!Answer
  <2> QED BY <2>3, <2>5 DEF GoodStep
<1>2. CASE i # 0
  <2>1. /\ files' = gs /\ file_count' = file_count - 1
        /\ reply' = FS!Reply(FS!Call("delete", p, 0, <<>>), "ok", <<>>)
        /\ UNCHANGED <<ready, inject, stats, todo, acked>>
    BY <1>2 DEF delete_file, remove_file, Result
  <2>2. p \in FS!Files /\ FS!Files = Paths(files) /\ i \in 1..Len(files) /\ files[i].path = p
    BY <1>2, Looked DEF MockInv
  <2>3. Listing(files) /\ Len(files) \in Nat /\ file_count = Len(files) /\ file_count <= max_files
    BY ListingFacts DEF MockInv, ListInv
  <2> HIDE DEF i
  <2>4. /\ Listing(gs) /\ Len(gs) = Len(files) - 1
        /\ ContentOf(gs) = [q \in Paths(files) \ {files[i].path} |-> ContentOf(files)[q]]
    BY <2>2, <2>3, Removed
  <2> HIDE DEF gs
  <2>5. Content' = [q \in FS!Files \ {p} |-> Content[q]]
    BY <2>1, <2>2, <2>4, ContentIs
  <2>6. FS!DeleteOK(p)
    BY <2>1, <2>2, <2>5 DEF FS!DeleteOK
  <2>7. FS!Answer
    BY <2>6 DEF FS!Answer
  <2>8. ListInv'
    <3>1. file_count' = Len(files') /\ file_count' <= max_files
      BY <2>1, <2>3, <2>4
    <3> QED BY <3>1, <2>1, <2>4 DEF ListInv
  <2>9. InjectType' /\ Same
    BY <2>1 DEF MockInv, InjectType, Same
  <2> QED BY <2>7, <2>8, <2>9 DEF GoodStep, CounterStep
<1> QED BY <1>1, <1>2

\* The steps that leave files and reply alone
LEMMA SilentGood ==
    ASSUME MockInv,
           \/ \E t \in Thread : UpdateStats(t)
           \/ reset_stats \/ init
           \/ \E setting \in Injections : set_error_injection(setting)
    PROVE  GoodStep
<1>1. UNCHANGED <<files, file_count, reply>>
  BY DEF UpdateStats, reset_stats, init, set_error_injection
<1>2. ListInv' /\ UNCHANGED <<Content, reply>>
  BY <1>1, SameList DEF MockInv
<1>3. InjectType'
  <2>1. InjectType
    BY DEF MockInv
  <2>2. inject' = inject \/ inject' \in Injections
          \/ inject' = [read |-> FALSE, write |-> FALSE, rate |-> 0]
    BY DEF UpdateStats, reset_stats, init, set_error_injection
  <2>3. [read |-> FALSE, write |-> FALSE, rate |-> 0] \in [read : BOOLEAN, write : BOOLEAN, rate : Nat]
    OBVIOUS
  <2>4. Injections \subseteq [read : BOOLEAN, write : BOOLEAN, rate : Nat]
    OBVIOUS
  <2> QED BY <2>1, <2>2, <2>3, <2>4, Zenon DEF InjectType
<1>4. CounterStep
  <2>1. ASSUME NEW t \in Thread, UpdateStats(t) PROVE Settles(t)
    BY <2>1 DEF UpdateStats, Settles
  <2>2. reset_stats => Resets
    BY DEF reset_stats, Resets, PendingBytes, FoldSet, MapThenFoldSet
  <2>3. init => Opens
    BY DEF init, Opens
  <2>4. ASSUME NEW setting \in Injections, set_error_injection(setting) PROVE Same
    BY <2>4 DEF set_error_injection, Same
  <2> QED BY <2>1, <2>2, <2>3, <2>4 DEF CounterStep
<1> QED BY <1>2, <1>3, <1>4 DEF GoodStep

LEMMA EmptyListing ==
    ASSUME NEW fs, fs = <<>>
    PROVE  /\ Listing(fs) /\ Len(fs) = 0
           /\ ContentOf(fs) = [p \in {} |-> <<>>]
<1>1. fs \in Seq(File) /\ Len(fs) = 0
  OBVIOUS
<1>2. Listing(fs)
  BY <1>1 DEF Listing
<1>3. Paths(fs) = {}
  BY <1>1 DEF Paths
<1> DEFINE c == [p \in {} |-> <<>>]
<1>4. c = [p \in Paths(fs) |-> c[p]]
  BY <1>3
<1>5. ContentOf(fs) = c
  <2>1. \A i \in 1..Len(fs) : c[fs[i].path] = Text(fs[i])
    BY <1>1
  <2> HIDE DEF c
  <2> QED BY <2>1, <1>2, <1>4, ContentOfOnly
<1> QED BY <1>1, <1>2, <1>5

LEMMA CleanupGood ==
    ASSUME MockInv, cleanup
    PROVE  GoodStep
<1>1. /\ Closes /\ files' = <<>> /\ file_count' = 0 /\ inject' = inject
      /\ reply' = FS!Reply(FS!NoCall, "ok", <<>>)
  BY DEF cleanup, Closes, Result
<1>2. Listing(files') /\ Len(files') = 0 /\ ContentOf(files') = [p \in {} |-> <<>>]
  BY <1>1, EmptyListing
<1>3. FS!Forget
  BY <1>1, <1>2, ContentIs DEF FS!Forget
<1>4. FS!Answer
  BY <1>3 DEF FS!Answer
<1>5. ListInv' /\ InjectType'
  BY <1>1, <1>2 DEF ListInv, InjectType, MockInv
<1> QED BY <1>1, <1>4, <1>5 DEF GoodStep, CounterStep

LEMMA StepGood ==
    ASSUME MockInv, Next
    PROVE  GoodStep
<1>1. ASSUME NEW t \in Thread, NEW p \in Path, NEW o \in Offset, NEW n \in ReadSize,
             \/ Injected(t, inject.read, FS!Call("read", p, o, n))
             \/ read_sync(t, p, o, n)
      PROVE  GoodStep
  <2>1. CASE Injected(t, inject.read, FS!Call("read", p, o, n))
    <3> DEFINE c == FS!Call("read", p, o, n)
               flag == inject.read
    <3>1. Injected(t, flag, c) /\ \E q \in Path, k \in Offset, m \in ReadSize :
            c = FS!Call("read", q, k, m)
      BY <2>1
    <3> HIDE DEF c, flag
    <3> QED BY <3>1, InjectedGood
  <2>2. CASE read_sync(t, p, o, n)
    BY <2>2, ReadGood
  <2> QED BY <1>1, <2>1, <2>2
<1>2. ASSUME NEW t \in Thread, NEW p \in Path, NEW o \in Offset, NEW d \in Chunk,
             \/ Injected(t, inject.write, FS!Call("write", p, o, d))
             \/ WriteNoMemory(t, p, o, d) \/ WriteExisting(t, p, o, d) \/ WriteNew(t, p, o, d)
      PROVE  GoodStep
  <2>1. CASE Injected(t, inject.write, FS!Call("write", p, o, d))
    <3> DEFINE c == FS!Call("write", p, o, d)
               flag == inject.write
    <3>1. Injected(t, flag, c) /\ \E q \in Path, k \in Offset, e \in Chunk :
            c = FS!Call("write", q, k, e)
      BY <2>1
    <3> HIDE DEF c, flag
    <3> QED BY <3>1, InjectedGood
  <2>2. CASE WriteNoMemory(t, p, o, d)
    BY <2>2, NoMemoryGood
  <2>3. CASE WriteExisting(t, p, o, d)
    BY <2>3, ExistingGood
  <2>4. CASE WriteNew(t, p, o, d)
    BY <2>4, NewGood
  <2> QED BY <1>2, <2>1, <2>2, <2>3, <2>4
<1>3. ASSUME NEW p \in Path,
             \/ fsync(p) \/ delete_file(p) \/ get_file_info(p)
             \/ \E n \in InitialSize :
                  CreateExists(p, n) \/ CreateNoMemory(p, n) \/ CreateFile(p, n)
      PROVE  GoodStep
  <2>1. CASE delete_file(p)
    BY <2>1, DeleteGood
  <2>2. CASE \E n \in InitialSize : CreateFile(p, n)
    BY <2>2, CreateGood
  <2>3. CASE \/ fsync(p) \/ get_file_info(p)
             \/ \E n \in InitialSize : CreateExists(p, n) \/ CreateNoMemory(p, n)
    BY <2>3, QuietGood
  <2> QED BY <1>3, <2>1, <2>2, <2>3
<1>4. CASE \/ \E t \in Thread : UpdateStats(t)
           \/ reset_stats \/ init
           \/ \E setting \in Injections : set_error_injection(setting)
  BY <1>4, SilentGood
<1>5. CASE cleanup
  BY <1>5, CleanupGood
<1> QED BY <1>1, <1>2, <1>3, <1>4, <1>5 DEF Next

LEMMA MockInit ==
    ASSUME Init
    PROVE  MockInv /\ FS!Init
<1>1. /\ ready = TRUE /\ files = <<>> /\ file_count = 0 /\ stats = NoStats
      /\ inject = [read |-> FALSE, write |-> FALSE, rate |-> 0]
      /\ todo = [t \in Thread |-> Idle] /\ acked = [ops |-> 0, bytes |-> 0]
      /\ reply = FS!Reply(FS!NoCall, "ok", <<>>)
  BY DEF Init
<1>2. Listing(files) /\ Len(files) = 0 /\ ContentOf(files) = [p \in {} |-> <<>>]
  BY <1>1, EmptyListing
<1>3. ListInv
  BY <1>1, <1>2 DEF ListInv
<1>4. InjectType
  BY <1>1 DEF InjectType
<1>5. CountersInv
  <2>1. InFlight = {}
    BY <1>1 DEF InFlight
  <2>2. Idle \in Work /\ NoStats \in StatsRecord
    BY DEF Idle, Work, NoStats, StatsRecord
  <2>3. CountersType
    BY <2>2, <1>1 DEF CountersType
  <2>4. Cardinality(InFlight) = 0 /\ PendingBytes(todo, InFlight) = 0
    BY <2>1, <2>3, PendingNone, FS_EmptySet DEF CountersType
  <2>5. ReadyInv
    BY <1>1 DEF ReadyInv
  <2>6. StatsConserved
    <3>1. /\ stats.read_ops = 0 /\ stats.write_ops = 0 /\ stats.read_bytes = 0
          /\ stats.write_bytes = 0 /\ acked.ops = 0 /\ acked.bytes = 0
      BY <1>1 DEF NoStats
    <3> QED BY <2>4, <3>1, ConservedIs
  <2> QED BY <2>3, <2>5, <2>6 DEF CountersInv
<1>6. FS!Init
  BY <1>1, <1>2, ContentIs DEF FS!Init
<1> QED BY <1>3, <1>4, <1>5, <1>6 DEF MockInv

LEMMA MockStep ==
    ASSUME MockInv, [Next]_vars
    PROVE  MockInv' /\ [FS!Next]_(FS!vars)
<1>1. CASE Next
  <2>1. GoodStep
    BY <1>1, StepGood
  <2>2. CountersInv'
    BY <2>1, CountersStep DEF GoodStep, CounterStep, MockInv
  <2> QED BY <2>1, <2>2 DEF GoodStep, MockInv, FS!vars, FS!Next
<1>2. CASE UNCHANGED vars
  <2>1. UNCHANGED <<files, file_count, reply, inject>> /\ Same
    BY <1>2 DEF vars, Same
  <2>2. ListInv' /\ Content' = Content
    BY <2>1, SameList DEF MockInv
  <2>3. CountersInv'
    BY <2>1, CountersStep DEF MockInv
  <2>4. InjectType'
    BY <2>1 DEF MockInv, InjectType
  <2> QED BY <2>1, <2>2, <2>3, <2>4 DEF MockInv, FS!vars
<1> QED BY <1>1, <1>2

-----------------------------------------------------------------------------
(* The theorems *)

\* The inductive invariant: a listing of sane files within max_files, and
\* counters that agree with the calls (mock_storage.c:105-208, 379-385).
THEOREM MockInvariant == Spec => []MockInv
<1>1. Init => MockInv
  BY MockInit
<1>2. MockInv /\ [Next]_vars => MockInv'
  BY MockStep
<1> QED BY <1>1, <1>2, PTL DEF Spec

\* Whatever the threads do, every variable of the backend keeps its type and no
\* file is larger than what is allocated for it (mock_storage.c:10-43).
THEOREM MockTypes == Spec => []TypeOK
<1>1. MockInv => TypeOK
  <2> SUFFICES ASSUME MockInv PROVE TypeOK
    OBVIOUS
  <2>1. /\ stats \in StatsRecord /\ todo \in [Thread -> Work]
        /\ acked \in [ops : Nat, bytes : Nat] /\ ready \in BOOLEAN
    BY DEF MockInv, CountersInv, CountersType, ReadyInv
  <2>2. /\ DOMAIN files = 1..Len(files) /\ Len(files) \in Nat
        /\ \A i \in 1..Len(files) : files[i] \in File /\ Sane(files[i]) /\ files[i].path \in Path
    BY ListingFacts DEF MockInv, ListInv
  <2>3. file_count \in 0..max_files
    BY <2>2 DEF MockInv, ListInv
  <2>4. ASSUME NEW i \in DOMAIN files
        PROVE  files[i].path \in Path /\ files[i].size \in 0..Len(files[i].data)
    <3>1. files[i] \in File /\ Sane(files[i]) /\ files[i].path \in Path
      BY <2>2
    <3>2. files[i].size \in Nat /\ Len(files[i].data) \in Nat
      BY <3>1, LenProperties DEF File
    <3> QED BY <3>1, <3>2 DEF Sane
  <2>5. DOMAIN stats = DOMAIN NoStats /\ \A k \in DOMAIN stats : stats[k] \in Nat
    BY <2>1 DEF StatsRecord, NoStats
  <2> QED BY <2>1, <2>3, <2>4, <2>5 DEF TypeOK, MockInv, InjectType, Work
<1> QED BY <1>1, MockInvariant, PTL

\* The list never holds a path twice, file_count is its length, and the reserve
\* of every file is zero, for any number of threads, files and limits
\* (mock_storage.c:105-208).
THEOREM ListKept == Spec => []ListSound
<1>1. MockInv => ListSound
  <2> SUFFICES ASSUME MockInv PROVE ListSound
    OBVIOUS
  <2>1. Listing(files) /\ file_count = Len(files) /\ DOMAIN files = 1..Len(files)
    BY ListingFacts DEF MockInv, ListInv
  <2> QED BY <2>1 DEF ListSound, Listing, Sane
<1> QED BY <1>1, MockInvariant, PTL

\* No acknowledged call is lost from the counters or counted twice, however the
\* second critical section of one call interleaves with the calls and resets of
\* other threads (mock_storage.c:379-385, 451-457, 573-585).
THEOREM CountersKept == Spec => []StatsConserved
<1>1. MockInv => StatsConserved
  BY DEF MockInv, CountersInv
<1> QED BY <1>1, MockInvariant, PTL

\* The in-memory backend implements FileStore: every step of it is one atomic
\* call of storage_interface_t on its files, or changes none of them
\* (mock_storage.c:326-550).
THEOREM MockImplementsFileStore == Spec => ImplementsFileStore
<1>1. Init => FS!Init
  BY MockInit
<1>2. MockInv /\ [Next]_vars => [FS!Next]_(FS!vars)
  BY MockStep
<1> QED BY <1>1, <1>2, MockInvariant, PTL DEF Spec, ImplementsFileStore, FS!Spec
=============================================================================
