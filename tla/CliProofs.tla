------------------------------ MODULE CliProofs ------------------------------
(***************************************************************************)
(* Theorems about the command line client, for command lines of any length *)
(* over any options, words and separators, and for any sizes and ports.    *)
(*                                                                         *)
(* getopt_long folds a command line into what it sees and what it leaves.  *)
(* The first part shows that the fold goes through the arguments one after *)
(* the other, so that what holds at the start and after each argument      *)
(* holds of the whole line (Upward).  The second part says what the two    *)
(* parses of a line see, the third relates the steps of the process.       *)
(***************************************************************************)
EXTENDS Cli, DataLemmas

-----------------------------------------------------------------------------
(* One argument after the other *)

\* Every string, those of the model named for the provers
Text == STRING \cup {None, "--", "?", "s", "h", "v", "n", "i", "a", "p"}

Seen == [code : Text, value : Text]

\* The state of a scan
ScanState == [seen : Seq(Seen), words : Seq(Argument), wanted : Text, ended : BOOLEAN]

Start == [seen |-> <<>>, words |-> <<>>, wanted |-> None, ended |-> FALSE]

\* A table of long and short options
Table(known) == \A o \in DOMAIN known : known[o] \in [code : Text, has_arg : BOOLEAN]

\* Records of such a state
LEMMA Fields ==
    ASSUME NEW A, NEW B, NEW C, NEW D
    PROVE  /\ \A a \in A, b \in B, c \in C, d \in D :
                [seen |-> a, words |-> b, wanted |-> c, ended |-> d]
                  \in [seen : A, words : B, wanted : C, ended : D]
           /\ \A s \in [seen : A, words : B, wanted : C, ended : D] :
                /\ s.seen \in A /\ s.words \in B /\ s.wanted \in C /\ s.ended \in D
                /\ s = [seen |-> s.seen, words |-> s.words, wanted |-> s.wanted,
                        ended |-> s.ended]
OBVIOUS

LEMMA StartType == Start \in ScanState
<1>1. <<>> \in Seq(Seen) /\ <<>> \in Seq(Argument) /\ None \in Text /\ FALSE \in BOOLEAN
  BY DEF Text
<1> QED BY <1>1, Fields, Zenon DEF Start, ScanState

LEMMA ArgumentType ==
    ASSUME NEW a \in Argument
    PROVE  /\ a.kind \in {"word", "option", "separator"}
           /\ a.name \in Text /\ a.value \in Text
           /\ a.kind = "separator" <=> a = Separator
<1>1. CASE a = Separator
  BY <1>1 DEF Separator, Text
<1>2. CASE a \in [kind : {"word"}, name : STRING \ {None}, value : {None}]
  BY <1>2 DEF Separator, Text
<1>3. CASE a \in [kind : {"option"}, name : STRING \ {None}, value : STRING]
  BY <1>3 DEF Separator, Text
<1> QED BY <1>1, <1>2, <1>3 DEF Argument

\* Changes of one field
LEMMA Update ==
    ASSUME NEW s \in ScanState, NEW v
    PROVE  /\ [s EXCEPT !.seen = v] =
                [seen |-> v, words |-> s.words, wanted |-> s.wanted, ended |-> s.ended]
           /\ [s EXCEPT !.seen = v, !.wanted = None] =
                [seen |-> v, words |-> s.words, wanted |-> None, ended |-> s.ended]
           /\ [s EXCEPT !.words = v] =
                [seen |-> s.seen, words |-> v, wanted |-> s.wanted, ended |-> s.ended]
           /\ [s EXCEPT !.wanted = v] =
                [seen |-> s.seen, words |-> s.words, wanted |-> v, ended |-> s.ended]
           /\ [s EXCEPT !.ended = v] =
                [seen |-> s.seen, words |-> s.words, wanted |-> s.wanted, ended |-> v]
<1> DEFINE p == s.seen
           q == s.words
           r == s.wanted
           u == s.ended
<1>1. s = [seen |-> p, words |-> q, wanted |-> r, ended |-> u]
  BY Fields, Zenon DEF ScanState
<1> HIDE DEF p, q, r, u
<1>2. [s EXCEPT !.seen = v] = [seen |-> v, words |-> q, wanted |-> r, ended |-> u]
  BY <1>1
<1>3. [s EXCEPT !.seen = v, !.wanted = None] =
         [seen |-> v, words |-> q, wanted |-> None, ended |-> u]
  <2> DEFINE y == [s EXCEPT !.seen = v]
  <2>1. [s EXCEPT !.seen = v, !.wanted = None] = [y EXCEPT !.wanted = None]
    OBVIOUS
  <2>2. y = [seen |-> v, words |-> q, wanted |-> r, ended |-> u]
    BY <1>2
  <2> HIDE DEF y
  <2> QED BY <2>1, <2>2
<1>4. [s EXCEPT !.words = v] = [seen |-> p, words |-> v, wanted |-> r, ended |-> u]
  BY <1>1
<1>5. [s EXCEPT !.wanted = v] = [seen |-> p, words |-> q, wanted |-> v, ended |-> u]
  BY <1>1
<1>6. [s EXCEPT !.ended = v] = [seen |-> p, words |-> q, wanted |-> r, ended |-> v]
  BY <1>1
<1> QED BY <1>2, <1>3, <1>4, <1>5, <1>6 DEF p, q, r, u

\* The cases of Scan
Record(seen, words, wanted, ended) ==
    [seen |-> seen, words |-> words, wanted |-> wanted, ended |-> ended]

Found(code, value) == [code |-> code, value |-> value]

\* The state after an argument
LEMMA ScanCases ==
    ASSUME NEW known, Table(known), NEW s \in ScanState, NEW a \in Argument
    PROVE  /\ s.wanted # None =>
                Scan(known, s, a) =
                  Record(Append(s.seen, Found(s.wanted, a.name)), s.words, None, s.ended)
           /\ s.wanted = None /\ (s.ended \/ a.kind = "word") =>
                Scan(known, s, a) = Record(s.seen, Append(s.words, a), None, s.ended)
           /\ s.wanted = None /\ ~s.ended /\ a.kind = "separator" =>
                Scan(known, s, a) = Record(s.seen, s.words, None, TRUE)
           /\ s.wanted = None /\ ~s.ended /\ a.kind = "option" /\ Refused(known, a) =>
                Scan(known, s, a) =
                  Record(Append(s.seen, Found("?", None)), s.words, None, s.ended)
           /\ s.wanted = None /\ ~s.ended /\ a.kind = "option" /\ ~Refused(known, a) =>
                Scan(known, s, a) =
                  IF known[a.name].has_arg /\ a.value = None
                  THEN Record(s.seen, s.words, known[a.name].code, s.ended)
                  ELSE Record(Append(s.seen, Found(known[a.name].code, a.value)), s.words,
                              None, s.ended)
<1> USE DEF Record, Found
<1>1. CASE s.wanted # None
  BY <1>1, Update DEF Scan
<1>2. CASE s.wanted = None /\ (s.ended \/ a.kind = "word")
  BY <1>2, Update DEF Scan
<1>3. CASE s.wanted = None /\ ~s.ended /\ a.kind = "separator"
  BY <1>3, Update DEF Scan
<1>4. CASE s.wanted = None /\ ~s.ended /\ a.kind = "option" /\ Refused(known, a)
  BY <1>4, Update DEF Scan
<1>5. CASE s.wanted = None /\ ~s.ended /\ a.kind = "option" /\ ~Refused(known, a)
  BY <1>5, Update DEF Scan
<1> QED BY <1>1, <1>2, <1>3, <1>4, <1>5

LEMMA ScanType ==
    ASSUME NEW known, Table(known), NEW s \in ScanState, NEW a \in Argument
    PROVE  Scan(known, s, a) \in ScanState
<1>1. /\ s.seen \in Seq(Seen) /\ s.words \in Seq(Argument) /\ s.wanted \in Text
      /\ s.ended \in BOOLEAN
  BY Fields, Zenon DEF ScanState
<1>2. /\ a.kind \in {"word", "option", "separator"} /\ a.name \in Text /\ a.value \in Text
  BY ArgumentType
<1>3. \A code, value \in Text : Append(s.seen, Found(code, value)) \in Seq(Seen)
  <2>1. \A code, value \in Text : Found(code, value) \in Seen
    BY DEF Found, Seen
  <2> QED BY <2>1, <1>1, AppendProperties
<1>4. Append(s.words, a) \in Seq(Argument)
  BY <1>1, AppendProperties
<1>5. None \in Text /\ "?" \in Text /\ TRUE \in BOOLEAN
  BY DEF Text
<1>6. ASSUME NEW p \in Seq(Seen), NEW q \in Seq(Argument), NEW r \in Text, NEW u \in BOOLEAN
      PROVE  Record(p, q, r, u) \in ScanState
  BY Fields, Zenon DEF Record, ScanState
<1>7. ~Refused(known, a) => known[a.name].code \in Text
  BY DEF Table, Refused
<1>8. CASE s.wanted # None
  <2>1. Scan(known, s, a) = Record(Append(s.seen, Found(s.wanted, a.name)), s.words, None, s.ended)
    BY <1>8, ScanCases
  <2> QED BY <2>1, <1>1, <1>2, <1>3, <1>5, <1>6
<1>9. CASE s.wanted = None /\ (s.ended \/ a.kind = "word")
  <2>1. Scan(known, s, a) = Record(s.seen, Append(s.words, a), None, s.ended)
    BY <1>9, ScanCases
  <2> QED BY <2>1, <1>1, <1>4, <1>5, <1>6
<1>10. CASE s.wanted = None /\ ~s.ended /\ a.kind = "separator"
  <2>1. Scan(known, s, a) = Record(s.seen, s.words, None, TRUE)
    BY <1>10, ScanCases
  <2> QED BY <2>1, <1>1, <1>5, <1>6
<1>11. CASE s.wanted = None /\ ~s.ended /\ a.kind = "option" /\ Refused(known, a)
  <2>1. Scan(known, s, a) = Record(Append(s.seen, Found("?", None)), s.words, None, s.ended)
    BY <1>11, ScanCases
  <2> QED BY <2>1, <1>1, <1>3, <1>5, <1>6
<1>12. CASE s.wanted = None /\ ~s.ended /\ a.kind = "option" /\ ~Refused(known, a)
  <2>1. CASE known[a.name].has_arg /\ a.value = None
    <3>1. Scan(known, s, a) = Record(s.seen, s.words, known[a.name].code, s.ended)
      BY <1>12, <2>1, ScanCases
    <3> QED BY <3>1, <1>12, <1>1, <1>6, <1>7
  <2>2. CASE ~(known[a.name].has_arg /\ a.value = None)
    <3>1. Scan(known, s, a) =
             Record(Append(s.seen, Found(known[a.name].code, a.value)), s.words, None, s.ended)
      BY <1>12, <2>2, ScanCases
    <3> QED BY <3>1, <1>12, <1>1, <1>2, <1>3, <1>5, <1>6, <1>7
  <2> QED BY <2>1, <2>2
<1> QED BY <1>2, <1>8, <1>9, <1>10, <1>11, <1>12

\* f folds the arguments of a line, the last one last.
Folded(f, known, argv) ==
    f = [s \in SUBSET (DOMAIN argv) |->
           IF s = {} THEN Start ELSE Scan(known, f[s \ {Max(s)}], argv[Max(s)])]

LEMMA LastIn ==
    ASSUME NEW N \in Nat, NEW s \in SUBSET (1..N), s # {}
    PROVE  Max(s) \in s /\ \A y \in s : Max(s) >= y
<1>1. s \subseteq 0..N
  OBVIOUS
<1> QED BY <1>1, GreatestElement

\* Such a function exists: it is built for ever larger sets of arguments.
LEMMA FoldExists ==
    ASSUME NEW known, NEW argv \in Seq(Argument)
    PROVE  \E f : Folded(f, known, argv)
<1> DEFINE D == 1..Len(argv)
           Next1(f, s) == Scan(known, f[s \ {Max(s)}], argv[Max(s)])
           Fits(n, f) == \A s \in UpTo(D, n) : f[s] = IF s = {} THEN Start ELSE Next1(f, s)
           Built == {n \in Nat : \E f : Fits(n, f)}
<1>0. Len(argv) \in Nat /\ DOMAIN argv = D /\ IsFiniteSet(D)
  <2>1. Len(argv) \in Nat /\ DOMAIN argv = D
    BY LenProperties
  <2> QED BY <2>1, FS_Interval
<1>1. \A s \in SUBSET D : /\ Cardinality(s) \in Nat /\ Cardinality(s) <= Cardinality(D)
                          /\ s # {} => /\ Max(s) \in s
                                       /\ Cardinality(s \ {Max(s)}) = Cardinality(s) - 1
                                       /\ s \ {Max(s)} \in SUBSET D
                          /\ Cardinality(s) = 0 => s = {}
  BY <1>0, LastIn, FS_Subset, FS_CardinalityType, FS_RemoveElement, FS_EmptySet
<1>2. Cardinality(D) \in Nat
  BY <1>0, FS_CardinalityType
<1>3. 0 \in Built
  <2> DEFINE f == [s \in SUBSET D |-> Start]
  <2>1. ASSUME NEW s \in UpTo(D, 0)
        PROVE  s = {} /\ f[s] = Start
    <3>1. s \in SUBSET D /\ Cardinality(s) <= 0
      BY DEF UpTo
    <3>2. Cardinality(s) \in Nat
      BY <3>1, <1>1
    <3>3. Cardinality(s) = 0
      BY <3>1, <3>2
    <3> QED BY <3>1, <3>3, <1>1
  <2>2. Fits(0, f)
    BY <2>1
  <2> QED BY <2>2
<1>4. ASSUME NEW n \in Nat, n \in Built
      PROVE  n + 1 \in Built
  <2>1. PICK f : Fits(n, f)
    BY <1>4
  <2> DEFINE g == [s \in SUBSET D |->
                     IF s \in UpTo(D, n) \/ s = {} THEN f[s] ELSE Next1(f, s)]
  <2>2. ASSUME NEW s \in UpTo(D, n + 1)
        PROVE  g[s] = IF s = {} THEN Start ELSE Next1(g, s)
    <3>1. s \in SUBSET D /\ Cardinality(s) <= n + 1
      BY DEF UpTo
    <3>2. CASE s = {}
      <4>1. s \in UpTo(D, n)
        BY <3>1, <3>2, FS_EmptySet DEF UpTo
      <4> QED BY <4>1, <3>1, <3>2, <2>1
    <3>3. CASE s # {}
      <4>0. /\ s \ {Max(s)} \in SUBSET D /\ Cardinality(s) \in Nat
            /\ Cardinality(s \ {Max(s)}) = Cardinality(s) - 1
        BY <1>1, <3>1, <3>3
      <4>1. s \ {Max(s)} \in UpTo(D, n)
        BY <3>1, <4>0 DEF UpTo
      <4>2. g[s \ {Max(s)}] = f[s \ {Max(s)}]
        BY <4>1, <1>1, <3>1, <3>3
      <4>3. g[s] = Next1(f, s)
        BY <2>1, <3>1, <3>3
      <4> QED BY <4>2, <4>3, <3>3
    <3> QED BY <3>2, <3>3
  <2> HIDE DEF g
  <2>3. Fits(n + 1, g)
    BY <2>2
  <2> HIDE DEF Fits
  <2> QED BY <2>3
<1>5. 0..Cardinality(D) \subseteq Built
  <2> DEFINE N == Cardinality(D)
  <2> HIDE DEF Built, D
  <2>1. \A n \in 0..N - 1 : n \in Built => n + 1 \in Built
    BY <1>4
  <2>2. N \in Nat
    BY <1>2
  <2> HIDE DEF N
  <2>3. 0..N \subseteq Built
    BY <1>3, <2>1, <2>2, Upward
  <2> QED BY <2>3 DEF N
<1>6. PICK f : Fits(Cardinality(D), f)
  <2>1. Cardinality(D) \in Built
    <3> HIDE DEF Built, D
    <3> QED BY <1>2, <1>5
  <2> QED BY <2>1
<1>7. UpTo(D, Cardinality(D)) = SUBSET D
  BY <1>1 DEF UpTo
<1> DEFINE g == [s \in SUBSET D |-> f[s]]
<1>8. ASSUME NEW s \in SUBSET D
      PROVE  g[s] = IF s = {} THEN Start ELSE Next1(g, s)
  <2>1. f[s] = IF s = {} THEN Start ELSE Next1(f, s)
    BY <1>6, <1>7
  <2>2. s # {} => g[s \ {Max(s)}] = f[s \ {Max(s)}]
    BY <1>1
  <2> QED BY <2>1, <2>2
<1>9. g = [s \in SUBSET D |-> IF s = {} THEN Start ELSE Next1(g, s)]
  <2> DEFINE h == [s \in SUBSET D |-> IF s = {} THEN Start ELSE Next1(g, s)]
  <2>1. \A s \in SUBSET D : g[s] = h[s]
    <3> HIDE DEF g
    <3> QED BY <1>8
  <2> QED BY <2>1
<1>10. Folded(g, known, argv)
  <2> HIDE DEF g
  <2> QED BY <1>9, <1>0 DEF Folded
<1> QED BY <1>10

\* The state after the first n arguments
At(known, argv, n) == (CHOOSE f : Folded(f, known, argv))[1..n]

LEMMA Steps ==
    ASSUME NEW known, Table(known), NEW argv \in Seq(Argument)
    PROVE  /\ At(known, argv, 0) = Start
           /\ \A n \in 1..Len(argv) :
                At(known, argv, n) = Scan(known, At(known, argv, n - 1), argv[n])
<1> DEFINE f == CHOOSE g : Folded(g, known, argv)
<1>1. Folded(f, known, argv)
  BY FoldExists
<1>2. Len(argv) \in Nat /\ DOMAIN argv = 1..Len(argv)
  BY LenProperties
<1>3. \A n \in 0..Len(argv) : At(known, argv, n) = f[1..n]
  BY DEF At
<1> HIDE DEF f
<1>4. \A s \in SUBSET (1..Len(argv)) :
         f[s] = IF s = {} THEN Start ELSE Scan(known, f[s \ {Max(s)}], argv[Max(s)])
  <2> DEFINE h == [s \in SUBSET (1..Len(argv)) |->
                     IF s = {} THEN Start ELSE Scan(known, f[s \ {Max(s)}], argv[Max(s)])]
  <2>1. f = h
    BY <1>1, <1>2 DEF Folded
  <2>2. \A s \in SUBSET (1..Len(argv)) :
           h[s] = IF s = {} THEN Start ELSE Scan(known, f[s \ {Max(s)}], argv[Max(s)])
    OBVIOUS
  <2> HIDE DEF h
  <2> QED BY <2>1, <2>2
<1>5. At(known, argv, 0) = Start
  <2>1. 1..0 = {} /\ {} \in SUBSET (1..Len(argv)) /\ 0 \in 0..Len(argv)
    BY <1>2
  <2> QED BY <2>1, <1>3, <1>4
<1>6. ASSUME NEW n \in 1..Len(argv)
      PROVE  At(known, argv, n) = Scan(known, At(known, argv, n - 1), argv[n])
  <2>0. n \in 0..Len(argv) /\ n - 1 \in 0..Len(argv) /\ n \in 1..n /\ n \in Nat
    BY <1>2
  <2>1. 1..n \in SUBSET (1..Len(argv)) /\ 1..n # {}
    BY <1>2, <2>0
  <2>2. Max(1..n) \in 1..n /\ Max(1..n) >= n
    BY <2>0, <2>1, <1>2, LastIn
  <2>3. Max(1..n) = n /\ (1..n) \ {n} = 1..(n - 1)
    BY <2>0, <2>2
  <2>4. f[1..n] = Scan(known, f[(1..n) \ {Max(1..n)}], argv[Max(1..n)])
    BY <1>4, <2>1
  <2> QED BY <2>0, <2>3, <2>4, <1>3
<1> QED BY <1>5, <1>6

LEMMA StepTypes ==
    ASSUME NEW known, Table(known), NEW argv \in Seq(Argument)
    PROVE  \A n \in 0..Len(argv) : At(known, argv, n) \in ScanState
<1> DEFINE S == {n \in Nat : At(known, argv, n) \in ScanState}
<1>1. Len(argv) \in Nat
  BY LenProperties
<1>2. 0 \in S
  BY Steps, StartType
<1>3. ASSUME NEW n \in 0..Len(argv) - 1, n \in S
      PROVE  n + 1 \in S
  <2>1. n + 1 \in 1..Len(argv) /\ n + 1 \in Nat /\ (n + 1) - 1 = n
    BY <1>1
  <2>2. At(known, argv, n) \in ScanState /\ argv[n + 1] \in Argument
    BY <1>3, <2>1, ElementOfSeq
  <2>3. At(known, argv, n + 1) = Scan(known, At(known, argv, n), argv[n + 1])
    BY <2>1, Steps
  <2> QED BY <2>1, <2>2, <2>3, ScanType
<1> HIDE DEF S
<1>4. 0..Len(argv) \subseteq S
  BY <1>1, <1>2, <1>3, Upward
<1> QED BY <1>4 DEF S

\* What getopt_long returns
LEMMA Parsed ==
    ASSUME NEW known, Table(known), NEW argv \in Seq(Argument)
    PROVE  LET s == At(known, argv, Len(argv))
           IN  /\ getopt_long(known, argv).words = s.words
               /\ getopt_long(known, argv).seen =
                    IF s.wanted = None THEN s.seen ELSE Append(s.seen, Found("?", None))
<1> DEFINE fold == FoldLeft(LAMBDA acc, a : Scan(known, acc, a), Start, argv)
<1>1. fold = At(known, argv, Len(argv))
  <2>1. DOMAIN argv = 1..Len(argv)
    BY LenProperties
  <2>2. fold = (CHOOSE f : f = [s \in SUBSET (DOMAIN argv) |->
                  IF s = {} THEN Start ELSE Scan(known, f[s \ {Max(s)}], argv[Max(s)])])[DOMAIN argv]
    BY DEF FoldLeft, MapThenFoldSet
  <2> QED BY <2>1, <2>2 DEF At, Folded
<1>2. getopt_long(known, argv) =
        [seen |-> IF fold.wanted = None THEN fold.seen ELSE Append(fold.seen, Found("?", None)),
         words |-> fold.words]
  BY DEF getopt_long, Start, Found
<1> HIDE DEF fold
<1> QED BY <1>1, <1>2

\* t comes after s and the argument a.
Successor(known, s, a, t) ==
    /\ s.wanted # None =>
         /\ t.seen = Append(s.seen, Found(s.wanted, a.name)) /\ t.words = s.words
         /\ t.wanted = None /\ t.ended = s.ended
    /\ s.wanted = None /\ (s.ended \/ a.kind = "word") =>
         /\ t.seen = s.seen /\ t.words = Append(s.words, a)
         /\ t.wanted = None /\ t.ended = s.ended
    /\ s.wanted = None /\ ~s.ended /\ a.kind = "separator" =>
         t.seen = s.seen /\ t.words = s.words /\ t.wanted = None /\ t.ended = TRUE
    /\ s.wanted = None /\ ~s.ended /\ a.kind = "option" /\ Refused(known, a) =>
         /\ t.seen = Append(s.seen, Found("?", None)) /\ t.words = s.words
         /\ t.wanted = None /\ t.ended = s.ended
    /\ s.wanted = None /\ ~s.ended /\ a.kind = "option" /\ ~Refused(known, a) =>
         /\ t.words = s.words /\ t.ended = s.ended
         /\ known[a.name].has_arg /\ a.value = None =>
              t.seen = s.seen /\ t.wanted = known[a.name].code
         /\ ~(known[a.name].has_arg /\ a.value = None) =>
              /\ t.seen = Append(s.seen, Found(known[a.name].code, a.value))
              /\ t.wanted = None

LEMMA ScanFields ==
    ASSUME NEW known, Table(known), NEW s \in ScanState, NEW a \in Argument
    PROVE  Successor(known, s, a, Scan(known, s, a))
<1> DEFINE t == Scan(known, s, a)
<1>1. ASSUME NEW p, NEW q, NEW r, NEW u, t = Record(p, q, r, u)
      PROVE  t.seen = p /\ t.words = q /\ t.wanted = r /\ t.ended = u
  <2> HIDE DEF t
  <2> QED BY <1>1 DEF Record
<1>2. CASE s.wanted # None
  <2>1. t = Record(Append(s.seen, Found(s.wanted, a.name)), s.words, None, s.ended)
    BY <1>2, ScanCases
  <2> HIDE DEF t
  <2>2. /\ t.seen = Append(s.seen, Found(s.wanted, a.name)) /\ t.words = s.words
        /\ t.wanted = None /\ t.ended = s.ended
    BY <2>1, <1>1
  <2>3. Successor(known, s, a, t)
    BY <1>2, <2>2 DEF Successor
  <2> QED BY <2>3 DEF t
<1>3. CASE s.wanted = None /\ (s.ended \/ a.kind = "word")
  <2>1. t = Record(s.seen, Append(s.words, a), None, s.ended)
    BY <1>3, ScanCases
  <2> HIDE DEF t
  <2>2. /\ t.seen = s.seen /\ t.words = Append(s.words, a)
        /\ t.wanted = None /\ t.ended = s.ended
    BY <2>1, <1>1
  <2>3. Successor(known, s, a, t)
    BY <1>3, <2>2 DEF Successor
  <2> QED BY <2>3 DEF t
<1>4. CASE s.wanted = None /\ ~s.ended /\ a.kind = "separator"
  <2>1. t = Record(s.seen, s.words, None, TRUE)
    BY <1>4, ScanCases
  <2> HIDE DEF t
  <2>2. t.seen = s.seen /\ t.words = s.words /\ t.wanted = None /\ t.ended = TRUE
    BY <2>1, <1>1
  <2>3. Successor(known, s, a, t)
    BY <1>4, <2>2 DEF Successor
  <2> QED BY <2>3 DEF t
<1>5. CASE s.wanted = None /\ ~s.ended /\ a.kind = "option" /\ Refused(known, a)
  <2>1. t = Record(Append(s.seen, Found("?", None)), s.words, None, s.ended)
    BY <1>5, ScanCases
  <2> HIDE DEF t
  <2>2. /\ t.seen = Append(s.seen, Found("?", None)) /\ t.words = s.words
        /\ t.wanted = None /\ t.ended = s.ended
    BY <2>1, <1>1
  <2>3. Successor(known, s, a, t)
    BY <1>5, <2>2 DEF Successor
  <2> QED BY <2>3 DEF t
<1>6. CASE s.wanted = None /\ ~s.ended /\ a.kind = "option" /\ ~Refused(known, a)
  <2>1. CASE known[a.name].has_arg /\ a.value = None
    <3>1. t = Record(s.seen, s.words, known[a.name].code, s.ended)
      BY <1>6, <2>1, ScanCases
    <3> HIDE DEF t
    <3>2. /\ t.seen = s.seen /\ t.words = s.words /\ t.wanted = known[a.name].code
          /\ t.ended = s.ended
      BY <3>1, <1>1
    <3>3. Successor(known, s, a, t)
      BY <1>6, <2>1, <3>2 DEF Successor
    <3> QED BY <3>3 DEF t
  <2>2. CASE ~(known[a.name].has_arg /\ a.value = None)
    <3>1. t = Record(Append(s.seen, Found(known[a.name].code, a.value)), s.words, None, s.ended)
      BY <1>6, <2>2, ScanCases
    <3> HIDE DEF t
    <3>2. /\ t.seen = Append(s.seen, Found(known[a.name].code, a.value)) /\ t.words = s.words
          /\ t.wanted = None /\ t.ended = s.ended
      BY <3>1, <1>1
    <3>3. Successor(known, s, a, t)
      BY <1>6, <2>2, <3>2 DEF Successor
    <3> QED BY <3>3 DEF t
  <2> QED BY <2>1, <2>2
<1>7. a.kind \in {"word", "option", "separator"}
  BY ArgumentType
<1> QED BY <1>2, <1>3, <1>4, <1>5, <1>6, <1>7

LEMMA Advance ==
    ASSUME NEW known, Table(known), NEW argv \in Seq(Argument), NEW n \in 0..Len(argv) - 1
    PROVE  LET s == At(known, argv, n)
           IN  /\ argv[n + 1] \in Argument
               /\ argv[n + 1].kind \in {"word", "option", "separator"}
               /\ s.seen \in Seq(Seen) /\ s.words \in Seq(Argument) /\ s.ended \in BOOLEAN
               /\ At(known, argv, n + 1) \in ScanState
               /\ Successor(known, s, argv[n + 1], At(known, argv, n + 1))
<1>1. n + 1 \in 1..Len(argv) /\ (n + 1) - 1 = n /\ n \in 0..Len(argv) /\ n + 1 \in 0..Len(argv)
  BY LenProperties
<1>2. argv[n + 1] \in Argument /\ argv[n + 1].kind \in {"word", "option", "separator"}
  BY <1>1, ElementOfSeq, ArgumentType
<1>3. /\ At(known, argv, n) \in ScanState /\ At(known, argv, n + 1) \in ScanState
      /\ At(known, argv, n + 1) = Scan(known, At(known, argv, n), argv[n + 1])
  BY <1>1, Steps, StepTypes
<1>4. ASSUME NEW s \in ScanState
      PROVE  s.seen \in Seq(Seen) /\ s.words \in Seq(Argument) /\ s.ended \in BOOLEAN
  BY Fields, Zenon DEF ScanState
<1>5. Successor(known, At(known, argv, n), argv[n + 1], At(known, argv, n + 1))
  BY <1>2, <1>3, ScanFields
<1> QED BY <1>2, <1>3, <1>4, <1>5

-----------------------------------------------------------------------------
(* What a line of options holds *)

LEMMA Tables ==
    /\ Table(GlobalOptions) /\ Table(DeviceOptions) /\ Table(NameOptions) /\ Table(NodeOptions)
    /\ \A o \in DOMAIN GlobalOptions : GlobalOptions[o].has_arg => o \in {"-s", "--server"}
<1>1. Table(GlobalOptions)
  BY DEF Table, GlobalOptions, Takes, Text
<1>2. Table(DeviceOptions)
  BY DEF Table, DeviceOptions, Takes, Text
<1>3. Table(NameOptions)
  BY DEF Table, NameOptions, DeviceOptions, Takes, Text
<1>4. Table(NodeOptions)
  BY DEF Table, NodeOptions, Takes, Text
<1>5. \A o \in DOMAIN GlobalOptions : GlobalOptions[o].has_arg => o \in {"-s", "--server"}
  BY DEF GlobalOptions, Takes
<1> QED BY <1>1, <1>2, <1>3, <1>4, <1>5

LEMMA Appended ==
    ASSUME NEW q \in Seq(Seen), NEW e
    PROVE  /\ Len(Append(q, e)) = Len(q) + 1
           /\ \A i \in 1..Len(q) : Append(q, e)[i] = q[i]
           /\ Append(q, e)[Len(q) + 1] = e
<1>1. q \in Seq(Seen \cup {e}) /\ e \in Seen \cup {e}
  BY SeqMonotonic
<1> QED BY <1>1, AppendProperties

\* The options seen in a parse
LEMMA SeenType ==
    ASSUME NEW known, Table(known), NEW argv \in Seq(Argument)
    PROVE  /\ getopt_long(known, argv).seen \in Seq(Seen)
           /\ getopt_long(known, argv).words \in Seq(Argument)
<1> DEFINE s == At(known, argv, Len(argv))
<1>1. s \in ScanState
  <2>1. Len(argv) \in 0..Len(argv)
    BY LenProperties
  <2> QED BY <2>1, StepTypes
<1>2. s.seen \in Seq(Seen) /\ s.words \in Seq(Argument)
  BY <1>1, Fields, Zenon DEF ScanState
<1>3. Found("?", None) \in Seen
  BY DEF Found, Seen, Text
<1>4. Append(s.seen, Found("?", None)) \in Seq(Seen)
  BY <1>2, <1>3, AppendProperties
<1> QED BY <1>2, <1>4, Parsed

\* Ends finds an option that ends the loop, if there is one.
LEMMA EndsFinds ==
    ASSUME NEW seen \in Seq(Seen), NEW codes
    PROVE  /\ Ends(seen, codes) = 0 => \A i \in 1..Len(seen) : seen[i].code \notin codes
           /\ (\A i \in 1..Len(seen) : seen[i].code \notin codes) => Ends(seen, codes) = 0
           /\ Ends(seen, codes) # 0 => /\ Ends(seen, codes) \in 1..Len(seen)
                                       /\ seen[Ends(seen, codes)].code \in codes
<1> DEFINE I == {i \in 1..Len(seen) : seen[i].code \in codes}
<1>1. Ends(seen, codes) = IF I # {} THEN Min(I) ELSE 0
  BY DEF Ends, SelectInSeq
<1>2. CASE I = {}
  BY <1>1, <1>2
<1>3. CASE I # {}
  <2>1. I \subseteq Nat
    BY LenProperties
  <2>2. Min(I) \in I
    <3> HIDE DEF I
    <3> QED BY <1>3, <2>1, LeastElement
  <2>3. Min(I) # 0
    BY <2>2, LenProperties
  <2> QED BY <1>1, <1>3, <2>2, <2>3
<1> QED BY <1>2, <1>3

\* A user asks for help.
Asked(argv) == \E i \in DOMAIN argv : argv[i].name \in {"-h", "--help"}

HelpTable(known) ==
    \A o \in DOMAIN known : known[o].code = "h" => o \in {"-h", "--help"} /\ ~known[o].has_arg

LEMMA HelpAsked ==
    ASSUME NEW known, Table(known), HelpTable(known), NEW argv \in Seq(Argument), ~Asked(argv)
    PROVE  LET seen == getopt_long(known, argv).seen
           IN  \A i \in 1..Len(seen) : seen[i].code # "h"
<1> DEFINE Free(q) == \A i \in 1..Len(q) : q[i].code # "h"
           S == {n \in Nat : /\ At(known, argv, n).wanted # "h" /\ Free(At(known, argv, n).seen)}
<1>1. Len(argv) \in Nat /\ DOMAIN argv = 1..Len(argv)
  BY LenProperties
<1>2. ASSUME NEW q \in Seq(Seen), Free(q), NEW code, code # "h", NEW value
      PROVE  Free(Append(q, Found(code, value)))
  <2>1. Len(q) \in Nat
    BY LenProperties
  <2>2. Found(code, value).code = code
    BY DEF Found
  <2> QED BY <1>2, <2>1, <2>2, Appended
<1>3. 0 \in S
  <2>1. Start.wanted # "h" /\ Start.seen = <<>>
    BY DEF Start, None
  <2>2. Free(<<>>)
    OBVIOUS
  <2> HIDE DEF Free
  <2> QED BY <2>1, <2>2, Steps
<1>4. ASSUME NEW n \in 0..Len(argv) - 1, n \in S
      PROVE  n + 1 \in S
  <2> DEFINE s == At(known, argv, n)
             t == At(known, argv, n + 1)
             a == argv[n + 1]
  <2>1. n + 1 \in Nat /\ n + 1 \in DOMAIN argv
    BY <1>1
  <2>2. s.wanted # "h" /\ Free(s.seen)
    BY <1>4
  <2>3. /\ a \in Argument /\ a.kind \in {"word", "option", "separator"}
        /\ s.seen \in Seq(Seen) /\ s.ended \in BOOLEAN /\ Successor(known, s, a, t)
    BY Advance
  <2>4. ~Refused(known, a) => known[a.name].code # "h"
    BY <2>1 DEF Asked, HelpTable, Refused
  <2> HIDE DEF s, t, a, Free
  <2>5. None # "h" /\ "?" # "h"
    BY DEF None
  <2>6. t.wanted # "h" /\ Free(t.seen)
    BY <1>2, <2>2, <2>3, <2>4, <2>5 DEF Successor
  <2> QED BY <2>1, <2>6 DEF s, t
<1> HIDE DEF S
<1>5. Len(argv) \in S
  <2>1. 0..Len(argv) \subseteq S
    BY <1>1, <1>3, <1>4, Upward
  <2> QED BY <2>1, <1>1
<1> DEFINE u == At(known, argv, Len(argv))
<1>6. Free(u.seen) /\ u.seen \in Seq(Seen)
  <2>1. u \in ScanState
    BY <1>1, StepTypes
  <2>2. u.seen \in Seq(Seen)
    BY <2>1, Fields, Zenon DEF ScanState
  <2> QED BY <1>5, <2>2 DEF S
<1>7. "?" # "h"
  OBVIOUS
<1> HIDE DEF u, Free
<1>8. Free(u.seen) /\ Free(Append(u.seen, Found("?", None)))
  BY <1>2, <1>6, <1>7
<1>9. Free(getopt_long(known, argv).seen)
  BY <1>8, Parsed DEF u
<1> QED BY <1>9 DEF Free

\* An option that main does not know stands behind a separator, or is the value of -s.
Placed(argv, j) ==
    \/ argv[j].kind # "option" \/ argv[j].name \in DOMAIN GlobalOptions
    \/ \E k \in 1..(j - 1) : argv[k] = Separator
    \/ j > 1 /\ argv[j - 1].name \in {"-s", "--server"} /\ argv[j - 1].value = None

\* main sees no unknown option: then every option on the line is placed.
LEMMA MainReadsAll ==
    ASSUME NEW argv \in Seq(Argument),
           \A i \in 1..Len(getopt_long(GlobalOptions, argv).seen) :
               getopt_long(GlobalOptions, argv).seen[i].code # "?"
    PROVE  \A j \in DOMAIN argv : Placed(argv, j)
<1> DEFINE known == GlobalOptions
           Clean(q) == \A i \in 1..Len(q) : q[i].code # "?"
           Stopped(n) == \E k \in 1..n : argv[k] = Separator
           Waits(n) == n > 0 /\ argv[n].name \in {"-s", "--server"} /\ argv[n].value = None
           Good(n) == /\ \A j \in 1..n : Placed(argv, j)
                      /\ At(known, argv, n).ended => Stopped(n)
                      /\ At(known, argv, n).wanted # None => Waits(n)
           S == {n \in Nat : Clean(At(known, argv, n).seen) => Good(n)}
<1>0. Table(known)
  BY Tables
<1>1. Len(argv) \in Nat /\ DOMAIN argv = 1..Len(argv)
  BY LenProperties
<1>2. ASSUME NEW q \in Seq(Seen), NEW e, Clean(Append(q, e))
      PROVE  Clean(q) /\ e.code # "?"
  <2> DEFINE r == Append(q, e)
  <2>1. Len(q) \in Nat
    BY LenProperties
  <2>2. Len(r) = Len(q) + 1 /\ r[Len(q) + 1] = e /\ \A i \in 1..Len(q) : r[i] = q[i]
    BY Appended
  <2>3. \A i \in 1..Len(r) : r[i].code # "?"
    BY <1>2
  <2> HIDE DEF r
  <2>4. \A i \in 1..Len(q) : i \in 1..Len(r)
    BY <2>1, <2>2
  <2>5. Len(q) + 1 \in 1..Len(r)
    BY <2>1, <2>2
  <2>6. e.code # "?"
    BY <2>2, <2>3, <2>5
  <2> QED BY <2>2, <2>3, <2>4, <2>6
<1>3. 0 \in S
  <2>1. Start.wanted = None /\ Start.ended = FALSE
    BY DEF Start
  <2>2. At(known, argv, 0) = Start
    BY <1>0, Steps
  <2>3. Good(0)
    BY <2>1, <2>2
  <2> QED BY <2>3
<1>4. ASSUME NEW n \in 0..Len(argv) - 1, n \in S
      PROVE  n + 1 \in S
  <2> DEFINE s == At(known, argv, n)
             t == At(known, argv, n + 1)
             a == argv[n + 1]
  <2>1. n \in Nat /\ n + 1 \in Nat /\ (n + 1) - 1 = n /\ n + 1 > 0
    BY <1>1
  <2>2. SUFFICES ASSUME Clean(t.seen) PROVE Good(n + 1)
    BY <2>1
  <2>3. /\ a \in Argument /\ a.kind \in {"word", "option", "separator"}
        /\ s.seen \in Seq(Seen) /\ s.ended \in BOOLEAN /\ Successor(known, s, a, t)
    BY <1>0, Advance
  <2>4. a.kind = "separator" => a = Separator
    BY <2>3, ArgumentType
  <2>5. ~Refused(known, a) => /\ a.name \in DOMAIN known
                              /\ known[a.name].has_arg => a.name \in {"-s", "--server"}
    BY Tables DEF Refused
  <2>6. Clean(s.seen) => Good(n)
    BY <1>4
  <2>7. /\ Placed(argv, n + 1) <=>
             \/ a.kind # "option" \/ a.name \in DOMAIN known \/ Stopped(n)
             \/ n + 1 > 1 /\ argv[n].name \in {"-s", "--server"} /\ argv[n].value = None
        /\ Good(n + 1) <=> /\ \A j \in 1..n : Placed(argv, j)
                           /\ Placed(argv, n + 1)
                           /\ t.ended => Stopped(n) \/ a = Separator
                           /\ t.wanted # None =>
                                a.name \in {"-s", "--server"} /\ a.value = None
    <3>1. 1..(n + 1) = 1..n \cup {n + 1}
      BY <2>1
    <3>2. Stopped(n + 1) <=> Stopped(n) \/ a = Separator
      BY <3>1
    <3>3. (\A j \in 1..(n + 1) : Placed(argv, j)) <=>
             (\A j \in 1..n : Placed(argv, j)) /\ Placed(argv, n + 1)
      BY <3>1
    <3>4. Placed(argv, n + 1) <=>
             \/ a.kind # "option" \/ a.name \in DOMAIN known \/ Stopped(n)
             \/ n + 1 > 1 /\ argv[n].name \in {"-s", "--server"} /\ argv[n].value = None
      BY <2>1 DEF Placed
    <3> HIDE DEF Stopped
    <3> QED BY <3>2, <3>3, <3>4, <2>1
  <2>8. Waits(n) => n + 1 > 1 /\ argv[n].name \in {"-s", "--server"} /\ argv[n].value = None
    BY <2>1
  <2>9. Good(n) => /\ \A j \in 1..n : Placed(argv, j)
                   /\ s.ended => Stopped(n)
                   /\ s.wanted # None => Waits(n)
    OBVIOUS
  <2> HIDE DEF s, t, a, Clean, Good, Stopped, Waits, known
  <2>10. Found("?", None).code = "?"
    BY DEF Found
  <2>11. CASE s.wanted # None
    <3>1. t.seen = Append(s.seen, Found(s.wanted, a.name)) /\ t.wanted = None /\ t.ended = s.ended
      BY <2>3, <2>11 DEF Successor
    <3>2. Good(n)
      BY <1>2, <2>2, <2>3, <2>6, <3>1
    <3> QED BY <2>7, <2>8, <2>9, <2>11, <3>1, <3>2
  <2>12. CASE s.wanted = None /\ s.ended
    <3>1. t.seen = s.seen /\ t.wanted = None /\ t.ended = s.ended
      BY <2>3, <2>12 DEF Successor
    <3> QED BY <2>2, <2>6, <2>7, <2>9, <2>12, <3>1
  <2>13. CASE s.wanted = None /\ ~s.ended /\ a.kind = "word"
    <3>1. t.seen = s.seen /\ t.wanted = None /\ t.ended = s.ended
      BY <2>3, <2>13 DEF Successor
    <3> QED BY <2>2, <2>6, <2>7, <2>9, <2>13, <3>1
  <2>14. CASE s.wanted = None /\ ~s.ended /\ a.kind = "separator"
    <3>1. t.seen = s.seen /\ t.wanted = None
      BY <2>3, <2>14 DEF Successor
    <3> QED BY <2>2, <2>4, <2>6, <2>7, <2>9, <2>14, <3>1
  <2>15. CASE s.wanted = None /\ ~s.ended /\ a.kind = "option" /\ Refused(known, a)
    <3>1. t.seen = Append(s.seen, Found("?", None))
      BY <2>3, <2>15 DEF Successor
    <3> QED BY <1>2, <2>2, <2>3, <2>10, <3>1
  <2>16. CASE s.wanted = None /\ ~s.ended /\ a.kind = "option" /\ ~Refused(known, a)
    <3>1. /\ t.ended = s.ended
          /\ \/ known[a.name].has_arg /\ a.value = None /\ t.seen = s.seen
             \/ t.seen = Append(s.seen, Found(known[a.name].code, a.value)) /\ t.wanted = None
      BY <2>3, <2>16 DEF Successor
    <3>2. Good(n)
      BY <1>2, <2>2, <2>3, <2>6, <3>1
    <3> QED BY <2>5, <2>7, <2>9, <2>16, <3>1, <3>2
  <2> QED BY <2>3, <2>11, <2>12, <2>13, <2>14, <2>15, <2>16
<1> HIDE DEF S
<1>5. Len(argv) \in S
  <2>1. 0..Len(argv) \subseteq S
    BY <1>1, <1>3, <1>4, Upward
  <2> QED BY <2>1, <1>1
<1> DEFINE u == At(known, argv, Len(argv))
<1>6. u.seen \in Seq(Seen)
  <2>1. u \in ScanState
    BY <1>0, <1>1, StepTypes
  <2> QED BY <2>1, Fields, Zenon DEF ScanState
<1>7. Clean(getopt_long(known, argv).seen)
  OBVIOUS
<1>8. getopt_long(known, argv).seen \in {u.seen, Append(u.seen, Found("?", None))}
  BY <1>0, Parsed
<1>9. Clean(u.seen)
  <2> HIDE DEF Clean, u
  <2> QED BY <1>2, <1>6, <1>7, <1>8
<1>10. Good(Len(argv))
  <2> HIDE DEF Clean, Good
  <2> QED BY <1>5, <1>9 DEF S
<1> QED BY <1>1, <1>10

\* Behind a separator a parse sees no option and leaves every argument.
LEMMA Separated ==
    ASSUME NEW known, Table(known), NEW argv \in Seq(Argument), Len(argv) > 0,
           argv[1] = Separator
    PROVE  /\ getopt_long(known, argv).seen = <<>>
           /\ getopt_long(known, argv).words = SubSeq(argv, 2, Len(argv))
<1> DEFINE Left(q, n) == /\ q \in Seq(Argument) /\ Len(q) = n - 1
                         /\ \A i \in 1..n - 1 : q[i] = argv[i + 1]
           Passed(s, n) == /\ s.seen = <<>> /\ s.wanted = None /\ s.ended = TRUE
                           /\ Left(s.words, n)
           S == {n \in Nat : n > 0 => Passed(At(known, argv, n), n)}
<1>1. Len(argv) \in Nat
  BY LenProperties
<1>2. 0 \in S
  OBVIOUS
<1>3. ASSUME NEW n \in 0..Len(argv) - 1, n \in S
      PROVE  n + 1 \in S
  <2> DEFINE s == At(known, argv, n)
             t == At(known, argv, n + 1)
             a == argv[n + 1]
  <2>1. n \in Nat /\ n + 1 \in Nat
    BY <1>1
  <2>2. SUFFICES Passed(t, n + 1)
    BY <2>1
  <2>3. a \in Argument /\ s.words \in Seq(Argument) /\ Successor(known, s, a, t)
    BY Advance
  <2>4. CASE n = 0
    <3>1. s = Start /\ a = argv[1]
      BY <2>4, Steps
    <3> HIDE DEF s, t, a
    <3>2. a.kind = "separator"
      BY <3>1 DEF Separator
    <3>3. s.wanted = None /\ s.ended = FALSE /\ s.seen = <<>> /\ s.words = <<>>
      BY <3>1 DEF Start
    <3>4. t.seen = <<>> /\ t.words = <<>> /\ t.wanted = None /\ t.ended = TRUE
      BY <2>3, <3>2, <3>3 DEF Successor
    <3>5. Left(<<>>, n + 1)
      BY <2>4
    <3> HIDE DEF Left
    <3> QED BY <3>4, <3>5
  <2>5. CASE n > 0
    <3>1. Passed(s, n)
      BY <1>3, <2>5
    <3> HIDE DEF s, t, a
    <3>2. t.seen = <<>> /\ t.words = Append(s.words, a) /\ t.wanted = None /\ t.ended = TRUE
      BY <2>3, <3>1 DEF Successor
    <3>3. /\ Append(s.words, a) \in Seq(Argument) /\ Len(Append(s.words, a)) = n
          /\ \A i \in 1..n - 1 : Append(s.words, a)[i] = argv[i + 1]
          /\ Append(s.words, a)[n] = a
      BY <2>1, <2>3, <3>1, AppendProperties
    <3>4. Left(Append(s.words, a), n + 1)
      BY <2>1, <2>5, <3>3 DEF a
    <3> HIDE DEF Left
    <3> QED BY <3>2, <3>4
  <2>6. n = 0 \/ n > 0
    BY <2>1
  <2> HIDE DEF Passed
  <2> QED BY <2>4, <2>5, <2>6
<1> HIDE DEF S
<1>4. Len(argv) \in S
  <2>1. 0..Len(argv) \subseteq S
    BY <1>1, <1>2, <1>3, Upward
  <2> QED BY <2>1, <1>1
<1> DEFINE u == At(known, argv, Len(argv))
<1>5. Passed(u, Len(argv))
  <2> HIDE DEF Passed
  <2> QED BY <1>1, <1>4 DEF S
<1>6. /\ SubSeq(argv, 2, Len(argv)) \in Seq(Argument)
      /\ Len(SubSeq(argv, 2, Len(argv))) = Len(argv) - 1
      /\ \A i \in 1..Len(argv) - 1 : SubSeq(argv, 2, Len(argv))[i] = argv[i + 1]
  <2>1. \A i \in 2..Len(argv) : argv[i] \in Argument
    BY <1>1, ElementOfSeq
  <2>2. /\ SubSeq(argv, 2, Len(argv)) \in Seq(Argument)
        /\ Len(SubSeq(argv, 2, Len(argv))) = IF 2 <= Len(argv) THEN Len(argv) - 2 + 1 ELSE 0
        /\ \A i \in 1..Len(argv) - 2 + 1 :
             SubSeq(argv, 2, Len(argv))[i] = argv[2 + i - 1]
    BY <1>1, <2>1, SubSeqProperties
  <2>3. Len(argv) - 2 + 1 = Len(argv) - 1 /\ \A i \in Nat : 2 + i - 1 = i + 1
    BY <1>1
  <2> QED BY <1>1, <2>2, <2>3
<1>7. u.words = SubSeq(argv, 2, Len(argv))
  <2> HIDE DEF u
  <2> QED BY <1>5, <1>6, SeqEqual
<1>8. /\ getopt_long(known, argv).words = u.words
      /\ u.wanted = None => getopt_long(known, argv).seen = u.seen
  BY Parsed
<1> HIDE DEF u
<1> QED BY <1>5, <1>7, <1>8

\* Every argument is a known option that carries a value.
Carried(known, options) ==
    \A i \in DOMAIN options : /\ options[i].kind = "option" /\ options[i].value # None
                              /\ options[i].name \in DOMAIN known /\ ~Refused(known, options[i])

\* Such a line is seen option by option.
LEMMA SeenInOrder ==
    ASSUME NEW known, Table(known), NEW options \in Seq(Argument), Carried(known, options)
    PROVE  LET seen == getopt_long(known, options).seen
           IN  /\ Len(seen) = Len(options)
               /\ \A i \in 1..Len(options) :
                    seen[i] = Found(known[options[i].name].code, options[i].value)
<1> DEFINE Entry(i) == Found(known[options[i].name].code, options[i].value)
           Done(s, n) == /\ s.wanted = None /\ s.ended = FALSE /\ Len(s.seen) = n
                         /\ \A i \in 1..n : s.seen[i] = Entry(i)
           S == {n \in Nat : Done(At(known, options, n), n)}
<1>1. Len(options) \in Nat /\ DOMAIN options = 1..Len(options)
  BY LenProperties
<1>2. 0 \in S
  <2>1. Done(Start, 0)
    BY DEF Start
  <2> HIDE DEF Done
  <2> QED BY <2>1, Steps
<1>3. ASSUME NEW n \in 0..Len(options) - 1, n \in S
      PROVE  n + 1 \in S
  <2> DEFINE s == At(known, options, n)
             t == At(known, options, n + 1)
             a == options[n + 1]
  <2>1. n \in Nat /\ n + 1 \in Nat /\ n + 1 \in DOMAIN options
    BY <1>1
  <2>2. s.seen \in Seq(Seen) /\ Successor(known, s, a, t)
    BY Advance
  <2>3. a.kind = "option" /\ a.value # None /\ ~Refused(known, a)
    BY <2>1 DEF Carried
  <2>4. Done(s, n)
    BY <1>3
  <2>5. Found(known[a.name].code, a.value) = Entry(n + 1)
    OBVIOUS
  <2> HIDE DEF s, t, a, Entry
  <2>6. /\ t.seen = Append(s.seen, Entry(n + 1)) /\ t.wanted = None /\ t.ended = FALSE
    BY <2>2, <2>3, <2>4, <2>5 DEF Successor
  <2>7. /\ Len(t.seen) = n + 1 /\ t.seen[n + 1] = Entry(n + 1)
        /\ \A i \in 1..n : t.seen[i] = Entry(i)
    BY <2>2, <2>4, <2>6, Appended
  <2>8. Done(t, n + 1)
    BY <2>1, <2>6, <2>7
  <2> HIDE DEF Done
  <2> QED BY <2>1, <2>8 DEF t
<1> HIDE DEF S
<1>4. Len(options) \in S
  <2>1. 0..Len(options) \subseteq S
    BY <1>1, <1>2, <1>3, Upward
  <2> QED BY <2>1, <1>1
<1> DEFINE u == At(known, options, Len(options))
<1>5. Done(u, Len(options))
  <2> HIDE DEF Done
  <2> QED BY <1>4 DEF S
<1>6. u.wanted = None => getopt_long(known, options).seen = u.seen
  BY Parsed
<1> HIDE DEF u
<1>7. /\ Len(getopt_long(known, options).seen) = Len(options)
      /\ \A i \in 1..Len(options) : getopt_long(known, options).seen[i] = Entry(i)
  <2> HIDE DEF Entry
  <2> QED BY <1>5, <1>6
<1> QED BY <1>7

\* The spellings of the option with a code, in a table
Spells(known, code, spellings) ==
    \A o \in DOMAIN known : known[o].code = code <=> o \in spellings

\* The loop keeps the value given last.
LEMMA LastWins ==
    ASSUME NEW known, Table(known), NEW options \in Seq(Argument), Carried(known, options),
           NEW code, NEW spellings, Spells(known, code, spellings), NEW default
    PROVE  Value(getopt_long(known, options).seen, code, default) =
             LastGiven(options, spellings, default)
<1> DEFINE seen == getopt_long(known, options).seen
           I == {i \in 1..Len(seen) : seen[i].code = code}
           J == {i \in DOMAIN options : options[i].name \in spellings}
<1>1. Len(options) \in Nat /\ DOMAIN options = 1..Len(options)
  BY LenProperties
<1>2. /\ Len(seen) = Len(options)
      /\ \A i \in 1..Len(options) : seen[i] = Found(known[options[i].name].code, options[i].value)
  BY SeenInOrder
<1>0. \A c, v : Found(c, v).code = c /\ Found(c, v).value = v
  BY DEF Found
<1>3. \A i \in 1..Len(options) : seen[i].code = code <=> options[i].name \in spellings
  <2> HIDE DEF seen
  <2> QED BY <1>0, <1>1, <1>2 DEF Carried, Spells
<1>4. \A i \in 1..Len(options) : seen[i].value = options[i].value
  <2> HIDE DEF seen
  <2> QED BY <1>0, <1>2
<1>5. I = J
  <2> HIDE DEF seen
  <2> QED BY <1>1, <1>2, <1>3
<1>6. Value(seen, code, default) = LET i == IF I # {} THEN Max(I) ELSE 0
                                   IN  IF i = 0 THEN default ELSE seen[i].value
  <2> HIDE DEF seen
  <2> QED BY DEF Value, SelectLastInSeq
<1>7. LastGiven(options, spellings, default) = IF J = {} THEN default ELSE options[Max(J)].value
  BY DEF LastGiven
<1>8. J # {} => Max(J) \in 1..Len(options)
  <2>1. J \subseteq 1..Len(options)
    BY <1>1
  <2> HIDE DEF J
  <2> QED BY <1>1, <2>1, LastIn
<1> HIDE DEF I, J, seen
<1>9. J # {} => Max(J) # 0 /\ seen[Max(J)].value = options[Max(J)].value
  BY <1>1, <1>4, <1>8
<1>10. Value(seen, code, default) = LastGiven(options, spellings, default)
  BY <1>5, <1>6, <1>7, <1>9
<1> QED BY <1>10 DEF seen

-----------------------------------------------------------------------------
(* Sizes, ports and tables *)

LEMMA Multipliers ==
    \A u \in DOMAIN Multiplier : Multiplier[u] \in Nat
<1> DEFINE M == Kilo * Kilo
<1>1. Kilo \in Nat /\ M \in Nat
  BY CliAssumption
<1>2. M * Kilo \in Nat /\ M * M \in Nat
  <2> HIDE DEF M
  <2> QED BY <1>1
<1>3. \A u \in DOMAIN Multiplier : Multiplier[u] \in {1, Kilo, M, M * Kilo, M * M}
  BY DEF Multiplier
<1> HIDE DEF M
<1> QED BY <1>1, <1>2, <1>3

Bytes(text) == (SizeText[text].num * Multiplier[SizeText[text].unit]) \div SizeText[text].den

\* A size fits; a positive one that fits is what the text says.
LEMMA Sizes ==
    ASSUME NEW text
    PROVE  /\ parse_size_string(text) \subseteq 0..(SizeMod - 1)
           /\ (/\ text \in DOMAIN SizeText /\ SizeText[text].unit \in DOMAIN Multiplier
               /\ Bytes(text) \in 1..(SizeMod - 1))
              => parse_size_string(text) = {Bytes(text)}
<1> DEFINE num == SizeText[text].num
           den == SizeText[text].den
           unit == SizeText[text].unit
           mult == Multiplier[unit]
           bytes == (num * mult) \div den
<1>0. SizeMod \in Nat /\ SizeMod > 0
  BY CliAssumption
<1>1. parse_size_string(text) =
        IF text \notin DOMAIN SizeText THEN {0}
        ELSE IF num <= 0 \/ unit \notin DOMAIN Multiplier THEN {0}
        ELSE IF bytes < SizeMod THEN {bytes} ELSE {0, SizeMod - 1}
  BY DEF parse_size_string
<1>2. Bytes(text) = bytes
  BY DEF Bytes
<1>3. CASE text \notin DOMAIN SizeText \/ unit \notin DOMAIN Multiplier
  <2> HIDE DEF num, den, unit, mult, bytes
  <2>1. parse_size_string(text) = {0}
    BY <1>1, <1>3
  <2> QED BY <2>1, <1>0, <1>3 DEF unit
<1>4. CASE text \in DOMAIN SizeText /\ unit \in DOMAIN Multiplier
  <2>1. num \in Int /\ den \in Nat /\ den > 0
    <3>1. SizeText[text] \in [num : Int, den : Nat \ {0}, unit : STRING]
      BY <1>4, CliAssumption
    <3> QED BY <3>1
  <2>2. mult \in Nat
    BY <1>4, Multipliers
  <2> HIDE DEF num, den, unit, mult
  <2>3. CASE num > 0
    <3> DEFINE k == num * mult
    <3>1. k \in Nat
      BY <2>1, <2>2, <2>3
    <3> HIDE DEF k
    <3>2. k \div den \in Nat
      BY <2>1, <3>1
    <3>3. bytes \in Nat
      BY <3>2 DEF k
    <3> HIDE DEF bytes
    <3>4. parse_size_string(text) = IF bytes < SizeMod THEN {bytes} ELSE {0, SizeMod - 1}
      BY <1>1, <1>4, <2>1, <2>3
    <3> QED BY <1>0, <1>2, <3>3, <3>4
  <2>4. CASE num <= 0
    <3> DEFINE k == num * mult
    <3>1. k \in Int /\ k <= 0
      BY <2>1, <2>2, <2>4
    <3> HIDE DEF k
    <3>2. k \div den <= 0
      BY <2>1, <3>1
    <3>3. bytes <= 0
      BY <3>2 DEF k
    <3>4. k \div den \in Int
      BY <2>1, <3>1
    <3>5. bytes \in Int
      BY <3>4 DEF k
    <3> HIDE DEF bytes
    <3>6. parse_size_string(text) = {0}
      BY <1>1, <1>4, <2>4
    <3> QED BY <1>0, <1>2, <3>3, <3>5, <3>6
  <2> QED BY <2>1, <2>3, <2>4
<1> QED BY <1>3, <1>4

\* A port fits; one that fits is kept.
LEMMA Ports ==
    ASSUME NEW text
    PROVE  /\ ParsePort(text) \in 0..(PortMod - 1)
           /\ text \in DOMAIN PortText /\ PortText[text] \in 0..(PortMod - 1)
              => ParsePort(text) = PortText[text]
<1>1. PortMod \in Nat /\ PortMod > 0
  BY CliAssumption
<1>2. CASE text \notin DOMAIN PortText
  BY <1>1, <1>2 DEF ParsePort
<1>3. CASE text \in DOMAIN PortText
  <2>1. PortText[text] \in Int
    BY <1>3, CliAssumption
  <2>2. \A x \in Int : x % PortMod \in 0..(PortMod - 1)
    BY <1>1
  <2>3. \A x \in 0..(PortMod - 1) : x % PortMod = x
    BY <1>1
  <2> QED BY <1>3, <2>1, <2>2, <2>3 DEF ParsePort
<1> QED BY <1>2, <1>3

LEMMA Spellings ==
    /\ HelpTable(DeviceOptions) /\ HelpTable(NameOptions) /\ HelpTable(NodeOptions)
    /\ Spells(DeviceOptions, "n", {"-n", "--name"})
    /\ Spells(DeviceOptions, "s", {"-s", "--size"})
    /\ Spells(NameOptions, "n", {"-n", "--name"})
    /\ {"-n", "--name"} = DOMAIN NameOptions \ {"-h", "--help"}
    /\ \A o \in DOMAIN NameOptions : NameOptions[o].code # "?"
    /\ "--version" \notin DOMAIN NodeOptions
    /\ Spells(NodeOptions, "i", {"-i", "--id"})
    /\ Spells(NodeOptions, "a", {"-a", "--address"})
    /\ Spells(NodeOptions, "p", {"-p", "--port"})
    /\ \A o \in DOMAIN DeviceOptions \cup DOMAIN NodeOptions :
         /\ o \in DOMAIN DeviceOptions => DeviceOptions[o].code # "?"
         /\ o \in DOMAIN NodeOptions => NodeOptions[o].code # "?"
    /\ {"-n", "--name", "-s", "--size"} = DOMAIN DeviceOptions \ {"-h", "--help"}
<1>1. HelpTable(DeviceOptions) /\ HelpTable(NameOptions) /\ HelpTable(NodeOptions)
  BY DEF HelpTable, DeviceOptions, NameOptions, NodeOptions, Takes
<1>2. /\ Spells(DeviceOptions, "n", {"-n", "--name"}) /\ Spells(DeviceOptions, "s", {"-s", "--size"})
      /\ \A o \in DOMAIN DeviceOptions : DeviceOptions[o].code # "?"
      /\ {"-n", "--name", "-s", "--size"} = DOMAIN DeviceOptions \ {"-h", "--help"}
  BY DEF Spells, DeviceOptions, Takes
<1>3. /\ Spells(NodeOptions, "i", {"-i", "--id"}) /\ Spells(NodeOptions, "a", {"-a", "--address"})
      /\ Spells(NodeOptions, "p", {"-p", "--port"})
      /\ \A o \in DOMAIN NodeOptions : NodeOptions[o].code # "?"
      /\ "--version" \notin DOMAIN NodeOptions
  BY DEF Spells, NodeOptions, Takes
<1>4. /\ Spells(NameOptions, "n", {"-n", "--name"})
      /\ {"-n", "--name"} = DOMAIN NameOptions \ {"-h", "--help"}
      /\ \A o \in DOMAIN NameOptions : NameOptions[o].code # "?"
  BY DEF Spells, NameOptions, DeviceOptions, Takes
<1> QED BY <1>1, <1>2, <1>3, <1>4

-----------------------------------------------------------------------------
(* The process *)

Changing == {"create-device", "delete-device", "add-node"}

\* What TypeOK says of a call
Sound(c) ==
    /\ c.fn = "create_device" => c.size \in 1..(SizeMod - 1)
    /\ c.fn = "add_node" => c.port \in 0..(PortMod - 1)

TypeInv ==
    /\ args \in CommandLine
    /\ pc \in {"main", "init", "command", "cleanup", "exit"} /\ result \in {0, 1}

\* The context and the words go with the place of the process.
PhaseInv ==
    /\ \/ pc \in {"main", "init"} /\ ctx = "none"
       \/ pc \in {"command", "cleanup"} /\ ctx = "live"
       \/ pc = "exit" /\ ctx \in {"none", "freed"}
    /\ (pc \in {"init", "command", "cleanup"} \/ ctx # "none") => rest # <<>>
    /\ (pc \in {"main", "init", "command"} \/ ctx = "none") => calls = <<>>

\* The words are what main's parse left, and no option ended it.
ParseInv ==
    rest # <<>> =>
        /\ rest = getopt_long(GlobalOptions, args).words
        /\ Ends(getopt_long(GlobalOptions, args).seen, {"h", "v", "?"}) = 0

CallInv == calls = <<>> \/ (Len(calls) = 1 /\ Sound(calls[1].call))

\* Success of a command that changes something has a reason.
OutcomeInv ==
    (pc \in {"cleanup", "exit"} /\ ctx # "none" /\ result = 0 /\ Head(rest).name \in Changing)
        => (calls # <<>> /\ calls[1].ok) \/ Asked(rest)

ProcessInv == TypeInv /\ PhaseInv /\ ParseInv /\ CallInv /\ OutcomeInv

CliInv == ProcessInv /\ SeparatedFormWorks

LEMMA LineType ==
    ASSUME TypeInv
    PROVE  args \in Seq(Argument)
BY CliAssumption DEF TypeInv

LEMMA RestType ==
    ASSUME TypeInv, ParseInv, rest # <<>>
    PROVE  /\ rest \in Seq(Argument) /\ Tail(rest) \in Seq(Argument)
           /\ Asked(Tail(rest)) => Asked(rest)
<1>1. rest \in Seq(Argument)
  BY LineType, SeenType, Tables DEF ParseInv
<1>2. /\ Tail(rest) \in Seq(Argument) /\ Len(Tail(rest)) = Len(rest) - 1
      /\ \A i \in 1..Len(Tail(rest)) : Tail(rest)[i] = rest[i + 1]
  BY <1>1, HeadTailProperties
<1>3. /\ Len(rest) \in Nat /\ DOMAIN rest = 1..Len(rest)
      /\ Len(Tail(rest)) \in Nat /\ DOMAIN Tail(rest) = 1..Len(Tail(rest))
  BY <1>1, <1>2, LenProperties
<1>4. ASSUME NEW i \in DOMAIN Tail(rest), Tail(rest)[i].name \in {"-h", "--help"}
      PROVE  Asked(rest)
  <2>1. i + 1 \in DOMAIN rest /\ rest[i + 1] = Tail(rest)[i]
    BY <1>2, <1>3
  <2> QED BY <1>4, <2>1 DEF Asked
<1> QED BY <1>1, <1>2, <1>4 DEF Asked

LEMMA One ==
    ASSUME NEW c
    PROVE  /\ Append(<<>>, c) = <<c>> /\ Len(<<c>>) = 1 /\ <<c>>[1] = c /\ <<c>> # <<>>
OBVIOUS

\* A command that returns without a call
LEMMA ReturnKeeps ==
    ASSUME ProcessInv, pc = "command", NEW code \in {0, 1}, Return(code),
           code = 0 /\ Head(rest).name \in Changing => Asked(rest)
    PROVE  ProcessInv'
<1> USE DEF ProcessInv, Return, Finish
<1>1. TypeInv' /\ PhaseInv'
  BY DEF TypeInv, PhaseInv
<1>2. ParseInv'
  BY DEF ParseInv
<1>3. CallInv'
  BY DEF CallInv
<1>4. OutcomeInv'
  BY DEF OutcomeInv, Asked
<1> QED BY <1>1, <1>2, <1>3, <1>4

\* A command that calls the core API
LEMMA CallKeeps ==
    ASSUME ProcessInv, pc = "command", NEW call, CallApi(call), Sound(call)
    PROVE  ProcessInv'
<1>1. PICK ok \in BOOLEAN : /\ calls' = Append(calls, [call |-> call, ok |-> ok])
                            /\ Finish(IF ok THEN 0 ELSE 1)
  BY DEF CallApi
<1> DEFINE c == [call |-> call, ok |-> ok]
<1>2. calls = <<>>
  BY DEF ProcessInv, PhaseInv
<1>3. c.call = call /\ c.ok = ok
  OBVIOUS
<1>4. calls' = Append(<<>>, c)
  BY <1>1, <1>2
<1> HIDE DEF c
<1>5. Len(calls') = 1 /\ calls'[1] = c /\ calls' # <<>>
  BY <1>4, One
<1>6. TypeInv' /\ PhaseInv'
  BY <1>1 DEF ProcessInv, TypeInv, PhaseInv, Finish
<1>7. ParseInv'
  BY <1>1 DEF ProcessInv, ParseInv, Finish
<1>8. CallInv'
  <2>1. Sound(calls'[1].call)
    BY <1>3, <1>5
  <2> QED BY <1>5, <2>1 DEF CallInv, Sound
<1>9. OutcomeInv'
  <2>1. result' = 0 => ok
    BY <1>1 DEF Finish
  <2> QED BY <1>3, <1>5, <2>1 DEF OutcomeInv
<1> QED BY <1>6, <1>7, <1>8, <1>9 DEF ProcessInv

\* The ways a command that takes options ends
Ended ==
    \/ \E code \in {0, 1} : Return(code) /\ (code = 0 => Asked(rest))
    \/ \E call : Sound(call) /\ CallApi(call)

\* An option that ends a command is -h, or an error.
LEMMA EndReturns ==
    ASSUME ProcessInv, rest # <<>>, NEW known, Table(known), HelpTable(known),
           LET seen == ParseCommandOptions(known)
               e == Ends(seen, {"h", "?"})
           IN  e # 0 /\ Return(IF seen[e].code = "h" THEN 0 ELSE 1)
    PROVE  Ended
<1> DEFINE seen == ParseCommandOptions(known)
           e == Ends(seen, {"h", "?"})
           code == IF seen[e].code = "h" THEN 0 ELSE 1
<1>1. Tail(rest) \in Seq(Argument) /\ (Asked(Tail(rest)) => Asked(rest))
  BY RestType DEF ProcessInv
<1>2. seen \in Seq(Seen)
  BY <1>1, SeenType DEF ParseCommandOptions
<1>3. e \in 1..Len(seen)
  <2>1. e # 0
    OBVIOUS
  <2> HIDE DEF seen
  <2> QED BY <1>2, <2>1, EndsFinds
<1>4. ~Asked(Tail(rest)) => \A i \in 1..Len(seen) : seen[i].code # "h"
  BY <1>1, HelpAsked DEF ParseCommandOptions
<1>5. Return(code)
  OBVIOUS
<1> HIDE DEF seen, e
<1>6. code = 0 => Asked(rest)
  BY <1>1, <1>3, <1>4
<1>7. code \in {0, 1}
  OBVIOUS
<1> HIDE DEF code
<1> QED BY <1>5, <1>6, <1>7 DEF Ended

LEMMA EndedKeeps ==
    ASSUME ProcessInv, pc = "command", Ended
    PROVE  ProcessInv'
<1>1. CASE \E code \in {0, 1} : Return(code) /\ (code = 0 => Asked(rest))
  BY <1>1, ReturnKeeps
<1>2. CASE \E call : Sound(call) /\ CallApi(call)
  BY <1>2, CallKeeps
<1> QED BY <1>1, <1>2 DEF Ended

LEMMA CreateEnds ==
    ASSUME ProcessInv, cmd_create_device
    PROVE  Ended
<1> DEFINE seen == ParseCommandOptions(DeviceOptions)
           e == Ends(seen, {"h", "?"})
           name == Value(seen, "n", None)
           size_str == Value(seen, "s", None)
<1>0. rest # <<>> /\ Table(DeviceOptions) /\ HelpTable(DeviceOptions)
  BY Tables, Spellings DEF ProcessInv, PhaseInv, cmd_create_device, Command
<1>1. CASE e # 0
  <2>1. Return(IF seen[e].code = "h" THEN 0 ELSE 1)
    BY <1>1 DEF cmd_create_device
  <2> QED BY <1>0, <1>1, <2>1, EndReturns
<1>2. CASE e = 0
  <2>1. \/ Return(1)
        \/ \E size \in parse_size_string(size_str) :
             size # 0 /\ CallApi([fn |-> "create_device", name |-> name, size |-> size])
    BY <1>2 DEF cmd_create_device
  <2> HIDE DEF name, size_str
  <2>2. CASE Return(1)
    BY <2>2 DEF Ended
  <2>3. ASSUME NEW size \in parse_size_string(size_str), size # 0,
               CallApi([fn |-> "create_device", name |-> name, size |-> size])
        PROVE  Ended
    <3> DEFINE call == [fn |-> "create_device", name |-> name, size |-> size]
    <3>1. size \in 1..(SizeMod - 1)
      BY <2>3, Sizes, CliAssumption
    <3>2. call.fn = "create_device" /\ call.size = size
      OBVIOUS
    <3>3. CallApi(call)
      BY <2>3
    <3> HIDE DEF call
    <3>4. Sound(call)
      BY <3>1, <3>2 DEF Sound
    <3> QED BY <3>3, <3>4 DEF Ended
  <2> QED BY <2>1, <2>2, <2>3
<1> QED BY <1>1, <1>2

LEMMA DeleteEnds ==
    ASSUME ProcessInv, cmd_delete_device
    PROVE  Ended
<1> DEFINE seen == ParseCommandOptions(NameOptions)
           e == Ends(seen, {"h", "?"})
           name == Value(seen, "n", None)
<1>0. rest # <<>> /\ Table(NameOptions) /\ HelpTable(NameOptions)
  BY Tables, Spellings DEF ProcessInv, PhaseInv, cmd_delete_device, Command
<1>1. CASE e # 0
  <2>1. Return(IF seen[e].code = "h" THEN 0 ELSE 1)
    BY <1>1 DEF cmd_delete_device
  <2> QED BY <1>0, <1>1, <2>1, EndReturns
<1>2. CASE e = 0
  <2>1. Return(1) \/ CallApi([fn |-> "delete_device", name |-> name])
    BY <1>2 DEF cmd_delete_device
  <2> HIDE DEF name
  <2>2. Sound([fn |-> "delete_device", name |-> name])
    BY DEF Sound
  <2> QED BY <2>1, <2>2 DEF Ended
<1> QED BY <1>1, <1>2

LEMMA AddEnds ==
    ASSUME ProcessInv, cmd_add_node
    PROVE  Ended
<1> DEFINE seen == ParseCommandOptions(NodeOptions)
           e == Ends(seen, {"h", "?"})
           id == Value(seen, "i", None)
           address == Value(seen, "a", None)
           port == ParsePort(Value(seen, "p", "8080"))
           call == [fn |-> "add_node", id |-> id, address |-> address, port |-> port]
<1>0. rest # <<>> /\ Table(NodeOptions) /\ HelpTable(NodeOptions)
  BY Tables, Spellings DEF ProcessInv, PhaseInv, cmd_add_node, Command
<1>1. CASE e # 0
  <2>1. Return(IF seen[e].code = "h" THEN 0 ELSE 1)
    BY <1>1 DEF cmd_add_node
  <2> QED BY <1>0, <1>1, <2>1, EndReturns
<1>2. CASE e = 0
  <2>1. Return(1) \/ CallApi(call)
    BY <1>2 DEF cmd_add_node
  <2>2. port \in 0..(PortMod - 1)
    BY Ports
  <2> HIDE DEF id, address, port
  <2>3. call.fn = "add_node" /\ call.port = port
    OBVIOUS
  <2> HIDE DEF call
  <2>4. Sound(call)
    BY <2>2, <2>3 DEF Sound
  <2> QED BY <2>1, <2>4 DEF Ended
<1> QED BY <1>1, <1>2

-----------------------------------------------------------------------------
(* Behind a separator *)

Options == SubSeq(args, 3, Len(args))

Shape(cmd, spellings) ==
    /\ Len(args) > 2 /\ args[1] = Separator /\ args[2] = Word(cmd)
    /\ \A i \in DOMAIN Options :
         /\ Options[i].kind = "option" /\ Options[i].name \in spellings
         /\ Options[i].value # None

GivenName == LastGiven(Options, {"-n", "--name"}, None)
GivenSize == LastGiven(Options, {"-s", "--size"}, None)
GivenId == LastGiven(Options, {"-i", "--id"}, None)
GivenAddress == LastGiven(Options, {"-a", "--address"}, None)
GivenPort == LastGiven(Options, {"-p", "--port"}, "8080")

\* A line that asks for a device, and the call it describes
CreateAsked ==
    /\ Shape("create-device", {"-n", "--name", "-s", "--size"}) /\ GivenName # None
    /\ GivenSize \in DOMAIN SizeText /\ SizeText[GivenSize].unit \in DOMAIN Multiplier
    /\ Bytes(GivenSize) \in 1..(SizeMod - 1)

CreateCall == [fn |-> "create_device", size |-> Bytes(GivenSize), name |-> GivenName]

\* A line that removes a device, and the call it describes
DeleteAsked == Shape("delete-device", {"-n", "--name"}) /\ GivenName # None
DeleteCall == [fn |-> "delete_device", name |-> GivenName]

\* A line that adds a node, and the call it describes
AddAsked ==
    /\ Shape("add-node", DOMAIN NodeOptions \ {"-h", "--help"})
    /\ GivenId # None /\ GivenAddress # None
    /\ GivenPort \in DOMAIN PortText /\ PortText[GivenPort] \in 0..(PortMod - 1)

AddCall == [fn |-> "add_node", port |-> PortText[GivenPort], id |-> GivenId,
            address |-> GivenAddress]

Made(call) == \E ok \in BOOLEAN : calls = <<[call |-> call, ok |-> ok]>>

LEMMA SeparatedMeaning ==
    SeparatedFormWorks <=>
      (pc = "cleanup" => /\ CreateAsked => Made(CreateCall)
                         /\ DeleteAsked => Made(DeleteCall)
                         /\ AddAsked => Made(AddCall))
BY Zenon DEF SeparatedFormWorks, CreateAsked, CreateCall, DeleteAsked, DeleteCall, AddAsked, AddCall, Made, Shape, Options,
             GivenName, GivenSize, GivenId, GivenAddress, GivenPort, Bytes

LEMMA SeparatedMeaningNext ==
    SeparatedFormWorks' <=>
      (pc' = "cleanup" => /\ CreateAsked' => Made(CreateCall)'
                          /\ DeleteAsked' => Made(DeleteCall)'
                          /\ AddAsked' => Made(AddCall)')
BY Zenon DEF SeparatedFormWorks, CreateAsked, CreateCall, DeleteAsked, DeleteCall, AddAsked, AddCall, Made, Shape, Options,
             GivenName, GivenSize, GivenId, GivenAddress, GivenPort, Bytes

\* main leaves the command and its options.
LEMMA SeparatedRest ==
    ASSUME TypeInv, ParseInv, rest # <<>>, NEW cmd, NEW spellings, Shape(cmd, spellings)
    PROVE  Head(rest).name = cmd /\ Tail(rest) = Options /\ Options \in Seq(Argument)
<1> DEFINE N == Len(args)
           s == SubSeq(args, 2, N)
<1>1. args \in Seq(Argument) /\ N \in Nat /\ N > 2
  BY LineType, LenProperties DEF Shape
<1>2. rest = s
  BY <1>1, Separated, Tables DEF ParseInv, Shape
<1>3. \A i \in 1..N : args[i] \in Argument
  BY <1>1, ElementOfSeq
<1> HIDE DEF N
<1>4. /\ s \in Seq(Argument) /\ Len(s) = N - 1 /\ \A i \in 1..N - 1 : s[i] = args[i + 1]
  <2>1. \A i \in 2..N : args[i] \in Argument
    BY <1>1, <1>3
  <2>2. /\ s \in Seq(Argument) /\ Len(s) = IF 2 <= N THEN N - 2 + 1 ELSE 0
        /\ \A i \in 1..N - 2 + 1 : s[i] = args[2 + i - 1]
    BY <1>1, <2>1, SubSeqProperties
  <2>3. N - 2 + 1 = N - 1 /\ \A i \in Nat : 2 + i - 1 = i + 1
    BY <1>1
  <2> HIDE DEF s
  <2> QED BY <1>1, <2>2, <2>3
<1>5. /\ Options \in Seq(Argument) /\ Len(Options) = N - 2
      /\ \A i \in 1..N - 2 : Options[i] = args[i + 2]
  <2> DEFINE o == SubSeq(args, 3, N)
  <2>1. \A i \in 3..N : args[i] \in Argument
    BY <1>1, <1>3
  <2>2. /\ o \in Seq(Argument) /\ Len(o) = IF 3 <= N THEN N - 3 + 1 ELSE 0
        /\ \A i \in 1..N - 3 + 1 : o[i] = args[3 + i - 1]
    BY <1>1, <2>1, SubSeqProperties
  <2>3. N - 3 + 1 = N - 2 /\ \A i \in Nat : 3 + i - 1 = i + 2
    BY <1>1
  <2>4. Options = o
    BY DEF Options, N
  <2> HIDE DEF o
  <2> QED BY <1>1, <2>2, <2>3, <2>4
<1> HIDE DEF s
<1>6. /\ Tail(s) \in Seq(Argument) /\ Len(Tail(s)) = N - 2
      /\ \A i \in 1..N - 2 : Tail(s)[i] = args[i + 2]
  <2>1. s # <<>>
    BY <1>1, <1>4
  <2>2. /\ Tail(s) \in Seq(Argument) /\ Len(Tail(s)) = (N - 1) - 1
        /\ \A i \in 1..(N - 1) - 1 : Tail(s)[i] = s[i + 1]
    BY <1>4, <2>1, HeadTailProperties
  <2>3. (N - 1) - 1 = N - 2 /\ \A i \in 1..N - 2 : i + 1 \in 1..N - 1 /\ (i + 1) + 1 = i + 2
    BY <1>1
  <2> QED BY <1>4, <2>2, <2>3
<1>7. Tail(s) = Options
  BY <1>5, <1>6, SeqEqual
<1>8. Head(s) = args[2]
  <2>1. Head(s) = s[1]
    BY <1>4
  <2> QED BY <1>1, <1>4, <2>1
<1>9. args[2].name = cmd
  BY DEF Shape, Word
<1> QED BY <1>2, <1>5, <1>7, <1>8, <1>9

\* Options with their values do not end a command.
LEMMA QuietParse ==
    ASSUME NEW known, Table(known), HelpTable(known), NEW options \in Seq(Argument),
           Carried(known, options), \A o \in DOMAIN known : known[o].code # "?",
           \A i \in DOMAIN options : options[i].name \notin {"-h", "--help"}
    PROVE  Ends(getopt_long(known, options).seen, {"h", "?"}) = 0
<1> DEFINE seen == getopt_long(known, options).seen
<1>1. /\ Len(seen) = Len(options)
      /\ \A i \in 1..Len(options) : seen[i] = Found(known[options[i].name].code, options[i].value)
  BY SeenInOrder
<1>2. seen \in Seq(Seen)
  BY SeenType
<1>3. DOMAIN options = 1..Len(options)
  BY LenProperties
<1>4. \A c, v : Found(c, v).code = c
  BY DEF Found
<1> HIDE DEF seen
<1>5. \A i \in 1..Len(seen) : seen[i].code \notin {"h", "?"}
  BY <1>1, <1>3, <1>4 DEF Carried, HelpTable
<1>6. Ends(seen, {"h", "?"}) = 0
  BY <1>2, <1>5, EndsFinds
<1> QED BY <1>6 DEF seen

LEMMA CreateWorks ==
    ASSUME ProcessInv, cmd_create_device, CreateAsked
    PROVE  Made(CreateCall)'
<1> DEFINE known == DeviceOptions
           seen == ParseCommandOptions(known)
<1>1. rest # <<>> /\ calls = <<>>
  BY DEF ProcessInv, PhaseInv, cmd_create_device, Command
<1>2. Tail(rest) = Options /\ Options \in Seq(Argument)
  BY <1>1, SeparatedRest DEF CreateAsked, ProcessInv
<1>3. /\ Table(known) /\ HelpTable(known) /\ \A o \in DOMAIN known : known[o].code # "?"
      /\ Spells(known, "n", {"-n", "--name"}) /\ Spells(known, "s", {"-s", "--size"})
  BY Tables, Spellings
<1>4. Carried(known, Options) /\ \A i \in DOMAIN Options : Options[i].name \notin {"-h", "--help"}
  BY Spellings DEF CreateAsked, Shape, Carried, Refused
<1>5. seen = getopt_long(known, Options).seen
  BY <1>2 DEF ParseCommandOptions
<1>6. Ends(seen, {"h", "?"}) = 0
  BY <1>2, <1>3, <1>4, <1>5, QuietParse
<1>7. Value(seen, "n", None) = GivenName /\ Value(seen, "s", None) = GivenSize
  BY <1>2, <1>3, <1>4, <1>5, LastWins DEF GivenName, GivenSize
<1>8. GivenName # None /\ GivenSize # None
  BY CliAssumption DEF CreateAsked
<1>9. parse_size_string(GivenSize) = {Bytes(GivenSize)} /\ Bytes(GivenSize) # 0
  BY Sizes, CliAssumption DEF CreateAsked
<1>10. CallApi([fn |-> "create_device", name |-> GivenName, size |-> Bytes(GivenSize)])
  <2> DEFINE e == Ends(seen, {"h", "?"})
             name == Value(seen, "n", None)
             size_str == Value(seen, "s", None)
  <2>1. IF e # 0 THEN Return(IF seen[e].code = "h" THEN 0 ELSE 1)
        ELSE IF name = None \/ size_str = None THEN Return(1)
        ELSE \E size \in parse_size_string(size_str) :
               IF size = 0 THEN Return(1)
               ELSE CallApi([fn |-> "create_device", name |-> name, size |-> size])
    BY DEF cmd_create_device
  <2>2. e = 0 /\ name = GivenName /\ size_str = GivenSize
    BY <1>6, <1>7
  <2> HIDE DEF e, name, size_str
  <2>3. \E size \in {Bytes(GivenSize)} :
          IF size = 0 THEN Return(1)
          ELSE CallApi([fn |-> "create_device", name |-> GivenName, size |-> size])
    BY <1>8, <1>9, <2>1, <2>2
  <2> QED BY <1>9, <2>3
<1>11. CreateCall = [fn |-> "create_device", name |-> GivenName, size |-> Bytes(GivenSize)]
  BY DEF CreateCall
<1>12. PICK ok \in BOOLEAN : /\ calls' = Append(calls, [call |-> CreateCall, ok |-> ok])
                             /\ args' = args
  BY <1>10, <1>11 DEF CallApi, Finish
<1>13. CreateCall' = CreateCall
  BY <1>12 DEF CreateCall, GivenName, GivenSize, Options
<1>14. calls' = <<[call |-> CreateCall, ok |-> ok]>>
  BY <1>1, <1>12, One
<1> QED BY <1>13, <1>14 DEF Made

LEMMA DeleteWorks ==
    ASSUME ProcessInv, cmd_delete_device, DeleteAsked
    PROVE  Made(DeleteCall)'
<1> DEFINE known == NameOptions
           seen == ParseCommandOptions(known)
<1>1. rest # <<>> /\ calls = <<>>
  BY DEF ProcessInv, PhaseInv, cmd_delete_device, Command
<1>2. Tail(rest) = Options /\ Options \in Seq(Argument)
  BY <1>1, SeparatedRest DEF DeleteAsked, ProcessInv
<1>3. /\ Table(known) /\ HelpTable(known) /\ \A o \in DOMAIN known : known[o].code # "?"
      /\ Spells(known, "n", {"-n", "--name"})
  BY Tables, Spellings
<1>4. Carried(known, Options) /\ \A i \in DOMAIN Options : Options[i].name \notin {"-h", "--help"}
  BY Spellings DEF DeleteAsked, Shape, Carried, Refused
<1>5. seen = getopt_long(known, Options).seen
  BY <1>2 DEF ParseCommandOptions
<1>6. Ends(seen, {"h", "?"}) = 0
  BY <1>2, <1>3, <1>4, <1>5, QuietParse
<1>7. Value(seen, "n", None) = GivenName /\ GivenName # None
  BY <1>2, <1>3, <1>4, <1>5, LastWins DEF GivenName, DeleteAsked
<1>8. CallApi([fn |-> "delete_device", name |-> GivenName])
  <2> DEFINE e == Ends(seen, {"h", "?"})
             name == Value(seen, "n", None)
  <2>1. IF e # 0 THEN Return(IF seen[e].code = "h" THEN 0 ELSE 1)
        ELSE IF name = None THEN Return(1)
        ELSE CallApi([fn |-> "delete_device", name |-> name])
    BY DEF cmd_delete_device
  <2>2. e = 0 /\ name = GivenName
    BY <1>6, <1>7
  <2> HIDE DEF e, name
  <2> QED BY <1>7, <2>1, <2>2
<1>9. PICK ok \in BOOLEAN : /\ calls' = Append(calls, [call |-> DeleteCall, ok |-> ok])
                            /\ args' = args
  BY <1>8 DEF CallApi, Finish, DeleteCall
<1>10. DeleteCall' = DeleteCall
  BY <1>9 DEF DeleteCall, GivenName, Options
<1>11. calls' = <<[call |-> DeleteCall, ok |-> ok]>>
  BY <1>1, <1>9, One
<1> QED BY <1>10, <1>11 DEF Made

LEMMA AddWorks ==
    ASSUME ProcessInv, cmd_add_node, AddAsked
    PROVE  Made(AddCall)'
<1> DEFINE known == NodeOptions
           seen == ParseCommandOptions(known)
<1>1. rest # <<>> /\ calls = <<>>
  BY DEF ProcessInv, PhaseInv, cmd_add_node, Command
<1>2. Tail(rest) = Options /\ Options \in Seq(Argument)
  BY <1>1, SeparatedRest DEF AddAsked, ProcessInv
<1>3. /\ Table(known) /\ HelpTable(known) /\ \A o \in DOMAIN known : known[o].code # "?"
      /\ Spells(known, "i", {"-i", "--id"}) /\ Spells(known, "a", {"-a", "--address"})
      /\ Spells(known, "p", {"-p", "--port"})
  BY Tables, Spellings
<1>4. Carried(known, Options) /\ \A i \in DOMAIN Options : Options[i].name \notin {"-h", "--help"}
  BY Spellings DEF AddAsked, Shape, Carried, Refused
<1>5. seen = getopt_long(known, Options).seen
  BY <1>2 DEF ParseCommandOptions
<1>6. Ends(seen, {"h", "?"}) = 0
  BY <1>2, <1>3, <1>4, <1>5, QuietParse
<1>7. /\ Value(seen, "i", None) = GivenId /\ Value(seen, "a", None) = GivenAddress
      /\ Value(seen, "p", "8080") = GivenPort
  BY <1>2, <1>3, <1>4, <1>5, LastWins DEF GivenId, GivenAddress, GivenPort
<1>8. GivenId # None /\ GivenAddress # None /\ ParsePort(GivenPort) = PortText[GivenPort]
  BY Ports DEF AddAsked
<1>9. CallApi([fn |-> "add_node", id |-> GivenId, address |-> GivenAddress,
               port |-> PortText[GivenPort]])
  <2> DEFINE e == Ends(seen, {"h", "?"})
             id == Value(seen, "i", None)
             address == Value(seen, "a", None)
             port == ParsePort(Value(seen, "p", "8080"))
  <2>1. IF e # 0 THEN Return(IF seen[e].code = "h" THEN 0 ELSE 1)
        ELSE IF id = None \/ address = None THEN Return(1)
        ELSE CallApi([fn |-> "add_node", id |-> id, address |-> address, port |-> port])
    BY DEF cmd_add_node
  <2>2. e = 0 /\ id = GivenId /\ address = GivenAddress /\ port = PortText[GivenPort]
    BY <1>6, <1>7, <1>8
  <2> HIDE DEF e, id, address, port
  <2> QED BY <1>8, <2>1, <2>2
<1>10. AddCall = [fn |-> "add_node", id |-> GivenId, address |-> GivenAddress,
                  port |-> PortText[GivenPort]]
  BY DEF AddCall
<1>11. PICK ok \in BOOLEAN : /\ calls' = Append(calls, [call |-> AddCall, ok |-> ok])
                             /\ args' = args
  BY <1>9, <1>10 DEF CallApi, Finish
<1>12. AddCall' = AddCall
  BY <1>11 DEF AddCall, GivenId, GivenAddress, GivenPort, Options
<1>13. calls' = <<[call |-> AddCall, ok |-> ok]>>
  BY <1>1, <1>11, One
<1> QED BY <1>12, <1>13 DEF Made

\* A command keeps the promise of the separated form: its own line ends in the call,
\* and the line of another command does not run it.
LEMMA CommandKeepsForm ==
    ASSUME ProcessInv, pc = "command", args' = args,
           Head(rest).name = "create-device" => cmd_create_device,
           Head(rest).name = "delete-device" => cmd_delete_device,
           Head(rest).name = "add-node" => cmd_add_node
    PROVE  SeparatedFormWorks'
<1>1. rest # <<>> /\ TypeInv /\ ParseInv
  BY DEF ProcessInv, PhaseInv
<1>2. (CreateAsked' <=> CreateAsked) /\ (DeleteAsked' <=> DeleteAsked) /\ (AddAsked' <=> AddAsked)
  BY DEF CreateAsked, DeleteAsked, AddAsked, Shape, Options, GivenName, GivenSize, GivenId, GivenAddress,
         GivenPort
<1>3. CreateAsked => Head(rest).name = "create-device"
  BY <1>1, SeparatedRest DEF CreateAsked
<1>4. AddAsked => Head(rest).name = "add-node"
  BY <1>1, SeparatedRest DEF AddAsked
<1>5. CreateAsked => Made(CreateCall)'
  BY <1>3, CreateWorks
<1>6. AddAsked => Made(AddCall)'
  BY <1>4, AddWorks
<1>7. DeleteAsked => Head(rest).name = "delete-device"
  BY <1>1, SeparatedRest DEF DeleteAsked
<1>8. DeleteAsked => Made(DeleteCall)'
  BY <1>7, DeleteWorks
<1> QED BY <1>2, <1>5, <1>6, <1>8, SeparatedMeaningNext

LEMMA ElsewhereForm ==
    ASSUME pc' # "cleanup"
    PROVE  SeparatedFormWorks'
BY SeparatedMeaningNext

LEMMA InitKeeps ==
    ASSUME Init
    PROVE  CliInv
<1>1. ProcessInv
  BY DEF Init, ProcessInv, TypeInv, PhaseInv, ParseInv, CallInv, OutcomeInv
<1>2. SeparatedFormWorks
  BY SeparatedMeaning DEF Init
<1> QED BY <1>1, <1>2 DEF CliInv

LEMMA ParseKeeps ==
    ASSUME CliInv, ParseGlobalOptions
    PROVE  CliInv'
<1> DEFINE g == getopt_long(GlobalOptions, args)
           e == Ends(g.seen, {"h", "v", "?"})
<1>0. /\ pc = "main" /\ ctx = "none" /\ calls = <<>> /\ result \in {0, 1}
      /\ args \in CommandLine /\ ParseInv
  BY DEF CliInv, ProcessInv, TypeInv, PhaseInv, ParseGlobalOptions
<1>1. /\ args' = args /\ ctx' = ctx /\ calls' = calls
      /\ \/ \E code \in {0, 1} : pc' = "exit" /\ result' = code /\ rest' = rest
         \/ /\ e = 0 /\ g.words # <<>>
            /\ rest' = g.words /\ pc' = "init" /\ result' = result
  BY DEF ParseGlobalOptions, Exit
<1>2. TypeInv' /\ PhaseInv' /\ CallInv' /\ OutcomeInv'
  <2> HIDE DEF g, e
  <2> QED BY <1>0, <1>1 DEF TypeInv, PhaseInv, CallInv, OutcomeInv
<1>3. ParseInv'
  <2>1. CASE rest' = rest
    BY <1>0, <1>1, <2>1 DEF ParseInv
  <2>2. CASE e = 0 /\ rest' = g.words
    BY <1>1, <2>2 DEF ParseInv
  <2> HIDE DEF g, e
  <2> QED BY <1>1, <2>1, <2>2
<1>4. pc' # "cleanup"
  <2> HIDE DEF g, e
  <2> QED BY <1>1
<1> QED BY <1>2, <1>3, <1>4, ElsewhereForm DEF CliInv, ProcessInv

LEMMA ContextKeeps ==
    ASSUME CliInv, InitContext
    PROVE  CliInv'
<1>1. TypeInv' /\ PhaseInv' /\ CallInv' /\ OutcomeInv'
  BY DEF CliInv, ProcessInv, TypeInv, PhaseInv, CallInv, OutcomeInv, InitContext
<1>2. ParseInv'
  BY DEF CliInv, ProcessInv, ParseInv, InitContext
<1>3. pc' # "cleanup"
  BY DEF InitContext
<1> QED BY <1>1, <1>2, <1>3, ElsewhereForm DEF CliInv, ProcessInv

LEMMA CleanupKeeps ==
    ASSUME CliInv, Cleanup
    PROVE  CliInv'
<1>1. TypeInv' /\ PhaseInv' /\ CallInv'
  BY DEF CliInv, ProcessInv, TypeInv, PhaseInv, CallInv, Cleanup
<1>2. ParseInv'
  BY DEF CliInv, ProcessInv, ParseInv, Cleanup
<1>3. OutcomeInv'
  BY DEF CliInv, ProcessInv, PhaseInv, OutcomeInv, Asked, Cleanup
<1>4. pc' # "cleanup"
  BY DEF Cleanup
<1> QED BY <1>1, <1>2, <1>3, <1>4, ElsewhereForm DEF CliInv, ProcessInv

LEMMA EndedFrame ==
    ASSUME Ended
    PROVE  args' = args
BY DEF Ended, Return, CallApi, Finish

\* The commands, each one whole
LEMMA CommandsKeep ==
    ASSUME CliInv,
           \/ cmd_create_device \/ cmd_delete_device \/ cmd_list_devices \/ cmd_list_nodes
           \/ cmd_add_node \/ cmd_status \/ UnknownCommand
    PROVE  CliInv'
<1>0. ProcessInv
  BY DEF CliInv
<1>1. CASE cmd_create_device
  <2>1. Ended /\ pc = "command" /\ Head(rest).name = "create-device"
    BY <1>0, <1>1, CreateEnds DEF cmd_create_device, Command
  <2> QED BY <1>0, <1>1, <2>1, EndedKeeps, EndedFrame, CommandKeepsForm DEF CliInv
<1>2. CASE cmd_delete_device
  <2>1. Ended /\ pc = "command" /\ Head(rest).name = "delete-device"
    BY <1>0, <1>2, DeleteEnds DEF cmd_delete_device, Command
  <2> QED BY <1>0, <1>2, <2>1, EndedKeeps, EndedFrame, CommandKeepsForm DEF CliInv
<1>3. CASE cmd_add_node
  <2>1. Ended /\ pc = "command" /\ Head(rest).name = "add-node"
    BY <1>0, <1>3, AddEnds DEF cmd_add_node, Command
  <2> QED BY <1>0, <1>3, <2>1, EndedKeeps, EndedFrame, CommandKeepsForm DEF CliInv
<1>4. CASE cmd_list_devices
  <2>1. Return(0) /\ pc = "command" /\ Head(rest).name = "list-devices"
    BY <1>4 DEF cmd_list_devices, Command
  <2>2. ProcessInv' /\ args' = args
    BY <1>0, <2>1, ReturnKeeps DEF Changing, Return, Finish
  <2> QED BY <1>0, <2>1, <2>2, CommandKeepsForm DEF CliInv
<1>5. CASE cmd_list_nodes
  <2>1. CallApi([fn |-> "get_nodes"]) /\ pc = "command" /\ Head(rest).name = "list-nodes"
    BY <1>5 DEF cmd_list_nodes, Command
  <2>2. Sound([fn |-> "get_nodes"])
    BY DEF Sound
  <2>3. ProcessInv' /\ args' = args
    BY <1>0, <2>1, <2>2, CallKeeps DEF CallApi, Finish
  <2> QED BY <1>0, <2>1, <2>3, CommandKeepsForm DEF CliInv
<1>6. CASE cmd_status
  <2> DEFINE call == [fn |-> "get_nodes"]
  <2>1. /\ pc = "command" /\ Head(rest).name = "status" /\ Finish(0)
        /\ \E ok \in BOOLEAN : calls' = Append(calls, [call |-> call, ok |-> ok])
    BY <1>6 DEF cmd_status, Command
  <2>2. PICK ok \in BOOLEAN : calls' = Append(calls, [call |-> call, ok |-> ok])
    BY <2>1
  <2>3. Sound(call)
    BY DEF Sound
  <2> HIDE DEF call
  <2>4. calls' = <<[call |-> call, ok |-> ok]>>
    BY <1>0, <2>1, <2>2, One DEF ProcessInv, PhaseInv
  <2>5. Len(calls') = 1 /\ calls'[1].call = call
    BY <2>4
  <2>6. TypeInv' /\ PhaseInv' /\ OutcomeInv'
    BY <1>0, <2>1 DEF ProcessInv, TypeInv, PhaseInv, OutcomeInv, Changing, Finish
  <2>7. ParseInv'
    BY <1>0, <2>1 DEF ProcessInv, ParseInv, Finish
  <2>8. CallInv'
    BY <2>3, <2>5 DEF CallInv, Sound
  <2>9. ProcessInv' /\ args' = args
    BY <2>1, <2>6, <2>7, <2>8 DEF ProcessInv, Finish
  <2> QED BY <1>0, <2>1, <2>9, CommandKeepsForm DEF CliInv
<1>7. CASE UnknownCommand
  <2>1. Return(1) /\ pc = "command" /\ Head(rest).name \notin Commands
    BY <1>7 DEF UnknownCommand
  <2>2. ProcessInv' /\ args' = args
    BY <1>0, <2>1, ReturnKeeps DEF Return, Finish
  <2> QED BY <1>0, <2>1, <2>2, CommandKeepsForm DEF CliInv, Commands
<1> QED BY <1>1, <1>2, <1>3, <1>4, <1>5, <1>6, <1>7

LEMMA StutterKeeps ==
    ASSUME CliInv, UNCHANGED vars
    PROVE  CliInv'
<1>1. TypeInv' /\ PhaseInv' /\ ParseInv' /\ CallInv' /\ OutcomeInv'
  <2>1. TypeInv' /\ PhaseInv'
    BY DEF CliInv, ProcessInv, TypeInv, PhaseInv, vars
  <2>2. ParseInv'
    BY DEF CliInv, ProcessInv, ParseInv, vars
  <2>3. CallInv' /\ OutcomeInv'
    BY DEF CliInv, ProcessInv, CallInv, OutcomeInv, Asked, Sound, vars
  <2> QED BY <2>1, <2>2, <2>3
<1>2. SeparatedFormWorks'
  BY DEF CliInv, SeparatedFormWorks, vars
<1> QED BY <1>1, <1>2 DEF CliInv, ProcessInv

-----------------------------------------------------------------------------
(* The theorems *)

\* The invariant of the client: where a process is tells what it holds, the words
\* are what main's parse left of the line, and a result has its reason
\* (cli_main.c:86-389).
THEOREM CliInvariant == Spec => []CliInv
<1>1. CliInv /\ [Next]_vars => CliInv'
  BY ParseKeeps, ContextKeeps, CommandsKeep, CleanupKeeps, StutterKeeps DEF Next, Terminated
<1> QED BY InitKeeps, <1>1, PTL DEF Spec

\* Every variable keeps its type, for every line: at most one call of the core API,
\* of a size that is not 0 and fits, or a port that fits (cli_main.c:40-68, 122-130, 259).
THEOREM CliTypes == Spec => []TypeOK
<1>1. CliInv => TypeOK
  <2> SUFFICES ASSUME CliInv PROVE TypeOK
    OBVIOUS
  <2>1. /\ pc \in {"main", "init", "command", "cleanup", "exit"}
        /\ ctx \in {"none", "live", "freed"} /\ result \in {0, 1}
    BY DEF CliInv, ProcessInv, TypeInv, PhaseInv
  <2>2. CASE calls = <<>>
    BY <2>1, <2>2 DEF TypeOK
  <2>3. CASE Len(calls) = 1 /\ Sound(calls[1].call)
    BY <2>1, <2>3 DEF TypeOK, Sound
  <2> QED BY <2>2, <2>3 DEF CliInv, ProcessInv, CallInv
<1> QED BY <1>1, CliInvariant, PTL

\* Behind a separator create-device, delete-device and add-node do what their options
\* say, for every number and order of options (cli_main.c:86-181, 235-287).
THEOREM SeparatedWorks == Spec => []SeparatedFormWorks
<1>1. CliInv => SeparatedFormWorks
  BY DEF CliInv
<1> QED BY <1>1, CliInvariant, PTL

\* A line that changed something has every option that is not main's behind a
\* separator, or as the value of -s: the form the help text's examples have never
\* reaches the API (cli_main.c:320-344).
THEOREM OptionsKept == Spec => []NoOptionSkipped
<1>1. CliInv => NoOptionSkipped
  <2> SUFFICES ASSUME CliInv, calls # <<>> PROVE \A j \in DOMAIN args : Placed(args, j)
    BY DEF NoOptionSkipped, Placed
  <2> DEFINE seen == getopt_long(GlobalOptions, args).seen
  <2>1. args \in Seq(Argument) /\ rest # <<>> /\ ParseInv
    BY LineType DEF CliInv, ProcessInv, PhaseInv
  <2>2. seen \in Seq(Seen)
    BY <2>1, SeenType, Tables
  <2>3. Ends(seen, {"h", "v", "?"}) = 0
    BY <2>1 DEF ParseInv
  <2>4. \A i \in 1..Len(seen) : seen[i].code # "?"
    <3> HIDE DEF seen
    <3>1. \A i \in 1..Len(seen) : seen[i].code \notin {"h", "v", "?"}
      BY <2>2, <2>3, EndsFinds
    <3> QED BY <3>1
  <2> QED BY <2>1, <2>4, MainReadsAll
<1> QED BY <1>1, CliInvariant, PTL

\* A process that ends has released its context, and its success after a command that
\* changes something has a reason (cli_main.c:311-389).
THEOREM ExitsSound == Spec => []ExitSound
<1>1. CliInv => ExitSound
  BY DEF CliInv, ProcessInv, PhaseInv, OutcomeInv, ExitSound, Changing, Asked
<1> QED BY <1>1, CliInvariant, PTL
=============================================================================
