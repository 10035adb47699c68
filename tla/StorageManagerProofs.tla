------------------------ MODULE StorageManagerProofs ------------------------
(***************************************************************************)
(* The storage manager, for every number of threads, backends and calls:   *)
(* every call that reached a backend is counted once, the unlocked         *)
(* accesses crash only for a reason that is named, the registry stays      *)
(* sound through every registration that does not overlap another, and a   *)
(* walk finds a backend that could be found all through it.                *)
(***************************************************************************)
EXTENDS StorageManager, FiniteSetTheorems, TLAPS

USE ManagerAssumption

-----------------------------------------------------------------------------
(* The calls: their type, and the fields after each kind of step *)

WalkSteps == {"loop", "type", "health", "take"}
RegisterSteps == {"loop", "type", "clean", "store", "append", "count"}
UnregisterSteps == {"loop", "type", "clean", "shift", "drop", "null"}
SelectionSteps == WalkSteps \cup {"selected", "called"}

CallRecord ==
    [step : {"idle"} \cup RegisterSteps \cup UnregisterSteps \cup SelectionSteps,
     op : {"none", "register", "unregister", "transfer", "sync"},
     type : STRING \cup {"none"}, phase : {"none", "primary", "fallback", "any"},
     i : Nat \ {0}, backend : Backend \cup {Nobody}, ret : {"none", "ok", "error"}]

\* The operation a call is in determines the steps it can be at.
Shape(c) ==
    /\ c.op = "none" => c = NoCall
    /\ c.op = "register" => /\ c.step \in RegisterSteps
                            /\ c.backend \in Backend /\ c.type = TypeOf[c.backend]
    /\ c.op = "unregister" => c.step \in UnregisterSteps
    /\ c.op \in Selection => /\ c.step \in SelectionSteps
                             /\ c.phase \in {"primary", "fallback", "any"}
                             /\ c.step \in {"health", "selected"} => c.backend \in Backend

CallInv ==
    /\ call \in [Thread -> CallRecord]
    /\ \A t \in Thread : Shape(call[t])

\* c is d but for the fields that are given.
Fields(c, d, step, phase, i, backend) ==
    /\ c.op = d.op /\ c.type = d.type
    /\ c.step = step /\ c.phase = phase /\ c.i = i /\ c.backend = backend

Others(t) == \A u \in Thread \ {t} : call'[u] = call[u]

LEMMA NobodyIsNoBackend == Nobody \notin Backend
BY DEF Nobody

LEMMA NoCallFields ==
    /\ NoCall \in CallRecord /\ Shape(NoCall)
    /\ NoCall.step = "idle" /\ NoCall.op = "none" /\ NoCall.phase = "none" /\ NoCall.i = 1
    /\ NoCall.type = "none" /\ NoCall.backend = Nobody
BY DEF NoCall, CallRecord, Shape, Selection

LEMMA Moves ==
    ASSUME CallInv, NEW t \in Thread, NEW c \in CallRecord, Shape(c), Move(t, c)
    PROVE  CallInv' /\ call'[t] = c /\ Others(t)
<1>1. call' = [call EXCEPT ![t] = c]
  BY DEF Move
<1>2. call' \in [Thread -> CallRecord] /\ call'[t] = c /\ \A u \in Thread \ {t} : call'[u] = call[u]
  BY <1>1 DEF CallInv
<1>3. \A u \in Thread : Shape(call'[u])
  BY <1>2 DEF CallInv
<1> QED BY <1>2, <1>3 DEF CallInv, Others

LEMMA Returns ==
    ASSUME CallInv, NEW t \in Thread, Return(t)
    PROVE  CallInv' /\ call'[t] = NoCall /\ Others(t)
BY Moves, NoCallFields DEF Return

\* The updates of a record
LEMMA Updates ==
    ASSUME NEW c \in CallRecord, NEW s \in {"idle"} \cup RegisterSteps \cup UnregisterSteps
                                              \cup SelectionSteps,
           NEW i \in Nat \ {0}, NEW r \in {"none", "ok", "error"}
    PROVE  /\ [c EXCEPT !.step = s] \in CallRecord
           /\ Fields([c EXCEPT !.step = s], c, s, c.phase, c.i, c.backend)
           /\ [c EXCEPT !.step = s, !.i = i] \in CallRecord
           /\ Fields([c EXCEPT !.step = s, !.i = i], c, s, c.phase, i, c.backend)
           /\ [c EXCEPT !.i = i] \in CallRecord
           /\ Fields([c EXCEPT !.i = i], c, c.step, c.phase, i, c.backend)
           /\ [c EXCEPT !.step = s, !.ret = r] \in CallRecord
           /\ Fields([c EXCEPT !.step = s, !.ret = r], c, s, c.phase, c.i, c.backend)
<1>1. [c EXCEPT !.step = s] \in CallRecord /\ Fields([c EXCEPT !.step = s], c, s, c.phase, c.i, c.backend)
  BY DEF CallRecord, Fields
<1>2. [c EXCEPT !.step = s, !.i = i] \in CallRecord /\ Fields([c EXCEPT !.step = s, !.i = i], c, s, c.phase, i, c.backend)
  BY DEF CallRecord, Fields
<1>3. [c EXCEPT !.i = i] \in CallRecord /\ Fields([c EXCEPT !.i = i], c, c.step, c.phase, i, c.backend)
  BY DEF CallRecord, Fields
<1>4. [c EXCEPT !.step = s, !.ret = r] \in CallRecord
  BY DEF CallRecord
<1>5. Fields([c EXCEPT !.step = s, !.ret = r], c, s, c.phase, c.i, c.backend)
  BY DEF CallRecord, Fields
<1> QED BY <1>1, <1>2, <1>3, <1>4, <1>5

LEMMA UpdatesBackend ==
    ASSUME NEW c \in CallRecord, NEW s \in SelectionSteps, NEW b \in Backend
    PROVE  /\ [c EXCEPT !.step = s, !.backend = b] \in CallRecord
           /\ Fields([c EXCEPT !.step = s, !.backend = b], c, s, c.phase, c.i, b)
BY DEF CallRecord, Fields

LEMMA UpdatesPhase ==
    ASSUME NEW c \in CallRecord, NEW p \in {"none", "primary", "fallback", "any"},
           NEW i \in Nat \ {0}
    PROVE  /\ [c EXCEPT !.phase = p, !.i = i] \in CallRecord
           /\ Fields([c EXCEPT !.phase = p, !.i = i], c, c.step, p, i, c.backend)
BY DEF CallRecord, Fields

\* A step that keeps the operation
LEMMA MovesOn ==
    ASSUME CallInv, NEW t \in Thread, NEW c \in CallRecord,
           NEW s, NEW p, NEW i, NEW b, Fields(c, call[t], s, p, i, b),
           call[t].op # "none",
           call[t].op = "register" => s \in RegisterSteps /\ b = call[t].backend,
           call[t].op = "unregister" => s \in UnregisterSteps,
           call[t].op \in Selection => /\ s \in SelectionSteps
                                       /\ p \in {"primary", "fallback", "any"}
                                       /\ s \in {"health", "selected"} => b \in Backend,
           Move(t, c)
    PROVE  CallInv' /\ Fields(call'[t], call[t], s, p, i, b) /\ Others(t)
<1>1. Shape(c)
  BY DEF Shape, Fields, CallInv, Selection
<1> QED BY <1>1, Moves

-----------------------------------------------------------------------------
(* What each step does to the calls and to the registry, field by field *)

Quiet == UNCHANGED <<cells, backend_count, live, healthy, policy>>
Keeps(t, c, step, i) == Fields(call'[t], c, step, c.phase, i, c.backend) /\ Others(t)
Leaves(t) == call'[t] = NoCall /\ Others(t)

BeginsRegistration(t) ==
    /\ call[t] = NoCall /\ Quiet /\ UNCHANGED hit /\ Others(t)
    /\ call'[t].op \in Registration /\ call'[t].step = "loop" /\ call'[t].i = 1
    /\ call'[t].op = "register" =>
         backend_count < MAX_STORAGE_BACKENDS /\ call'[t].backend \in live

LooksForType(t) ==
    LET c == call[t]
    IN  /\ c.op \in Registration /\ c.step = "loop" /\ Quiet /\ UNCHANGED hit
        /\ \/ c.i <= backend_count /\ Keeps(t, c, "type", c.i)
           \/ c.i > backend_count /\ c.op = "register" /\ Keeps(t, c, "append", c.i)
           \/ c.i > backend_count /\ c.op = "unregister" /\ Leaves(t)

ComparesType(t) ==
    LET c == call[t]
    IN  /\ c.op \in Registration /\ c.step = "type" /\ Quiet /\ UNCHANGED hit
        /\ \/ TypeOf[Cell(c.i)] = c.type /\ Keeps(t, c, "clean", c.i)
           \/ TypeOf[Cell(c.i)] # c.type /\ Keeps(t, c, "loop", c.i + 1)

Cleans(t) ==
    LET c == call[t]
    IN  /\ c.op \in Registration /\ c.step = "clean" /\ Cell(c.i) # Nobody
        /\ live' = live \ {Cell(c.i)}
        /\ hit' = hit \cup {u \in Thread : Holds(u, Cell(c.i))}
        /\ Keeps(t, c, IF c.op = "register" THEN "store" ELSE "shift", c.i)
        /\ UNCHANGED <<cells, backend_count, healthy, policy>>

Stores(t) ==
    LET c == call[t]
    IN  /\ c.op = "register" /\ c.step = "store"
        /\ cells' = [cells EXCEPT ![c.i] = c.backend]
        /\ Leaves(t)
        /\ UNCHANGED <<backend_count, live, healthy, policy, hit>>

Appends(t) ==
    LET c == call[t]
    IN  /\ c.op = "register" /\ c.step = "append" /\ backend_count < MAX_STORAGE_BACKENDS
        /\ cells' = [cells EXCEPT ![backend_count + 1] = c.backend]
        /\ Keeps(t, c, "count", backend_count + 1)
        /\ UNCHANGED <<backend_count, live, healthy, policy, hit>>

CountsUp(t) ==
    /\ call[t].op = "register" /\ call[t].step = "count"
    /\ backend_count' \in {call[t].i, backend_count + 1}
    /\ Leaves(t)
    /\ UNCHANGED <<cells, live, healthy, policy, hit>>

Shifts(t) ==
    LET c == call[t]
    IN  /\ c.op = "unregister" /\ c.step = "shift" /\ backend_count > 0
        /\ \/ /\ c.i < backend_count /\ c.i + 1 \in Slot
              /\ cells' = [cells EXCEPT ![c.i] = cells[c.i + 1]]
              /\ Keeps(t, c, "shift", c.i + 1)
           \/ /\ c.i >= backend_count
              /\ Keeps(t, c, "drop", backend_count)
              /\ UNCHANGED cells
        /\ UNCHANGED <<backend_count, live, healthy, policy, hit>>

Drops(t) ==
    LET c == call[t]
    IN  /\ c.op = "unregister" /\ c.step = "drop" /\ backend_count > 0
        /\ backend_count' \in {c.i - 1, backend_count - 1}
        /\ Keeps(t, c, "null", c.i)
        /\ UNCHANGED <<cells, live, healthy, policy, hit>>

Clears(t) ==
    LET c == call[t]
    IN  /\ c.op = "unregister" /\ c.step = "null"
        /\ \E i \in {c.i, backend_count + 1} \cap Slot : cells' = [cells EXCEPT ![i] = Nobody]
        /\ Leaves(t)
        /\ UNCHANGED <<backend_count, live, healthy, policy, hit>>

RegistrationStep(t) ==
    \/ LooksForType(t) \/ ComparesType(t) \/ Cleans(t) \/ Stores(t) \/ Appends(t) \/ CountsUp(t)
    \/ Shifts(t) \/ Drops(t) \/ Clears(t)

BeginsWalk(t) ==
    /\ call[t] = NoCall /\ Quiet /\ UNCHANGED hit /\ Others(t)
    /\ call'[t].op \in Selection /\ call'[t].step = "loop" /\ call'[t].i = 1
    /\ call'[t].phase = "primary"

LooksForCell(t) ==
    LET c == call[t]
    IN  /\ c.op \in Selection /\ c.step = "loop" /\ Quiet /\ UNCHANGED hit
        /\ \/ c.i <= backend_count /\ Keeps(t, c, "type", c.i)
           \/ /\ c.i > backend_count /\ c.phase # "any" /\ Others(t)
              /\ \E p \in {"fallback", "any"} : Fields(call'[t], c, "loop", p, 1, c.backend)
           \/ c.i > backend_count /\ c.phase = "any" /\ Leaves(t)

ReadsCell(t) ==
    LET c == call[t]
        b == Cell(c.i)
    IN  /\ c.op \in Selection /\ c.step = "type" /\ b \in Backend /\ Quiet /\ UNCHANGED hit
        /\ \/ /\ Wanted(c.phase, b) /\ Others(t)
              /\ Fields(call'[t], c, "health", c.phase, c.i, b)
           \/ ~Wanted(c.phase, b) /\ Keeps(t, c, "loop", c.i + 1)

ChecksHealth(t) ==
    LET c == call[t]
    IN  /\ c.op \in Selection /\ c.step = "health" /\ Quiet /\ hit' = hit \ {t}
        /\ \/ Keeps(t, c, "take", c.i)
           \/ /\ Keeps(t, c, "loop", c.i + 1)
              /\ \/ t \in hit \/ ~health_check(c.backend)
                 \/ Cell(c.i) # Nobody /\ ~health_check(Cell(c.i))

TakesCell(t) ==
    LET c == call[t]
        b == Cell(c.i)
    IN  /\ c.op \in Selection /\ c.step = "take" /\ Quiet /\ UNCHANGED hit
        /\ \/ /\ b \in Backend /\ Others(t)
              /\ Fields(call'[t], c, "selected", c.phase, c.i, b)
           \/ b = Nobody /\ c.phase # "fallback" /\ Leaves(t)

Calls(t) ==
    LET c == call[t]
    IN  /\ c.op \in Selection /\ c.step = "selected" /\ Quiet /\ hit' = hit \ {t}
        /\ \/ /\ c.op = "transfer" /\ Keeps(t, c, "called", c.i)
              /\ reached' = reached + 1
           \/ c.op = "sync" /\ Leaves(t) /\ reached' = reached
        /\ stats' = stats

Counts(t) ==
    /\ call[t].op \in Selection /\ call[t].step = "called" /\ Quiet /\ UNCHANGED <<hit, reached>>
    /\ Leaves(t) /\ stats' = Counted(t)

Aborts(t) == Faults(t) /\ Quiet /\ UNCHANGED <<call, hit>>

Surroundings ==
    UNCHANGED <<cells, backend_count, live, hit, call>> /\ healthy' \subseteq Backend

-----------------------------------------------------------------------------
(* The actions are these steps, and keep the calls in shape. *)

RegistryType ==
    /\ live \subseteq Backend /\ healthy \subseteq Backend
    /\ cells \in [Slot -> Backend \cup {Nobody}] /\ backend_count \in Nat

LEMMA CellType ==
    ASSUME RegistryType, NEW i
    PROVE  Cell(i) \in Backend \cup {Nobody}
BY DEF RegistryType, Cell

LEMMA RegisterBegins ==
    ASSUME CallInv, RegistryType, NEW t \in Thread, NEW b \in Backend,
           storage_manager_register_backend(t, b)
    PROVE  CallInv' /\ BeginsRegistration(t)
<1> DEFINE c == [NoCall EXCEPT !.step = "loop", !.op = "register", !.type = TypeOf[b],
                               !.backend = b]
<1>1. /\ call[t] = NoCall /\ Move(t, c) /\ Quiet /\ UNCHANGED hit
      /\ backend_count < MAX_STORAGE_BACKENDS /\ b \in live
  BY DEF storage_manager_register_backend, Begin, Quiet, registry, life, world
<1>2. TypeOf[b] \in STRING
  OBVIOUS
<1>3. /\ c \in CallRecord /\ c.op = "register" /\ c.step = "loop" /\ c.i = 1 /\ c.backend = b
      /\ c.type = TypeOf[b]
  BY <1>2, NoCallFields DEF CallRecord, RegisterSteps
<1> HIDE DEF c
<1>4. Shape(c)
  BY <1>3 DEF Shape, RegisterSteps, Selection
<1>5. CallInv' /\ call'[t] = c /\ Others(t)
  BY <1>1, <1>3, <1>4, Moves
<1> QED BY <1>1, <1>3, <1>5 DEF BeginsRegistration, Registration

LEMMA UnregisterBegins ==
    ASSUME CallInv, RegistryType, NEW t \in Thread, NEW b \in Backend,
           storage_manager_unregister_backend(t, TypeOf[b])
    PROVE  CallInv' /\ BeginsRegistration(t)
<1> DEFINE c == [NoCall EXCEPT !.step = "loop", !.op = "unregister", !.type = TypeOf[b]]
<1>1. call[t] = NoCall /\ Move(t, c) /\ Quiet /\ UNCHANGED hit
  BY DEF storage_manager_unregister_backend, Begin, Quiet, registry, life, world
<1>2. TypeOf[b] \in STRING
  OBVIOUS
<1>3. c \in CallRecord /\ c.op = "unregister" /\ c.step = "loop" /\ c.i = 1
  BY <1>2, NoCallFields DEF CallRecord, RegisterSteps
<1> HIDE DEF c
<1>4. Shape(c)
  BY <1>3 DEF Shape, UnregisterSteps, Selection
<1>5. CallInv' /\ call'[t] = c /\ Others(t)
  BY <1>1, <1>3, <1>4, Moves
<1> QED BY <1>1, <1>3, <1>5 DEF BeginsRegistration, Registration

LEMMA SelectBegins ==
    ASSUME CallInv, RegistryType, NEW t \in Thread, NEW op \in Selection, Select(t, op)
    PROVE  CallInv' /\ BeginsWalk(t)
<1> DEFINE c == [NoCall EXCEPT !.step = "loop", !.op = op, !.phase = "primary"]
<1>1. call[t] = NoCall /\ Move(t, c) /\ Quiet /\ UNCHANGED hit
  BY DEF Select, Begin, Quiet, registry, life, world
<1>2. op \in {"transfer", "sync"}
  BY DEF Selection
<1>3. c \in CallRecord /\ c.op = op /\ c.step = "loop" /\ c.i = 1 /\ c.phase = "primary"
  BY <1>2, NoCallFields DEF CallRecord, RegisterSteps
<1> HIDE DEF c
<1>4. Shape(c)
  BY <1>2, <1>3 DEF Shape, SelectionSteps, WalkSteps, Selection
<1>5. CallInv' /\ call'[t] = c /\ Others(t)
  BY <1>1, <1>3, <1>4, Moves
<1> QED BY <1>1, <1>3, <1>5 DEF BeginsWalk

\* A step that only changes step and index
LEMMA GoesTo ==
    ASSUME CallInv, NEW t \in Thread, call[t].op # "none",
           NEW s, NEW i \in Nat \ {0},
           call[t].op = "register" => s \in RegisterSteps,
           call[t].op = "unregister" => s \in UnregisterSteps,
           call[t].op \in Selection => s \in {"loop", "type", "take", "called"},
           \/ Goto(t, s) /\ i = call[t].i
           \/ NextCell(t) /\ s = "loop" /\ i = call[t].i + 1
           \/ Move(t, [call[t] EXCEPT !.step = s, !.i = i])
           \/ Move(t, [call[t] EXCEPT !.i = i]) /\ s = call[t].step
           \/ /\ i = call[t].i
              /\ \E r \in {"ok", "error"} : Move(t, [call[t] EXCEPT !.step = s, !.ret = r])
    PROVE  CallInv' /\ Keeps(t, call[t], s, i)
<1> DEFINE c == call[t]
<1>1. /\ c \in CallRecord /\ Shape(c)
      /\ s \in {"idle"} \cup RegisterSteps \cup UnregisterSteps \cup SelectionSteps
  BY DEF CallInv, Shape, SelectionSteps, WalkSteps, Selection, CallRecord
<1>2. /\ c.op = "register" => s \in RegisterSteps /\ c.backend = call[t].backend
      /\ c.op = "unregister" => s \in UnregisterSteps
      /\ c.op \in Selection => /\ s \in SelectionSteps
                               /\ c.phase \in {"primary", "fallback", "any"}
                               /\ s \in {"health", "selected"} => c.backend \in Backend
  BY <1>1 DEF Shape, SelectionSteps, WalkSteps
<1>3. PICK d \in CallRecord : Fields(d, c, s, c.phase, i, c.backend) /\ Move(t, d)
  <2>1. CASE Goto(t, s) /\ i = c.i
    BY <2>1, <1>1, Updates DEF Goto
  <2>2. CASE NextCell(t) /\ s = "loop" /\ i = c.i + 1
    <3>1. Move(t, [c EXCEPT !.step = s, !.i = i])
      BY <2>2 DEF NextCell
    <3> QED BY <3>1, <1>1, Updates
  <2>3. CASE Move(t, [c EXCEPT !.step = s, !.i = i])
    BY <2>3, <1>1, Updates
  <2>4. CASE Move(t, [c EXCEPT !.i = i]) /\ s = c.step
    BY <2>4, <1>1, Updates
  <2>5. CASE /\ i = c.i
             /\ \E r \in {"ok", "error"} : Move(t, [c EXCEPT !.step = s, !.ret = r])
    BY <2>5, <1>1, Updates
  <2> HIDE DEF c
  <2> QED BY <2>1, <2>2, <2>3, <2>4, <2>5 DEF c
<1> HIDE DEF c
<1>4. /\ CallInv' /\ Fields(call'[t], call[t], s, c.phase, i, c.backend) /\ Others(t)
  BY <1>1, <1>2, <1>3, MovesOn DEF c
<1> QED BY <1>4 DEF Keeps, c

LEMMA FindTypeStep ==
    ASSUME CallInv, RegistryType, NEW t \in Thread, FindType(t)
    PROVE  CallInv' /\ LooksForType(t)
<1> DEFINE c == call[t]
<1>1. /\ c.op \in Registration /\ c.step = "loop" /\ Quiet /\ UNCHANGED hit
      /\ c.i \in Nat \ {0} /\ backend_count \in Nat
  BY DEF FindType, At, Quiet, registry, life, world, CallInv, CallRecord, RegistryType
<1>2. /\ c.op \in {"register", "unregister"}
  BY <1>1 DEF Registration
<1>3. CASE c.i <= backend_count /\ Goto(t, "type")
  <2>1. CallInv' /\ Keeps(t, call[t], "type", c.i)
    BY <1>1, <1>2, <1>3, GoesTo DEF RegisterSteps, UnregisterSteps, Selection
  <2> QED BY <2>1, <1>1, <1>3 DEF LooksForType
<1>4. CASE c.i > backend_count /\ c.op = "register" /\ Goto(t, "append")
  <2>1. CallInv' /\ Keeps(t, call[t], "append", c.i)
    BY <1>1, <1>2, <1>4, GoesTo DEF RegisterSteps, UnregisterSteps, Selection
  <2> QED BY <2>1, <1>1, <1>4 DEF LooksForType
<1>5. CASE c.i > backend_count /\ c.op = "unregister" /\ Return(t)
  BY <1>1, <1>5, Returns DEF LooksForType, Leaves
<1> QED BY <1>3, <1>4, <1>5 DEF FindType

LEMMA CompareTypeStep ==
    ASSUME CallInv, RegistryType, NEW t \in Thread, CompareType(t)
    PROVE  CallInv' /\ ComparesType(t)
<1> DEFINE c == call[t]
<1>1. /\ c.op \in Registration /\ c.step = "type" /\ Quiet /\ UNCHANGED hit
      /\ c.i \in Nat \ {0}
  BY DEF CompareType, At, Quiet, registry, life, world, CallInv, CallRecord
<1>2. /\ c.op \in {"register", "unregister"} /\ c.i + 1 \in Nat \ {0}
  BY <1>1 DEF Registration
<1>3. CASE TypeOf[Cell(c.i)] = c.type
  <2>1. Goto(t, "clean")
    BY <1>3 DEF CompareType
  <2>2. CallInv' /\ Keeps(t, call[t], "clean", c.i)
    BY <1>1, <1>2, <2>1, GoesTo DEF RegisterSteps, UnregisterSteps, Selection
  <2> QED BY <2>2, <1>1, <1>3 DEF ComparesType
<1>4. CASE TypeOf[Cell(c.i)] # c.type
  <2>1. NextCell(t)
    BY <1>4 DEF CompareType
  <2>2. CallInv' /\ Keeps(t, call[t], "loop", c.i + 1)
    BY <1>1, <1>2, <2>1, GoesTo DEF RegisterSteps, UnregisterSteps, Selection
  <2> QED BY <2>2, <1>1, <1>4 DEF ComparesType
<1> QED BY <1>3, <1>4

LEMMA CleanFoundStep ==
    ASSUME CallInv, RegistryType, NEW t \in Thread, CleanFound(t)
    PROVE  CallInv' /\ Cleans(t)
<1> DEFINE c == call[t]
           s == IF c.op = "register" THEN "store" ELSE "shift"
<1>1. /\ c.op \in Registration /\ c.step = "clean" /\ Cell(c.i) # Nobody
      /\ live' = live \ {Cell(c.i)}
      /\ hit' = hit \cup {u \in Thread : Holds(u, Cell(c.i))}
      /\ Goto(t, s)
      /\ UNCHANGED <<cells, backend_count, healthy, policy>>
      /\ c.i \in Nat \ {0}
  BY DEF CleanFound, At, registry, world, CallInv, CallRecord
<1>2. /\ c.op \in {"register", "unregister"}
  BY <1>1 DEF Registration
<1>3. CallInv' /\ Keeps(t, call[t], s, c.i)
  BY <1>1, <1>2, GoesTo DEF RegisterSteps, UnregisterSteps, Selection
<1> QED BY <1>1, <1>3 DEF Cleans

\* Which steps belong to which operation
LEMMA StepOfOp ==
    ASSUME CallInv, NEW t \in Thread, call[t].op \in Registration
    PROVE  /\ call[t].step \in {"store", "append", "count"} => call[t].op = "register"
           /\ call[t].step \in {"shift", "drop", "null"} => call[t].op = "unregister"
           /\ call[t].i \in Nat \ {0}
BY DEF CallInv, CallRecord, Shape, Registration, RegisterSteps, UnregisterSteps

LEMMA StoreFoundStep ==
    ASSUME CallInv, RegistryType, NEW t \in Thread, StoreFound(t)
    PROVE  CallInv' /\ Stores(t)
<1>1. /\ call[t].op \in Registration /\ call[t].step = "store"
      /\ cells' = [cells EXCEPT ![call[t].i] = call[t].backend]
      /\ Return(t)
      /\ UNCHANGED <<backend_count, live, healthy, policy, hit>>
  BY DEF StoreFound, At, life, world
<1> QED BY <1>1, Returns, StepOfOp DEF Stores, Leaves

LEMMA AppendNewStep ==
    ASSUME CallInv, RegistryType, NEW t \in Thread, AppendNew(t)
    PROVE  CallInv' /\ Appends(t)
<1> DEFINE c == call[t]
<1>1. /\ c.op \in Registration /\ c.step = "append" /\ backend_count < MAX_STORAGE_BACKENDS
      /\ cells' = [cells EXCEPT ![backend_count + 1] = c.backend]
      /\ Move(t, [c EXCEPT !.step = "count", !.i = backend_count + 1])
      /\ UNCHANGED <<backend_count, live, healthy, policy, hit>>
      /\ backend_count + 1 \in Nat \ {0}
  BY DEF AppendNew, At, life, world, RegistryType
<1>2. c.op = "register"
  BY <1>1, StepOfOp
<1>3. CallInv' /\ Keeps(t, call[t], "count", backend_count + 1)
  BY <1>1, <1>2, GoesTo DEF RegisterSteps, Selection
<1> QED BY <1>1, <1>2, <1>3 DEF Appends

LEMMA CountUpStep ==
    ASSUME CallInv, RegistryType, NEW t \in Thread, CountUp(t)
    PROVE  CallInv' /\ CountsUp(t)
<1>1. /\ call[t].op \in Registration /\ call[t].step = "count"
      /\ backend_count' \in {call[t].i, backend_count + 1}
      /\ Return(t)
      /\ UNCHANGED <<cells, live, healthy, policy, hit>>
  BY DEF CountUp, At, life, world
<1> QED BY <1>1, Returns, StepOfOp DEF CountsUp, Leaves

LEMMA ShiftStep ==
    ASSUME CallInv, RegistryType, NEW t \in Thread, Shift(t)
    PROVE  CallInv' /\ Shifts(t)
<1> DEFINE c == call[t]
<1>1. /\ c.op \in Registration /\ c.step = "shift" /\ backend_count > 0
      /\ UNCHANGED <<backend_count, live, healthy, policy, hit>>
      /\ backend_count \in Nat \ {0}
  BY DEF Shift, At, life, world, RegistryType
<1>2. c.op = "unregister" /\ c.i \in Nat \ {0}
  BY <1>1, StepOfOp
<1>3. CASE /\ ~Moved(t) /\ c.i + 1 \in Slot
           /\ cells' = [cells EXCEPT ![c.i] = cells[c.i + 1]]
           /\ Move(t, [c EXCEPT !.i = @ + 1])
  <2>1. Move(t, [call[t] EXCEPT !.i = c.i + 1]) /\ c.i + 1 \in Nat \ {0} /\ c.i < backend_count
    BY <1>1, <1>2, <1>3 DEF Moved
  <2>2. CallInv' /\ Keeps(t, call[t], "shift", c.i + 1)
    BY <1>1, <1>2, <2>1, GoesTo DEF UnregisterSteps, Selection
  <2> QED BY <1>1, <1>2, <1>3, <2>1, <2>2 DEF Shifts
<1>4. CASE /\ Moved(t)
           /\ Move(t, [c EXCEPT !.step = "drop", !.i = backend_count])
           /\ UNCHANGED cells
  <2>1. CallInv' /\ Keeps(t, call[t], "drop", backend_count)
    BY <1>1, <1>2, <1>4, GoesTo DEF UnregisterSteps, Selection
  <2> QED BY <1>1, <1>2, <1>4, <2>1 DEF Shifts, Moved
<1> QED BY <1>3, <1>4 DEF Shift

LEMMA DropCountStep ==
    ASSUME CallInv, RegistryType, NEW t \in Thread, DropCount(t)
    PROVE  CallInv' /\ Drops(t)
<1>1. /\ call[t].op \in Registration /\ call[t].step = "drop" /\ backend_count > 0
      /\ backend_count' \in {call[t].i - 1, backend_count - 1}
      /\ Goto(t, "null")
      /\ UNCHANGED <<cells, live, healthy, policy, hit>>
  BY DEF DropCount, At, life, world
<1>2. call[t].op = "unregister" /\ call[t].i \in Nat \ {0}
  BY <1>1, StepOfOp
<1>3. CallInv' /\ Keeps(t, call[t], "null", call[t].i)
  BY <1>1, <1>2, GoesTo DEF UnregisterSteps, Selection
<1> QED BY <1>1, <1>2, <1>3 DEF Drops

LEMMA ClearLastStep ==
    ASSUME CallInv, RegistryType, NEW t \in Thread, ClearLast(t)
    PROVE  CallInv' /\ Clears(t)
<1>1. /\ call[t].op \in Registration /\ call[t].step = "null"
      /\ \E i \in {call[t].i, backend_count + 1} \cap Slot : cells' = [cells EXCEPT ![i] = Nobody]
      /\ Return(t)
      /\ UNCHANGED <<backend_count, live, healthy, policy, hit>>
  BY DEF ClearLast, At, life, world
<1> QED BY <1>1, Returns, StepOfOp DEF Clears, Leaves

\* What a selection knows of its record
LEMMA SelectionShape ==
    ASSUME CallInv, NEW t \in Thread, call[t].op \in Selection
    PROVE  /\ call[t] \in CallRecord /\ call[t].op \in {"transfer", "sync"}
           /\ call[t].op # "none" /\ call[t].op # "register" /\ call[t].op # "unregister"
           /\ call[t].phase \in {"primary", "fallback", "any"}
           /\ call[t].i \in Nat \ {0} /\ call[t].i + 1 \in Nat \ {0}
           /\ call[t].step = "health" => call[t].backend \in Backend
BY DEF CallInv, CallRecord, Shape, Selection

LEMMA WalkStep ==
    ASSUME CallInv, RegistryType, NEW t \in Thread, Walk(t)
    PROVE  CallInv' /\ LooksForCell(t)
<1> DEFINE c == call[t]
           next == NextPhase(c.phase)
<1>1. /\ c.op \in Selection /\ c.step = "loop" /\ Quiet /\ UNCHANGED hit
  BY DEF Walk, At, Quiet, registry, life, world
<1>2. next \in {"fallback", "any", "none"} /\ (next = "none" <=> c.phase = "any")
  BY <1>1, SelectionShape DEF NextPhase
<1>3. CASE c.i <= backend_count /\ Goto(t, "type")
  <2>1. CallInv' /\ Keeps(t, call[t], "type", c.i)
    BY <1>1, <1>3, GoesTo, SelectionShape
  <2> QED BY <2>1, <1>1, <1>3 DEF LooksForCell
<1>4. CASE /\ c.i > backend_count /\ next # "none"
           /\ Move(t, [c EXCEPT !.phase = next, !.i = 1])
  <2> DEFINE d == [c EXCEPT !.phase = next, !.i = 1]
  <2>1. d \in CallRecord /\ Fields(d, call[t], "loop", next, 1, c.backend)
    <3> HIDE DEF next
    <3>1. /\ c \in CallRecord /\ next \in {"none", "primary", "fallback", "any"}
          /\ 1 \in Nat \ {0}
      BY <1>1, <1>2, <1>4, SelectionShape
    <3>2. d \in CallRecord /\ Fields(d, c, c.step, next, 1, c.backend)
      BY <3>1, UpdatesPhase
    <3>3. c.step = "loop"
      BY <1>1
    <3> QED BY <3>2, <3>3 DEF Fields
  <2>2. Move(t, d) /\ next \in {"fallback", "any"} /\ c.phase # "any"
    BY <1>2, <1>4
  <2> HIDE DEF d, next
  <2>3. CallInv' /\ Fields(call'[t], call[t], "loop", next, 1, c.backend) /\ Others(t)
    BY <2>1, <2>2, <1>1, SelectionShape, MovesOn DEF SelectionSteps, WalkSteps
  <2> QED BY <2>2, <2>3, <1>1, <1>4 DEF LooksForCell
<1>5. CASE c.i > backend_count /\ next = "none" /\ Return(t)
  <2>1. c.phase = "any"
    BY <1>2, <1>5
  <2> HIDE DEF next
  <2> QED BY <2>1, <1>1, <1>5, Returns DEF LooksForCell, Leaves
<1> QED BY <1>3, <1>4, <1>5 DEF Walk

LEMMA ReadCellStep ==
    ASSUME CallInv, RegistryType, NEW t \in Thread, ReadCell(t)
    PROVE  CallInv' /\ ReadsCell(t)
<1> DEFINE c == call[t]
           b == Cell(c.i)
           d == [c EXCEPT !.step = "health", !.backend = b]
<1>1. /\ c.op \in Selection /\ c.step = "type" /\ b # Nobody /\ Quiet /\ UNCHANGED hit
  BY DEF ReadCell, At, Quiet, registry, life, world
<1>2. b \in Backend
  BY <1>1, CellType
<1>3. CASE Wanted(c.phase, b)
  <2>1. Move(t, d)
    BY <1>3 DEF ReadCell
  <2>2. d \in CallRecord /\ Fields(d, call[t], "health", c.phase, c.i, b)
    <3> HIDE DEF b
    <3>1. c \in CallRecord /\ "health" \in SelectionSteps
      BY <1>1, SelectionShape DEF SelectionSteps, WalkSteps
    <3> QED BY <3>1, <1>2, UpdatesBackend
  <2> HIDE DEF d, b
  <2>3. CallInv' /\ Fields(call'[t], call[t], "health", c.phase, c.i, b) /\ Others(t)
    BY <2>1, <2>2, <1>1, <1>2, SelectionShape, MovesOn DEF SelectionSteps, WalkSteps
  <2> QED BY <2>3, <1>1, <1>2, <1>3 DEF ReadsCell, b
<1>4. CASE ~Wanted(c.phase, b)
  <2>1. NextCell(t)
    BY <1>4 DEF ReadCell
  <2>2. CallInv' /\ Keeps(t, call[t], "loop", c.i + 1)
    BY <1>1, <2>1, GoesTo, SelectionShape
  <2> QED BY <2>2, <1>1, <1>2, <1>4 DEF ReadsCell
<1> QED BY <1>3, <1>4

LEMMA CheckHealthStep ==
    ASSUME CallInv, RegistryType, NEW t \in Thread, CheckHealth(t)
    PROVE  CallInv' /\ ChecksHealth(t)
<1> DEFINE c == call[t]
<1>1. /\ c.op \in Selection /\ c.step = "health" /\ Quiet /\ hit' = hit \ {t}
  BY DEF CheckHealth, At, Quiet, registry, world
<1>2. PICK b \in {c.backend, Cell(c.i)} \ {Nobody} :
        \/ Goto(t, "take")
        \/ (~health_check(b) \/ t \in hit) /\ NextCell(t)
  BY DEF CheckHealth
<1>3. CASE Goto(t, "take")
  <2>1. CallInv' /\ Keeps(t, call[t], "take", c.i)
    BY <1>1, <1>3, GoesTo, SelectionShape
  <2> QED BY <2>1, <1>1 DEF ChecksHealth
<1>4. CASE (~health_check(b) \/ t \in hit) /\ NextCell(t)
  <2>1. CallInv' /\ Keeps(t, call[t], "loop", c.i + 1)
    BY <1>1, <1>4, GoesTo, SelectionShape
  <2>2. \/ t \in hit \/ ~health_check(c.backend)
        \/ Cell(c.i) # Nobody /\ ~health_check(Cell(c.i))
    BY <1>2, <1>4
  <2> QED BY <2>1, <2>2, <1>1 DEF ChecksHealth
<1> QED BY <1>2, <1>3, <1>4

LEMMA TakeCellStep ==
    ASSUME CallInv, RegistryType, NEW t \in Thread, TakeCell(t)
    PROVE  CallInv' /\ TakesCell(t)
<1> DEFINE c == call[t]
           b == Cell(c.i)
           d == [c EXCEPT !.step = "selected", !.backend = b]
<1>1. /\ c.op \in Selection /\ c.step = "take" /\ Quiet /\ UNCHANGED hit
  BY DEF TakeCell, At, Quiet, registry, life, world
<1>2. CASE b # Nobody /\ Move(t, d)
  <2>1. b \in Backend
    BY <1>2, CellType
  <2>2. d \in CallRecord /\ Fields(d, call[t], "selected", c.phase, c.i, b)
    <3> HIDE DEF b
    <3>1. c \in CallRecord /\ "selected" \in SelectionSteps
      BY <1>1, SelectionShape DEF SelectionSteps
    <3> QED BY <3>1, <2>1, UpdatesBackend
  <2>3. Move(t, d)
    BY <1>2
  <2> HIDE DEF d, b
  <2>4. CallInv' /\ Fields(call'[t], call[t], "selected", c.phase, c.i, b) /\ Others(t)
    BY <2>1, <2>2, <2>3, <1>1, SelectionShape, MovesOn DEF SelectionSteps, WalkSteps
  <2> QED BY <2>1, <2>4, <1>1 DEF TakesCell, b
<1>3. CASE b = Nobody /\ c.phase # "fallback" /\ Return(t)
  BY <1>1, <1>3, Returns DEF TakesCell, Leaves
<1> QED BY <1>2, <1>3 DEF TakeCell

LEMMA CallBackendStep ==
    ASSUME CallInv, RegistryType, NEW t \in Thread, CallBackend(t)
    PROVE  CallInv' /\ Calls(t)
<1> DEFINE c == call[t]
<1>1. /\ c.op \in Selection /\ c.step = "selected" /\ Quiet /\ hit' = hit \ {t} /\ stats' = stats
  BY DEF CallBackend, At, Quiet, registry, world
<1>2. CASE /\ c.op = "transfer" /\ reached' = reached + 1
           /\ \E ret \in {"ok", "error"} : Move(t, [c EXCEPT !.step = "called", !.ret = ret])
  <2>1. CallInv' /\ Keeps(t, call[t], "called", c.i)
    BY <1>1, <1>2, GoesTo, SelectionShape
  <2> QED BY <2>1, <1>1, <1>2 DEF Calls
<1>3. CASE c.op = "sync" /\ Return(t) /\ reached' = reached
  BY <1>1, <1>3, Returns DEF Calls, Leaves
<1> QED BY <1>2, <1>3 DEF CallBackend

LEMMA UpdateStatsStep ==
    ASSUME CallInv, RegistryType, NEW t \in Thread, UpdateStats(t)
    PROVE  CallInv' /\ Counts(t)
<1>1. /\ call[t].op \in Selection /\ call[t].step = "called" /\ Quiet /\ UNCHANGED <<hit, reached>>
      /\ Return(t) /\ stats' = Counted(t)
  BY DEF UpdateStats, At, Quiet, registry, life, world
<1> QED BY <1>1, Returns DEF Counts, Leaves

StillWalks(t) == LooksForCell(t) \/ ReadsCell(t) \/ ChecksHealth(t) \/ TakesCell(t)

\* Every step of a thread is one of these.
LEMMA ThreadSteps ==
    ASSUME CallInv, RegistryType, NEW t \in Thread, ThreadStep(t)
    PROVE  /\ CallInv'
           /\ \/ /\ BeginsRegistration(t) \/ RegistrationStep(t) \/ BeginsWalk(t) \/ StillWalks(t)
                 /\ UNCHANGED <<stats, reached, crashed>>
              \/ (Calls(t) \/ Counts(t)) /\ UNCHANGED crashed
              \/ Aborts(t) /\ UNCHANGED <<stats, reached>>
<1> DEFINE Goal == /\ CallInv'
                   /\ \/ /\ BeginsRegistration(t) \/ RegistrationStep(t) \/ BeginsWalk(t) \/ StillWalks(t)
                         /\ UNCHANGED <<stats, reached, crashed>>
                      \/ (Calls(t) \/ Counts(t)) /\ UNCHANGED crashed
                      \/ Aborts(t) /\ UNCHANGED <<stats, reached>>
<1>1. ASSUME NEW b \in Backend, storage_manager_register_backend(t, b)
      PROVE  Goal
  <2>1. UNCHANGED <<stats, reached, crashed>>
    BY <1>1 DEF storage_manager_register_backend, counters
  <2> QED BY <2>1, <1>1, RegisterBegins
<1>2. ASSUME NEW b \in Backend, storage_manager_unregister_backend(t, TypeOf[b])
      PROVE  Goal
  <2>1. UNCHANGED <<stats, reached, crashed>>
    BY <1>2 DEF storage_manager_unregister_backend, counters
  <2> QED BY <2>1, <1>2, UnregisterBegins
<1>3. ASSUME NEW op \in Selection, Select(t, op)
      PROVE  Goal
  <2>1. UNCHANGED <<stats, reached, crashed>>
    BY <1>3 DEF Select, counters
  <2> QED BY <2>1, <1>3, SelectBegins
<1>4. ASSUME FindType(t) \/ CompareType(t) \/ CleanFound(t)
      PROVE  Goal
  <2>1. UNCHANGED <<stats, reached, crashed>>
    BY <1>4 DEF FindType, CompareType, CleanFound, counters
  <2> QED BY <2>1, <1>4, FindTypeStep, CompareTypeStep, CleanFoundStep DEF RegistrationStep
<1>5. ASSUME StoreFound(t) \/ AppendNew(t) \/ CountUp(t)
      PROVE  Goal
  <2>1. UNCHANGED <<stats, reached, crashed>>
    BY <1>5 DEF StoreFound, AppendNew, CountUp, counters
  <2> QED BY <2>1, <1>5, StoreFoundStep, AppendNewStep, CountUpStep DEF RegistrationStep
<1>6. ASSUME Shift(t) \/ DropCount(t) \/ ClearLast(t)
      PROVE  Goal
  <2>1. UNCHANGED <<stats, reached, crashed>>
    BY <1>6 DEF Shift, DropCount, ClearLast, counters
  <2> QED BY <2>1, <1>6, ShiftStep, DropCountStep, ClearLastStep DEF RegistrationStep
<1>7. ASSUME Walk(t) \/ ReadCell(t) \/ CheckHealth(t) \/ TakeCell(t)
      PROVE  Goal
  <2>1. UNCHANGED <<stats, reached, crashed>>
    BY <1>7 DEF Walk, ReadCell, CheckHealth, TakeCell, counters
  <2> QED BY <2>1, <1>7, WalkStep, ReadCellStep, CheckHealthStep, TakeCellStep DEF StillWalks
<1>8. ASSUME CallBackend(t) \/ UpdateStats(t)
      PROVE  Goal
  <2>1. UNCHANGED crashed
    BY <1>8 DEF CallBackend, UpdateStats
  <2> QED BY <2>1, <1>8, CallBackendStep, UpdateStatsStep
<1>9. ASSUME Crash(t)
      PROVE  Goal
  <2>1. Aborts(t) /\ UNCHANGED <<stats, reached, call>>
    BY <1>9 DEF Crash, Aborts, Quiet, registry, life, world, counters
  <2>2. CallInv'
    BY <2>1 DEF CallInv
  <2> QED BY <2>1, <2>2
<1>10. ASSUME raft_storage_save(t) \/ raft_storage_load(t)
       PROVE  Goal
  <2>1. "transfer" \in Selection /\ Select(t, "transfer")
    BY <1>10 DEF raft_storage_save, raft_storage_load, Selection
  <2> QED BY <2>1, <1>3
<1> HIDE DEF Goal
<1>11. Goal
  BY <1>1, <1>2, <1>3, <1>4, <1>5, <1>6, <1>7, <1>8, <1>9, <1>10 DEF ThreadStep
<1> QED BY <1>11 DEF Goal

\* The surroundings leave the calls and the registry alone.
LEMMA WorldSteps ==
    ASSUME CallInv, RegistryType, WorldStep
    PROVE  /\ CallInv' /\ Surroundings /\ UNCHANGED <<stats, reached>>
           /\ crashed' = crashed \/ backend_count > MAX_STORAGE_BACKENDS
<1>1. ASSUME NEW p, raft_storage_adapter_init \/ raft_storage_adapter_cleanup \/ SetPolicy(p)
      PROVE  /\ UNCHANGED <<cells, backend_count, live, hit, call, stats, reached, crashed>>
             /\ healthy' = healthy
  BY <1>1 DEF raft_storage_adapter_init, raft_storage_adapter_cleanup, SetPolicy,
              registry, life, world, counters
<1>2. ASSUME NEW b \in Backend, ChangeHealth(b)
      PROVE  /\ UNCHANGED <<cells, backend_count, live, hit, call, stats, reached, crashed>>
             /\ healthy' \subseteq healthy \cup {b}
  BY <1>2 DEF ChangeHealth, registry, life, world, counters
<1>3. ASSUME CleanupOverrun
      PROVE  /\ UNCHANGED <<cells, backend_count, live, hit, call, stats, reached, healthy>>
             /\ backend_count > MAX_STORAGE_BACKENDS
  BY <1>3 DEF CleanupOverrun, registry, life, world, counters
<1>4. /\ UNCHANGED <<cells, backend_count, live, hit, call, stats, reached>>
      /\ healthy' \subseteq Backend
      /\ crashed' = crashed \/ backend_count > MAX_STORAGE_BACKENDS
  <2>1. healthy \subseteq Backend
    BY DEF RegistryType
  <2> QED BY <2>1, <1>1, <1>2, <1>3 DEF WorldStep
<1>5. CallInv'
  BY <1>4 DEF CallInv
<1> QED BY <1>4, <1>5 DEF Surroundings

LEMMA ReinitialiseStep ==
    ASSUME CallInv, RegistryType, Reinitialise
    PROVE  CallInv' /\ RegistryType' /\ UNCHANGED <<call, hit, crashed>>
<1>1. /\ UNCHANGED <<call, hit, crashed, healthy>> /\ live' = live \ Registered
      /\ cells' = [i \in Slot |-> Nobody] /\ backend_count' = 0
  BY DEF Reinitialise
<1> QED BY <1>1 DEF CallInv, RegistryType

-----------------------------------------------------------------------------
(* The types of the registry *)

LEMMA RegistrationTypes ==
    ASSUME CallInv, RegistryType, NEW t \in Thread, RegistrationStep(t)
    PROVE  RegistryType'
<1> DEFINE c == call[t]
<1>0. /\ c \in CallRecord /\ c.i \in Nat \ {0} /\ c.backend \in Backend \cup {Nobody}
  BY DEF CallInv, CallRecord
<1>1. CASE LooksForType(t) \/ ComparesType(t)
  BY <1>1 DEF LooksForType, ComparesType, Quiet, RegistryType
<1>2. CASE Cleans(t)
  BY <1>2 DEF Cleans, RegistryType
<1>3. CASE Stores(t)
  BY <1>0, <1>3 DEF Stores, RegistryType
<1>4. CASE Appends(t)
  BY <1>0, <1>4 DEF Appends, RegistryType
<1>5. CASE CountsUp(t)
  BY <1>0, <1>5 DEF CountsUp, RegistryType
<1>6. CASE Shifts(t)
  <2>1. \/ UNCHANGED cells
        \/ \E b \in Backend \cup {Nobody} : cells' = [cells EXCEPT ![c.i] = b]
    BY <1>6 DEF Shifts, RegistryType
  <2>2. UNCHANGED <<backend_count, live, healthy>>
    BY <1>6 DEF Shifts
  <2> QED BY <2>1, <2>2 DEF RegistryType
<1>7. CASE Drops(t)
  BY <1>0, <1>7 DEF Drops, RegistryType
<1>8. CASE Clears(t)
  BY <1>8 DEF Clears, RegistryType
<1> QED BY <1>1, <1>2, <1>3, <1>4, <1>5, <1>6, <1>7, <1>8 DEF RegistrationStep

LEMMA TypesStep ==
    ASSUME CallInv, RegistryType, [Next]_vars
    PROVE  CallInv' /\ RegistryType'
<1>1. ASSUME NEW t \in Thread, ThreadStep(t)
      PROVE  CallInv' /\ RegistryType'
  <2>1. Quiet => RegistryType'
    BY DEF Quiet, RegistryType
  <2>2. BeginsRegistration(t) \/ BeginsWalk(t) \/ StillWalks(t) \/ Calls(t) \/ Counts(t) \/ Aborts(t)
          => Quiet
    BY DEF BeginsRegistration, BeginsWalk, StillWalks, LooksForCell, ReadsCell, ChecksHealth,
           TakesCell, Calls, Counts, Aborts
  <2> QED BY <1>1, <2>1, <2>2, ThreadSteps, RegistrationTypes
<1>2. ASSUME WorldStep
      PROVE  CallInv' /\ RegistryType'
  BY <1>2, WorldSteps DEF Surroundings, RegistryType
<1>3. CASE UNCHANGED vars
  BY <1>3 DEF vars, registry, life, world, CallInv, RegistryType
<1> QED BY <1>1, <1>2, <1>3, ReinitialiseStep DEF Next

-----------------------------------------------------------------------------
(* The counters *)

Called == {t \in Thread : call[t].step = "called"}

StatsInv ==
    /\ stats \in [ops : Nat, error_count : Nat] /\ reached \in Nat
    /\ StatsConserved

LEMMA CalledFinite ==
    /\ IsFiniteSet(Called) /\ Cardinality(Called) \in Nat
    /\ IsFiniteSet(Called') /\ Cardinality(Called') \in Nat
<1>1. Called \in SUBSET Thread /\ Called' \in SUBSET Thread /\ IsFiniteSet(Thread)
  BY DEF Called
<1> HIDE DEF Called
<1> QED BY <1>1, FS_Subset, FS_CardinalityType

LEMMA StatsIs == StatsConserved <=>
    stats.ops + stats.error_count + Cardinality(Called) = reached
BY DEF StatsConserved, Called

LEMMA StatsIsNext == StatsConserved' <=>
    stats'.ops + stats'.error_count + Cardinality(Called') = reached'
BY DEF StatsConserved, Called

\* Nothing is counted, and no thread comes to the counters or leaves them.
LEMMA CalledKept ==
    ASSUME StatsInv, UNCHANGED <<stats, reached>>, Called' = Called
    PROVE  StatsInv'
BY StatsIs, StatsIsNext DEF StatsInv

\* A step that keeps t away from the counters
LEMMA CalledMoves ==
    ASSUME NEW t \in Thread, Others(t)
    PROVE  /\ call[t].step # "called" /\ call'[t].step # "called" => Called' = Called
           /\ call[t].step # "called" /\ call'[t].step = "called" =>
                Cardinality(Called') = Cardinality(Called) + 1
           /\ call[t].step = "called" /\ call'[t].step # "called" =>
                Cardinality(Called') = Cardinality(Called) - 1
<1>1. /\ Called' = {u \in Thread : call'[u].step = "called"}
      /\ \A u \in Thread \ {t} : call'[u] = call[u]
  BY DEF Called, Others
<1>2. /\ call[t].step # "called" /\ call'[t].step # "called" => Called' = Called
      /\ call[t].step # "called" /\ call'[t].step = "called" =>
           Called' = Called \cup {t} /\ t \notin Called
      /\ call[t].step = "called" /\ call'[t].step # "called" =>
           Called' = Called \ {t} /\ t \in Called
  BY <1>1 DEF Called
<1>3. /\ t \notin Called => Cardinality(Called \cup {t}) = Cardinality(Called) + 1
      /\ t \in Called => Cardinality(Called \ {t}) = Cardinality(Called) - 1
  BY CalledFinite, FS_AddElement, FS_RemoveElement
<1> HIDE DEF Called
<1> QED BY <1>2, <1>3

\* Registrations, and selections up to their call, are away from the counters.
LEMMA AwayFromCounters ==
    ASSUME CallInv, NEW t \in Thread,
           BeginsRegistration(t) \/ RegistrationStep(t) \/ BeginsWalk(t) \/ StillWalks(t)
    PROVE  Others(t) /\ call[t].step # "called" /\ call'[t].step # "called"
<1> USE NoCallFields DEF Keeps, Leaves, Fields
<1>1. CASE BeginsRegistration(t) \/ BeginsWalk(t)
  BY <1>1 DEF BeginsRegistration, BeginsWalk
<1>2. CASE LooksForType(t) \/ ComparesType(t) \/ Cleans(t)
  BY <1>2 DEF LooksForType, ComparesType, Cleans
<1>3. CASE Stores(t) \/ Appends(t) \/ CountsUp(t)
  BY <1>3 DEF Stores, Appends, CountsUp
<1>4. CASE Shifts(t) \/ Drops(t) \/ Clears(t)
  BY <1>4 DEF Shifts, Drops, Clears
<1>5. CASE LooksForCell(t) \/ ReadsCell(t) \/ ChecksHealth(t) \/ TakesCell(t)
  BY <1>5 DEF LooksForCell, ReadsCell, ChecksHealth, TakesCell
<1> QED BY <1>1, <1>2, <1>3, <1>4, <1>5 DEF RegistrationStep, StillWalks

\* Every read and write that reaches a backend is counted once.
LEMMA StatsStep ==
    ASSUME CallInv, RegistryType, StatsInv, [Next]_vars
    PROVE  StatsInv'
<1> DEFINE n == Cardinality(Called)
           n1 == Cardinality(Called')
<1>0. /\ stats \in [ops : Nat, error_count : Nat] /\ reached \in Nat /\ n \in Nat /\ n1 \in Nat
      /\ stats.ops + stats.error_count + n = reached
      /\ stats.ops \in Nat /\ stats.error_count \in Nat
  BY StatsIs, CalledFinite DEF StatsInv
<1>1. ASSUME NEW t \in Thread, ThreadStep(t)
      PROVE  StatsInv'
  <2>1. ASSUME BeginsRegistration(t) \/ RegistrationStep(t) \/ BeginsWalk(t) \/ StillWalks(t),
               UNCHANGED <<stats, reached>>
        PROVE  StatsInv'
    BY <2>1, AwayFromCounters, CalledMoves, CalledKept
  <2>2. ASSUME Calls(t)
        PROVE  StatsInv'
    <3>1. CASE call[t].op = "transfer"
      <4>1. /\ Others(t) /\ call[t].step = "selected" /\ call'[t].step = "called"
            /\ stats' = stats /\ reached' = reached + 1
        BY <2>2, <3>1 DEF Calls, Keeps, Fields
      <4>2. n1 = n + 1
        BY <4>1, CalledMoves
      <4>3. stats'.ops + stats'.error_count + n1 = reached'
        <5> HIDE DEF n, n1
        <5> QED BY <4>1, <4>2, <1>0
      <4> QED BY <4>1, <4>3, <1>0, StatsIsNext DEF StatsInv
    <3>2. CASE call[t].op # "transfer"
      <4>1. /\ Others(t) /\ call[t].step = "selected" /\ call'[t].step = "idle"
            /\ stats' = stats /\ reached' = reached
        BY <2>2, <3>2, NoCallFields DEF Calls, Leaves
      <4> QED BY <4>1, CalledMoves, CalledKept
    <3> QED BY <3>1, <3>2
  <2>3. ASSUME Counts(t)
        PROVE  StatsInv'
    <3>1. /\ Others(t) /\ call[t].step = "called" /\ call'[t].step = "idle"
          /\ stats' = Counted(t) /\ reached' = reached
      BY <2>3, NoCallFields DEF Counts, Leaves
    <3>2. n1 = n - 1
      BY <3>1, CalledMoves
    <3>3. /\ stats' \in [ops : Nat, error_count : Nat]
          /\ stats'.ops + stats'.error_count = stats.ops + stats.error_count + 1
          /\ stats'.ops \in Nat /\ stats'.error_count \in Nat
      BY <3>1, <1>0 DEF Counted
    <3>4. stats'.ops + stats'.error_count + n1 = reached'
      <4> HIDE DEF n, n1
      <4> QED BY <3>1, <3>2, <3>3, <1>0
    <3> QED BY <3>1, <3>3, <3>4, <1>0, StatsIsNext DEF StatsInv
  <2>4. ASSUME Aborts(t), UNCHANGED <<stats, reached>>
        PROVE  StatsInv'
    <3>1. Called' = Called
      BY <2>4 DEF Aborts, Called
    <3> QED BY <3>1, <2>4, CalledKept
  <2> QED BY <1>1, <2>1, <2>2, <2>3, <2>4, ThreadSteps
<1>2. ASSUME WorldStep
      PROVE  StatsInv'
  <2>1. UNCHANGED <<stats, reached, call>>
    BY <1>2, WorldSteps DEF Surroundings
  <2>2. Called' = Called
    BY <2>1 DEF Called
  <2> QED BY <2>1, <2>2, CalledKept
<1>3. ASSUME Reinitialise
      PROVE  StatsInv'
  <2>1. /\ stats' = [ops |-> 0, error_count |-> 0] /\ reached' = 0
        /\ \A t \in Thread : call'[t] = NoCall
    BY <1>3 DEF Reinitialise
  <2>2. Called' = {}
    BY <2>1, NoCallFields DEF Called
  <2>3. Cardinality(Called') = 0
    BY <2>2, FS_EmptySet
  <2>4. stats'.ops = 0 /\ stats'.error_count = 0 /\ stats' \in [ops : Nat, error_count : Nat]
    BY <2>1
  <2> QED BY <2>1, <2>3, <2>4, StatsIsNext DEF StatsInv
<1>4. CASE UNCHANGED vars
  <2>1. UNCHANGED <<stats, reached, call>>
    BY <1>4 DEF vars, counters
  <2>2. Called' = Called
    BY <2>1 DEF Called
  <2> QED BY <2>1, <2>2, CalledKept
<1> QED BY <1>1, <1>2, <1>3, <1>4 DEF Next

-----------------------------------------------------------------------------
(* The calls whose backend was cleaned up, and the other variables *)

HitInv ==
    /\ hit \subseteq Thread
    /\ \A u \in hit : call[u].op \in Selection /\ call[u].step \in {"health", "selected"}

LEMMA HitStep ==
    ASSUME CallInv, RegistryType, HitInv, [Next]_vars
    PROVE  HitInv'
<1>1. ASSUME UNCHANGED <<call, hit>>
      PROVE  HitInv'
  BY <1>1 DEF HitInv
<1>2. ASSUME NEW t \in Thread, Others(t), t \notin hit', hit' \subseteq hit
      PROVE  HitInv'
  BY <1>2 DEF HitInv, Others
<1>3. ASSUME NEW t \in Thread, ThreadStep(t)
      PROVE  HitInv'
  <2>1. ASSUME BeginsRegistration(t) \/ RegistrationStep(t) \/ BeginsWalk(t) \/ StillWalks(t)
               \/ Calls(t) \/ Counts(t),
               ~Cleans(t)
        PROVE  Others(t) /\ t \notin hit' /\ hit' \subseteq hit
    <3> USE NoCallFields DEF Keeps, Leaves, HitInv, Registration, Selection
    <3>1. CASE BeginsRegistration(t) \/ BeginsWalk(t)
      BY <3>1 DEF BeginsRegistration, BeginsWalk
    <3>2. CASE LooksForType(t) \/ ComparesType(t) \/ Stores(t) \/ Appends(t) \/ CountsUp(t)
      BY <3>2 DEF LooksForType, ComparesType, Stores, Appends, CountsUp
    <3>3. CASE Shifts(t) \/ Drops(t) \/ Clears(t)
      BY <3>3 DEF Shifts, Drops, Clears
    <3>4. CASE LooksForCell(t) \/ ReadsCell(t) \/ ChecksHealth(t) \/ TakesCell(t)
      BY <3>4 DEF LooksForCell, ReadsCell, ChecksHealth, TakesCell
    <3>5. CASE Calls(t) \/ Counts(t)
      BY <3>5 DEF Calls, Counts
    <3> QED BY <2>1, <3>1, <3>2, <3>3, <3>4, <3>5 DEF RegistrationStep, StillWalks
  <2>2. ASSUME Cleans(t)
        PROVE  HitInv'
    <3>1. /\ hit' = hit \cup {u \in Thread : Holds(u, Cell(call[t].i))}
          /\ \A u \in Thread \ {t} : call'[u] = call[u]
          /\ call[t].op \in Registration
      BY <2>2 DEF Cleans, Keeps, Others
    <3>2. \A u \in hit' : /\ u \in Thread /\ call[u].op \in Selection
                          /\ call[u].step \in {"health", "selected"}
      BY <3>1 DEF HitInv, Holds
    <3>3. t \notin hit'
      BY <3>1, <3>2 DEF Registration, Selection
    <3> QED BY <3>1, <3>2, <3>3 DEF HitInv
  <2>3. ASSUME Aborts(t)
        PROVE  HitInv'
    BY <2>3, <1>1 DEF Aborts
  <2> QED BY <1>2, <1>3, <2>1, <2>2, <2>3, ThreadSteps
<1>4. ASSUME WorldStep
      PROVE  HitInv'
  BY <1>1, <1>4, WorldSteps DEF Surroundings
<1>5. ASSUME Reinitialise
      PROVE  HitInv'
  BY <1>1, <1>5, ReinitialiseStep
<1>6. CASE UNCHANGED vars
  BY <1>1, <1>6 DEF vars, life
<1> QED BY <1>3, <1>4, <1>5, <1>6 DEF Next

SettingsInv ==
    /\ policy \in Policies \cup {DefaultPolicy} /\ attached \in BOOLEAN /\ crashed \in BOOLEAN
    /\ changes \in 0..MaxChanges

LEMMA SettingsStep ==
    ASSUME SettingsInv, [Next]_vars
    PROVE  SettingsInv'
<1>0. /\ policy \in Policies \cup {DefaultPolicy} /\ attached \in BOOLEAN /\ crashed \in BOOLEAN
      /\ changes \in 0..MaxChanges
      /\ Change => changes' \in 0..MaxChanges
  BY DEF SettingsInv, Change
<1>1. ASSUME NEW t \in Thread, ThreadStep(t)
      PROVE  /\ UNCHANGED <<policy, attached>>
             /\ crashed' = crashed \/ crashed' = TRUE
             /\ UNCHANGED changes \/ Change
  <2> DEFINE Goal == /\ UNCHANGED <<policy, attached>>
                     /\ crashed' = crashed \/ crashed' = TRUE
                     /\ UNCHANGED changes \/ Change
  <2> USE DEF world, life, registry, counters
  <2>1. ASSUME NEW b, \/ storage_manager_register_backend(t, b)
                      \/ storage_manager_unregister_backend(t, TypeOf[b])
        PROVE  Goal
    BY <2>1 DEF storage_manager_register_backend, storage_manager_unregister_backend
  <2>2. ASSUME NEW op, Select(t, op)
        PROVE  Goal
    BY <2>2 DEF Select
  <2>3. ASSUME FindType(t) \/ CompareType(t) \/ CleanFound(t) \/ StoreFound(t)
        PROVE  Goal
    BY <2>3 DEF FindType, CompareType, CleanFound, StoreFound
  <2>4. ASSUME AppendNew(t) \/ CountUp(t) \/ Shift(t) \/ DropCount(t) \/ ClearLast(t)
        PROVE  Goal
    BY <2>4 DEF AppendNew, CountUp, Shift, DropCount, ClearLast
  <2>5. ASSUME Walk(t) \/ ReadCell(t) \/ CheckHealth(t) \/ TakeCell(t)
        PROVE  Goal
    BY <2>5 DEF Walk, ReadCell, CheckHealth, TakeCell
  <2>6. ASSUME CallBackend(t) \/ UpdateStats(t) \/ Crash(t)
        PROVE  Goal
    BY <2>6 DEF CallBackend, UpdateStats, Crash
  <2>7. ASSUME raft_storage_save(t) \/ raft_storage_load(t)
        PROVE  Goal
    BY <2>2, <2>7 DEF raft_storage_save, raft_storage_load
  <2> HIDE DEF Goal
  <2>8. Goal
    BY <1>1, <2>1, <2>2, <2>3, <2>4, <2>5, <2>6, <2>7 DEF ThreadStep
  <2> QED BY <2>8 DEF Goal
<1>2. ASSUME WorldStep
      PROVE  /\ policy' \in Policies \cup {policy} /\ attached' \in BOOLEAN
             /\ crashed' = crashed \/ crashed' = TRUE
             /\ UNCHANGED changes \/ Change
  BY <1>0, <1>2 DEF WorldStep, raft_storage_adapter_init, raft_storage_adapter_cleanup, SetPolicy,
                    ChangeHealth, CleanupOverrun, world
<1>3. ASSUME Reinitialise
      PROVE  policy' = DefaultPolicy /\ UNCHANGED <<attached, crashed>> /\ Change
  BY <1>3 DEF Reinitialise, InitialPolicy
<1>4. ASSUME UNCHANGED vars
      PROVE  UNCHANGED <<policy, attached, crashed, changes>>
  BY <1>4 DEF vars, world
<1>5. /\ policy' \in Policies \cup {DefaultPolicy}
      /\ UNCHANGED changes \/ Change
  <2>1. CASE Next
    BY <2>1, <1>0, <1>1, <1>2, <1>3 DEF Next
  <2> QED BY <2>1, <1>0, <1>4
<1>6. attached' \in BOOLEAN /\ crashed' \in BOOLEAN
  <2>1. ASSUME NEW t \in Thread, ThreadStep(t)
        PROVE  attached' \in BOOLEAN /\ crashed' \in BOOLEAN
    BY <2>1, <1>0, <1>1, Zenon
  <2>2. ASSUME WorldStep
        PROVE  attached' \in BOOLEAN /\ crashed' \in BOOLEAN
    BY <2>2, <1>0, <1>2, Zenon
  <2>3. ASSUME Reinitialise
        PROVE  attached' \in BOOLEAN /\ crashed' \in BOOLEAN
    BY <2>3, <1>0, <1>3, Zenon
  <2>4. ASSUME UNCHANGED vars
        PROVE  attached' \in BOOLEAN /\ crashed' \in BOOLEAN
    BY <2>4, <1>0, <1>4, Zenon
  <2> QED BY <2>1, <2>2, <2>3, <2>4 DEF Next
<1>7. changes' \in 0..MaxChanges
  BY <1>0, <1>5
<1> QED BY <1>5, <1>6, <1>7 DEF SettingsInv

-----------------------------------------------------------------------------
(* The history *)

HistoryInv ==
    /\ Overlapping \subseteq overlap
    /\ \A t \in Thread : /\ steady[t] \subseteq Usable
                         /\ ~Walking(t) => steady[t] = {}
                         /\ first[t] \subseteq steady[t]
                         /\ \A b \in first[t] : TypeOf[b] = policy.primary

LEMMA ObservedOverlap ==
    ASSUME Observe
    PROVE  overlap \subseteq overlap' /\ Overlapping' \subseteq overlap'
BY DEF Observe

LEMMA ObservedWalk ==
    ASSUME Observe, NEW t \in Thread
    PROVE  /\ steady'[t] \subseteq Usable'
           /\ ~Walking(t)' => steady'[t] = {}
           /\ Walking(t) => steady'[t] \subseteq steady[t] /\ first'[t] \subseteq first[t]
           /\ first'[t] \subseteq steady'[t]
           /\ \A b \in first'[t] : TypeOf[b] = policy'.primary
<1> DEFINE U == Usable'
           W1 == Walking(t)'
           W == Walking(t)
<1>1. steady'[t] = {b \in U : W1 /\ (W => b \in steady[t])}
  BY DEF Observe
<1>2. first'[t] = {b \in steady'[t] : TypeOf[b] = policy'.primary /\ (W => b \in first[t])}
  BY DEF Observe
<1> HIDE DEF U, W1, W
<1>3. /\ steady'[t] \subseteq U /\ (~W1 => steady'[t] = {})
      /\ W => steady'[t] \subseteq steady[t] /\ first'[t] \subseteq first[t]
      /\ first'[t] \subseteq steady'[t]
      /\ \A b \in first'[t] : TypeOf[b] = policy'.primary
  BY <1>1, <1>2
<1> QED BY <1>3 DEF U, W1, W

LEMMA HistoryStep ==
    ASSUME HistoryInv, HitInv, [Next]_vars
    PROVE  HistoryInv'
<1>1. ASSUME Observe
      PROVE  HistoryInv'
  <2>1. \A t \in Thread : /\ steady'[t] \subseteq Usable'
                          /\ ~Walking(t)' => steady'[t] = {}
                          /\ first'[t] \subseteq steady'[t]
                          /\ \A b \in first'[t] : TypeOf[b] = policy'.primary
    BY <1>1, ObservedWalk
  <2>2. Overlapping' \subseteq overlap'
    BY <1>1, ObservedOverlap
  <2> QED BY <2>1, <2>2 DEF HistoryInv
<1>2. ASSUME Reinitialise
      PROVE  HistoryInv'
  <2>1. /\ \A t \in Thread : call[t] = NoCall
        /\ UNCHANGED <<call, hit, steady, first>> /\ backend_count' = 0
    BY <1>2 DEF Reinitialise
  <2>2. \A t \in Thread : ~Walking(t) /\ ~Walking(t)' /\ ~Registering(t)'
    BY <2>1, NoCallFields DEF Walking, Registering, Selection, Registration
  <2>3. \A t \in Thread : steady'[t] = {} /\ first'[t] = {}
    BY <2>1, <2>2 DEF HistoryInv
  <2>4. Overlapping' \subseteq overlap'
    <3>1. hit = {}
      BY <2>1, NoCallFields DEF HitInv, Selection
    <3>2. \A t \in Thread : call'[t].op = "none"
      BY <2>1, NoCallFields
    <3> QED BY <2>1, <2>2, <3>1, <3>2 DEF Overlapping
  <2> QED BY <2>3, <2>4 DEF HistoryInv
<1>3. CASE UNCHANGED vars
  <2>1. /\ Overlapping' = Overlapping /\ overlap' = overlap /\ Usable' = Usable
        /\ steady' = steady /\ first' = first /\ policy' = policy
        /\ \A t \in Thread : Walking(t)' <=> Walking(t)
    BY <1>3 DEF vars, registry, life, world, history, Overlapping, Usable, Registered, Walking,
                Removing, Registering, health_check
  <2> QED BY <2>1 DEF HistoryInv
<1> QED BY <1>1, <1>2, <1>3 DEF Next

\* What the history says of the state
LEMMA HistoryFacts ==
    ASSUME HistoryInv
    PROVE  /\ \A t, u \in Thread : Registering(t) /\ Registering(u) /\ "registry" \notin overlap
                                     => t = u
           /\ \A t, u \in Thread : Walking(t) /\ Removing(u) => "walk" \in overlap
           /\ hit # {} => "call" \in overlap
           /\ \A t \in Thread : Removing(t) => \A u \in Thread : steady[u] = {} /\ first[u] = {}
           /\ \A t \in Thread : \A b \in steady[t] : b \in Registered /\ health_check(b)
<1>1. \A o \in Overlapping : o \in overlap
  BY DEF HistoryInv
<1>2. /\ \A t, u \in Thread : Registering(t) /\ Registering(u) /\ t # u => "registry" \in Overlapping
      /\ \A t, u \in Thread : Walking(t) /\ Removing(u) => "walk" \in Overlapping
      /\ hit # {} => "call" \in Overlapping
  BY DEF Overlapping
<1>3. \A t \in Thread : \A b \in steady[t] : b \in Registered /\ health_check(b)
  BY DEF HistoryInv, Usable
<1>4. ASSUME NEW t \in Thread, Removing(t), NEW u \in Thread
      PROVE  steady[u] = {} /\ first[u] = {}
  <2>1. Usable = {}
    BY <1>4 DEF Usable
  <2> QED BY <2>1 DEF HistoryInv
<1> QED BY <1>1, <1>2, <1>3, <1>4

-----------------------------------------------------------------------------
(* The registry, while no two registrations have overlapped *)

\* The cells below backend_count are filled.
Filled ==
    /\ backend_count <= MAX_STORAGE_BACKENDS
    /\ \A k \in 1..backend_count : cells[k] \in Backend

\* The cell a removal has copied or is about to drop
Hole(u, k) == Registering(u) /\ call[u].step \in {"shift", "drop"} /\ call[u].i = k

Distinct ==
    \A j, k \in 1..backend_count :
        /\ TypeOf[cells[j]] = TypeOf[cells[k]]
        /\ \A u \in Thread : ~Hole(u, j) /\ ~Hole(u, k)
        => j = k

\* The same when t is the only one that registers
DistinctFor(t) ==
    \A j, k \in 1..backend_count :
        TypeOf[cells[j]] = TypeOf[cells[k]] /\ ~Hole(t, j) /\ ~Hole(t, k) => j = k

\* What a registration knows at each of its steps
OpInv(t) ==
    LET c == call[t]
    IN  /\ c.op = "register" /\ c.step \in {"loop", "type", "append"} =>
             backend_count < MAX_STORAGE_BACKENDS
        /\ c.op = "register" /\ c.step \in {"loop", "type"} =>
             \A k \in 1..backend_count : k < c.i => TypeOf[cells[k]] # c.type
        /\ c.step \in {"append", "count"} =>
             \A k \in 1..backend_count : TypeOf[cells[k]] # c.type
        /\ c.step \in {"type", "clean", "store", "shift"} => c.i <= backend_count
        /\ c.step \in {"clean", "store"} => TypeOf[cells[c.i]] = c.type
        /\ c.step = "store" => cells[c.i] \notin live
        /\ c.step = "drop" => c.i = backend_count /\ backend_count > 0
        /\ c.step = "null" => c.i = backend_count + 1 /\ c.i <= MAX_STORAGE_BACKENDS
        /\ c.step = "count" => /\ c.i = backend_count + 1 /\ c.i <= MAX_STORAGE_BACKENDS
                               /\ cells[c.i] = c.backend

Order == Filled /\ Distinct /\ \A t \in Thread : Registering(t) => OpInv(t)
OrderInv == "registry" \notin overlap => Order

Alone(t) == \A u \in Thread : Registering(u) => u = t

\* The steps that leave registry and registrations alone
LEMMA OrderQuiet ==
    ASSUME Order, UNCHANGED <<cells, backend_count, live>>,
           \A u \in Thread : Registering(u) \/ Registering(u)' => call'[u] = call[u]
    PROVE  Order'
<1>1. Filled'
  BY DEF Order, Filled
<1>2. \A u \in Thread : \A k : Hole(u, k)' <=> Hole(u, k)
  BY DEF Hole, Registering
<1>3. Distinct'
  BY <1>2 DEF Order, Distinct
<1>4. ASSUME NEW u \in Thread, Registering(u)'
      PROVE  OpInv(u)'
  <2>1. call'[u] = call[u] /\ Registering(u)
    BY <1>4 DEF Registering
  <2>2. OpInv(u)
    BY <2>1 DEF Order
  <2> QED BY <2>1, <2>2 DEF OpInv
<1> QED BY <1>1, <1>3, <1>4 DEF Order

\* With one registration, its hole is the only one.
LEMMA HoleAlone ==
    ASSUME NEW t \in Thread, Alone(t)
    PROVE  /\ Distinct <=> DistinctFor(t)
           /\ Order <=> Filled /\ Distinct /\ (Registering(t) => OpInv(t))
<1>1. \A u \in Thread : \A k : Hole(u, k) => u = t
  BY DEF Alone, Hole
<1> QED BY <1>1 DEF Distinct, DistinctFor, Order, Alone

LEMMA HoleAloneNext ==
    ASSUME NEW t \in Thread, Alone(t)'
    PROVE  /\ Distinct' <=> DistinctFor(t)'
           /\ Order' <=> Filled' /\ Distinct' /\ (Registering(t)' => OpInv(t)')
<1>1. \A u \in Thread : \A k : Hole(u, k)' => u = t
  BY DEF Alone, Hole, Registering
<1> QED BY <1>1 DEF Distinct, DistinctFor, Order, Alone

LEMMA AloneNext ==
    ASSUME NEW t \in Thread, Alone(t), Others(t)
    PROVE  Alone(t)'
BY DEF Alone, Others, Registering

LEMMA RegistrationOrder ==
    ASSUME CallInv, RegistryType, Order, NEW t \in Thread, Alone(t), RegistrationStep(t)
    PROVE  Order'
<1> DEFINE c == call[t]
           d == call'[t]
           n == backend_count
<1>0. /\ c.i \in Nat \ {0} /\ c.backend \in Backend \cup {Nobody} /\ n \in Nat
      /\ MAX_STORAGE_BACKENDS \in Nat
      /\ cells \in [Slot -> Backend \cup {Nobody}] /\ Slot = 1..MAX_STORAGE_BACKENDS
      /\ c.op = "register" => c.backend \in Backend /\ c.type = TypeOf[c.backend]
  BY DEF CallInv, CallRecord, RegistryType, Shape, Slot
<1>1. /\ Registering(t) /\ OpInv(t) /\ Others(t)
      /\ n <= MAX_STORAGE_BACKENDS /\ \A k \in 1..n : cells[k] \in Backend
      /\ \A k \in Nat : Hole(t, k) <=> c.step \in {"shift", "drop"} /\ c.i = k
      /\ \A j, k \in 1..n :
           TypeOf[cells[j]] = TypeOf[cells[k]] /\ ~Hole(t, j) /\ ~Hole(t, k) => j = k
  <2>1. Registering(t) /\ Others(t)
    BY DEF RegistrationStep, LooksForType, ComparesType, Cleans, Stores, Appends, CountsUp,
           Shifts, Drops, Clears, Registering, Registration, Keeps, Leaves
  <2>2. OpInv(t) /\ Filled /\ Distinct
    BY <2>1 DEF Order
  <2>3. \A k \in Nat : Hole(t, k) <=> c.step \in {"shift", "drop"} /\ c.i = k
    BY <2>1 DEF Hole
  <2>4. \A j, k \in 1..n :
           TypeOf[cells[j]] = TypeOf[cells[k]] /\ ~Hole(t, j) /\ ~Hole(t, k) => j = k
    BY <2>2, HoleAlone DEF DistinctFor
  <2>5. n <= MAX_STORAGE_BACKENDS /\ \A k \in 1..n : cells[k] \in Backend
    BY <2>2 DEF Filled
  <2> QED BY <2>1, <2>2, <2>3, <2>4, <2>5
<1>2. Alone(t)'
  BY <1>1, AloneNext
<1>3. ASSUME Filled', Registering(t)' => OpInv(t)',
             DistinctFor(t)'
      PROVE  Order'
  BY <1>2, <1>3, HoleAloneNext
<1>4. \A k \in Nat : Hole(t, k)' <=> Registering(t)' /\ d.step \in {"shift", "drop"} /\ d.i = k
  BY DEF Hole
<1>5. Leaves(t) => ~Registering(t)'
  BY NoCallFields DEF Leaves, Registering, Registration
<1>6. \A s, i : Keeps(t, c, s, i) => /\ d.op = c.op /\ d.type = c.type /\ d.step = s /\ d.i = i
                                     /\ d.backend = c.backend /\ Registering(t)'
  BY <1>1 DEF Keeps, Fields, Registering
<1>7. CASE LooksForType(t) \/ ComparesType(t)
  <2>1. UNCHANGED <<cells, backend_count, live>> /\ Filled'
    BY <1>1, <1>7 DEF LooksForType, ComparesType, Quiet, Filled
  <2>2. c.step \in {"loop", "type"} /\ (Registering(t)' => d.step \in {"loop", "type", "append", "clean"})
    BY <1>5, <1>6, <1>7 DEF LooksForType, ComparesType
  <2>3. DistinctFor(t)'
    BY <1>0, <1>1, <2>1, <2>2 DEF DistinctFor
  <2>4. ASSUME Registering(t)'
        PROVE  OpInv(t)'
    <3>1. CASE LooksForType(t)
      <4>1. /\ c.step = "loop" /\ c.op \in Registration
            /\ \/ c.i <= n /\ Keeps(t, c, "type", c.i)
               \/ c.i > n /\ c.op = "register" /\ Keeps(t, c, "append", c.i)
        BY <2>4, <3>1, <1>5 DEF LooksForType
      <4>2. CASE c.i <= n /\ Keeps(t, c, "type", c.i)
        <5>1. d.op = c.op /\ d.type = c.type /\ d.step = "type" /\ d.i = c.i
          BY <4>2, <1>6
        <5> QED BY <4>1, <4>2, <5>1, <1>1, <2>1 DEF OpInv
      <4>3. CASE c.i > n /\ c.op = "register" /\ Keeps(t, c, "append", c.i)
        <5>1. d.op = c.op /\ d.type = c.type /\ d.step = "append" /\ d.i = c.i
          BY <4>3, <1>6
        <5>2. /\ n < MAX_STORAGE_BACKENDS
              /\ \A k \in 1..n : TypeOf[cells[k]] # c.type
          BY <4>1, <4>3, <1>0, <1>1 DEF OpInv
        <5> QED BY <5>1, <5>2, <2>1 DEF OpInv
      <4> QED BY <4>1, <4>2, <4>3
    <3>2. CASE ComparesType(t)
      <4>1. /\ c.step = "type" /\ c.op \in Registration /\ c.i <= n /\ Cell(c.i) = cells[c.i]
        BY <3>2, <1>0, <1>1 DEF ComparesType, OpInv, Cell
      <4>2. CASE TypeOf[Cell(c.i)] = c.type /\ Keeps(t, c, "clean", c.i)
        <5>1. d.op = c.op /\ d.type = c.type /\ d.step = "clean" /\ d.i = c.i
          BY <4>2, <1>6
        <5> QED BY <4>1, <4>2, <5>1, <1>1, <2>1 DEF OpInv
      <4>3. CASE TypeOf[Cell(c.i)] # c.type /\ Keeps(t, c, "loop", c.i + 1)
        <5>1. d.op = c.op /\ d.type = c.type /\ d.step = "loop" /\ d.i = c.i + 1
          BY <4>3, <1>6
        <5>2. ASSUME c.op = "register"
              PROVE  /\ n < MAX_STORAGE_BACKENDS
                     /\ \A k \in 1..n : k < c.i + 1 => TypeOf[cells[k]] # c.type
          BY <5>2, <4>1, <4>3, <1>0, <1>1 DEF OpInv
        <5> QED BY <5>1, <5>2, <2>1 DEF OpInv
      <4> QED BY <3>2, <4>2, <4>3 DEF ComparesType
    <3> QED BY <1>7, <3>1, <3>2
  <2> QED BY <2>1, <2>3, <2>4, <1>3
<1>8. CASE Cleans(t)
  <2>1. /\ c.step = "clean" /\ UNCHANGED <<cells, backend_count>> /\ Filled'
        /\ live' = live \ {Cell(c.i)} /\ c.op \in {"register", "unregister"}
        /\ Keeps(t, c, IF c.op = "register" THEN "store" ELSE "shift", c.i)
    BY <1>1, <1>8 DEF Cleans, Filled, Registration
  <2>2. d.op = c.op /\ d.type = c.type /\ d.i = c.i
        /\ d.step = IF c.op = "register" THEN "store" ELSE "shift"
    BY <2>1, <1>6
  <2>3. c.i <= n /\ TypeOf[cells[c.i]] = c.type /\ Cell(c.i) = cells[c.i]
    BY <2>1, <1>0, <1>1 DEF OpInv, Cell
  <2>4. OpInv(t)'
    BY <2>1, <2>2, <2>3 DEF OpInv
  <2>5. DistinctFor(t)'
    BY <1>0, <1>1, <2>1 DEF DistinctFor
  <2> QED BY <2>1, <2>4, <2>5, <1>3
<1>9. CASE Stores(t)
  <2>1. /\ c.step = "store" /\ cells' = [cells EXCEPT ![c.i] = c.backend] /\ backend_count' = n
        /\ c.backend \in Backend /\ c.type = TypeOf[c.backend] /\ ~Registering(t)'
    BY <1>0, <1>5, <1>9 DEF Stores
  <2>2. c.i <= n /\ TypeOf[cells[c.i]] = c.type
    BY <2>1, <1>1 DEF OpInv
  <2>3. /\ \A k \in 1..n : cells'[k] \in Backend /\ TypeOf[cells'[k]] = TypeOf[cells[k]]
    BY <2>1, <2>2, <1>0, <1>1
  <2>4. Filled'
    BY <2>1, <2>3, <1>1 DEF Filled
  <2>5. DistinctFor(t)'
    BY <1>0, <1>1, <2>1, <2>3 DEF DistinctFor
  <2> QED BY <2>1, <2>4, <2>5, <1>3
<1>10. CASE Appends(t)
  <2>1. /\ c.step = "append" /\ n < MAX_STORAGE_BACKENDS /\ backend_count' = n /\ c.op = "register"
        /\ cells' = [cells EXCEPT ![n + 1] = c.backend] /\ Keeps(t, c, "count", n + 1)
    BY <1>10 DEF Appends
  <2>2. d.op = c.op /\ d.type = c.type /\ d.step = "count" /\ d.i = n + 1 /\ d.backend = c.backend
    BY <2>1, <1>6
  <2>3. /\ \A k \in 1..n : cells'[k] = cells[k]
        /\ cells'[n + 1] = c.backend
    BY <2>1, <1>0
  <2>4. Filled'
    BY <2>1, <2>3, <1>1 DEF Filled
  <2>5. \A k \in 1..n : TypeOf[cells[k]] # c.type
    BY <2>1, <1>1 DEF OpInv
  <2>6. OpInv(t)'
    BY <2>1, <2>2, <2>3, <2>5, <1>0 DEF OpInv
  <2>7. DistinctFor(t)'
    BY <1>0, <1>1, <2>1, <2>3 DEF DistinctFor
  <2> QED BY <2>4, <2>6, <2>7, <1>3
<1>11. CASE CountsUp(t)
  <2>1. /\ c.step = "count" /\ UNCHANGED cells /\ ~Registering(t)'
        /\ backend_count' \in {c.i, n + 1} /\ c.backend \in Backend /\ c.type = TypeOf[c.backend]
    BY <1>0, <1>5, <1>11 DEF CountsUp
  <2>2. /\ c.i = n + 1 /\ c.i <= MAX_STORAGE_BACKENDS /\ cells[c.i] = c.backend
        /\ \A k \in 1..n : TypeOf[cells[k]] # c.type
    BY <2>1, <1>1 DEF OpInv
  <2>3. backend_count' = n + 1 /\ \A k \in 1..(n + 1) : k \in 1..n \/ k = n + 1
    BY <2>1, <2>2, <1>0
  <2>4. Filled'
    BY <2>1, <2>2, <2>3, <1>0, <1>1 DEF Filled
  <2>5. DistinctFor(t)'
    <3>1. SUFFICES ASSUME NEW j \in 1..(n + 1), NEW k \in 1..(n + 1),
                          TypeOf[cells[j]] = TypeOf[cells[k]]
                   PROVE  j = k
      BY <2>1, <2>3 DEF DistinctFor
    <3>2. \A x \in 1..n : ~Hole(t, x)
      BY <1>0, <1>1, <2>1
    <3>3. CASE j \in 1..n /\ k \in 1..n
      BY <3>1, <3>2, <3>3, <1>1
    <3>4. CASE j = n + 1 \/ k = n + 1
      <4>1. TypeOf[cells[n + 1]] = c.type
        BY <2>1, <2>2
      <4> QED BY <4>1, <3>1, <3>4, <2>2, <2>3
    <3> QED BY <3>3, <3>4, <2>3
  <2> QED BY <2>1, <2>4, <2>5, <1>3
<1>12. CASE Shifts(t)
  <2>0. c.step = "shift" /\ c.i <= n /\ backend_count' = n /\ live' = live
    BY <1>12, <1>1 DEF OpInv, Shifts
  <2>1. CASE /\ c.i < n
             /\ cells' = [cells EXCEPT ![c.i] = cells[c.i + 1]] /\ Keeps(t, c, "shift", c.i + 1)
    <3>1. d.op = c.op /\ d.type = c.type /\ d.step = "shift" /\ d.i = c.i + 1 /\ Registering(t)'
      BY <2>1, <1>6
    <3>2. /\ cells'[c.i] = cells[c.i + 1] /\ c.i + 1 \in 1..n /\ c.i \in 1..n
          /\ \A k \in 1..n : k # c.i => cells'[k] = cells[k]
      BY <2>1, <1>0, <1>1
    <3>3. Filled'
      BY <2>0, <3>2, <1>1 DEF Filled
    <3>4. OpInv(t)'
      BY <2>0, <3>1, <3>2, <1>0 DEF OpInv
    <3>5. ASSUME NEW j \in 1..n, NEW k \in 1..n, j # c.i + 1, k # c.i + 1,
                 TypeOf[cells'[j]] = TypeOf[cells'[k]]
          PROVE  j = k
      <4>1. \A x, y \in 1..n : x # c.i /\ y # c.i /\ TypeOf[cells[x]] = TypeOf[cells[y]] => x = y
        BY <1>1, <2>0
      <4> DEFINE old(x) == IF x = c.i THEN c.i + 1 ELSE x
      <4>2. c.i \in Nat
        BY <1>0
      <4>3. \A x \in 1..n : x # c.i + 1 =>
               old(x) \in 1..n /\ old(x) # c.i /\ cells'[x] = cells[old(x)]
        BY <3>2, <4>2
      <4>4. old(j) = old(k)
        <5> HIDE DEF old
        <5> QED BY <4>1, <4>3, <3>5
      <4> QED BY <4>4, <4>2, <3>5
    <3>6. DistinctFor(t)'
      <4>1. \A k \in 1..n : ~Hole(t, k)' => k # c.i + 1
        BY <1>0, <1>4, <3>1
      <4> QED BY <4>1, <2>0, <3>5 DEF DistinctFor
    <3> QED BY <3>3, <3>4, <3>6, <1>3
  <2>2. CASE c.i >= n /\ Keeps(t, c, "drop", n) /\ UNCHANGED cells
    <3>1. /\ d.op = c.op /\ d.type = c.type /\ d.step = "drop" /\ d.i = n /\ Registering(t)'
          /\ c.i = n /\ n > 0
      BY <2>0, <2>2, <1>0, <1>6
    <3>2. Filled'
      BY <2>0, <2>2, <1>1 DEF Filled
    <3>3. OpInv(t)'
      BY <2>0, <3>1 DEF OpInv
    <3>4. DistinctFor(t)'
      BY <1>0, <1>1, <1>4, <2>0, <2>2, <3>1 DEF DistinctFor
    <3> QED BY <3>2, <3>3, <3>4, <1>3
  <2> QED BY <1>12, <2>1, <2>2 DEF Shifts
<1>13. CASE Drops(t)
  <2>1. /\ c.step = "drop" /\ UNCHANGED <<cells, live>> /\ c.i = n /\ n > 0
        /\ backend_count' \in {c.i - 1, n - 1} /\ Keeps(t, c, "null", c.i)
    BY <1>13, <1>1 DEF Drops, OpInv
  <2>2. d.op = c.op /\ d.type = c.type /\ d.step = "null" /\ d.i = n /\ c.op = "unregister"
    BY <2>1, <1>6, <1>13 DEF Drops
  <2>3. backend_count' = n - 1 /\ \A k \in 1..(n - 1) : k \in 1..n /\ k # n
    BY <2>1, <1>0
  <2>4. Filled'
    BY <2>1, <2>3, <1>0, <1>1 DEF Filled
  <2>5. OpInv(t)'
    BY <2>2, <2>3, <1>0, <1>1 DEF OpInv
  <2>6. DistinctFor(t)'
    BY <1>0, <1>1, <2>1, <2>3 DEF DistinctFor
  <2> QED BY <2>4, <2>5, <2>6, <1>3
<1>14. CASE Clears(t)
  <2>1. /\ c.step = "null" /\ UNCHANGED backend_count /\ ~Registering(t)'
        /\ \E i \in {c.i, n + 1} \cap Slot : cells' = [cells EXCEPT ![i] = Nobody]
    BY <1>5, <1>14 DEF Clears
  <2>2. c.i = n + 1
    BY <2>1, <1>1 DEF OpInv
  <2>3. \A k \in 1..n : cells'[k] = cells[k]
    BY <2>1, <2>2, <1>0
  <2>4. Filled'
    BY <2>1, <2>3, <1>1 DEF Filled
  <2>5. DistinctFor(t)'
    BY <1>0, <1>1, <2>1, <2>3 DEF DistinctFor
  <2> QED BY <2>1, <2>4, <2>5, <1>3
<1> QED
  BY <1>7, <1>8, <1>9, <1>10, <1>11, <1>12, <1>13, <1>14 DEF RegistrationStep

\* A registration that begins while none overlaps is the only one.
LEMMA BeginsAlone ==
    ASSUME NEW t \in Thread, BeginsRegistration(t), Overlapping' \subseteq overlap',
           "registry" \notin overlap'
    PROVE  Alone(t) /\ Alone(t)'
<1>1. \A u \in Thread : u # t => call'[u] = call[u]
  BY DEF BeginsRegistration, Others
<1>2. Registering(t)' /\ "registry" \notin Overlapping'
  BY DEF BeginsRegistration, Registering
<1>3. \A u \in Thread : Registering(u)' => u = t
  BY <1>2 DEF Overlapping
<1>4. \A u \in Thread : Registering(u) => u = t
  BY <1>1, <1>3 DEF Registering
<1> QED BY <1>3, <1>4 DEF Alone

LEMMA BeginsOrder ==
    ASSUME CallInv, RegistryType, Order, NEW t \in Thread, BeginsRegistration(t), Alone(t), Alone(t)'
    PROVE  Order'
<1>1. /\ call[t] = NoCall /\ UNCHANGED <<cells, backend_count, live>> /\ ~Registering(t)
      /\ call'[t].op \in Registration /\ call'[t].step = "loop" /\ call'[t].i = 1
      /\ call'[t].op = "register" => backend_count < MAX_STORAGE_BACKENDS
  BY NoCallFields DEF BeginsRegistration, Quiet, Registering, Registration
<1>2. Filled' /\ OpInv(t)'
  BY <1>1 DEF Order, Filled, OpInv
<1>3. \A k : ~Hole(t, k) /\ ~Hole(t, k)'
  BY <1>1 DEF Hole
<1>4. DistinctFor(t)
  BY HoleAlone DEF Order
<1>5. DistinctFor(t)'
  BY <1>1, <1>3, <1>4 DEF DistinctFor
<1> QED BY <1>2, <1>5, HoleAloneNext

\* What the other steps of a thread leave alone
LEMMA SelectionQuiet ==
    ASSUME CallInv, NEW t \in Thread,
           BeginsWalk(t) \/ StillWalks(t) \/ Calls(t) \/ Counts(t) \/ Aborts(t)
    PROVE  /\ Quiet /\ hit' \subseteq hit
           /\ \A u \in Thread : Registering(u) \/ Registering(u)' => call'[u] = call[u]
           /\ \A u \in Thread \ {t} : call'[u] = call[u]
<1> USE NoCallFields DEF Keeps, Leaves, Fields, Others, Registering, Selection, Registration
<1>1. CASE BeginsWalk(t)
  BY <1>1 DEF BeginsWalk
<1>2. CASE LooksForCell(t) \/ ReadsCell(t)
  BY <1>2 DEF LooksForCell, ReadsCell
<1>3. CASE ChecksHealth(t) \/ TakesCell(t)
  BY <1>3 DEF ChecksHealth, TakesCell
<1>4. CASE Calls(t) \/ Counts(t) \/ Aborts(t)
  BY <1>4 DEF Calls, Counts, Aborts
<1> QED BY <1>1, <1>2, <1>3, <1>4 DEF StillWalks

LEMMA OrderThread ==
    ASSUME CallInv, RegistryType, HistoryInv, OrderInv, NEW t \in Thread, ThreadStep(t), Observe
    PROVE  OrderInv'
<1>1. SUFFICES ASSUME "registry" \notin overlap'
               PROVE  Order'
  BY DEF OrderInv
<1>2. "registry" \notin overlap /\ Overlapping' \subseteq overlap'
  BY <1>1, ObservedOverlap
<1>3. Order
  BY <1>2 DEF OrderInv
<1>4. CASE BeginsRegistration(t)
  BY <1>1, <1>2, <1>3, <1>4, BeginsAlone, BeginsOrder
<1>5. CASE RegistrationStep(t)
  <2>1. Registering(t)
    BY <1>5 DEF RegistrationStep, LooksForType, ComparesType, Cleans, Stores, Appends, CountsUp,
                Shifts, Drops, Clears, Registering, Registration
  <2>2. Alone(t)
    BY <1>2, <2>1, HistoryFacts DEF Alone
  <2> QED BY <1>3, <1>5, <2>2, RegistrationOrder
<1>6. CASE BeginsWalk(t) \/ StillWalks(t) \/ Calls(t) \/ Counts(t) \/ Aborts(t)
  BY <1>3, <1>6, SelectionQuiet, OrderQuiet DEF Quiet
<1> QED BY <1>4, <1>5, <1>6, ThreadSteps

LEMMA OrderStep ==
    ASSUME CallInv, RegistryType, HistoryInv, OrderInv, [Next]_vars
    PROVE  OrderInv'
<1>1. ASSUME WorldStep, Observe
      PROVE  OrderInv'
  <2>1. UNCHANGED <<cells, backend_count, live, call>>
    BY <1>1, WorldSteps DEF Surroundings
  <2>2. overlap \subseteq overlap'
    BY <1>1, ObservedOverlap
  <2>3. Order => Order'
    BY <2>1, OrderQuiet
  <2> QED BY <2>2, <2>3 DEF OrderInv
<1>2. ASSUME Reinitialise
      PROVE  OrderInv'
  <2>1. /\ backend_count' = 0 /\ \A u \in Thread : call[u] = NoCall
        /\ call' = call
    BY <1>2 DEF Reinitialise
  <2>2. \A u \in Thread : ~Registering(u)'
    BY <2>1, NoCallFields DEF Registering, Registration
  <2> QED BY <2>1, <2>2 DEF OrderInv, Order, Filled, Distinct
<1>3. CASE UNCHANGED vars
  <2>1. UNCHANGED <<cells, backend_count, live, call, overlap>>
    BY <1>3 DEF vars, registry, life, history
  <2>2. Order => Order'
    BY <2>1, OrderQuiet
  <2> QED BY <2>1, <2>2 DEF OrderInv
<1> QED BY <1>1, <1>2, <1>3, OrderThread DEF Next

-----------------------------------------------------------------------------
(* The backends in the registry, while none has been registered twice either *)

\* The cell a registration is about to overwrite or to drop
Replaced(u, k) ==
    Registering(u) /\ call[u].step \in {"store", "shift", "drop"} /\ call[u].i = k

\* The backend a registration brings is initialised and not yet among the others.
Fresh(t) ==
    call[t].op = "register" =>
        /\ call[t].backend \in live
        /\ \A k \in 1..backend_count : cells[k] # call[t].backend

Lively ==
    /\ \A k \in 1..backend_count : cells[k] \in live \/ \E u \in Thread : Replaced(u, k)
    /\ \A t \in Thread : Fresh(t)

LiveInv == overlap \cap {"registry", "twice"} = {} => Lively

LEMMA LivelyQuiet ==
    ASSUME Lively, UNCHANGED <<cells, backend_count, live>>,
           \A u \in Thread : Registering(u) \/ Registering(u)' => call'[u] = call[u]
    PROVE  Lively'
<1>1. \A u \in Thread : \A k : Replaced(u, k) => Replaced(u, k)'
  BY DEF Replaced, Registering
<1>2. \A u \in Thread : Fresh(u)'
  BY DEF Lively, Fresh, Registering, Registration
<1>3. \A k \in 1..backend_count : cells[k] \in live \/ \E u \in Thread : Replaced(u, k)'
  BY <1>1 DEF Lively
<1> QED BY <1>2, <1>3 DEF Lively

LEMMA BeginsLively ==
    ASSUME CallInv, RegistryType, Order, Lively, NEW t \in Thread, BeginsRegistration(t),
           Overlapping' \subseteq overlap', "twice" \notin overlap'
    PROVE  Lively'
<1> DEFINE d == call'[t]
<1>1. /\ call[t] = NoCall /\ UNCHANGED <<cells, backend_count, live>> /\ Others(t)
      /\ d.op \in Registration /\ d.step = "loop" /\ d.i = 1
      /\ d.op = "register" => d.backend \in live
  BY DEF BeginsRegistration, Quiet
<1>2. d.op = "register" => d.backend \notin Registered'
  BY <1>1 DEF Overlapping
<1>3. \A k \in 1..backend_count : k \in Slot /\ cells[k] \in Backend
  BY DEF Order, Filled, Slot, RegistryType
<1>4. \A k \in 1..backend_count : cells[k] \in Registered'
  BY <1>1, <1>3 DEF Registered
<1>5. Fresh(t)'
  BY <1>1, <1>2, <1>4 DEF Fresh
<1>6. \A u \in Thread \ {t} : Fresh(u)'
  BY <1>1 DEF Others, Fresh, Lively
<1>7. \A u \in Thread : \A k : Replaced(u, k) => Replaced(u, k)'
  BY <1>1, NoCallFields DEF Replaced, Registering, Registration, Others
<1>8. \A k \in 1..backend_count : cells[k] \in live \/ \E u \in Thread : Replaced(u, k)'
  BY <1>7 DEF Lively
<1> QED BY <1>1, <1>5, <1>6, <1>8 DEF Lively

LEMMA RegistrationLively ==
    ASSUME CallInv, RegistryType, Order, Lively, NEW t \in Thread, Alone(t), RegistrationStep(t)
    PROVE  Lively'
<1> DEFINE c == call[t]
           d == call'[t]
           n == backend_count
           Gone == c.step \in {"store", "shift", "drop"}
           GoneNext == Registering(t)' /\ d.step \in {"store", "shift", "drop"}
<1>0. /\ c.i \in Nat \ {0} /\ c.backend \in Backend \cup {Nobody} /\ n \in Nat
      /\ MAX_STORAGE_BACKENDS \in Nat
      /\ cells \in [Slot -> Backend \cup {Nobody}] /\ Slot = 1..MAX_STORAGE_BACKENDS
  BY DEF CallInv, CallRecord, RegistryType, Slot
<1>1. /\ Registering(t) /\ Others(t)
  BY DEF RegistrationStep, LooksForType, ComparesType, Cleans, Stores, Appends, CountsUp,
         Shifts, Drops, Clears, Registering, Registration, Keeps, Leaves
<1>2. /\ OpInv(t) /\ DistinctFor(t) /\ n <= MAX_STORAGE_BACKENDS
      /\ \A k \in 1..n : cells[k] \in Backend
      /\ c.op = "register" => c.backend \in live /\ \A k \in 1..n : cells[k] # c.backend
  BY <1>1, HoleAlone DEF Order, Filled, Lively, Fresh
<1>3. \A k \in 1..n : cells[k] \in live \/ (Gone /\ c.i = k)
  BY DEF Lively, Replaced, Alone
<1>4. ASSUME \A k \in 1..backend_count' : cells'[k] \in live' \/ (GoneNext /\ d.i = k),
             Registering(t)' /\ d.op = "register" =>
                d.backend \in live' /\ \A k \in 1..backend_count' : cells'[k] # d.backend
      PROVE  Lively'
  <2>1. \A k : GoneNext /\ d.i = k => Replaced(t, k)'
    BY DEF Replaced
  <2>2. Fresh(t)'
    BY <1>4 DEF Fresh, Registering, Registration
  <2>3. ASSUME NEW u \in Thread \ {t}
        PROVE  Fresh(u)'
    <3>1. ~Registering(u) /\ call'[u] = call[u]
      BY <1>1, <2>3 DEF Alone, Others
    <3> QED BY <3>1 DEF Fresh, Registering, Registration
  <2>4. \A k \in 1..backend_count' : cells'[k] \in live' \/ \E u \in Thread : Replaced(u, k)'
    BY <1>4, <2>1
  <2> QED BY <2>2, <2>3, <2>4 DEF Lively
<1>5. Leaves(t) => ~Registering(t)'
  BY NoCallFields DEF Leaves, Registering, Registration
<1>6. \A s, i : Keeps(t, c, s, i) => /\ d.op = c.op /\ d.step = s /\ d.i = i
                                     /\ d.backend = c.backend /\ Registering(t)'
  BY <1>1 DEF Keeps, Fields, Registering
<1> HIDE DEF c, d, n
<1>7. CASE LooksForType(t) \/ ComparesType(t)
  <2>1. /\ cells' = cells /\ backend_count' = n /\ live' = live /\ ~Gone
        /\ Registering(t)' => d.op = c.op /\ d.backend = c.backend
    BY <1>5, <1>6, <1>7 DEF LooksForType, ComparesType, Quiet, c, n
  <2> QED BY <2>1, <1>2, <1>3, <1>4
<1>8. CASE Cleans(t)
  <2>1. /\ c.step = "clean" /\ cells' = cells /\ backend_count' = n /\ live' = live \ {Cell(c.i)}
        /\ Keeps(t, c, IF c.op = "register" THEN "store" ELSE "shift", c.i)
    BY <1>8 DEF Cleans, c, n
  <2>2. /\ d.op = c.op /\ d.i = c.i /\ d.backend = c.backend /\ GoneNext
    BY <2>1, <1>6
  <2>3. c.i \in 1..n /\ Cell(c.i) = cells[c.i]
    BY <2>1, <1>0, <1>2 DEF OpInv, Cell, c, n
  <2>4. \A k \in 1..n : ~Hole(t, k)
    BY <2>1 DEF Hole, c
  <2>5. \A k \in 1..n : k # c.i => cells[k] # cells[c.i]
    BY <1>2, <2>3, <2>4 DEF DistinctFor, n
  <2>6. \A k \in 1..n : cells[k] \in live' \/ (GoneNext /\ d.i = k)
    BY <2>1, <2>2, <2>3, <2>5, <1>3
  <2>7. c.op = "register" => c.backend \in live' /\ \A k \in 1..n : cells[k] # c.backend
    BY <2>1, <2>3, <1>2
  <2> QED BY <2>1, <2>2, <2>6, <2>7, <1>4
<1>9. CASE Stores(t)
  <2>1. /\ c.step = "store" /\ cells' = [cells EXCEPT ![c.i] = c.backend] /\ backend_count' = n
        /\ live' = live /\ ~Registering(t)' /\ c.op = "register"
    BY <1>5, <1>9 DEF Stores, c, n
  <2>2. \A k \in 1..n : cells'[k] \in live
    BY <2>1, <1>0, <1>2, <1>3
  <2> QED BY <2>1, <2>2, <1>4
<1>10. CASE Appends(t)
  <2>1. /\ c.step = "append" /\ n < MAX_STORAGE_BACKENDS /\ backend_count' = n /\ live' = live
        /\ cells' = [cells EXCEPT ![n + 1] = c.backend] /\ Keeps(t, c, "count", n + 1)
    BY <1>10 DEF Appends, c, n
  <2>2. \A k \in 1..n : cells'[k] = cells[k]
    BY <2>1, <1>0
  <2>3. d.op = c.op /\ d.backend = c.backend
    BY <2>1, <1>6
  <2> QED BY <2>1, <2>2, <2>3, <1>2, <1>3, <1>4
<1>11. CASE CountsUp(t)
  <2>1. /\ c.step = "count" /\ cells' = cells /\ ~Registering(t)' /\ live' = live
        /\ backend_count' \in {c.i, n + 1} /\ c.op = "register"
    BY <1>5, <1>11 DEF CountsUp, c, n
  <2>2. c.i = n + 1 /\ cells[c.i] = c.backend
    BY <2>1, <1>2 DEF OpInv, c, n
  <2>3. backend_count' = n + 1 /\ \A k \in 1..(n + 1) : k \in 1..n \/ k = n + 1
    BY <2>1, <2>2, <1>0
  <2>4. \A k \in 1..(n + 1) : cells[k] \in live
    BY <2>1, <2>2, <2>3, <1>2, <1>3
  <2> QED BY <2>1, <2>3, <2>4, <1>4
<1>12. CASE Shifts(t)
  <2>0. c.step = "shift" /\ c.i <= n /\ backend_count' = n /\ live' = live /\ c.op = "unregister"
    BY <1>12, <1>2 DEF OpInv, Shifts, c, n
  <2>1. CASE /\ c.i < n
             /\ cells' = [cells EXCEPT ![c.i] = cells[c.i + 1]] /\ Keeps(t, c, "shift", c.i + 1)
    <3>1. d.op = c.op /\ d.i = c.i + 1 /\ GoneNext
      BY <2>1, <1>6
    <3>2. /\ cells'[c.i] = cells[c.i + 1] /\ c.i + 1 \in 1..n /\ c.i \in 1..n
          /\ \A k \in 1..n : k # c.i => cells'[k] = cells[k]
      BY <2>1, <1>0, <1>2
    <3>3. cells[c.i + 1] \in live
      BY <3>2, <1>0, <1>3
    <3>4. \A k \in 1..n : cells'[k] \in live \/ (GoneNext /\ d.i = k)
      BY <3>1, <3>2, <3>3, <1>3
    <3> QED BY <2>0, <3>1, <3>4, <1>4
  <2>2. CASE c.i >= n /\ Keeps(t, c, "drop", n) /\ UNCHANGED cells
    <3>1. d.op = c.op /\ d.i = c.i /\ GoneNext
      BY <2>0, <2>2, <1>0, <1>6
    <3> QED BY <2>0, <2>2, <3>1, <1>3, <1>4
  <2> QED BY <1>12, <2>1, <2>2 DEF Shifts, c, n
<1>13. CASE Drops(t)
  <2>1. /\ c.step = "drop" /\ cells' = cells /\ live' = live /\ c.i = n /\ n > 0
        /\ backend_count' \in {c.i - 1, n - 1} /\ Keeps(t, c, "null", c.i)
        /\ c.op = "unregister"
    BY <1>13, <1>2 DEF Drops, OpInv, c, n
  <2>2. d.op = c.op
    BY <2>1, <1>6
  <2>3. backend_count' = n - 1 /\ \A k \in 1..(n - 1) : k \in 1..n /\ k # n
    BY <2>1, <1>0
  <2> QED BY <2>1, <2>2, <2>3, <1>3, <1>4
<1>14. CASE Clears(t)
  <2>1. /\ c.step = "null" /\ backend_count' = n /\ ~Registering(t)' /\ live' = live
        /\ \E i \in {c.i, n + 1} \cap Slot : cells' = [cells EXCEPT ![i] = Nobody]
    BY <1>5, <1>14 DEF Clears, c, n
  <2>2. c.i = n + 1
    BY <2>1, <1>2 DEF OpInv, c, n
  <2>3. \A k \in 1..n : cells'[k] = cells[k]
    BY <2>1, <2>2, <1>0
  <2> QED BY <2>1, <2>3, <1>3, <1>4
<1> QED
  BY <1>7, <1>8, <1>9, <1>10, <1>11, <1>12, <1>13, <1>14 DEF RegistrationStep

LEMMA LiveThread ==
    ASSUME CallInv, RegistryType, HistoryInv, OrderInv, LiveInv, NEW t \in Thread,
           ThreadStep(t), Observe
    PROVE  LiveInv'
<1>1. SUFFICES ASSUME overlap' \cap {"registry", "twice"} = {}
               PROVE  Lively'
  BY DEF LiveInv
<1>2. /\ overlap \cap {"registry", "twice"} = {} /\ "registry" \notin overlap
      /\ "twice" \notin overlap' /\ Overlapping' \subseteq overlap'
  BY <1>1, ObservedOverlap
<1>3. Order /\ Lively
  BY <1>2 DEF OrderInv, LiveInv
<1>4. CASE BeginsRegistration(t)
  BY <1>2, <1>3, <1>4, BeginsLively
<1>5. CASE RegistrationStep(t)
  <2>1. Registering(t)
    BY <1>5 DEF RegistrationStep, LooksForType, ComparesType, Cleans, Stores, Appends, CountsUp,
                Shifts, Drops, Clears, Registering, Registration
  <2>2. Alone(t)
    BY <1>2, <2>1, HistoryFacts DEF Alone
  <2> QED BY <1>3, <1>5, <2>2, RegistrationLively
<1>6. CASE BeginsWalk(t) \/ StillWalks(t) \/ Calls(t) \/ Counts(t) \/ Aborts(t)
  BY <1>3, <1>6, SelectionQuiet, LivelyQuiet DEF Quiet
<1> QED BY <1>4, <1>5, <1>6, ThreadSteps

LEMMA LiveStep ==
    ASSUME CallInv, RegistryType, HistoryInv, OrderInv, LiveInv, [Next]_vars
    PROVE  LiveInv'
<1>1. ASSUME WorldStep, Observe
      PROVE  LiveInv'
  <2>1. UNCHANGED <<cells, backend_count, live, call>>
    BY <1>1, WorldSteps DEF Surroundings
  <2>2. overlap \subseteq overlap'
    BY <1>1, ObservedOverlap
  <2>3. Lively => Lively'
    BY <2>1, LivelyQuiet
  <2> QED BY <2>2, <2>3 DEF LiveInv
<1>2. ASSUME Reinitialise
      PROVE  LiveInv'
  <2>1. /\ backend_count' = 0 /\ \A u \in Thread : call[u] = NoCall
        /\ call' = call
    BY <1>2 DEF Reinitialise
  <2>2. \A u \in Thread : Fresh(u)'
    BY <2>1, NoCallFields DEF Fresh
  <2> QED BY <2>1, <2>2 DEF LiveInv, Lively
<1>3. CASE UNCHANGED vars
  <2>1. UNCHANGED <<cells, backend_count, live, call, overlap>>
    BY <1>3 DEF vars, registry, life, history
  <2>2. Lively => Lively'
    BY <2>1, LivelyQuiet
  <2> QED BY <2>1, <2>2 DEF LiveInv
<1> QED BY <1>1, <1>2, <1>3, LiveThread DEF Next

-----------------------------------------------------------------------------
(* The walks, while no two registrations have overlapped *)

\* The backends S are all in cells the walk has not passed.
Ahead(t, S) == \A b \in S : \E k \in 1..backend_count : k >= call[t].i /\ cells[k] = b

WalkAt(t) ==
    LET c == call[t]
    IN  /\ c.step \in {"type", "health", "take"} /\ (steady[t] # {} \/ "walk" \notin overlap) =>
             c.i <= backend_count
        /\ c.step = "health" => c.backend = Cell(c.i) \/ Cell(c.i) \notin steady[t]
        /\ c.step = "health" /\ t \in hit => Cell(c.i) \notin steady[t]
        /\ c.phase = "any" => Ahead(t, steady[t])
        /\ c.phase = "primary" => Ahead(t, first[t])
        /\ c.phase # "primary" => first[t] = {}
        /\ c.phase = "primary" /\ c.step \in {"health", "take"} /\ first[t] # {} =>
             TypeOf[Cell(c.i)] = policy.primary

WalkInv == "registry" \notin overlap => \A t \in Thread : Walking(t) => WalkAt(t)

LEMMA CellFilled ==
    ASSUME RegistryType, Filled, NEW i \in Nat \ {0}, i <= backend_count
    PROVE  Cell(i) = cells[i] /\ Cell(i) \in Backend /\ i \in Slot /\ i \in 1..backend_count
BY DEF RegistryType, Filled, Cell, Slot

\* A walk over an array a removal has changed promises nothing.
LEMMA WalkGivenUp ==
    ASSUME NEW t \in Thread, steady'[t] = {}, first'[t] = {}, "walk" \in overlap'
    PROVE  WalkAt(t)'
BY DEF WalkAt, Ahead

\* A walk that stays where it is while the registry grows or a cell is replaced
LEMMA WalkStays ==
    ASSUME CallInv, RegistryType, RegistryType', NEW t \in Thread, WalkAt(t), call'[t] = call[t],
           steady'[t] \subseteq steady[t], first'[t] \subseteq first[t],
           first[t] \subseteq steady[t],
           overlap \subseteq overlap', backend_count <= backend_count',
           \A b \in steady'[t] : \A k \in 1..backend_count : cells[k] = b => cells'[k] = b,
           call[t].i <= backend_count =>
              \/ Cell(call[t].i)' = Cell(call[t].i)
              \/ /\ Cell(call[t].i)' \notin steady'[t]
                 /\ TypeOf[Cell(call[t].i)'] = TypeOf[Cell(call[t].i)],
           t \in hit' => t \in hit \/ Cell(call[t].i)' \notin steady'[t],
           first'[t] # {} => policy'.primary = policy.primary,
           first'[t] \subseteq steady'[t]
    PROVE  WalkAt(t)'
<1> DEFINE c == call[t]
           n == backend_count
           m == backend_count'
           old == Cell(c.i)
           new == Cell(c.i)'
<1>0. c.i \in Nat \ {0} /\ n \in Nat /\ m \in Nat /\ call'[t] = c /\ n <= m
  BY DEF CallInv, CallRecord, RegistryType
<1>1. c.step \in {"type", "health", "take"} /\ (steady'[t] # {} \/ "walk" \notin overlap') => c.i <= n
  BY DEF WalkAt
<1>2. ASSUME c.step = "health"
      PROVE  /\ c.backend = new \/ new \notin steady'[t]
             /\ t \in hit' => new \notin steady'[t]
  <2>1. CASE steady'[t] = {}
    BY <2>1
  <2>2. CASE steady'[t] # {}
    <3>1. c.i <= n
      BY <1>1, <1>2, <2>2
    <3>2. new = old \/ new \notin steady'[t]
      BY <3>1
    <3> QED BY <3>2, <1>2 DEF WalkAt
  <2> QED BY <2>1, <2>2
<1>3. ASSUME NEW b \in steady'[t], \E k \in 1..n : k >= c.i /\ cells[k] = b
      PROVE  \E k \in 1..m : k >= c.i /\ cells'[k] = b
  <2>1. PICK k \in 1..n : k >= c.i /\ cells[k] = b
    BY <1>3
  <2>2. cells'[k] = b /\ k \in 1..m
    BY <1>0, <2>1
  <2> QED BY <2>1, <2>2
<1>4. ASSUME c.phase = "any"
      PROVE  \A b \in steady'[t] : \E k \in 1..m : k >= c.i /\ cells'[k] = b
  <2>1. \A b \in steady[t] : \E k \in 1..n : k >= c.i /\ cells[k] = b
    BY <1>4 DEF WalkAt, Ahead
  <2> QED BY <2>1, <1>3
<1>5. ASSUME c.phase = "primary"
      PROVE  \A b \in first'[t] : \E k \in 1..m : k >= c.i /\ cells'[k] = b
  <2>1. \A b \in first[t] : \E k \in 1..n : k >= c.i /\ cells[k] = b
    BY <1>5 DEF WalkAt, Ahead
  <2> QED BY <2>1, <1>3
<1>6. c.phase # "primary" => first'[t] = {}
  BY DEF WalkAt
<1>7. ASSUME c.phase = "primary", c.step \in {"health", "take"}, first'[t] # {}
      PROVE  TypeOf[new] = policy'.primary
  <2>1. c.i <= n /\ first[t] # {} /\ policy'.primary = policy.primary
    BY <1>1, <1>7
  <2>2. TypeOf[old] = policy.primary
    BY <1>7, <2>1 DEF WalkAt
  <2> QED BY <2>1, <2>2
<1>8. c.step \in {"type", "health", "take"} /\ (steady'[t] # {} \/ "walk" \notin overlap') => c.i <= m
  BY <1>0, <1>1
<1> HIDE DEF new
<1> QED BY <1>0, <1>2, <1>4, <1>5, <1>6, <1>7, <1>8 DEF WalkAt, Ahead, new

LEMMA SteadyFacts ==
    ASSUME RegistryType, HistoryInv, NEW t \in Thread
    PROVE  \A b \in steady[t] : /\ b \in Backend /\ health_check(b)
                                /\ \E k \in 1..backend_count : cells[k] = b
<1>1. \A b \in steady[t] : b \in Registered /\ health_check(b)
  BY HistoryFacts
<1>2. \A b \in Registered : b \in Backend /\ \E k \in 1..backend_count : cells[k] = b
  BY DEF Registered, Slot, RegistryType
<1> QED BY <1>1, <1>2

LEMMA SteadyFactsNext ==
    ASSUME RegistryType', HistoryInv', NEW t \in Thread
    PROVE  \A b \in steady'[t] : /\ b \in Backend /\ health_check(b)'
                                 /\ \E k \in 1..backend_count' : cells'[k] = b
<1>1. \A b \in steady'[t] : b \in Usable'
  BY DEF HistoryInv
<1>2. \A b \in Usable' : b \in Registered' /\ health_check(b)'
  BY DEF Usable, health_check
<1>3. \A b \in Registered' : b \in Backend /\ \E k \in 1..backend_count' : cells'[k] = b
  BY DEF Registered, Slot, RegistryType
<1> QED BY <1>1, <1>2, <1>3

LEMMA WalkBegins ==
    ASSUME RegistryType', HistoryInv', NEW t \in Thread, BeginsWalk(t)
    PROVE  WalkAt(t)'
<1>1. call'[t].step = "loop" /\ call'[t].i = 1 /\ call'[t].phase = "primary"
  BY DEF BeginsWalk
<1>2. \A b \in first'[t] : \E k \in 1..backend_count' : cells'[k] = b
  BY SteadyFactsNext DEF HistoryInv
<1>3. Ahead(t, first[t])'
  BY <1>1, <1>2 DEF Ahead, RegistryType
<1> QED BY <1>1, <1>3 DEF WalkAt

\* A walk that moves: it passes a cell only if no backend it may use is there.
LEMMA WalkMoves ==
    ASSUME CallInv, RegistryType, HistoryInv, HitInv, Order, NEW t \in Thread,
           WalkAt(t), StillWalks(t), Observe, Walking(t), Walking(t)'
    PROVE  WalkAt(t)'
<1> DEFINE c == call[t]
           d == call'[t]
           n == backend_count
           S == steady'[t]
           F == first'[t]
<1>0. /\ c.i \in Nat \ {0} /\ n \in Nat /\ Filled /\ c.phase \in {"primary", "fallback", "any"}
  BY SelectionShape DEF Walking, RegistryType, Order
<1>1. /\ S \subseteq steady[t] /\ F \subseteq first[t] /\ F \subseteq S
      /\ first[t] \subseteq steady[t] /\ overlap \subseteq overlap'
  BY ObservedWalk, ObservedOverlap DEF HistoryInv
<1>2. UNCHANGED <<cells, backend_count, live, healthy, policy>>
  BY SelectionQuiet DEF Quiet
<1>3. \A b \in steady[t] : b \in Backend /\ health_check(b) /\ \E k \in 1..n : cells[k] = b
  BY SteadyFacts
<1>4. backend_count' = n /\ cells' = cells /\ policy' = policy
  BY <1>2
<1>5. \A k \in 1..n : Cell(k) = cells[k]
  BY <1>0, CellFilled
<1>6. /\ c.step \in {"type", "health", "take"} /\ (S # {} \/ "walk" \notin overlap') => c.i <= n
      /\ c.phase = "any" => \A b \in S : \E k \in 1..n : k >= c.i /\ cells[k] = b
      /\ c.phase = "primary" => \A b \in F : \E k \in 1..n : k >= c.i /\ cells[k] = b
      /\ c.phase # "primary" => F = {}
  BY <1>1 DEF WalkAt, Ahead
<1>7. ASSUME d.step \in {"type", "health", "take"} /\ (S # {} \/ "walk" \notin overlap') => d.i <= n,
             d.step = "health" => d.backend = Cell(d.i) \/ Cell(d.i) \notin S,
             d.step = "health" /\ t \in hit' => Cell(d.i) \notin S,
             d.phase = "any" => \A b \in S : \E k \in 1..n : k >= d.i /\ cells[k] = b,
             d.phase = "primary" => \A b \in F : \E k \in 1..n : k >= d.i /\ cells[k] = b,
             d.phase # "primary" => F = {},
             d.phase = "primary" /\ d.step \in {"health", "take"} /\ F # {} =>
                TypeOf[Cell(d.i)] = policy.primary
      PROVE  WalkAt(t)'
  BY <1>4, <1>7 DEF WalkAt, Ahead, Cell
<1> HIDE DEF c, d, n, S, F
\* Going on to the next cell
<1>8. ASSUME d.step = "loop", d.i = c.i + 1, d.phase = c.phase,
             c.phase = "any" => Cell(c.i) \notin S,
             c.phase = "primary" => Cell(c.i) \notin F
      PROVE  WalkAt(t)'
  <2>1. ASSUME NEW b, Cell(c.i) # b, \E k \in 1..n : k >= c.i /\ cells[k] = b
        PROVE  \E k \in 1..n : k >= d.i /\ cells[k] = b
    <3>1. PICK k \in 1..n : k >= c.i /\ cells[k] = b
      BY <2>1
    <3>2. k # c.i
      BY <2>1, <3>1, <1>5
    <3>3. k >= d.i
      BY <3>1, <3>2, <1>0, <1>8
    <3> QED BY <3>1, <3>3
  <2>2. d.phase = "any" => \A b \in S : \E k \in 1..n : k >= d.i /\ cells[k] = b
    BY <2>1, <1>6, <1>8
  <2>3. d.phase = "primary" => \A b \in F : \E k \in 1..n : k >= d.i /\ cells[k] = b
    BY <2>1, <1>6, <1>8
  <2> QED BY <2>2, <2>3, <1>6, <1>7, <1>8
<1>9. CASE LooksForCell(t)
  <2>1. /\ c.step = "loop"
        /\ \/ c.i <= n /\ Keeps(t, c, "type", c.i)
           \/ /\ c.i > n /\ c.phase # "any"
              /\ \E p \in {"fallback", "any"} : Fields(d, c, "loop", p, 1, c.backend)
           \/ c.i > n /\ Leaves(t)
    BY <1>9 DEF LooksForCell, c, d, n
  <2>2. CASE c.i <= n /\ Keeps(t, c, "type", c.i)
    <3>1. d.step = "type" /\ d.i = c.i /\ d.phase = c.phase
      BY <2>2 DEF Keeps, Fields, d
    <3> QED BY <2>2, <3>1, <1>6, <1>7
  <2>3. CASE /\ c.i > n /\ c.phase # "any"
             /\ \E p \in {"fallback", "any"} : Fields(d, c, "loop", p, 1, c.backend)
    <3>1. d.step = "loop" /\ d.i = 1 /\ d.phase \in {"fallback", "any"}
      BY <2>3 DEF Fields
    <3>2. F = {}
      BY <2>3, <1>0, <1>6
    <3>3. \A b \in S : \E k \in 1..n : k >= d.i /\ cells[k] = b
      BY <3>1, <1>0, <1>1, <1>3
    <3> QED BY <3>1, <3>2, <3>3, <1>7
  <2>4. CASE Leaves(t)
    <3>1. ~Walking(t)'
      BY <2>4, NoCallFields DEF Leaves, Walking, Selection
    <3> QED BY <3>1
  <2> QED BY <2>1, <2>2, <2>3, <2>4
<1>10. CASE ReadsCell(t)
  <2>1. /\ c.step = "type" /\ hit' = hit /\ Cell(c.i) \in Backend
        /\ \/ Wanted(c.phase, Cell(c.i)) /\ Fields(d, c, "health", c.phase, c.i, Cell(c.i))
           \/ ~Wanted(c.phase, Cell(c.i)) /\ Keeps(t, c, "loop", c.i + 1)
    BY <1>10 DEF ReadsCell, c, d
  <2>2. CASE Wanted(c.phase, Cell(c.i)) /\ Fields(d, c, "health", c.phase, c.i, Cell(c.i))
    <3>1. d.step = "health" /\ d.i = c.i /\ d.phase = c.phase /\ d.backend = Cell(c.i)
      BY <2>2 DEF Fields
    <3>2. t \notin hit'
      BY <2>1 DEF HitInv, c
    <3>3. c.phase = "primary" => TypeOf[Cell(c.i)] = policy.primary
      BY <2>2 DEF Wanted
    <3> QED BY <2>1, <3>1, <3>2, <3>3, <1>6, <1>7
  <2>3. CASE ~Wanted(c.phase, Cell(c.i)) /\ Keeps(t, c, "loop", c.i + 1)
    <3>1. d.step = "loop" /\ d.i = c.i + 1 /\ d.phase = c.phase
      BY <2>3 DEF Keeps, Fields, d
    <3>2. c.phase # "any" /\ (c.phase = "primary" => TypeOf[Cell(c.i)] # policy.primary)
      BY <2>3 DEF Wanted
    <3>3. \A b \in F : TypeOf[b] = policy.primary
      BY <1>1 DEF HistoryInv
    <3> QED BY <3>1, <3>2, <3>3, <1>8
  <2> QED BY <2>1, <2>2, <2>3
<1>11. CASE ChecksHealth(t)
  <2>1. /\ c.step = "health"
        /\ \/ Keeps(t, c, "take", c.i)
           \/ /\ Keeps(t, c, "loop", c.i + 1)
              /\ \/ t \in hit \/ ~health_check(c.backend)
                 \/ Cell(c.i) # Nobody /\ ~health_check(Cell(c.i))
    BY <1>11 DEF ChecksHealth, c
  <2>2. CASE Keeps(t, c, "take", c.i)
    <3>1. d.step = "take" /\ d.i = c.i /\ d.phase = c.phase
      BY <2>2 DEF Keeps, Fields, d
    <3>2. c.phase = "primary" /\ F # {} => TypeOf[Cell(c.i)] = policy.primary
      BY <2>1, <1>1 DEF WalkAt, c
    <3> QED BY <2>1, <3>1, <3>2, <1>6, <1>7
  <2>3. CASE /\ Keeps(t, c, "loop", c.i + 1)
             /\ \/ t \in hit \/ ~health_check(c.backend)
                \/ Cell(c.i) # Nobody /\ ~health_check(Cell(c.i))
    <3>1. d.step = "loop" /\ d.i = c.i + 1 /\ d.phase = c.phase
      BY <2>3 DEF Keeps, Fields, d
    <3>2. /\ c.backend = Cell(c.i) \/ Cell(c.i) \notin steady[t]
          /\ t \in hit => Cell(c.i) \notin steady[t]
      BY <2>1 DEF WalkAt, c
    <3>3. Cell(c.i) \notin steady[t]
      BY <2>3, <3>2, <1>3
    <3> QED BY <3>1, <3>3, <1>1, <1>8
  <2> QED BY <2>1, <2>2, <2>3
<1>12. CASE TakesCell(t)
  <2>1. d.step = "selected" \/ Leaves(t)
    BY <1>12 DEF TakesCell, Fields, d
  <2>2. ~Walking(t)'
    BY <2>1, NoCallFields DEF Leaves, Walking, Selection, d
  <2> QED BY <2>2
<1> QED BY <1>9, <1>10, <1>11, <1>12 DEF StillWalks

\* What the history says of a walk that goes on
LEMMA WalkObserved ==
    ASSUME HistoryInv, Observe, NEW t \in Thread, Walking(t)
    PROVE  /\ steady'[t] \subseteq steady[t] /\ first'[t] \subseteq first[t]
           /\ first[t] \subseteq steady[t] /\ first'[t] \subseteq steady'[t]
           /\ overlap \subseteq overlap'
           /\ first'[t] # {} => policy'.primary = policy.primary
<1>1. /\ steady'[t] \subseteq steady[t] /\ first'[t] \subseteq first[t]
      /\ first'[t] \subseteq steady'[t] /\ \A b \in first'[t] : TypeOf[b] = policy'.primary
  BY ObservedWalk
<1>2. first[t] \subseteq steady[t] /\ \A b \in first[t] : TypeOf[b] = policy.primary
  BY DEF HistoryInv
<1> QED BY <1>1, <1>2, ObservedOverlap

LEMMA WalkUnmoved ==
    ASSUME CallInv, RegistryType, RegistryType', HistoryInv, Observe, NEW t \in Thread, Walking(t),
           WalkAt(t), call'[t] = call[t], UNCHANGED <<cells, backend_count>>, hit' \subseteq hit
    PROVE  WalkAt(t)'
<1>1. Cell(call[t].i)' = Cell(call[t].i)
  BY DEF Cell
<1>2. backend_count <= backend_count'
  BY DEF RegistryType
<1> QED BY <1>1, <1>2, WalkObserved, WalkStays

\* A registration beside a walk
LEMMA WalkBeside ==
    ASSUME CallInv, CallInv', RegistryType, RegistryType', HistoryInv, HistoryInv', Order, Observe,
           NEW t \in Thread, Walking(t), WalkAt(t),
           NEW u \in Thread, Alone(u), RegistrationStep(u), u # t
    PROVE  WalkAt(t)'
<1> DEFINE c == call[t]
           r == call[u]
           n == backend_count
           S == steady'[t]
<1>0. /\ c.i \in Nat \ {0} /\ r.i \in Nat \ {0} /\ n \in Nat /\ MAX_STORAGE_BACKENDS \in Nat
      /\ r.backend \in Backend \cup {Nobody}
      /\ r.op = "register" => r.backend \in Backend /\ r.type = TypeOf[r.backend]
      /\ cells \in [Slot -> Backend \cup {Nobody}] /\ Slot = 1..MAX_STORAGE_BACKENDS
  BY DEF CallInv, CallRecord, RegistryType, Shape, Slot
<1>1. /\ Registering(u) /\ Others(u)
  BY DEF RegistrationStep, LooksForType, ComparesType, Cleans, Stores, Appends, CountsUp,
         Shifts, Drops, Clears, Registering, Registration, Keeps, Leaves
<1>2. /\ call'[t] = call[t] /\ Walking(t)'
      /\ OpInv(u) /\ DistinctFor(u) /\ Filled /\ n <= MAX_STORAGE_BACKENDS
  BY <1>1, HoleAlone DEF Order, Others, Walking, Filled
<1>3. /\ steady'[t] \subseteq steady[t] /\ first'[t] \subseteq first[t]
      /\ first[t] \subseteq steady[t] /\ first'[t] \subseteq steady'[t]
      /\ overlap \subseteq overlap'
      /\ first'[t] # {} => policy'.primary = policy.primary
  BY WalkObserved
<1>4. ASSUME Removing(u) \/ Removing(u)'
      PROVE  WalkAt(t)'
  <2>1. CASE Removing(u)
    <3>1. "walk" \in overlap /\ steady[t] = {} /\ first[t] = {}
      BY <2>1, HistoryFacts
    <3> QED BY <3>1, <1>3, WalkGivenUp
  <2>2. CASE Removing(u)'
    <3>1. "walk" \in Overlapping'
      BY <2>2, <1>2 DEF Overlapping
    <3>2. Usable' = {}
      BY <2>2 DEF Usable
    <3>3. "walk" \in overlap' /\ steady'[t] = {} /\ first'[t] = {}
      BY <3>1, <3>2 DEF HistoryInv
    <3> QED BY <3>3, WalkGivenUp
  <2> QED BY <1>4, <2>1, <2>2
<1>5. \A b \in steady[t] : b \in Backend /\ b \in live /\ \E k \in 1..n : cells[k] = b
  BY SteadyFacts DEF health_check
<1>6. \A b \in S : b \in live'
  BY SteadyFactsNext DEF health_check
<1>7. CASE LooksForType(u) \/ ComparesType(u)
  <2>1. UNCHANGED <<cells, backend_count, hit>>
    BY <1>7 DEF LooksForType, ComparesType, Quiet
  <2> QED BY <2>1, <1>2, WalkUnmoved
<1>8. CASE Cleans(u)
  <2>1. /\ UNCHANGED <<cells, backend_count>> /\ live' = live \ {Cell(r.i)}
        /\ hit' = hit \cup {w \in Thread : Holds(w, Cell(r.i))}
    BY <1>8 DEF Cleans
  <2>2. Cell(call[t].i)' = Cell(call[t].i)
    BY <2>1, <1>2 DEF Cell
  <2>3. ASSUME t \in hit', t \notin hit
        PROVE  Cell(c.i) \notin S
    <3>1. Holds(t, Cell(r.i))
      BY <2>1, <2>3
    <3>2. c.step = "health" /\ (c.backend = Cell(r.i) \/ Cell(c.i) = Cell(r.i))
      BY <3>1 DEF Holds, Walking
    <3>3. Cell(r.i) \notin S
      BY <2>1, <1>6
    <3>4. c.backend = Cell(c.i) \/ Cell(c.i) \notin S
      BY <3>2, <1>3 DEF WalkAt
    <3> QED BY <3>2, <3>3, <3>4
  <2>4. backend_count <= backend_count'
    BY <2>1, <1>0
  <2>5. t \in hit' => t \in hit \/ Cell(call[t].i)' \notin steady'[t]
    BY <2>2, <2>3
  <2> HIDE DEF c, r, n, S
  <2> QED BY <2>1, <2>2, <2>4, <2>5, <1>2, <1>3, WalkStays
<1>9. CASE Stores(u)
  <2>1. /\ r.step = "store" /\ cells' = [cells EXCEPT ![r.i] = r.backend]
        /\ r.backend \in Backend /\ r.type = TypeOf[r.backend]
        /\ UNCHANGED <<backend_count, hit>>
    BY <1>0, <1>9 DEF Stores
  <2>2. /\ r.i \in 1..n /\ TypeOf[cells[r.i]] = r.type /\ cells[r.i] \notin live
    BY <2>1, <1>0, <1>2 DEF OpInv
  <2>3. \A k \in 1..n : ~Hole(u, k)
    BY <2>1 DEF Hole
  <2>4. r.backend \notin S
    <3>1. SUFFICES ASSUME r.backend \in S
                   PROVE  FALSE
      OBVIOUS
    <3>2. r.backend \in live /\ \E k \in 1..n : cells[k] = r.backend
      BY <3>1, <1>3, <1>5
    <3>3. PICK k \in 1..n : cells[k] = r.backend
      BY <3>2
    <3>4. k = r.i
      BY <3>3, <2>1, <2>2, <2>3, <1>2 DEF DistinctFor
    <3> QED BY <3>2, <3>3, <3>4, <2>2
  <2>5. \A b \in S : \A k \in 1..n : cells[k] = b => cells'[k] = b
    BY <2>1, <2>2, <1>0, <1>2, <1>3, <1>5
  <2>6. ASSUME c.i <= n
        PROVE  \/ Cell(call[t].i)' = Cell(call[t].i)
               \/ /\ Cell(call[t].i)' \notin steady'[t]
                  /\ TypeOf[Cell(call[t].i)'] = TypeOf[Cell(call[t].i)]
    <3>1. Cell(c.i) = cells[c.i] /\ c.i \in Slot
      BY <2>6, <1>0, <1>2, CellFilled
    <3>2. Cell(call[t].i)' = cells'[c.i]
      BY <3>1, <1>2 DEF Cell
    <3> QED BY <3>1, <3>2, <2>1, <2>2, <2>4, <1>0
  <2>7. backend_count <= backend_count'
    BY <2>1, <1>0
  <2> HIDE DEF c, r, n, S
  <2> QED BY <2>1, <2>5, <2>6, <2>7, <1>2, <1>3, WalkStays DEF c, n, S
<1>10. CASE Appends(u)
  <2>1. /\ cells' = [cells EXCEPT ![n + 1] = r.backend] /\ n < MAX_STORAGE_BACKENDS
        /\ UNCHANGED <<backend_count, hit>>
    BY <1>10 DEF Appends
  <2>2. \A k \in 1..n : cells'[k] = cells[k]
    BY <2>1, <1>0
  <2>3. ASSUME c.i <= n
        PROVE  Cell(call[t].i)' = Cell(call[t].i)
    <3>1. Cell(c.i) = cells[c.i] /\ c.i \in Slot /\ c.i \in 1..n
      BY <2>3, <1>0, <1>2, CellFilled
    <3>2. Cell(call[t].i)' = cells'[c.i]
      BY <3>1, <1>2 DEF Cell
    <3> QED BY <3>1, <3>2, <2>2
  <2>4. backend_count <= backend_count'
    BY <2>1, <1>0
  <2> HIDE DEF c, r, n, S
  <2> QED BY <2>1, <2>2, <2>3, <2>4, <1>2, <1>3, WalkStays DEF c, n, S
<1>11. CASE CountsUp(u)
  <2>1. /\ cells' = cells /\ hit' = hit /\ r.step = "count" /\ backend_count' \in {r.i, n + 1}
    BY <1>11 DEF CountsUp
  <2>2. backend_count <= backend_count'
    BY <2>1, <1>0, <1>2 DEF OpInv
  <2>3. Cell(call[t].i)' = Cell(call[t].i)
    BY <2>1, <1>2 DEF Cell
  <2> HIDE DEF c, r, n, S
  <2> QED BY <2>1, <2>2, <2>3, <1>2, <1>3, WalkStays
<1>12. CASE Shifts(u) \/ Drops(u) \/ Clears(u)
  <2>1. Removing(u)
    BY <1>12 DEF Shifts, Drops, Clears, Removing
  <2> QED BY <2>1, <1>4
<1> QED BY <1>7, <1>8, <1>9, <1>10, <1>11, <1>12 DEF RegistrationStep

LEMMA WalkThread ==
    ASSUME CallInv, RegistryType, CallInv', RegistryType', HitInv, HistoryInv, HistoryInv',
           OrderInv, WalkInv, NEW u \in Thread, ThreadStep(u), Observe
    PROVE  WalkInv'
<1>1. SUFFICES ASSUME "registry" \notin overlap', NEW t \in Thread, Walking(t)'
               PROVE  WalkAt(t)'
  BY DEF WalkInv
<1>2. "registry" \notin overlap /\ Order /\ (Walking(t) => WalkAt(t))
  BY <1>1, ObservedOverlap DEF OrderInv, WalkInv
<1>3. CASE BeginsRegistration(u)
  <2>1. /\ Others(u) /\ UNCHANGED <<cells, backend_count, hit>> /\ call'[u].op \in Registration
    BY <1>3 DEF BeginsRegistration, Quiet
  <2>2. t # u
    BY <1>1, <2>1 DEF Walking, Registration, Selection
  <2>3. call'[t] = call[t] /\ Walking(t)
    BY <1>1, <2>1, <2>2 DEF Others, Walking
  <2> QED BY <2>1, <2>3, <1>2, WalkUnmoved
<1>4. CASE RegistrationStep(u)
  <2>1. Registering(u) /\ Others(u) /\ ~Walking(u)'
    BY <1>4, NoCallFields
       DEF RegistrationStep, LooksForType, ComparesType, Cleans, Stores, Appends, CountsUp,
           Shifts, Drops, Clears, Registering, Registration, Keeps, Leaves, Fields, Walking,
           Selection
  <2>2. t # u /\ Alone(u)
    BY <1>1, <1>2, <2>1, HistoryFacts DEF Alone
  <2>3. call'[t] = call[t] /\ Walking(t)
    BY <1>1, <2>1, <2>2 DEF Others, Walking
  <2> QED BY <1>2, <1>4, <2>2, <2>3, WalkBeside
<1>5. CASE BeginsWalk(u) \/ StillWalks(u) \/ Calls(u) \/ Counts(u) \/ Aborts(u)
  <2>1. /\ UNCHANGED <<cells, backend_count>> /\ hit' \subseteq hit
        /\ \A w \in Thread \ {u} : call'[w] = call[w]
    BY <1>5, SelectionQuiet DEF Quiet
  <2>2. ASSUME call'[t] = call[t]
        PROVE  WalkAt(t)'
    <3>1. Walking(t)
      BY <1>1, <2>2 DEF Walking
    <3> QED BY <2>1, <2>2, <3>1, <1>2, WalkUnmoved
  <2>3. CASE t # u
    BY <2>1, <2>2, <2>3
  <2>4. CASE t = u
    <3>1. CASE BeginsWalk(u)
      BY <2>4, <3>1, WalkBegins
    <3>2. CASE StillWalks(u)
      <4>1. Walking(u)
        BY <3>2 DEF StillWalks, LooksForCell, ReadsCell, ChecksHealth, TakesCell, Walking
      <4> QED BY <4>1, <2>4, <3>2, <1>1, <1>2, WalkMoves
    <3>3. CASE Calls(u) \/ Counts(u)
      <4>1. ~Walking(u)'
        BY <3>3, NoCallFields DEF Calls, Counts, Keeps, Leaves, Fields, Walking, Selection
      <4> QED BY <4>1, <2>4, <1>1
    <3>4. CASE Aborts(u)
      BY <3>4, <2>2 DEF Aborts
    <3> QED BY <1>5, <3>1, <3>2, <3>3, <3>4
  <2> QED BY <2>3, <2>4
<1> QED BY <1>3, <1>4, <1>5, ThreadSteps

LEMMA WalkStepKept ==
    ASSUME CallInv, RegistryType, CallInv', RegistryType', HitInv, HistoryInv, HistoryInv',
           OrderInv, WalkInv, [Next]_vars
    PROVE  WalkInv'
<1>1. ASSUME WorldStep, Observe
      PROVE  WalkInv'
  <2>1. UNCHANGED <<cells, backend_count, hit, call>> /\ overlap \subseteq overlap'
    BY <1>1, WorldSteps, ObservedOverlap DEF Surroundings
  <2>2. SUFFICES ASSUME "registry" \notin overlap', NEW t \in Thread, Walking(t)'
                 PROVE  WalkAt(t)'
    BY DEF WalkInv
  <2>3. Walking(t) /\ WalkAt(t)
    BY <2>1, <2>2 DEF WalkInv, Walking
  <2> QED BY <1>1, <2>1, <2>3, WalkUnmoved
<1>2. ASSUME Reinitialise
      PROVE  WalkInv'
  <2>1. (\A u \in Thread : call[u] = NoCall) /\ call' = call
    BY <1>2 DEF Reinitialise
  <2>2. \A u \in Thread : ~Walking(u)'
    BY <2>1, NoCallFields DEF Walking, Selection
  <2> QED BY <2>2 DEF WalkInv
<1>3. CASE UNCHANGED vars
  <2>1. UNCHANGED <<cells, backend_count, call, hit, overlap, steady, first, policy>>
    BY <1>3 DEF vars, registry, life, history, world
  <2> QED BY <2>1 DEF WalkInv, Walking, WalkAt, Ahead, Cell
<1> QED BY <1>1, <1>2, <1>3, WalkThread DEF Next

-----------------------------------------------------------------------------
(* The crashes *)

LEMMA FaultsExplained ==
    ASSUME CallInv, RegistryType, HistoryInv, OrderInv, WalkInv, NEW t \in Thread, Faults(t)
    PROVE  overlap \cap {"registry", "walk", "call"} # {}
<1> DEFINE c == call[t]
           n == backend_count
<1>1. SUFFICES ASSUME "registry" \notin overlap, "walk" \notin overlap, "call" \notin overlap
               PROVE  FALSE
  OBVIOUS
<1>2. /\ c.i \in Nat \ {0} /\ n \in Nat /\ MAX_STORAGE_BACKENDS \in Nat /\ Filled
      /\ n <= MAX_STORAGE_BACKENDS /\ Slot = 1..MAX_STORAGE_BACKENDS
  BY <1>1 DEF CallInv, CallRecord, RegistryType, OrderInv, Order, Filled, Slot
<1>3. hit = {}
  BY <1>1, HistoryFacts
<1>4. /\ Registering(t) => OpInv(t)
      /\ Walking(t) => WalkAt(t)
  BY <1>1 DEF OrderInv, Order, WalkInv
<1>5. c.i <= n => Cell(c.i) # Nobody
  BY <1>2, CellFilled, NobodyIsNoBackend
<1>6. /\ c.step \in {"type", "clean", "health", "take"} => Registering(t) \/ Walking(t)
      /\ c.step \in {"append", "shift", "drop", "null"} => Registering(t)
      /\ c.step = "append" => c.op = "register"
      /\ c.step = "clean" => Registering(t)
      /\ c.step \in {"health", "take"} => Walking(t)
  BY NoCallFields DEF CallInv, CallRecord, Shape, Registering, Walking, Registration, Selection,
                      RegisterSteps, UnregisterSteps, SelectionSteps, WalkSteps
<1>7. Registering(t) /\ c.step \in {"type", "clean"} => c.i <= n
  BY <1>4 DEF OpInv
<1>8. Walking(t) /\ c.step \in {"type", "health", "take"} => c.i <= n
  BY <1>1, <1>4 DEF WalkAt
<1>9. c.step = "append" => n < MAX_STORAGE_BACKENDS
  BY <1>4, <1>6 DEF OpInv
<1>10. /\ c.step = "shift" => c.i <= n
       /\ c.step = "drop" => n > 0
       /\ c.step = "null" => c.i = n + 1 /\ c.i <= MAX_STORAGE_BACKENDS
  BY <1>4, <1>6 DEF OpInv
<1> HIDE DEF c, n
<1>11. c.step \in {"type", "clean", "health", "take"} => Cell(c.i) # Nobody
  BY <1>5, <1>6, <1>7, <1>8
<1>12. \/ c.step \in {"append", "shift", "drop", "null"}
  BY <1>3, <1>11 DEF Faults, c
<1>13. c.step \in {"append", "shift", "drop", "null"} =>
         ~ \/ c.step = "append" /\ n >= MAX_STORAGE_BACKENDS
           \/ c.step = "shift" /\ (n = 0 \/ (c.i < n /\ c.i + 1 \notin Slot))
           \/ c.step = "drop" /\ n = 0
           \/ c.step = "null" /\ (c.i \notin Slot \/ n + 1 \notin Slot)
  BY <1>2, <1>9, <1>10
<1> QED BY <1>3, <1>12, <1>13 DEF Faults, c, n

LEMMA CrashStep ==
    ASSUME CallInv, RegistryType, HistoryInv, OrderInv, WalkInv, CrashExplained, [Next]_vars
    PROVE  CrashExplained'
<1>1. ASSUME Observe, crashed' => crashed \/ overlap \cap {"registry", "walk", "call"} # {}
      PROVE  CrashExplained'
  <2>1. overlap \subseteq overlap'
    BY <1>1, ObservedOverlap
  <2> QED BY <1>1, <2>1 DEF CrashExplained
<1>2. ASSUME NEW t \in Thread, ThreadStep(t)
      PROVE  crashed' => crashed \/ overlap \cap {"registry", "walk", "call"} # {}
  <2>1. crashed' = crashed \/ Aborts(t)
    BY <1>2, ThreadSteps
  <2> QED BY <2>1, FaultsExplained DEF Aborts
<1>3. ASSUME WorldStep
      PROVE  crashed' => crashed \/ overlap \cap {"registry", "walk", "call"} # {}
  <2>1. crashed' = crashed \/ backend_count > MAX_STORAGE_BACKENDS
    BY <1>3, WorldSteps
  <2>2. "registry" \in overlap \/ backend_count <= MAX_STORAGE_BACKENDS
    BY DEF OrderInv, Order, Filled
  <2>3. ~(backend_count > MAX_STORAGE_BACKENDS /\ backend_count <= MAX_STORAGE_BACKENDS)
    BY DEF RegistryType
  <2> QED BY <2>1, <2>2, <2>3
<1>4. ASSUME Reinitialise
      PROVE  CrashExplained'
  BY <1>4 DEF Reinitialise, CrashExplained
<1>5. CASE UNCHANGED vars
  BY <1>5 DEF vars, history, CrashExplained
<1> QED BY <1>1, <1>2, <1>3, <1>4, <1>5 DEF Next

-----------------------------------------------------------------------------
(* The inductive invariant and the theorems *)

IndInv ==
    /\ CallInv /\ RegistryType /\ HitInv /\ SettingsInv /\ StatsInv /\ HistoryInv
    /\ OrderInv /\ LiveInv /\ WalkInv /\ CrashExplained

LEMMA IndInit == Init => IndInv
<1> SUFFICES ASSUME Init
             PROVE  IndInv
  OBVIOUS
<1>1. /\ call \in [Thread -> CallRecord] /\ \A t \in Thread : call[t] = NoCall
      /\ crashed = FALSE /\ backend_count = 0 /\ hit = {} /\ overlap = {}
      /\ \A t \in Thread : steady[t] = {} /\ first[t] = {}
  BY NoCallFields DEF Init
<1>2. CallInv
  BY <1>1, NoCallFields DEF CallInv
<1>3. RegistryType /\ HitInv /\ CrashExplained
  BY <1>1 DEF Init, RegistryType, HitInv, CrashExplained
<1>4. SettingsInv
  <2>1. policy = DefaultPolicy /\ attached = FALSE /\ crashed = FALSE /\ changes = 0
    BY DEF Init, InitialPolicy
  <2>2. 0 \in 0..MaxChanges
    OBVIOUS
  <2>3. policy \in Policies \cup {DefaultPolicy} /\ attached \in BOOLEAN /\ crashed \in BOOLEAN
    BY <2>1, Zenon
  <2> QED BY <2>1, <2>2, <2>3 DEF SettingsInv
<1>5. StatsInv
  <2>1. \A t \in Thread : call[t].step # "called"
    BY <1>1, NoCallFields
  <2>2. {t \in Thread : call[t].step = "called"} = {}
    BY <2>1
  <2>3. Cardinality({}) = 0
    BY FS_EmptySet
  <2>4. stats = [ops |-> 0, error_count |-> 0] /\ reached = 0
    BY DEF Init
  <2>5. stats.ops = 0 /\ stats.error_count = 0 /\ stats \in [ops : Nat, error_count : Nat]
    BY <2>4
  <2>6. Cardinality({t \in Thread : call[t].step = "called"}) = 0
    BY <2>2, <2>3
  <2>7. StatsConserved
    BY <2>4, <2>5, <2>6 DEF StatsConserved
  <2> QED BY <2>4, <2>5, <2>7 DEF StatsInv
<1>6. \A t \in Thread : ~Registering(t) /\ ~Walking(t) /\ ~Removing(t) /\ call[t].op = "none"
  BY <1>1, NoCallFields DEF Registering, Walking, Removing, Registration, Selection
<1>7. HistoryInv
  <2>1. Overlapping = {}
    BY <1>1, <1>6 DEF Overlapping
  <2> QED BY <2>1, <1>1 DEF HistoryInv
<1>8. OrderInv /\ LiveInv /\ WalkInv
  BY <1>1, <1>6 DEF OrderInv, Order, Filled, Distinct, LiveInv, Lively, Fresh, WalkInv
<1> QED BY <1>2, <1>3, <1>4, <1>5, <1>7, <1>8 DEF IndInv

LEMMA IndNext == IndInv /\ [Next]_vars => IndInv'
<1> SUFFICES ASSUME IndInv, [Next]_vars
             PROVE  IndInv'
  OBVIOUS
<1>1. CallInv' /\ RegistryType'
  BY TypesStep DEF IndInv
<1>2. HitInv' /\ SettingsInv' /\ StatsInv'
  BY HitStep, SettingsStep, StatsStep DEF IndInv
<1>3. HistoryInv'
  BY HistoryStep DEF IndInv
<1>4. OrderInv' /\ LiveInv'
  BY OrderStep, LiveStep DEF IndInv
<1>5. WalkInv'
  BY <1>1, <1>3, WalkStepKept DEF IndInv
<1>6. CrashExplained'
  BY CrashStep DEF IndInv
<1> QED BY <1>1, <1>2, <1>3, <1>4, <1>5, <1>6 DEF IndInv

LEMMA Inductive == Spec => []IndInv
BY IndInit, IndNext, PTL DEF Spec

\* Every variable keeps its type (storage_interface.h:124-159).
THEOREM ManagerTypes == Spec => []TypeOK
<1>1. IndInv => TypeOK
  BY DEF IndInv, TypeOK, CallInv, CallRecord, RegistryType, HitInv, SettingsInv, StatsInv
<1> QED BY <1>1, Inductive, PTL

\* Every read and write that reached a backend is counted once, however the calls
\* of any number of threads interleave (storage_manager.c:189-279).
THEOREM CallsCounted == Spec => []StatsConserved
<1>1. IndInv => StatsConserved
  BY DEF IndInv, StatsInv
<1> QED BY <1>1, Inductive, PTL

\* The unlocked accesses crash the process only if two registrations overlapped, a
\* walk met a removal, or a backend was cleaned up under a call
\* (storage_manager.c:76-184).
THEOREM CrashesExplained == Spec => []CrashExplained
<1>1. IndInv => CrashExplained
  BY DEF IndInv
<1> QED BY <1>1, Inductive, PTL

\* Unless two registrations overlapped or an interface was registered again, the
\* registry holds initialised backends, one per type, at every step of every
\* registration, but for the cell being overwritten or dropped
\* (storage_manager.c:76-139).
THEOREM RegistryKept == Spec => []RegistrySound
<1>1. ASSUME IndInv, overlap \cap {"registry", "twice"} = {}
      PROVE  /\ backend_count <= MAX_STORAGE_BACKENDS
             /\ \A i \in 1..backend_count : cells[i] # Nobody
             /\ \A i \in 1..backend_count \ Gap : cells[i] \in live
             /\ \A i, j \in 1..backend_count \ Gap : TypeOf[cells[i]] = TypeOf[cells[j]] => i = j
  <2>1. Filled /\ Distinct /\ Lively /\ RegistryType
    BY <1>1 DEF IndInv, OrderInv, Order, LiveInv
  <2>2. /\ backend_count <= MAX_STORAGE_BACKENDS
        /\ \A i \in 1..backend_count : cells[i] # Nobody /\ i \in Slot
    BY <2>1, NobodyIsNoBackend DEF Filled, RegistryType, Slot
  <2>3. \A i \in 1..backend_count \ Gap : \A u \in Thread : ~Replaced(u, i) /\ ~Hole(u, i)
    BY <2>2 DEF Gap, Replaced, Hole
  <2>4. \A i \in 1..backend_count \ Gap : cells[i] \in live
    BY <2>1, <2>3 DEF Lively
  <2>5. \A i, j \in 1..backend_count \ Gap : TypeOf[cells[i]] = TypeOf[cells[j]] => i = j
    BY <2>1, <2>3 DEF Distinct
  <2> QED BY <2>2, <2>4, <2>5
<1>2. IndInv => RegistrySound
  BY <1>1 DEF RegistrySound
<1> QED BY <1>2, Inductive, PTL

\* Unless two registrations overlapped, a walk ends without a backend only if none
\* could be found all through it, and with one of another type only if none of the
\* primary's could (storage_manager.c:144-184).
THEOREM CallsRouted == Spec => RoutingSound
<1> DEFINE Routed ==
      \A t \in Thread :
        Walking(t) /\ "registry" \notin overlap' =>
            /\ call'[t] = NoCall => steady[t] = {}
            /\ call'[t].step = "selected" =>
                 first[t] = {} \/ TypeOf[call'[t].backend] = policy.primary
<1>1. ASSUME IndInv, Next
      PROVE  Routed
  <2>1. SUFFICES ASSUME NEW t \in Thread, Walking(t), "registry" \notin overlap'
                 PROVE  /\ call'[t] = NoCall => steady[t] = {}
                        /\ call'[t].step = "selected" =>
                             first[t] = {} \/ TypeOf[call'[t].backend] = policy.primary
    OBVIOUS
  <2>2. call[t].step \notin {"idle", "selected"} /\ call[t] # NoCall
    BY <2>1, NoCallFields DEF Walking
  <2>3. ASSUME call'[t] = call[t]
        PROVE  call'[t] # NoCall /\ call'[t].step # "selected"
    BY <2>2, <2>3
  <2>4. ASSUME WorldStep \/ Reinitialise
        PROVE  call'[t] = call[t]
    BY <1>1, <2>4, WorldSteps DEF IndInv, Surroundings, Reinitialise
  <2>5. ASSUME NEW u \in Thread, ThreadStep(u), Observe, call'[t] # call[t]
        PROVE  /\ call'[t] = NoCall => steady[t] = {}
               /\ call'[t].step = "selected" =>
                    first[t] = {} \/ TypeOf[call'[t].backend] = policy.primary
    <3> DEFINE c == call[t]
               n == backend_count
    <3>1. "registry" \notin overlap /\ Filled /\ WalkAt(t) /\ RegistryType
          /\ c.i \in Nat \ {0} /\ n \in Nat /\ first[t] \subseteq steady[t]
      BY <1>1, <2>1, <2>5, ObservedOverlap
         DEF IndInv, OrderInv, Order, WalkInv, CallInv, CallRecord, RegistryType, HistoryInv
    <3>2. StillWalks(t)
      <4>1. u = t
        BY <1>1, <2>5, ThreadSteps, SelectionQuiet, AwayFromCounters DEF IndInv, Others
      <4>2. /\ c.op \in Selection /\ c.step \in WalkSteps
        BY <2>1 DEF Walking, WalkSteps
      <4>3. ~BeginsRegistration(t) /\ ~BeginsWalk(t)
        BY <2>2 DEF BeginsRegistration, BeginsWalk
      <4>4. ~RegistrationStep(t)
        BY <4>2 DEF RegistrationStep, LooksForType, ComparesType, Cleans, Stores, Appends,
                    CountsUp, Shifts, Drops, Clears, Registration, Selection
      <4>5. ~Calls(t) /\ ~Counts(t) /\ ~Aborts(t)
        BY <2>5, <4>2 DEF Calls, Counts, Aborts, WalkSteps
      <4> QED BY <1>1, <2>5, <4>1, <4>3, <4>4, <4>5, ThreadSteps DEF IndInv
    <3>3. CASE LooksForCell(t)
      <4>1. /\ call'[t].step # "selected"
            /\ call'[t] = NoCall => c.i > n /\ c.phase = "any"
        BY <3>3, NoCallFields DEF LooksForCell, Keeps, Leaves, Fields
      <4>2. c.i > n /\ c.phase = "any" => steady[t] = {}
        BY <3>1 DEF WalkAt, Ahead
      <4> QED BY <4>1, <4>2
    <3>4. CASE ReadsCell(t) \/ ChecksHealth(t)
      BY <3>4, NoCallFields DEF ReadsCell, ChecksHealth, Keeps, Fields
    <3>5. CASE TakesCell(t)
      <4>1. /\ c.step = "take"
            /\ call'[t] = NoCall => Cell(c.i) = Nobody
            /\ call'[t].step = "selected" => call'[t].backend = Cell(c.i)
        BY <3>5, NoCallFields DEF TakesCell, Fields, Leaves
      <4>2. steady[t] # {} => Cell(c.i) # Nobody
        BY <3>1, <4>1, CellFilled, NobodyIsNoBackend DEF WalkAt
      <4>3. first[t] = {} \/ TypeOf[Cell(c.i)] = policy.primary
        BY <3>1, <4>1 DEF WalkAt
      <4> QED BY <4>1, <4>2, <4>3
    <3> QED BY <3>2, <3>3, <3>4, <3>5 DEF StillWalks
  <2> QED BY <1>1, <2>3, <2>4, <2>5 DEF Next
<1>2. IndInv /\ [Next]_vars => [Routed]_vars
  BY <1>1
<1> QED BY <1>2, Inductive, PTL DEF Spec, RoutingSound
=============================================================================
