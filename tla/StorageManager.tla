---------------------------- MODULE StorageManager ----------------------------
(***************************************************************************)
(* The storage manager (src/src/storage/storage_manager.c): a registry of  *)
(* backends, a routing policy, and the Raft storage adapter on top.  Only  *)
(* the counters are behind a lock.  Registering, unregistering and the     *)
(* walks of select_backend read and write the array backends and           *)
(* backend_count access by access, so calls of several threads interleave  *)
(* between any two of them: cells are seen before they are overwritten, an *)
(* index outlives the count it was compared with, and a backend is cleaned *)
(* up while another thread holds it.                                       *)
(*                                                                         *)
(* A null dereference, an access outside the array and a backend cleaned   *)
(* up under a running call end the process: crashed.  What a backend does  *)
(* with a call is the subject of MockStorage and LocalStorage; here one    *)
(* that is initialised answers it with success or with an error.  A call   *)
(* that is refused at its start changes nothing and is left out.           *)
(***************************************************************************)
EXTENDS Naturals, FiniteSets

CONSTANTS
    Thread,
    Backend,          \* the interfaces callers have created
    TypeOf,           \* their types
    MAX_STORAGE_BACKENDS,
    Policies,         \* routing policies callers set
    DefaultPolicy,    \* what storage_manager_init sets
    MaxOps,           \* bound: reads and writes that reach a backend
    MaxChanges        \* bound: changes of registry, adapter, policy and health

ASSUME ManagerAssumption ==
    /\ MAX_STORAGE_BACKENDS \in Nat
    /\ DefaultPolicy \in [primary : STRING, fallback : STRING, auto_failover : BOOLEAN]
    /\ Policies \subseteq [primary : STRING, fallback : STRING, auto_failover : BOOLEAN]
    /\ TypeOf \in [Backend -> STRING]
    /\ IsFiniteSet(Thread) /\ "nobody" \notin Backend
    /\ MaxOps \in Nat /\ MaxChanges \in Nat

VARIABLES
    live,             \* the backends that are initialised
    healthy,          \* the backends whose base directory is accessible
    cells,            \* manager->backends, NULL is Nobody
    backend_count,
    policy,           \* manager->routing_policy
    attached,         \* adapter->storage_manager is set
    stats,            \* [ops, error_count] of global_stats, reads and writes together
    call,             \* the call each thread is in
    hit,              \* the threads whose backend has been cleaned up under their call
    crashed,
    reached,          \* history: reads and writes that reached a backend
    overlap,          \* history: the kinds of overlapping calls since the initialisation
    steady,           \* history: the backends each walk could have used all along
    first,            \* history: those that were of the primary type all along
    changes

registry == <<cells, backend_count>>
life == <<live, hit>>
world == <<healthy, policy, attached>>
counters == <<stats, reached>>
history == <<overlap, steady, first>>
vars == <<registry, life, world, counters, call, crashed, history, changes>>

Nobody == "nobody"
Slot == 1..MAX_STORAGE_BACKENDS
Registration == {"register", "unregister"}
Selection == {"transfer", "sync"}    \* a read or a write, and a sync

\* i counts from 1; backend is the interface a call registers, or the one it has
\* read from cell i.
NoCall == [step |-> "idle", op |-> "none", type |-> "none", phase |-> "none", i |-> 1,
           backend |-> Nobody, ret |-> "none"]

Cell(i) == IF i \in Slot THEN cells[i] ELSE Nobody
Registered == {b \in Backend : \E i \in Slot : i <= backend_count /\ cells[i] = b}

\* Mutant: the policy is left as memset leaves it.
ZeroPolicy == [primary |-> "none", fallback |-> "none", auto_failover |-> FALSE]

InitialPolicy == DefaultPolicy

\* storage_manager_init and the initialised backends
Init ==
    /\ live = Backend /\ healthy = Backend
    /\ cells = [i \in Slot |-> Nobody] /\ backend_count = 0
    /\ policy = InitialPolicy
    /\ attached = FALSE
    /\ stats = [ops |-> 0, error_count |-> 0]
    /\ call = [t \in Thread |-> NoCall] /\ hit = {}
    /\ crashed = FALSE
    /\ reached = 0 /\ changes = 0
    /\ overlap = {}
    /\ steady = [t \in Thread |-> {}] /\ first = [t \in Thread |-> {}]

-----------------------------------------------------------------------------
(* Steps of a call *)

At(t, step, ops) == ~crashed /\ call[t].step = step /\ call[t].op \in ops

Move(t, c) == call' = [call EXCEPT ![t] = c]
Goto(t, step) == Move(t, [call[t] EXCEPT !.step = step])
NextCell(t) == Move(t, [call[t] EXCEPT !.step = "loop", !.i = @ + 1])
Return(t) == Move(t, NoCall)

Begin(t) == ~crashed /\ call[t] = NoCall
Change == changes < MaxChanges /\ changes' = changes + 1

\* What a call is about to do to memory that is not there: to follow a null
\* pointer, to leave the array (an unsigned backend_count - 1 wraps), or to go on
\* in a backend that is cleaned up under it.
Faults(t) ==
    LET c == call[t]
    IN  \/ c.step \in {"type", "clean", "health"} /\ Cell(c.i) = Nobody
        \/ c.step = "take" /\ c.phase = "fallback" /\ Cell(c.i) = Nobody
        \/ c.step = "append" /\ backend_count >= MAX_STORAGE_BACKENDS
        \/ c.step = "shift" /\ (backend_count = 0 \/ (c.i < backend_count /\ c.i + 1 \notin Slot))
        \/ c.step = "drop" /\ backend_count = 0
        \/ c.step = "null" /\ (c.i \notin Slot \/ backend_count + 1 \notin Slot)
        \/ t \in hit

Crash(t) ==
    /\ ~crashed /\ Faults(t)
    /\ crashed' = TRUE
    /\ UNCHANGED <<registry, life, world, counters, call, changes>>

-----------------------------------------------------------------------------
(* Registering and unregistering *)

\* A caller registers an interface it has initialised; a full registry refuses it.
storage_manager_register_backend(t, b) ==
    /\ Begin(t) /\ Change
    /\ b \in live
    /\ backend_count < MAX_STORAGE_BACKENDS
    /\ Move(t, [NoCall EXCEPT !.step = "loop", !.op = "register", !.type = TypeOf[b],
                              !.backend = b])
    /\ UNCHANGED <<registry, life, world, counters, crashed>>

storage_manager_unregister_backend(t, type) ==
    /\ Begin(t) /\ Change
    /\ Move(t, [NoCall EXCEPT !.step = "loop", !.op = "unregister", !.type = type])
    /\ UNCHANGED <<registry, life, world, counters, crashed>>

\* The end of the array: a new backend is added, an absent one is not found.
FindType(t) ==
    LET c == call[t]
    IN  /\ At(t, "loop", Registration)
        /\ \/ c.i <= backend_count /\ Goto(t, "type")
           \/ c.i > backend_count /\ c.op = "register" /\ Goto(t, "append")
           \/ c.i > backend_count /\ c.op = "unregister" /\ Return(t)
        /\ UNCHANGED <<registry, life, world, counters, crashed, changes>>

CompareType(t) ==
    LET c == call[t]
    IN  /\ At(t, "type", Registration) /\ Cell(c.i) # Nobody
        /\ IF TypeOf[Cell(c.i)] = c.type THEN Goto(t, "clean") ELSE NextCell(t)
        /\ UNCHANGED <<registry, life, world, counters, crashed, changes>>

\* A selection holds b from the moment it reads it to the return of the call.
Holds(u, b) ==
    /\ call[u].op \in Selection
    /\ \/ call[u].step = "health" /\ (call[u].backend = b \/ Cell(call[u].i) = b)
       \/ call[u].step = "selected" /\ call[u].backend = b

\* backend->cleanup; the cell keeps the pointer.
CleanFound(t) ==
    LET c == call[t]
        b == Cell(c.i)
    IN  /\ At(t, "clean", Registration) /\ b # Nobody
        /\ live' = live \ {b}
        /\ hit' = hit \cup {u \in Thread : Holds(u, b)}
        /\ Goto(t, IF c.op = "register" THEN "store" ELSE "shift")
        /\ UNCHANGED <<registry, world, counters, crashed, changes>>

StoreFound(t) ==
    LET c == call[t]
    IN  /\ At(t, "store", Registration)
        /\ cells' = [cells EXCEPT ![c.i] = c.backend]
        /\ Return(t)
        /\ UNCHANGED <<backend_count, life, world, counters, crashed, changes>>

\* Mutant: the new backend is counted before it is stored.
CountFirst(t) ==
    /\ At(t, "append", Registration) /\ backend_count < MAX_STORAGE_BACKENDS
    /\ backend_count' = backend_count + 1
    /\ Move(t, [call[t] EXCEPT !.step = "store", !.i = backend_count + 1])
    /\ UNCHANGED <<cells, life, world, counters, crashed, changes>>

\* The new backend is stored before it is counted.
AppendNew(t) ==
    LET c == call[t]
    IN  /\ At(t, "append", Registration) /\ backend_count < MAX_STORAGE_BACKENDS
        /\ cells' = [cells EXCEPT ![backend_count + 1] = c.backend]
        /\ Move(t, [c EXCEPT !.step = "count", !.i = backend_count + 1])
        /\ UNCHANGED <<backend_count, life, world, counters, crashed, changes>>

\* backend_count++ adds to what it reads now or to what the store read.
CountUp(t) ==
    /\ At(t, "count", Registration)
    /\ backend_count' \in {call[t].i, backend_count + 1}
    /\ Return(t)
    /\ UNCHANGED <<cells, life, world, counters, crashed, changes>>

\* Mutant: the last element is not moved up.
StopsEarly(t) == call[t].i + 1 >= backend_count

Moved(t) == call[t].i >= backend_count

\* backends[j] = backends[j + 1], one cell at a time
Shift(t) ==
    LET c == call[t]
    IN  /\ At(t, "shift", Registration) /\ backend_count > 0
        /\ \/ /\ ~Moved(t) /\ c.i + 1 \in Slot
              /\ cells' = [cells EXCEPT ![c.i] = cells[c.i + 1]]
              /\ Move(t, [c EXCEPT !.i = @ + 1])
           \/ /\ Moved(t)
              /\ Move(t, [c EXCEPT !.step = "drop", !.i = backend_count])
              /\ UNCHANGED cells
        /\ UNCHANGED <<backend_count, life, world, counters, crashed, changes>>

DropCount(t) ==
    /\ At(t, "drop", Registration) /\ backend_count > 0
    /\ backend_count' \in {call[t].i - 1, backend_count - 1}
    /\ Goto(t, "null")
    /\ UNCHANGED <<cells, life, world, counters, crashed, changes>>

ClearLast(t) ==
    /\ At(t, "null", Registration)
    /\ \E i \in {call[t].i, backend_count + 1} \cap Slot : cells' = [cells EXCEPT ![i] = Nobody]
    /\ Return(t)
    /\ UNCHANGED <<backend_count, life, world, counters, crashed, changes>>

-----------------------------------------------------------------------------
(* select_backend: the primary; if it is not healthy, with auto_failover, the *)
(* fallback; and then whatever is healthy, with auto_failover or without.     *)

\* An empty registry refuses the call.
Select(t, op) ==
    /\ Begin(t) /\ reached < MaxOps
    /\ backend_count > 0
    /\ Move(t, [NoCall EXCEPT !.step = "loop", !.op = op, !.phase = "primary"])
    /\ UNCHANGED <<registry, life, world, counters, crashed, changes>>

\* Mutant: there is no last resort.
FallbackOnly(phase) == IF phase = "primary" /\ policy.auto_failover THEN "fallback" ELSE "none"

NextPhase(phase) ==
    CASE phase = "primary" -> IF policy.auto_failover THEN "fallback" ELSE "any"
      [] phase = "fallback" -> "any"
      [] OTHER -> "none"

Walk(t) ==
    LET c    == call[t]
        next == NextPhase(c.phase)
    IN  /\ At(t, "loop", Selection)
        /\ \/ c.i <= backend_count /\ Goto(t, "type")
           \/ /\ c.i > backend_count /\ next # "none"
              /\ Move(t, [c EXCEPT !.phase = next, !.i = 1])
           \/ c.i > backend_count /\ next = "none" /\ Return(t)
        /\ UNCHANGED <<registry, life, world, counters, crashed, changes>>

Wanted(phase, b) ==
    \/ phase = "primary" /\ TypeOf[b] = policy.primary
    \/ phase = "fallback" /\ TypeOf[b] = policy.fallback
    \/ phase = "any"

\* The backend in cell i is read, and its type compared with the policy.
ReadCell(t) ==
    LET c == call[t]
        b == Cell(c.i)
    IN  /\ At(t, "type", Selection) /\ b # Nobody
        /\ IF Wanted(c.phase, b) THEN Move(t, [c EXCEPT !.step = "health", !.backend = b])
                                 ELSE NextCell(t)
        /\ UNCHANGED <<registry, life, world, counters, crashed, changes>>

health_check(b) == b \in live /\ b \in healthy

\* The backend is the one that was read, or is read again.  If it is cleaned up
\* during the check, the check may return either way.
CheckHealth(t) ==
    LET c == call[t]
    IN  /\ At(t, "health", Selection)
        /\ \E b \in {c.backend, Cell(c.i)} \ {Nobody} :
            \/ (health_check(b) \/ t \in hit) /\ Goto(t, "take")
            \/ (~health_check(b) \/ t \in hit) /\ NextCell(t)
        /\ hit' = hit \ {t}
        /\ UNCHANGED <<registry, live, world, counters, crashed, changes>>

\* return manager->backends[i], which is read again
TakeCell(t) ==
    LET c == call[t]
        b == Cell(c.i)
    IN  /\ At(t, "take", Selection)
        /\ \/ b # Nobody /\ Move(t, [c EXCEPT !.step = "selected", !.backend = b])
           \/ b = Nobody /\ c.phase # "fallback" /\ Return(t)
        /\ UNCHANGED <<registry, life, world, counters, crashed, changes>>

-----------------------------------------------------------------------------
(* The call of the backend and the counters *)

\* An initialised backend answers with success or an error, one that has been
\* cleaned up, whose private_data is NULL, with an error.  A read or a write goes on
\* to the counters, a sync does not.
CallBackend(t) ==
    LET c == call[t]
    IN  /\ At(t, "selected", Selection)
        /\ \/ /\ c.op = "transfer"
              /\ \E ret \in {"ok", "error"} :
                   /\ ret = "ok" => c.backend \in live \/ t \in hit
                   /\ Move(t, [c EXCEPT !.step = "called", !.ret = ret])
              /\ reached' = reached + 1
           \/ c.op = "sync" /\ Return(t) /\ UNCHANGED reached
        /\ hit' = hit \ {t}
        /\ UNCHANGED <<registry, live, world, stats, crashed, changes>>

\* Mutant: only successful calls are counted.
CountSuccess(t) == IF call[t].ret = "ok" THEN [stats EXCEPT !.ops = @ + 1] ELSE stats

\* update_stats, or the counting of an error
Counted(t) ==
    IF call[t].ret = "ok" THEN [stats EXCEPT !.ops = @ + 1]
                          ELSE [stats EXCEPT !.error_count = @ + 1]

UpdateStats(t) ==
    /\ At(t, "called", Selection)
    /\ stats' = Counted(t)
    /\ Return(t)
    /\ UNCHANGED <<registry, life, world, reached, crashed, changes>>

-----------------------------------------------------------------------------
(* The Raft storage adapter: a log entry, a state or a snapshot is a file that *)
(* is written or read as a whole.                                              *)

raft_storage_adapter_init ==
    /\ ~crashed /\ Change
    /\ attached' = TRUE
    /\ UNCHANGED <<registry, life, healthy, policy, counters, call, crashed>>

raft_storage_adapter_cleanup ==
    /\ ~crashed /\ Change
    /\ attached' = FALSE
    /\ UNCHANGED <<registry, life, healthy, policy, counters, call, crashed>>

\* Without a manager the call is refused.
raft_storage_save(t) == attached /\ Select(t, "transfer")
raft_storage_load(t) == attached /\ Select(t, "transfer")

-----------------------------------------------------------------------------
(* The rest of the world *)

SetPolicy(p) ==
    /\ ~crashed /\ Change
    /\ policy' = p
    /\ UNCHANGED <<registry, life, healthy, attached, counters, call, crashed>>

\* The base directory of b becomes inaccessible, or accessible again.
ChangeHealth(b) ==
    /\ ~crashed /\ Change
    /\ TypeOf[b] # "mock"
    /\ healthy' = IF b \in healthy THEN healthy \ {b} ELSE healthy \cup {b}
    /\ UNCHANGED <<registry, life, policy, attached, counters, call, crashed>>

\* storage_manager_cleanup by the last user, and storage_manager_init for the next
Reinitialise ==
    /\ ~crashed /\ Change
    /\ \A t \in Thread : call[t] = NoCall
    /\ backend_count <= MAX_STORAGE_BACKENDS
    /\ live' = live \ Registered
    /\ cells' = [i \in Slot |-> Nobody] /\ backend_count' = 0
    /\ policy' = InitialPolicy
    /\ stats' = [ops |-> 0, error_count |-> 0] /\ reached' = 0
    /\ overlap' = {}
    /\ UNCHANGED <<healthy, attached, call, hit, crashed, steady, first>>

\* storage_manager_cleanup leaves the array.
CleanupOverrun ==
    /\ ~crashed
    /\ \A t \in Thread : call[t] = NoCall
    /\ backend_count > MAX_STORAGE_BACKENDS
    /\ crashed' = TRUE
    /\ UNCHANGED <<registry, life, world, counters, call, changes>>

-----------------------------------------------------------------------------
(* History: which calls overlap, and what a walk could have found *)

Registering(t) == call[t].op \in Registration
Walking(t) == call[t].op \in Selection /\ call[t].step \in {"loop", "type", "health", "take"}
Removing(t) == call[t].step \in {"shift", "drop", "null"}

\* registry: two registrations at once; walk: a walk during a removal; call: a
\* backend cleaned up under a call; twice: an interface registered again.
Overlapping ==
    {o \in {"registry", "walk", "call", "twice"} :
        \/ o = "registry" /\ \E t, u \in Thread : t # u /\ Registering(t) /\ Registering(u)
        \/ o = "walk" /\ \E t, u \in Thread : Walking(t) /\ Removing(u)
        \/ o = "call" /\ hit # {}
        \/ o = "twice" /\ \E t \in Thread :
             /\ call[t].op = "register" /\ call[t].step = "loop" /\ call[t].i = 1
             /\ call[t].backend \in Registered}

\* The backends a walk that starts and ends now can use
Usable ==
    {b \in Registered : health_check(b) /\ \A t \in Thread : ~Removing(t)}

Observe ==
    /\ overlap' = overlap \cup Overlapping'
    /\ steady' = [t \in Thread |->
                    {b \in Usable' : Walking(t)' /\ (Walking(t) => b \in steady[t])}]
    /\ first' = [t \in Thread |->
                    {b \in steady'[t] : /\ TypeOf[b] = policy'.primary
                                        /\ Walking(t) => b \in first[t]}]

ThreadStep(t) ==
    \/ \E b \in Backend : storage_manager_register_backend(t, b)
    \/ \E b \in Backend : storage_manager_unregister_backend(t, TypeOf[b])
    \/ FindType(t) \/ CompareType(t) \/ CleanFound(t) \/ StoreFound(t) \/ AppendNew(t) \/ CountUp(t)
    \/ Shift(t) \/ DropCount(t) \/ ClearLast(t)
    \/ raft_storage_save(t) \/ raft_storage_load(t) \/ \E op \in Selection : Select(t, op)
    \/ Walk(t) \/ ReadCell(t) \/ CheckHealth(t) \/ TakeCell(t) \/ CallBackend(t) \/ UpdateStats(t)
    \/ Crash(t)

WorldStep ==
    \/ raft_storage_adapter_init \/ raft_storage_adapter_cleanup
    \/ \E p \in Policies : SetPolicy(p)
    \/ \E b \in Backend : ChangeHealth(b)
    \/ CleanupOverrun

Next ==
    \/ (\E t \in Thread : ThreadStep(t)) /\ Observe
    \/ WorldStep /\ Observe
    \/ Reinitialise

Spec == Init /\ [][Next]_vars

-----------------------------------------------------------------------------
(* Properties *)

\* Every variable keeps its type (storage_interface.h:124-159).
TypeOK ==
    /\ live \subseteq Backend /\ healthy \subseteq Backend /\ hit \subseteq Thread
    /\ cells \in [Slot -> Backend \cup {Nobody}] /\ backend_count \in Nat
    /\ policy \in Policies \cup {DefaultPolicy}
    /\ attached \in BOOLEAN /\ crashed \in BOOLEAN
    /\ stats \in [ops : Nat, error_count : Nat]
    /\ \A t \in Thread : call[t].backend \in Backend \cup {Nobody} /\ call[t].i \in Nat \ {0}
    /\ reached \in Nat /\ changes \in 0..MaxChanges

\* Every read and write that reached a backend is counted once, as a success or an
\* error, when it is over, however calls interleave (storage_manager.c:189-279).
StatsConserved ==
    stats.ops + stats.error_count
        + Cardinality({t \in Thread : call[t].step = "called"}) = reached

\* The unlocked accesses crash the process only if two registrations overlapped, a
\* selection walked the array while a removal changed it, or a backend was cleaned
\* up under a call: a registration and its replacement of a backend are safe beside
\* walks (storage_manager.c:76-184).
CrashExplained == crashed => overlap \cap {"registry", "walk", "call"} # {}

\* The cell a replacement or a removal is about to overwrite or to drop
Gap == {i \in Slot : \E t \in Thread :
          call[t].step \in {"store", "shift", "drop"} /\ call[t].i = i}

\* Unless two registrations overlapped or an interface was registered while it was
\* registered, the cells below backend_count hold initialised backends, one per
\* type, at every moment of every registration: only the cell that the operation
\* under way is about to overwrite or to drop may hold one that has been cleaned
\* up, or a copy, and none is NULL (storage_manager.c:76-139).
RegistrySound ==
    overlap \cap {"registry", "twice"} = {} =>
        /\ backend_count <= MAX_STORAGE_BACKENDS
        /\ \A i \in 1..backend_count : cells[i] # Nobody
        /\ \A i \in 1..backend_count \ Gap : cells[i] \in live
        /\ \A i, j \in 1..backend_count \ Gap : TypeOf[cells[i]] = TypeOf[cells[j]] => i = j

\* Unless two registrations overlapped, a walk ends without a backend only if none
\* was registered, healthy and out of a removal's way all through it, and ends
\* with a backend of another type only if no such one was of the primary's type,
\* whatever registrations, replacements, removals and failures happened meanwhile
\* (storage_manager.c:144-184).
RoutingSound ==
    [][\A t \in Thread :
        Walking(t) /\ "registry" \notin overlap' =>
            /\ call'[t] = NoCall => steady[t] = {}
            /\ call'[t].step = "selected" =>
                 first[t] = {} \/ TypeOf[call'[t].backend] = policy.primary]_vars
=============================================================================
