------------------------------ MODULE NodeServer ------------------------------
(***************************************************************************)
(* The life of a node server process (src/src/main/node_main.c) and of the *)
(* Raft node in it: xdevice_raft_create_node, start_node, the loops of its *)
(* two threads, get_state and destroy_node (src/src/distributed/raft.c).   *)
(*                                                                         *)
(* main acquires a context, a network server and a Raft node, sleeps until *)
(* a signal clears g_running, and releases them in the opposite order; an  *)
(* error during start-up enters the same releases half-way.  A signal may  *)
(* arrive between any two steps.  Nobody calls add_node_to_cluster, so the *)
(* threads walk an empty cluster_nodes[].                                  *)
(*                                                                         *)
(* The context and the network server have no source in the repository:    *)
(* their creation may fail, their release does not.                        *)
(***************************************************************************)
EXTENDS Naturals

CONSTANTS
    Self,            \* the node of this process
    Nil              \* the empty voted_for

ASSUME NodeAssumption == Self # Nil

VARIABLES
    pc,              \* where main is
    exit_code,       \* "ok" (0), "error" (1), or how the process died
    g_running,
    context, server, node,  \* "none", "live" or "freed"
    serving,         \* the network server has been started and not stopped
    running,         \* node->running
    handle,          \* node->election_thread, node->heartbeat_thread
    thread,          \* where each thread is in its loop
    joined,          \* the threads that have been joined
    undefined,       \* history: a join of no joinable thread has been made
    mutex,           \* who holds node->mutex
    state, current_term, voted_for

release   == <<context, server, node, serving>>
threads   == <<running, handle, thread, joined, undefined>>
raftState == <<state, current_term, voted_for>>
vars == <<pc, exit_code, g_running, release, threads, mutex, raftState>>

Thread == {"election", "heartbeat"}

Init ==
    /\ pc = "parse" /\ exit_code = "ok" /\ g_running = TRUE
    /\ context = "none" /\ server = "none" /\ node = "none" /\ serving = FALSE
    /\ running = FALSE
    /\ handle = [t \in Thread |-> "zero"]
    /\ thread = [t \in Thread |-> "none"]
    /\ joined = {} /\ undefined = FALSE
    /\ mutex = "free"
    /\ state = "FOLLOWER" /\ current_term = 0 /\ voted_for = Nil

Goto(from, to) == pc = from /\ pc' = to

\* main gives up with code 1 and goes on with the releases from there.
Fail(from, to) == Goto(from, to) /\ exit_code' = "error"

-----------------------------------------------------------------------------
(* Start-up *)

\* An unknown option, or a request for help or the version, ends the process;
\* otherwise the signal handlers are installed.
ParseOptions ==
    /\ \/ Goto("parse", "init") /\ UNCHANGED exit_code
       \/ Goto("parse", "exit") /\ exit_code' \in {"ok", "error"}
    /\ UNCHANGED <<g_running, release, threads, mutex, raftState>>

InitContext ==
    /\ \/ Goto("init", "create_server") /\ context' = "live" /\ UNCHANGED exit_code
       \/ Fail("init", "exit") /\ UNCHANGED context
    /\ UNCHANGED <<g_running, server, node, serving, threads, mutex, raftState>>

CreateServer ==
    /\ \/ Goto("create_server", "start_server") /\ server' = "live" /\ UNCHANGED exit_code
       \/ Fail("create_server", "cleanup") /\ UNCHANGED server
    /\ UNCHANGED <<g_running, context, node, serving, threads, mutex, raftState>>

StartServer ==
    /\ \/ Goto("start_server", "create_node") /\ serving' = TRUE /\ UNCHANGED exit_code
       \/ Fail("start_server", "destroy_server") /\ UNCHANGED serving
    /\ UNCHANGED <<g_running, context, server, node, threads, mutex, raftState>>

\* Mutant: a failure skips the server.
CreateNodeLeaks ==
    /\ \/ Goto("create_node", "create_election") /\ node' = "live" /\ UNCHANGED exit_code
       \/ Fail("create_node", "cleanup") /\ UNCHANGED node
    /\ UNCHANGED <<g_running, context, server, serving, threads, mutex, raftState>>

\* xdevice_raft_create_node: all fields are zero, the mutex is ready.
CreateNode ==
    /\ \/ Goto("create_node", "create_election") /\ node' = "live" /\ UNCHANGED exit_code
       \/ Fail("create_node", "stop_server") /\ UNCHANGED node
    /\ UNCHANGED <<g_running, context, server, serving, threads, mutex, raftState>>

\* pthread_create stores the handle and the thread is ready to run ...
Spawned(t) ==
    /\ handle' = [handle EXCEPT ![t] = "valid"]
    /\ thread' = [thread EXCEPT ![t] = "test"]

\* ... or fails, and may have stored something all the same.
NotSpawned(t) ==
    /\ \E h \in {"zero", "dangling"} : handle' = [handle EXCEPT ![t] = h]
    /\ UNCHANGED thread

\* xdevice_raft_start_node, up to the election thread
CreateElectionThread ==
    /\ \/ Goto("create_election", "create_heartbeat") /\ Spawned("election") /\ UNCHANGED exit_code
       \/ Fail("create_election", "destroy_node") /\ NotSpawned("election")
    /\ running' = TRUE
    /\ UNCHANGED <<g_running, release, joined, undefined, mutex, raftState>>

\* The second thread; without it the first is asked to stop.
CreateHeartbeatThread ==
    /\ \/ /\ Goto("create_heartbeat", "loop")
          /\ Spawned("heartbeat")
          /\ UNCHANGED <<exit_code, running>>
       \/ /\ Fail("create_heartbeat", "join_started")
          /\ NotSpawned("heartbeat")
          /\ running' = FALSE
    /\ UNCHANGED <<g_running, release, joined, undefined, mutex, raftState>>

\* Mutant: main goes on without waiting for the thread.
DoneOrNot(t) == joined' = joined \cup {t}

\* pthread_join of a thread that can be joined
Join(t) ==
    /\ thread[t] = "done"
    /\ joined' = joined \cup {t}

\* start_node fails, after a join that leaves the handle in place.
JoinStarted ==
    /\ Goto("join_started", "destroy_node")
    /\ Join("election")
    /\ UNCHANGED <<exit_code, g_running, release, running, handle, thread, undefined,
                   mutex, raftState>>

-----------------------------------------------------------------------------
(* The main loop and the signal *)

TestRunning ==
    /\ Goto("loop", IF g_running THEN "get_state" ELSE "destroy_node")
    /\ UNCHANGED <<exit_code, g_running, release, threads, mutex, raftState>>

\* sleep(1) and xdevice_raft_get_state: lock, read, unlock
GetState ==
    /\ Goto("get_state", "loop")
    /\ mutex = "free"
    /\ UNCHANGED <<exit_code, g_running, release, threads, mutex, raftState>>

\* SIGINT or SIGTERM: before the handlers are installed it ends the process.
Signal ==
    /\ pc # "exit"
    /\ IF pc = "parse"
       THEN pc' = "exit" /\ exit_code' = "killed" /\ UNCHANGED g_running
       ELSE g_running' = FALSE /\ UNCHANGED <<pc, exit_code>>
    /\ UNCHANGED <<release, threads, mutex, raftState>>

-----------------------------------------------------------------------------
(* The releases: xdevice_raft_destroy_node and those of the other two *)

\* Mutant: the threads are not told.
DestroyKeepsRunning ==
    /\ Goto("destroy_node", "join_election")
    /\ UNCHANGED <<exit_code, g_running, release, threads, mutex, raftState>>

DestroyNode ==
    /\ Goto("destroy_node", "join_election")
    /\ running' = FALSE
    /\ UNCHANGED <<exit_code, g_running, release, handle, thread, joined, undefined,
                   mutex, raftState>>

\* Mutant: the first thread is joined twice.
JoinAgain(t) == IF t = "election" THEN "join_election" ELSE "free_node"

JoinAt(t) == IF t = "election" THEN "join_election" ELSE "join_heartbeat"
JoinNext(t) == IF t = "election" THEN "join_heartbeat" ELSE "free_node"

Joinable(t) == handle[t] = "valid" /\ t \notin joined

\* if (node->..._thread) pthread_join(...)
DestroyJoin(t) ==
    /\ Goto(JoinAt(t), JoinNext(t))
    /\ \/ handle[t] = "zero" /\ UNCHANGED joined
       \/ Joinable(t) /\ Join(t)
    /\ UNCHANGED <<exit_code, g_running, release, running, handle, thread, undefined,
                   mutex, raftState>>

\* A join of what is no joinable thread is undefined: it may return an error,
\* crash, or wait for a thread of the server that was given the same handle and
\* that nobody will stop.
UndefinedJoin(t) ==
    /\ handle[t] # "zero" /\ ~Joinable(t)
    /\ undefined' = TRUE
    /\ \/ Goto(JoinAt(t), JoinNext(t)) /\ UNCHANGED exit_code
       \/ Goto(JoinAt(t), "exit") /\ exit_code' = "crashed"
       \/ Goto(JoinAt(t), "stuck") /\ UNCHANGED exit_code
    /\ UNCHANGED <<g_running, release, running, handle, thread, joined, mutex, raftState>>

FreeNode ==
    /\ Goto("free_node", "stop_server")
    /\ node' = "freed"
    /\ UNCHANGED <<exit_code, g_running, context, server, serving, threads, mutex, raftState>>

StopServer ==
    /\ Goto("stop_server", "destroy_server")
    /\ serving' = FALSE
    /\ UNCHANGED <<exit_code, g_running, context, server, node, threads, mutex, raftState>>

DestroyServer ==
    /\ Goto("destroy_server", "cleanup")
    /\ server' = "freed"
    /\ UNCHANGED <<exit_code, g_running, context, node, serving, threads, mutex, raftState>>

Cleanup ==
    /\ Goto("cleanup", "exit")
    /\ context' = "freed"
    /\ UNCHANGED <<exit_code, g_running, server, node, serving, threads, mutex, raftState>>

-----------------------------------------------------------------------------
(* The loops of the threads, over an empty cluster *)

Alive == pc # "exit"

Advance(t, from, to) ==
    /\ Alive
    /\ thread[t] = from
    /\ thread' = [thread EXCEPT ![t] = to]
    /\ UNCHANGED <<pc, exit_code, g_running, release, running, handle, joined, undefined>>

\* while (node->running), read without the lock
Test(t) ==
    /\ Advance(t, "test", IF running THEN "lock" ELSE "done")
    /\ UNCHANGED <<mutex, raftState>>

\* Mutant: no lock is taken.
LockNothing(t) ==
    /\ Advance(t, "lock", "locked")
    /\ mutex' = t
    /\ UNCHANGED raftState

Lock(t) ==
    /\ Advance(t, "lock", "locked")
    /\ mutex = "free"
    /\ mutex' = t
    /\ UNCHANGED raftState

\* Mutant: the early way out forgets to unlock.
SkipLocked(t) ==
    /\ Advance(t, "locked", "test")
    /\ UNCHANGED <<mutex, raftState>>

\* Nothing to do: not the leader's turn, or the time has not come.
Skip(t) ==
    /\ Advance(t, "locked", "test")
    /\ mutex' = "free"
    /\ UNCHANGED raftState

\* The election timeout has passed: the node votes for itself.
Campaign ==
    /\ Advance("election", "locked", "in_loop")
    /\ state # "LEADER"
    /\ state' = "CANDIDATE"
    /\ current_term' = current_term + 1
    /\ voted_for' = Self
    /\ UNCHANGED mutex

\* Mutant: the node does not count its own vote.
Lose ==
    /\ Advance("election", "in_loop", "test")
    /\ mutex' = "free"
    /\ UNCHANGED raftState

\* The walk visits nobody, and 1 > 0 / 2.
Win ==
    /\ Advance("election", "in_loop", "test")
    /\ state' = "LEADER"
    /\ mutex' = "free"
    /\ UNCHANGED <<current_term, voted_for>>

Beat ==
    /\ Advance("heartbeat", "locked", "in_loop")
    /\ state = "LEADER"
    /\ UNCHANGED <<mutex, raftState>>

BeatDone ==
    /\ Advance("heartbeat", "in_loop", "test")
    /\ mutex' = "free"
    /\ UNCHANGED raftState

-----------------------------------------------------------------------------
Main ==
    \/ ParseOptions \/ InitContext \/ CreateServer \/ StartServer \/ CreateNode
    \/ CreateElectionThread \/ CreateHeartbeatThread \/ JoinStarted
    \/ TestRunning \/ GetState
    \/ DestroyNode \/ \E t \in Thread : DestroyJoin(t) \/ UndefinedJoin(t)
    \/ FreeNode \/ StopServer \/ DestroyServer \/ Cleanup

Body(t) == Test(t) \/ Lock(t) \/ Skip(t)

Loop == Campaign \/ Win \/ Beat \/ BeatDone

Terminated == pc \in {"exit", "stuck"} /\ UNCHANGED vars

Next ==
    \/ Main \/ Signal \/ Loop \/ Terminated
    \/ \E t \in Thread : Body(t)

\* Every thread is scheduled, a callback of the walk returns, and timeouts pass.
\* The holders of the mutex sleep between two uses, so whoever waits gets it.
Fairness ==
    /\ WF_vars(Main) /\ SF_vars(GetState)
    /\ \A t \in Thread : WF_vars(Body(t)) /\ SF_vars(Lock(t))
    /\ SF_vars(Campaign) /\ WF_vars(Win) /\ WF_vars(BeatDone)

Spec == Init /\ [][Next]_vars /\ Fairness

-----------------------------------------------------------------------------
(* Properties *)

\* Every variable keeps its type; a lone node never gets past term 1.
TypeOK ==
    /\ exit_code \in {"ok", "error", "killed", "crashed"}
    /\ g_running \in BOOLEAN /\ serving \in BOOLEAN /\ running \in BOOLEAN
    /\ {context, server, node} \subseteq {"none", "live", "freed"}
    /\ handle \in [Thread -> {"zero", "valid", "dangling"}]
    /\ thread \in [Thread -> {"none", "test", "lock", "locked", "in_loop", "done"}]
    /\ joined \subseteq Thread /\ undefined \in BOOLEAN
    /\ mutex \in Thread \cup {"free"}
    /\ state \in {"FOLLOWER", "CANDIDATE", "LEADER"}
    /\ current_term \in 0..1 /\ voted_for \in {Nil, Self}

\* Whenever the signal comes and whichever step of the start-up fails, the node
\* is freed only when no thread will touch it or its mutex again
\* (raft.c:256-277, 289-298).
NodeOutlivesThreads ==
    node # "live" =>
        /\ \A t \in Thread : thread[t] \in {"none", "done"}
        /\ mutex = "free"

\* A process that ends by returning from main has released what it acquired and
\* stopped the server it started, on every path (node_main.c:159-250).
ReleasedAtExit ==
    (pc = "exit" /\ exit_code \in {"ok", "error"}) =>
        "live" \notin {context, server, node} /\ ~serving

\* A server whose two threads were created never joins a thread twice; only the
\* failure of a pthread_create leads to an undefined join (raft.c:263-268,
\* 289-298).
JoinsDefined == undefined => thread["heartbeat"] = "none"

\* A signal, or a failed start, ends the process, unless an undefined join has
\* been made on the way (node_main.c:16-19, 229-250).
ShutdownCompletes == (~g_running \/ exit_code # "ok") ~> (pc = "exit" \/ undefined)

\* A server that has started and is not stopped becomes the leader of its
\* cluster of nobody (raft.c:127-142, node_main.c:215-229).
LeadsAlone == pc = "loop" ~> (state = "LEADER" \/ ~g_running)

\* Until it is stopped, the threads and main together make a Raft node with an
\* empty cluster: what Raft shows of its nodes holds of this process.
RaftNode == INSTANCE Raft WITH
    Node <- {Self}, InitialCluster <- [n \in {Self} |-> <<>>],
    MaxNodes <- 0, IndexMod <- 2, Adder <- {},
    MaxTerm <- 1, MaxLog <- 0, MaxRestarts <- 0, MaxLate <- 0,
    state <- [n \in {Self} |-> state],
    current_term <- [n \in {Self} |-> current_term],
    voted_for <- [n \in {Self} |-> voted_for],
    log_entries <- [n \in {Self} |-> <<>>],
    next_index <- [n \in {Self} |-> <<>>],
    match_index <- [n \in {Self} |-> <<>>],
    cluster_nodes <- [n \in {Self} |-> <<>>],
    mutex <- [n \in {Self} |-> IF mutex # "free" /\ thread[mutex] = "in_loop" THEN mutex
                               ELSE "free"],
    slot <- [n \in {Self} |-> 1],
    votes_received <- [n \in {Self} |-> current_term],
    adding <- <<>>, late <- {}, restarts <- 0,
    ballots <- IF current_term = 0 THEN {} ELSE {<<current_term, Self, Self>>},
    elected <- IF state = "LEADER" THEN {<<current_term, Self>>} ELSE {}

ImplementsRaft == RaftNode!Spec
=============================================================================
