-------------------------- MODULE NodeServerProofs --------------------------
(***************************************************************************)
(* Theorems about the node server: the order of its releases, the joins of *)
(* its threads, and that its process is a Raft node with an empty cluster. *)
(*                                                                         *)
(* The invariant says what main knows at each of its steps: which          *)
(* resources it holds, which threads exist and which of them have ended;   *)
(* and, of the threads, who holds the mutex and how far an election is.    *)
(***************************************************************************)
EXTENDS NodeServer, Sequences, TLAPS

\* Where main is: it has no node yet, it has one, or it has none any more.
BeforeServer == {"parse", "init", "create_server"}
BeforeNode   == BeforeServer \cup {"start_server", "create_node"}
BeforeTwo    == BeforeNode \cup {"create_election", "create_heartbeat"}
UpToLoop     == BeforeTwo \cup {"join_started", "loop", "get_state"}
Destroying   == {"destroy_node", "join_election", "join_heartbeat", "free_node"}
WithNode     == (UpToLoop \ BeforeNode) \cup Destroying
AfterNode    == {"stop_server", "destroy_server", "cleanup"}

Place == UpToLoop \cup Destroying \cup AfterNode \cup {"exit", "stuck"}

\* The types, of main, of the threads and of the node
MainTypes ==
    /\ exit_code \in {"ok", "error", "killed", "crashed"}
    /\ g_running \in BOOLEAN /\ serving \in BOOLEAN
    /\ context \in {"none", "live", "freed"}
    /\ server \in {"none", "live", "freed"}
    /\ node \in {"none", "live", "freed"}

ThreadTypes ==
    /\ running \in BOOLEAN /\ undefined \in BOOLEAN
    /\ handle \in [Thread -> {"zero", "valid", "dangling"}]
    /\ thread \in [Thread -> {"none", "test", "lock", "locked", "in_loop", "done"}]
    /\ joined \subseteq Thread
    /\ mutex \in Thread \cup {"free"}

TermTypes ==
    /\ state \in {"FOLLOWER", "CANDIDATE", "LEADER"}
    /\ current_term \in 0..1 /\ voted_for \in {Nil, Self}

\* What main holds
ResourceInv ==
    /\ pc \in {"parse", "init"} => context = "none"
    /\ pc \in BeforeServer => server = "none"
    /\ pc \in BeforeServer \cup {"start_server"} => ~serving
    /\ pc \in BeforeNode => node = "none"
    /\ pc \in WithNode => node = "live"
    /\ pc \in AfterNode => node # "live"
    /\ pc \in {"destroy_server", "cleanup"} => ~serving
    /\ pc = "cleanup" => server # "live"

Stopped(t) == thread[t] \in {"none", "done"}

\* Which threads there are, and who holds the mutex
ThreadInv ==
    /\ \A t \in Thread : handle[t] = "valid" <=> thread[t] # "none"
    /\ \A t \in joined : thread[t] = "done"
    /\ \A t \in Thread : thread[t] \in {"locked", "in_loop"} <=> mutex = t
    /\ pc \in BeforeNode \cup {"create_election"} => \A t \in Thread : handle[t] = "zero"
    /\ pc = "create_heartbeat" => handle["heartbeat"] = "zero" /\ handle["election"] = "valid"
    /\ pc = "join_started" => handle["heartbeat"] # "valid"
    /\ pc = "join_heartbeat" => Stopped("election")
    /\ pc = "free_node" \/ node # "live" => \A t \in Thread : Stopped(t)

\* Which joins are still to be made
JoinInv ==
    /\ thread["heartbeat"] # "none" => handle["election"] = "valid"
    /\ undefined => pc \notin UpToLoop \cup {"destroy_node", "join_election"}
    /\ pc \in UpToLoop => joined = {}
    /\ thread["heartbeat"] # "none" /\ pc \in {"destroy_node", "join_election"} => joined = {}
    /\ pc \in UpToLoop \cup {"destroy_node", "join_election", "join_heartbeat"} =>
         "heartbeat" \notin joined

\* How far the only election is
TermInv ==
    /\ state = "FOLLOWER" => current_term = 0 /\ voted_for = Nil
    /\ state # "FOLLOWER" => current_term = 1 /\ voted_for = Self
    /\ state = "CANDIDATE" <=> thread["election"] = "in_loop"

ServerInv ==
    /\ MainTypes /\ ThreadTypes /\ TermTypes /\ pc \in Place
    /\ ResourceInv /\ ThreadInv /\ JoinInv /\ TermInv
    /\ NodeOutlivesThreads /\ ReleasedAtExit /\ JoinsDefined
-----------------------------------------------------------------------------
(* The steps, by what they do *)

Startup == ParseOptions \/ InitContext \/ CreateServer \/ StartServer \/ CreateNode
Spawning == CreateElectionThread \/ CreateHeartbeatThread
Waiting == TestRunning \/ GetState \/ Signal
Joining(t) == JoinStarted \/ DestroyJoin(t) \/ UndefinedJoin(t)
Releasing == DestroyNode \/ FreeNode \/ StopServer \/ DestroyServer \/ Cleanup

\* A step of a thread
Running(t) == Loop \/ Body(t)

Step(t) ==
    Startup \/ Spawning \/ Waiting \/ Joining(t) \/ Releasing \/ Running(t)

LEMMA Steps ==
    ASSUME [Next]_vars
    PROVE  UNCHANGED vars \/ \E t \in Thread : Step(t)
BY DEF Next, Main, Terminated, Step, Startup, Spawning, Waiting, Joining, Releasing,
       Running, Body, Loop, Thread

-----------------------------------------------------------------------------
(* What a step keeps *)

\* The types of what main keeps.
LEMMA MainTypesStep ==
    ASSUME ServerInv, NEW t \in Thread, Step(t)
    PROVE  MainTypes'
<1> USE DEF ServerInv, Thread, MainTypes, release, threads, raftState
<1>1. CASE Startup
  <2>1. CASE ParseOptions
    BY <2>1 DEF ParseOptions, Goto, Fail
  <2>2. CASE InitContext
    BY <2>2 DEF InitContext, Goto, Fail
  <2>3. CASE CreateServer
    BY <2>3 DEF CreateServer, Goto, Fail
  <2>4. CASE StartServer
    BY <2>4 DEF StartServer, Goto, Fail
  <2>5. CASE CreateNode
    BY <2>5 DEF CreateNode, Goto, Fail
  <2> QED BY <1>1, <2>1, <2>2, <2>3, <2>4, <2>5 DEF Startup
<1>2. CASE Spawning
  <2>1. CASE CreateElectionThread
    BY <2>1 DEF CreateElectionThread, Spawned, NotSpawned, Goto, Fail
  <2>2. CASE CreateHeartbeatThread
    BY <2>2 DEF CreateHeartbeatThread, Spawned, NotSpawned, Goto, Fail
  <2> QED BY <1>2, <2>1, <2>2 DEF Spawning
<1>3. CASE Waiting
  BY <1>3 DEF Waiting, TestRunning, GetState, Signal, Goto
<1>4. CASE Joining(t)
  <2>1. CASE JoinStarted
    BY <2>1 DEF JoinStarted, Join, Goto
  <2>2. CASE DestroyJoin(t)
    BY <2>2 DEF DestroyJoin, JoinAt, JoinNext, Joinable, Join, Goto
  <2>3. CASE UndefinedJoin(t)
    BY <2>3 DEF UndefinedJoin, JoinAt, JoinNext, Joinable, Goto
  <2> QED BY <1>4, <2>1, <2>2, <2>3 DEF Joining
<1>5. CASE Releasing
  <2>1. CASE DestroyNode
    BY <2>1 DEF DestroyNode, Goto
  <2>2. CASE FreeNode
    BY <2>2 DEF FreeNode, Goto
  <2>3. CASE StopServer
    BY <2>3 DEF StopServer, Goto
  <2>4. CASE DestroyServer
    BY <2>4 DEF DestroyServer, Goto
  <2>5. CASE Cleanup
    BY <2>5 DEF Cleanup, Goto
  <2> QED BY <1>5, <2>1, <2>2, <2>3, <2>4, <2>5 DEF Releasing
<1>6. CASE Running(t)
  BY <1>6 DEF Running, Loop, Body, Campaign, Win, Beat, BeatDone, Test, Lock, Skip, Advance,
              Alive
<1> QED BY <1>1, <1>2, <1>3, <1>4, <1>5, <1>6 DEF Step

\* The types of the threads.
LEMMA ThreadTypesStep ==
    ASSUME ServerInv, NEW t \in Thread, Step(t)
    PROVE  ThreadTypes'
<1> USE DEF ServerInv, Thread, ThreadTypes, release, threads, raftState
<1>1. CASE Startup
  BY <1>1 DEF Startup, ParseOptions, InitContext, CreateServer, StartServer, CreateNode,
              Goto, Fail
<1>2. CASE Spawning
  <2>1. CASE CreateElectionThread
    <3>1. handle' \in [Thread -> {"zero", "valid", "dangling"}]
      BY <2>1 DEF CreateElectionThread, Spawned, NotSpawned
    <3>2. thread' \in [Thread -> {"none", "test", "lock", "locked", "in_loop", "done"}]
      BY <2>1 DEF CreateElectionThread, Spawned, NotSpawned
    <3> QED BY <2>1, <3>1, <3>2, Zenon DEF CreateElectionThread
  <2>2. CASE CreateHeartbeatThread
    <3>1. handle' \in [Thread -> {"zero", "valid", "dangling"}]
      BY <2>2 DEF CreateHeartbeatThread, Spawned, NotSpawned
    <3>2. thread' \in [Thread -> {"none", "test", "lock", "locked", "in_loop", "done"}]
      BY <2>2 DEF CreateHeartbeatThread, Spawned, NotSpawned
    <3> QED BY <2>2, <3>1, <3>2, Zenon DEF CreateHeartbeatThread
  <2> QED BY <1>2, <2>1, <2>2 DEF Spawning
<1>3. CASE Waiting
  BY <1>3 DEF Waiting, TestRunning, GetState, Signal, Goto
<1>4. CASE Joining(t)
  <2>1. CASE JoinStarted
    BY <2>1 DEF JoinStarted, Join, Goto
  <2>2. CASE DestroyJoin(t)
    BY <2>2 DEF DestroyJoin, JoinAt, JoinNext, Joinable, Join, Goto
  <2>3. CASE UndefinedJoin(t)
    BY <2>3 DEF UndefinedJoin, JoinAt, JoinNext, Joinable, Goto
  <2> QED BY <1>4, <2>1, <2>2, <2>3 DEF Joining
<1>5. CASE Releasing
  BY <1>5 DEF Releasing, DestroyNode, FreeNode, StopServer, DestroyServer, Cleanup, Goto
<1>6. CASE Running(t)
  <2>1. CASE Campaign
    BY <2>1 DEF Campaign, Advance, Alive
  <2>2. CASE Win
    BY <2>2 DEF Win, Advance, Alive
  <2>3. CASE Beat
    BY <2>3 DEF Beat, Advance, Alive
  <2>4. CASE BeatDone
    BY <2>4 DEF BeatDone, Advance, Alive
  <2>5. CASE Test(t)
    BY <2>5 DEF Test, Advance, Alive
  <2>6. CASE Lock(t)
    BY <2>6 DEF Lock, Advance, Alive
  <2>7. CASE Skip(t)
    BY <2>7 DEF Skip, Advance, Alive
  <2> QED BY <1>6, <2>1, <2>2, <2>3, <2>4, <2>5, <2>6, <2>7 DEF Running, Loop, Body
<1> QED BY <1>1, <1>2, <1>3, <1>4, <1>5, <1>6 DEF Step

\* The types of the node; the only election is over before another could start.
LEMMA TermTypesStep ==
    ASSUME ServerInv, NEW t \in Thread, Step(t)
    PROVE  TermTypes'
<1> USE DEF ServerInv, Thread, TermTypes, TermInv, release, threads, raftState
<1>1. CASE Startup
  BY <1>1 DEF Startup, ParseOptions, InitContext, CreateServer, StartServer, CreateNode,
              Goto, Fail
<1>2. CASE Spawning
  BY <1>2 DEF Spawning, CreateElectionThread, CreateHeartbeatThread, Spawned, NotSpawned,
              Goto, Fail
<1>3. CASE Waiting
  BY <1>3 DEF Waiting, TestRunning, GetState, Signal, Goto
<1>4. CASE Joining(t)
  BY <1>4 DEF Joining, JoinStarted, DestroyJoin, UndefinedJoin, JoinAt, JoinNext, Joinable,
              Join, Goto
<1>5. CASE Releasing
  BY <1>5 DEF Releasing, DestroyNode, FreeNode, StopServer, DestroyServer, Cleanup, Goto
<1>6. CASE Running(t)
  <2>1. CASE Campaign
    BY <2>1 DEF Campaign, Advance, Alive
  <2>2. CASE Win
    BY <2>2 DEF Win, Advance, Alive
  <2>3. CASE Beat
    BY <2>3 DEF Beat, Advance, Alive
  <2>4. CASE BeatDone
    BY <2>4 DEF BeatDone, Advance, Alive
  <2>5. CASE Test(t)
    BY <2>5 DEF Test, Advance, Alive
  <2>6. CASE Lock(t)
    BY <2>6 DEF Lock, Advance, Alive
  <2>7. CASE Skip(t)
    BY <2>7 DEF Skip, Advance, Alive
  <2> QED BY <1>6, <2>1, <2>2, <2>3, <2>4, <2>5, <2>6, <2>7 DEF Running, Loop, Body
<1> QED BY <1>1, <1>2, <1>3, <1>4, <1>5, <1>6 DEF Step

\* main stays where this module expects it.
LEMMA PlacedStep ==
    ASSUME ServerInv, NEW t \in Thread, Step(t)
    PROVE  (pc \in Place)'
<1> USE DEF ServerInv, MainTypes, ThreadTypes, TermTypes, Thread, Place, release, threads,
            raftState, BeforeServer, BeforeNode, BeforeTwo, UpToLoop, Destroying, WithNode,
            AfterNode
<1>1. CASE Startup
  BY <1>1 DEF Startup, ParseOptions, InitContext, CreateServer, StartServer, CreateNode,
              Goto, Fail
<1>2. CASE Spawning
  BY <1>2 DEF Spawning, CreateElectionThread, CreateHeartbeatThread, Spawned, NotSpawned,
              Goto, Fail
<1>3. CASE Waiting
  BY <1>3 DEF Waiting, TestRunning, GetState, Signal, Goto
<1>4. CASE Joining(t)
  <2>1. CASE JoinStarted
    BY <2>1 DEF JoinStarted, Join, Goto
  <2>2. CASE DestroyJoin(t)
    BY <2>2 DEF DestroyJoin, JoinAt, JoinNext, Joinable, Join, Goto
  <2>3. CASE UndefinedJoin(t)
    BY <2>3 DEF UndefinedJoin, JoinAt, JoinNext, Joinable, Goto
  <2> QED BY <1>4, <2>1, <2>2, <2>3 DEF Joining
<1>5. CASE Releasing
  BY <1>5 DEF Releasing, DestroyNode, FreeNode, StopServer, DestroyServer, Cleanup, Goto
<1>6. CASE Running(t)
  BY <1>6 DEF Running, Loop, Body, Campaign, Win, Beat, BeatDone, Test, Lock, Skip, Advance,
              Alive
<1> QED BY <1>1, <1>2, <1>3, <1>4, <1>5, <1>6 DEF Step

\* main knows what it holds.
LEMMA ResourceStep ==
    ASSUME ServerInv, NEW t \in Thread, Step(t)
    PROVE  ResourceInv'
<1> USE DEF ServerInv, MainTypes, ThreadTypes, TermTypes, Thread, ResourceInv, release,
            threads, raftState, BeforeServer, BeforeNode, BeforeTwo, UpToLoop, Destroying,
            WithNode, AfterNode
<1>1. CASE Startup
  BY <1>1 DEF Startup, ParseOptions, InitContext, CreateServer, StartServer, CreateNode,
              Goto, Fail
<1>2. CASE Spawning
  BY <1>2 DEF Spawning, CreateElectionThread, CreateHeartbeatThread, Spawned, NotSpawned,
              Goto, Fail
<1>3. CASE Waiting
  BY <1>3 DEF Waiting, TestRunning, GetState, Signal, Goto
<1>4. CASE Joining(t)
  BY <1>4 DEF Joining, JoinStarted, DestroyJoin, UndefinedJoin, JoinAt, JoinNext, Joinable,
              Join, Goto
<1>5. CASE Releasing
  BY <1>5 DEF Releasing, DestroyNode, FreeNode, StopServer, DestroyServer, Cleanup, Goto
<1>6. CASE Running(t)
  BY <1>6 DEF Running, Loop, Body, Campaign, Win, Beat, BeatDone, Test, Lock, Skip, Advance,
              Alive
<1> QED BY <1>1, <1>2, <1>3, <1>4, <1>5, <1>6 DEF Step

\* main knows which threads there are, and the mutex is held by who has it locked.
LEMMA ThreadStep ==
    ASSUME ServerInv, NEW t \in Thread, Step(t)
    PROVE  ThreadInv'
<1> USE DEF ServerInv, MainTypes, ThreadTypes, TermTypes, Thread, ThreadInv, ResourceInv,
            Stopped, release, threads, raftState, BeforeServer, BeforeNode, BeforeTwo,
            UpToLoop, Destroying, WithNode, AfterNode
<1>1. CASE Startup
  BY <1>1 DEF Startup, ParseOptions, InitContext, CreateServer, StartServer, CreateNode,
              Goto, Fail
<1>2. CASE Spawning
  <2>1. CASE CreateElectionThread
    BY <2>1 DEF CreateElectionThread, Spawned, NotSpawned, Goto, Fail
  <2>2. CASE CreateHeartbeatThread
    BY <2>2 DEF CreateHeartbeatThread, Spawned, NotSpawned, Goto, Fail
  <2> QED BY <1>2, <2>1, <2>2 DEF Spawning
<1>3. CASE Waiting
  <2>1. CASE TestRunning
    BY <2>1 DEF TestRunning, Goto
  <2>2. CASE GetState
    BY <2>2 DEF GetState, Goto
  <2>3. CASE Signal
    BY <2>3 DEF Signal, Goto
  <2> QED BY <1>3, <2>1, <2>2, <2>3 DEF Waiting
<1>4. CASE Joining(t)
  <2>1. CASE JoinStarted
    BY <2>1 DEF JoinStarted, Join, Goto
  <2>2. CASE DestroyJoin(t)
    BY <2>2 DEF DestroyJoin, JoinAt, JoinNext, Joinable, Join, Goto
  <2>3. CASE UndefinedJoin(t)
    BY <2>3 DEF UndefinedJoin, JoinAt, JoinNext, Joinable, Goto
  <2> QED BY <1>4, <2>1, <2>2, <2>3 DEF Joining
<1>5. CASE Releasing
  <2>1. CASE DestroyNode
    BY <2>1 DEF DestroyNode, Goto
  <2>2. CASE FreeNode
    BY <2>2 DEF FreeNode, Goto
  <2>3. CASE StopServer
    BY <2>3 DEF StopServer, Goto
  <2>4. CASE DestroyServer
    BY <2>4 DEF DestroyServer, Goto
  <2>5. CASE Cleanup
    BY <2>5 DEF Cleanup, Goto
  <2> QED BY <1>5, <2>1, <2>2, <2>3, <2>4, <2>5 DEF Releasing
<1>6. CASE Running(t)
  <2>1. CASE Campaign
    BY <2>1 DEF Campaign, Advance, Alive
  <2>2. CASE Win
    BY <2>2 DEF Win, Advance, Alive
  <2>3. CASE Beat
    BY <2>3 DEF Beat, Advance, Alive
  <2>4. CASE BeatDone
    BY <2>4 DEF BeatDone, Advance, Alive
  <2>5. CASE Test(t)
    BY <2>5 DEF Test, Advance, Alive
  <2>6. CASE Lock(t)
    BY <2>6 DEF Lock, Advance, Alive
  <2>7. CASE Skip(t)
    BY <2>7 DEF Skip, Advance, Alive
  <2> QED BY <1>6, <2>1, <2>2, <2>3, <2>4, <2>5, <2>6, <2>7 DEF Running, Loop, Body
<1> QED BY <1>1, <1>2, <1>3, <1>4, <1>5, <1>6 DEF Step

\* main knows which joins are left.
LEMMA JoinStep ==
    ASSUME ServerInv, NEW t \in Thread, Step(t)
    PROVE  JoinInv'
<1> USE DEF ServerInv, MainTypes, ThreadTypes, TermTypes, Thread, JoinInv, ThreadInv,
            Stopped, release, threads, raftState, BeforeServer, BeforeNode, BeforeTwo,
            UpToLoop, Destroying, WithNode, AfterNode
<1>1. CASE Startup
  <2>1. CASE ParseOptions
    BY <2>1 DEF ParseOptions, Goto, Fail
  <2>2. CASE InitContext
    BY <2>2 DEF InitContext, Goto, Fail
  <2>3. CASE CreateServer
    BY <2>3 DEF CreateServer, Goto, Fail
  <2>4. CASE StartServer
    BY <2>4 DEF StartServer, Goto, Fail
  <2>5. CASE CreateNode
    BY <2>5 DEF CreateNode, Goto, Fail
  <2> QED BY <1>1, <2>1, <2>2, <2>3, <2>4, <2>5 DEF Startup
<1>2. CASE Spawning
  <2>1. CASE CreateElectionThread
    BY <2>1 DEF CreateElectionThread, Spawned, NotSpawned, Goto, Fail
  <2>2. CASE CreateHeartbeatThread
    BY <2>2 DEF CreateHeartbeatThread, Spawned, NotSpawned, Goto, Fail
  <2> QED BY <1>2, <2>1, <2>2 DEF Spawning
<1>3. CASE Waiting
  <2>1. CASE TestRunning
    BY <2>1 DEF TestRunning, Goto
  <2>2. CASE GetState
    BY <2>2 DEF GetState, Goto
  <2>3. CASE Signal
    BY <2>3 DEF Signal, Goto
  <2> QED BY <1>3, <2>1, <2>2, <2>3 DEF Waiting
<1>4. CASE Joining(t)
  BY <1>4 DEF Joining, JoinStarted, DestroyJoin, UndefinedJoin, JoinAt, JoinNext, Joinable,
              Join, Goto
<1>5. CASE Releasing
  <2>1. CASE DestroyNode
    BY <2>1 DEF DestroyNode, Goto
  <2>2. CASE FreeNode
    BY <2>2 DEF FreeNode, Goto
  <2>3. CASE StopServer
    BY <2>3 DEF StopServer, Goto
  <2>4. CASE DestroyServer
    BY <2>4 DEF DestroyServer, Goto
  <2>5. CASE Cleanup
    BY <2>5 DEF Cleanup, Goto
  <2> QED BY <1>5, <2>1, <2>2, <2>3, <2>4, <2>5 DEF Releasing
<1>6. CASE Running(t)
  <2>1. CASE Campaign
    BY <2>1 DEF Campaign, Advance, Alive
  <2>2. CASE Win
    BY <2>2 DEF Win, Advance, Alive
  <2>3. CASE Beat
    BY <2>3 DEF Beat, Advance, Alive
  <2>4. CASE BeatDone
    BY <2>4 DEF BeatDone, Advance, Alive
  <2>5. CASE Test(t)
    BY <2>5 DEF Test, Advance, Alive
  <2>6. CASE Lock(t)
    BY <2>6 DEF Lock, Advance, Alive
  <2>7. CASE Skip(t)
    BY <2>7 DEF Skip, Advance, Alive
  <2> QED BY <1>6, <2>1, <2>2, <2>3, <2>4, <2>5, <2>6, <2>7 DEF Running, Loop, Body
<1> QED BY <1>1, <1>2, <1>3, <1>4, <1>5, <1>6 DEF Step

\* The election thread knows how far the election is.
LEMMA TermStep ==
    ASSUME ServerInv, NEW t \in Thread, Step(t)
    PROVE  TermInv'
<1> USE DEF ServerInv, MainTypes, ThreadTypes, TermTypes, Thread, TermInv, ThreadInv,
            Stopped, release, threads, raftState
<1>1. CASE Startup
  BY <1>1 DEF Startup, ParseOptions, InitContext, CreateServer, StartServer, CreateNode,
              Goto, Fail
<1>2. CASE Spawning
  BY <1>2 DEF Spawning, CreateElectionThread, CreateHeartbeatThread, Spawned, NotSpawned,
              Goto, Fail
<1>3. CASE Waiting
  BY <1>3 DEF Waiting, TestRunning, GetState, Signal, Goto
<1>4. CASE Joining(t)
  BY <1>4 DEF Joining, JoinStarted, DestroyJoin, UndefinedJoin, JoinAt, JoinNext, Joinable,
              Join, Goto
<1>5. CASE Releasing
  BY <1>5 DEF Releasing, DestroyNode, FreeNode, StopServer, DestroyServer, Cleanup, Goto
<1>6. CASE Running(t)
  BY <1>6 DEF Running, Loop, Body, Campaign, Win, Beat, BeatDone, Test, Lock, Skip, Advance,
              Alive
<1> QED BY <1>1, <1>2, <1>3, <1>4, <1>5, <1>6 DEF Step

\* A return from main comes after the releases.
LEMMA ReleasedAtExitStep ==
    ASSUME ServerInv, NEW t \in Thread, Step(t)
    PROVE  ReleasedAtExit'
<1> USE DEF ServerInv, MainTypes, ThreadTypes, TermTypes, Thread, ReleasedAtExit,
            ResourceInv, release, threads, raftState, BeforeServer, BeforeNode, BeforeTwo,
            UpToLoop, Destroying, WithNode, AfterNode
<1>1. CASE Startup
  BY <1>1 DEF Startup, ParseOptions, InitContext, CreateServer, StartServer, CreateNode,
              Goto, Fail
<1>2. CASE Spawning
  BY <1>2 DEF Spawning, CreateElectionThread, CreateHeartbeatThread, Spawned, NotSpawned,
              Goto, Fail
<1>3. CASE Waiting
  BY <1>3 DEF Waiting, TestRunning, GetState, Signal, Goto
<1>4. CASE Joining(t)
  BY <1>4 DEF Joining, JoinStarted, DestroyJoin, UndefinedJoin, JoinAt, JoinNext, Joinable,
              Join, Goto
<1>5. CASE Releasing
  BY <1>5 DEF Releasing, DestroyNode, FreeNode, StopServer, DestroyServer, Cleanup, Goto
<1>6. CASE Running(t)
  BY <1>6 DEF Running, Loop, Body, Campaign, Win, Beat, BeatDone, Test, Lock, Skip, Advance,
              Alive
<1> QED BY <1>1, <1>2, <1>3, <1>4, <1>5, <1>6 DEF Step

\* A join is undefined only if the second thread is missing.
LEMMA JoinsDefinedStep ==
    ASSUME ServerInv, NEW t \in Thread, Step(t)
    PROVE  JoinsDefined'
<1> USE DEF ServerInv, MainTypes, ThreadTypes, TermTypes, Thread, JoinsDefined, ThreadInv,
            JoinInv, Stopped, release, threads, raftState, BeforeServer, BeforeNode,
            BeforeTwo, UpToLoop, Destroying, WithNode, AfterNode
<1>1. CASE Startup
  BY <1>1 DEF Startup, ParseOptions, InitContext, CreateServer, StartServer, CreateNode,
              Goto, Fail
<1>2. CASE Spawning
  BY <1>2 DEF Spawning, CreateElectionThread, CreateHeartbeatThread, Spawned, NotSpawned,
              Goto, Fail
<1>3. CASE Waiting
  BY <1>3 DEF Waiting, TestRunning, GetState, Signal, Goto
<1>4. CASE Joining(t)
  <2>1. CASE JoinStarted
    BY <2>1 DEF JoinStarted, Join, Goto
  <2>2. CASE DestroyJoin(t)
    BY <2>2 DEF DestroyJoin, JoinAt, JoinNext, Joinable, Join, Goto
  <2>3. CASE UndefinedJoin(t)
    BY <2>3 DEF UndefinedJoin, JoinAt, JoinNext, Joinable, Goto
  <2> QED BY <1>4, <2>1, <2>2, <2>3 DEF Joining
<1>5. CASE Releasing
  BY <1>5 DEF Releasing, DestroyNode, FreeNode, StopServer, DestroyServer, Cleanup, Goto
<1>6. CASE Running(t)
  BY <1>6 DEF Running, Loop, Body, Campaign, Win, Beat, BeatDone, Test, Lock, Skip, Advance,
              Alive
<1> QED BY <1>1, <1>2, <1>3, <1>4, <1>5, <1>6 DEF Step

LEMMA ServerInit == Init => ServerInv
<1> SUFFICES ASSUME Init PROVE ServerInv
  OBVIOUS
<1>1. MainTypes /\ ThreadTypes /\ TermTypes
  <2>1. /\ handle \in [Thread -> {"zero", "valid", "dangling"}]
        /\ thread \in [Thread -> {"none", "test", "lock", "locked", "in_loop", "done"}]
    BY DEF Init
  <2>2. MainTypes
    BY Zenon DEF Init, MainTypes
  <2>3. ThreadTypes
    BY <2>1, Zenon DEF Init, ThreadTypes
  <2>4. TermTypes
    BY DEF Init, TermTypes
  <2> QED BY <2>2, <2>3, <2>4
<1>6. pc \in Place
  BY DEF Init, Place, UpToLoop, BeforeTwo, BeforeNode, BeforeServer
<1>2. ResourceInv /\ ReleasedAtExit
  BY DEF Init, ResourceInv, ReleasedAtExit, WithNode, UpToLoop, BeforeTwo, BeforeNode,
         BeforeServer, Destroying, AfterNode
<1>3. ThreadInv /\ NodeOutlivesThreads
  BY DEF Init, ThreadInv, NodeOutlivesThreads, Stopped, Thread
<1>4. JoinInv /\ JoinsDefined
  BY DEF Init, JoinInv, JoinsDefined, Thread
<1>5. TermInv
  BY NodeAssumption DEF Init, TermInv, Thread
<1> QED BY <1>1, <1>2, <1>3, <1>4, <1>5, <1>6 DEF ServerInv

\* Threads that are stopped hold no mutex.
LEMMA Outlived ==
    ASSUME ThreadTypes, ThreadInv
    PROVE  NodeOutlivesThreads
BY DEF ThreadTypes, ThreadInv, NodeOutlivesThreads, Stopped, Thread

LEMMA ServerNext == ServerInv /\ [Next]_vars => ServerInv'
<1> SUFFICES ASSUME ServerInv, [Next]_vars PROVE ServerInv'
  OBVIOUS
<1>1. CASE UNCHANGED vars
  <2> USE <1>1 DEF vars, release, threads, raftState
  <2>1. MainTypes' /\ ThreadTypes' /\ TermTypes' /\ (pc \in Place)'
    BY DEF ServerInv, MainTypes, ThreadTypes, TermTypes
  <2>2. ResourceInv' /\ ThreadInv'
    BY DEF ServerInv, ResourceInv, ThreadInv, Stopped
  <2>3. JoinInv' /\ TermInv'
    BY DEF ServerInv, JoinInv, TermInv
  <2>4. NodeOutlivesThreads' /\ ReleasedAtExit' /\ JoinsDefined'
    BY DEF ServerInv, NodeOutlivesThreads, ReleasedAtExit, JoinsDefined
  <2> QED BY <2>1, <2>2, <2>3, <2>4 DEF ServerInv
<1>2. ASSUME NEW t \in Thread, Step(t) PROVE ServerInv'
  <2>1. ThreadTypes' /\ ThreadInv'
    BY <1>2, ThreadTypesStep, ThreadStep
  <2>2. NodeOutlivesThreads'
    BY <2>1, Outlived, PTL
  <2> QED
    BY <1>2, <2>1, <2>2, MainTypesStep, TermTypesStep, PlacedStep, ResourceStep, JoinStep,
       TermStep, ReleasedAtExitStep, JoinsDefinedStep DEF ServerInv
<1> QED BY <1>1, <1>2, Steps

\* What main and the threads know at each of their steps (node_main.c:113-250,
\* raft.c:74-231, 248-301)
THEOREM ServerInvariant == Spec => []ServerInv
<1> QED BY ServerInit, ServerNext, PTL DEF Spec

\* The variables of the server keep their types; a node without a cluster has
\* only one election (raft.c:85-149).
THEOREM ServerTypes == Spec => []TypeOK
<1>1. ServerInv => TypeOK
  BY DEF ServerInv, MainTypes, ThreadTypes, TermTypes, TypeOK
<1> QED BY <1>1, ServerInvariant, PTL

\* Whenever the signal comes and whichever start-up step fails, no thread is left
\* that could touch the node or its mutex once it is freed (raft.c:256-277, 289-298).
THEOREM NodeFreedLast == Spec => []NodeOutlivesThreads
<1>1. ServerInv => NodeOutlivesThreads
  BY DEF ServerInv
<1> QED BY <1>1, ServerInvariant, PTL

\* A process that returns from main holds nothing any more (node_main.c:159-250).
THEOREM AllReleased == Spec => []ReleasedAtExit
<1>1. ServerInv => ReleasedAtExit
  BY DEF ServerInv
<1> QED BY <1>1, ServerInvariant, PTL

\* Joins are defined as long as both threads were created (raft.c:263-268, 289-298).
THEOREM JoinsSound == Spec => []JoinsDefined
<1>1. ServerInv => JoinsDefined
  BY DEF ServerInv
<1> QED BY <1>1, ServerInvariant, PTL

-----------------------------------------------------------------------------
(* The process is a Raft node *)

\* Who walks the cluster: the mutex of the abstract node
Walker == IF mutex # "free" /\ thread[mutex] = "in_loop" THEN mutex ELSE "free"

\* The empty arrays of a node without a cluster
LEMMA EmptyArrays ==
    /\ RaftNode!Slots = {}
    /\ \A v : [i \in {} |-> v] = <<>>
    /\ Len(<<>>) = 0
<1>1. RaftNode!Slots = {}
  BY DEF RaftNode!Slots
<1>2. \A v : [i \in {} |-> v] = <<>>
  OBVIOUS
<1>3. Len(<<>>) = 0
  OBVIOUS
<1> QED BY <1>1, <1>2, <1>3

LEMMA RaftInit == Init => RaftNode!Init
<1> SUFFICES ASSUME Init PROVE RaftNode!Init
  OBVIOUS
<1>1. Walker = "free"
  BY DEF Init, Walker
<1> QED BY <1>1, EmptyArrays DEF Init, Walker, RaftNode!Init

\* The functions of a lone node
LEMMA Lone ==
    ASSUME NEW v, NEW w
    PROVE  /\ [n \in {Self} |-> v][Self] = v
           /\ [[n \in {Self} |-> v] EXCEPT ![Self] = w] = [n \in {Self} |-> w]
OBVIOUS

\* A step that leaves the role, the term, the vote and the walker alone is none of
\* the abstract node.
LEMMA Stutter ==
    ASSUME UNCHANGED raftState, Walker' = Walker
    PROVE  UNCHANGED RaftNode!vars
BY DEF raftState, Walker, RaftNode!vars, RaftNode!nodeVars, RaftNode!leaderVars,
       RaftNode!loopVars, RaftNode!apiVars, RaftNode!history

\* What Campaign does is the start of an election.
LEMMA CampaignStarts ==
    ASSUME ServerInv, Campaign
    PROVE  RaftNode!StartElection(Self)
<1>1. /\ Walker = "free" /\ Walker' = "election"
      /\ state = "FOLLOWER" /\ current_term = 0
      /\ state' = "CANDIDATE" /\ current_term' = 1 /\ voted_for' = Self
  BY DEF ServerInv, ThreadTypes, TermTypes, ThreadInv, TermInv, Campaign, Advance, Walker, Thread
<1>2. UNCHANGED <<RaftNode!leaderVars, RaftNode!apiVars>>
  BY DEF RaftNode!leaderVars, RaftNode!apiVars
<1>3. (IF current_term = 0 THEN {} ELSE {<<current_term, Self, Self>>})'
         = (IF current_term = 0 THEN {} ELSE {<<current_term, Self, Self>>})
           \cup {<<[n \in {Self} |-> current_term][Self] + 1, Self, Self>>}
  BY <1>1
<1>4. RaftNode!CountOwnVote(Self)
  BY <1>1, Lone DEF RaftNode!CountOwnVote
<1>5. /\ [n \in {Self} |-> Walker][Self] = "free"
      /\ [n \in {Self} |-> Walker]' = [[n \in {Self} |-> Walker] EXCEPT ![Self] = "election"]
  BY <1>1, Lone
<1>6. /\ [n \in {Self} |-> state]' = [[n \in {Self} |-> state] EXCEPT ![Self] = "CANDIDATE"]
      /\ [n \in {Self} |-> voted_for]' = [[n \in {Self} |-> voted_for] EXCEPT ![Self] = Self]
      /\ [n \in {Self} |-> 1]' = [[n \in {Self} |-> 1] EXCEPT ![Self] = 1]
  BY <1>1, Lone
<1>7. [n \in {Self} |-> current_term]'
         = [[n \in {Self} |-> current_term] EXCEPT
              ![Self] = [n \in {Self} |-> current_term][Self] + 1]
  BY <1>1, Lone
<1>8. /\ [n \in {Self} |-> state][Self] # "LEADER" /\ [n \in {Self} |-> current_term][Self] < 1
      /\ UNCHANGED <<[n \in {Self} |-> <<>>], {}, 0,
                     IF state = "LEADER" THEN {<<current_term, Self>>} ELSE {}>>
  BY <1>1, Lone
<1> QED
  BY <1>2, <1>3, <1>4, <1>5, <1>6, <1>7, <1>8 DEF Walker, RaftNode!StartElection

\* What Win does is the end of one, with the majority of an empty cluster.
LEMMA WinFinishes ==
    ASSUME ServerInv, Win
    PROVE  RaftNode!FinishElection(Self)
<1>1. /\ Walker = "election" /\ Walker' = "free"
      /\ state = "CANDIDATE" /\ current_term = 1
      /\ state' = "LEADER" /\ current_term' = 1 /\ voted_for' = voted_for
  BY DEF ServerInv, ThreadTypes, TermTypes, ThreadInv, TermInv, Win, Advance, Walker, Thread
<1>2. RaftNode!LoopDone(Self, "election") /\ RaftNode!HasMajority(Self)
  BY <1>1, EmptyArrays DEF Walker, RaftNode!LoopDone, RaftNode!HasMajority
<1>3. UNCHANGED RaftNode!apiVars
  BY DEF RaftNode!apiVars
<1>4. /\ [n \in {Self} |-> Walker]' = [[n \in {Self} |-> Walker] EXCEPT ![Self] = "free"]
      /\ [n \in {Self} |-> state]' = [[n \in {Self} |-> state] EXCEPT ![Self] = "LEADER"]
      /\ [n \in {Self} |-> state][Self] = "CANDIDATE"
  BY <1>1, Lone
<1>5. /\ [n \in {Self} |-> <<>>]' = [[n \in {Self} |-> <<>>] EXCEPT
            ![Self] = [i \in RaftNode!Slots |->
               IF i <= Len([n \in {Self} |-> <<>>][Self])
               THEN Len([n \in {Self} |-> <<>>][Self]) + 1
               ELSE [n \in {Self} |-> <<>>][Self][i]]]
      /\ [n \in {Self} |-> <<>>]' = [[n \in {Self} |-> <<>>] EXCEPT
            ![Self] = [i \in RaftNode!Slots |->
               IF i <= Len([n \in {Self} |-> <<>>][Self]) THEN 0
               ELSE [n \in {Self} |-> <<>>][Self][i]]]
  BY EmptyArrays, Lone
<1>6. (IF state = "LEADER" THEN {<<current_term, Self>>} ELSE {})'
         = (IF state = "LEADER" THEN {<<current_term, Self>>} ELSE {})
           \cup {<<[n \in {Self} |-> current_term][Self], Self>>}
  BY <1>1, Lone
<1>7. UNCHANGED <<[n \in {Self} |-> current_term], [n \in {Self} |-> voted_for],
                  [n \in {Self} |-> <<>>], [n \in {Self} |-> 1], {}, 0,
                  IF current_term = 0 THEN {} ELSE {<<current_term, Self, Self>>}>>
  BY <1>1
<1> QED
  BY <1>2, <1>3, <1>4, <1>5, <1>6, <1>7 DEF Walker, RaftNode!FinishElection

LEMMA BeatStarts ==
    ASSUME ServerInv, Beat
    PROVE  RaftNode!StartHeartbeat(Self)
<1>1. /\ Walker = "free" /\ Walker' = "heartbeat"
      /\ state = "LEADER" /\ UNCHANGED raftState
  BY DEF ServerInv, ThreadTypes, ThreadInv, Beat, Advance, Walker, Thread
<1> QED
  BY <1>1 DEF Walker, raftState, RaftNode!StartHeartbeat, RaftNode!nodeVars,
              RaftNode!leaderVars, RaftNode!apiVars, RaftNode!history

LEMMA BeatFinishes ==
    ASSUME ServerInv, BeatDone
    PROVE  RaftNode!FinishHeartbeat(Self)
<1>1. Walker = "heartbeat" /\ Walker' = "free" /\ UNCHANGED raftState
  BY DEF ServerInv, ThreadTypes, ThreadInv, BeatDone, Advance, Walker, Thread
<1> QED
  BY <1>1, EmptyArrays DEF Walker, raftState, RaftNode!FinishHeartbeat, RaftNode!LoopDone,
              RaftNode!nodeVars, RaftNode!leaderVars, RaftNode!apiVars, RaftNode!history

\* main, and what a thread does outside of its walk, changes nothing of it.
LEMMA QuietSteps ==
    ASSUME ServerInv, NEW t \in Thread,
           Startup \/ Spawning \/ Waiting \/ Joining(t) \/ Releasing \/ Body(t)
    PROVE  UNCHANGED raftState /\ Walker' = Walker
<1> USE DEF ServerInv, ThreadTypes, ThreadInv, Thread, Walker, threads
<1>1. CASE Startup
  BY <1>1 DEF Startup, ParseOptions, InitContext, CreateServer, StartServer, CreateNode
<1>2. CASE Spawning
  <2>1. CASE CreateElectionThread
    BY <2>1 DEF CreateElectionThread, Spawned, NotSpawned, Goto, Fail
  <2>2. CASE CreateHeartbeatThread
    BY <2>2 DEF CreateHeartbeatThread, Spawned, NotSpawned, Goto, Fail
  <2> QED BY <1>2, <2>1, <2>2 DEF Spawning
<1>3. CASE Waiting
  BY <1>3 DEF Waiting, TestRunning, GetState, Signal
<1>4. CASE Joining(t)
  BY <1>4 DEF Joining, JoinStarted, DestroyJoin, UndefinedJoin
<1>5. CASE Releasing
  BY <1>5 DEF Releasing, DestroyNode, FreeNode, StopServer, DestroyServer, Cleanup
<1>6. CASE Body(t)
  BY <1>6 DEF Body, Test, Lock, Skip, Advance
<1> QED BY <1>1, <1>2, <1>3, <1>4, <1>5, <1>6

LEMMA RaftStep == ServerInv /\ [Next]_vars => [RaftNode!Next]_(RaftNode!vars)
<1> SUFFICES ASSUME ServerInv, [Next]_vars PROVE [RaftNode!Next]_(RaftNode!vars)
  OBVIOUS
<1>1. CASE UNCHANGED vars
  <2>1. UNCHANGED raftState /\ Walker' = Walker
    BY <1>1 DEF vars, threads, raftState, Walker
  <2> QED BY <2>1, Stutter
<1>2. CASE Loop
  <2>1. RaftNode!ElectionThread(Self) \/ RaftNode!HeartbeatThread(Self)
    BY <1>2, CampaignStarts, WinFinishes, BeatStarts, BeatFinishes
       DEF Loop, RaftNode!ElectionThread, RaftNode!HeartbeatThread
  <2> QED BY <2>1 DEF RaftNode!Next
<1>3. ASSUME NEW t \in Thread, Step(t), ~Loop
      PROVE  UNCHANGED RaftNode!vars
  <2>1. Startup \/ Spawning \/ Waiting \/ Joining(t) \/ Releasing \/ Body(t)
    BY <1>3 DEF Step, Running
  <2> QED BY <2>1, QuietSteps, Stutter
<1> QED BY <1>1, <1>2, <1>3, Steps

\* The threads, main and the signal together make a Raft node with an empty
\* cluster: a thread's walk is an abstract one, everything else stutters
\* (raft.c:74-231, node_main.c:113-250).
THEOREM ServerIsRaftNode == Spec => ImplementsRaft
<1> QED
  BY RaftInit, RaftStep, ServerInvariant, PTL DEF Spec, ImplementsRaft, RaftNode!Spec
=============================================================================
