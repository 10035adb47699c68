-------------------------------- MODULE Raft --------------------------------
(***************************************************************************)
(* The consensus node of xDevice (src/src/distributed/raft.c).             *)
(*                                                                         *)
(* Every node runs an election thread and a heartbeat thread.  Each of     *)
(* them takes the node's mutex, walks cluster_nodes[] and makes one        *)
(* blocking callback per peer WITHOUT releasing the mutex.  A step of the  *)
(* model is one iteration of such a walk, so steps of different nodes      *)
(* interleave inside each other's elections.  add_node_to_cluster reads    *)
(* cluster_size before it takes the mutex, so it is two steps.             *)
(*                                                                         *)
(* The transport and the two request handlers have no body in the          *)
(* repository (raft.h declares them, the callbacks of node_main.c are      *)
(* stubs): HandleVoteRequest and HandleAppendEntries are the rules of Raft *)
(* that the callers rely on, executed under the mutex of the peer.  A      *)
(* callback that returns an error may have lost its request, or left it in *)
(* flight, to be handled after the caller has given up.                    *)
(***************************************************************************)
EXTENDS Integers, Sequences, FiniteSets, Functions

CONSTANTS
    Node,            \* the nodes
    Nil,             \* the empty voted_for, and an idle add_node caller
    InitialCluster,  \* [Node -> Seq(Node)]: cluster_nodes when the threads start
    MaxNodes,        \* XDEVICE_MAX_NODES
    IndexMod,        \* 2^64, the width of next_index and prev_log_index
    Adder,           \* threads that call add_node_to_cluster
    MaxTerm,         \* bound: terms
    MaxLog,          \* bound: entries of a log
    MaxRestarts,     \* bound: crashes of processes
    MaxLate          \* bound: requests in flight whose caller has given up

ASSUME RaftAssumption ==
    /\ IsFiniteSet(Node)
    /\ Nil \notin Node
    /\ InitialCluster \in [Node -> Seq(Node)]
    /\ \A n \in Node : Len(InitialCluster[n]) <= MaxNodes
    /\ MaxNodes \in Nat /\ MaxTerm \in Nat /\ MaxLog \in Nat
    /\ MaxRestarts \in Nat /\ MaxLate \in Nat
    /\ IndexMod \in Nat /\ MaxLog + 1 < IndexMod

VARIABLES
    state,           \* "FOLLOWER", "CANDIDATE" or "LEADER"
    current_term,
    voted_for,
    log_entries,     \* the terms of the entries
    next_index,      \* one cell for each slot of cluster_nodes
    match_index,
    cluster_nodes,   \* the first cluster_size cells
    mutex,           \* the thread that holds the mutex of the node
    slot,            \* the variable of the loop over cluster_nodes, from 1
    votes_received,  \* local variable of the election thread
    adding,          \* the node an add_node caller has checked the size of
    late,            \* requests whose caller got an error, still in flight
    restarts,        \* crashes so far
    ballots,         \* history: <<term, voter, candidate>> of each vote cast
    elected          \* history: <<term, node>> of each election won

nodeVars   == <<state, current_term, voted_for, log_entries>>
leaderVars == <<next_index, match_index>>
loopVars   == <<mutex, slot, votes_received>>
apiVars    == <<cluster_nodes, adding>>
history    == <<ballots, elected>>
vars == <<nodeVars, leaderVars, loopVars, apiVars, late, restarts, history>>

Slots == 1..MaxNodes
Index == 0..(IndexMod - 1)

Request == [type : {"vote", "append"}, to : Node, from : Node, term : 0..MaxTerm,
            index : Index, log_term : 0..MaxTerm]

LastLogTerm(n) == IF log_entries[n] = <<>> THEN 0
                  ELSE log_entries[n][Len(log_entries[n])]

\* cluster_nodes[i].node_id in the iteration the thread of n is in
Peer(n) == cluster_nodes[n][slot[n]]

InLoop(n, thread) == mutex[n] = thread /\ slot[n] <= Len(cluster_nodes[n])
LoopDone(n, thread) == mutex[n] = thread /\ slot[n] > Len(cluster_nodes[n])

\* votes_received = 1: the candidate's own vote
CountOwnVote(n) == votes_received' = [votes_received EXCEPT ![n] = 1]

\* Mutant: the walk asks the same peer again.
SameSlot(n) == UNCHANGED slot

NextSlot(n) == slot' = [slot EXCEPT ![n] = @ + 1]
BreakLoop(n) == slot' = [slot EXCEPT ![n] = Len(cluster_nodes[n]) + 1]

Init ==
    /\ state = [n \in Node |-> "FOLLOWER"]
    /\ current_term = [n \in Node |-> 0]
    /\ voted_for = [n \in Node |-> Nil]
    /\ log_entries = [n \in Node |-> <<>>]
    /\ next_index = [n \in Node |-> [i \in Slots |-> 0]]
    /\ match_index = [n \in Node |-> [i \in Slots |-> 0]]
    /\ cluster_nodes = InitialCluster
    /\ mutex = [n \in Node |-> "free"]
    /\ slot = [n \in Node |-> 1]
    /\ votes_received = [n \in Node |-> 0]
    /\ adding = [a \in Adder |-> Nil]
    /\ late = {}
    /\ restarts = 0
    /\ ballots = {}
    /\ elected = {}

-----------------------------------------------------------------------------
(* The request handlers: external, run under the mutex of the receiver m.to *)

UpToDate(m) ==
    \/ m.log_term > LastLogTerm(m.to)
    \/ /\ m.log_term = LastLogTerm(m.to)
       /\ m.index >= Len(log_entries[m.to])

VoteGranted(m) ==
    /\ \/ m.term > current_term[m.to]
       \/ m.term = current_term[m.to] /\ voted_for[m.to] \in {Nil, m.from}
    /\ UpToDate(m)

HandleVoteRequest(m) ==
    LET p == m.to
        newer == m.term > current_term[p]
    IN  /\ mutex[p] = "free"
        /\ current_term' = [current_term EXCEPT ![p] = IF newer THEN m.term ELSE @]
        /\ state' = [state EXCEPT ![p] = IF newer THEN "FOLLOWER" ELSE @]
        /\ voted_for' = [voted_for EXCEPT ![p] = IF VoteGranted(m) THEN m.from
                                                 ELSE IF newer THEN Nil ELSE @]
        /\ ballots' = IF VoteGranted(m) THEN ballots \cup {<<m.term, p, m.from>>}
                                        ELSE ballots

LogMatches(m) ==
    \/ m.index = 0
    \/ /\ m.index \in DOMAIN log_entries[m.to]
       /\ log_entries[m.to][m.index] = m.log_term

HandleAppendEntries(m) ==
    LET p == m.to
        newer == m.term > current_term[p]
    IN  /\ mutex[p] = "free"
        /\ current_term' = [current_term EXCEPT ![p] = IF newer THEN m.term ELSE @]
        /\ state' = [state EXCEPT ![p] = IF m.term >= current_term[p] THEN "FOLLOWER" ELSE @]
        /\ voted_for' = [voted_for EXCEPT ![p] = IF newer THEN Nil ELSE @]

\* A callback of n returned an error: its request m is lost or still in flight.
CallbackError(m) ==
    \/ late' = late
    \/ Cardinality(late) < MaxLate /\ late' = late \cup {m}

\* Mutant: the vote is cleared but the term is not adopted.
StepDownKeepTerm(n, term) ==
    /\ state' = [state EXCEPT ![n] = "FOLLOWER"]
    /\ voted_for' = [voted_for EXCEPT ![n] = Nil]
    /\ BreakLoop(n)
    /\ UNCHANGED current_term

\* Mutant: the term is adopted but a leader goes on leading.
StepDownKeepState(n, term) ==
    /\ current_term' = [current_term EXCEPT ![n] = term]
    /\ voted_for' = [voted_for EXCEPT ![n] = Nil]
    /\ BreakLoop(n)
    /\ UNCHANGED state

\* A response with a higher term: adopt it, become a follower, leave the loop.
StepDown(n, term) ==
    /\ current_term' = [current_term EXCEPT ![n] = term]
    /\ state' = [state EXCEPT ![n] = "FOLLOWER"]
    /\ voted_for' = [voted_for EXCEPT ![n] = Nil]
    /\ BreakLoop(n)

-----------------------------------------------------------------------------
(* election_thread_func *)

\* The timer has run out: become a candidate and enter the loop.
StartElection(n) ==
    /\ mutex[n] = "free"
    /\ state[n] # "LEADER"
    /\ current_term[n] < MaxTerm
    /\ mutex' = [mutex EXCEPT ![n] = "election"]
    /\ state' = [state EXCEPT ![n] = "CANDIDATE"]
    /\ current_term' = [current_term EXCEPT ![n] = @ + 1]
    /\ voted_for' = [voted_for EXCEPT ![n] = n]
    /\ CountOwnVote(n)
    /\ slot' = [slot EXCEPT ![n] = 1]
    /\ ballots' = ballots \cup {<<current_term[n] + 1, n, n>>}
    /\ UNCHANGED <<log_entries, leaderVars, apiVars, late, restarts, elected>>

VoteRequest(n) ==
    [type |-> "vote", to |-> Peer(n), from |-> n, term |-> current_term[n],
     index |-> Len(log_entries[n]), log_term |-> LastLogTerm(n)]

\* Either loop skips the node itself.
SkipSelf(n) ==
    /\ InLoop(n, "election") \/ InLoop(n, "heartbeat")
    /\ Peer(n) = n
    /\ NextSlot(n)
    /\ UNCHANGED <<nodeVars, leaderVars, mutex, votes_received, apiVars, late,
                   restarts, history>>

\* Mutant: every answer is counted, granted or not.
CountAnswer(n) == votes_received[n] + 1

\* vote_granted is counted.
VotesAfter(n) == IF VoteGranted(VoteRequest(n)) THEN votes_received[n] + 1
                                                ELSE votes_received[n]

\* The peer answers, with a term that is not higher than the candidate's.
VoteAnswered(n) ==
    /\ InLoop(n, "election")
    /\ Peer(n) # n
    /\ current_term[Peer(n)] <= current_term[n]
    /\ HandleVoteRequest(VoteRequest(n))
    /\ votes_received' = [votes_received EXCEPT ![n] = VotesAfter(n)]
    /\ NextSlot(n)
    /\ UNCHANGED <<log_entries, leaderVars, mutex, apiVars, late, restarts, elected>>

\* The peer answers with a higher term; it grants nothing and keeps its state.
VoteRefusedStale(n) ==
    /\ InLoop(n, "election")
    /\ Peer(n) # n
    /\ mutex[Peer(n)] = "free"
    /\ current_term[Peer(n)] > current_term[n]
    /\ StepDown(n, current_term[Peer(n)])
    /\ UNCHANGED <<log_entries, leaderVars, mutex, votes_received, apiVars, late,
                   restarts, history>>

VoteCallbackError(n) ==
    /\ InLoop(n, "election")
    /\ Peer(n) # n
    /\ CallbackError(VoteRequest(n))
    /\ NextSlot(n)
    /\ UNCHANGED <<nodeVars, leaderVars, mutex, votes_received, apiVars, restarts,
                   history>>

\* Mutant: half of the cluster is enough.
HasHalf(n) == votes_received[n] >= Len(cluster_nodes[n]) \div 2

HasMajority(n) == votes_received[n] > Len(cluster_nodes[n]) \div 2

\* The loop is over: the candidate is a leader if it has a majority.
FinishElection(n) ==
    /\ LoopDone(n, "election")
    /\ mutex' = [mutex EXCEPT ![n] = "free"]
    /\ IF state[n] = "CANDIDATE" /\ HasMajority(n)
       THEN /\ state' = [state EXCEPT ![n] = "LEADER"]
            /\ next_index' = [next_index EXCEPT ![n] =
                 [i \in Slots |-> IF i <= Len(cluster_nodes[n])
                                  THEN Len(log_entries[n]) + 1 ELSE @[i]]]
            /\ match_index' = [match_index EXCEPT ![n] =
                 [i \in Slots |-> IF i <= Len(cluster_nodes[n]) THEN 0 ELSE @[i]]]
            /\ elected' = elected \cup {<<current_term[n], n>>}
       ELSE UNCHANGED <<state, leaderVars, elected>>
    /\ UNCHANGED <<current_term, voted_for, log_entries, slot, votes_received,
                   apiVars, late, restarts, ballots>>

-----------------------------------------------------------------------------
(* heartbeat_thread_func *)

StartHeartbeat(n) ==
    /\ mutex[n] = "free"
    /\ state[n] = "LEADER"
    /\ mutex' = [mutex EXCEPT ![n] = "heartbeat"]
    /\ slot' = [slot EXCEPT ![n] = 1]
    /\ UNCHANGED <<nodeVars, leaderVars, votes_received, apiVars, late, restarts,
                   history>>

\* Mutant: next_index is taken for the index before it.
PrevIsNext(n) == next_index[n][slot[n]]

\* next_index[i] - 1 in uint64_t
PrevLogIndex(n) == (next_index[n][slot[n]] + IndexMod - 1) % IndexMod

\* A read outside log_entries may yield anything.
PrevLogTerms(n) ==
    IF PrevLogIndex(n) = 0 THEN {0}
    ELSE IF PrevLogIndex(n) <= Len(log_entries[n])
         THEN {log_entries[n][PrevLogIndex(n)]}
         ELSE 0..MaxTerm

\* entries_count is 0 and leader_commit is commit_index, which stays 0.
AppendRequests(n) ==
    {[type |-> "append", to |-> Peer(n), from |-> n, term |-> current_term[n],
      index |-> PrevLogIndex(n), log_term |-> t] : t \in PrevLogTerms(n)}

\* The peer's log does not match: try one entry earlier.
StepBack(i) == IF i > 1 THEN i - 1 ELSE i

HeartbeatAnswered(n) ==
    /\ InLoop(n, "heartbeat")
    /\ Peer(n) # n
    /\ current_term[Peer(n)] <= current_term[n]
    /\ \E m \in AppendRequests(n) :
         /\ HandleAppendEntries(m)
         /\ \/ /\ LogMatches(m)
               /\ match_index' = [match_index EXCEPT ![n][slot[n]] = m.index]
               /\ next_index' = [next_index EXCEPT ![n][slot[n]] = (m.index + 1) % IndexMod]
            \/ /\ ~LogMatches(m)
               /\ next_index' = [next_index EXCEPT ![n][slot[n]] = StepBack(@)]
               /\ UNCHANGED match_index
    /\ NextSlot(n)
    /\ UNCHANGED <<log_entries, mutex, votes_received, apiVars, late, restarts,
                   history>>

HeartbeatRefusedStale(n) ==
    /\ InLoop(n, "heartbeat")
    /\ Peer(n) # n
    /\ mutex[Peer(n)] = "free"
    /\ current_term[Peer(n)] > current_term[n]
    /\ StepDown(n, current_term[Peer(n)])
    /\ UNCHANGED <<log_entries, leaderVars, mutex, votes_received, apiVars, late,
                   restarts, history>>

HeartbeatCallbackError(n) ==
    /\ InLoop(n, "heartbeat")
    /\ Peer(n) # n
    /\ \E m \in AppendRequests(n) : CallbackError(m)
    /\ NextSlot(n)
    /\ UNCHANGED <<nodeVars, leaderVars, mutex, votes_received, apiVars, restarts,
                   history>>

FinishHeartbeat(n) ==
    /\ LoopDone(n, "heartbeat")
    /\ mutex' = [mutex EXCEPT ![n] = "free"]
    /\ UNCHANGED <<nodeVars, leaderVars, slot, votes_received, apiVars, late,
                   restarts, history>>

\* An iteration of a thread whose timer has not run out: lock, unlock, sleep.
Idle(n) == mutex[n] = "free" /\ UNCHANGED vars

-----------------------------------------------------------------------------
(* Requests handled after their caller gave up, and the interface *)

LateVoteRequest(m) ==
    /\ m.type = "vote"
    /\ HandleVoteRequest(m)
    /\ late' = late \ {m}
    /\ UNCHANGED <<log_entries, leaderVars, loopVars, apiVars, restarts, elected>>

LateAppendEntries(m) ==
    /\ m.type = "append"
    /\ HandleAppendEntries(m)
    /\ late' = late \ {m}
    /\ UNCHANGED <<log_entries, leaderVars, loopVars, apiVars, restarts, history>>

\* xdevice_raft_append_log; only a leader appends, the others return PERMISSION.
AppendLog(n) ==
    /\ mutex[n] = "free"
    /\ state[n] = "LEADER"
    /\ Len(log_entries[n]) < MaxLog
    /\ log_entries' = [log_entries EXCEPT ![n] = Append(@, current_term[n])]
    /\ UNCHANGED <<state, current_term, voted_for, leaderVars, loopVars, apiVars,
                   late, restarts, history>>

HasRoom(n) == Len(cluster_nodes[n]) < MaxNodes

\* xdevice_raft_add_node_to_cluster: cluster_size is read before the lock ...
AddNodeCheck(a, n) ==
    /\ adding[a] = Nil
    /\ HasRoom(n)
    /\ adding' = [adding EXCEPT ![a] = n]
    /\ UNCHANGED <<nodeVars, leaderVars, loopVars, cluster_nodes, late, restarts,
                   history>>

\* ... and the cell is written, and the size incremented, under it.
AddNodeInsert(a, new_node) ==
    LET n == adding[a]
    IN  /\ n # Nil
        /\ mutex[n] = "free"
        /\ cluster_nodes' = [cluster_nodes EXCEPT ![n] = Append(@, new_node)]
        /\ adding' = [adding EXCEPT ![a] = Nil]
        /\ UNCHANGED <<nodeVars, leaderVars, loopVars, late, restarts, history>>

\* The process dies and is created again: nothing of the node is persistent.
Restart(n) ==
    /\ restarts < MaxRestarts
    /\ restarts' = restarts + 1
    /\ state' = [state EXCEPT ![n] = "FOLLOWER"]
    /\ current_term' = [current_term EXCEPT ![n] = 0]
    /\ voted_for' = [voted_for EXCEPT ![n] = Nil]
    /\ log_entries' = [log_entries EXCEPT ![n] = <<>>]
    /\ next_index' = [next_index EXCEPT ![n] = [i \in Slots |-> 0]]
    /\ match_index' = [match_index EXCEPT ![n] = [i \in Slots |-> 0]]
    /\ cluster_nodes' = [cluster_nodes EXCEPT ![n] = InitialCluster[n]]
    /\ mutex' = [mutex EXCEPT ![n] = "free"]
    /\ slot' = [slot EXCEPT ![n] = 1]
    /\ votes_received' = [votes_received EXCEPT ![n] = 0]
    /\ adding' = [a \in Adder |-> IF adding[a] = n THEN Nil ELSE adding[a]]
    /\ UNCHANGED <<late, history>>

-----------------------------------------------------------------------------
ElectionThread(n) ==
    \/ StartElection(n)
    \/ VoteAnswered(n)
    \/ VoteRefusedStale(n)
    \/ VoteCallbackError(n)
    \/ FinishElection(n)

HeartbeatThread(n) ==
    \/ StartHeartbeat(n)
    \/ HeartbeatAnswered(n)
    \/ HeartbeatRefusedStale(n)
    \/ HeartbeatCallbackError(n)
    \/ FinishHeartbeat(n)

Next ==
    \/ \E n \in Node : ElectionThread(n)
    \/ \E n \in Node : HeartbeatThread(n)
    \/ \E n \in Node : SkipSelf(n) \/ Idle(n) \/ AppendLog(n) \/ Restart(n)
    \/ \E m \in late : LateVoteRequest(m) \/ LateAppendEntries(m)
    \/ \E a \in Adder, n \in Node : AddNodeCheck(a, n) \/ AddNodeInsert(a, n)

Spec == Init /\ [][Next]_vars

-----------------------------------------------------------------------------
(* Properties *)

\* Every variable keeps its type.  A walk visits the cells of cluster_nodes
\* once, so a candidate never counts more votes than there are cells plus its
\* own (raft.c:92-124).
TypeOK ==
    /\ state \in [Node -> {"FOLLOWER", "CANDIDATE", "LEADER"}]
    /\ current_term \in [Node -> 0..MaxTerm]
    /\ voted_for \in [Node -> Node \cup {Nil}]
    /\ log_entries \in [Node -> Seq(0..MaxTerm)]
    /\ \A n \in Node : Len(log_entries[n]) <= MaxLog
    /\ next_index \in [Node -> [Slots -> Index]]
    /\ match_index \in [Node -> [Slots -> Index]]
    /\ cluster_nodes \in [Node -> Seq(Node)]
    /\ mutex \in [Node -> {"free", "election", "heartbeat"}]
    /\ slot \in [Node -> 1..(MaxNodes + 1)]
    /\ votes_received \in [Node -> 0..(MaxNodes + 1)]
    /\ adding \in [Adder -> Node \cup {Nil}]
    /\ late \subseteq Request
    /\ restarts \in 0..MaxRestarts
    /\ ballots \subseteq (0..MaxTerm) \X Node \X Node
    /\ elected \subseteq (0..MaxTerm) \X Node

\* No term is ever won by two nodes, whatever votes are delayed, lost or
\* granted after their candidate gave up (raft.c:127-142).
ElectionSafety ==
    \A x, y \in elected : x[1] = y[1] => x[2] = y[2]

\* The heartbeat thread only reads entries that exist: while a node leads, the
\* next_index of every slot it will visit is between 1 and log_size + 1
\* (raft.c:173-176, 195-203).
LeaderIndexInBounds ==
    \A n \in Node : state[n] = "LEADER" =>
        \A i \in 1..Len(cluster_nodes[n]) :
            next_index[n][i] \in 1..(Len(log_entries[n]) + 1)

\* Every entry of a log was appended by that node in a term it had won, and
\* terms never decrease along a log: a leader that learned of a later term
\* appends nothing more (raft.c:115-121, 187-193, 329-332, 349).
EntryOrigin ==
    \A n \in Node :
        /\ \A i \in DOMAIN log_entries[n] : <<log_entries[n][i], n>> \in elected
        /\ \A i, j \in DOMAIN log_entries[n] :
               i < j => log_entries[n][i] <= log_entries[n][j]

\* Unless the process restarts, a node's term never decreases and inside a term
\* a vote, once cast, is neither withdrawn nor moved (raft.c:84-86, 115-119,
\* 187-191).
VoteStable ==
    [][restarts' = restarts =>
         \A n \in Node :
            /\ current_term'[n] >= current_term[n]
            /\ current_term'[n] = current_term[n] =>
                 voted_for[n] \in {Nil, voted_for'[n]}]_vars

\* A node becomes leader only if more than half of the cells of its list, itself
\* counted, hold a node that has voted for it in that term: whatever votes come
\* late, whoever restarts and whoever is added while others campaign
\* (raft.c:84-92, 105-113, 127-132, 309-314).
WonByBallots ==
    [][\A n \in Node : state[n] # "LEADER" /\ state'[n] = "LEADER" =>
         1 + Cardinality({i \in DOMAIN cluster_nodes[n] :
                /\ cluster_nodes[n][i] # n
                /\ <<current_term[n], cluster_nodes[n][i], n>> \in ballots})
           > Len(cluster_nodes[n]) \div 2]_vars

\* What a restart costs: a term has two winners only if a process has restarted
\* and a node has voted for both, the vote it gave first being forgotten
\* (raft.c:127-142, 222-232).
SplitNeedsLostVote ==
    \A x, y \in elected : x[1] = y[1] /\ x[2] # y[2] =>
        /\ restarts > 0
        /\ \E v \in Node : {<<x[1], v, x[2]>>, <<x[1], v, y[2]>>} \subseteq ballots
=============================================================================
