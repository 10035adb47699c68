----------------------------- MODULE RaftProofs -----------------------------
(***************************************************************************)
(* Theorems about Raft, for every number of nodes, every cluster list and  *)
(* every bound.                                                            *)
(*                                                                         *)
(* 1. With at most one thread adding nodes, the types hold.  Two threads   *)
(*    that overlap write past cluster_nodes[] (raft.c:305).                *)
(* 2. Under the same condition votes are stable between restarts.          *)
(* 3. If the membership is fixed before the threads start, no list names a *)
(*    node twice, a majority of each list is a majority of the nodes, and  *)
(*    no process restarts, then no term has two winners.  None of these    *)
(*    can be dropped: raft.c keeps no vote across a restart, and a node    *)
(*    that was told of no other wins alone.                                *)
(* 4. Where log entries come from, and the indices a leader keeps for its  *)
(*    peers.                                                               *)
(* 5. What a restart costs: a leader has its ballots, through restarts and *)
(*    additions too, and a term has two winners only if a voter forgot.    *)
(***************************************************************************)
EXTENDS Raft, FiniteSetTheorems, TLAPS

\* Calls of add_node_to_cluster do not overlap.
SerialAdders == \A a, b \in Adder : a = b

\* cluster_nodes[] is never written past its last cell (raft.c:305-312).
ClusterWithinCapacity == \A n \in Node : Len(cluster_nodes[n]) <= MaxNodes

\* A walk stays inside cluster_nodes and counts at most one vote per cell.
WalkInv ==
    \A n \in Node :
        /\ mutex[n] # "free" => slot[n] <= Len(cluster_nodes[n]) + 1
        /\ mutex[n] = "election" => votes_received[n] <= slot[n]

\* What an add_node caller has seen is still true when it takes the mutex.
AddInv ==
    \A a \in Adder : adding[a] # Nil => Len(cluster_nodes[adding[a]]) < MaxNodes

TypeInv == TypeOK /\ ClusterWithinCapacity /\ WalkInv /\ AddInv

LEMMA ModType ==
    ASSUME NEW a \in Int, NEW M \in Nat, M > 0
    PROVE  a % M \in 0..(M - 1)
  BY SMT

LEMMA SeqElement ==
    ASSUME NEW S, NEW s \in Seq(S), NEW i \in 1..Len(s)
    PROVE  s[i] \in S
  OBVIOUS

LEMMA SeqLength ==
    ASSUME NEW S, NEW s \in Seq(S)
    PROVE  Len(s) \in Nat
  OBVIOUS

\* The last term of a log, and a request built from it, have their types.
LEMMA LastTermType ==
    ASSUME TypeOK, NEW n \in Node
    PROVE  LastLogTerm(n) \in 0..MaxTerm
  BY RaftAssumption DEF TypeOK, LastLogTerm

LEMMA VoteRequestType ==
    ASSUME TypeOK, NEW n \in Node, slot[n] <= Len(cluster_nodes[n])
    PROVE  VoteRequest(n) \in Request
  <1>1. Peer(n) \in Node
    BY DEF TypeOK, Peer
  <1>2. LastLogTerm(n) \in 0..MaxTerm
    BY LastTermType
  <1>3. Len(log_entries[n]) \in Index
    <2>1. log_entries[n] \in Seq(0..MaxTerm) /\ Len(log_entries[n]) <= MaxLog
      BY DEF TypeOK
    <2> QED
      BY <2>1, SeqLength, RaftAssumption DEF Index
  <1> QED
    BY <1>1, <1>2, <1>3 DEF TypeOK, VoteRequest, Request

LEMMA AppendRequestType ==
    ASSUME TypeOK, NEW n \in Node, slot[n] <= Len(cluster_nodes[n]),
           slot[n] \in Slots, NEW m \in AppendRequests(n)
    PROVE  m \in Request /\ m.to = Peer(n) /\ m.from = n /\ m.type = "append"
  <1>1. Peer(n) \in Node
    BY DEF TypeOK, Peer
  <1>2. PrevLogIndex(n) \in Index
    <2>1. next_index[n][slot[n]] \in 0..(IndexMod - 1)
      BY DEF TypeOK, Index
    <2> QED
      BY <2>1, ModType, RaftAssumption DEF PrevLogIndex, Index
  <1>3. ASSUME PrevLogIndex(n) # 0, PrevLogIndex(n) <= Len(log_entries[n])
        PROVE  log_entries[n][PrevLogIndex(n)] \in 0..MaxTerm
    <2>1. PrevLogIndex(n) \in 1..Len(log_entries[n])
      BY <1>2, <1>3, RaftAssumption DEF TypeOK, Index
    <2>2. log_entries[n] \in Seq(0..MaxTerm)
      BY DEF TypeOK
    <2> QED
      BY <2>1, <2>2, SeqElement
  <1>4. PrevLogTerms(n) \subseteq 0..MaxTerm
    BY <1>3, RaftAssumption DEF PrevLogTerms
  <1>5. PICK t \in PrevLogTerms(n) :
           m = [type |-> "append", to |-> Peer(n), from |-> n,
                term |-> current_term[n], index |-> PrevLogIndex(n), log_term |-> t]
    BY DEF AppendRequests
  <1>6. current_term[n] \in 0..MaxTerm
    BY DEF TypeOK
  <1> QED
    BY <1>1, <1>2, <1>4, <1>5, <1>6 DEF Request

\* The handlers preserve the types of what they change.
LEMMA HandleVoteType ==
    ASSUME TypeOK, NEW m \in Request, HandleVoteRequest(m)
    PROVE  /\ state' \in [Node -> {"FOLLOWER", "CANDIDATE", "LEADER"}]
           /\ current_term' \in [Node -> 0..MaxTerm]
           /\ voted_for' \in [Node -> Node \cup {Nil}]
           /\ ballots' \subseteq (0..MaxTerm) \X Node \X Node
  <1>1. m.to \in Node /\ m.from \in Node /\ m.term \in 0..MaxTerm
    BY DEF Request
  <1>2. /\ state' \in [Node -> {"FOLLOWER", "CANDIDATE", "LEADER"}]
        /\ current_term' \in [Node -> 0..MaxTerm]
    BY <1>1 DEF HandleVoteRequest, TypeOK
  <1>3. voted_for' \in [Node -> Node \cup {Nil}]
    BY <1>1 DEF HandleVoteRequest, TypeOK
  <1>4. ballots' \subseteq (0..MaxTerm) \X Node \X Node
    <2>1. <<m.term, m.to, m.from>> \in (0..MaxTerm) \X Node \X Node
      BY <1>1
    <2>2. ballots' = ballots \/ ballots' = ballots \cup {<<m.term, m.to, m.from>>}
      BY DEF HandleVoteRequest
    <2> QED
      BY <2>1, <2>2 DEF TypeOK
  <1> QED
    BY <1>2, <1>3, <1>4

LEMMA HandleAppendType ==
    ASSUME TypeOK, NEW m \in Request, HandleAppendEntries(m)
    PROVE  /\ state' \in [Node -> {"FOLLOWER", "CANDIDATE", "LEADER"}]
           /\ current_term' \in [Node -> 0..MaxTerm]
           /\ voted_for' \in [Node -> Node \cup {Nil}]
  <1>1. m.to \in Node /\ m.from \in Node /\ m.term \in 0..MaxTerm
    BY DEF Request
  <1> QED
    BY <1>1 DEF HandleAppendEntries, TypeOK

LEMMA TypeInit == Init => TypeInv
  <1> SUFFICES ASSUME Init PROVE TypeInv
    OBVIOUS
  <1>1. TypeOK
    BY RaftAssumption DEF Init, TypeOK, Index, Slots
  <1>2. ClusterWithinCapacity /\ WalkInv /\ AddInv
    BY RaftAssumption DEF Init, ClusterWithinCapacity, WalkInv, AddInv
  <1> QED
    BY <1>1, <1>2 DEF TypeInv

LEMMA TypeStartElection ==
    ASSUME TypeInv, NEW n \in Node, StartElection(n)
    PROVE  TypeInv'
  <1> USE RaftAssumption DEF TypeInv, StartElection, CountOwnVote, leaderVars, apiVars
  <1>1. TypeOK'
    <2>1. <<current_term[n] + 1, n, n>> \in (0..MaxTerm) \X Node \X Node
      BY DEF TypeOK
    <2>2. ballots' \subseteq (0..MaxTerm) \X Node \X Node
      BY <2>1 DEF TypeOK
    <2>3. current_term' \in [Node -> 0..MaxTerm]
      BY DEF TypeOK
    <2>4. /\ slot' \in [Node -> 1..(MaxNodes + 1)]
          /\ votes_received' \in [Node -> 0..(MaxNodes + 1)]
      BY DEF TypeOK
    <2>5. /\ mutex' \in [Node -> {"free", "election", "heartbeat"}]
          /\ state' \in [Node -> {"FOLLOWER", "CANDIDATE", "LEADER"}]
          /\ voted_for' \in [Node -> Node \cup {Nil}]
      BY DEF TypeOK
    <2> QED
      BY <2>2, <2>3, <2>4, <2>5 DEF TypeOK
  <1>2. ClusterWithinCapacity'
    BY DEF ClusterWithinCapacity
  <1>3. WalkInv'
    <2>1. Len(cluster_nodes[n]) \in Nat
      BY SeqLength DEF TypeOK
    <2> QED
      BY <2>1 DEF WalkInv, TypeOK
  <1>4. AddInv'
    BY DEF AddInv
  <1> QED
    BY <1>1, <1>2, <1>3, <1>4

\* An iteration of a walk: the slot moves on, and at most one vote is counted.
LEMMA WalkNext ==
    ASSUME TypeInv, NEW n \in Node,
           mutex[n] # "free", slot[n] <= Len(cluster_nodes[n]),
           slot' = [slot EXCEPT ![n] = @ + 1],
           \/ votes_received' = votes_received
           \/ /\ mutex[n] = "election"
              /\ votes_received' = [votes_received EXCEPT ![n] = @ + 1],
           mutex' = mutex, cluster_nodes' = cluster_nodes
    PROVE  /\ slot' \in [Node -> 1..(MaxNodes + 1)]
           /\ votes_received' \in [Node -> 0..(MaxNodes + 1)]
           /\ WalkInv'
  <1> USE DEF TypeInv
  <1>1. /\ Len(cluster_nodes[n]) \in Nat /\ Len(cluster_nodes[n]) <= MaxNodes
        /\ slot[n] \in Nat /\ votes_received[n] \in Nat
    BY SeqLength, RaftAssumption DEF TypeOK, ClusterWithinCapacity
  <1>2. /\ slot \in [Node -> 1..(MaxNodes + 1)]
        /\ votes_received \in [Node -> 0..(MaxNodes + 1)]
    BY DEF TypeOK
  <1>3. slot' \in [Node -> 1..(MaxNodes + 1)]
    <2>1. slot[n] + 1 \in 1..(MaxNodes + 1)
      BY <1>1, RaftAssumption
    <2> QED
      BY <1>2, <2>1
  <1>4. mutex[n] = "election" => votes_received[n] <= slot[n]
    BY DEF WalkInv
  <1>5. votes_received' \in [Node -> 0..(MaxNodes + 1)]
    <2>1. mutex[n] = "election" => votes_received[n] + 1 \in 0..(MaxNodes + 1)
      BY <1>1, <1>4, RaftAssumption
    <2> QED
      BY <1>2, <2>1
  <1>6. ASSUME NEW p \in Node
        PROVE  /\ mutex'[p] # "free" => slot'[p] <= Len(cluster_nodes'[p]) + 1
               /\ mutex'[p] = "election" => votes_received'[p] <= slot'[p]
    <2>1. /\ mutex[p] # "free" => slot[p] <= Len(cluster_nodes[p]) + 1
          /\ mutex[p] = "election" => votes_received[p] <= slot[p]
      BY DEF WalkInv
    <2>2. CASE p = n
      <3>1. slot'[n] = slot[n] + 1 /\ votes_received'[n] <= votes_received[n] + 1
        BY <1>1, <1>2
      <3>2. votes_received'[n] \in Nat
        BY <1>5, RaftAssumption
      <3> QED
        BY <1>1, <2>1, <2>2, <3>1, <3>2
    <2>3. CASE p # n
      BY <1>2, <2>1, <2>3
    <2> QED
      BY <2>2, <2>3
  <1>7. WalkInv'
    BY <1>6 DEF WalkInv
  <1> QED
    BY <1>3, <1>5, <1>7

LEMMA TypeVoteAnswered ==
    ASSUME TypeInv, NEW n \in Node, VoteAnswered(n)
    PROVE  TypeInv'
  <1> USE DEF TypeInv
  <1>1. \/ votes_received' = votes_received
        \/ votes_received' = [votes_received EXCEPT ![n] = @ + 1]
    BY DEF VoteAnswered, VotesAfter, TypeOK
  <1>2. /\ slot[n] <= Len(cluster_nodes[n]) /\ mutex[n] = "election"
        /\ slot' = [slot EXCEPT ![n] = @ + 1]
    BY DEF VoteAnswered, InLoop, NextSlot
  <1>3. UNCHANGED <<mutex, cluster_nodes, adding, log_entries, leaderVars, late,
                    restarts, elected>>
    BY DEF VoteAnswered, apiVars
  <1>4. /\ slot' \in [Node -> 1..(MaxNodes + 1)]
        /\ votes_received' \in [Node -> 0..(MaxNodes + 1)]
        /\ WalkInv'
    BY <1>1, <1>2, <1>3, WalkNext
  <1>5. /\ state' \in [Node -> {"FOLLOWER", "CANDIDATE", "LEADER"}]
        /\ current_term' \in [Node -> 0..MaxTerm]
        /\ voted_for' \in [Node -> Node \cup {Nil}]
        /\ ballots' \subseteq (0..MaxTerm) \X Node \X Node
    <2>1. VoteRequest(n) \in Request
      BY <1>2, VoteRequestType
    <2> QED
      BY <2>1, HandleVoteType DEF VoteAnswered
  <1>6. TypeOK'
    BY <1>3, <1>4, <1>5 DEF TypeOK, leaderVars
  <1>7. ClusterWithinCapacity' /\ AddInv'
    BY <1>3 DEF ClusterWithinCapacity, AddInv
  <1> QED
    BY <1>4, <1>6, <1>7

\* A step of a walk that counts no vote and changes nothing but late.
LEMMA TypeWalkOnly ==
    ASSUME TypeInv, NEW n \in Node, SkipSelf(n) \/ VoteCallbackError(n) \/ HeartbeatCallbackError(n)
    PROVE  TypeInv'
  <1> USE DEF TypeInv
  <1>1. /\ slot[n] <= Len(cluster_nodes[n]) /\ mutex[n] # "free"
        /\ slot' = [slot EXCEPT ![n] = @ + 1]
    BY DEF SkipSelf, VoteCallbackError, HeartbeatCallbackError, InLoop, NextSlot
  <1>2. UNCHANGED <<nodeVars, leaderVars, mutex, votes_received, cluster_nodes,
                    adding, restarts, ballots, elected>>
    BY DEF SkipSelf, VoteCallbackError, HeartbeatCallbackError, apiVars, history
  <1>3. /\ slot' \in [Node -> 1..(MaxNodes + 1)]
        /\ votes_received' \in [Node -> 0..(MaxNodes + 1)]
        /\ WalkInv'
    BY <1>1, <1>2, WalkNext
  <1>4. late' \subseteq Request
    <2>1. CASE SkipSelf(n)
      BY <2>1 DEF SkipSelf, TypeOK
    <2>2. CASE VoteCallbackError(n)
      BY <1>1, <2>2, VoteRequestType DEF VoteCallbackError, CallbackError, TypeOK
    <2>3. CASE HeartbeatCallbackError(n)
      <3>1. slot[n] \in Slots
        BY <1>1, SeqLength, RaftAssumption DEF TypeOK, ClusterWithinCapacity, Slots
      <3>2. PICK m \in AppendRequests(n) : CallbackError(m)
        BY <2>3 DEF HeartbeatCallbackError
      <3>3. m \in Request
        BY <1>1, <3>1, AppendRequestType
      <3> QED
        BY <3>2, <3>3 DEF CallbackError, TypeOK
    <2> QED
      BY <2>1, <2>2, <2>3
  <1>5. TypeOK'
    BY <1>2, <1>3, <1>4 DEF TypeOK, leaderVars, nodeVars
  <1>6. ClusterWithinCapacity' /\ AddInv'
    BY <1>2 DEF ClusterWithinCapacity, AddInv
  <1> QED
    BY <1>3, <1>5, <1>6

LEMMA TypeRefusedStale ==
    ASSUME TypeInv, NEW n \in Node, VoteRefusedStale(n) \/ HeartbeatRefusedStale(n)
    PROVE  TypeInv'
  <1> USE DEF TypeInv
  <1>1. /\ slot[n] <= Len(cluster_nodes[n]) /\ mutex[n] # "free"
        /\ StepDown(n, current_term[Peer(n)])
    BY DEF VoteRefusedStale, HeartbeatRefusedStale, InLoop
  <1>2. UNCHANGED <<log_entries, leaderVars, mutex, votes_received, cluster_nodes,
                    adding, late, restarts, ballots, elected>>
    BY DEF VoteRefusedStale, HeartbeatRefusedStale, apiVars, history
  <1>3. /\ Len(cluster_nodes[n]) \in Nat /\ Len(cluster_nodes[n]) <= MaxNodes
        /\ slot[n] \in Nat /\ slot[n] > 0
    BY SeqLength, RaftAssumption DEF TypeOK, ClusterWithinCapacity
  <1>4. slot' = [slot EXCEPT ![n] = Len(cluster_nodes[n]) + 1]
    BY <1>1 DEF StepDown, BreakLoop
  <1>5. slot' \in [Node -> 1..(MaxNodes + 1)]
    <2>1. slot \in [Node -> 1..(MaxNodes + 1)]
      BY DEF TypeOK
    <2> QED
      BY <1>3, <1>4, <2>1, RaftAssumption
  <1>6. /\ state' \in [Node -> {"FOLLOWER", "CANDIDATE", "LEADER"}]
        /\ current_term' \in [Node -> 0..MaxTerm]
        /\ voted_for' \in [Node -> Node \cup {Nil}]
    <2>1. Peer(n) \in Node
      BY <1>1, <1>3 DEF TypeOK, Peer
    <2> QED
      BY <1>1, <2>1 DEF StepDown, TypeOK
  <1>7. TypeOK'
    BY <1>2, <1>5, <1>6 DEF TypeOK, leaderVars
  <1>8. WalkInv'
    <2> SUFFICES ASSUME NEW p \in Node
                 PROVE  /\ mutex'[p] # "free" => slot'[p] <= Len(cluster_nodes'[p]) + 1
                        /\ mutex'[p] = "election" => votes_received'[p] <= slot'[p]
      BY DEF WalkInv
    <2>1. /\ mutex[p] # "free" => slot[p] <= Len(cluster_nodes[p]) + 1
          /\ mutex[p] = "election" => votes_received[p] <= slot[p]
      BY DEF WalkInv
    <2>2. slot'[n] = Len(cluster_nodes[n]) + 1 /\ votes_received[n] \in Nat
      BY <1>4, RaftAssumption DEF TypeOK
    <2>3. CASE p = n
      BY <1>1, <1>2, <1>3, <2>1, <2>2, <2>3
    <2>4. CASE p # n
      BY <1>2, <1>4, <2>1, <2>4 DEF TypeOK
    <2> QED
      BY <2>3, <2>4
  <1>9. ClusterWithinCapacity' /\ AddInv'
    BY <1>2 DEF ClusterWithinCapacity, AddInv
  <1> QED
    BY <1>7, <1>8, <1>9

LEMMA TypeFinishElection ==
    ASSUME TypeInv, NEW n \in Node, FinishElection(n)
    PROVE  TypeInv'
  <1> USE DEF TypeInv
  <1>1. UNCHANGED <<current_term, voted_for, log_entries, slot, votes_received,
                    cluster_nodes, adding, late, restarts, ballots>>
    BY DEF FinishElection, apiVars
  <1>2. mutex' = [mutex EXCEPT ![n] = "free"]
    BY DEF FinishElection
  <1>3. mutex' \in [Node -> {"free", "election", "heartbeat"}]
    BY <1>2 DEF TypeOK
  <1>4. /\ state' \in [Node -> {"FOLLOWER", "CANDIDATE", "LEADER"}]
        /\ next_index' \in [Node -> [Slots -> Index]]
        /\ match_index' \in [Node -> [Slots -> Index]]
        /\ elected' \subseteq (0..MaxTerm) \X Node
    <2>1. CASE state[n] = "CANDIDATE" /\ HasMajority(n)
      <3>1. Len(log_entries[n]) + 1 \in Index /\ 0 \in Index
        <4>1. log_entries[n] \in Seq(0..MaxTerm) /\ Len(log_entries[n]) <= MaxLog
          BY DEF TypeOK
        <4> QED
          BY <4>1, SeqLength, RaftAssumption DEF Index
      <3>2. /\ state' = [state EXCEPT ![n] = "LEADER"]
            /\ next_index' = [next_index EXCEPT ![n] =
                 [i \in Slots |-> IF i <= Len(cluster_nodes[n])
                                  THEN Len(log_entries[n]) + 1 ELSE @[i]]]
            /\ match_index' = [match_index EXCEPT ![n] =
                 [i \in Slots |-> IF i <= Len(cluster_nodes[n]) THEN 0 ELSE @[i]]]
            /\ elected' = elected \cup {<<current_term[n], n>>}
        BY <2>1 DEF FinishElection
      <3>3. /\ next_index \in [Node -> [Slots -> Index]]
            /\ match_index \in [Node -> [Slots -> Index]]
        BY DEF TypeOK
      <3>4. next_index' \in [Node -> [Slots -> Index]]
        BY <3>1, <3>2, <3>3
      <3>5. match_index' \in [Node -> [Slots -> Index]]
        BY <3>1, <3>2, <3>3
      <3>6. <<current_term[n], n>> \in (0..MaxTerm) \X Node
        BY DEF TypeOK
      <3>7. elected' \subseteq (0..MaxTerm) \X Node
        BY <3>2, <3>6 DEF TypeOK
      <3>8. state' \in [Node -> {"FOLLOWER", "CANDIDATE", "LEADER"}]
        BY <3>2 DEF TypeOK
      <3> QED
        BY <3>4, <3>5, <3>7, <3>8
    <2>2. CASE ~(state[n] = "CANDIDATE" /\ HasMajority(n))
      BY <2>2 DEF FinishElection, TypeOK, leaderVars
    <2> QED
      BY <2>1, <2>2
  <1>5. TypeOK'
    BY <1>1, <1>3, <1>4 DEF TypeOK
  <1>6. WalkInv'
    BY <1>1, <1>2 DEF WalkInv, TypeOK
  <1>7. ClusterWithinCapacity' /\ AddInv'
    BY <1>1 DEF ClusterWithinCapacity, AddInv
  <1> QED
    BY <1>5, <1>6, <1>7

LEMMA TypeHeartbeatEnds ==
    ASSUME TypeInv, NEW n \in Node, StartHeartbeat(n) \/ FinishHeartbeat(n)
    PROVE  TypeInv'
  <1> USE DEF TypeInv
  <1>1. UNCHANGED <<nodeVars, leaderVars, votes_received, cluster_nodes, adding,
                    late, restarts, ballots, elected>>
    BY DEF StartHeartbeat, FinishHeartbeat, apiVars, history
  <1>2. CASE StartHeartbeat(n)
    <2>1. /\ mutex' = [mutex EXCEPT ![n] = "heartbeat"]
          /\ slot' = [slot EXCEPT ![n] = 1]
      BY <1>2 DEF StartHeartbeat
    <2>2. /\ mutex' \in [Node -> {"free", "election", "heartbeat"}]
          /\ slot' \in [Node -> 1..(MaxNodes + 1)]
      BY <2>1, RaftAssumption DEF TypeOK
    <2>3. TypeOK'
      BY <1>1, <2>2 DEF TypeOK, leaderVars, nodeVars
    <2>4. Len(cluster_nodes[n]) \in Nat
      BY SeqLength DEF TypeOK
    <2>5. WalkInv'
      BY <1>1, <2>1, <2>4 DEF WalkInv, TypeOK
    <2> QED
      BY <1>1, <2>3, <2>5 DEF ClusterWithinCapacity, AddInv
  <1>3. CASE FinishHeartbeat(n)
    <2>1. mutex' = [mutex EXCEPT ![n] = "free"] /\ slot' = slot
      BY <1>3 DEF FinishHeartbeat
    <2>2. mutex' \in [Node -> {"free", "election", "heartbeat"}]
      BY <2>1 DEF TypeOK
    <2>3. TypeOK'
      BY <1>1, <2>1, <2>2 DEF TypeOK, leaderVars, nodeVars
    <2>4. WalkInv'
      BY <1>1, <2>1 DEF WalkInv, TypeOK
    <2> QED
      BY <1>1, <2>3, <2>4 DEF ClusterWithinCapacity, AddInv
  <1> QED
    BY <1>2, <1>3

LEMMA SlotUpdate ==
    ASSUME NEW f \in [Node -> [Slots -> Index]], NEW n \in Node, NEW i \in Slots,
           NEW v \in Index
    PROVE  [f EXCEPT ![n][i] = v] \in [Node -> [Slots -> Index]]
  OBVIOUS

LEMMA TypeHeartbeatAnswered ==
    ASSUME TypeInv, NEW n \in Node, HeartbeatAnswered(n)
    PROVE  TypeInv'
  <1> USE DEF TypeInv
  <1>1. /\ slot[n] <= Len(cluster_nodes[n]) /\ mutex[n] # "free"
        /\ slot' = [slot EXCEPT ![n] = @ + 1]
    BY DEF HeartbeatAnswered, InLoop, NextSlot
  <1>2. UNCHANGED <<log_entries, mutex, votes_received, cluster_nodes, adding, late,
                    restarts, ballots, elected>>
    BY DEF HeartbeatAnswered, apiVars, history
  <1>3. /\ slot' \in [Node -> 1..(MaxNodes + 1)]
        /\ votes_received' \in [Node -> 0..(MaxNodes + 1)]
        /\ WalkInv'
    BY <1>1, <1>2, WalkNext
  <1>4. slot[n] \in Slots
    BY <1>1, SeqLength, RaftAssumption DEF TypeOK, ClusterWithinCapacity, Slots
  <1>5. PICK m \in AppendRequests(n) :
           /\ HandleAppendEntries(m)
           /\ \/ /\ match_index' = [match_index EXCEPT ![n][slot[n]] = m.index]
                 /\ next_index' = [next_index EXCEPT ![n][slot[n]] = (m.index + 1) % IndexMod]
              \/ /\ next_index' = [next_index EXCEPT ![n][slot[n]] = StepBack(@)]
                 /\ UNCHANGED match_index
    BY DEF HeartbeatAnswered
  <1>6. m \in Request
    BY <1>1, <1>4, AppendRequestType
  <1>7. m.index \in Index /\ (m.index + 1) % IndexMod \in Index
    <2>1. m.index \in 0..(IndexMod - 1)
      BY <1>6 DEF Request, Index
    <2> QED
      BY <2>1, ModType, RaftAssumption DEF Index
  <1>8. StepBack(next_index[n][slot[n]]) \in Index
    <2>1. next_index[n][slot[n]] \in 0..(IndexMod - 1)
      BY <1>4 DEF TypeOK, Index
    <2> QED
      BY <2>1, RaftAssumption DEF StepBack, Index
  <1>9. /\ next_index' \in [Node -> [Slots -> Index]]
        /\ match_index' \in [Node -> [Slots -> Index]]
    <2>1. /\ next_index \in [Node -> [Slots -> Index]]
          /\ match_index \in [Node -> [Slots -> Index]]
      BY DEF TypeOK
    <2>2. /\ [match_index EXCEPT ![n][slot[n]] = m.index] \in [Node -> [Slots -> Index]]
          /\ [next_index EXCEPT ![n][slot[n]] = (m.index + 1) % IndexMod]
                \in [Node -> [Slots -> Index]]
      BY <1>4, <1>7, <2>1, SlotUpdate
    <2>3. [next_index EXCEPT ![n][slot[n]] = StepBack(@)] \in [Node -> [Slots -> Index]]
      BY <1>4, <1>8, <2>1, SlotUpdate
    <2> QED
      BY <1>5, <2>1, <2>2, <2>3
  <1>10. /\ state' \in [Node -> {"FOLLOWER", "CANDIDATE", "LEADER"}]
         /\ current_term' \in [Node -> 0..MaxTerm]
         /\ voted_for' \in [Node -> Node \cup {Nil}]
    BY <1>5, <1>6, HandleAppendType
  <1>11. TypeOK'
    BY <1>2, <1>3, <1>9, <1>10 DEF TypeOK
  <1>12. ClusterWithinCapacity' /\ AddInv'
    BY <1>2 DEF ClusterWithinCapacity, AddInv
  <1> QED
    BY <1>3, <1>11, <1>12

LEMMA TypeLate ==
    ASSUME TypeInv, NEW m \in late, LateVoteRequest(m) \/ LateAppendEntries(m)
    PROVE  TypeInv'
  <1> USE DEF TypeInv
  <1>1. m \in Request
    BY DEF TypeOK
  <1>2. UNCHANGED <<log_entries, leaderVars, loopVars, cluster_nodes, adding,
                    restarts, elected>>
    BY DEF LateVoteRequest, LateAppendEntries, apiVars, history
  <1>3. late' = late \ {m}
    BY DEF LateVoteRequest, LateAppendEntries
  <1>4. /\ state' \in [Node -> {"FOLLOWER", "CANDIDATE", "LEADER"}]
        /\ current_term' \in [Node -> 0..MaxTerm]
        /\ voted_for' \in [Node -> Node \cup {Nil}]
        /\ ballots' \subseteq (0..MaxTerm) \X Node \X Node
    <2>1. CASE LateVoteRequest(m)
      BY <1>1, <2>1, HandleVoteType DEF LateVoteRequest
    <2>2. CASE LateAppendEntries(m)
      <3>1. ballots' = ballots
        BY <2>2 DEF LateAppendEntries, history
      <3>2. ballots \subseteq (0..MaxTerm) \X Node \X Node
        BY DEF TypeOK
      <3> QED
        BY <1>1, <2>2, <3>1, <3>2, HandleAppendType DEF LateAppendEntries
    <2> QED
      BY <2>1, <2>2
  <1>5. TypeOK'
    BY <1>2, <1>3, <1>4 DEF TypeOK, leaderVars, loopVars
  <1>6. ClusterWithinCapacity' /\ WalkInv' /\ AddInv'
    BY <1>2 DEF ClusterWithinCapacity, WalkInv, AddInv, loopVars
  <1> QED
    BY <1>5, <1>6

LEMMA AppendType ==
    ASSUME NEW S, NEW s \in Seq(S), NEW e \in S
    PROVE  Append(s, e) \in Seq(S) /\ Len(Append(s, e)) = Len(s) + 1
  OBVIOUS

LEMMA TypeAppendLog ==
    ASSUME TypeInv, NEW n \in Node, AppendLog(n)
    PROVE  TypeInv'
  <1> USE DEF TypeInv
  <1>1. UNCHANGED <<state, current_term, voted_for, leaderVars, loopVars,
                    cluster_nodes, adding, late, restarts, ballots, elected>>
    BY DEF AppendLog, apiVars, history
  <1>2. /\ log_entries' = [log_entries EXCEPT ![n] = Append(@, current_term[n])]
        /\ Len(log_entries[n]) < MaxLog
    BY DEF AppendLog
  <1>3. log_entries[n] \in Seq(0..MaxTerm) /\ current_term[n] \in 0..MaxTerm
    BY DEF TypeOK
  <1>4. /\ Append(log_entries[n], current_term[n]) \in Seq(0..MaxTerm)
        /\ Len(Append(log_entries[n], current_term[n])) <= MaxLog
    BY <1>2, <1>3, AppendType, SeqLength, RaftAssumption
  <1>5. /\ log_entries' \in [Node -> Seq(0..MaxTerm)]
        /\ \A p \in Node : Len(log_entries'[p]) <= MaxLog
    BY <1>2, <1>4 DEF TypeOK
  <1>6. TypeOK'
    BY <1>1, <1>5 DEF TypeOK, leaderVars, loopVars
  <1>7. ClusterWithinCapacity' /\ WalkInv' /\ AddInv'
    BY <1>1 DEF ClusterWithinCapacity, WalkInv, AddInv, loopVars
  <1> QED
    BY <1>6, <1>7

LEMMA TypeAddNode ==
    ASSUME SerialAdders, TypeInv, NEW a \in Adder, NEW new_node \in Node,
           AddNodeCheck(a, new_node) \/ AddNodeInsert(a, new_node)
    PROVE  TypeInv'
  <1> USE DEF TypeInv
  <1>1. UNCHANGED <<nodeVars, leaderVars, loopVars, late, restarts, history>>
    BY DEF AddNodeCheck, AddNodeInsert
  <1>2. CASE AddNodeCheck(a, new_node)
    <2>1. /\ adding' = [adding EXCEPT ![a] = new_node]
          /\ cluster_nodes' = cluster_nodes
          /\ Len(cluster_nodes[new_node]) < MaxNodes
      BY <1>2 DEF AddNodeCheck, HasRoom
    <2>2. adding' \in [Adder -> Node \cup {Nil}]
      BY <2>1 DEF TypeOK
    <2>3. TypeOK'
      BY <1>1, <2>1, <2>2 DEF TypeOK, nodeVars, leaderVars, loopVars, history
    <2>4. ClusterWithinCapacity' /\ WalkInv'
      BY <1>1, <2>1 DEF ClusterWithinCapacity, WalkInv, loopVars
    <2>5. AddInv'
      BY <2>1 DEF AddInv, TypeOK
    <2> QED
      BY <2>3, <2>4, <2>5
  <1>3. CASE AddNodeInsert(a, new_node)
    <2>1. PICK n \in Node :
            /\ n = adding[a] /\ n # Nil /\ mutex[n] = "free"
            /\ cluster_nodes' = [cluster_nodes EXCEPT ![n] = Append(@, new_node)]
            /\ adding' = [adding EXCEPT ![a] = Nil]
      BY <1>3 DEF AddNodeInsert, TypeOK
    <2>2. Len(cluster_nodes[n]) < MaxNodes /\ cluster_nodes[n] \in Seq(Node)
      BY <2>1 DEF AddInv, TypeOK
    <2>3. /\ Append(cluster_nodes[n], new_node) \in Seq(Node)
          /\ Len(Append(cluster_nodes[n], new_node)) <= MaxNodes
      BY <2>2, AppendType, SeqLength, RaftAssumption
    <2>4. cluster_nodes' \in [Node -> Seq(Node)]
      BY <2>1, <2>3 DEF TypeOK
    <2>5. adding' \in [Adder -> Node \cup {Nil}]
      BY <2>1 DEF TypeOK
    <2>6. TypeOK'
      BY <1>1, <2>4, <2>5 DEF TypeOK, nodeVars, leaderVars, loopVars, history
    <2>7. ClusterWithinCapacity'
      BY <2>1, <2>3 DEF ClusterWithinCapacity, TypeOK
    <2>8. WalkInv'
      BY <1>1, <2>1 DEF WalkInv, TypeOK, loopVars
    <2>9. AddInv'
      BY <2>1 DEF AddInv, SerialAdders, TypeOK
    <2> QED
      BY <2>6, <2>7, <2>8, <2>9
  <1> QED
    BY <1>2, <1>3

LEMMA TypeRestart ==
    ASSUME TypeInv, NEW n \in Node, Restart(n)
    PROVE  TypeInv'
  <1> USE DEF TypeInv
  <1>1. UNCHANGED <<late, ballots, elected>>
    BY DEF Restart, history
  <1>2. /\ state' \in [Node -> {"FOLLOWER", "CANDIDATE", "LEADER"}]
        /\ current_term' \in [Node -> 0..MaxTerm]
        /\ voted_for' \in [Node -> Node \cup {Nil}]
        /\ mutex' \in [Node -> {"free", "election", "heartbeat"}]
    BY RaftAssumption DEF Restart, TypeOK
  <1>3. /\ slot' \in [Node -> 1..(MaxNodes + 1)]
        /\ votes_received' \in [Node -> 0..(MaxNodes + 1)]
        /\ restarts' \in 0..MaxRestarts
    BY RaftAssumption DEF Restart, TypeOK
  <1>4. /\ next_index' \in [Node -> [Slots -> Index]]
        /\ match_index' \in [Node -> [Slots -> Index]]
    <2>1. [i \in Slots |-> 0] \in [Slots -> Index]
      BY RaftAssumption DEF Index
    <2> QED
      BY <2>1 DEF Restart, TypeOK
  <1>5. /\ log_entries' \in [Node -> Seq(0..MaxTerm)]
        /\ \A p \in Node : Len(log_entries'[p]) <= MaxLog
    <2>1. log_entries' = [log_entries EXCEPT ![n] = <<>>]
      BY DEF Restart
    <2>2. <<>> \in Seq(0..MaxTerm) /\ Len(<<>>) <= MaxLog
      BY RaftAssumption
    <2> QED
      BY <2>1, <2>2 DEF TypeOK
  <1>6. /\ cluster_nodes' = [cluster_nodes EXCEPT ![n] = InitialCluster[n]]
        /\ cluster_nodes' \in [Node -> Seq(Node)]
    BY RaftAssumption DEF Restart, TypeOK
  <1>7. /\ adding' = [a \in Adder |-> IF adding[a] = n THEN Nil ELSE adding[a]]
        /\ adding' \in [Adder -> Node \cup {Nil}]
    BY DEF Restart, TypeOK
  <1>8. TypeOK'
    BY <1>1, <1>2, <1>3, <1>4, <1>5, <1>6, <1>7 DEF TypeOK
  <1>9. ClusterWithinCapacity'
    BY <1>6, RaftAssumption DEF ClusterWithinCapacity, TypeOK
  <1>10. WalkInv'
    BY <1>6 DEF WalkInv, Restart, TypeOK
  <1>11. AddInv'
    BY <1>6, <1>7 DEF AddInv, TypeOK
  <1> QED
    BY <1>8, <1>9, <1>10, <1>11

LEMMA TypeNext ==
    ASSUME SerialAdders, TypeInv, [Next]_vars
    PROVE  TypeInv'
  <1>1. ASSUME NEW n \in Node, ElectionThread(n) PROVE TypeInv'
    BY <1>1, TypeStartElection, TypeVoteAnswered, TypeRefusedStale, TypeWalkOnly,
       TypeFinishElection DEF ElectionThread
  <1>2. ASSUME NEW n \in Node, HeartbeatThread(n) PROVE TypeInv'
    BY <1>2, TypeHeartbeatEnds, TypeHeartbeatAnswered, TypeRefusedStale, TypeWalkOnly
       DEF HeartbeatThread
  <1>3. CASE UNCHANGED vars
    <2>1. UNCHANGED <<state, current_term, voted_for, log_entries, next_index,
                      match_index, mutex, slot, votes_received, cluster_nodes, adding,
                      late, restarts, ballots, elected>>
      BY <1>3 DEF vars, nodeVars, leaderVars, loopVars, apiVars, history
    <2> QED
      BY <2>1 DEF TypeInv, TypeOK, ClusterWithinCapacity, WalkInv, AddInv
  <1>4. ASSUME NEW n \in Node, SkipSelf(n) \/ Idle(n) \/ AppendLog(n) \/ Restart(n)
        PROVE  TypeInv'
    BY <1>3, <1>4, TypeWalkOnly, TypeAppendLog, TypeRestart DEF Idle
  <1> QED
    BY <1>1, <1>2, <1>3, <1>4, TypeLate, TypeAddNode DEF Next

\* When calls of add_node_to_cluster do not overlap, every variable keeps its
\* type: no walk leaves cluster_nodes and no vote counter leaves its range.
THEOREM TypeCorrect ==
    ASSUME SerialAdders
    PROVE  Spec => []TypeOK
  <1>1. TypeInv => TypeOK
    BY DEF TypeInv
  <1>2. TypeInv /\ [Next]_vars => TypeInv'
    BY TypeNext
  <1> QED
    BY <1>1, <1>2, TypeInit, PTL DEF Spec

-----------------------------------------------------------------------------
(* Votes *)

VotesKept ==
    \A n \in Node :
        /\ current_term'[n] >= current_term[n]
        /\ current_term'[n] = current_term[n] =>
             voted_for[n] \in {Nil, voted_for'[n]}

LEMMA VotesUntouched ==
    ASSUME TypeOK, UNCHANGED <<current_term, voted_for>>
    PROVE  VotesKept
  <1>1. \A n \in Node : current_term[n] \in Nat
    BY RaftAssumption DEF TypeOK
  <1> QED
    BY <1>1 DEF VotesKept

\* A handler grants a vote only to who has it already, to the first who asks in
\* the term, or in a newer term.
LEMMA VotesHandled ==
    ASSUME TypeOK, NEW m \in Request, HandleVoteRequest(m) \/ HandleAppendEntries(m)
    PROVE  VotesKept
  <1>1. m.to \in Node /\ m.term \in Nat
    BY RaftAssumption DEF Request
  <1>2. /\ current_term \in [Node -> Nat] /\ voted_for \in [Node -> Node \cup {Nil}]
    BY RaftAssumption DEF TypeOK
  <1>3. current_term' = [current_term EXCEPT ![m.to] =
                            IF m.term > current_term[m.to] THEN m.term ELSE @]
    BY DEF HandleVoteRequest, HandleAppendEntries
  <1>4. /\ \A n \in Node : n # m.to => voted_for'[n] = voted_for[n]
        /\ \/ m.term > current_term[m.to]
           \/ voted_for'[m.to] = voted_for[m.to]
           \/ voted_for[m.to] \in {Nil, m.from} /\ voted_for'[m.to] = m.from
    BY <1>1, <1>2 DEF HandleVoteRequest, HandleAppendEntries, VoteGranted
  <1> QED
    BY <1>1, <1>2, <1>3, <1>4 DEF VotesKept

LEMMA VotesAfterStepDown ==
    ASSUME TypeOK, NEW n \in Node, NEW term \in Nat, term > current_term[n],
           StepDown(n, term)
    PROVE  VotesKept
  <1>1. current_term \in [Node -> Nat] /\ voted_for \in [Node -> Node \cup {Nil}]
    BY RaftAssumption DEF TypeOK
  <1>2. /\ current_term' = [current_term EXCEPT ![n] = term]
        /\ voted_for' = [voted_for EXCEPT ![n] = Nil]
    BY DEF StepDown
  <1> QED
    BY <1>1, <1>2 DEF VotesKept

LEMMA VotesElection ==
    ASSUME TypeInv, NEW n \in Node, ElectionThread(n)
    PROVE  VotesKept
  <1>0. TypeOK
    BY DEF TypeInv
  <1>a. current_term \in [Node -> Nat] /\ voted_for \in [Node -> Node \cup {Nil}]
    BY <1>0, RaftAssumption DEF TypeOK
  <1>1. CASE StartElection(n)
    BY <1>a, <1>1 DEF StartElection, VotesKept
  <1>2. CASE VoteAnswered(n)
    <2>1. VoteRequest(n) \in Request /\ HandleVoteRequest(VoteRequest(n))
      BY <1>0, <1>2, VoteRequestType DEF VoteAnswered, InLoop
    <2> QED
      BY <1>0, <2>1, VotesHandled
  <1>3. CASE VoteRefusedStale(n)
    <2>1. Peer(n) \in Node
      BY <1>0, <1>3 DEF VoteRefusedStale, InLoop, Peer, TypeOK
    <2> QED
      BY <1>0, <1>a, <1>3, <2>1, VotesAfterStepDown DEF VoteRefusedStale
  <1>4. CASE VoteCallbackError(n) \/ FinishElection(n)
    BY <1>0, <1>4, VotesUntouched DEF VoteCallbackError, FinishElection, nodeVars
  <1> QED
    BY <1>1, <1>2, <1>3, <1>4 DEF ElectionThread

LEMMA VotesHeartbeat ==
    ASSUME TypeInv, NEW n \in Node, HeartbeatThread(n)
    PROVE  VotesKept
  <1>0. TypeOK
    BY DEF TypeInv
  <1>a. current_term \in [Node -> Nat]
    BY <1>0, RaftAssumption DEF TypeOK
  <1>1. CASE HeartbeatAnswered(n)
    <2>1. PICK m \in AppendRequests(n) : HandleAppendEntries(m)
      BY <1>1 DEF HeartbeatAnswered
    <2>2. slot[n] <= Len(cluster_nodes[n])
      BY <1>1 DEF HeartbeatAnswered, InLoop
    <2>3. slot[n] \in Slots
      BY <1>0, <2>2, SeqLength, RaftAssumption DEF TypeInv, TypeOK, ClusterWithinCapacity, Slots
    <2>4. m \in Request
      BY <1>0, <2>2, <2>3, AppendRequestType
    <2> QED
      BY <1>0, <2>1, <2>4, VotesHandled
  <1>2. CASE HeartbeatRefusedStale(n)
    <2>1. Peer(n) \in Node
      BY <1>0, <1>2 DEF HeartbeatRefusedStale, InLoop, Peer, TypeOK
    <2> QED
      BY <1>0, <1>a, <1>2, <2>1, VotesAfterStepDown DEF HeartbeatRefusedStale
  <1>3. CASE StartHeartbeat(n) \/ HeartbeatCallbackError(n) \/ FinishHeartbeat(n)
    BY <1>0, <1>3, VotesUntouched
       DEF StartHeartbeat, HeartbeatCallbackError, FinishHeartbeat, nodeVars
  <1> QED
    BY <1>1, <1>2, <1>3 DEF HeartbeatThread

LEMMA VotesNext ==
    ASSUME TypeInv, Next, restarts' = restarts
    PROVE  VotesKept
  <1>0. TypeOK
    BY DEF TypeInv
  <1>1. ASSUME NEW n \in Node, SkipSelf(n) \/ Idle(n) \/ AppendLog(n) \/ Restart(n)
        PROVE  VotesKept
    <2>1. ~Restart(n)
      BY <1>0 DEF Restart, TypeOK
    <2> QED
      BY <1>0, <1>1, <2>1, VotesUntouched DEF SkipSelf, Idle, AppendLog, nodeVars, vars
  <1>2. ASSUME NEW m \in late, LateVoteRequest(m) \/ LateAppendEntries(m)
        PROVE  VotesKept
    <2>1. m \in Request
      BY <1>0 DEF TypeOK
    <2> QED
      BY <1>0, <1>2, <2>1, VotesHandled DEF LateVoteRequest, LateAppendEntries
  <1>3. ASSUME NEW a \in Adder, NEW n \in Node, AddNodeCheck(a, n) \/ AddNodeInsert(a, n)
        PROVE  VotesKept
    BY <1>0, <1>3, VotesUntouched DEF AddNodeCheck, AddNodeInsert, nodeVars
  <1> QED
    BY <1>1, <1>2, <1>3, VotesElection, VotesHeartbeat DEF Next

\* Between restarts the term of a node does not fall and a vote, once cast in a
\* term, is neither withdrawn nor moved, for any number of nodes and any order of
\* their requests (raft.c:84-86, 115-119, 187-191).
THEOREM VotesStay ==
    ASSUME SerialAdders
    PROVE  Spec => VoteStable
  <1>1. TypeInv /\ [Next]_vars => TypeInv'
    BY TypeNext
  <1>2. TypeInv /\ [Next]_vars =>
            [restarts' = restarts =>
               \A n \in Node :
                  /\ current_term'[n] >= current_term[n]
                  /\ current_term'[n] = current_term[n] =>
                       voted_for[n] \in {Nil, voted_for'[n]}]_vars
    BY VotesNext DEF VotesKept
  <1> QED
    BY <1>1, <1>2, TypeInit, PTL DEF Spec, VoteStable

-----------------------------------------------------------------------------
(* One winner per term *)

\* Nobody is added, no list names a node twice and a majority of each list is a
\* majority of the nodes.
FixedLists ==
    /\ Adder = {}
    /\ \A n \in Node :
         /\ \A i, j \in 1..Len(InitialCluster[n]) :
               InitialCluster[n][i] = InitialCluster[n][j] => i = j
         /\ 2 * (Len(InitialCluster[n]) \div 2 + 1) > Cardinality(Node)

StaticCluster == FixedLists /\ MaxRestarts = 0

\* The nodes that have voted for c in term t.
Voters(t, c) == {v \in Node : <<t, v, c>> \in ballots}

\* The nodes a walk of n has come to so far, and n itself.
Visited(n) == {n} \cup {cluster_nodes[n][j] : j \in 1..(slot[n] - 1)}

Campaigning(n) == mutex[n] = "election" /\ state[n] = "CANDIDATE"

\* A ballot belongs to a term that its voter and its candidate have reached, and
\* a voter still in that term remembers it.
BallotInv ==
    \A t \in 0..MaxTerm, v, c \in Node : <<t, v, c>> \in ballots =>
        /\ t <= current_term[v]
        /\ t = current_term[v] => voted_for[v] = c
        /\ t <= current_term[c]

\* Nobody votes twice in a term.
BallotOnce ==
    \A t \in 0..MaxTerm, v, c, d \in Node :
        <<t, v, c>> \in ballots /\ <<t, v, d>> \in ballots => c = d

\* A late vote request comes from a peer its candidate has already passed.
LateInv ==
    \A m \in late : m.type = "vote" =>
        /\ m.term <= current_term[m.from]
        /\ m.term = current_term[m.from] /\ Campaigning(m.from) => m.to \in Visited(m.from)

\* A candidate counts no vote that was not cast for it in this term.
CountInv ==
    \A n \in Node : Campaigning(n) =>
        /\ Voters(current_term[n], n) \subseteq Visited(n)
        /\ votes_received[n] <= Cardinality(Voters(current_term[n], n))

\* Whoever won a term has the votes of a majority in it.
WinInv ==
    \A t \in 0..MaxTerm, n \in Node : <<t, n>> \in elected =>
        2 * Cardinality(Voters(t, n)) > Cardinality(Node)

ElectionInv ==
    /\ cluster_nodes = InitialCluster
    /\ BallotInv
    /\ BallotOnce
    /\ LateInv
    /\ CountInv
    /\ WinInv

-----------------------------------------------------------------------------
(* Facts about sets of voters *)

LEMMA VotersFinite ==
    ASSUME NEW t, NEW c
    PROVE  /\ IsFiniteSet(Voters(t, c))
           /\ Cardinality(Voters(t, c)) \in Nat
           /\ Voters(t, c) \subseteq Node
  <1>1. Voters(t, c) \subseteq Node
    BY DEF Voters
  <1>2. IsFiniteSet(Voters(t, c))
    BY <1>1, RaftAssumption, FS_Subset
  <1> QED
    BY <1>1, <1>2, FS_CardinalityType

\* Votes are never taken back, so no count of them decreases.
LEMMA VotersGrow ==
    ASSUME NEW t, NEW c, ballots \subseteq ballots'
    PROVE  Cardinality(Voters(t, c)) <= Cardinality(Voters(t, c)')
  <1>1. Voters(t, c) \subseteq Voters(t, c)' /\ Voters(t, c)' \subseteq Node
    BY DEF Voters
  <1>2. IsFiniteSet(Voters(t, c)')
    BY <1>1, RaftAssumption, FS_Subset
  <1> QED
    BY <1>1, <1>2, FS_Subset

\* An old majority is still one.
LEMMA WinKept ==
    ASSUME WinInv, elected' = elected, ballots \subseteq ballots'
    PROVE  WinInv'
  <1> SUFFICES ASSUME NEW t \in 0..MaxTerm, NEW n \in Node, <<t, n>> \in elected'
               PROVE  2 * Cardinality(Voters(t, n)') > Cardinality(Node)
    BY DEF WinInv
  <1>1. 2 * Cardinality(Voters(t, n)) > Cardinality(Node)
    BY DEF WinInv
  <1>2. Cardinality(Voters(t, n)) <= Cardinality(Voters(t, n)')
    BY VotersGrow
  <1>3. /\ Cardinality(Voters(t, n)) \in Nat
        /\ Cardinality(Voters(t, n)') \in Nat
        /\ Cardinality(Node) \in Nat
    <2>1. Voters(t, n)' \subseteq Node
      BY DEF Voters
    <2>2. IsFiniteSet(Voters(t, n)')
      BY <2>1, RaftAssumption, FS_Subset
    <2> QED
      BY <2>2, VotersFinite, RaftAssumption, FS_CardinalityType
  <1> QED
    BY <1>1, <1>2, <1>3

\* Two majorities share a voter.
LEMMA CommonVoter ==
    ASSUME TypeOK, WinInv, NEW x \in elected, NEW y \in elected, x[1] = y[1]
    PROVE  \E v \in Node : <<x[1], v, x[2]>> \in ballots /\ <<x[1], v, y[2]>> \in ballots
  <1>1. /\ x[1] \in 0..MaxTerm /\ x[2] \in Node /\ x = <<x[1], x[2]>>
        /\ y[2] \in Node /\ y = <<y[1], y[2]>>
    BY DEF TypeOK
  <1>2. /\ 2 * Cardinality(Voters(x[1], x[2])) > Cardinality(Node)
        /\ 2 * Cardinality(Voters(x[1], y[2])) > Cardinality(Node)
    BY <1>1 DEF WinInv
  <1>3. Voters(x[1], x[2]) \cap Voters(x[1], y[2]) # {}
    <2>1. /\ Cardinality(Voters(x[1], x[2])) \in Nat /\ Voters(x[1], x[2]) \subseteq Node
          /\ Cardinality(Voters(x[1], y[2])) \in Nat /\ Voters(x[1], y[2]) \subseteq Node
          /\ Cardinality(Node) \in Nat
      BY VotersFinite, RaftAssumption, FS_CardinalityType
    <2>2. Cardinality(Voters(x[1], x[2])) + Cardinality(Voters(x[1], y[2])) > Cardinality(Node)
      BY <1>2, <2>1
    <2> QED
      BY <2>1, <2>2, RaftAssumption, FS_MajoritiesIntersect
  <1> QED
    BY <1>3 DEF Voters

\* A voter has one ballot a term.
LEMMA OneWinner == TypeOK /\ ElectionInv => ElectionSafety
  <1> SUFFICES ASSUME TypeOK, ElectionInv, NEW x \in elected, NEW y \in elected,
                      x[1] = y[1]
               PROVE  x[2] = y[2]
    BY DEF ElectionSafety
  <1>1. x[1] \in 0..MaxTerm /\ x[2] \in Node /\ y[2] \in Node
    BY DEF TypeOK
  <1>2. PICK v \in Node : <<x[1], v, x[2]>> \in ballots /\ <<x[1], v, y[2]>> \in ballots
    BY CommonVoter DEF ElectionInv
  <1> QED
    BY <1>1, <1>2 DEF ElectionInv, BallotOnce

LEMMA ElectionInit == Init => ElectionInv
  BY DEF Init, ElectionInv, BallotInv, BallotOnce, LateInv, CountInv, Campaigning, WinInv

\* The list of n does not change and names nobody twice, so the peer a walk
\* comes to is new to it.
LEMMA PeerIsNew ==
    ASSUME StaticCluster, TypeOK, cluster_nodes = InitialCluster, NEW n \in Node,
           slot[n] <= Len(cluster_nodes[n]), Peer(n) # n
    PROVE  Peer(n) \in Node /\ Peer(n) \notin Visited(n)
  <1>0. slot \in [Node -> 1..(MaxNodes + 1)] /\ cluster_nodes \in [Node -> Seq(Node)]
    BY DEF TypeOK
  <1>1. Len(cluster_nodes[n]) \in Nat /\ slot[n] \in Nat /\ slot[n] > 0
    BY <1>0, SeqLength, RaftAssumption
  <1>2. Peer(n) \in Node
    BY <1>1 DEF TypeOK, Peer
  <1>3. ASSUME NEW j \in 1..(slot[n] - 1), cluster_nodes[n][j] = Peer(n)
        PROVE  FALSE
    <2>1. j \in 1..Len(InitialCluster[n]) /\ slot[n] \in 1..Len(InitialCluster[n])
      BY <1>1
    <2>2. InitialCluster[n][j] = InitialCluster[n][slot[n]]
      BY <1>3 DEF Peer
    <2>3. j = slot[n]
      BY <2>1, <2>2 DEF StaticCluster, FixedLists
    <2> QED
      BY <1>1, <2>3
  <1> QED
    BY <1>2, <1>3 DEF Visited

\* After an iteration the walk has visited its peer too, and nobody less.
LEMMA VisitedGrows ==
    ASSUME TypeOK, NEW n \in Node, slot[n] <= Len(cluster_nodes[n]),
           slot' = [slot EXCEPT ![n] = @ + 1], cluster_nodes' = cluster_nodes
    PROVE  /\ Peer(n) \in Visited(n)'
           /\ \A p \in Node : Visited(p) \subseteq Visited(p)'
  <1>0. slot \in [Node -> 1..(MaxNodes + 1)]
    BY DEF TypeOK
  <1>1. slot[n] \in Nat /\ slot[n] > 0 /\ slot'[n] = slot[n] + 1
    BY <1>0, RaftAssumption
  <1>2. Peer(n) \in Visited(n)'
    BY <1>1 DEF Peer, Visited
  <1>3. ASSUME NEW p \in Node PROVE Visited(p) \subseteq Visited(p)'
    <2>1. CASE p = n
      BY <1>1, <2>1 DEF Visited
    <2>2. CASE p # n
      <3>1. slot'[p] = slot[p]
        BY <2>2 DEF TypeOK
      <3> QED
        BY <3>1 DEF Visited
    <2> QED
      BY <2>1, <2>2
  <1> QED
    BY <1>2, <1>3

-----------------------------------------------------------------------------
(* One lemma for each kind of step *)

\* Steps that change no term, no vote, no request and no running count.
LEMMA QuietStep ==
    ASSUME TypeOK, ElectionInv,
           UNCHANGED <<current_term, voted_for, cluster_nodes, ballots, elected, late>>,
           \A n \in Node : Campaigning(n)' =>
                /\ Campaigning(n)
                /\ slot'[n] = slot[n] /\ votes_received'[n] = votes_received[n]
    PROVE  ElectionInv'
  <1> USE DEF ElectionInv
  <1>1. BallotInv' /\ BallotOnce'
    BY DEF BallotInv, BallotOnce
  <1>2. ASSUME NEW n \in Node, Campaigning(n)' PROVE Visited(n)' = Visited(n)
    BY <1>2 DEF Visited
  <1>3. LateInv'
    <2> SUFFICES ASSUME NEW m \in late, m.type = "vote"
                 PROVE  /\ m.term <= current_term[m.from]
                        /\ m.term = current_term[m.from] /\ Campaigning(m.from)'
                             => m.to \in Visited(m.from)'
      BY DEF LateInv
    <2>1. m.from \in Node
      BY DEF TypeOK, Request
    <2> QED
      BY <1>2, <2>1 DEF LateInv
  <1>4. CountInv'
    BY <1>2 DEF CountInv, Voters
  <1>5. WinInv'
    BY WinKept
  <1> QED
    BY <1>1, <1>3, <1>4, <1>5

\* Iterations that ask nobody or get no answer.
LEMMA SilentIteration ==
    ASSUME TypeOK, ElectionInv, NEW n \in Node,
           SkipSelf(n) \/ VoteCallbackError(n) \/ HeartbeatCallbackError(n)
    PROVE  ElectionInv'
  <1> USE DEF ElectionInv
  <1>1. slot[n] <= Len(cluster_nodes[n]) /\ slot' = [slot EXCEPT ![n] = @ + 1]
    BY DEF SkipSelf, VoteCallbackError, HeartbeatCallbackError, InLoop, NextSlot
  <1>2. UNCHANGED <<state, current_term, voted_for, mutex, votes_received, cluster_nodes,
                    ballots, elected>>
    BY DEF SkipSelf, VoteCallbackError, HeartbeatCallbackError, nodeVars, apiVars, history
  <1>3. /\ Peer(n) \in Visited(n)'
        /\ \A p \in Node : Visited(p) \subseteq Visited(p)'
    BY <1>1, <1>2, VisitedGrows
  <1>4. ASSUME NEW m \in late', m.type = "vote", m \notin late
        PROVE  m.from = n /\ m.term = current_term[n] /\ m.to = Peer(n)
    <2>1. CASE SkipSelf(n)
      BY <1>4, <2>1 DEF SkipSelf
    <2>2. CASE VoteCallbackError(n)
      BY <1>4, <2>2 DEF VoteCallbackError, CallbackError, VoteRequest
    <2>3. CASE HeartbeatCallbackError(n)
      <3>1. PICK r \in AppendRequests(n) : CallbackError(r)
        BY <2>3 DEF HeartbeatCallbackError
      <3>2. r.type = "append" /\ m = r
        BY <1>4, <3>1 DEF CallbackError, AppendRequests
      <3> QED
        BY <1>4, <3>2
    <2> QED
      BY <2>1, <2>2, <2>3
  <1>5. BallotInv' /\ BallotOnce'
    BY <1>2 DEF BallotInv, BallotOnce
  <1>6. LateInv'
    <2> SUFFICES ASSUME NEW m \in late', m.type = "vote"
                 PROVE  /\ m.term <= current_term'[m.from]
                        /\ m.term = current_term'[m.from] /\ Campaigning(m.from)'
                             => m.to \in Visited(m.from)'
      BY DEF LateInv
    <2>1. Campaigning(m.from)' <=> Campaigning(m.from)
      BY <1>2 DEF Campaigning
    <2>2. CASE m \in late
      <3>1. m.from \in Node
        BY <2>2 DEF TypeOK, Request
      <3> QED
        BY <1>2, <1>3, <2>1, <2>2, <3>1 DEF LateInv
    <2>3. CASE m \notin late
      <3>1. current_term[n] <= current_term[n]
        BY RaftAssumption DEF TypeOK
      <3> QED
        BY <1>2, <1>3, <1>4, <2>3, <3>1
    <2> QED
      BY <2>2, <2>3
  <1>7. CountInv'
    BY <1>2, <1>3 DEF CountInv, Campaigning, Voters
  <1>8. WinInv'
    BY <1>2, WinKept
  <1> QED
    BY <1>2, <1>5, <1>6, <1>7, <1>8

\* A node's term rises, or stays with the vote in it, when nobody votes and the
\* node is not inside a campaign afterwards.
LEMMA TermStep ==
    ASSUME TypeOK, ElectionInv, NEW p \in Node,
           NEW t \in 0..MaxTerm, t >= current_term[p],
           current_term' = [current_term EXCEPT ![p] = t],
           t = current_term[p] => voted_for'[p] = voted_for[p],
           \A n \in Node \ {p} : voted_for'[n] = voted_for[n],
           ~Campaigning(p)',
           \A n \in Node \ {p} :
               Campaigning(n)' => Campaigning(n) /\ Visited(n) \subseteq Visited(n)'
                                   /\ votes_received'[n] = votes_received[n],
           late' \subseteq late,
           UNCHANGED <<cluster_nodes, ballots, elected>>
    PROVE  ElectionInv'
  <1> USE DEF ElectionInv
  <1>0. current_term \in [Node -> 0..MaxTerm] /\ MaxTerm \in Nat
    BY RaftAssumption DEF TypeOK
  <1>1. \A n \in Node : current_term'[n] \in Nat /\ current_term[n] \in Nat
                          /\ current_term'[n] >= current_term[n]
    BY <1>0
  <1>2. \A n \in Node \ {p} : current_term'[n] = current_term[n]
    BY <1>0
  <1>3. BallotInv'
    <2> SUFFICES ASSUME NEW u \in 0..MaxTerm, NEW v \in Node, NEW c \in Node,
                        <<u, v, c>> \in ballots
                 PROVE  /\ u <= current_term'[v]
                        /\ u = current_term'[v] => voted_for'[v] = c
                        /\ u <= current_term'[c]
      BY DEF BallotInv
    <2>1. /\ u <= current_term[v]
          /\ u = current_term[v] => voted_for[v] = c
          /\ u <= current_term[c]
      BY DEF BallotInv
    <2>2. current_term'[p] = t
      BY <1>0
    <2> QED
      BY <1>0, <1>1, <1>2, <2>1, <2>2
  <1>4. BallotOnce'
    BY DEF BallotOnce
  <1>5. LateInv'
    <2> SUFFICES ASSUME NEW m \in late', m.type = "vote"
                 PROVE  /\ m.term <= current_term'[m.from]
                        /\ m.term = current_term'[m.from] /\ Campaigning(m.from)'
                             => m.to \in Visited(m.from)'
      BY DEF LateInv
    <2>1. m \in late /\ m.from \in Node /\ m.term \in 0..MaxTerm
      BY DEF TypeOK, Request
    <2>2. /\ m.term <= current_term[m.from]
          /\ m.term = current_term[m.from] /\ Campaigning(m.from) => m.to \in Visited(m.from)
      BY <2>1 DEF LateInv
    <2>3. m.term <= current_term'[m.from]
      BY <1>0, <1>1, <2>1, <2>2
    <2>4. ASSUME m.term = current_term'[m.from], Campaigning(m.from)'
          PROVE  m.to \in Visited(m.from)'
      BY <1>2, <2>1, <2>2, <2>4
    <2> QED
      BY <2>3, <2>4
  <1>6. CountInv'
    BY <1>2 DEF CountInv, Voters
  <1>7. WinInv'
    BY WinKept
  <1> QED
    BY <1>3, <1>4, <1>5, <1>6, <1>7

LEMMA RefusedStale ==
    ASSUME TypeOK, ElectionInv, NEW n \in Node,
           VoteRefusedStale(n) \/ HeartbeatRefusedStale(n)
    PROVE  ElectionInv'
  <1>1. /\ slot[n] <= Len(cluster_nodes[n])
        /\ current_term[Peer(n)] > current_term[n]
        /\ StepDown(n, current_term[Peer(n)])
    BY DEF VoteRefusedStale, HeartbeatRefusedStale, InLoop
  <1>2. UNCHANGED <<mutex, votes_received, cluster_nodes, late, ballots, elected>>
    BY DEF VoteRefusedStale, HeartbeatRefusedStale, apiVars, history
  <1>3. Peer(n) \in Node
    <2>1. slot[n] \in 1..(MaxNodes + 1) /\ cluster_nodes[n] \in Seq(Node)
      BY DEF TypeOK
    <2>2. slot[n] \in 1..Len(cluster_nodes[n])
      BY <1>1, <2>1, SeqLength, RaftAssumption
    <2> QED
      BY <2>1, <2>2, SeqElement DEF Peer
  <1>4. /\ current_term[Peer(n)] \in 0..MaxTerm
        /\ current_term[n] \in 0..MaxTerm
    BY <1>3 DEF TypeOK
  <1>5. /\ current_term' = [current_term EXCEPT ![n] = current_term[Peer(n)]]
        /\ state'[n] = "FOLLOWER"
        /\ \A p \in Node \ {n} : /\ voted_for'[p] = voted_for[p]
                                 /\ state'[p] = state[p]
                                 /\ slot'[p] = slot[p]
    BY <1>1 DEF StepDown, BreakLoop, TypeOK
  <1>6. \A p \in Node \ {n} :
            Campaigning(p)' => Campaigning(p) /\ Visited(p) \subseteq Visited(p)'
                                /\ votes_received'[p] = votes_received[p]
    BY <1>2, <1>5 DEF Campaigning, Visited
  <1>7. ~Campaigning(n)'
    BY <1>5 DEF Campaigning
  <1>8. /\ current_term[Peer(n)] >= current_term[n]
        /\ current_term[Peer(n)] # current_term[n]
    BY <1>1, <1>4, RaftAssumption
  <1> QED
    BY <1>2, <1>4, <1>5, <1>6, <1>7, <1>8, TermStep

\* A heartbeat, answered or late, moves only its receiver.
LEMMA AppendEntriesStep ==
    ASSUME TypeOK, ElectionInv, NEW m \in Request, HandleAppendEntries(m),
           \A n \in Node \ {m.to} : Visited(n) \subseteq Visited(n)',
           late' \subseteq late,
           UNCHANGED <<mutex, votes_received, cluster_nodes, ballots, elected>>
    PROVE  ElectionInv'
  <1>1. m.to \in Node /\ m.term \in 0..MaxTerm /\ current_term[m.to] \in 0..MaxTerm
    BY DEF TypeOK, Request
  <1>2. PICK t \in 0..MaxTerm :
           /\ t >= current_term[m.to]
           /\ current_term' = [current_term EXCEPT ![m.to] = t]
           /\ t = current_term[m.to] => voted_for' = voted_for
    <2>1. CASE m.term > current_term[m.to]
      <3>1. current_term' = [current_term EXCEPT ![m.to] = m.term]
        BY <2>1 DEF HandleAppendEntries
      <3>2. m.term >= current_term[m.to] /\ m.term # current_term[m.to]
        BY <1>1, <2>1, RaftAssumption
      <3> QED
        BY <1>1, <3>1, <3>2
    <2>2. CASE ~(m.term > current_term[m.to])
      <3>1. /\ current_term' = [current_term EXCEPT ![m.to] = current_term[m.to]]
            /\ voted_for' = voted_for
        BY <2>2 DEF HandleAppendEntries, TypeOK
      <3>2. current_term[m.to] >= current_term[m.to]
        BY <1>1, RaftAssumption
      <3> QED
        BY <1>1, <3>1, <3>2
    <2> QED
      BY <2>1, <2>2
  <1>3. \A n \in Node \ {m.to} : voted_for'[n] = voted_for[n] /\ state'[n] = state[n]
    BY DEF HandleAppendEntries, TypeOK
  <1>4. ~Campaigning(m.to)'
    BY DEF HandleAppendEntries, Campaigning
  <1>5. \A n \in Node \ {m.to} :
            Campaigning(n)' => Campaigning(n) /\ Visited(n) \subseteq Visited(n)'
                                /\ votes_received'[n] = votes_received[n]
    BY <1>3 DEF Campaigning
  <1> QED
    BY <1>1, <1>2, <1>3, <1>4, <1>5, TermStep

LEMMA HeartbeatAnswer ==
    ASSUME TypeInv, ElectionInv, NEW n \in Node, HeartbeatAnswered(n)
    PROVE  ElectionInv'
  <1> USE DEF TypeInv
  <1>1. slot[n] <= Len(cluster_nodes[n]) /\ slot' = [slot EXCEPT ![n] = @ + 1]
    BY DEF HeartbeatAnswered, InLoop, NextSlot
  <1>2. UNCHANGED <<mutex, votes_received, cluster_nodes, late, ballots, elected>>
    BY DEF HeartbeatAnswered, apiVars, history
  <1>3. slot[n] \in Slots
    BY <1>1, SeqLength, RaftAssumption DEF TypeOK, ClusterWithinCapacity, Slots
  <1>4. PICK m \in AppendRequests(n) : HandleAppendEntries(m)
    BY DEF HeartbeatAnswered
  <1>5. m \in Request
    BY <1>1, <1>3, AppendRequestType
  <1>6. \A p \in Node : Visited(p) \subseteq Visited(p)'
    BY <1>1, <1>2, VisitedGrows
  <1> QED
    BY <1>2, <1>4, <1>5, <1>6, AppendEntriesStep

\* A vote request, answered or late, by a candidate that has reached its term:
\* what it does to the votes, to the terms and to the nodes that hold a mutex.
LEMMA VoteStep ==
    ASSUME TypeOK, ElectionInv, NEW m \in Request, HandleVoteRequest(m),
           m.term <= current_term[m.from]
    PROVE  /\ BallotInv' /\ BallotOnce' /\ ballots \subseteq ballots'
           /\ \A n \in Node : current_term'[n] >= current_term[n]
           /\ \A n \in Node \ {m.to} : current_term'[n] = current_term[n] /\ state'[n] = state[n]
           /\ ballots' = IF VoteGranted(m) THEN ballots \cup {<<m.term, m.to, m.from>>}
                                           ELSE ballots
  <1> DEFINE p == m.to
  <1>1. m.to \in Node /\ m.from \in Node /\ m.term \in 0..MaxTerm
    BY DEF Request
  <1>2. current_term \in [Node -> 0..MaxTerm] /\ MaxTerm \in Nat
    BY RaftAssumption DEF TypeOK
  <1>3. ballots' = IF VoteGranted(m) THEN ballots \cup {<<m.term, p, m.from>>} ELSE ballots
    BY DEF HandleVoteRequest
  <1>4. /\ \A n \in Node \ {p} : /\ current_term'[n] = current_term[n]
                                /\ state'[n] = state[n]
                                /\ voted_for'[n] = voted_for[n]
    BY DEF HandleVoteRequest, TypeOK
  <1>5. current_term'[p] = IF m.term > current_term[p] THEN m.term ELSE current_term[p]
    BY <1>1, <1>2 DEF HandleVoteRequest
  <1>6. \A n \in Node : /\ current_term'[n] >= current_term[n]
                        /\ current_term'[n] \in Nat /\ current_term[n] \in Nat
    BY <1>1, <1>2, <1>4, <1>5
  <1>7. voted_for'[p] = IF VoteGranted(m) THEN m.from
                        ELSE IF m.term > current_term[p] THEN Nil ELSE voted_for[p]
    BY <1>1 DEF HandleVoteRequest, TypeOK
  <1>8. VoteGranted(m) => /\ m.term >= current_term[p]
                          /\ m.term = current_term[p] => voted_for[p] \in {Nil, m.from}
    BY <1>1, <1>2 DEF VoteGranted
  <1>9. BallotInv'
    <2> SUFFICES ASSUME NEW u \in 0..MaxTerm, NEW v \in Node, NEW c \in Node,
                        <<u, v, c>> \in ballots'
                 PROVE  /\ u <= current_term'[v]
                        /\ u = current_term'[v] => voted_for'[v] = c
                        /\ u <= current_term'[c]
      BY DEF BallotInv
    <2>1. CASE <<u, v, c>> \in ballots
      <3>1. /\ u <= current_term[v]
            /\ u = current_term[v] => voted_for[v] = c
            /\ u <= current_term[c]
        BY <2>1 DEF ElectionInv, BallotInv
      <3>2. u <= current_term'[v] /\ u <= current_term'[c]
        BY <1>2, <1>6, <3>1
      <3>3. CASE v = p
        <4>1. c # Nil
          BY RaftAssumption
        <4>2. ASSUME u = current_term'[p] PROVE voted_for'[p] = c
          <5>1. ~(m.term > current_term[p]) /\ u = current_term[p]
            BY <1>1, <1>2, <1>5, <3>1, <3>3, <4>2
          <5>2. voted_for[p] = c
            BY <3>1, <3>3, <5>1
          <5>3. VoteGranted(m) => m.term = current_term[p]
            BY <1>1, <1>2, <1>8, <5>1
          <5> QED
            BY <1>7, <1>8, <4>1, <5>1, <5>2, <5>3
        <4> QED
          BY <3>2, <3>3, <4>2
      <3>4. CASE v # p
        BY <1>4, <3>1, <3>2, <3>4
      <3> QED
        BY <3>3, <3>4
    <2>2. CASE <<u, v, c>> \notin ballots
      <3>1. VoteGranted(m) /\ u = m.term /\ v = p /\ c = m.from
        BY <1>3, <2>2
      <3>2. current_term'[p] = m.term
        BY <1>1, <1>2, <1>5, <1>8, <3>1
      <3>3. m.term <= current_term'[m.from]
        BY <1>1, <1>2, <1>6
      <3>4. m.term <= m.term
        BY <1>1, <1>2
      <3> QED
        BY <1>7, <3>1, <3>2, <3>3, <3>4
    <2> QED
      BY <2>1, <2>2
  <1>10. BallotOnce'
    <2> SUFFICES ASSUME NEW u \in 0..MaxTerm, NEW v \in Node, NEW c \in Node, NEW d \in Node,
                        <<u, v, c>> \in ballots', <<u, v, d>> \in ballots',
                        <<u, v, c>> \in ballots, <<u, v, d>> \notin ballots
                 PROVE  c = d
      BY <1>3 DEF ElectionInv, BallotOnce
    <2>1. VoteGranted(m) /\ u = m.term /\ v = p /\ d = m.from
      BY <1>3
    <2>2. u <= current_term[p] /\ (u = current_term[p] => voted_for[p] = c)
      BY <2>1 DEF ElectionInv, BallotInv
    <2>3. u = current_term[p]
      BY <1>1, <1>2, <1>8, <2>1, <2>2
    <2> QED
      BY <1>8, <2>1, <2>2, <2>3, RaftAssumption
  <1> QED
    BY <1>3, <1>4, <1>6, <1>9, <1>10

\* Terms only rise, so a late request stays behind its candidate.
LEMMA LateKept ==
    ASSUME TypeOK, LateInv, late' \subseteq late,
           current_term' \in [Node -> 0..MaxTerm],
           \A n \in Node : current_term'[n] >= current_term[n],
           \A n \in Node : Campaigning(n)' =>
                \/ current_term'[n] > current_term[n]
                \/ Campaigning(n) /\ Visited(n) \subseteq Visited(n)'
    PROVE  LateInv'
  <1> SUFFICES ASSUME NEW m \in late', m.type = "vote"
               PROVE  /\ m.term <= current_term'[m.from]
                      /\ m.term = current_term'[m.from] /\ Campaigning(m.from)'
                           => m.to \in Visited(m.from)'
    BY DEF LateInv
  <1>1. /\ m \in late /\ m.from \in Node /\ m.term \in Nat
        /\ current_term[m.from] \in Nat /\ current_term'[m.from] \in Nat
    <2>1. m \in late /\ late \subseteq Request
      BY DEF TypeOK
    <2>2. m.from \in Node /\ m.term \in 0..MaxTerm
      BY <2>1 DEF Request
    <2>3. current_term \in [Node -> 0..MaxTerm] /\ current_term' \in [Node -> 0..MaxTerm]
      BY DEF TypeOK
    <2> QED
      BY <2>1, <2>2, <2>3, RaftAssumption
  <1>2. /\ m.term <= current_term[m.from]
        /\ m.term = current_term[m.from] /\ Campaigning(m.from) => m.to \in Visited(m.from)
    BY <1>1 DEF LateInv
  <1>3. m.term <= current_term'[m.from]
    BY <1>1, <1>2
  <1>4. ASSUME m.term = current_term'[m.from], Campaigning(m.from)'
        PROVE  m.to \in Visited(m.from)'
    <2>1. /\ ~(current_term'[m.from] > current_term[m.from])
          /\ m.term = current_term[m.from]
      BY <1>1, <1>2, <1>4
    <2> QED
      BY <1>1, <1>2, <1>4, <2>1
  <1> QED
    BY <1>3, <1>4

LEMMA VoteAnswer ==
    ASSUME StaticCluster, TypeOK, TypeOK', ElectionInv, NEW n \in Node, VoteAnswered(n)
    PROVE  ElectionInv'
  <1> USE DEF ElectionInv
  <1> DEFINE m == VoteRequest(n)
             p == Peer(n)
  <1>1. /\ slot[n] <= Len(cluster_nodes[n]) /\ slot' = [slot EXCEPT ![n] = @ + 1]
        /\ mutex[n] = "election" /\ p # n /\ HandleVoteRequest(m)
    BY DEF VoteAnswered, InLoop, NextSlot
  <1>2. UNCHANGED <<mutex, cluster_nodes, late, elected>>
    BY DEF VoteAnswered, apiVars
  <1>3. m \in Request /\ m.to = p /\ m.from = n /\ m.term = current_term[n]
    BY <1>1, VoteRequestType DEF VoteRequest
  <1>4. p \in Node /\ p \notin Visited(n) /\ mutex[p] = "free"
    BY <1>1, <1>3, PeerIsNew DEF HandleVoteRequest
  <1>5. current_term[n] \in Nat /\ current_term[n] \in 0..MaxTerm
    BY RaftAssumption DEF TypeOK
  <1>6. /\ BallotInv' /\ BallotOnce' /\ ballots \subseteq ballots'
        /\ \A q \in Node : current_term'[q] >= current_term[q]
        /\ \A q \in Node \ {p} : current_term'[q] = current_term[q] /\ state'[q] = state[q]
        /\ ballots' = IF VoteGranted(m) THEN ballots \cup {<<current_term[n], p, n>>} ELSE ballots
    <2>1. m.term <= current_term[m.from]
      BY <1>3, <1>5
    <2> HIDE DEF m, p
    <2> QED
      BY <1>1, <1>3, <2>1, VoteStep
  <1>7. /\ p \in Visited(n)'
        /\ \A q \in Node : Visited(q) \subseteq Visited(q)'
    BY <1>1, <1>2, VisitedGrows
  <1>8. \A q \in Node : Campaigning(q)' => Campaigning(q) /\ q # p
    BY <1>2, <1>4, <1>6 DEF Campaigning
  <1>9. LateInv'
    <2>1. current_term' \in [Node -> 0..MaxTerm]
      BY DEF TypeOK
    <2> QED
      BY <1>2, <1>6, <1>7, <1>8, <2>1, LateKept
  <1>10. CountInv'
    <2> SUFFICES ASSUME NEW q \in Node, Campaigning(q)'
                 PROVE  /\ Voters(current_term[q], q)' \subseteq Visited(q)'
                        /\ votes_received'[q] <= Cardinality(Voters(current_term[q], q)')
      BY DEF CountInv
    <2>1. /\ current_term'[q] = current_term[q]
          /\ Voters(current_term[q], q) \subseteq Visited(q)
          /\ votes_received[q] <= Cardinality(Voters(current_term[q], q))
      BY <1>6, <1>8 DEF CountInv
    <2>2. CASE q # n
      <3>1. Voters(current_term[q], q)' = Voters(current_term[q], q)
        BY <1>6, <2>1, <2>2 DEF Voters
      <3>2. votes_received'[q] = votes_received[q]
        BY <2>2 DEF VoteAnswered, TypeOK
      <3> QED
        BY <1>7, <2>1, <3>1, <3>2
    <2>3. CASE q = n /\ VoteGranted(m)
      <3>1. Voters(current_term[n], n)' = Voters(current_term[n], n) \cup {p}
        BY <1>4, <1>6, <2>1, <2>3 DEF Voters
      <3>2. p \notin Voters(current_term[n], n)
        BY <1>4, <2>1, <2>3
      <3>3. /\ IsFiniteSet(Voters(current_term[n], n))
            /\ Cardinality(Voters(current_term[n], n)) \in Nat
        BY VotersFinite
      <3>4. Cardinality(Voters(current_term[n], n)') = Cardinality(Voters(current_term[n], n)) + 1
        BY <3>1, <3>2, <3>3, FS_AddElement
      <3>5. votes_received'[n] = votes_received[n] + 1
        BY <2>3 DEF VoteAnswered, VotesAfter, TypeOK
      <3>6. votes_received[n] \in Nat
        BY RaftAssumption DEF TypeOK
      <3>7. votes_received'[n] <= Cardinality(Voters(current_term[n], n)')
        BY <2>1, <2>3, <3>3, <3>4, <3>5, <3>6
      <3>8. Voters(current_term[n], n)' \subseteq Visited(n)'
        BY <1>7, <2>1, <2>3, <3>1
      <3> QED
        BY <2>3, <3>7, <3>8
    <2>4. CASE q = n /\ ~VoteGranted(m)
      <3>1. Voters(current_term[n], n)' = Voters(current_term[n], n)
        BY <1>6, <2>1, <2>4 DEF Voters
      <3>2. votes_received'[n] = votes_received[n]
        BY <2>4 DEF VoteAnswered, VotesAfter, TypeOK
      <3> QED
        BY <1>7, <2>1, <2>4, <3>1, <3>2
    <2> QED
      BY <2>2, <2>3, <2>4
  <1>11. WinInv'
    BY <1>2, <1>6, WinKept
  <1> QED
    BY <1>2, <1>6, <1>9, <1>10, <1>11

LEMMA LateVote ==
    ASSUME TypeOK, TypeOK', ElectionInv, NEW m \in late, LateVoteRequest(m)
    PROVE  ElectionInv'
  <1> USE DEF ElectionInv
  <1>1. /\ HandleVoteRequest(m) /\ m.type = "vote" /\ late' \subseteq late
        /\ UNCHANGED <<mutex, slot, votes_received, cluster_nodes, elected>>
    BY DEF LateVoteRequest, loopVars, apiVars
  <1>2. m \in Request /\ m.from \in Node /\ m.to \in Node /\ mutex[m.to] = "free"
    BY <1>1 DEF TypeOK, Request, HandleVoteRequest
  <1>3. /\ m.term <= current_term[m.from]
        /\ m.term = current_term[m.from] /\ Campaigning(m.from) => m.to \in Visited(m.from)
    BY <1>1 DEF LateInv
  <1>4. /\ BallotInv' /\ BallotOnce' /\ ballots \subseteq ballots'
        /\ \A q \in Node : current_term'[q] >= current_term[q]
        /\ \A q \in Node \ {m.to} : current_term'[q] = current_term[q] /\ state'[q] = state[q]
        /\ ballots' = IF VoteGranted(m) THEN ballots \cup {<<m.term, m.to, m.from>>} ELSE ballots
    BY <1>1, <1>2, <1>3, VoteStep
  <1>5. \A q \in Node : /\ Visited(q)' = Visited(q)
                        /\ Campaigning(q)' => Campaigning(q) /\ q # m.to
    BY <1>1, <1>2, <1>4 DEF Visited, Campaigning
  <1>6. LateInv'
    <2>1. current_term' \in [Node -> 0..MaxTerm]
      BY DEF TypeOK
    <2> QED
      BY <1>1, <1>4, <1>5, <2>1, LateKept
  <1>7. CountInv'
    <2> SUFFICES ASSUME NEW q \in Node, Campaigning(q)'
                 PROVE  /\ Voters(current_term[q], q)' \subseteq Visited(q)'
                        /\ votes_received'[q] <= Cardinality(Voters(current_term[q], q)')
      BY DEF CountInv
    <2>1. /\ Campaigning(q) /\ current_term'[q] = current_term[q]
          /\ Voters(current_term[q], q) \subseteq Visited(q)
          /\ votes_received[q] <= Cardinality(Voters(current_term[q], q))
      BY <1>4, <1>5 DEF CountInv
    <2>2. Voters(current_term[q], q)' \subseteq Visited(q)
      BY <1>3, <1>4, <2>1 DEF Voters
    <2>3. Cardinality(Voters(current_term[q], q)) <= Cardinality(Voters(current_term[q], q)')
      <3>1. Cardinality(Voters(current_term[q], q)) <= Cardinality({v \in Node : <<current_term[q], v, q>> \in ballots'})
        BY <1>4, VotersGrow DEF Voters
      <3> QED
        BY <2>1, <3>1 DEF Voters
    <2>4. /\ votes_received[q] \in Nat
          /\ Cardinality(Voters(current_term[q], q)) \in Nat
          /\ Cardinality(Voters(current_term[q], q)') \in Nat
      <3>1. IsFiniteSet(Voters(current_term[q], q)')
        <4>1. Voters(current_term[q], q)' \subseteq Node
          BY DEF Voters
        <4> QED
          BY <4>1, RaftAssumption, FS_Subset
      <3> QED
        BY <3>1, VotersFinite, FS_CardinalityType, RaftAssumption DEF TypeOK
    <2> QED
      BY <1>1, <1>5, <2>1, <2>2, <2>3, <2>4
  <1>8. WinInv'
    BY <1>1, <1>4, WinKept
  <1> QED
    BY <1>1, <1>4, <1>6, <1>7, <1>8

\* Nobody has voted in the term a candidate opens.
LEMMA NewElection ==
    ASSUME TypeOK, TypeOK', ElectionInv, NEW n \in Node, StartElection(n)
    PROVE  ElectionInv'
  <1> USE DEF ElectionInv
  <1> DEFINE t == current_term[n] + 1
  <1>1. /\ current_term \in [Node -> 0..MaxTerm] /\ MaxTerm \in Nat
        /\ t \in 0..MaxTerm
    BY RaftAssumption DEF TypeOK, StartElection
  <1>2. /\ current_term' = [current_term EXCEPT ![n] = t]
        /\ ballots' = ballots \cup {<<t, n, n>>}
        /\ UNCHANGED <<cluster_nodes, late, elected>>
    BY DEF StartElection, apiVars
  <1>3. /\ current_term'[n] = t /\ voted_for'[n] = n /\ slot'[n] = 1 /\ votes_received'[n] = 1
        /\ \A q \in Node \ {n} :
              /\ current_term'[q] = current_term[q] /\ voted_for'[q] = voted_for[q]
              /\ slot'[q] = slot[q] /\ votes_received'[q] = votes_received[q]
              /\ Campaigning(q)' <=> Campaigning(q)
    BY DEF StartElection, CountOwnVote, Campaigning, TypeOK
  <1>4. \A q \in Node : current_term[q] \in Nat /\ current_term'[q] \in Nat
                        /\ current_term'[q] >= current_term[q]
    BY <1>1, <1>2
  <1>5. \A u \in 0..MaxTerm, v, c \in Node : <<u, v, c>> \in ballots =>
            /\ u <= current_term[v] /\ u <= current_term[c]
            /\ u = current_term[v] => voted_for[v] = c
    BY DEF BallotInv
  <1>6. BallotInv'
    <2> SUFFICES ASSUME NEW u \in 0..MaxTerm, NEW v \in Node, NEW c \in Node,
                        <<u, v, c>> \in ballots'
                 PROVE  /\ u <= current_term'[v]
                        /\ u = current_term'[v] => voted_for'[v] = c
                        /\ u <= current_term'[c]
      BY DEF BallotInv
    <2>1. CASE <<u, v, c>> \in ballots
      <3>1. u <= current_term[v] /\ u <= current_term[c]
            /\ (u = current_term[v] => voted_for[v] = c)
        BY <1>5, <2>1
      <3>2. u <= current_term'[v] /\ u <= current_term'[c]
        BY <1>1, <1>4, <3>1
      <3>3. u # t \/ v # n
        BY <1>1, <3>1
      <3> QED
        BY <1>3, <3>1, <3>2, <3>3
    <2>2. CASE <<u, v, c>> \notin ballots
      BY <1>1, <1>2, <1>3, <2>2
    <2> QED
      BY <2>1, <2>2
  <1>7. BallotOnce'
    <2>1. \A c \in Node : <<t, n, c>> \notin ballots
      BY <1>1, <1>5
    <2> QED
      BY <1>2, <2>1 DEF BallotOnce
  <1>8. LateInv'
    <2>1. \A q \in Node : Campaigning(q)' =>
             \/ current_term'[q] > current_term[q]
             \/ Campaigning(q) /\ Visited(q) \subseteq Visited(q)'
      <3>1. current_term'[n] > current_term[n]
        BY <1>1, <1>3
      <3> QED
        BY <1>2, <1>3, <3>1 DEF Visited
    <2>2. current_term' \in [Node -> 0..MaxTerm]
      BY DEF TypeOK
    <2> QED
      BY <1>2, <1>4, <2>1, <2>2, LateKept
  <1>9. CountInv'
    <2> SUFFICES ASSUME NEW q \in Node, Campaigning(q)'
                 PROVE  /\ Voters(current_term[q], q)' \subseteq Visited(q)'
                        /\ votes_received'[q] <= Cardinality(Voters(current_term[q], q)')
      BY DEF CountInv
    <2>1. CASE q = n
      <3>1. Voters(current_term[n], n)' = {n}
        <4>1. \A v \in Node : <<t, v, n>> \notin ballots
          BY <1>1, <1>5
        <4> QED
          BY <1>2, <1>3, <4>1 DEF Voters
      <3>2. Cardinality({n}) = 1
        BY FS_Singleton
      <3> QED
        BY <1>3, <2>1, <3>1, <3>2 DEF Visited
    <2>2. CASE q # n
      <3>1. Voters(current_term[q], q)' = Voters(current_term[q], q)
        BY <1>2, <1>3, <2>2 DEF Voters
      <3>2. Visited(q)' = Visited(q)
        BY <1>2, <1>3, <2>2 DEF Visited
      <3> QED
        BY <1>3, <2>2, <3>1, <3>2 DEF CountInv
    <2> QED
      BY <2>1, <2>2
  <1>10. WinInv'
    BY <1>2, WinKept
  <1> QED
    BY <1>2, <1>6, <1>7, <1>8, <1>9, <1>10

LEMMA MajorityCount ==
    ASSUME NEW k \in Nat, NEW v \in Nat, NEW c \in Nat, NEW N \in Nat,
           v > k \div 2, v <= c, 2 * (k \div 2 + 1) > N
    PROVE  2 * c > N
  OBVIOUS

\* A winner has counted a majority of its list, hence of the nodes.
LEMMA EndOfElection ==
    ASSUME StaticCluster, TypeOK, ElectionInv, NEW n \in Node, FinishElection(n)
    PROVE  ElectionInv'
  <1> USE DEF ElectionInv
  <1>1. UNCHANGED <<current_term, voted_for, slot, votes_received, cluster_nodes, late, ballots>>
    BY DEF FinishElection, apiVars
  <1>2. \A q \in Node : Campaigning(q)' => Campaigning(q)
    BY DEF FinishElection, Campaigning, TypeOK
  <1>3. \A q \in Node : Visited(q)' = Visited(q)
    BY <1>1 DEF Visited
  <1>4. BallotInv' /\ BallotOnce'
    BY <1>1 DEF BallotInv, BallotOnce
  <1>5. LateInv'
    <2>1. /\ current_term' \in [Node -> 0..MaxTerm]
          /\ \A q \in Node : current_term'[q] >= current_term[q]
      BY <1>1, RaftAssumption DEF TypeOK
    <2> QED
      BY <1>1, <1>2, <1>3, <2>1, LateKept
  <1>6. CountInv'
    BY <1>1, <1>2, <1>3 DEF CountInv, Voters
  <1>7. WinInv'
    <2> SUFFICES ASSUME NEW t \in 0..MaxTerm, NEW q \in Node, <<t, q>> \in elected'
                 PROVE  2 * Cardinality(Voters(t, q)) > Cardinality(Node)
      BY <1>1 DEF WinInv, Voters
    <2>1. CASE <<t, q>> \in elected
      BY <2>1 DEF WinInv
    <2>2. CASE <<t, q>> \notin elected
      <3>1. t = current_term[n] /\ q = n /\ state[n] = "CANDIDATE" /\ HasMajority(n)
            /\ mutex[n] = "election"
        BY <2>2 DEF FinishElection, LoopDone
      <3>2. votes_received[n] <= Cardinality(Voters(current_term[n], n))
        BY <3>1 DEF CountInv, Campaigning
      <3>3. /\ votes_received[n] > Len(InitialCluster[n]) \div 2
            /\ 2 * (Len(InitialCluster[n]) \div 2 + 1) > Cardinality(Node)
        BY <3>1 DEF HasMajority, StaticCluster, FixedLists
      <3>4. /\ votes_received[n] \in Nat /\ Len(InitialCluster[n]) \in Nat
            /\ Cardinality(Node) \in Nat
        BY SeqLength, RaftAssumption, FS_CardinalityType DEF TypeOK
      <3>5. Cardinality(Voters(current_term[n], n)) \in Nat
        BY VotersFinite
      <3> QED
        BY <3>1, <3>2, <3>3, <3>4, <3>5, MajorityCount
    <2> QED
      BY <2>1, <2>2
  <1> QED
    BY <1>1, <1>4, <1>5, <1>6, <1>7

LEMMA ElectionNext ==
    ASSUME StaticCluster, TypeInv, TypeInv', ElectionInv, [Next]_vars
    PROVE  ElectionInv'
  <1> USE DEF TypeInv
  <1>1. ASSUME NEW n \in Node, ElectionThread(n) PROVE ElectionInv'
    BY <1>1, NewElection, VoteAnswer, RefusedStale, SilentIteration, EndOfElection
       DEF ElectionThread
  <1>2. ASSUME NEW n \in Node, StartHeartbeat(n) \/ FinishHeartbeat(n) PROVE ElectionInv'
    <2>1. UNCHANGED <<state, current_term, voted_for, cluster_nodes, ballots, elected, late,
                      votes_received>>
      BY <1>2 DEF StartHeartbeat, FinishHeartbeat, nodeVars, apiVars, history
    <2>2. /\ mutex'[n] # "election"
          /\ \A q \in Node \ {n} : mutex'[q] = mutex[q] /\ slot'[q] = slot[q]
      <3>1. mutex \in [Node -> {"free", "election", "heartbeat"}]
            /\ slot \in [Node -> 1..(MaxNodes + 1)]
        BY DEF TypeOK
      <3>2. CASE StartHeartbeat(n)
        BY <3>1, <3>2 DEF StartHeartbeat
      <3>3. CASE FinishHeartbeat(n)
        BY <3>1, <3>3 DEF FinishHeartbeat
      <3> QED
        BY <1>2, <3>2, <3>3
    <2> QED
      BY <2>1, <2>2, QuietStep DEF Campaigning
  <1>3. ASSUME NEW n \in Node, HeartbeatThread(n) PROVE ElectionInv'
    BY <1>2, <1>3, HeartbeatAnswer, RefusedStale, SilentIteration DEF HeartbeatThread
  <1>4. ASSUME UNCHANGED <<state, current_term, voted_for, mutex, slot, votes_received,
                           cluster_nodes, late, ballots, elected>>
        PROVE  ElectionInv'
    BY <1>4, QuietStep DEF Campaigning
  <1>5. CASE UNCHANGED vars
    BY <1>4, <1>5 DEF vars, nodeVars, loopVars, apiVars, history
  <1>6. ASSUME NEW n \in Node, SkipSelf(n) \/ Idle(n) \/ AppendLog(n) \/ Restart(n)
        PROVE  ElectionInv'
    <2>1. ~Restart(n)
      BY DEF Restart, StaticCluster, FixedLists, TypeOK
    <2>2. CASE AppendLog(n)
      BY <1>4, <2>2 DEF AppendLog, loopVars, apiVars, history
    <2> QED
      BY <1>5, <1>6, <2>1, <2>2, SilentIteration DEF Idle
  <1>7. ASSUME NEW m \in late, LateVoteRequest(m) \/ LateAppendEntries(m)
        PROVE  ElectionInv'
    <2>1. CASE LateAppendEntries(m)
      <3>1. /\ HandleAppendEntries(m) /\ late' \subseteq late /\ slot' = slot
            /\ UNCHANGED <<mutex, votes_received, cluster_nodes, ballots, elected>>
        BY <2>1 DEF LateAppendEntries, loopVars, apiVars, history
      <3>2. m \in Request /\ \A n \in Node : Visited(n) \subseteq Visited(n)'
        BY <3>1 DEF TypeOK, Visited
      <3> QED
        BY <3>1, <3>2, AppendEntriesStep
    <2> QED
      BY <1>7, <2>1, LateVote
  <1>8. ~(\E a \in Adder, n \in Node : AddNodeCheck(a, n) \/ AddNodeInsert(a, n))
    BY DEF StaticCluster, FixedLists
  <1> QED
    BY <1>1, <1>3, <1>5, <1>6, <1>7, <1>8 DEF Next

\* No term ever has two winners, for any number of nodes, terms and delayed
\* requests, when the membership is static and no process restarts.
THEOREM ElectionSafe ==
    ASSUME StaticCluster
    PROVE  Spec => []ElectionSafety
  <1>1. SerialAdders
    BY DEF StaticCluster, FixedLists, SerialAdders
  <1>2. TypeInv /\ [Next]_vars => TypeInv'
    BY <1>1, TypeNext
  <1>3. TypeInv /\ TypeInv' /\ ElectionInv /\ [Next]_vars => ElectionInv'
    BY ElectionNext
  <1>4. TypeInv /\ ElectionInv => ElectionSafety
    BY OneWinner DEF TypeInv
  <1> QED
    BY <1>2, <1>3, <1>4, TypeInit, ElectionInit, PTL DEF Spec

-----------------------------------------------------------------------------
(* Where entries come from *)

\* A leader has won the term it is in.
LeaderInv == \A n \in Node : state[n] = "LEADER" => <<current_term[n], n>> \in elected

\* No entry is of a term its node has not reached.
EntryInv ==
    \A n \in Node : \A i \in DOMAIN log_entries[n] : log_entries[n][i] <= current_term[n]

LogInv == LeaderInv /\ EntryInv /\ EntryOrigin

\* A node keeps its log and becomes no leader, ...
Follows(n) ==
    /\ log_entries'[n] = log_entries[n]
    /\ current_term'[n] >= current_term[n]
    /\ state'[n] = "LEADER" => state[n] = "LEADER" /\ current_term'[n] = current_term[n]

\* ... or it wins its term, ...
Wins(n) ==
    /\ log_entries'[n] = log_entries[n]
    /\ current_term'[n] = current_term[n]
    /\ <<current_term[n], n>> \in elected'

\* ... or it leads and appends an entry of its term, ...
Appends(n) ==
    /\ state[n] = "LEADER"
    /\ current_term'[n] = current_term[n]
    /\ log_entries'[n] = Append(log_entries[n], current_term[n])

\* ... or it starts anew.
Forgets(n) == log_entries'[n] = <<>> /\ state'[n] = "FOLLOWER"

LEMMA LogInit == Init => LogInv
  <1> SUFFICES ASSUME Init PROVE LogInv
    OBVIOUS
  <1>1. \A n \in Node : state[n] = "FOLLOWER" /\ log_entries[n] = <<>>
    BY DEF Init
  <1> QED
    BY <1>1 DEF LogInv, LeaderInv, EntryInv, EntryOrigin

LEMMA FollowsHandled ==
    ASSUME TypeOK, NEW m \in Request, HandleVoteRequest(m) \/ HandleAppendEntries(m),
           log_entries' = log_entries
    PROVE  \A n \in Node : Follows(n)
  <1>1. m.to \in Node /\ m.term \in Nat
    BY RaftAssumption DEF Request
  <1>2. current_term \in [Node -> Nat] /\ state \in [Node -> {"FOLLOWER", "CANDIDATE", "LEADER"}]
    BY RaftAssumption DEF TypeOK
  <1>3. current_term' = [current_term EXCEPT ![m.to] =
                            IF m.term > current_term[m.to] THEN m.term ELSE @]
    BY DEF HandleVoteRequest, HandleAppendEntries
  <1>4. /\ \A n \in Node : n # m.to => state'[n] = state[n]
        /\ state'[m.to] \in {"FOLLOWER", state[m.to]}
        /\ m.term > current_term[m.to] => state'[m.to] = "FOLLOWER"
    BY <1>1, <1>2 DEF HandleVoteRequest, HandleAppendEntries
  <1> QED
    BY <1>1, <1>2, <1>3, <1>4 DEF Follows

LEMMA FollowsUntouched ==
    ASSUME TypeOK, UNCHANGED <<state, current_term, log_entries>>
    PROVE  \A n \in Node : Follows(n)
  <1>1. current_term \in [Node -> Nat]
    BY RaftAssumption DEF TypeOK
  <1> QED
    BY <1>1 DEF Follows

LEMMA FollowsStepDown ==
    ASSUME TypeOK, NEW n \in Node, NEW term \in Nat, term > current_term[n],
           StepDown(n, term), log_entries' = log_entries
    PROVE  \A p \in Node : Follows(p)
  <1>1. current_term \in [Node -> Nat] /\ state \in [Node -> {"FOLLOWER", "CANDIDATE", "LEADER"}]
    BY RaftAssumption DEF TypeOK
  <1>2. /\ current_term' = [current_term EXCEPT ![n] = term]
        /\ state' = [state EXCEPT ![n] = "FOLLOWER"]
    BY DEF StepDown
  <1> QED
    BY <1>1, <1>2 DEF Follows

\* What a step of the specification may do to a node's log, term and role.
LEMMA LogSteps ==
    ASSUME TypeInv, [Next]_vars
    PROVE  /\ elected \subseteq elected'
           /\ \A p \in Node : Follows(p) \/ Wins(p) \/ Appends(p) \/ Forgets(p)
  <1>0. TypeOK
    BY DEF TypeInv
  <1>a. /\ current_term \in [Node -> Nat]
        /\ state \in [Node -> {"FOLLOWER", "CANDIDATE", "LEADER"}]
        /\ DOMAIN log_entries = Node
        /\ log_entries = [p \in Node |-> log_entries[p]]
    BY <1>0, RaftAssumption DEF TypeOK
  <1> DEFINE Goal == /\ elected \subseteq elected'
                     /\ \A p \in Node : Follows(p) \/ Wins(p) \/ Appends(p) \/ Forgets(p)
  <1> HIDE DEF Goal
  <1>1. ASSUME elected' = elected, \A p \in Node : Follows(p)
        PROVE  Goal
    BY <1>1 DEF Goal
  <1>2. ASSUME NEW n \in Node, ElectionThread(n)
        PROVE  Goal
    <2>1. CASE StartElection(n)
      BY <1>1, <1>a, <2>1 DEF StartElection, Follows
    <2>2. CASE VoteAnswered(n)
      <3>1. VoteRequest(n) \in Request /\ HandleVoteRequest(VoteRequest(n))
        BY <1>0, <2>2, VoteRequestType DEF VoteAnswered, InLoop
      <3> QED
        BY <1>0, <1>1, <2>2, <3>1, FollowsHandled DEF VoteAnswered
    <2>3. CASE VoteRefusedStale(n)
      <3>1. Peer(n) \in Node
        BY <1>0, <2>3 DEF VoteRefusedStale, InLoop, Peer, TypeOK
      <3> QED
        BY <1>0, <1>1, <1>a, <2>3, <3>1, FollowsStepDown DEF VoteRefusedStale, history
    <2>4. CASE VoteCallbackError(n)
      BY <1>0, <1>1, <2>4, FollowsUntouched DEF VoteCallbackError, nodeVars, history
    <2>5. CASE FinishElection(n)
      <3>1. UNCHANGED <<current_term, log_entries>>
        BY <2>5 DEF FinishElection
      <3>2. CASE state' = state /\ elected' = elected
        BY <1>0, <1>1, <3>1, <3>2, FollowsUntouched
      <3>3. CASE /\ state' = [state EXCEPT ![n] = "LEADER"]
                 /\ elected' = elected \cup {<<current_term[n], n>>}
        <4>1. \A p \in Node : p # n => Follows(p)
          BY <1>a, <3>1, <3>3 DEF Follows
        <4>2. Wins(n)
          BY <3>1, <3>3 DEF Wins
        <4> QED
          BY <3>3, <4>1, <4>2 DEF Goal
      <3> QED
        BY <2>5, <3>2, <3>3 DEF FinishElection
    <2> QED
      BY <1>2, <2>1, <2>2, <2>3, <2>4, <2>5 DEF ElectionThread
  <1>3. ASSUME NEW n \in Node, HeartbeatThread(n)
        PROVE  Goal
    <2>1. CASE HeartbeatAnswered(n)
      <3>1. PICK m \in AppendRequests(n) : HandleAppendEntries(m)
        BY <2>1 DEF HeartbeatAnswered
      <3>2. slot[n] <= Len(cluster_nodes[n])
        BY <2>1 DEF HeartbeatAnswered, InLoop
      <3>3. slot[n] \in Slots
        BY <1>0, <3>2, SeqLength, RaftAssumption DEF TypeInv, TypeOK, ClusterWithinCapacity, Slots
      <3>4. m \in Request
        BY <1>0, <3>2, <3>3, AppendRequestType
      <3> QED
        BY <1>0, <1>1, <2>1, <3>1, <3>4, FollowsHandled DEF HeartbeatAnswered, history
    <2>2. CASE HeartbeatRefusedStale(n)
      <3>1. Peer(n) \in Node
        BY <1>0, <2>2 DEF HeartbeatRefusedStale, InLoop, Peer, TypeOK
      <3> QED
        BY <1>0, <1>1, <1>a, <2>2, <3>1, FollowsStepDown DEF HeartbeatRefusedStale, history
    <2>3. CASE StartHeartbeat(n) \/ HeartbeatCallbackError(n) \/ FinishHeartbeat(n)
      BY <1>0, <1>1, <2>3, FollowsUntouched
         DEF StartHeartbeat, HeartbeatCallbackError, FinishHeartbeat, nodeVars, history
    <2> QED
      BY <1>3, <2>1, <2>2, <2>3 DEF HeartbeatThread
  <1>4. CASE UNCHANGED vars
    BY <1>0, <1>1, <1>4, FollowsUntouched DEF vars, nodeVars, history
  <1>5. ASSUME NEW n \in Node, SkipSelf(n) \/ Idle(n)
        PROVE  Goal
    <2>1. UNCHANGED <<state, current_term, log_entries, elected>>
      BY <1>5 DEF SkipSelf, Idle, vars, nodeVars, history
    <2> QED
      BY <1>0, <1>1, <2>1, FollowsUntouched
  <1>6. ASSUME NEW n \in Node, AppendLog(n)
        PROVE  Goal
    <2>1. /\ UNCHANGED <<state, current_term, elected>>
          /\ log_entries' = [log_entries EXCEPT ![n] = Append(@, current_term[n])]
          /\ state[n] = "LEADER"
      BY <1>6 DEF AppendLog, history
    <2>2. \A p \in Node : p # n => Follows(p)
      BY <1>a, <2>1 DEF Follows
    <2>3. Appends(n)
      BY <1>a, <2>1 DEF Appends
    <2> QED
      BY <2>1, <2>2, <2>3 DEF Goal
  <1>7. ASSUME NEW n \in Node, Restart(n)
        PROVE  Goal
    <2>1. /\ state' = [state EXCEPT ![n] = "FOLLOWER"]
          /\ current_term' = [current_term EXCEPT ![n] = 0]
          /\ log_entries' = [log_entries EXCEPT ![n] = <<>>]
          /\ elected' = elected
      BY <1>7 DEF Restart, history
    <2>2. \A p \in Node : p # n => Follows(p)
      BY <1>a, <2>1 DEF Follows
    <2>3. Forgets(n)
      BY <1>a, <2>1 DEF Forgets
    <2> QED
      BY <2>1, <2>2, <2>3 DEF Goal
  <1>8. ASSUME NEW m \in late, LateVoteRequest(m) \/ LateAppendEntries(m)
        PROVE  Goal
    <2>1. m \in Request
      BY <1>0 DEF TypeOK
    <2> QED
      BY <1>0, <1>1, <1>8, <2>1, FollowsHandled DEF LateVoteRequest, LateAppendEntries, history
  <1>9. ASSUME NEW a \in Adder, NEW n \in Node, AddNodeCheck(a, n) \/ AddNodeInsert(a, n)
        PROVE  Goal
    BY <1>0, <1>1, <1>9, FollowsUntouched DEF AddNodeCheck, AddNodeInsert, nodeVars, history
  <1> QED
    BY <1>2, <1>3, <1>4, <1>5, <1>6, <1>7, <1>8, <1>9 DEF Next, Goal

LEMMA LogNext ==
    ASSUME TypeInv, TypeInv', LogInv, [Next]_vars
    PROVE  LogInv'
  <1>0. TypeOK /\ TypeOK'
    BY DEF TypeInv
  <1>1. elected \subseteq elected'
    BY LogSteps
  <1> SUFFICES ASSUME NEW n \in Node
               PROVE  /\ state'[n] = "LEADER" => <<current_term'[n], n>> \in elected'
                      /\ \A i \in DOMAIN log_entries'[n] :
                            /\ log_entries'[n][i] <= current_term'[n]
                            /\ <<log_entries'[n][i], n>> \in elected'
                      /\ \A i, j \in DOMAIN log_entries'[n] :
                            i < j => log_entries'[n][i] <= log_entries'[n][j]
    BY DEF LogInv, LeaderInv, EntryInv, EntryOrigin
  <1>2. /\ state[n] = "LEADER" => <<current_term[n], n>> \in elected
        /\ \A i \in DOMAIN log_entries[n] :
              /\ log_entries[n][i] <= current_term[n]
              /\ <<log_entries[n][i], n>> \in elected
        /\ \A i, j \in DOMAIN log_entries[n] :
              i < j => log_entries[n][i] <= log_entries[n][j]
    BY DEF LogInv, LeaderInv, EntryInv, EntryOrigin
  <1>a. log_entries[n] \in Seq(0..MaxTerm)
    BY <1>0 DEF TypeOK
  <1>3. /\ current_term[n] \in Nat /\ current_term'[n] \in Nat
        /\ \A i \in DOMAIN log_entries[n] : log_entries[n][i] \in Nat
    <2>1. \A i \in DOMAIN log_entries[n] : log_entries[n][i] \in 0..MaxTerm
      <3>1. DOMAIN log_entries[n] = 1..Len(log_entries[n])
        BY <1>a
      <3> QED
        BY <1>a, <3>1, SeqElement
    <2>2. \A k \in 0..MaxTerm : k \in Nat
      BY RaftAssumption
    <2>3. current_term[n] \in 0..MaxTerm
      BY <1>0 DEF TypeOK
    <2>4. current_term'[n] \in 0..MaxTerm
      BY <1>0 DEF TypeOK
    <2> QED
      BY <2>1, <2>2, <2>3, <2>4
  <1>4. Follows(n) \/ Wins(n) \/ Appends(n) \/ Forgets(n)
    BY LogSteps
  <1>5. CASE Follows(n)
    <2>1. \A i \in DOMAIN log_entries[n] : log_entries[n][i] <= current_term'[n]
      <3>1. current_term'[n] >= current_term[n]
        BY <1>5 DEF Follows
      <3>2. ASSUME NEW x \in Nat, x <= current_term[n] PROVE x <= current_term'[n]
        BY <1>3, <3>1, <3>2
      <3> QED
        BY <1>2, <1>3, <3>2
    <2>2. state'[n] = "LEADER" => <<current_term'[n], n>> \in elected'
      BY <1>1, <1>2, <1>5 DEF Follows
    <2> QED
      BY <1>1, <1>2, <1>5, <2>1, <2>2 DEF Follows
  <1>6. CASE Wins(n)
    BY <1>1, <1>2, <1>3, <1>6 DEF Wins
  <1>7. CASE Appends(n)
    <2>1. /\ DOMAIN log_entries'[n] = 1..(Len(log_entries[n]) + 1)
          /\ DOMAIN log_entries[n] = 1..Len(log_entries[n])
          /\ \A i \in 1..Len(log_entries[n]) : log_entries'[n][i] = log_entries[n][i]
          /\ log_entries'[n][Len(log_entries[n]) + 1] = current_term[n]
          /\ Len(log_entries[n]) \in Nat
      BY <1>a, <1>3, <1>7 DEF Appends
    <2>2. current_term'[n] = current_term[n] /\ <<current_term[n], n>> \in elected'
      BY <1>1, <1>2, <1>7 DEF Appends
    <2>3. \A i \in DOMAIN log_entries'[n] :
             /\ log_entries'[n][i] <= current_term'[n]
             /\ <<log_entries'[n][i], n>> \in elected'
      <3>1. ASSUME NEW i \in DOMAIN log_entries'[n]
            PROVE  i \in 1..Len(log_entries[n]) \/ i = Len(log_entries[n]) + 1
        BY <2>1
      <3>2. ASSUME NEW i \in 1..Len(log_entries[n])
            PROVE  /\ log_entries'[n][i] <= current_term'[n]
                   /\ <<log_entries'[n][i], n>> \in elected'
        BY <1>1, <1>2, <1>3, <2>1, <2>2
      <3>3. /\ log_entries'[n][Len(log_entries[n]) + 1] <= current_term'[n]
            /\ <<log_entries'[n][Len(log_entries[n]) + 1], n>> \in elected'
        BY <1>1, <1>3, <2>1, <2>2
      <3> QED BY <3>1, <3>2, <3>3
    <2>4. \A i, j \in DOMAIN log_entries'[n] :
             i < j => log_entries'[n][i] <= log_entries'[n][j]
      <3> SUFFICES ASSUME NEW i \in DOMAIN log_entries'[n], NEW j \in DOMAIN log_entries'[n], i < j
                   PROVE  log_entries'[n][i] <= log_entries'[n][j]
        OBVIOUS
      <3>1. i \in 1..Len(log_entries[n])
        BY <2>1
      <3>2. CASE j \in 1..Len(log_entries[n])
        BY <1>2, <2>1, <3>1, <3>2
      <3>3. CASE j = Len(log_entries[n]) + 1
        BY <1>2, <2>1, <3>1, <3>3
      <3> QED
        BY <2>1, <3>2, <3>3
    <2> QED
      BY <2>2, <2>3, <2>4
  <1>8. CASE Forgets(n)
    BY <1>8 DEF Forgets
  <1> QED
    BY <1>4, <1>5, <1>6, <1>7, <1>8

\* Every entry of a log was appended in a term its node had won, and terms never
\* decrease along a log, also when nodes restart, step down or are voted for late
\* (raft.c:115-121, 187-193, 329-332, 349).
THEOREM EntriesWon ==
    ASSUME SerialAdders
    PROVE  Spec => []EntryOrigin
  <1>1. TypeInv /\ [Next]_vars => TypeInv'
    BY TypeNext
  <1>2. TypeInv /\ TypeInv' /\ LogInv /\ [Next]_vars => LogInv'
    BY LogNext
  <1>3. LogInv => EntryOrigin
    BY DEF LogInv
  <1> QED
    BY <1>1, <1>2, <1>3, TypeInit, LogInit, PTL DEF Spec

-----------------------------------------------------------------------------
(* The indices a leader keeps *)

\* The part of the invariant that is about one node.
IndicesInBounds(n) ==
    \A i \in 1..Len(cluster_nodes[n]) : next_index[n][i] \in 1..(Len(log_entries[n]) + 1)

LEMMA IndexInit == Init => LeaderIndexInBounds
  BY DEF Init, LeaderIndexInBounds

\* A step that makes nobody a leader and leaves logs, lists and indices alone.
LEMMA IndexKept ==
    ASSUME LeaderIndexInBounds, UNCHANGED <<log_entries, next_index, cluster_nodes>>,
           \A p \in Node : state'[p] = "LEADER" => state[p] = "LEADER"
    PROVE  LeaderIndexInBounds'
  BY DEF LeaderIndexInBounds

\* One subtracted and added again in unsigned arithmetic.
LEMMA ModWrap ==
    ASSUME NEW k \in Nat, NEW M \in Nat, k >= 1, k < M
    PROVE  (((k + M - 1) % M) + 1) % M = k
  <1>1. (k + M - 1) % M = k - 1
    BY Z3
  <1>2. k % M = k
    BY Z3
  <1> QED
    BY <1>1, <1>2

\* A heartbeat answered: the index of the slot stays or goes back by one.
LEMMA IndexAnswered ==
    ASSUME TypeInv, LeaderIndexInBounds, NEW n \in Node, HeartbeatAnswered(n)
    PROVE  LeaderIndexInBounds'
  <1>0. TypeOK
    BY DEF TypeInv
  <1>1. /\ slot[n] <= Len(cluster_nodes[n])
        /\ UNCHANGED <<log_entries, cluster_nodes>>
    BY DEF HeartbeatAnswered, InLoop, apiVars
  <1>2. /\ slot[n] \in 1..Len(cluster_nodes[n]) /\ slot[n] \in Slots
        /\ Len(cluster_nodes[n]) \in Nat
        /\ Len(log_entries[n]) \in Nat /\ Len(log_entries[n]) <= MaxLog
    <2>1. slot[n] \in 1..(MaxNodes + 1)
      BY <1>0 DEF TypeOK
    <2>2. Len(cluster_nodes[n]) \in Nat /\ Len(log_entries[n]) \in Nat
      BY <1>0, SeqLength DEF TypeOK
    <2>3. Len(cluster_nodes[n]) <= MaxNodes /\ Len(log_entries[n]) <= MaxLog
      BY <1>0 DEF TypeInv, TypeOK, ClusterWithinCapacity
    <2> QED
      BY <1>1, <2>1, <2>2, <2>3, RaftAssumption DEF Slots
  <1>3. PICK m \in AppendRequests(n) :
           /\ HandleAppendEntries(m)
           /\ \/ next_index' = [next_index EXCEPT ![n][slot[n]] = (m.index + 1) % IndexMod]
              \/ next_index' = [next_index EXCEPT ![n][slot[n]] = StepBack(@)]
    BY DEF HeartbeatAnswered
  <1>4. m \in Request
    BY <1>0, <1>1, <1>2, AppendRequestType
  <1>5. \A p \in Node : state'[p] = "LEADER" => state[p] = "LEADER"
    BY <1>0, <1>1, <1>3, <1>4, FollowsHandled DEF Follows
  <1>6. /\ m.index = (next_index[n][slot[n]] + IndexMod - 1) % IndexMod
        /\ next_index \in [Node -> [Slots -> Index]]
    BY <1>0 DEF AppendRequests, PrevLogIndex, TypeOK
  <1>7. \A p \in Node : p # n => next_index'[p] = next_index[p]
    BY <1>3, <1>6
  <1>8. ASSUME state[n] = "LEADER" PROVE IndicesInBounds(n)'
    <2>1. next_index[n][slot[n]] \in 1..(Len(log_entries[n]) + 1)
      BY <1>2, <1>8 DEF LeaderIndexInBounds
    <2>2. (m.index + 1) % IndexMod = next_index[n][slot[n]]
      <3>1. /\ next_index[n][slot[n]] \in Nat /\ next_index[n][slot[n]] >= 1
            /\ next_index[n][slot[n]] < IndexMod /\ IndexMod \in Nat
        BY <1>2, <2>1, RaftAssumption
      <3> QED
        BY <1>6, <3>1, ModWrap
    <2>3. StepBack(next_index[n][slot[n]]) \in 1..(Len(log_entries[n]) + 1)
      BY <1>2, <2>1 DEF StepBack
    <2>4. /\ \A i \in Slots : i # slot[n] => next_index'[n][i] = next_index[n][i]
          /\ next_index'[n][slot[n]] \in 1..(Len(log_entries[n]) + 1)
      BY <1>2, <1>3, <1>6, <2>1, <2>2, <2>3
    <2>5. \A i \in 1..Len(cluster_nodes[n]) : i \in Slots
      BY <1>0, <1>2, RaftAssumption DEF TypeInv, ClusterWithinCapacity, Slots
    <2> QED
      BY <1>1, <1>8, <2>4, <2>5 DEF IndicesInBounds, LeaderIndexInBounds
  <1>9. \A p \in Node : p # n => (state'[p] = "LEADER" => IndicesInBounds(p)')
    BY <1>1, <1>5, <1>7 DEF IndicesInBounds, LeaderIndexInBounds
  <1> QED
    BY <1>5, <1>8, <1>9 DEF IndicesInBounds, LeaderIndexInBounds

\* A winner sets every index to the end of its log.
LEMMA IndexElected ==
    ASSUME TypeInv, LeaderIndexInBounds, NEW n \in Node, FinishElection(n)
    PROVE  LeaderIndexInBounds'
  <1>0. TypeOK
    BY DEF TypeInv
  <1>1. UNCHANGED <<log_entries, cluster_nodes>>
    BY DEF FinishElection, apiVars
  <1>2. CASE UNCHANGED <<state, leaderVars>>
    BY <1>1, <1>2, IndexKept DEF leaderVars
  <1>3. CASE /\ state' = [state EXCEPT ![n] = "LEADER"]
             /\ next_index' = [next_index EXCEPT ![n] =
                  [i \in Slots |-> IF i <= Len(cluster_nodes[n])
                                   THEN Len(log_entries[n]) + 1 ELSE @[i]]]
    <2>1. /\ Len(cluster_nodes[n]) \in Nat /\ Len(cluster_nodes[n]) <= MaxNodes
          /\ Len(log_entries[n]) \in Nat
      BY <1>0, SeqLength DEF TypeInv, TypeOK, ClusterWithinCapacity
    <2>2. \A i \in 1..Len(cluster_nodes[n]) : i \in Slots /\ i <= Len(cluster_nodes[n])
      BY <2>1, RaftAssumption DEF Slots
    <2>3. \A i \in 1..Len(cluster_nodes[n]) : next_index'[n][i] = Len(log_entries[n]) + 1
      BY <1>0, <1>3, <2>2 DEF TypeOK
    <2>4. IndicesInBounds(n)'
      BY <1>1, <2>1, <2>3 DEF IndicesInBounds
    <2>5. \A p \in Node : p # n => (state'[p] = "LEADER" => IndicesInBounds(p)')
      BY <1>0, <1>1, <1>3 DEF IndicesInBounds, LeaderIndexInBounds, TypeOK
    <2> QED
      BY <2>4, <2>5 DEF IndicesInBounds, LeaderIndexInBounds
  <1> QED
    BY <1>2, <1>3 DEF FinishElection

LEMMA IndexAppend ==
    ASSUME TypeInv, LeaderIndexInBounds, NEW n \in Node, AppendLog(n)
    PROVE  LeaderIndexInBounds'
  <1>0. TypeOK
    BY DEF TypeInv
  <1>1. /\ UNCHANGED <<state, next_index, cluster_nodes>>
        /\ log_entries' = [log_entries EXCEPT ![n] = Append(@, current_term[n])]
    BY DEF AppendLog, leaderVars, apiVars
  <1>2. /\ Len(log_entries[n]) \in Nat
        /\ Len(log_entries'[n]) = Len(log_entries[n]) + 1
        /\ \A p \in Node : p # n => log_entries'[p] = log_entries[p]
    <2>1. log_entries[n] \in Seq(0..MaxTerm) /\ current_term[n] \in 0..MaxTerm
      BY <1>0 DEF TypeOK
    <2> QED
      BY <1>0, <1>1, <2>1, AppendType, SeqLength DEF TypeOK
  <1>3. ASSUME NEW p \in Node, IndicesInBounds(p) PROVE IndicesInBounds(p)'
    <2>1. CASE p # n
      BY <1>1, <1>2, <1>3, <2>1 DEF IndicesInBounds
    <2>2. CASE p = n
      <3>1. \A x : x \in 1..(Len(log_entries[n]) + 1) => x \in 1..(Len(log_entries'[n]) + 1)
        BY <1>2
      <3> QED
        BY <1>1, <1>3, <2>2, <3>1 DEF IndicesInBounds
    <2> QED
      BY <2>1, <2>2
  <1> QED
    BY <1>1, <1>3 DEF IndicesInBounds, LeaderIndexInBounds

LEMMA IndexRestart ==
    ASSUME TypeInv, LeaderIndexInBounds, NEW n \in Node, Restart(n)
    PROVE  LeaderIndexInBounds'
  <1>0. TypeOK
    BY DEF TypeInv
  <1>1. /\ state' = [state EXCEPT ![n] = "FOLLOWER"]
        /\ log_entries' = [log_entries EXCEPT ![n] = <<>>]
        /\ next_index' = [next_index EXCEPT ![n] = [i \in Slots |-> 0]]
        /\ cluster_nodes' = [cluster_nodes EXCEPT ![n] = InitialCluster[n]]
    BY DEF Restart
  <1>2. state'[n] = "FOLLOWER"
    BY <1>0, <1>1 DEF TypeOK
  <1>3. \A p \in Node : p # n => (state'[p] = "LEADER" => IndicesInBounds(p)')
    BY <1>0, <1>1 DEF IndicesInBounds, LeaderIndexInBounds, TypeOK
  <1> QED
    BY <1>2, <1>3 DEF IndicesInBounds, LeaderIndexInBounds

LEMMA IndexNext ==
    ASSUME Adder = {}, TypeInv, LeaderIndexInBounds, [Next]_vars
    PROVE  LeaderIndexInBounds'
  <1>0. TypeOK
    BY DEF TypeInv
  <1>a. current_term \in [Node -> Nat] /\ state \in [Node -> {"FOLLOWER", "CANDIDATE", "LEADER"}]
    BY <1>0, RaftAssumption DEF TypeOK
  <1>1. ASSUME NEW n \in Node, ElectionThread(n) PROVE LeaderIndexInBounds'
    <2>1. CASE StartElection(n)
      <3>1. \A p \in Node : state'[p] = "LEADER" => state[p] = "LEADER"
        BY <1>a, <2>1 DEF StartElection
      <3> QED
        BY <2>1, <3>1, IndexKept DEF StartElection, leaderVars, apiVars
    <2>2. CASE VoteAnswered(n)
      <3>1. VoteRequest(n) \in Request /\ HandleVoteRequest(VoteRequest(n))
        BY <1>0, <2>2, VoteRequestType DEF VoteAnswered, InLoop
      <3>2. UNCHANGED <<log_entries, next_index, cluster_nodes>>
        BY <2>2 DEF VoteAnswered, leaderVars, apiVars
      <3> QED
        BY <1>0, <3>1, <3>2, FollowsHandled, IndexKept DEF Follows
    <2>3. CASE VoteRefusedStale(n)
      <3>1. /\ UNCHANGED <<log_entries, next_index, cluster_nodes>>
            /\ state' = [state EXCEPT ![n] = "FOLLOWER"]
        BY <2>3 DEF VoteRefusedStale, StepDown, leaderVars, apiVars
      <3> QED
        BY <1>a, <3>1, IndexKept
    <2>4. CASE VoteCallbackError(n)
      BY <2>4, IndexKept DEF VoteCallbackError, nodeVars, leaderVars, apiVars
    <2> QED
      BY <1>1, <2>1, <2>2, <2>3, <2>4, IndexElected DEF ElectionThread
  <1>2. ASSUME NEW n \in Node, HeartbeatThread(n) PROVE LeaderIndexInBounds'
    <2>1. CASE HeartbeatRefusedStale(n)
      <3>1. /\ UNCHANGED <<log_entries, next_index, cluster_nodes>>
            /\ state' = [state EXCEPT ![n] = "FOLLOWER"]
        BY <2>1 DEF HeartbeatRefusedStale, StepDown, leaderVars, apiVars
      <3> QED
        BY <1>a, <3>1, IndexKept
    <2>2. CASE StartHeartbeat(n) \/ HeartbeatCallbackError(n) \/ FinishHeartbeat(n)
      BY <2>2, IndexKept
         DEF StartHeartbeat, HeartbeatCallbackError, FinishHeartbeat, nodeVars, leaderVars, apiVars
    <2> QED
      BY <1>2, <2>1, <2>2, IndexAnswered DEF HeartbeatThread
  <1>3. CASE UNCHANGED vars
    BY <1>3, IndexKept DEF vars, nodeVars, leaderVars, apiVars
  <1>4. ASSUME NEW n \in Node, SkipSelf(n) \/ Idle(n) \/ AppendLog(n) \/ Restart(n)
        PROVE  LeaderIndexInBounds'
    <2>1. ASSUME SkipSelf(n) \/ Idle(n) PROVE LeaderIndexInBounds'
      <3>1. UNCHANGED <<state, log_entries, next_index, cluster_nodes>>
        BY <2>1 DEF SkipSelf, Idle, vars, nodeVars, leaderVars, apiVars
      <3> QED
        BY <3>1, IndexKept
    <2> QED
      BY <1>4, <2>1, IndexAppend, IndexRestart
  <1>5. ASSUME NEW m \in late, LateVoteRequest(m) \/ LateAppendEntries(m)
        PROVE  LeaderIndexInBounds'
    <2>1. m \in Request
      BY <1>0 DEF TypeOK
    <2>2. UNCHANGED <<log_entries, next_index, cluster_nodes>>
      BY <1>5 DEF LateVoteRequest, LateAppendEntries, leaderVars, apiVars
    <2> QED
      BY <1>0, <1>5, <2>1, <2>2, FollowsHandled, IndexKept
         DEF LateVoteRequest, LateAppendEntries, Follows
  <1> QED
    BY <1>1, <1>2, <1>3, <1>4, <1>5 DEF Next

\* With a cluster that is fixed before the threads start, the heartbeat thread
\* only reads entries that exist, and next_index - 1 never wraps: an index starts
\* behind the log, goes back no further than 1 and is never ahead of the log,
\* also when nodes restart (raft.c:133-137, 173-176, 195-203).
THEOREM IndicesKept ==
    ASSUME Adder = {}
    PROVE  Spec => []LeaderIndexInBounds
  <1>0. SerialAdders
    BY DEF SerialAdders
  <1>1. TypeInv /\ [Next]_vars => TypeInv'
    BY <1>0, TypeNext
  <1>2. TypeInv /\ LeaderIndexInBounds /\ [Next]_vars => LeaderIndexInBounds'
    BY IndexNext
  <1> QED
    BY <1>1, <1>2, TypeInit, IndexInit, PTL DEF Spec

-----------------------------------------------------------------------------
(* What a restart costs *)

\* A node votes at most once in a term, and once more for each restart of the
\* cluster's processes.
BallotsPerRestart ==
    \A t \in 0..MaxTerm, v \in Node :
        Cardinality({b \in ballots : b[1] = t /\ b[2] = v}) <= 1 + restarts

\* The ballots of v in term t.
Cast(t, v) == {b \in ballots : b[1] = t /\ b[2] = v}

\* Each restart leaves a node at most one ballot per term that it has forgotten.
CastInv ==
    \A t \in 0..MaxTerm, v \in Node :
        /\ IsFiniteSet(Cast(t, v))
        /\ Cardinality(Cast(t, v)) <= 1 + restarts
        /\ \/ current_term[v] < t
           \/ current_term[v] = t /\ voted_for[v] = Nil
           => Cardinality(Cast(t, v)) <= restarts
        /\ current_term[v] = t /\ voted_for[v] # Nil => <<t, v, voted_for[v]>> \in ballots

\* A step casts no vote: terms stay, with their votes, or grow, without one ...
NoVote ==
    /\ UNCHANGED <<ballots, restarts>>
    /\ \A v \in Node : \/ current_term'[v] = current_term[v] /\ voted_for'[v] = voted_for[v]
                       \/ current_term'[v] > current_term[v] /\ voted_for'[v] = Nil

\* ... or v votes for c in term t ...
Votes(t, v, c) ==
    /\ restarts' = restarts
    /\ ballots' = ballots \cup {<<t, v, c>>}
    /\ current_term' = [current_term EXCEPT ![v] = t]
    /\ voted_for' = [voted_for EXCEPT ![v] = c]
    /\ \/ current_term[v] < t
       \/ current_term[v] = t /\ voted_for[v] \in {Nil, c}

\* ... or a process is started again.
Restarts(v) ==
    /\ restarts' = restarts + 1
    /\ ballots' = ballots
    /\ current_term' = [current_term EXCEPT ![v] = 0]
    /\ voted_for' = [voted_for EXCEPT ![v] = Nil]

LEMMA CastInit == Init => CastInv
  <1> SUFFICES ASSUME Init, NEW t \in 0..MaxTerm, NEW v \in Node
               PROVE  /\ IsFiniteSet(Cast(t, v))
                      /\ Cardinality(Cast(t, v)) = 0
                      /\ restarts = 0
                      /\ voted_for[v] = Nil
    BY DEF CastInv
  <1>1. Cast(t, v) = {}
    BY DEF Init, Cast
  <1> QED
    BY <1>1, FS_EmptySet DEF Init

LEMMA NoVoteStep ==
    ASSUME TypeOK, TypeOK', CastInv, NoVote
    PROVE  CastInv'
  <1> SUFFICES ASSUME NEW t \in 0..MaxTerm, NEW v \in Node
               PROVE  /\ IsFiniteSet(Cast(t, v)')
                      /\ Cardinality(Cast(t, v)') <= 1 + restarts'
                      /\ \/ current_term'[v] < t
                         \/ current_term'[v] = t /\ voted_for'[v] = Nil
                         => Cardinality(Cast(t, v)') <= restarts'
                      /\ current_term'[v] = t /\ voted_for'[v] # Nil =>
                            <<t, v, voted_for'[v]>> \in ballots'
    BY DEF CastInv
  <1>1. Cast(t, v)' = Cast(t, v) /\ restarts' = restarts /\ ballots' = ballots
    BY DEF NoVote, Cast
  <1>2. current_term[v] \in Nat /\ t \in Nat
    BY RaftAssumption DEF TypeOK
  <1>3. current_term'[v] \in Nat
    BY RaftAssumption DEF TypeOK
  <1>4. /\ IsFiniteSet(Cast(t, v))
        /\ Cardinality(Cast(t, v)) <= 1 + restarts
        /\ \/ current_term[v] < t
           \/ current_term[v] = t /\ voted_for[v] = Nil
           => Cardinality(Cast(t, v)) <= restarts
        /\ current_term[v] = t /\ voted_for[v] # Nil => <<t, v, voted_for[v]>> \in ballots
    BY DEF CastInv
  <1>5. CASE current_term'[v] = current_term[v] /\ voted_for'[v] = voted_for[v]
    BY <1>1, <1>4, <1>5
  <1>6. CASE current_term'[v] > current_term[v] /\ voted_for'[v] = Nil
    BY <1>1, <1>2, <1>3, <1>4, <1>6
  <1> QED
    BY <1>5, <1>6 DEF NoVote

LEMMA VotesStep ==
    ASSUME TypeOK, CastInv, NEW term \in 0..MaxTerm, NEW p \in Node, NEW c \in Node,
           Votes(term, p, c)
    PROVE  CastInv'
  <1> SUFFICES ASSUME NEW t \in 0..MaxTerm, NEW v \in Node
               PROVE  /\ IsFiniteSet(Cast(t, v)')
                      /\ Cardinality(Cast(t, v)') <= 1 + restarts'
                      /\ \/ current_term'[v] < t
                         \/ current_term'[v] = t /\ voted_for'[v] = Nil
                         => Cardinality(Cast(t, v)') <= restarts'
                      /\ current_term'[v] = t /\ voted_for'[v] # Nil =>
                            <<t, v, voted_for'[v]>> \in ballots'
    BY DEF CastInv
  <1>1. current_term[v] \in Nat /\ t \in Nat /\ term \in Nat /\ restarts \in Nat
    BY RaftAssumption DEF TypeOK
  <1>2. /\ IsFiniteSet(Cast(t, v))
        /\ Cardinality(Cast(t, v)) <= 1 + restarts
        /\ \/ current_term[v] < t
           \/ current_term[v] = t /\ voted_for[v] = Nil
           => Cardinality(Cast(t, v)) <= restarts
        /\ current_term[v] = t /\ voted_for[v] # Nil => <<t, v, voted_for[v]>> \in ballots
    BY DEF CastInv
  <1>3. /\ current_term'[p] = term /\ voted_for'[p] = c
        /\ v # p => current_term'[v] = current_term[v] /\ voted_for'[v] = voted_for[v]
        /\ restarts' = restarts
        /\ ballots' = ballots \cup {<<term, p, c>>}
    BY DEF Votes, TypeOK
  <1>4. CASE v # p \/ t # term
    <2>1. Cast(t, v)' = Cast(t, v)
      BY <1>3, <1>4 DEF Cast
    <2>2. CASE v # p
      BY <1>2, <1>3, <2>1, <2>2
    <2>3. CASE v = p /\ t # term
      <3>1. current_term'[v] = term /\ (current_term[v] <= term)
        BY <1>1, <1>3, <2>3 DEF Votes
      <3> QED
        BY <1>1, <1>2, <1>3, <2>1, <2>3, <3>1
    <2> QED
      BY <1>4, <2>2, <2>3
  <1>5. CASE v = p /\ t = term
    <2>1. Cast(t, v)' = Cast(t, v) \cup {<<term, p, c>>}
      BY <1>3, <1>5 DEF Cast
    <2>2. /\ IsFiniteSet(Cast(t, v)')
          /\ Cardinality(Cast(t, v)') = IF <<term, p, c>> \in Cast(t, v)
                                        THEN Cardinality(Cast(t, v)) ELSE Cardinality(Cast(t, v)) + 1
      BY <1>2, <2>1, FS_AddElement
    <2>3. Cardinality(Cast(t, v)) \in Nat
      BY <1>2, FS_CardinalityType
    <2>4. CASE current_term[v] < t \/ (current_term[v] = t /\ voted_for[v] = Nil)
      <3>1. Cardinality(Cast(t, v)') <= 1 + restarts
        BY <1>1, <1>2, <2>2, <2>3, <2>4
      <3> QED
        BY <1>1, <1>3, <1>5, <2>2, <3>1, RaftAssumption
    <2>5. CASE current_term[v] = t /\ voted_for[v] = c /\ c # Nil
      <3>1. <<term, p, c>> \in Cast(t, v)
        BY <1>2, <1>5, <2>5 DEF Cast
      <3> QED
        BY <1>1, <1>2, <1>3, <1>5, <2>2, <2>5, <3>1, RaftAssumption
    <2> QED
      BY <1>5, <2>4, <2>5 DEF Votes
  <1> QED
    BY <1>4, <1>5

LEMMA RestartsStep ==
    ASSUME TypeOK, CastInv, NEW p \in Node, Restarts(p)
    PROVE  CastInv'
  <1> SUFFICES ASSUME NEW t \in 0..MaxTerm, NEW v \in Node
               PROVE  /\ IsFiniteSet(Cast(t, v)')
                      /\ Cardinality(Cast(t, v)') <= 1 + restarts'
                      /\ Cardinality(Cast(t, v)') <= restarts'
                      /\ current_term'[v] = t /\ voted_for'[v] # Nil =>
                            <<t, v, voted_for'[v]>> \in ballots'
    BY DEF CastInv
  <1>1. Cast(t, v)' = Cast(t, v) /\ ballots' = ballots /\ restarts' = restarts + 1
    BY DEF Restarts, Cast
  <1>2. restarts \in Nat
    BY RaftAssumption DEF TypeOK
  <1>3. /\ IsFiniteSet(Cast(t, v))
        /\ Cardinality(Cast(t, v)) <= 1 + restarts
        /\ current_term[v] = t /\ voted_for[v] # Nil => <<t, v, voted_for[v]>> \in ballots
    BY DEF CastInv
  <1>4. Cardinality(Cast(t, v)) \in Nat
    BY <1>3, FS_CardinalityType
  <1>5. voted_for'[v] = Nil \/ (current_term'[v] = current_term[v] /\ voted_for'[v] = voted_for[v])
    BY DEF Restarts, TypeOK
  <1> QED
    BY <1>1, <1>2, <1>3, <1>4, <1>5

\* A vote request grants a vote, or clears one, or changes nothing.
LEMMA CastHandled ==
    ASSUME TypeOK, NEW m \in Request, HandleVoteRequest(m), restarts' = restarts
    PROVE  NoVote \/ Votes(m.term, m.to, m.from)
  <1>1. m.to \in Node /\ m.from \in Node /\ m.term \in Nat
    BY RaftAssumption DEF Request
  <1>2. current_term \in [Node -> Nat] /\ voted_for \in [Node -> Node \cup {Nil}]
    BY RaftAssumption DEF TypeOK
  <1>3. CASE VoteGranted(m)
    <2>1. \/ current_term[m.to] < m.term
          \/ current_term[m.to] = m.term /\ voted_for[m.to] \in {Nil, m.from}
      BY <1>1, <1>2, <1>3 DEF VoteGranted
    <2>2. current_term' = [current_term EXCEPT ![m.to] = m.term]
      BY <1>1, <1>2, <2>1 DEF HandleVoteRequest
    <2>3. /\ voted_for' = [voted_for EXCEPT ![m.to] = m.from]
          /\ ballots' = ballots \cup {<<m.term, m.to, m.from>>}
      BY <1>3 DEF HandleVoteRequest
    <2> QED
      BY <2>1, <2>2, <2>3 DEF Votes
  <1>4. CASE ~VoteGranted(m)
    BY <1>1, <1>2, <1>4 DEF HandleVoteRequest, NoVote
  <1> QED
    BY <1>3, <1>4

LEMMA AppendCastsNothing ==
    ASSUME TypeOK, NEW m \in Request, HandleAppendEntries(m), UNCHANGED <<restarts, ballots>>
    PROVE  NoVote
  <1>1. m.to \in Node /\ m.term \in Nat
    BY RaftAssumption DEF Request
  <1>2. current_term \in [Node -> Nat] /\ voted_for \in [Node -> Node \cup {Nil}]
    BY RaftAssumption DEF TypeOK
  <1> QED
    BY <1>1, <1>2 DEF HandleAppendEntries, NoVote

LEMMA StepDownCastsNothing ==
    ASSUME TypeOK, NEW n \in Node, NEW term \in Nat, term > current_term[n],
           StepDown(n, term), UNCHANGED <<restarts, ballots>>
    PROVE  NoVote
  <1>1. current_term \in [Node -> Nat] /\ voted_for \in [Node -> Node \cup {Nil}]
    BY RaftAssumption DEF TypeOK
  <1> QED
    BY <1>1 DEF StepDown, NoVote

\* Every step preserves the invariant.
LEMMA CastNext ==
    ASSUME TypeInv, TypeInv', CastInv, [Next]_vars
    PROVE  CastInv'
  <1>0. TypeOK /\ TypeOK'
    BY DEF TypeInv
  <1>a. current_term \in [Node -> Nat] /\ voted_for \in [Node -> Node \cup {Nil}]
    BY <1>0, RaftAssumption DEF TypeOK
  <1>b. ASSUME UNCHANGED <<current_term, voted_for, ballots, restarts>>
        PROVE  CastInv'
    BY <1>0, <1>b, NoVoteStep DEF NoVote
  <1>c. ASSUME NEW m \in Request, HandleVoteRequest(m), restarts' = restarts
        PROVE  CastInv'
    <2>1. m.term \in 0..MaxTerm /\ m.to \in Node /\ m.from \in Node
      BY DEF Request
    <2> QED
      BY <1>0, <1>c, <2>1, CastHandled, NoVoteStep, VotesStep
  <1>1. ASSUME NEW n \in Node, ElectionThread(n) PROVE CastInv'
    <2>1. CASE StartElection(n)
      <3>1. current_term[n] + 1 \in 0..MaxTerm /\ current_term[n] < current_term[n] + 1
        BY <1>a, <2>1, RaftAssumption DEF StartElection
      <3>2. Votes(current_term[n] + 1, n, n)
        BY <2>1, <3>1 DEF StartElection, Votes
      <3> QED
        BY <1>0, <3>1, <3>2, VotesStep
    <2>2. CASE VoteAnswered(n)
      <3>1. VoteRequest(n) \in Request /\ HandleVoteRequest(VoteRequest(n))
        BY <1>0, <2>2, VoteRequestType DEF VoteAnswered, InLoop
      <3> QED
        BY <1>c, <2>2, <3>1 DEF VoteAnswered
    <2>3. CASE VoteRefusedStale(n)
      <3>1. Peer(n) \in Node
        BY <1>0, <2>3 DEF VoteRefusedStale, InLoop, Peer, TypeOK
      <3>2. current_term[Peer(n)] \in Nat
        BY <1>a, <3>1
      <3> QED
        BY <1>0, <2>3, <3>2, StepDownCastsNothing, NoVoteStep DEF VoteRefusedStale, history
    <2>4. CASE VoteCallbackError(n) \/ FinishElection(n)
      BY <1>b, <2>4 DEF VoteCallbackError, FinishElection, nodeVars, history
    <2> QED
      BY <1>1, <2>1, <2>2, <2>3, <2>4 DEF ElectionThread
  <1>2. ASSUME NEW n \in Node, HeartbeatThread(n) PROVE CastInv'
    <2>1. CASE HeartbeatAnswered(n)
      <3>1. PICK m \in AppendRequests(n) : HandleAppendEntries(m)
        BY <2>1 DEF HeartbeatAnswered
      <3>2. slot[n] <= Len(cluster_nodes[n]) /\ UNCHANGED <<restarts, ballots>>
        BY <2>1 DEF HeartbeatAnswered, InLoop, history
      <3>3. slot[n] \in Slots
        BY <1>0, <3>2, SeqLength, RaftAssumption DEF TypeInv, TypeOK, ClusterWithinCapacity, Slots
      <3>4. m \in Request
        BY <1>0, <3>2, <3>3, AppendRequestType
      <3> QED
        BY <1>0, <3>1, <3>2, <3>4, AppendCastsNothing, NoVoteStep
    <2>2. CASE HeartbeatRefusedStale(n)
      <3>1. Peer(n) \in Node
        BY <1>0, <2>2 DEF HeartbeatRefusedStale, InLoop, Peer, TypeOK
      <3>2. current_term[Peer(n)] \in Nat
        BY <1>a, <3>1
      <3> QED
        BY <1>0, <2>2, <3>2, StepDownCastsNothing, NoVoteStep DEF HeartbeatRefusedStale, history
    <2>3. CASE StartHeartbeat(n) \/ HeartbeatCallbackError(n) \/ FinishHeartbeat(n)
      BY <1>b, <2>3
         DEF StartHeartbeat, HeartbeatCallbackError, FinishHeartbeat, nodeVars, history
    <2> QED
      BY <1>2, <2>1, <2>2, <2>3 DEF HeartbeatThread
  <1>3. CASE UNCHANGED vars
    BY <1>b, <1>3 DEF vars, nodeVars, history
  <1>4. ASSUME NEW n \in Node, SkipSelf(n) \/ Idle(n) \/ AppendLog(n)
        PROVE  CastInv'
    BY <1>b, <1>4 DEF SkipSelf, Idle, AppendLog, vars, nodeVars, history
  <1>5. ASSUME NEW n \in Node, Restart(n)
        PROVE  CastInv'
    BY <1>0, <1>5, RestartsStep DEF Restart, Restarts, history
  <1>6. ASSUME NEW m \in late, LateVoteRequest(m) \/ LateAppendEntries(m)
        PROVE  CastInv'
    <2>1. m \in Request
      BY <1>0 DEF TypeOK
    <2>2. CASE LateVoteRequest(m)
      BY <1>c, <2>1, <2>2 DEF LateVoteRequest
    <2>3. CASE LateAppendEntries(m)
      BY <1>0, <2>1, <2>3, AppendCastsNothing, NoVoteStep DEF LateAppendEntries, history
    <2> QED
      BY <1>6, <2>2, <2>3
  <1>7. ASSUME NEW a \in Adder, NEW n \in Node, AddNodeCheck(a, n) \/ AddNodeInsert(a, n)
        PROVE  CastInv'
    BY <1>b, <1>7 DEF AddNodeCheck, AddNodeInsert, nodeVars, history
  <1> QED
    BY <1>1, <1>2, <1>3, <1>4, <1>5, <1>6, <1>7 DEF Next

\* Nothing but restarts makes a node vote for more than one candidate in a term:
\* with r restarts in the whole cluster there are at most r + 1 of its ballots,
\* whatever is late, lost or refused (raft.c:84-86, 115-119, 222-232).
THEOREM BallotsBounded ==
    ASSUME SerialAdders
    PROVE  Spec => []BallotsPerRestart
  <1>1. TypeInv /\ [Next]_vars => TypeInv'
    BY TypeNext
  <1>2. TypeInv /\ TypeInv' /\ CastInv /\ [Next]_vars => CastInv'
    BY CastNext
  <1>3. CastInv => BallotsPerRestart
    BY DEF CastInv, BallotsPerRestart, Cast
  <1> QED
    BY <1>1, <1>2, <1>3, TypeInit, CastInit, PTL DEF Spec

-----------------------------------------------------------------------------
(* A leader has its ballots *)

\* The cells a walk of n has passed whose node has voted for n in its term.
Granted(n) ==
    {j \in 1..(slot[n] - 1) : /\ cluster_nodes[n][j] # n
                              /\ <<current_term[n], cluster_nodes[n][j], n>> \in ballots}

\* A candidate has voted for itself and counts no other vote that was not cast.
TallyInv ==
    \A n \in Node : Campaigning(n) =>
        /\ <<current_term[n], n, n>> \in ballots
        /\ votes_received[n] <= 1 + Cardinality(Granted(n))

\* A step that neither starts nor ends a campaign of n, nor counts a vote in it.
Keeps(n) ==
    /\ Campaigning(n)' => /\ Campaigning(n)
                          /\ current_term'[n] = current_term[n]
                          /\ cluster_nodes'[n] = cluster_nodes[n]
                          /\ votes_received'[n] = votes_received[n]
                          /\ slot'[n] >= slot[n]
    /\ state'[n] = "LEADER" => state[n] = "LEADER"

LEMMA IntervalSubset ==
    ASSUME NEW k \in Int, NEW S, S \subseteq 1..k
    PROVE  IsFiniteSet(S) /\ Cardinality(S) \in Nat
  <1>1. IsFiniteSet(1..k)
    BY FS_Interval
  <1>2. IsFiniteSet(S)
    BY <1>1, FS_Subset
  <1> QED
    BY <1>2, FS_CardinalityType

LEMMA WalkTypes ==
    ASSUME TypeOK, NEW n \in Node
    PROVE  slot[n] \in Nat /\ slot[n] > 0 /\ votes_received[n] \in Nat
  <1>1. slot[n] \in 1..(MaxNodes + 1) /\ votes_received[n] \in 0..(MaxNodes + 1)
    BY DEF TypeOK
  <1> QED
    BY <1>1, RaftAssumption

LEMMA WalkTypesNext ==
    ASSUME TypeOK', NEW n \in Node
    PROVE  slot'[n] \in Nat
  <1>1. slot'[n] \in 1..(MaxNodes + 1)
    BY DEF TypeOK
  <1> QED
    BY <1>1, RaftAssumption

LEMMA TallyInit == Init => TallyInv
  BY DEF Init, TallyInv, Campaigning

\* A handler runs on a node whose mutex is free, so no campaign notices it.
LEMMA KeepsHandled ==
    ASSUME TypeOK, NEW m \in Request, HandleVoteRequest(m) \/ HandleAppendEntries(m),
           UNCHANGED <<mutex, cluster_nodes, votes_received>>,
           \A q \in Node : slot'[q] >= slot[q]
    PROVE  \A q \in Node : Keeps(q)
  <1>1. m.to \in Node /\ mutex[m.to] = "free"
    BY DEF Request, HandleVoteRequest, HandleAppendEntries
  <1>2. /\ \A q \in Node : q # m.to => state'[q] = state[q] /\ current_term'[q] = current_term[q]
        /\ state'[m.to] \in {"FOLLOWER", state[m.to]}
    BY <1>1 DEF HandleVoteRequest, HandleAppendEntries, TypeOK
  <1> QED
    BY <1>1, <1>2 DEF Keeps, Campaigning

\* What a step may do to campaigns and ballots.
LEMMA TallySteps ==
    ASSUME TypeInv, [Next]_vars
    PROVE  /\ ballots \subseteq ballots'
           /\ \/ elected' = elected /\ \A q \in Node : Keeps(q)
              \/ \E n \in Node : StartElection(n) \/ VoteAnswered(n) \/ FinishElection(n)
  <1>0. TypeOK
    BY DEF TypeInv
  <1>a. /\ slot \in [Node -> Nat] /\ mutex \in [Node -> {"free", "election", "heartbeat"}]
        /\ state \in [Node -> {"FOLLOWER", "CANDIDATE", "LEADER"}]
        /\ cluster_nodes = [q \in Node |-> cluster_nodes[q]]
    BY <1>0, RaftAssumption DEF TypeOK
  <1> DEFINE Goal == /\ ballots \subseteq ballots'
                     /\ \/ elected' = elected /\ \A q \in Node : Keeps(q)
                        \/ \E n \in Node : StartElection(n) \/ VoteAnswered(n) \/ FinishElection(n)
  <1> HIDE DEF Goal
  <1>b. ASSUME UNCHANGED <<state, current_term, mutex, cluster_nodes, votes_received, ballots, elected>>,
               \A q \in Node : slot'[q] >= slot[q]
        PROVE  Goal
    BY <1>b DEF Goal, Keeps, Campaigning
  <1>c. ASSUME NEW n \in Node, NextSlot(n)
        PROVE  \A q \in Node : slot'[q] >= slot[q]
    BY <1>a, <1>c DEF NextSlot
  <1>d. ASSUME slot' = slot PROVE \A q \in Node : slot'[q] >= slot[q]
    BY <1>a, <1>d
  <1>1. ASSUME NEW n \in Node, StartElection(n) \/ VoteAnswered(n) \/ FinishElection(n)
        PROVE  Goal
    <2>1. ballots \subseteq ballots'
      BY <1>1 DEF StartElection, VoteAnswered, FinishElection, HandleVoteRequest
    <2> QED
      BY <1>1, <2>1 DEF Goal
  <1>2. ASSUME NEW n \in Node, VoteRefusedStale(n) \/ HeartbeatRefusedStale(n)
        PROVE  Goal
    <2>1. /\ state' = [state EXCEPT ![n] = "FOLLOWER"]
          /\ \A q \in Node : q # n => /\ current_term'[q] = current_term[q]
                                      /\ slot'[q] = slot[q]
          /\ UNCHANGED <<mutex, cluster_nodes, votes_received, ballots, elected>>
      BY <1>0, <1>2 DEF VoteRefusedStale, HeartbeatRefusedStale, StepDown, BreakLoop, apiVars,
                        history, TypeOK
    <2> QED
      BY <1>a, <2>1 DEF Goal, Keeps, Campaigning
  <1>3. ASSUME NEW n \in Node,
               VoteCallbackError(n) \/ HeartbeatCallbackError(n) \/ SkipSelf(n)
        PROVE  Goal
    <2>1. NextSlot(n) /\ UNCHANGED <<state, current_term, mutex, cluster_nodes, votes_received,
                                     ballots, elected>>
      BY <1>3 DEF VoteCallbackError, HeartbeatCallbackError, SkipSelf, nodeVars, apiVars, history
    <2> QED
      BY <1>b, <1>c, <2>1
  <1>4. ASSUME NEW n \in Node, StartHeartbeat(n) \/ FinishHeartbeat(n)
        PROVE  Goal
    <2>1. /\ UNCHANGED <<state, current_term, cluster_nodes, votes_received, ballots, elected>>
          /\ mutex'[n] # "election"
          /\ \A q \in Node : q # n => mutex'[q] = mutex[q] /\ slot'[q] = slot[q]
      BY <1>a, <1>4 DEF StartHeartbeat, FinishHeartbeat, nodeVars, apiVars, history
    <2> QED
      BY <1>a, <2>1 DEF Goal, Keeps, Campaigning
  <1>5. ASSUME NEW n \in Node, HeartbeatAnswered(n)
        PROVE  Goal
    <2>1. PICK m \in AppendRequests(n) : HandleAppendEntries(m)
      BY <1>5 DEF HeartbeatAnswered
    <2>2. /\ slot[n] <= Len(cluster_nodes[n]) /\ NextSlot(n)
          /\ UNCHANGED <<mutex, cluster_nodes, votes_received, ballots, elected>>
      BY <1>5 DEF HeartbeatAnswered, InLoop, apiVars, history
    <2>3. slot[n] \in Slots
      BY <1>0, <2>2, SeqLength, RaftAssumption DEF TypeInv, TypeOK, ClusterWithinCapacity, Slots
    <2>4. m \in Request
      BY <1>0, <2>2, <2>3, AppendRequestType
    <2> QED
      BY <1>0, <1>c, <2>1, <2>2, <2>4, KeepsHandled DEF Goal
  <1>6. ASSUME UNCHANGED vars PROVE Goal
    <2>1. UNCHANGED <<state, current_term, mutex, cluster_nodes, votes_received, ballots,
                      elected, slot>>
      BY <1>6 DEF vars, nodeVars, loopVars, apiVars, history
    <2>2. \A q \in Node : slot'[q] >= slot[q]
      BY <1>d, <2>1
    <2> QED
      BY <1>b, <2>1, <2>2
  <1>7. ASSUME NEW n \in Node, Idle(n) \/ AppendLog(n)
        PROVE  Goal
    <2>1. CASE AppendLog(n)
      <3>1. UNCHANGED <<state, current_term, mutex, cluster_nodes, votes_received, ballots,
                        elected, slot>>
        BY <2>1 DEF AppendLog, loopVars, apiVars, history
      <3> QED
        BY <1>b, <1>d, <3>1
    <2>2. CASE Idle(n)
      <3>1. UNCHANGED vars
        BY <2>2 DEF Idle
      <3> QED
        BY <1>6, <3>1
    <2> QED
      BY <1>7, <2>1, <2>2
  <1>8. ASSUME NEW n \in Node, Restart(n)
        PROVE  Goal
    <2>1. /\ state' = [state EXCEPT ![n] = "FOLLOWER"]
          /\ \A q \in Node : q # n => /\ current_term'[q] = current_term[q]
                                      /\ slot'[q] = slot[q] /\ mutex'[q] = mutex[q]
                                      /\ cluster_nodes'[q] = cluster_nodes[q]
                                      /\ votes_received'[q] = votes_received[q]
          /\ UNCHANGED <<ballots, elected>>
      BY <1>0, <1>8 DEF Restart, history, TypeOK
    <2> QED
      BY <1>a, <2>1 DEF Goal, Keeps, Campaigning
  <1>9. ASSUME NEW m \in late, LateVoteRequest(m) \/ LateAppendEntries(m)
        PROVE  Goal
    <2>1. /\ m \in Request /\ ballots \subseteq ballots'
          /\ HandleVoteRequest(m) \/ HandleAppendEntries(m)
          /\ UNCHANGED <<mutex, cluster_nodes, votes_received, slot, elected>>
      BY <1>0, <1>9 DEF TypeOK, LateVoteRequest, LateAppendEntries, HandleVoteRequest, loopVars,
                        apiVars, history
    <2> QED
      BY <1>0, <1>d, <2>1, KeepsHandled DEF Goal
  <1>10. ASSUME NEW a \in Adder, NEW n \in Node, AddNodeCheck(a, n)
         PROVE  Goal
    BY <1>b, <1>d, <1>10 DEF AddNodeCheck, nodeVars, loopVars, history
  <1>11. ASSUME NEW a \in Adder, NEW n \in Node, AddNodeInsert(a, n)
         PROVE  Goal
    <2>1. /\ UNCHANGED <<state, current_term, mutex, slot, votes_received, ballots, elected>>
          /\ mutex[adding[a]] = "free"
          /\ \A q \in Node : q # adding[a] => cluster_nodes'[q] = cluster_nodes[q]
      BY <1>a, <1>11 DEF AddNodeInsert, nodeVars, loopVars, history
    <2> QED
      BY <1>a, <2>1 DEF Goal, Keeps, Campaigning
  <1> QED
    BY <1>1, <1>2, <1>3, <1>4, <1>5, <1>6, <1>7, <1>8, <1>9, <1>10, <1>11
       DEF Next, ElectionThread, HeartbeatThread, Goal

\* A step that keeps the campaign of n keeps its tally: ballots are never taken
\* back and a walk only moves on.
LEMMA TallyKept ==
    ASSUME TypeOK, TypeOK', NEW n \in Node, Keeps(n), ballots \subseteq ballots', Campaigning(n)',
           /\ <<current_term[n], n, n>> \in ballots
           /\ votes_received[n] <= 1 + Cardinality(Granted(n))
    PROVE  /\ <<current_term'[n], n, n>> \in ballots'
           /\ votes_received'[n] <= 1 + Cardinality(Granted(n)')
  <1>1. /\ current_term'[n] = current_term[n] /\ cluster_nodes'[n] = cluster_nodes[n]
        /\ votes_received'[n] = votes_received[n] /\ slot'[n] >= slot[n]
    BY DEF Keeps
  <1>2. slot[n] \in Nat /\ slot'[n] \in Nat /\ votes_received[n] \in Nat
    BY WalkTypes, WalkTypesNext
  <1>3. Granted(n) \subseteq Granted(n)'
    BY <1>1, <1>2 DEF Granted
  <1>4. /\ IsFiniteSet(Granted(n)') /\ Cardinality(Granted(n)') \in Nat
        /\ Cardinality(Granted(n)) \in Nat
    <2>1. Granted(n) \subseteq 1..(slot[n] - 1) /\ Granted(n)' \subseteq 1..(slot'[n] - 1)
      BY DEF Granted
    <2>2. slot[n] - 1 \in Int /\ slot'[n] - 1 \in Int
      BY <1>2
    <2> QED
      BY <2>1, <2>2, IntervalSubset
  <1>5. Cardinality(Granted(n)) <= Cardinality(Granted(n)')
    BY <1>3, <1>4, FS_Subset
  <1> QED
    BY <1>1, <1>2, <1>4, <1>5

\* A candidate starts with its own vote.
LEMMA TallyStart ==
    ASSUME TypeOK, TypeOK', TallyInv, NEW n \in Node, StartElection(n)
    PROVE  TallyInv'
  <1>1. ballots \subseteq ballots' /\ \A q \in Node : q # n => Keeps(q)
    <2>1. /\ ballots \subseteq ballots' /\ cluster_nodes' = cluster_nodes
          /\ \A q \in Node : q # n => /\ state'[q] = state[q] /\ current_term'[q] = current_term[q]
                                      /\ mutex'[q] = mutex[q] /\ slot'[q] = slot[q]
                                      /\ votes_received'[q] = votes_received[q]
      BY DEF StartElection, CountOwnVote, apiVars, TypeOK
    <2>2. \A q \in Node : slot[q] \in Nat
      BY WalkTypes
    <2> QED
      BY <2>1, <2>2 DEF Keeps, Campaigning
  <1>2. <<current_term'[n], n, n>> \in ballots' /\ votes_received'[n] = 1 /\ slot'[n] = 1
    BY DEF StartElection, CountOwnVote, TypeOK
  <1>3. votes_received'[n] <= 1 + Cardinality(Granted(n)')
    <2>1. Granted(n)' = {}
      BY <1>2 DEF Granted
    <2> QED
      BY <1>2, <2>1, FS_EmptySet
  <1> SUFFICES ASSUME NEW q \in Node, q # n, Campaigning(q)'
               PROVE  /\ <<current_term'[q], q, q>> \in ballots'
                      /\ votes_received'[q] <= 1 + Cardinality(Granted(q)')
    BY <1>2, <1>3 DEF TallyInv
  <1> QED
    BY <1>1, TallyKept DEF TallyInv, Keeps

\* A vote is counted in the step that casts it.
LEMMA TallyAnswer ==
    ASSUME TypeOK, TypeOK', TallyInv, NEW n \in Node, VoteAnswered(n)
    PROVE  TallyInv'
  <1>1. /\ slot[n] <= Len(cluster_nodes[n]) /\ slot' = [slot EXCEPT ![n] = @ + 1]
        /\ mutex[n] = "election" /\ Peer(n) # n /\ HandleVoteRequest(VoteRequest(n))
        /\ votes_received' = [votes_received EXCEPT ![n] = VotesAfter(n)]
        /\ UNCHANGED <<mutex, cluster_nodes>>
    BY DEF VoteAnswered, InLoop, NextSlot, apiVars
  <1>2. VoteRequest(n) \in Request
    BY <1>1, VoteRequestType
  <1>3. /\ VoteRequest(n).to = Peer(n) /\ VoteRequest(n).from = n
        /\ VoteRequest(n).term = current_term[n]
    BY DEF VoteRequest
  <1>4. Peer(n) \in Node /\ mutex[Peer(n)] = "free"
    BY <1>1, <1>2, <1>3 DEF Request, HandleVoteRequest
  <1>5. /\ \A q \in Node : q # Peer(n) => state'[q] = state[q] /\ current_term'[q] = current_term[q]
        /\ state'[Peer(n)] \in {"FOLLOWER", state[Peer(n)]}
        /\ ballots' = IF VoteGranted(VoteRequest(n))
                      THEN ballots \cup {<<current_term[n], Peer(n), n>>} ELSE ballots
    BY <1>1, <1>3, <1>4 DEF HandleVoteRequest, TypeOK
  <1>6. /\ slot[n] \in Nat /\ slot[n] > 0 /\ slot'[n] = slot[n] + 1 /\ votes_received[n] \in Nat
        /\ \A q \in Node : slot[q] \in Nat
        /\ \A q \in Node : q # n => slot'[q] = slot[q] /\ votes_received'[q] = votes_received[q]
        /\ votes_received'[n] = VotesAfter(n)
    BY <1>1, WalkTypes DEF TypeOK
  <1>7. ballots \subseteq ballots' /\ \A q \in Node : q # n => Keeps(q)
    BY <1>1, <1>4, <1>5, <1>6 DEF Keeps, Campaigning
  <1>8. ASSUME Campaigning(n)'
        PROVE  /\ <<current_term'[n], n, n>> \in ballots'
               /\ votes_received'[n] <= 1 + Cardinality(Granted(n)')
    <2>1. /\ Campaigning(n) /\ current_term'[n] = current_term[n]
      BY <1>1, <1>4, <1>5, <1>8 DEF Campaigning
    <2>2. /\ <<current_term[n], n, n>> \in ballots
          /\ votes_received[n] <= 1 + Cardinality(Granted(n))
      BY <2>1 DEF TallyInv
    <2>3. /\ Granted(n) \subseteq 1..(slot[n] - 1) /\ Granted(n)' \subseteq 1..slot[n]
      BY <1>6 DEF Granted
    <2>4. /\ IsFiniteSet(Granted(n)) /\ Cardinality(Granted(n)) \in Nat
          /\ IsFiniteSet(Granted(n)') /\ Cardinality(Granted(n)') \in Nat
      BY <1>6, <2>3, IntervalSubset
    <2>5. CASE VoteGranted(VoteRequest(n))
      <3>1. Granted(n) \cup {slot[n]} \subseteq Granted(n)'
        BY <1>1, <1>4, <1>5, <1>6, <2>1, <2>5 DEF Granted, Peer
      <3>2. slot[n] \notin Granted(n)
        BY <1>6, <2>3
      <3>3. /\ IsFiniteSet(Granted(n) \cup {slot[n]})
            /\ Cardinality(Granted(n) \cup {slot[n]}) = Cardinality(Granted(n)) + 1
        BY <2>4, <3>2, FS_AddElement
      <3>4. Cardinality(Granted(n)) + 1 <= Cardinality(Granted(n)')
        BY <2>4, <3>1, <3>3, FS_Subset
      <3>5. votes_received'[n] = votes_received[n] + 1
        BY <1>6, <2>5 DEF VotesAfter
      <3> QED
        BY <1>6, <1>7, <2>1, <2>2, <2>4, <3>4, <3>5
    <2>6. CASE ~VoteGranted(VoteRequest(n))
      <3>1. Granted(n) \subseteq Granted(n)'
        BY <1>1, <1>5, <1>6, <2>1, <2>6 DEF Granted
      <3>2. Cardinality(Granted(n)) <= Cardinality(Granted(n)')
        BY <2>4, <3>1, FS_Subset
      <3>3. votes_received'[n] = votes_received[n]
        BY <1>6, <2>6 DEF VotesAfter
      <3> QED
        BY <1>6, <1>7, <2>1, <2>2, <2>4, <3>2, <3>3
    <2> QED
      BY <2>5, <2>6
  <1> SUFFICES ASSUME NEW q \in Node, q # n, Campaigning(q)'
               PROVE  /\ <<current_term'[q], q, q>> \in ballots'
                      /\ votes_received'[q] <= 1 + Cardinality(Granted(q)')
    BY <1>8 DEF TallyInv
  <1> QED
    BY <1>7, TallyKept DEF TallyInv, Keeps

LEMMA TallyNext ==
    ASSUME TypeInv, TypeInv', TallyInv, [Next]_vars
    PROVE  TallyInv'
  <1>0. TypeOK /\ TypeOK'
    BY DEF TypeInv
  <1>1. ASSUME \A q \in Node : Keeps(q) PROVE TallyInv'
    <2>1. ballots \subseteq ballots'
      BY TallySteps
    <2> SUFFICES ASSUME NEW q \in Node, Campaigning(q)'
                 PROVE  /\ <<current_term'[q], q, q>> \in ballots'
                        /\ votes_received'[q] <= 1 + Cardinality(Granted(q)')
      BY DEF TallyInv
    <2> QED
      BY <1>0, <1>1, <2>1, TallyKept DEF TallyInv, Keeps
  <1>2. ASSUME NEW n \in Node, FinishElection(n) PROVE TallyInv'
    <2>1. /\ UNCHANGED <<current_term, slot, votes_received, cluster_nodes, ballots>>
          /\ mutex'[n] = "free"
          /\ \A q \in Node : q # n => mutex'[q] = mutex[q] /\ state'[q] = state[q]
      BY <1>0, <1>2 DEF FinishElection, apiVars, TypeOK
    <2>2. \A q \in Node : Campaigning(q)' => Campaigning(q)
      BY <2>1 DEF Campaigning
    <2> QED
      BY <2>1, <2>2 DEF TallyInv, Granted
  <1> QED
    BY <1>0, <1>1, <1>2, TallySteps, TallyStart, TallyAnswer

LEMMA AtLeast ==
    ASSUME NEW v \in Int, NEW c \in Int, NEW k \in Int, v > k, v <= 1 + c
    PROVE  1 + c > k
  OBVIOUS

\* What a new leader has counted.
LEMMA WinnerTally ==
    ASSUME TypeInv, TallyInv, NEW n \in Node, FinishElection(n),
           state[n] = "CANDIDATE", HasMajority(n)
    PROVE  /\ <<current_term[n], n, n>> \in ballots
           /\ 1 + Cardinality({i \in DOMAIN cluster_nodes[n] :
                    /\ cluster_nodes[n][i] # n
                    /\ <<current_term[n], cluster_nodes[n][i], n>> \in ballots})
                > Len(cluster_nodes[n]) \div 2
  <1> DEFINE G == {i \in DOMAIN cluster_nodes[n] :
                    /\ cluster_nodes[n][i] # n
                    /\ <<current_term[n], cluster_nodes[n][i], n>> \in ballots}
  <1>1. mutex[n] = "election" /\ slot[n] > Len(cluster_nodes[n])
    BY DEF FinishElection, LoopDone
  <1>2. /\ <<current_term[n], n, n>> \in ballots
        /\ votes_received[n] <= 1 + Cardinality(Granted(n))
    BY <1>1 DEF TallyInv, Campaigning
  <1>3. cluster_nodes[n] \in Seq(Node) /\ slot[n] \in Nat /\ votes_received[n] \in Nat
    BY WalkTypes DEF TypeInv, TypeOK
  <1>4. Len(cluster_nodes[n]) \in Nat /\ DOMAIN cluster_nodes[n] = 1..Len(cluster_nodes[n])
    BY <1>3, SeqLength
  <1>5. slot[n] = Len(cluster_nodes[n]) + 1
    BY <1>1, <1>3, <1>4 DEF TypeInv, WalkInv
  <1>6. Granted(n) = G
    BY <1>3, <1>4, <1>5 DEF Granted
  <1>7. Cardinality(G) \in Nat
    <2>1. G \subseteq 1..Len(cluster_nodes[n]) /\ Len(cluster_nodes[n]) \in Int
      BY <1>4
    <2> HIDE DEF G
    <2> QED
      BY <2>1, IntervalSubset
  <1>8. votes_received[n] > Len(cluster_nodes[n]) \div 2
    BY DEF HasMajority
  <1>9. Len(cluster_nodes[n]) \div 2 \in Int
    BY <1>4
  <1>10. votes_received[n] <= 1 + Cardinality(G)
    BY <1>2, <1>6
  <1> HIDE DEF G
  <1>11. votes_received[n] \in Int /\ Cardinality(G) \in Int
    BY <1>3, <1>7
  <1>12. 1 + Cardinality(G) > Len(cluster_nodes[n]) \div 2
    BY <1>8, <1>9, <1>10, <1>11, AtLeast
  <1> QED
    BY <1>2, <1>12 DEF G

\* A node leads only with the ballots of more than half of its list, itself
\* counted, cast for it in that term: for any number of nodes, restarts and late
\* requests, and with nodes being added (raft.c:84-92, 105-113, 127-132).
THEOREM LeadersElected ==
    ASSUME SerialAdders
    PROVE  Spec => WonByBallots
  <1> DEFINE Step == \A n \in Node : state[n] # "LEADER" /\ state'[n] = "LEADER" =>
                        1 + Cardinality({i \in DOMAIN cluster_nodes[n] :
                               /\ cluster_nodes[n][i] # n
                               /\ <<current_term[n], cluster_nodes[n][i], n>> \in ballots})
                          > Len(cluster_nodes[n]) \div 2
  <1>1. TypeInv /\ [Next]_vars => TypeInv'
    BY TypeNext
  <1>2. TypeInv /\ TypeInv' /\ TallyInv /\ [Next]_vars => TallyInv'
    BY TallyNext
  <1>3. TypeInv /\ TallyInv /\ [Next]_vars => [Step]_vars
    <2> SUFFICES ASSUME TypeInv, TallyInv, [Next]_vars, NEW n \in Node,
                        state[n] # "LEADER", state'[n] = "LEADER"
                 PROVE  1 + Cardinality({i \in DOMAIN cluster_nodes[n] :
                               /\ cluster_nodes[n][i] # n
                               /\ <<current_term[n], cluster_nodes[n][i], n>> \in ballots})
                          > Len(cluster_nodes[n]) \div 2
      OBVIOUS
    <2>1. PICK m \in Node : StartElection(m) \/ VoteAnswered(m) \/ FinishElection(m)
      BY TallySteps DEF Keeps
    <2>2. FinishElection(m)
      <3>1. state \in [Node -> {"FOLLOWER", "CANDIDATE", "LEADER"}]
        BY DEF TypeInv, TypeOK
      <3>2. ~StartElection(m)
        BY <3>1 DEF StartElection
      <3>3. ~VoteAnswered(m)
        BY <3>1 DEF VoteAnswered, HandleVoteRequest
      <3> QED
        BY <2>1, <3>2, <3>3
    <2>3. m = n /\ state[n] = "CANDIDATE" /\ HasMajority(n)
      BY <2>2 DEF FinishElection, TypeInv, TypeOK
    <2> QED
      BY <2>2, <2>3, WinnerTally
  <1> QED
    BY <1>1, <1>2, <1>3, TypeInit, TallyInit, PTL DEF Spec, WonByBallots

-----------------------------------------------------------------------------
(* A term with two winners *)

\* The lists stay as they were and whoever won a term has a majority's ballots.
SplitInv == cluster_nodes = InitialCluster /\ WinInv

\* In a list without repetitions different cells are different voters.
LEMMA CellsAreVoters ==
    ASSUME NEW n \in Node, NEW t, NEW list \in Seq(Node),
           \A i, j \in 1..Len(list) : list[i] = list[j] => i = j,
           <<t, n, n>> \in ballots,
           NEW G, G = {i \in DOMAIN list : list[i] # n /\ <<t, list[i], n>> \in ballots}
    PROVE  1 + Cardinality(G) <= Cardinality(Voters(t, n))
  <1> DEFINE others == Voters(t, n) \ {n}
             f == [i \in G |-> list[i]]
  <1>1. Len(list) \in Nat /\ DOMAIN list = 1..Len(list)
    BY SeqLength
  <1>2. \A i \in G : i \in 1..Len(list) /\ list[i] \in Node
    BY <1>1, SeqElement
  <1>3. f \in Injection(G, others)
    <2>1. f \in [G -> others]
      BY <1>2 DEF Voters
    <2>2. \A a, b \in G : f[a] = f[b] => a = b
      BY <1>2
    <2> QED
      BY <2>1, <2>2 DEF Injection, IsInjective
  <1>4. /\ IsFiniteSet(Voters(t, n)) /\ Cardinality(Voters(t, n)) \in Nat
        /\ n \in Voters(t, n)
    BY VotersFinite DEF Voters
  <1>5. IsFiniteSet(others) /\ Cardinality(others) = Cardinality(Voters(t, n)) - 1
    BY <1>4, FS_RemoveElement
  <1> HIDE DEF f, others
  <1>6. IsFiniteSet(G) /\ Cardinality(G) <= Cardinality(others)
    BY <1>3, <1>5, FS_Injection
  <1>7. Cardinality(G) \in Nat
    BY <1>6, FS_CardinalityType
  <1> QED
    BY <1>4, <1>5, <1>6, <1>7

LEMMA SplitInit == Init => SplitInv
  BY DEF Init, SplitInv, WinInv

LEMMA SplitNext ==
    ASSUME FixedLists, TypeInv, TallyInv, SplitInv, [Next]_vars
    PROVE  SplitInv'
  <1>0. ballots \subseteq ballots'
    BY TallySteps
  <1>1. cluster_nodes' = InitialCluster
    <2>1. CASE UNCHANGED vars
      BY <2>1 DEF vars, apiVars, SplitInv
    <2>2. ASSUME NEW n \in Node, Restart(n) PROVE cluster_nodes' = InitialCluster
      BY <2>2, RaftAssumption DEF Restart, SplitInv
    <2>3. ASSUME NEW n \in Node,
                 ElectionThread(n) \/ HeartbeatThread(n) \/ SkipSelf(n) \/ Idle(n) \/ AppendLog(n)
          PROVE  cluster_nodes' = InitialCluster
      BY <2>1, <2>3
         DEF SplitInv, ElectionThread, StartElection, VoteAnswered, VoteRefusedStale,
             VoteCallbackError, FinishElection, HeartbeatThread, StartHeartbeat, HeartbeatAnswered,
             HeartbeatRefusedStale, HeartbeatCallbackError, FinishHeartbeat, SkipSelf, Idle,
             AppendLog, apiVars
    <2>4. ASSUME NEW m \in late, LateVoteRequest(m) \/ LateAppendEntries(m)
          PROVE  cluster_nodes' = InitialCluster
      BY <2>4 DEF SplitInv, LateVoteRequest, LateAppendEntries, apiVars
    <2> QED
      BY <2>1, <2>2, <2>3, <2>4 DEF Next, FixedLists
  <1>2. WinInv'
    <2>1. CASE elected' = elected
      BY <1>0, <2>1, WinKept DEF SplitInv
    <2>2. CASE elected' # elected
      <3>1. PICK n \in Node : StartElection(n) \/ VoteAnswered(n) \/ FinishElection(n)
        BY <2>2, TallySteps
      <3>2. FinishElection(n)
        BY <2>2, <3>1 DEF StartElection, VoteAnswered
      <3>3. /\ state[n] = "CANDIDATE" /\ HasMajority(n) /\ ballots' = ballots
            /\ elected' = elected \cup {<<current_term[n], n>>}
        BY <2>2, <3>2 DEF FinishElection
      <3> DEFINE list == InitialCluster[n]
                 G == {i \in DOMAIN list : list[i] # n /\ <<current_term[n], list[i], n>> \in ballots}
      <3>4. /\ <<current_term[n], n, n>> \in ballots
            /\ 1 + Cardinality(G) > Len(list) \div 2
        BY <3>2, <3>3, WinnerTally DEF SplitInv
      <3>5. /\ list \in Seq(Node) /\ Len(list) \in Nat
            /\ \A i, j \in 1..Len(list) : list[i] = list[j] => i = j
            /\ 2 * (Len(list) \div 2 + 1) > Cardinality(Node)
        BY SeqLength, RaftAssumption DEF FixedLists
      <3>6. IsFiniteSet(G) /\ Cardinality(G) \in Nat
        <4>1. G \subseteq 1..Len(list) /\ Len(list) \in Int
          BY <3>5
        <4> HIDE DEF G, list
        <4> QED
          BY <4>1, IntervalSubset
      <3>7. 1 + Cardinality(G) <= Cardinality(Voters(current_term[n], n))
        BY <3>4, <3>5, CellsAreVoters
      <3> HIDE DEF G, list
      <3>8. 2 * Cardinality(Voters(current_term[n], n)) > Cardinality(Node)
        <4>1. /\ Cardinality(Voters(current_term[n], n)) \in Nat /\ Cardinality(Node) \in Nat
          BY VotersFinite, RaftAssumption, FS_CardinalityType
        <4>2. 1 + Cardinality(G) \in Nat
          BY <3>6
        <4> QED
          BY <3>4, <3>5, <3>7, <4>1, <4>2, MajorityCount
      <3> QED
        BY <3>3, <3>8 DEF SplitInv, WinInv, Voters
    <2> QED
      BY <2>1, <2>2
  <1> QED
    BY <1>1, <1>2 DEF SplitInv

\* Two majorities share a voter, and two ballots of one voter take a restart.
LEMMA SharedVoter ==
    ASSUME TypeOK, WinInv, CastInv
    PROVE  SplitNeedsLostVote
  <1> SUFFICES ASSUME NEW x \in elected, NEW y \in elected, x[1] = y[1], x[2] # y[2]
               PROVE  /\ restarts > 0
                      /\ \E v \in Node : {<<x[1], v, x[2]>>, <<x[1], v, y[2]>>} \subseteq ballots
    BY DEF SplitNeedsLostVote
  <1>1. /\ x[1] \in 0..MaxTerm /\ x[2] \in Node /\ x = <<x[1], x[2]>>
        /\ y[2] \in Node /\ y = <<y[1], y[2]>>
    BY DEF TypeOK
  <1>2. PICK v \in Node : <<x[1], v, x[2]>> \in ballots /\ <<x[1], v, y[2]>> \in ballots
    BY <1>1, CommonVoter
  <1> DEFINE a == <<x[1], v, x[2]>>
             b == <<x[1], v, y[2]>>
  <1>3. {a, b} \subseteq Cast(x[1], v) /\ a # b
    BY <1>2 DEF Cast
  <1>4. IsFiniteSet(Cast(x[1], v)) /\ Cardinality(Cast(x[1], v)) <= 1 + restarts
    BY <1>1 DEF CastInv
  <1> HIDE DEF a, b
  <1>5. Cardinality({a, b}) = 2
    <2>1. IsFiniteSet({a}) /\ Cardinality({a}) = 1
      BY FS_Singleton
    <2>2. Cardinality({a} \cup {b}) = 2
      BY <1>3, <2>1, FS_AddElement
    <2>3. {a, b} = {a} \cup {b}
      OBVIOUS
    <2> QED
      BY <2>2, <2>3
  <1>6. 2 <= Cardinality(Cast(x[1], v)) /\ Cardinality(Cast(x[1], v)) \in Nat
    BY <1>3, <1>4, <1>5, FS_Subset, FS_CardinalityType
  <1>7. restarts \in Nat
    BY RaftAssumption DEF TypeOK
  <1> QED
    BY <1>2, <1>4, <1>6, <1>7

\* A term is won twice only after a restart, and only through a node that voted
\* for both winners: for any number of nodes, terms, restarts and late requests,
\* with fixed lists (raft.c:127-142, 222-232).
THEOREM SplitsExplained ==
    ASSUME FixedLists
    PROVE  Spec => []SplitNeedsLostVote
  <1>1. SerialAdders
    BY DEF FixedLists, SerialAdders
  <1>2. TypeInv /\ [Next]_vars => TypeInv'
    BY <1>1, TypeNext
  <1>3. TypeInv /\ TypeInv' /\ CastInv /\ [Next]_vars => CastInv'
    BY CastNext
  <1>4. TypeInv /\ TypeInv' /\ TallyInv /\ [Next]_vars => TallyInv'
    BY TallyNext
  <1>5. TypeInv /\ TallyInv /\ SplitInv /\ [Next]_vars => SplitInv'
    BY SplitNext
  <1>6. TypeInv /\ CastInv /\ SplitInv => SplitNeedsLostVote
    BY SharedVoter DEF TypeInv, SplitInv
  <1> QED
    BY <1>2, <1>3, <1>4, <1>5, <1>6, TypeInit, CastInit, TallyInit, SplitInit, PTL DEF Spec
=============================================================================
