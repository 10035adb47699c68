# A TLA+ model of xDevice

Specifications, model-checking instances and machine-checked proofs for the
code of xDevice: the Raft node, the server process around it, the write-ahead
log, the two storage backends, the storage manager with its Raft adapter, and
the command line client. Paths below are relative to the
repository; line numbers are those of the commit the modules were written from.

## 1. Inventory

| Component | Source | State | Operations |
|---|---|---|---|
| Raft node | `src/distributed/raft.c` | role, term, vote, log, `next_index`/`match_index`, `cluster_nodes`, one mutex; nothing persistent | election thread, heartbeat thread, `append_log`, `add_node_to_cluster`, create/start/destroy |
| WAL engine | `src/storage/wal_engine.c` | a preallocated, mapped file; `current_offset`, `next_lsn`, `last_sync_lsn`, counters; one mutex | create, append, sync, destroy, get_stats |
| Storage interface | `include/storage_interface.h` | none: a table of functions | read, write, fsync, create, delete, info (asynchronous and batch entries are NULL in both backends) |
| In-memory backend | `src/storage/mock_storage.c` | list of files behind `files_lock`, counters behind `stats_lock`, error injection | the interface, `set_error_injection`, `set_delays` |
| Local file backend | `src/storage/local_storage.c` | descriptor cache behind `fd_cache_lock`, counters | the interface |
| Storage manager | `src/storage/storage_manager.c` | registry, routing policy (no lock), counters behind `stats_lock` | register, unregister, read, write, sync |
| Raft storage adapter | `src/storage/storage_manager.c:305-481` | the manager it is attached to, prefixes | init, cleanup, save/load of log entries, states, snapshots |
| Node server | `src/main/node_main.c` | `g_running`, a context, a network server, a Raft node | start-up, signal, main loop, shutdown; its Raft callbacks are stubs |
| Command line client | `src/main/cli_main.c` | a context, the words left by the first parse | two parses of the arguments, six commands |

How they interact. The Raft node calls its peers through two callbacks while it
holds its own mutex. The adapter calls the manager, the manager selects a
backend by policy and `health_check` and calls it through the interface. Raft
does not call the adapter and the adapter does not call Raft; neither uses the
WAL. The node server owns a Raft node, whose two threads run beside `main`; it
adds nobody to the node's cluster. The client calls the core API, of which the
repository has only the header.

What is hard here:

- *Interleaving and deadlock.* Elections and heartbeats hold a mutex across
  blocking calls to nodes that do the same; `add_node_to_cluster` reads the size
  before it locks; file calls seek and transfer without a lock; the registry has
  no lock, so that a walk over it meets registrations, replacements and removals
  half done.
- *Crashes.* Raft persists nothing; a log file is written through a mapping, so
  what is on the medium after a power failure is up to the kernel except for
  what a sync covered.
- *Failures halfway.* An append, a file creation, a growing write, a failover
  and the start of a server all consist of steps of which one may fail.
- *Signals and shutdown.* A signal may arrive between any two steps of the
  server; the node must not be freed under its threads.
- *Shared parser state.* The client parses one command line twice with
  `getopt_long`, which reorders it.
- *Unreliable calls.* A vote request may be lost, or handled after its candidate
  has given up.
- *Limits and widths.* Full caches, full files, `uint64_t` differences, a 32-bit
  length field.

What makes each part correct: one winner per term, votes that do not move,
indices inside the log, leaders that have the ballots of a majority, also when
processes restart and nodes are added (Raft); acknowledged records whole, in order and without gaps, synced
records durable, a log that can be reopened (WAL); the interface's promise,
calls that are atomic and failures that change nothing, or no more than a first
part of what was to be written (backends); descriptors that never stand for
another file (local); a registry of initialised backends at every moment of a
registration, walks that find what could be found all through them, every call
counted once, and no crash but for the overlaps that the missing lock allows
(manager); a process that ends when it is told to, having released what
it acquired, in the order that its threads need (server); commands that do what
their usage text says or fail with nothing done (client). `PROJECT.json` lists the hazards with their lines.

## 2. Modules

| Module | Models | Composition |
|---|---|---|
| `Raft` | the Raft node, N of them with their callbacks | |
| `NodeServer` | the server process and the life of its Raft node | implements `Raft` |
| `RaftProofs` | types, votes, one winner per term, a leader's ballots, where log entries come from, a leader's indices, what a restart costs | extends `Raft` |
| `NodeServerProofs` | releases, joins and the refinement of `Raft` | extends `NodeServer` |
| `WalEngine` | the log with page cache, medium, crashes | |
| `WalProofs` | types, layout and durability | extends `WalEngine` |
| `FileBytes` | patching and reading byte sequences | |
| `FileStore` | abstract: what a backend promises | extends `FileBytes` |
| `MockStorage` | the in-memory backend | implements `FileStore` |
| `LocalStorage` | the local backend on a file system | implements `FileStore` |
| `StorageManager` | manager and adapter, access by access | |
| `DataLemmas` | minima and maxima, induction up to a bound, removal from a sequence, sums over finite sets | |
| `MockStorageProofs` | list, counters and the refinement of `FileStore` | extends `MockStorage`, `DataLemmas` |
| `LocalStorageProofs` | descriptors, counters and the refinement of `FileStore` | extends `LocalStorage`, `DataLemmas` |
| `StorageManagerProofs` | registry, routing, crashes and counters | extends `StorageManager` |
| `Cli` | the command line client | |
| `CliProofs` | what the two parses see, calls and exit codes | extends `Cli`, `DataLemmas` |
| `MCRaft`, `MCMockStorage`, `MCLocalStorage`, `MCStorageManager`, `MCCli` | instances for TLC | |

### Raft

Variables carry the names of the fields. A step is one iteration of the loop
over `cluster_nodes`, so other nodes' steps fall between the callbacks of an
election. `mutex[n]` says which thread of `n` holds the mutex; `slot` and
`votes_received` are the local variables of the holder. `StartElection`,
`VoteAnswered`, `VoteRefusedStale`, `VoteCallbackError` and `FinishElection` are
`election_thread_func`; the heartbeat actions are `heartbeat_thread_func`.
`AddNodeCheck` and `AddNodeInsert` are the two halves of
`xdevice_raft_add_node_to_cluster`. `prev_log_index` is computed modulo
`IndexMod`, and a read outside the log yields any term.

External: `raft.h` declares the two request handlers and no file defines them;
the callbacks of `node_main.c` return OK without filling the response. The model
gives the handlers the rules of Raft, since the callers depend on them, runs
them under the mutex of the receiver, and lets a callback fail with its request
lost or still in flight (`late`). A peer that holds its mutex does not answer;
whether a caller then waits for ever is up to a transport that the repository
does not contain, and no property depends on it. The stubs themselves are not
modelled.

`ballots` and `elected` are history variables, read by no action.

### NodeServer

`pc` is where `main` is; each resource is `none`, `live` or `freed`, so an error
path that skips a release is visible. `CreateElectionThread` and
`CreateHeartbeatThread` are `xdevice_raft_start_node`, `DestroyNode` to
`FreeNode` are `xdevice_raft_destroy_node`, `Test` to `BeatDone` the loops of the
two threads: the test of `running` without the lock, the lock, the body, the
unlock. `Signal` may happen at any time; before the handlers are installed it
kills the process. `pthread_create` may fail and may then leave anything in the
handle. A join of a thread that was joined before, or of such a handle, is
undefined: the model lets it return, crash or never return, and records it.

Nobody is added to the node's cluster, so a walk visits nobody. That this makes
the process a Raft node of the other module is a refinement (`ImplementsRaft`):
a thread between lock and unlock that does nothing is a stutter, an election is
`StartElection` and `FinishElection`.

### Cli

A behaviour is one process with one command line from `CommandLine`, a sequence
of options (with an attached value or without), words and separators.
`ParseGlobalOptions` is `main` up to the command, `ParseCommandOptions` the second
parse in a command, with `optind = 0`. `getopt_long` is external: its GNU version
permutes, so `main` meets the options of the command first, rejects those it does
not know and takes the `-s` of `create-device` for `--server`. Only behind `--` do
they reach the command. The two examples with options that `show_help` prints
(`cli_main.c:28`, `30`) have no `--`; with the GNU `getopt_long` they end with exit
code 1 before their command is looked at, which the run `cli_examples` shows and
`NoOptionSkipped` explains. A long option that takes no value is refused with one
(`Refused`). A size is a fraction and a unit; a
product beyond `uint64_t` gives 0 or the largest value. Abbreviated long options,
clustered short ones and sizes that are NaN are left out. The model's text for "no
value" is the text of no argument and of no size (`CliAssumption`).

### WalEngine

The page cache (`size`, `header`, `cells`) and the medium (`disk`) are separate;
`WritebackSize`, `WritebackHeader` and `WritebackCell` copy any part at any time,
`Crash` loses the handle, `PowerFailure` also the page cache. An append is two
steps, header and data, as in the two `memcpy`s. The file header's CRC covers
its own checksum field because of the padding at the end of `wal_header_t` (the
field is at offset 32, the CRC covers 36 bytes), so `CreateWalHeader` takes the
prior contents of the field as an input. CRC is a bijection of that field with
one fixed point.

### FileStore and the backends

`FileStore` has one atomic action per call and its replies. A read across the
end of a file may be refused or padded, because the two backends differ there.
Where `Grows` is set, as it is for the in-memory backend, a write refused for want
of space may have grown its file by zeros. In
`MockStorage` a call is one step under `files_lock` and one under `stats_lock`;
`Content` maps the list to the abstract files. In `LocalStorage` a call takes a
descriptor, seeks, transfers and counts in separate steps; names, inodes and open
descriptions with an access mode and a position stand for the kernel. Every system
call but `lseek` may fail, and `write` may stop after any number of bytes, also
after `open` has created the file: `FileStore` allows this backend (`Torn`) that a
failed write leaves a first part of its bytes, or an empty new file. A path is
the name that `build_file_path` returns; directories are created on the way and
are not modelled. A file whose creating call has not finished is not yet part of
`Content`.

Two uses of a file break the promise in the code and in the model: two calls that
have it in hand at once (they share its position, and `create_file` truncates
what another thread has written), and a deletion while its descriptor is cached
(later writes go to the unlinked inode, `storage_test.c:108` does this). Neither is
excluded. `misused` records the files they have happened to, and `FileStore`
promises nothing about such a file, and everything about all others, until the
backend is cleaned up (`Misuse`, `Settle`).

### StorageManager

Only the counters have a lock. The array `backends` and `backend_count` are read
and written by every call without one, so each access is a step: the comparison
of the index with the count, the type of a cell, the cleanup of a backend, the
store, the count, each move of a cell, the clearing of the last one; in
`select_backend` the count, the type, the health check and the second read of the
cell it returns. Where the compiler may keep a value or read it again (the cell
during the health check, `backend_count` in `backend_count++`) both outcomes are
steps. Accesses happen in program order.

A null pointer that is followed, an index outside the array and a cleanup of a
backend under a running health check or call may end the process (`Faults`,
`Crash`). The call may also survive the last of these with either result. A
backend that was cleaned up before the call refuses it, its `private_data` being
NULL.

Backends carry no data here: an initialised one answers with success or an error,
and what is behind the answer is the subject of the two backend modules. A mock
is always healthy, another is healthy while its directory is accessible. The
adapter is attached and detached by its init and cleanup (`attached`: its pointer
to the manager); its six other operations are `raft_storage_save` and
`raft_storage_load`, calls of the manager.

Four variables are history: `overlap` says which kinds of calls have overlapped
since the initialisation, `steady` and `first` which backends, and which of the
primary's type, a walk could have used at each moment so far, and `reached` how
many reads and writes got to a backend.

## 3. Runs

Passing:

| Run | Shows | Instance |
|---|---|---|
| `raft_safety` | `ElectionSafety`, `LeaderIndexInBounds`, `EntryOrigin`, `VoteStable` | 3 nodes, 2 terms, logs of 2, 2 late requests |
| `raft_faults` | `SplitNeedsLostVote`, `WonByBallots` | 3 nodes, 1 term, a restart of any node, one adding thread that fills the fourth cell |
| `node_server` | `ShutdownCompletes`, `LeadsAlone` under fairness, `NodeOutlivesThreads`, `ReleasedAtExit`, `JoinsDefined`, implements `Raft` | one process; the model has no bounds |
| `wal_safety` | `Layout`, `SyncedDurable` | file of 1 or 6 cells, records of 1 to 3, 2 handles, 2 crashes |
| `mock_filestore` | implements `FileStore`, `ListSound`, `StatsConserved` | 2 threads, 2 files, files of at most 2 bytes, writes beyond that |
| `local_filestore` | implements `FileStore`, `DescriptorsSound`, `StatsConserved` | 2 threads on 2 files, a cache of 1, 2 descriptors, 2 inits, 4 calls |
| `manager_safety` | `RegistrySound`, `RoutingSound`, `CrashExplained`, `StatsConserved` | 2 threads, 3 backends of 2 types, a registry of 2, 4 changes, reads, writes and syncs until one of the former is answered |
| `cli_commands` | `SeparatedFormWorks`, `ExitSound` | all lines of up to 4 arguments of 21, and commands with 3 options behind a separator or without one |

Disagreements between the code and what the repository says of it, each a run
that TLC must refute:

| Run | Refutes | Because |
|---|---|---|
| `raft_add_to_leader` | `LeaderIndexInBounds` | a node added under a leader has `next_index` 0 |
| `wal_reopen` | `Reopenable` | the header's checksum covers itself |
| `local_read_back` | `ReadSucceeds` | the cache ignores the access mode |
| `cli_examples` | `ExamplesReachCommand` | `main` parses the whole line and refuses the options of the command |

Two more disagreements need no run of their own. A server started by `node_main.c`
leads a cluster of nobody (`LeadsAlone`), so several of them are as many leaders of
term 1, while `docs/architecture.md:8` promises strong consistency by Raft. And
heartbeats, the only messages a leader sends, carry no entries
(`raft.c:178`), while `docs/architecture.md:58` lists log replication.

Why the bounds are enough. Two candidates, a voter and two terms are what two
winners of a term, a moved vote or a stale leader need; a third voter and more
terms add repetitions, and the proofs remove the bound. Three nodes, a restart and
one term are what two winners of a term need. A file of 6 cells holds a header and two
records, so that a record follows another and a third does not fit; a file of 1
cell is smaller than its own header. Two handles cover a reopening. One cell of cache for two
files makes the cache full; two descriptors make the table full; two inits make
a descriptor number be reused; with four calls (`MaxCalls`) a file is created,
cached, deleted or shared, and used again. A registry of two with three backends
of two types is full, replaces and shifts; four changes are two registrations, a
removal or replacement, and a failure or a registration beside it, and one thread
walks while the other changes. Four arguments are a separator, a command and two
options, enough for an option without its value, an option taken for a value and
a repeated option; three options are what `add-node` takes. `Kilo` and `SizeMod`
are scaled down so that a size of the line overflows. Symmetry is used for the two
backends, whose threads and paths are interchangeable, and for the manager, whose
threads and whose two local backends are; their properties are safety.

Fairness. `Raft` assumes none and promises no progress: both threads hold their
mutex over calls to nodes that do the same, and whether these return is up to a
transport that is not in the repository.

`NodeServer` assumes weak fairness of `main` and of each thread: the operating
system runs them. Its three users take the mutex for a moment and then sleep (10
ms, the heartbeat interval, a second), so each of them gets it in the end: strong
fairness of taking the mutex. Time passes, so an election timeout is reached at
some iteration: strong fairness of `Campaign`. No fairness is assumed of signals
or of failures.

### Assumptions, and what happens without them

Each passing property names the use of the code it holds for. Relaxing these in
an instance makes TLC show the following behaviours of the code:

- *No restart* (`ElectionSafety`): a restarted voter has forgotten its vote and
  a term can have two winners.
- *Calls of `add_node` that do not overlap* (proofs of `Raft`): two that both saw
  the last free cell both write.
- *Lists whose majority is a majority of the cluster* (`ElectionSafe`): the code
  divides by the length of the node's own list, so with four nodes that each
  list their three peers two votes win.
- *Until a later handle is opened* (`SyncedDurable`): a reopened log starts at its
  first record with LSN 1.
- *Records shorter than 2^32* (`Layout`): the length field is truncated.
- *`Grows`* (mock refinement): a write refused for its size has already grown
  the file, and later writes to it are refused too. `XDEVICE_ERROR_NO_SPACE`,
  which it returns, is not defined in `xdevice.h`.
- *Both threads created* (`JoinsDefined`, `ShutdownCompletes`): when the second
  `pthread_create` fails, `start_node` joins the first thread and `destroy_node`
  joins it again; the process may then crash or hang.
- *Files not misused* (local refinement, part of the property): two threads on a
  file share its position; a deleted file's cached descriptor receives later
  writes.
- *No overlapping registrations* (`RegistrySound`, `RoutingSound`, part of the
  properties): two of them overwrite a cell, lose a count, move cells past each
  other or leave the array.
- *No walk during a removal, no cleanup under a call* (`CrashExplained`, part of
  the property): a walk reads a cell that a removal has cleared; a backend's
  private data is freed under its reader. A removal is out of the way of a walk
  when it has not started to move cells or has cleared the last one.
- *No interface registered twice* (`RegistrySound`, part of the property): it is
  cleaned up and stays registered.
- *Program order* (`CrashExplained`): nothing in the code keeps a processor from
  showing `backend_count` before the cell it counts.
- `offset + size` stays below 2^64 in all backends.

Two more behaviours the models reproduce: a full descriptor cache leaks the
descriptors it does not keep (`max_open_files` bounds the cache, not the open
files), and `select_backend` uses any healthy backend also when `auto_failover`
is off.

Operators commented as *Mutant* are used by no specification: each is a
plausible mistake in the definition that follows it (`PROJECT.json`, "mutants"),
and TLC refutes the property named there when the mistake is made.

## 4. Proofs

| Theorem | States | Hypothesis |
|---|---|---|
| `TypeCorrect` | `Spec => []TypeOK` of `Raft` | at most one adding thread |
| `ElectionSafe` | `Spec => []ElectionSafety` | static cluster, majorities of lists are majorities, no restart |
| `VotesStay` | `Spec => VoteStable` | at most one adding thread |
| `EntriesWon` | `Spec => []EntryOrigin` | at most one adding thread |
| `IndicesKept` | `Spec => []LeaderIndexInBounds` | nobody is added (`raft_add_to_leader` shows why) |
| `LeadersElected` | `Spec => WonByBallots` | at most one adding thread |
| `SplitsExplained` | `Spec => []SplitNeedsLostVote` | static lists of distinct nodes, majorities of lists are majorities |
| `BallotsBounded` | `Spec => []BallotsPerRestart` (in `RaftProofs`) | at most one adding thread |
| `WalTypes` | `Spec => []TypeOK` of `WalEngine` | lengths fit the length field |
| `LayoutKept` | `Spec => []Layout` of `WalEngine` | lengths fit the length field |
| `SyncDurable` | `Spec => []SyncedDurable` | lengths fit the length field |
| `MockTypes`, `ListKept`, `CountersKept` | `Spec => []TypeOK`, `[]ListSound`, `[]StatsConserved` of `MockStorage` | |
| `MockImplementsFileStore` | `Spec => ImplementsFileStore` of `MockStorage` | |
| `LocalTypes`, `DescriptorsKept`, `TransfersCounted` | `Spec => []TypeOK`, `[]DescriptorsSound`, `[]StatsConserved` of `LocalStorage` | |
| `LocalImplementsFileStore` | `Spec => ImplementsFileStore` of `LocalStorage` | |
| `ManagerTypes`, `CallsCounted` | `Spec => []TypeOK`, `[]StatsConserved` of `StorageManager` | |
| `RegistryKept`, `CallsRouted`, `CrashesExplained` | `Spec => []RegistrySound`, `RoutingSound`, `[]CrashExplained` of `StorageManager` | |
| `ServerTypes`, `NodeFreedLast`, `AllReleased`, `JoinsSound` | `Spec => []TypeOK`, `[]NodeOutlivesThreads`, `[]ReleasedAtExit`, `[]JoinsDefined` of `NodeServer` | |
| `ServerIsRaftNode` | `Spec => ImplementsRaft` of `NodeServer` | |
| `CliTypes`, `SeparatedWorks`, `OptionsKept`, `ExitsSound` | `Spec => []TypeOK`, `[]SeparatedFormWorks`, `[]NoOptionSkipped`, `[]ExitSound` of `Cli` | |

They hold for every number of nodes, terms, log entries, late requests, file
sizes, record lengths and crashes, for every number of threads, files,
descriptors, backends and calls, and for command lines of every length. Each module names its assumptions on its
constants: sizes and bounds are natural numbers, chunks are nonempty sequences of
bytes, the threads of a storage module are a finite set (the counters' equations
sum over them), "nobody" is no backend, and the file backend is initialised at
least once.

*Types.* Types alone are not inductive: an insertion relies on a check made
earlier. The invariant adds that what an adding thread has checked still has
room, which no other thread can take away when there is only one.

*Votes.* `VoteStable` is an action property. It follows from the same invariant,
one action at a time: the handlers vote for who has the vote already, or for the
first who asks, or in a newer term (`VotesHandled`), a node that steps down adopts
a newer term (`VotesAfterStepDown`), and nothing else touches a vote.

*Elections.* `ElectionSafety` needs to know where votes come from. The invariant
says: a ballot belongs to a term its voter has reached, and a voter still in it
remembers it (`BallotInv`), so nobody votes twice (`BallotOnce`); a late request
was sent to a peer its candidate has passed (`LateInv`), so a vote granted late
is not counted twice; a candidate counts at most the ballots cast for it
(`CountInv`); a winner has the ballots of a majority (`WinInv`). Two majorities
share a voter, who would have voted twice.

*Log.* `WalInv` adds to `Layout` where the pending record lies (`PendingInv`),
that acknowledged records have past LSNs and this handle (`RecsInv`), and that
covered records are both in the page cache and on the medium (`SyncInv`):
without the page cache a write-back could destroy them, without the medium a
power failure could.

*Entries and indices.* `EntryOrigin` needs that a leader has won the term it is
in (`LeaderInv`) and that no entry is of a term its node has not reached
(`EntryInv`); a step then follows, wins, appends or forgets. `LeaderIndexInBounds`
is inductive on top of the types: a winner sets all its indices to the end of its
log, an answer leaves an index where it was, through an unsigned subtraction and
addition that cancel (`ModWrap`), or steps it back down to 1, and logs of leaders only
grow. Somebody added under a leader has an index nobody has set.

*Restarts and additions.* `WonByBallots` needs a count that survives a list that
repeats nodes and grows between campaigns: a candidate counts at most the cells it
has passed whose node has voted for it (`TallyInv`), and a list does not grow under
a campaign, which holds the mutex. To explain a split one has to know who has
forgotten a vote: a node without a vote in a term has at most `restarts` ballots
in it, one with a vote has that one too (`CastInv`), so without a restart nobody
votes twice. Both winners have the ballots of a majority of the nodes, two
majorities share a voter, and that voter has voted for both.

*Sums.* The counters of the storage modules are related to the work in hand by
sums over sets of threads (`FoldSet`). `DataLemmas` proves that such a sum
grows by the weight of a thread that joins and does not depend on the order, for
every finite set. There is no induction rule the provers can instantiate, so the
lemmas argue by a minimal counterexample: strict inclusion of finite sets is
well-founded. The same argument gives the least element of a set of numbers,
which is what `SelectInSeq` returns, and thus what `find_file` and the lookup in
the descriptor cache find.

*In-memory backend.* `MockInv`: the list holds files of distinct paths whose size
is within their allocation, the bytes beyond it being zero, `file_count` is its
length (`ListInv`), and counters and calls in hand add up (`CountersInv`). Every
step is then a step of `FileStore` or leaves list and reply alone. The lemmas on
growing, overlaying and removing show what the loops over allocated bytes do to
the abstract contents.

*File backend.* `FileInv` says, whatever the threads share, that names, open
descriptors, cache entries and calls agree with the path an inode was created
under; a step opens or moves descriptors, adds names or takes them away, and only
a cleanup closes any, when no call is under way. That is `DescriptorsSound`. It is
not enough for the refinement: a deleted file's descriptor is still sound in this
sense. `OwnInv` adds, for the files that are not misused, what a call alone with
its file may rely on: the cached descriptor and the one in its hands stand for the
inode that *has* the name, a file the call created is empty until the call writes
it, and nobody has moved the position it has set. Steps on other files keep this
because they touch no inode, descriptor, entry or name of another path (`Only`);
a step that misuses its file, or happens on a misused one, changes no other, which
is all that `Misuse` asks. A call takes effect
at its transfer, its truncation or its only step; before that, `Content` does not
change (`SameContent`).

*Manager.* None of the three properties of the registry is inductive. `IndInv` says
what a registration knows at each of its accesses as long as none has overlapped
another: which cells it has compared, that the cell it found is still there, that
a cell moved up is the copy that remains, that the last cell is the one it clears
(`OrderInv`); that all cells but the one being overwritten or dropped hold
initialised backends and that the backend it brings is none of them (`LiveInv`,
unless an interface was registered again); and that a backend which was usable all
through a walk is still in front of it, or the walk is in a phase that has passed
it only for its type (`WalkInv`). The latter is where a removal matters: it moves
cells in front of a walk behind it, so a backend is steady only while nothing is
being removed. A crash then contradicts `OrderInv` unless an overlap is on record.
Counters plus uncounted calls equal the calls that reached a backend (`StatsInv`).

*Server.* Whether a release is right depends on how `main` came there. `ServerInv`
says what `main` holds at each of its places (`ResourceInv`), which threads exist,
which have ended, and that a thread holds the mutex exactly between its lock and
its unlock (`ThreadInv`), which joins are still to be made (`JoinInv`), and that the
only election is where the election thread is (`TermInv`). A handle is valid exactly
when its thread was created; the node is freed at `free_node`, where every created
thread has ended. The refinement maps a thread inside its loop to a walk of
`Raft` that holds the mutex. Taking the mutex, the test of `running` and all of
`main` are stutters; `Campaign` is `StartElection`, `Win`, the end of the empty walk,
is `FinishElection`, and a heartbeat starts and ends a walk over nobody.

*Client.* Both parses fold a line of any length (`FoldLeft`). `FoldExists` builds the
function behind the fold for ever larger sets of positions, so that the parse can be
followed argument by argument (`Steps`, `Advance`); a property of the state before
the first argument that every argument keeps then holds of the whole line. `Upward`
is that induction: it takes a set of numbers instead of a predicate, and rests on a
least counterexample. In this way `MainReadsAll` shows that a line on which `main`
saw no unknown option has its other options behind a separator or as a value,
`HelpAsked` that a parse that ends in help met `-h` or `--help`, `Separated` that
`main` leaves a line behind `--` as it is, and `SeenInOrder` and `LastWins` that a
command sees its options in order and keeps the value given last, for all three
commands that take options. `CliInv` adds to
the properties where the context and the words are at each step (`PhaseInv`), that
the words are what `main`'s parse left and nothing ended it (`ParseInv`), and the
reason of a success (`OutcomeInv`). Sizes and ports need only that products and
quotients keep the sign and that a remainder fits (`Sizes`, `Ports`).
The attempt showed what `SeparatedFormWorks` had left unsaid: a port must not be
negative, since its conversion to `uint16_t` makes it positive.

Only model-checked: liveness (`ShutdownCompletes`, `LeadsAlone`), which the provers
do not cover. Every other property of a passing run is a theorem,
under the hypotheses of the table.

## 5. Not modelled

- Timers, other than that a timeout may happen whenever the code allows it;
  `apply_log_entry` and the change callbacks, which no code calls; a second
  `start_node` of one node, which no code makes.
- The network server and the core API: headers without source. The server's
  network callbacks only print. Its Raft callbacks are stubs that leave the
  response unwritten; with an empty cluster they are never called.
- `get_stats` of the backends and of the log, which copies counters that are
  modelled; latencies and times; the delays of the in-memory backend.
- The mapping cache, load balancer, read/write cache, batch and routing settings,
  which no code uses; `format_size` of the client, which no code calls.
- The contents behind the manager: after a failover the backends hold different
  files and nothing copies them back, and a save does not truncate what it
  overwrites; no document says what a read returns then. Interfaces whose memory
  their owner has freed, and a deadlock of Raft nodes that call each other, which
  depends on the transport.
- The NVMe-oF, NFS and dynamic backends: documents without source.

## 6. Plan

1. Done: the Raft node, its life in the server, the WAL, the backends against
   `FileStore`, the manager with its adapter, the client.
2. Done: proofs of election safety, votes, log and indices of `Raft`; of layout
   and durability of the log; of both backends' invariants and their refinement
   of `FileStore`; of the manager's registry, routing, crashes and counters; of the server's
   invariants and its refinement of `Raft`; of the client's properties.
3. Open: liveness stays with TLC. When the request handlers of `raft.h`, a recovery
   of the log or a transport get a body, their external parts here become actions.
