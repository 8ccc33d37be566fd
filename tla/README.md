# A TLA+ model of miniraft

miniraft is a Raft implementation in Rust for a linearizable key-value service.
This directory holds a TLA+ model of it, the TLC configurations that check the
model on small clusters, and theorems about it that TLAPS checks for clusters
of every size. Paths are relative to the repository; `state.rs` and `lib.rs`
are `raft/src/state.rs` and `raft/src/lib.rs`.

## The system

A node is one process with several threads around one mutex.

| Component | State | Operations |
|---|---|---|
| Raft state (`state.rs`) | `Common` (term, log, commit index, last applied, election deadline) and `Role` (follower with leader hint and vote, candidate with votes, leader with next and match indexes) | one handler per message, election timeout, replication, append |
| Engine (`lib.rs`) | the mutex around the Raft state; the state machine, owned by the RPC thread | `election_loop`, `log_replication_loop`, `incoming_raft_rpcs_loop`, `incoming_client_rpcs_loop`, each a thread |
| Client gateway (`lib.rs`, client loop) | the table of proxied requests | append at a leader, proxy at a follower, route an answer back |
| Key-value machine (`lib.rs`, `apply`, `dismiss`) | the map; with each log entry the channel on which its client waits | apply a command and answer, dismiss a command and answer `Abort` |
| Persistence (`persistence.rs`) | one file per node with term, vote and log; a temporary file | write, sync, rename; restore at boot |
| Supervisor (`supervisor.rs`) | the child process | a time bomb aborts the process at random; the supervisor starts it again |
| Maelstrom transport (`maelstrom/`, `main.rs`) | stdin and stdout, a counter of message IDs | one thread per incoming message puts it on the engine's channels |
| HTTP front end (`http.rs`, `main-http.rs`) | table of connections waiting for a response | requests in, responses matched to connections |
| Metrics (`metrics/`) | gauges | printed over HTTP |
| JSON (`json/src/lib.rs`) | a parser's depth and pending surrogate | parse bytes to a value, print a value |
| JSON diff, Base64, random numbers, `xtask` | none across calls | pure functions and development tools |

The threads meet in two places: the state mutex, which every handler takes for
itself alone, and the channels to the transport. What is hard about the code:

* a thread reads under the mutex, releases it, and acts on what it read: the
  client loop's leadership check (`lib.rs:398`), the RPC loop's handler and the
  write to disk after it (`lib.rs:334`);
* the network delays, repeats, reorders and loses messages, and some fields of
  a response are not checked against the leader's term (`lib.rs:322`);
* a process may be killed between any two instructions and comes back with
  what is on disk; candidacies are never written (`lib.rs:212`);
* a write may fail, after which the node goes on with what it has in memory;
* a panic under the mutex poisons it and stops the node's threads one by one;
* persisting is six system calls, each of which may fail or be the last before
  a crash, over a handle that after a rename leads to the target itself
  (`persistence.rs:241-285`);
* message IDs are drawn by every node for itself and compared with each other:
  by proxies (`lib.rs:512`) and by the table of HTTP connections (`http.rs:376`).

`PROJECT.json` lists these hazards line by line, with the properties that would
catch them.

What makes the components correct: one leader per term; logs that agree on an
entry agree before it; machines that apply the same commands in the same order;
a client that is told "done" or "aborted" is told the truth; nothing is said to
another node that a reboot could forget; no assertion fails; the file of a node
always holds one whole document, no older than what was answered; a response is
written to the connection whose request it answers; what is printed as JSON
parses back.

## The modules

| Module | Contents |
|---|---|
| `RaftLog` | the pure part of `state.rs`: log access, `replace_from`, the vote's log comparison, `won_election`, `lower_median` |
| `RaftCore` | the cluster: one action per handler, loop round and client step, with network, disk and crashes; its properties, and the refinement mapping to `Service` |
| `Service` | abstract: what the cluster is to its clients, one machine that executes commands in order |
| `MCRaftCore` | symmetry, a view and constraints for TLC, with five configurations |
| `MCFiveNodes` | `MCRaftCore` with five nodes, kept on the way to one case; one configuration |
| `MCAborted` | `MCRaftCore` with eight elections, kept on the way to one case; one configuration |
| `ClientGateway` | how requests and answers are routed: the client loop of `lib.rs` with its proxy table, over a Raft state reduced to whom a node believes in |
| `MCClientGateway` | symmetry for TLC, with one configuration |
| `HttpGateway` | the HTTP front end composed with `ClientGateway`: connections, the table they wait in, rerouted responses |
| `MCHttpGateway` | symmetry for TLC, with two configurations |
| `StableStorage` | abstract: one document on disk, replaced in one step |
| `FileMoF` | how a node persists its state, system call by system call, and boots; implements `StableStorage`; with one configuration |
| `JsonParser` | the JSON parser as a machine that is fed bytes |
| `JsonDocument` | the grammar it is compared with, the printer, and the properties |
| `MCJson` | the alphabets for TLC, with one configuration |
| `RaftCoreTypes` | proofs: type correctness |
| `RaftCoreElections` | proofs: durable responses, one vote per term, one leader per term |
| `RaftCoreLogs` | proofs: logs match, hints have no cycle, no second leader before a leader |
| `RaftCoreCommits` | proofs: machines agree, leaders are complete, no panic, acknowledged and applied entries stay, the refinement of `Service` |
| `ClientGatewayProofs` | proofs: types, the bound of the table, one answer per operation, refused means not executed, answers go to who asked |
| `HttpGatewayProofs` | proofs: types, a node's answers to itself go to the right connection |
| `FileMoFProofs` | proofs: types, no torn target, answers survive, no temporary files pile up, the refinement of `StableStorage` |
| `JsonParserProofs` | proofs: the depth counter is the nesting, and is bounded |

`RaftCore` and `ClientGateway` are two views of one engine, which `HttpGateway`
extends. `RaftCore` treats the write after a handler as one step that may be late
or fail; `FileMoF` opens that step up, and the refinement says that seen from
outside it is one step.

The state and the actions of `RaftCore`:

### State

| Variable | In the code |
|---|---|
| `current_term`, `log`, `commit_index` | the fields of `Common`; 0 stands for `None` in an optional index or term |
| `r` | `State::r`; `last_replication` is left out |
| `machine` | the commands applied since boot; `last_applied` is its length |
| `rpc` | where the Raft RPC thread is: idle, stepped down for a message not yet handled, done with a handler but not with the write, or panicked |
| `pending` | the request a client thread has checked the leadership for and not yet appended |
| `callbacks` | the requests whose entry in this node's log carries a respond channel |
| `disk` | what `Persistent::restore` would return |
| `msgs` | every message ever sent; a message may be received at any later time, any number of times |
| `replies`, `issued` | what clients were told, and what they have sent |
| `events` | counters of the bounded events |

### Actions

| Action | In the code |
|---|---|
| `BecomeCandidate` | a round of `election_loop` whose deadline has passed |
| `ReplicateLog` | a round of `log_replication_loop` |
| `MaybeStepDown` | `maybe_step_down` with a later term, a critical section of its own |
| `HandleVoteRequest`, `HandleVoteResponse`, `HandleAppendEntries`, `HandleAppendEntriesResponse` | the four handlers, including `become_leader`, `replace_from`, `advance_commit_index`, `advance_state_machine`, `apply` and `dismiss` |
| `Persist`, `FailPersist` | the write that follows a handler, and its failure |
| `ClientRequest`, `ClientCheck`, `ClientAppend` | the leader's branch of the client loop, in one go or with the thread descheduled after the check |
| `Crash` | the time bomb, or the end of a panicked process, and the reboot from disk |

### Steps that are merged

A step is one critical section of the mutex, except that

* a `maybe_step_down` that changes nothing is merged with the handler after it;
* a handler is merged with the write and the sending after it (`FinishNow`),
  unless the thread is descheduled (`FinishLater`), so the other order of events
  is in the model too, as often as `MaxLatePersists` says. Taking the copy of the
  state and writing it are one step: memory may change between the two, but what
  gets to the disk is the copy, and a crash between them looks like a crash
  before both;
* check and append of a client request are merged in `ClientRequest` and separate
  in `ClientCheck` and `ClientAppend`. An append and the replication after it are
  merged; the replication may send nothing, which is what the rate limit does.

Time is left out. A deadline may pass whenever the node is not a leader, and the
rate limit and the heartbeat interval may have passed or not. This allows more
behaviours than the clocks do, so a property that holds here holds there. The
one exception is the first replication of a new leader, which has no
`last_replication` and always sends heartbeats.

Commands are opaque here. Two requests never are the same command.

### The client gateway

`ClientGateway` takes the client thread's point of view. It shares no state with
`RaftCore`; two facts about the Raft state come from there: a node is never its
own hint, and hints lead nowhere in a circle (`HintsAcyclic`, proved as
`HintsFormNoCycle`). Otherwise beliefs change freely: a node becomes leader, learns
of a node that has been leader, or forgets.

| Variable or action | In the code |
|---|---|
| `leader`, `led` | `Role::Leader`, `Role::Follower::leader`; who has been leader |
| `next_id` | `CURRENT_MESSAGE_ID`, 1 again after a reboot |
| `taken` | the message in the client thread's hands, with the ID drawn for it and the value of `is_leader` |
| `proxies` | the map of the same name |
| `appended` | commands in the log with a respond channel |
| `logged`, `refused` | history: operations that a leader has appended, and that a node has answered with `TemporarilyUnavailable` |
| `net` | messages on their way; one that is never taken is lost |
| `Take` | the head of the loop: next message, next ID, `is_leader` |
| `AppendRequest`, `Proxy`, `Refuse`, `ReturnAnswer` | the branches of the match, the second and third after reading `current_leader` |
| `Answer` | `apply` or `dismiss` of a command with a channel |
| `BecomeLeader`, `LearnLeader`, `ForgetLeader` | `become_leader`, `handle_append_entries`, `become_follower` or `become_candidate` |
| `Crash` | the time bomb and the reboot |

A request's key and values are one opaque operation, which says whose request it
is: properties compare it with where the answer goes. An answer takes its
request's operation along, so that what it is the outcome of can be told; the
code has no such field. Clients do not repeat a request, and the network does
not duplicate (Maelstrom's does not); both would be further requests to the
gateway.

### The HTTP front end

`HttpGateway` extends `ClientGateway`. The connections take the place of its
clients: a node hands a connection's request to its engine under its own name, so
every answer to a connection comes back as a message from the node to itself or,
for a proxied request, first from the leader.

| Variable or action | In the code |
|---|---|
| `conn` | the connections: where, under which ID, how far; those with phase `waiting` are `correlation_map` |
| `rerouted` | responses that `handle_connection` has passed on to the engine's channel |
| `ReadRequest`, `Enqueue` | the HTTP branch of `handle_connection`, up to the drawing of the ID and after it |
| `RejectUnread`, `RejectRequest` | its early returns, without and with an ID used up |
| `WriteResponse`, `Reroute` | the JSON branch for a response that some connection, or none, waits for |
| `SendFails` | `send_tcp` to a node that does not accept the connection |
| `EngineTake`, `EngineHandle`, `RaftStep` | the steps of `ClientGateway` |

`main-http.rs` starts each node once and does not restart it, so there are no
crashes here. Requests are read byte by byte in the code; the model keeps what
can become of them.

### Persistence

`FileMoF` is one node's disk. Documents are numbers in the order of writing, files
are inodes, and a file holds nothing, a part or all of a document, in the page
cache or synced.

| Variable or action | In the code |
|---|---|
| `target`, `inner`, `buffer` | `FileMoF::target` as what the name leads to, the file of the open handle, what `BufWriter` still holds |
| `temps` | the files `raft-persistence-...` in `temp_dir()` |
| `older` | not in the code: the files the target's name may lead to after a power failure |
| `version`, `loaded`, `answered` | the last document written, the one the process booted with, the last one whose responses were sent |
| `Boot` | `main` up to `FileMoF::new` |
| `Rewind`, `RewindFails` | `rewind`: remove the old file, create a new one, drop the old handle |
| `Write`, `WriteFails` | `Persistent::persist` |
| `Flush`, `FlushFails`, `Sync`, `Rename`, `SyncDir`, `Fail` | the calls in `flush`, the last with the responses after it |
| `Kill`, `PowerFailure` | the time bomb; the machine |

A power failure keeps of an unsynced file nothing, a part or all, and undoes the
renames of a directory that was not synced. Whether the temporary directory is
the target's (`TMPDIR` decides) is a variable: `flush` syncs the former.

### JSON

`JsonParser` turns the recursive functions of the parser inside out: `pc` is the
place in the code that waits for the next byte, `stack` the calls of `visit_array`
and `visit_object` that are open, and `Step` what a byte does. Bytes stand for
classes of bytes, and the four digits of a `\uXXXX` escape for one. `JsonDocument`
defines the documents of JSON independently, as a relation between positions in a
text, in the form of the grammar of RFC 8259, and `Display` as in the source.

## The runs

Twelve: seven that pass and five that show where a comment in the code and the
code differ. No run checks for deadlock: with its bounds used up a behaviour ends.

### RaftCore

All runs but `tail_counted` have three nodes, the default of the project's own
Maelstrom target, and the nodes and the requests are interchangeable. The
behaviours are bounded by counters in the guards of the actions:

| Constant | Bounds |
|---|---|
| `MaxElections` | election timeouts in all |
| `MaxRounds` | rounds of the replication loop that send |
| `MaxStale` | receptions of a message whose term has passed at its receiver |
| `MaxCrashes` | killed processes |
| `MaxLateAppends` | client threads descheduled after their check |
| `MaxLatePersists` | RPC threads descheduled after a handler |
| `MaxExtras` | rounds, stale receptions and late appends together; a constraint (`ExtrasBound`) in `replication`, the sum of their bounds elsewhere |

When a bound is used up nothing else is lost: messages of the current term may
still be lost, repeated and reordered without limit. Two elections suffice for a
change of leadership with entries of the first leader left behind, and with a
crash for a leader that becomes a follower again; two requests suffice for
conflicting entries at one index, and two crashes are what it takes to lose an
acknowledged command.

| Run | Elections / rounds / stale / crashes / late appends / late writes, requests | Shows |
|---|---|---|
| `replication` | 2/1/1/0/0/0, 2, one extra | types, log matching, machines agree, leaders are complete, no panic, acknowledged and applied entries stay, the cluster implements `Service` |
| `durability` | 2/1/1/1/0/1, 0 | responses are on disk, one vote per term |
| `reboot` | 2/0/0/2/1/0, 1 | one leader per term, no proxy circle and no lost acknowledgement across crashes, when writes are prompt; a late append does no harm as long as there is one request |

Runs without crashes use a view (`CrashFreeView`). In them the disk is never
read and terms only grow, so a message may be forgotten that its receiver ignores
now and ever after, or that would change nothing and be answered as before (an
`AppendEntries` message whose entries the follower holds, `Superseded`).

`replication` uses two constraints instead of TLC's symmetry, which costs more
than it saves there. `FirstComeFirst` fixes the first candidate,
the next node to enter a term and the first request, which leaves out only
behaviours that differ from others by a renaming. `NothingHeldBack` keeps, of the
ways in which a leader may send on a request or a round of replication (the
rate limit may suppress it), the one that sends to every peer. A message may stay
unreceived, so every other way leads to states of which this one has a copy with
more messages, and the properties of this run do not mention messages.
`durability` and `reboot` keep both the symmetry and all the ways of sending.

`ImplementsService` maps the cluster to one machine: what was executed is what
the node that has applied most has applied. A step of the cluster is then a step
of `Service` or none, so commands take effect once, in an order that only
grows at its end, and before a client hears of success.

### ClientGateway and HttpGateway

Three nodes. `MaxInflight` stands for `MAX_INFLIGHT_PROXIES`, `MaxRequests` bounds
the requests of a client, `MaxElections` the nodes that become leader,
`MaxCrashes` the crashes. With one election a request makes at most one hop (a
second node that believes in a leader believes in the same one), so that IDs are
bounded as well.

| Run | Clients, requests / inflight / elections / crashes | Shows |
|---|---|---|
| `routing` | 3, 1/1/1/1 | an answer goes to the client that asked (`OwnAnswer`), no operation is answered twice (`AnsweredOnce`), what was refused is in no log and gets into none (`RefusedIsNotLogged`), the table is bounded (`TableBounded`) |
| `http` | 2, 1/0/1/0 | an answer from the node itself is written to the connection that asked (`SelfAnswerIsOwn`), a connection whose answer is on the way does not wait for ever (`ReturnedAnswerLands`), no message goes round for ever (`Settles`) |

Three requests fill a table of limit 1 and make it drop an entry, two one of
limit 0. `OwnAnswer` excepts answers sent by a node that has been rebooted: such a
node gives out its IDs again, and a late answer to a request of its earlier life
meets an entry of its new table. The comment at `lib.rs:458-463` describes this
for a client that repeats its request; the entry may as well be another client's.

### FileMoF

`file` has six files, three documents and two crashes: enough for an attempt that
fails at any call, followed by one that succeeds, with crashes of either kind
before, between and after. Files are not used again, so their number bounds the
attempts; the proofs have no such bound. Besides the properties that are also
proved it checks `Recovers` (a node that is down comes up again).

### JSON

`json` reads every input over seven alphabets, up to six or eight bytes each, with a
nesting limit of 4 in place of 256: structure, objects in each other, numbers,
escapes, surrogate pairs, UTF-8, literals with whitespace. `ParsesJson` compares
with the grammar after every byte, also that an error comes no sooner than no
document can begin like this; `RoundTrips` prints every accepted document and
parses it again; `DepthIsNesting` relates the depth counter to the calls that are
open.

### Where comments and code differ

| Run | Property | What happens |
|---|---|---|
| `two_leaders` | `ElectionSafety` | A new leader sends heartbeats from its replication loop before its RPC thread has written to disk. It is killed, reboots in an earlier term, and votes in the term it led: a second leader is elected in that term. |
| `late_append` | `AckIsReplicated` | A node checks that it leads, is deposed, and appends the request with the new term. The new leader's entry at that index has the same term, so `replace_from` keeps the wrong entry, and the client is told "done". |
| `wrong_connection` | `OwnConnection` | A leader's answer arrives at a proxy. Its `id`, which the leader drew, is also the ID of another connection there, and this is looked up first (`http.rs:385`): the answer is written to the wrong connection. |
| `tail_counted` | `AckIsReplicated` | Five nodes. The first leader puts two entries in its log; the second is sent to all, and lost on the way to all but one. The next leader, elected by the three others, sends heartbeats after the first entry, which all have. The two with the earlier leader's second entry accept, and report the index of their whole log (`state.rs:741`). The leader appends an entry at that index, counts them as having it, and commits and acknowledges what two of five nodes have. No node is killed, and no message of an earlier term is received. |
| `aborted_applied` | `AbortIsFinal` | Three nodes. A leads term 1 and appends a command, B leads term 2 and appends another; both are sent to the two peers and lost. A leads term 4 and sends its entry again; C gets it, leads term 5 and appends an entry of its own. B receives nothing in terms 3 to 5. B, whose last entry is of a later term than A's, leads term 7 with A's vote, and makes A drop its entry: A's client is told "aborted". C, which B's entry does not reach, leads term 8, as its last entry is of a later term than B's, and commits the entry. In terms 3 and 6 nodes stand in vain, without which they would still be bound by earlier votes. No node is killed, and no message of an earlier term is received. |

`tail_counted` and `aborted_applied` are too large to be searched without a hint:
`Script`, a constraint, keeps TLC on the way described. A constraint only leaves
out behaviours, so what is found is a behaviour of the code. With three nodes
there is nothing like `tail_counted` as long as leaders take only answers of their
own term: the lower median of two match indexes is the smaller, so the peer that
voted for the leader counts in any case, and what a voter reports is right. This
is what `RaftCoreCommits` proves.

More differences that the model has, or is parametrised by, and no run is about:

* A leader takes any successful answer for one to its present messages: the term
  of the answer is dropped at `lib.rs:322`. With three nodes, four elections, lost
  messages and one answer that arrives late, a leader acknowledges a command that it alone has.
  B leads term 1, and has two entries that reach nobody. A leads term 2 with
  the vote of C; B answers A's first heartbeat with index 2, and this answer is
  delayed. A appends an entry, which C gets. C leads term 3 and appends a second
  one, which is lost on the way. A leads term 4 with the vote of B, appends an entry at index 2, gets
  from C, whose tail agrees with A up to index 1, the index 2, and now the old
  answer of B. Both match indexes are 2, and A commits. TLC finds this with
  `MaxElections = 4`, `MaxStale = 1` and a constraint like `Script`; two elections, as
  in `replication`, are too few.
* `advance_commit_index` (`state.rs:912`) returns while any peer has no match
  index; the comment above it asks for a majority only.
* `become_follower` leaves a follower as it is, so a follower that learns of a
  new term keeps the vote it cast in an earlier one (`voted_for` is "Who we voted
  for in the current term", `state.rs:286`). The theorems hold with it: not
  resetting the vote makes elections rarer than Raft requires.
* With two elections a request may be proxied twice, by a node that believes in a
  former leader and by that one. The second proxy gives the answer back with its
  own ID in `in_reply_to` (`lib.rs:517` replaces `id` only), and the first looks this
  ID up in its own table (`lib.rs:512`), where it may find another client's request:
  `OwnAnswer` is violated with two nodes, two clients and `MaxElections = 2`. The
  comment at `lib.rs:456-457` relies on IDs that are unique at one node only.
* The answer to a proxied request reaches its client with `in_reply_to` still the
  proxy's ID (`lib.rs:516-517`; `set_id` replaces `id`), and the table takes one
  entry more than its limit before it drops any (`lib.rs:439`), which is why
  `TableBounded` says `MaxInflight + 1`.
* `flush` syncs the directory of the temporary file (`persistence.rs:247`), not the
  target's: with the two apart, a power failure may bring back an earlier
  document after its successor's responses were sent. `AnsweredSurvives` excepts
  this case and no other.
* Keys of objects are printed without escapes (`json/src/lib.rs:93`), so an object
  with a quote in a key does not parse back; `RoundTrips` excepts such keys. A
  value at depth `MAX_DEPTH` is rejected already, where the comment says "nested
  deeper than this"; the grammar here has the code's limit. `E` in a number is
  printed as `e`, which `RoundTrips` compares after parsing.

### Fairness

`HttpGateway`: every node's threads that can run do run (weak fairness of
`HandleConnection` and of `ClientThread`). Each connection has a thread of its own
and the client loop never ends, so the operating system's scheduling justifies
it. Nothing is assumed of clients, of Raft answering, of who leads, or of
failures. `FileMoF`: weak fairness of `Boot`, as the supervisor's loop starts the
process whenever it has ended. `RaftCore` has none and no liveness is claimed:
whether elections end depends on random deadlines, which the model leaves out.

## The proofs

The theorems about `RaftCore` hold for every finite cluster of at least two nodes
(`NodeAssumption`), every set of requests, and every natural value of the bounds
(`BoundAssumption`), hence for behaviours of any length; those about the other
modules likewise for every value of their constants. Where a theorem has a
hypothesis, the code does not establish it, and the last column says what goes
wrong without; only `MaxCrashes = 0` is a limit of the proof.

| Hypothesis | Meaning | Needed because of |
|---|---|---|
| `MaxCrashes = 0 \/ MaxLatePersists = 0` | no node is killed between a handler and its write while another thread acts, or after a write that failed | the run `two_leaders` |
| `MaxLateAppends = 0` | a client thread appends in the critical section of its check | the run `late_append` |
| `Cardinality(Node) <= 3` (`RaftCoreCommits`) | two or three nodes, the default of the project's Maelstrom target | the run `tail_counted` |
| `[][AnswersAreCurrent]_vars` (`RaftCoreCommits`) | a leader takes only successful answers of its own term; implied by `MaxStale = 0` (`PromptAnswersAreCurrent`) | the late answer, above |
| `MaxCrashes = 0` (`RaftCoreCommits`) | no node is killed | a reboot forgets what was applied, which `AppliedIsStable` excepts; the rest is checked with crashes by `reboot` and not proved |
| `MaxElections <= 1` (gateways) | a request is proxied at most once | two proxies in a row, above |
| `MaxRequests >= 1` (`HttpGateway`) | a connection may carry its one request | the module's own meaning |

### Raft

* `TypeCorrect` (`RaftCoreTypes`): `Spec => []TypeOK`. Not inductive alone: the
  handlers read the log at indexes up to the commit index. The invariant `TypeInv`
  adds `AppliedIsCommitted` (last applied, commit index and the end of the log are
  ordered as the assertion in `advance_state_machine` wants) and `LeadingTerm`.
* `ResponsesAreDurable` and `VotesAreUnique` (`RaftCoreElections`). The inductive
  invariant `VoteInv` follows a vote from the response in the RPC thread's hands
  over memory to the disk: `DiskBehind` (the disk's term is not ahead of the
  memory's), `OwnOutbox` (a response not yet sent is the node's own),
  `MemoryKeeps` and `DiskKeeps` (a vote granted in a response is the one
  remembered, unless the term is later), and `OneVote`. Crashes, late writes and
  failed writes are included. That a follower keeps its vote when the term changes
  makes no difference to the argument; becoming a candidate is what drops it.
* `ElectionsAreSafe` (`RaftCoreElections`): `ElectionSafety` under the assumption
  `MaxCrashes = 0 \/ MaxLatePersists = 0`. The votes a candidate counts are granted
  ones (`CandidateVotes`), a leader and the sender of an AppendEntries message have
  had a majority (`LeaderWon`, `AppendWon`), two majorities share a node, and that
  node voted once. The node's own vote is not a message; `SelfVoteInMemory`,
  `NoOtherVote` and `SelfVoteOnDisk` say that it is kept as well. This is where the
  assumption is used: a leader that crashes has its own vote on disk only if the
  write came before anything was sent. `two_leaders` shows that the assumption
  cannot be dropped.
* `LogsMatch` (`RaftCoreLogs`): `LogMatching`, under the first two hypotheses.
  `LogMatching` speaks of logs in memory; a log is built from messages, which hold
  parts of logs that may be long gone, and is read back from disk. The invariant
  `LogInv` therefore speaks of *pieces*, a run of entries with what precedes it:
  logs, logs on disk, and `AppendEntries` messages sent or about to be. Any two
  pieces agree (`PiecesAgree`): where they have an entry of the same term at an
  index they have the same entry, and the same before it as far as both reach.
  Every entry comes from a node that has led its term (`EntriesLed`) and a leader
  has all entries of its own term (`LeaderAhead`), so a new entry agrees with
  everything. Joining two pieces that agree at the seam (`replace_from`) and cutting
  one short give pieces that agree with all others; these facts are lemmas about
  `RaftLog`. What is too high in a match index does no harm here: a message that
  begins past the end of its sender's log holds nothing.
* `HintsFormNoCycle` (`RaftCoreLogs`), under the first hypothesis. `HintInv` says that
  there is a function which gives each node the term of its hint: the hinted node
  has sent `AppendEntries` messages in that term, and a node with a hint has it from
  a later term than any in which it sent such messages itself. So terms grow along
  hints and no chain returns. The function is not in the code, which keeps a hint
  across changes of term and forgets where it is from; this is what makes the
  acyclicity less than obvious. Messages of terms that have passed are included,
  which the run `reboot` leaves out. With a crash and a late write there are cycles.
* `UnreachableIsUnreachable`: the `unreachable!` of `handle_append_entries` is one. It is
  half of `NoPanic`.
* `MachinesAgree`, `LeadersAreComplete`, `HandlersNeverPanic`, `AcksAreReplicated`,
  `AppliedStaysApplied` and `ClusterIsAService` (`RaftCoreCommits`), under the hypotheses
  `MaxLateAppends = 0` and the three that the table names for this module, for any
  number of elections, requests and rounds, and messages lost, repeated and
  reordered at will. They share the invariant `CommitInv`: no node has panicked, and
  there is a *history* that fits the state (`Fits`). A history has for every term
  the log that its leader has built so far, how long it was at the election, and
  who elected it, and the *acknowledgements*: which node has held which entry in
  the term of the entry. None of this is in the code or in the model's state, and a
  step of the cluster extends it (`GoesOn`, `HistoryGoesOn`). An entry is *chosen* when a
  majority has acknowledged it, and *dead* when a majority is in later terms
  without having done so. Both are for ever, and exclude each other. The parts of
  `Fits` that carry the argument:
    * `LogsFit`: every entry of every log comes, with all below it, from the leader
      of its term.
    * `AcksFit`: an acknowledged entry is dead or still in the node's log, and the
      log of any candidate that the node has voted for since then ends late enough to
      have it.
    * `LeadersHave`: later leaders have every entry that is not dead, a chosen one in
      particular. A leader is elected by a majority, and if the entry is not dead one
      of these has acknowledged it.
    * `VotersFit`, `ResponsesFit`: a follower answers with the length of its whole log,
      which may have a tail of an earlier leader. Not so a follower that has voted for
      this leader: its log did not end later than the leader's, so once it agrees with
      the leader at the end of the leader's log it is a prefix of that log. Of two
      peers one has voted for the leader, and the commit index does not pass what
      both report; so what is committed is acknowledged by the leader and by this
      voter, which are two of three (`LeaderChooses`). Here the first hypothesis is
      used, and in `BooksFit`, which says that match indexes stem from answers of the
      leader's term, the second.
    * `AppendsFit`: an AppendEntries message holds a piece of the log of its leader
      (`InPlace`), or begins past its end (`Past`), where the check of `prev_log_term`
      compares nothing with nothing. A follower that accepts the latter keeps its log.
    * `CommitsFit`, `MachinesFit`, `RepliesFit`: what is committed, applied or acknowledged
      is the log below some chosen entry.

  That each action moves the cluster in one of the ways that the argument knows is
  `NextMoves`; that each such way keeps `Fits` is `FitsStep`, with a lemma for each part.
  For `ClusterIsAService` the invariant is `ServiceInv`. It adds that a command has one
  index in the history (`OnceFit`), as it is appended once, so that no machine applies
  it twice, and that who was told of success has its command in some machine
  (`OkApplied`). A step of a client thread maps to `Ask`, any other to `Execute`, which
  may execute nothing.

### Gateways

* `GatewayTypeCorrect` and `TableStaysBounded` (`ClientGatewayProofs`) are inductive nearly
  as they stand. The code's assertion that a node does not proxy to itself
  (`lib.rs:451-454`) is not among the types: it is about hints, and the case of one
  node in `HintsAcyclic`.
* `OperationsAreAnsweredOnce`, without hypotheses. `TokenInv`: an operation is in one place at
  most, a message, a thread's hands or a log (`OneToken`), and only if its client
  has asked (`Asked`); a thread has one message at a time (`OneTaken`); and the IDs
  in hand and in the table have been drawn, each once (`IdsDrawn`). A log counts
  here only by entries with a respond channel; other nodes' copies may be applied
  whatever the client was told (`aborted_applied`).
* `RefusalsAreFinal`, without hypotheses: of refusals more can be said than of
  answers in general. `RefusalInv` adds that a request which is on its way or in
  hand has been neither appended nor refused (`Undecided`), and that only what was
  asked for has (`DecidedAsked`); that it is in one place makes this inductive.
* `AnswersAreOwn`, with one leader. `HopInv` adds that only one node has led and is
  believed in (`OneLeader`), that requests proxied are for that node and entries in
  the table for clients (`OneHop`), that what is done in a client's name is its own
  operation (`ClientsOwn`), and that what is done in a proxy's name carries an ID
  which is in the proxy's table under the client of that operation, if it is there
  at all (`KeysMatch`).
* `HttpTypeCorrect` and `SelfAnswersAreOwn` (`HttpGatewayProofs`), the latter with one
  leader. Connections and the engine draw their IDs from one counter. `SelfInv`
  divides the IDs of a node into those of one connection (`ConnIds`) and those of the
  engine (`EngineIds`), and says of every response that a node sends itself that one
  of its two IDs is the engine's and the other its own connection's (`AllRouted`);
  so the lookup, which tries both, finds this connection or none. It does not hold
  of a response from another node, whose `id` is from that node's counter: this
  is `wrong_connection`.

### Persistence and JSON

* `FileMoFProofs`, for any set of files and any number of documents and crashes.
  `FileTypes`, `TargetIsNeverTorn`, `AnswersSurvive` and `FilesImplementStorage` rest
  on one inductive invariant, `FileInv`: an attempt belongs to a running process
  whose file has been created (`HandleOpen`); every file that a boot may find is
  whole and on disk (`FoundIsWhole`); the open file is not among these as long as
  something may still be written to it, be it what `BufWriter` writes when it is
  dropped (`Apart`); each system call finds what the one before has left
  (`Progress`); and what a boot may find holds what was answered
  (`AnsweredKept`). `NeverTorn` is not inductive: only `Apart` tells that the
  handle, which after a rename leads to the target, is not written through.
  The refinement maps `Rewind` to `Begin`, `Rename` to `Install`, `SyncDir` to
  `Answer`, a failure from the first write on to `Refuse`, boots and crashes to
  those of `StableStorage`, and everything else to a stutter.
* `OnlyCrashesLeaveTemps` (`FileMoFProofs`): `TempsBounded`, with `TempsInv`, which adds that
  there are finitely many files.
* `NestingIsBounded` (`JsonParserProofs`): `DepthIsNesting` for every alphabet, length of
  input and limit. The counter and the stack change at different bytes; `Good` says
  at which places of the parser a key may be in hand and where nothing may be open,
  without which leaving an array, an object or a key cannot be told apart.

### Only model-checked

* `AckIsReplicated` with crashes, in `reboot`. A history with crashes would have to
  lose acknowledgements: a leader's own entries are on disk only after its next
  handler.
* `ParsesJson` and `RoundTrips`: what recursive definitions compute is out of the
  prover's reach.
* `Recovers`, `Settles` and `ReturnedAnswerLands`: so is liveness under fairness.

## Not modelled

Timers and random deadlines; the text of HTTP requests and responses; the values
in the key-value map, on which no control depends but CAS, whose outcome is a
function of the commands before; the conversions between JSON values and Rust
types; Base64, diff, metrics, random numbers, the build helper. `components` in
`PROJECT.json` gives the reason for each.

## Plan

1. The theorems of `RaftCoreCommits` with crashes, when writes are prompt.
2. A `KeyValue` module that gives `Service` its values: read, write and CAS on a map.
3. Base64 against a reference definition.
