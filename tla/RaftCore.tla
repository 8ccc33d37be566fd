------------------------------ MODULE RaftCore -------------------------------
(***************************************************************************)
(* A cluster of miniraft nodes: the Raft state of raft/src/state.rs, driven *)
(* by the threads of Engine (raft/src/lib.rs) over an unreliable network   *)
(* and a disk.                                                             *)
(*                                                                         *)
(* One step of the model is one critical section of the state mutex, with  *)
(* two exceptions that lose nothing.  A maybe_step_down that changes       *)
(* nothing is merged with the handler that follows it.  A handler is       *)
(* merged with the persisting and sending that follow it, unless the       *)
(* thread is descheduled in between (FinishLater, Persist, FailPersist).   *)
(* In the same way a client request is checked and appended in one step,   *)
(* unless the client thread is descheduled (ClientCheck, ClientAppend).    *)
(* How often that happens in a behaviour is bounded by constants.  The     *)
(* replication that follows an append may send nothing, which leaves the   *)
(* sending to a later round of the replication loop.                       *)
(*                                                                         *)
(* Timers are not modelled: an election deadline may pass whenever the     *)
(* node is not a leader, and the rate limit of replicate_log may or may    *)
(* not suppress a replication.                                             *)
(***************************************************************************)
EXTENDS RaftLog

CONSTANTS
    Node,            \* the cluster
    Request,         \* client requests, each sent once, to some leader
    None,            \* Option::None for a node ID
    MaxElections,    \* how often a node starts an election
    MaxRounds,       \* how often the replication loop of a leader sends
    MaxStale,        \* how often a node receives a message whose term has
                     \* passed
    MaxCrashes,      \* how often nodes are killed and rebooted
    MaxLateAppends,  \* how often a client thread is descheduled between its
                     \* leadership check and its append
    MaxLatePersists  \* how often an RPC thread is descheduled between its
                     \* handler and the write to disk

\* Common::new refuses to operate without peers, and needs distinct IDs.
ASSUME NodeAssumption ==
    IsFiniteSet(Node) /\ Cardinality(Node) > 1 /\ None \notin Node

ASSUME BoundAssumption ==
    /\ MaxElections \in Nat
    /\ MaxRounds \in Nat
    /\ MaxStale \in Nat
    /\ MaxCrashes \in Nat
    /\ MaxLateAppends \in Nat
    /\ MaxLatePersists \in Nat

VARIABLES
    current_term,  \* Common::current_term
    r,             \* State::r, the enum Role
    log,           \* Common::log
    commit_index,  \* Common::commit_index
    machine,       \* commands applied since boot; Common::last_applied is
                   \* its length
    rpc,           \* the raft-handle-incoming-raft-messages thread
    pending,       \* request a client thread has checked but not appended
    callbacks,     \* requests whose log entry here has a respond channel
    replies,       \* replies sent to clients by apply or dismiss
    issued,        \* requests that clients have sent
    events,        \* how many of the bounded events have happened
    msgs,          \* every Raft message ever put on the network; a message
                   \* may be received late, out of order, again, or never
    disk           \* the Persistent that a reboot would restore

vars == <<current_term, r, log, commit_index, machine, rpc, pending, callbacks,
          replies, issued, events, msgs, disk>>

clientVars == <<pending, callbacks, replies, issued>>
-----------------------------------------------------------------------------
(***************************************************************************)
(* Messages (rpc.rs, enum RaftMessage) with their envelope.  Index and     *)
(* term fields are 0 for None.                                             *)
(***************************************************************************)
Entry == [term : Nat, cmd : Request]

Message ==
    [type : {"RequestVote"}, src : Node, dst : Node, term : Nat,
     last_log_index : Nat, last_log_term : Nat]
    \cup
    [type : {"RequestVoteResponse"}, src : Node, dst : Node, term : Nat,
     vote_granted : BOOLEAN]
    \cup
    [type : {"AppendEntries"}, src : Node, dst : Node, term : Nat,
     prev_log_index : Nat, prev_log_term : Nat, entries : Seq(Entry),
     commit_index : Nat]
    \cup
    [type : {"AppendEntriesResponse"}, src : Node, dst : Node, term : Nat,
     index : Nat, success : BOOLEAN]

(***************************************************************************)
(* The enum Role.  last_replication only feeds the rate limit.             *)
(***************************************************************************)
Follower(leader, voted_for) ==
    [kind |-> "Follower", leader |-> leader, voted_for |-> voted_for]

Candidate(votes) == [kind |-> "Candidate", votes |-> votes]

Leader(next_indexes, match_indexes) ==
    [kind |-> "Leader", next_indexes |-> next_indexes,
     match_indexes |-> match_indexes]

Role(n) ==
    [kind : {"Follower"}, leader : Node \cup {None},
     voted_for : Node \cup {None}]
    \cup
    [kind : {"Candidate"}, votes : SUBSET Node]
    \cup
    [kind : {"Leader"}, next_indexes : [Node \ {n} -> Nat \ {0}],
     match_indexes : [Node \ {n} -> Nat]]

Peers(n) == Node \ {n}

is_leader(n) == r[n].kind = "Leader"

(***************************************************************************)
(* The state a node writes to disk (Persistent::from): a candidate or      *)
(* leader has voted for itself.                                            *)
(***************************************************************************)
\* Mutant: only the vote of a follower is written.
PersistentNoSelfVote(n) ==
    [current_term |-> current_term[n],
     voted_for |-> IF r[n].kind = "Follower" THEN r[n].voted_for ELSE None,
     log |-> log[n]]

Persistent(n) ==
    [current_term |-> current_term[n],
     voted_for |-> IF r[n].kind = "Follower" THEN r[n].voted_for ELSE n,
     log |-> log[n]]

(***************************************************************************)
(* The RPC thread is idle; has stepped down for a message it is about to   *)
(* handle ("stepped", work is that message); has handled a message and not *)
(* yet persisted ("handled", work is the responses); or has panicked while *)
(* holding the mutex, which poisons it: every other thread of the node     *)
(* then panics at its next lock().expect("no poison").                     *)
(***************************************************************************)
Idle == [phase |-> "idle", work |-> {}]

Up(n) == rpc[n].phase # "panicked"

Panic(n) == rpc' = [rpc EXCEPT ![n] = [phase |-> "panicked", work |-> {}]]
-----------------------------------------------------------------------------
Init ==
    /\ msgs = {}
    /\ current_term = [n \in Node |-> 0]
    /\ log = [n \in Node |-> <<>>]
    /\ commit_index = [n \in Node |-> 0]
    /\ machine = [n \in Node |-> <<>>]
    /\ r = [n \in Node |-> Follower(None, None)]
    /\ disk = [n \in Node |->
                 [current_term |-> 0, voted_for |-> None, log |-> <<>>]]
    /\ rpc = [n \in Node |-> Idle]
    /\ pending = [n \in Node |-> {}]
    /\ callbacks = [n \in Node |-> {}]
    /\ replies = {}
    /\ issued = {}
    /\ events = [elections |-> 0, rounds |-> 0, stale |-> 0, crashes |-> 0,
                 late_appends |-> 0, late_persists |-> 0]
-----------------------------------------------------------------------------
(***************************************************************************)
(* Election timeout (election_loop, maybe_begin_election,                  *)
(* become_candidate, request_votes).  The votes are requested at once:     *)
(* this thread never writes to disk.                                       *)
(***************************************************************************)
RequestVotes(n, term) ==
    {[type |-> "RequestVote", src |-> n, dst |-> p, term |-> term,
      last_log_index |-> HighestIndex(log[n]),
      last_log_term |-> LastTerm(log[n])] : p \in Peers(n)}

BecomeCandidate(n) ==
    /\ Up(n)
    /\ ~ is_leader(n)
    /\ events.elections < MaxElections
    /\ events' = [events EXCEPT !.elections = @ + 1]
    /\ current_term' = [current_term EXCEPT ![n] = @ + 1]
    /\ r' = [r EXCEPT ![n] = Candidate({n})]
    /\ msgs' = msgs \cup RequestVotes(n, current_term[n] + 1)
    /\ UNCHANGED <<log, commit_index, machine, disk, rpc>>
    /\ UNCHANGED clientVars
-----------------------------------------------------------------------------
(***************************************************************************)
(* Log replication (replicate_log).  A peer gets the entries from its next *)
(* index on; without entries it gets a message only as a heartbeat.        *)
(***************************************************************************)
AppendEntriesTo(n, lg, p, next) ==
    [type |-> "AppendEntries", src |-> n, dst |-> p,
     term |-> current_term[n],
     prev_log_index |-> next - 1,
     prev_log_term |-> TermAt(lg, next - 1),
     entries |-> GetFrom(lg, next),
     commit_index |-> commit_index[n]]

replicate_log(n, lg, next_indexes, heartbeat_needed) ==
    {AppendEntriesTo(n, lg, p, next_indexes[p]) :
        p \in {q \in Peers(n) :
                 heartbeat_needed \/ GetFrom(lg, next_indexes[q]) # <<>>}}

\* The same call when the rate limit may suppress it: the sets of messages
\* that it may return.
Replications(n, lg, next_indexes) ==
    {{}, replicate_log(n, lg, next_indexes, FALSE),
         replicate_log(n, lg, next_indexes, TRUE)}

\* One round of log_replication_loop.
ReplicateLog(n) ==
    /\ Up(n)
    /\ is_leader(n)
    /\ events.rounds < MaxRounds
    /\ events' = [events EXCEPT !.rounds = @ + 1]
    /\ \E heartbeat_needed \in BOOLEAN :
         msgs' = msgs \cup
                   replicate_log(n, log[n], r[n].next_indexes,
                                 heartbeat_needed)
    /\ UNCHANGED <<current_term, log, commit_index, machine, r, disk, rpc>>
    /\ UNCHANGED clientVars
-----------------------------------------------------------------------------
(***************************************************************************)
(* Applying committed entries (advance_state_machine and apply).  Applying *)
(* an entry whose command still has its respond channel answers the        *)
(* client; the entry keeps the channel, because a clone is applied.        *)
(***************************************************************************)
Applied(n, lg, commit) ==
    machine[n] \o [i \in 1..(commit - Len(machine[n])) |->
                     lg[Len(machine[n]) + i].cmd]

OkReplies(n, lg, commit, channels) ==
    {[cmd |-> lg[i].cmd, kind |-> "ok"] :
        i \in {j \in (Len(machine[n]) + 1)..commit :
                 lg[j].cmd \in channels}}
-----------------------------------------------------------------------------
(***************************************************************************)
(* The RPC thread (incoming_raft_rpcs_loop).  It first steps down if the   *)
(* message is from a later term (maybe_step_down, become_follower): a node *)
(* that is a follower already keeps its leader and its vote.               *)
(***************************************************************************)
become_follower(n, voted_for) ==
    IF r[n].kind = "Follower" THEN r[n] ELSE Follower(None, voted_for)

MaybeStepDown(n, m) ==
    /\ m.dst = n
    /\ rpc[n].phase = "idle"
    /\ m.term > current_term[n]
    /\ current_term' = [current_term EXCEPT ![n] = m.term]
    /\ r' = [r EXCEPT ![n] = become_follower(n, None)]
    /\ rpc' = [rpc EXCEPT ![n] = [phase |-> "stepped", work |-> {m}]]
    /\ UNCHANGED <<msgs, log, commit_index, machine, disk, events>>
    /\ UNCHANGED clientVars

Stale(n, m) == rpc[n].phase = "idle" /\ m.term < current_term[n]

\* The thread is about to call the handler for m.
Handling(n, m, type) ==
    /\ m.dst = n
    /\ m.type = type
    /\ \/ /\ rpc[n].phase = "idle"
          /\ m.term <= current_term[n]
          /\ Stale(n, m) => events.stale < MaxStale
       \/ rpc[n].phase = "stepped" /\ m \in rpc[n].work

(***************************************************************************)
(* After the handler the thread writes the node's state to disk and only   *)
(* then sends the handler's responses.  In between it does not hold the    *)
(* mutex.  When the write fails the responses are dropped; the file may    *)
(* have been replaced nevertheless (rename done, syncing it failed).       *)
(***************************************************************************)
Received(n, m) ==
    [events EXCEPT !.stale = IF Stale(n, m) THEN @ + 1 ELSE @]

\* Mutant: nothing is written.
FinishUnwritten(n, m, responses) ==
    /\ msgs' = msgs \cup responses
    /\ rpc' = [rpc EXCEPT ![n] = Idle]
    /\ events' = Received(n, m)
    /\ UNCHANGED disk

FinishNow(n, m, responses) ==
    /\ disk' = [disk EXCEPT ![n] = Persistent(n)']
    /\ msgs' = msgs \cup responses
    /\ rpc' = [rpc EXCEPT ![n] = Idle]
    /\ events' = Received(n, m)

FinishLater(n, m, responses) ==
    /\ events.late_persists < MaxLatePersists
    /\ events' = [Received(n, m) EXCEPT !.late_persists = @ + 1]
    /\ rpc' = [rpc EXCEPT ![n] = [phase |-> "handled", work |-> responses]]
    /\ UNCHANGED <<disk, msgs>>

Finish(n, m, responses) ==
    FinishNow(n, m, responses) \/ FinishLater(n, m, responses)

Persist(n) ==
    /\ rpc[n].phase = "handled"
    /\ disk' = [disk EXCEPT ![n] = Persistent(n)]
    /\ msgs' = msgs \cup rpc[n].work
    /\ rpc' = [rpc EXCEPT ![n] = Idle]
    /\ UNCHANGED <<current_term, log, commit_index, machine, r, events>>
    /\ UNCHANGED clientVars

\* Mutant: the responses are sent although the write failed.
FailPersistResponding(n) ==
    /\ rpc[n].phase = "handled"
    /\ disk' \in {disk, [disk EXCEPT ![n] = Persistent(n)]}
    /\ msgs' = msgs \cup rpc[n].work
    /\ rpc' = [rpc EXCEPT ![n] = Idle]
    /\ UNCHANGED <<current_term, log, commit_index, machine, r, events>>
    /\ UNCHANGED clientVars

FailPersist(n) ==
    /\ rpc[n].phase = "handled"
    /\ disk' \in {disk, [disk EXCEPT ![n] = Persistent(n)]}
    /\ rpc' = [rpc EXCEPT ![n] = Idle]
    /\ UNCHANGED <<msgs, current_term, log, commit_index, machine, r, events>>
    /\ UNCHANGED clientVars
-----------------------------------------------------------------------------
(***************************************************************************)
(* handle_vote_request: only a follower may grant its vote.                *)
(***************************************************************************)
\* Mutant: a vote given to someone else is no obstacle.
GrantsVoteAgain(n, m) ==
    /\ r[n].kind = "Follower"
    /\ m.term >= current_term[n]
    /\ UpToDate(m.last_log_term, m.last_log_index, log[n])

GrantsVote(n, m) ==
    /\ r[n].kind = "Follower"
    /\ m.term >= current_term[n]
    /\ r[n].voted_for \in {None, m.src}
    /\ UpToDate(m.last_log_term, m.last_log_index, log[n])

RequestVoteResponse(n, m, vote_granted) ==
    [type |-> "RequestVoteResponse", src |-> n, dst |-> m.src,
     term |-> current_term[n], vote_granted |-> vote_granted]

HandleVoteRequest(n, m) ==
    /\ Handling(n, m, "RequestVote")
    /\ r' = [r EXCEPT ![n] = IF GrantsVote(n, m)
                             THEN [@ EXCEPT !.voted_for = m.src] ELSE @]
    /\ UNCHANGED <<current_term, log, commit_index, machine>>
    /\ UNCHANGED clientVars
    /\ Finish(n, m, {RequestVoteResponse(n, m, GrantsVote(n, m))})

(***************************************************************************)
(* handle_vote_response: a vote for the current candidacy is counted, and  *)
(* a majority makes the node a leader (become_leader), which sends the     *)
(* initial heartbeats.  Any other response is ignored.                     *)
(***************************************************************************)
CountsVote(n, m) ==
    m.vote_granted /\ r[n].kind = "Candidate" /\ m.term = current_term[n]

\* Mutant: a leader tracks itself too.
InitialNextWithSelf(n) == [p \in Node |-> HighestIndex(log[n]) + 1]

InitialNext(n) == [p \in Peers(n) |-> HighestIndex(log[n]) + 1]

NewLeader(n) == Leader(InitialNext(n), [p \in Peers(n) |-> 0])

CountVote(n, m) ==
    LET votes == r[n].votes \cup {m.src}
        won == WonElection(Cardinality(votes), Cardinality(Node))
    IN  /\ CountsVote(n, m)
        /\ r' = [r EXCEPT ![n] = IF won THEN NewLeader(n)
                                        ELSE Candidate(votes)]
        /\ UNCHANGED <<current_term, log, commit_index, machine>>
        /\ UNCHANGED clientVars
        /\ Finish(n, m,
                  IF won THEN replicate_log(n, log[n], InitialNext(n), TRUE)
                         ELSE {})

IgnoreVote(n, m) ==
    /\ ~ CountsVote(n, m)
    /\ UNCHANGED <<current_term, log, commit_index, machine, r>>
    /\ UNCHANGED clientVars
    /\ Finish(n, m, {})

HandleVoteResponse(n, m) ==
    /\ Handling(n, m, "RequestVoteResponse")
    /\ CountVote(n, m) \/ IgnoreVote(n, m)
-----------------------------------------------------------------------------
(***************************************************************************)
(* handle_append_entries.  The index reported back is that of the last     *)
(* entry of the whole log, also when the log keeps a tail that the leader  *)
(* did not mention.                                                        *)
(***************************************************************************)
AppendEntriesResponse(n, m, lg, success) ==
    [type |-> "AppendEntriesResponse", src |-> n, dst |-> m.src,
     term |-> current_term[n], index |-> HighestIndex(lg),
     success |-> success]

\* A candidate gives up, having voted for itself in this term; the sender
\* is the leader as far as this node knows.
RecognizeLeader(n, m) ==
    [become_follower(n, n) EXCEPT !.leader = m.src]

StaleAppend(n, m) ==
    /\ m.term < current_term[n]
    /\ UNCHANGED <<current_term, log, commit_index, machine, r>>
    /\ UNCHANGED clientVars
    /\ Finish(n, m, {AppendEntriesResponse(n, m, log[n], FALSE)})

\* unreachable!: a leader of the same term is talking to this leader.
SecondLeader(n, m) ==
    /\ m.term = current_term[n]
    /\ is_leader(n)
    /\ Panic(n)
    /\ UNCHANGED <<msgs, current_term, log, commit_index, machine, r, disk,
                   events>>
    /\ UNCHANGED clientVars

PrevMatches(n, m) ==
    TermAt(log[n], m.prev_log_index) = m.prev_log_term

RejectAppend(n, m) ==
    /\ m.term = current_term[n]
    /\ ~ is_leader(n)
    /\ ~ PrevMatches(n, m)
    /\ r' = [r EXCEPT ![n] = RecognizeLeader(n, m)]
    /\ UNCHANGED <<current_term, log, commit_index, machine>>
    /\ UNCHANGED clientVars
    /\ Finish(n, m, {AppendEntriesResponse(n, m, log[n], FALSE)})

\* replace_from dismisses the entries it drains: their clients, if known
\* here, are told that the command was aborted.
Aborted(n, m) ==
    Dismissed(log[n], m.prev_log_index + 1, m.entries) \cap callbacks[n]

AbortReplies(n, m) == {[cmd |-> c, kind |-> "abort"] : c \in Aborted(n, m)}

\* The commit index after the append, and the assertion that guards
\* advance_state_machine.
FollowerCommit(n, m, lg) ==
    IF m.commit_index > commit_index[n]
    THEN IF m.commit_index < HighestIndex(lg)
         THEN m.commit_index ELSE HighestIndex(lg)
    ELSE commit_index[n]

Overtaken(n, m, lg) ==
    /\ m.commit_index > commit_index[n]
    /\ Len(machine[n]) > FollowerCommit(n, m, lg)

AcceptAppend(n, m) ==
    LET lg == ReplaceFrom(log[n], m.prev_log_index + 1, m.entries)
        commit == FollowerCommit(n, m, lg)
    IN  /\ m.term = current_term[n]
        /\ ~ is_leader(n)
        /\ PrevMatches(n, m)
        /\ r' = [r EXCEPT ![n] = RecognizeLeader(n, m)]
        /\ log' = [log EXCEPT ![n] = lg]
        /\ commit_index' = [commit_index EXCEPT ![n] = commit]
        /\ callbacks' = [callbacks EXCEPT ![n] = @ \ Aborted(n, m)]
        /\ UNCHANGED <<current_term, pending, issued>>
        /\ IF Overtaken(n, m, lg)
           THEN /\ replies' = replies \cup AbortReplies(n, m)
                /\ Panic(n)
                /\ UNCHANGED <<msgs, machine, disk, events>>
           ELSE /\ machine' = [machine EXCEPT ![n] = Applied(n, lg, commit)]
                /\ replies' = replies \cup AbortReplies(n, m)
                                      \cup OkReplies(n, lg, commit,
                                                     callbacks[n] \ Aborted(n, m))
                /\ Finish(n, m, {AppendEntriesResponse(n, m, lg, TRUE)})

HandleAppendEntries(n, m) ==
    /\ Handling(n, m, "AppendEntries")
    /\ \/ StaleAppend(n, m)
       \/ SecondLeader(n, m)
       \/ RejectAppend(n, m)
       \/ AcceptAppend(n, m)
-----------------------------------------------------------------------------
(***************************************************************************)
(* handle_append_entries_response.  The term of the response is not looked *)
(* at: whoever is a leader now takes it as an answer to its own messages.  *)
(* A failure decrements the peer's next index and replicates again.        *)
(***************************************************************************)
DecFloored(next) == IF next > 1 THEN next - 1 ELSE 1

RetryAppend(n, m) ==
    LET next == [r[n].next_indexes EXCEPT ![m.src] = DecFloored(@)]
    IN  /\ is_leader(n)
        /\ ~ m.success
        /\ r' = [r EXCEPT ![n] = Leader(next, r[n].match_indexes)]
        /\ UNCHANGED <<current_term, log, commit_index, machine>>
        /\ UNCHANGED clientVars
        /\ \E sent \in Replications(n, log[n], next) : Finish(n, m, sent)

(***************************************************************************)
(* advance_commit_index: with a match index from every peer, their lower   *)
(* median, if the leader has an entry of its own term there.               *)
(***************************************************************************)
LeaderCommit(n, match) ==
    IF \E p \in Peers(n) : match[p] = 0
    THEN commit_index[n]
    ELSE LET median == LowerMedian(match)
         IN  IF /\ TermAt(log[n], median) = current_term[n]
                /\ median > commit_index[n]
             THEN median
             ELSE commit_index[n]

AdvanceMatch(n, m) ==
    LET next == [r[n].next_indexes EXCEPT ![m.src] = m.index + 1]
        match == [r[n].match_indexes EXCEPT ![m.src] = m.index]
        commit == LeaderCommit(n, match)
    IN  /\ is_leader(n)
        /\ m.success
        /\ m.index > 0
        /\ r' = [r EXCEPT ![n] = Leader(next, match)]
        /\ commit_index' = [commit_index EXCEPT ![n] = commit]
        /\ machine' = [machine EXCEPT ![n] = Applied(n, log[n], commit)]
        /\ replies' = replies \cup OkReplies(n, log[n], commit, callbacks[n])
        /\ UNCHANGED <<current_term, log, pending, callbacks, issued>>
        /\ Finish(n, m, {})

IgnoreAppendResponse(n, m) ==
    /\ ~ is_leader(n) \/ (m.success /\ m.index = 0)
    /\ UNCHANGED <<current_term, log, commit_index, machine, r>>
    /\ UNCHANGED clientVars
    /\ Finish(n, m, {})

HandleAppendEntriesResponse(n, m) ==
    /\ Handling(n, m, "AppendEntriesResponse")
    /\ \/ RetryAppend(n, m)
       \/ AdvanceMatch(n, m)
       \/ IgnoreAppendResponse(n, m)
-----------------------------------------------------------------------------
(***************************************************************************)
(* A client request at a node that is the leader when the client thread    *)
(* checks (incoming_client_rpcs_loop): append, then replicate.  The append *)
(* does not check again: the entry goes into the log of whatever the node  *)
(* is by then, with whatever term it is in by then.                        *)
(***************************************************************************)
append(n, c) == Append(log[n], [term |-> current_term[n], cmd |-> c])

AppendAndReplicate(n, c) ==
    /\ log' = [log EXCEPT ![n] = append(n, c)]
    /\ callbacks' = [callbacks EXCEPT ![n] = @ \cup {c}]
    /\ IF is_leader(n)
       THEN \E sent \in Replications(n, append(n, c), r[n].next_indexes) :
              msgs' = msgs \cup sent
       ELSE UNCHANGED msgs

ClientRequest(n, c) ==
    /\ Up(n)
    /\ is_leader(n)
    /\ pending[n] = {}
    /\ c \notin issued
    /\ issued' = issued \cup {c}
    /\ UNCHANGED <<current_term, commit_index, machine, r, disk, rpc, pending,
                   replies, events>>
    /\ AppendAndReplicate(n, c)

ClientCheck(n, c) ==
    /\ Up(n)
    /\ is_leader(n)
    /\ pending[n] = {}
    /\ c \notin issued
    /\ events.late_appends < MaxLateAppends
    /\ events' = [events EXCEPT !.late_appends = @ + 1]
    /\ issued' = issued \cup {c}
    /\ pending' = [pending EXCEPT ![n] = {c}]
    /\ UNCHANGED <<msgs, current_term, log, commit_index, machine, r, disk, rpc,
                   callbacks, replies>>

ClientAppend(n, c) ==
    /\ Up(n)
    /\ c \in pending[n]
    /\ pending' = [pending EXCEPT ![n] = {}]
    /\ UNCHANGED <<current_term, commit_index, machine, r, disk, rpc, replies,
                   issued, events>>
    /\ AppendAndReplicate(n, c)
-----------------------------------------------------------------------------
(***************************************************************************)
(* The process is killed (the time bomb of supervisor.rs, or after a       *)
(* panic) and started again by its supervisor: State::new and              *)
(* Engine::new rebuild the node from what is on disk.                      *)
(***************************************************************************)
\* Mutant: the vote on disk is not restored.
CrashForgettingVote(n) ==
    /\ events.crashes < MaxCrashes
    /\ events' = [events EXCEPT !.crashes = @ + 1]
    /\ current_term' = [current_term EXCEPT ![n] = disk[n].current_term]
    /\ log' = [log EXCEPT ![n] = disk[n].log]
    /\ r' = [r EXCEPT ![n] = Follower(None, None)]
    /\ commit_index' = [commit_index EXCEPT ![n] = 0]
    /\ machine' = [machine EXCEPT ![n] = <<>>]
    /\ rpc' = [rpc EXCEPT ![n] = Idle]
    /\ pending' = [pending EXCEPT ![n] = {}]
    /\ callbacks' = [callbacks EXCEPT ![n] = {}]
    /\ UNCHANGED <<msgs, disk, replies, issued>>

\* Mutant: whom the node voted for is taken for its leader.
CrashTrustingVote(n) ==
    /\ events.crashes < MaxCrashes
    /\ events' = [events EXCEPT !.crashes = @ + 1]
    /\ current_term' = [current_term EXCEPT ![n] = disk[n].current_term]
    /\ log' = [log EXCEPT ![n] = disk[n].log]
    /\ r' = [r EXCEPT ![n] = Follower(disk[n].voted_for, disk[n].voted_for)]
    /\ commit_index' = [commit_index EXCEPT ![n] = 0]
    /\ machine' = [machine EXCEPT ![n] = <<>>]
    /\ rpc' = [rpc EXCEPT ![n] = Idle]
    /\ pending' = [pending EXCEPT ![n] = {}]
    /\ callbacks' = [callbacks EXCEPT ![n] = {}]
    /\ UNCHANGED <<msgs, disk, replies, issued>>

Crash(n) ==
    /\ events.crashes < MaxCrashes
    /\ events' = [events EXCEPT !.crashes = @ + 1]
    /\ current_term' = [current_term EXCEPT ![n] = disk[n].current_term]
    /\ log' = [log EXCEPT ![n] = disk[n].log]
    /\ r' = [r EXCEPT ![n] = Follower(None, disk[n].voted_for)]
    /\ commit_index' = [commit_index EXCEPT ![n] = 0]
    /\ machine' = [machine EXCEPT ![n] = <<>>]
    /\ rpc' = [rpc EXCEPT ![n] = Idle]
    /\ pending' = [pending EXCEPT ![n] = {}]
    /\ callbacks' = [callbacks EXCEPT ![n] = {}]
    /\ UNCHANGED <<msgs, disk, replies, issued>>
-----------------------------------------------------------------------------
Receive(n, m) ==
    /\ m.dst = n
    /\ \/ MaybeStepDown(n, m)
       \/ HandleVoteRequest(n, m)
       \/ HandleVoteResponse(n, m)
       \/ HandleAppendEntries(n, m)
       \/ HandleAppendEntriesResponse(n, m)

Next ==
    \E n \in Node :
        \/ BecomeCandidate(n)
        \/ ReplicateLog(n)
        \/ \E m \in msgs : Receive(n, m)
        \/ Persist(n)
        \/ FailPersist(n)
        \/ \E c \in Request : ClientRequest(n, c)
                            \/ ClientCheck(n, c)
                            \/ ClientAppend(n, c)
        \/ Crash(n)

Spec == Init /\ [][Next]_vars
-----------------------------------------------------------------------------
(***************************************************************************)
(* Properties.                                                             *)
(***************************************************************************)

\* Every variable has its type.
TypeOK ==
    /\ msgs \subseteq Message
    /\ current_term \in [Node -> Nat]
    /\ log \in [Node -> Seq(Entry)]
    /\ commit_index \in [Node -> Nat]
    /\ machine \in [Node -> Seq(Request)]
    /\ r = [n \in Node |-> r[n]]
    /\ \A n \in Node : r[n] \in Role(n)
    /\ disk \in [Node -> [current_term : Nat, voted_for : Node \cup {None},
                          log : Seq(Entry)]]
    /\ rpc \in [Node ->
                  [phase : {"idle", "stepped", "handled", "panicked"},
                   work : SUBSET Message]]
    /\ pending \in [Node -> SUBSET Request]
    /\ callbacks \in [Node -> SUBSET Request]
    /\ replies \subseteq [cmd : Request, kind : {"ok", "abort"}]
    /\ issued \subseteq Request
    /\ events \in [elections : Nat, rounds : Nat, stale : Nat, crashes : Nat,
                   late_appends : Nat, late_persists : Nat]

Terms == {m.term : m \in msgs}

\* n leads term t, now or as far as any message shows.
LeaderOf(n, t) ==
    \/ is_leader(n) /\ current_term[n] = t
    \/ \E m \in msgs : m.type = "AppendEntries" /\ m.src = n /\ m.term = t

\* At most one node ever acts as leader in a term (the invariant that the
\* unreachable! in handle_append_entries relies on).
ElectionSafety ==
    \A n1, n2 \in Node : \A t \in Terms :
        LeaderOf(n1, t) /\ LeaderOf(n2, t) => n1 = n2

\* No handler panics while it holds the state mutex: neither the
\* unreachable! of handle_append_entries (two leaders) nor the assertion of
\* advance_state_machine (last_applied overtaking commit_index).
NoPanic == \A n \in Node : Up(n)

\* Two logs that agree on the term of an entry agree on everything up to
\* it: what the consistency check of handle_append_entries is to ensure.
LogMatching ==
    \A n1, n2 \in Node :
        \A i \in 1..HighestIndex(log[n1]) :
            TermAt(log[n2], i) = log[n1][i].term =>
                SubSeq(log[n1], 1, i) = SubSeq(log[n2], 1, i)

\* The nodes apply the same commands in the same order: of two machines fed
\* by advance_state_machine, one is a prefix of the other.
StateMachineSafety ==
    \A n1, n2 \in Node :
        Len(machine[n1]) <= Len(machine[n2]) =>
            machine[n1] = SubSeq(machine[n2], 1, Len(machine[n1]))

\* A leader has every entry that a node not ahead of its term has applied:
\* what the log comparison of handle_vote_request and the term check of
\* advance_commit_index are for.
LeaderCompleteness ==
    \A n, p \in Node :
        is_leader(n) /\ current_term[p] <= current_term[n] =>
            /\ Len(machine[p]) <= HighestIndex(log[n])
            /\ \A i \in 1..Len(machine[p]) : log[n][i].cmd = machine[p][i]

\* A command whose client was told by apply that it succeeded is, then and
\* later, in the logs of a majority: "implying replication is reached and
\* responding is safe" (incoming_client_rpcs_loop).
AckIsReplicated ==
    \A c \in Request :
        [cmd |-> c, kind |-> "ok"] \in replies =>
            WonElection(Cardinality({n \in Node :
                          \E i \in 1..Len(log[n]) : log[n][i].cmd = c}),
                        Cardinality(Node))

\* A command whose client was told by dismiss, when replace_from dropped its
\* entry, that it was aborted is applied by no node, before or after:
\* "dropping a command from the log implies it will never get applied".
AbortIsFinal ==
    \A c \in Request :
        [cmd |-> c, kind |-> "abort"] \in replies =>
            \A n \in Node : \A i \in 1..Len(machine[n]) : machine[n][i] # c

\* current_leader: where a node that is not the leader proxies a request to.
Hint(n) == IF r[n].kind = "Follower" THEN r[n].leader ELSE None

\* A request that every follower proxies to the leader it believes in
\* (the leader field that handle_append_entries sets) never comes back to a
\* node it has been at.
HintsAcyclic ==
    ~ \E S \in SUBSET Node : S # {} /\ \A n \in S : Hint(n) \in S

Granted(v, c, t) ==
    \E m \in msgs : /\ m.type = "RequestVoteResponse" /\ m.vote_granted
                    /\ m.src = v /\ m.dst = c /\ m.term = t

\* What a node has said in a response is on its disk (incoming_raft_rpcs_loop
\* persists, then responds): the term, and a vote that it granted in it.
ResponseDurable ==
    /\ \A m \in msgs :
         m.type \in {"RequestVoteResponse", "AppendEntriesResponse"} =>
             disk[m.src].current_term >= m.term
    /\ \A v, c \in Node : \A t \in Terms :
         Granted(v, c, t) => \/ disk[v].current_term > t
                            \/ disk[v].voted_for = c

\* A node grants its vote to one candidate per term, also across crashes:
\* what voted_for is kept and persisted for.
OneVotePerTerm ==
    \A v, c1, c2 \in Node : \A t \in Terms :
        Granted(v, c1, t) /\ Granted(v, c2, t) => c1 = c2

\* What a node has applied stays applied and stays in its log until it
\* crashes: replace_from never drains an entry that was applied.
AppliedIsStable ==
    [][\A n \in Node :
          \/ events'.crashes > events.crashes
          \/ /\ Len(machine[n]) <= Len(machine'[n])
             /\ machine[n] = SubSeq(machine'[n], 1, Len(machine[n]))
             /\ \A i \in 1..Len(machine[n]) :
                  i <= Len(log'[n]) /\ log'[n][i].cmd = machine[n][i]]_vars
-----------------------------------------------------------------------------
(***************************************************************************)
(* To its clients the cluster is one machine.                              *)
(***************************************************************************)

\* The commands that the cluster has executed: those of the node that has
\* applied most.
Executed ==
    machine[CHOOSE n \in Node : \A p \in Node : Len(machine[p]) <= Len(machine[n])]

TheService ==
    INSTANCE Service WITH
        asked <- issued,
        executed <- Executed,
        answered <- {c \in Request : [cmd |-> c, kind |-> "ok"] \in replies}

\* Whatever elections, losses and delays, commands take effect once, in one
\* order that only grows at its end, before their clients hear of success
\* (advance_state_machine and apply on every node together, see Service).
ImplementsService == TheService!Spec
==============================================================================
