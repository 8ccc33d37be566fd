-------------------------- MODULE RaftCoreElections --------------------------
(***************************************************************************)
(* First, votes survive crashes: what a node has said in a response is on  *)
(* its disk, and a node never votes twice in a term.  For every cluster,   *)
(* every number of crashes and any delay between a handler and the write   *)
(* to disk.                                                                *)
(*                                                                         *)
(* The argument.  A response is a promise of its sender: to stay at its    *)
(* term or a later one and, if it grants a vote, to keep that vote while   *)
(* in that term.  Memory keeps a promise from the moment a handler makes   *)
(* it; the disk keeps it once the response is on the network; and memory   *)
(* is never behind the disk.  So a reboot restores every promise that      *)
(* anyone can have seen.  A vote is granted in the current term, by a node *)
(* whose vote in memory is nobody's or the candidate's: earlier promises   *)
(* of the same term went to the same candidate.                            *)
(*                                                                         *)
(* Then, at most one leader per term, for every cluster, under a condition *)
(* that the code does not establish: that no process crashes, or that      *)
(* nothing comes between a handler and the write to disk.  (With both, two *)
(* nodes may lead one term; see the run two_leaders.)                      *)
(*                                                                         *)
(* The argument.  Whoever leads a term has won it: a majority, itself      *)
(* included, has granted it votes that are on the network.  Two majorities *)
(* share a node.  It has not granted both, so it is one of the two leaders *)
(* and has granted its vote to the other; but who leads a term has voted   *)
(* for itself, in memory and, if writes are prompt, also on disk before it *)
(* speaks as a leader.                                                     *)
(***************************************************************************)
EXTENDS RaftCoreTypes

IsResponse(x) == x.type \in {"RequestVoteResponse", "AppendEntriesResponse"}

IsGrant(x) == x.type = "RequestVoteResponse" /\ x.vote_granted

\* The vote of a node, as it would be written to disk now.
Vote(n) == IF r[n].kind = "Follower" THEN r[n].voted_for ELSE n

KeptInMemory(x) ==
    /\ IsResponse(x) => x.term <= current_term[x.src]
    /\ IsGrant(x) => x.term < current_term[x.src] \/ Vote(x.src) = x.dst

KeptOnDisk(x) ==
    /\ IsResponse(x) => x.term <= disk[x.src].current_term
    /\ IsGrant(x) => \/ x.term < disk[x.src].current_term
                     \/ disk[x.src].voted_for = x.dst

\* The responses that are sent or about to be sent.
Outbox(n) == IF rpc[n].phase = "handled" THEN rpc[n].work ELSE {}

Said == msgs \cup UNION {Outbox(n) : n \in Node}

DiskBehind ==
    \A n \in Node :
        \/ disk[n].current_term < current_term[n]
        \/ /\ disk[n].current_term = current_term[n]
           /\ disk[n].voted_for \in {None, Vote(n)}

OwnOutbox == \A n \in Node : \A x \in Outbox(n) : x.src = n

MemoryKeeps == \A x \in Said : KeptInMemory(x)

DiskKeeps == \A x \in msgs : KeptOnDisk(x)

OneVote ==
    \A x, y \in Said :
        IsGrant(x) /\ IsGrant(y) /\ x.src = y.src /\ x.term = y.term
            => x.dst = y.dst

VoteInv == DiskBehind /\ OwnOutbox /\ MemoryKeeps /\ DiskKeeps /\ OneVote
-----------------------------------------------------------------------------
(***************************************************************************)
(* Steps other than a crash move memory forward: to a later term, or       *)
(* within the term without taking back a vote.  The disk is left alone or  *)
(* receives what memory holds at the end of the step.                      *)
(***************************************************************************)
MemoryForward ==
    \A p \in Node :
        \/ current_term'[p] > current_term[p]
        \/ /\ current_term'[p] = current_term[p]
           /\ Vote(p) \in {None, Vote(p)'}

DiskForward ==
    \A p \in Node : disk'[p] = disk[p] \/ disk'[p] = Persistent(p)'

\* What a node may promise in a step: only to stay in the term it is in, and
\* only a vote that it has not given to someone else.
Promise(x) ==
    /\ KeptInMemory(x)'
    /\ IsGrant(x) => /\ x.term = current_term[x.src]
                     /\ Vote(x.src) \in {None, x.dst}

\* What is said stems from messages of nodes.
LEMMA SaidType ==
    ASSUME TypeOK
    PROVE  Said \subseteq Message
  BY NodeType DEF Said, Outbox, TypeOK, RpcState

\* The parts of Persistent::from.
LEMMA PersistentParts ==
    ASSUME NEW n \in Node
    PROVE  /\ Persistent(n).current_term = current_term[n]
           /\ Persistent(n).voted_for = Vote(n)
           /\ Persistent(n)'.current_term = current_term'[n]
           /\ Persistent(n)'.voted_for = Vote(n)'
  BY DEF Persistent, Vote

\* A promise kept in memory stays kept.
LEMMA MemoryForwardKeeps ==
    ASSUME TypeOK, TypeOK', MemoryForward, NEW x \in Message, KeptInMemory(x)
    PROVE  KeptInMemory(x)'
  <1>1. /\ x.src \in Node /\ x.dst \in Node /\ x.term \in Nat
        /\ x.dst # None
    BY MessageType, NodeAssumption
  <1>2. current_term[x.src] \in Nat /\ current_term'[x.src] \in Nat
    BY <1>1 DEF TypeOK
  <1>3. \/ current_term'[x.src] > current_term[x.src]
        \/ /\ current_term'[x.src] = current_term[x.src]
           /\ Vote(x.src) \in {None, Vote(x.src)'}
    BY <1>1 DEF MemoryForward
  <1> QED
    BY <1>1, <1>2, <1>3 DEF KeptInMemory, IsResponse, IsGrant

\* A promise kept on disk stays kept.
LEMMA DiskForwardKeeps ==
    ASSUME DiskForward, NEW x \in Message, KeptOnDisk(x), KeptInMemory(x)'
    PROVE  KeptOnDisk(x)'
  <1>1. x.src \in Node
    BY MessageType
  <1>2. CASE disk'[x.src] = disk[x.src]
    BY <1>2 DEF KeptOnDisk
  <1>3. CASE disk'[x.src] = Persistent(x.src)'
    BY <1>1, <1>3, PersistentParts DEF KeptOnDisk, KeptInMemory
  <1> QED
    BY <1>1, <1>2, <1>3 DEF DiskForward

\* The disk stays behind memory.
LEMMA DiskForwardBehind ==
    ASSUME TypeOK, TypeOK', DiskBehind, MemoryForward, DiskForward
    PROVE  DiskBehind'
  <1> SUFFICES ASSUME NEW n \in Node
               PROVE  \/ disk'[n].current_term < current_term'[n]
                      \/ /\ disk'[n].current_term = current_term'[n]
                         /\ disk'[n].voted_for \in {None, Vote(n)'}
    BY DEF DiskBehind
  <1>1. /\ disk[n].current_term \in Nat /\ current_term[n] \in Nat
        /\ current_term'[n] \in Nat
    BY DEF TypeOK
  <1>2. /\ \/ disk[n].current_term < current_term[n]
           \/ /\ disk[n].current_term = current_term[n]
              /\ disk[n].voted_for \in {None, Vote(n)}
        /\ \/ current_term'[n] > current_term[n]
           \/ /\ current_term'[n] = current_term[n]
              /\ Vote(n) \in {None, Vote(n)'}
    BY DEF DiskBehind, MemoryForward
  <1>3. CASE disk'[n] = disk[n]
    BY <1>1, <1>2, <1>3
  <1>4. CASE disk'[n] = Persistent(n)'
    BY <1>1, <1>4, PersistentParts
  <1> QED
    BY <1>3, <1>4 DEF DiskForward

\* The step lemma: what a step adds to the said has to be promised by it,
\* and what it sends has to be on disk.
LEMMA VoteStep ==
    ASSUME TypeOK, TypeOK', VoteInv, MemoryForward, DiskForward, OwnOutbox',
           NEW new, new \subseteq Message, Said' \subseteq Said \cup new,
           \A x \in new : Promise(x),
           \A x, y \in new : IsGrant(x) /\ IsGrant(y) => x = y,
           \A x \in msgs' : x \in msgs \/ KeptOnDisk(x)'
    PROVE  VoteInv'
  <1>1. DiskBehind'
    BY DiskForwardBehind DEF VoteInv
  <1>2. MemoryKeeps'
    <2>1. \A x \in Said : KeptInMemory(x)'
      BY SaidType, MemoryForwardKeeps DEF VoteInv, MemoryKeeps
    <2> QED
      BY <2>1 DEF MemoryKeeps, Promise
  <1>3. DiskKeeps'
    <2>1. \A x \in msgs : KeptOnDisk(x)'
      <3>1. SUFFICES ASSUME NEW x \in msgs PROVE KeptOnDisk(x)'
        OBVIOUS
      <3>2. x \in Message /\ KeptOnDisk(x) /\ KeptInMemory(x)
        BY DEF TypeOK, VoteInv, DiskKeeps, MemoryKeeps, Said
      <3> QED
        BY <3>2, MemoryForwardKeeps, DiskForwardKeeps
    <2> QED
      BY <2>1 DEF DiskKeeps
  <1>4. OneVote'
    <2>1. ASSUME NEW x \in Said, NEW y \in new, IsGrant(x), IsGrant(y),
                 x.src = y.src, x.term = y.term
          PROVE  x.dst = y.dst
      <3>1. x \in Message /\ x.dst \in Node /\ x.dst # None /\ x.src \in Node
        BY SaidType, MessageType, NodeAssumption
      <3>2. KeptInMemory(x) /\ Promise(y)
        BY DEF VoteInv, MemoryKeeps
      <3>3. current_term[x.src] \in Nat
        BY <3>1 DEF TypeOK
      <3>4. Vote(x.src) = x.dst
        BY <2>1, <3>2, <3>3 DEF KeptInMemory, Promise
      <3> QED
        BY <2>1, <3>1, <3>2, <3>4 DEF Promise
    <2>2. ASSUME NEW x \in Said', NEW y \in Said', IsGrant(x), IsGrant(y),
                 x.src = y.src, x.term = y.term
          PROVE  x.dst = y.dst
      <3>1. CASE x \in Said /\ y \in Said
        BY <2>2, <3>1 DEF VoteInv, OneVote
      <3>2. CASE x \in Said /\ y \in new
        BY <2>1, <2>2, <3>2
      <3>3. CASE x \in new /\ y \in Said
        BY <2>1, <2>2, <3>3
      <3>4. CASE x \in new /\ y \in new
        BY <2>2, <3>4
      <3> QED
        BY <3>1, <3>2, <3>3, <3>4
    <2> QED
      BY <2>2 DEF OneVote, IsGrant
  <1> QED
    BY <1>1, <1>2, <1>3, <1>4 DEF VoteInv
-----------------------------------------------------------------------------
(***************************************************************************)
(* Every action preserves the invariant.                                   *)
(***************************************************************************)

\* A handler ends with persisting and responding, now or later.
LEMMA FinishVotes ==
    ASSUME TypeOK, TypeOK', VoteInv, NEW n \in Node, NEW m, NEW responses,
           rpc[n].phase # "handled", Finish(n, m, responses), MemoryForward,
           responses \subseteq Message,
           \A x \in responses : x.src = n /\ Promise(x),
           \A x, y \in responses : IsGrant(x) /\ IsGrant(y) => x = y
    PROVE  VoteInv'
  <1>1. CASE FinishNow(n, m, responses)
    <2>1. /\ msgs' = msgs \cup responses
          /\ disk' = [disk EXCEPT ![n] = Persistent(n)']
          /\ rpc' = [rpc EXCEPT ![n] = Idle]
      BY <1>1 DEF FinishNow
    <2>2. /\ disk'[n] = Persistent(n)'
          /\ \A p \in Node : p # n => disk'[p] = disk[p]
          /\ rpc'[n].phase = "idle"
          /\ \A p \in Node : p # n => rpc'[p] = rpc[p]
      BY <2>1 DEF TypeOK, Idle
    <2>3. Outbox(n)' = {} /\ \A p \in Node : p # n => Outbox(p)' = Outbox(p)
      BY <2>2 DEF Outbox
    <2>4. DiskForward
      BY <2>2 DEF DiskForward
    <2>5. OwnOutbox'
      BY <2>3 DEF VoteInv, OwnOutbox
    <2>6. Said' \subseteq Said \cup responses
      BY <2>1, <2>3 DEF Said
    <2>7. \A x \in responses : KeptOnDisk(x)'
      BY <2>2, PersistentParts DEF Promise, KeptInMemory, KeptOnDisk
    <2> QED
      BY <2>1, <2>4, <2>5, <2>6, <2>7, VoteStep
  <1>2. CASE FinishLater(n, m, responses)
    <2>1. /\ UNCHANGED <<disk, msgs>>
          /\ rpc' = [rpc EXCEPT ![n] =
                       [phase |-> "handled", work |-> responses]]
      BY <1>2 DEF FinishLater
    <2>2. /\ rpc'[n].phase = "handled" /\ rpc'[n].work = responses
          /\ \A p \in Node : p # n => rpc'[p] = rpc[p]
      BY <2>1 DEF TypeOK
    <2>3. /\ Outbox(n)' = responses
          /\ \A p \in Node : p # n => Outbox(p)' = Outbox(p)
      BY <2>2 DEF Outbox
    <2>4. DiskForward
      BY <2>1 DEF DiskForward
    <2>5. OwnOutbox'
      BY <2>3 DEF VoteInv, OwnOutbox
    <2>6. Said' \subseteq Said \cup responses
      BY <2>1, <2>3 DEF Said
    <2> QED
      BY <2>1, <2>4, <2>5, <2>6, VoteStep
  <1> QED
    BY <1>1, <1>2 DEF Finish

\* When a handler runs the thread holds no earlier responses.
LEMMA HandlingPhase ==
    ASSUME NEW n \in Node, NEW m \in msgs, NEW type, Handling(n, m, type),
           TypeOK
    PROVE  /\ rpc[n].phase # "handled"
           /\ m \in Message /\ m.src \in Node /\ m.dst = n /\ m.type = type
  BY MessageType DEF Handling, TypeOK

\* A step in which one node may change, and keeps its vote, goes forward.
LEMMA ForwardIntro ==
    ASSUME TypeOK, NEW n \in Node, NEW x, r' = [r EXCEPT ![n] = x],
           UNCHANGED current_term,
           Vote(n) \in {None, IF x.kind = "Follower" THEN x.voted_for ELSE n}
    PROVE  MemoryForward
  <1>1. r'[n] = x /\ \A p \in Node : p # n => r'[p] = r[p]
    BY DEF TypeOK
  <1> QED
    BY <1>1 DEF MemoryForward, Vote

\* A step that changes neither term nor role goes forward.
LEMMA StillForward ==
    ASSUME UNCHANGED <<current_term, r>>
    PROVE  MemoryForward
  BY DEF MemoryForward, Vote

\* handle_vote_request grants the vote that it notes, and notes no other
\* than it had given already in the term.
LEMMA VoteRequestPromise ==
    ASSUME TypeOK, NEW n \in Node, NEW m \in msgs, HandleVoteRequest(n, m)
    PROVE  /\ MemoryForward
           /\ \E x : /\ r' = [r EXCEPT ![n] = x]
                     /\ x.kind = r[n].kind
                     /\ x.kind # "Follower" => x = r[n]
           /\ \A y : y = RequestVoteResponse(n, m, GrantsVote(n, m)) =>
                /\ y \in Message /\ y.type = "RequestVoteResponse"
                /\ y.src = n /\ y.dst = m.src /\ Promise(y)
  <1> DEFINE x == IF GrantsVote(n, m)
                  THEN [r[n] EXCEPT !.voted_for = m.src] ELSE r[n]
  <1>1. m.src \in Node /\ current_term[n] \in Nat /\ r[n] \in Role(n)
    BY HandlingPhase, NodeType DEF HandleVoteRequest
  <1>2. r' = [r EXCEPT ![n] = x] /\ UNCHANGED current_term
    BY DEF HandleVoteRequest
  <1>3. /\ x.kind = r[n].kind
        /\ GrantsVote(n, m) => /\ x.kind = "Follower" /\ x.voted_for = m.src
                               /\ Vote(n) \in {None, m.src}
        /\ ~ GrantsVote(n, m) => x = r[n]
    <2>1. CASE GrantsVote(n, m)
      <3>1. PICK a, b : r[n] = Follower(a, b)
        BY <1>1, <2>1, RoleType DEF GrantsVote
      <3>2. x = Follower(a, m.src)
        BY <2>1, <3>1 DEF Follower
      <3> QED
        BY <2>1, <3>1, <3>2 DEF Follower, GrantsVote, Vote
    <2>2. CASE ~ GrantsVote(n, m)
      BY <2>2
    <2> QED
      BY <2>1, <2>2
  <1> HIDE DEF x
  <1>4. MemoryForward
    BY <1>2, <1>3, ForwardIntro DEF Vote
  <1>5. ASSUME NEW y, y = RequestVoteResponse(n, m, GrantsVote(n, m))
        PROVE  /\ y \in Message /\ y.type = "RequestVoteResponse"
               /\ y.src = n /\ y.dst = m.src /\ Promise(y)
    <2>1. r'[n] = x /\ current_term'[n] = current_term[n]
      BY <1>2 DEF TypeOK
    <2>2. /\ y.src = n /\ y.dst = m.src /\ y.term = current_term[n]
          /\ y.vote_granted = GrantsVote(n, m)
          /\ y.type = "RequestVoteResponse"
      BY <1>5 DEF RequestVoteResponse
    <2>3. y \in Message
      BY <1>1, <1>5 DEF RequestVoteResponse, Message, GrantsVote
    <2>4. Promise(y)
      BY <1>1, <1>3, <2>1, <2>2 DEF Promise, KeptInMemory, IsGrant, IsResponse,
                                    Vote
    <2> QED
      BY <2>2, <2>3, <2>4
  <1>6. x.kind # "Follower" => x = r[n]
    BY <1>3
  <1> QED
    BY <1>2, <1>3, <1>4, <1>5, <1>6

\* handle_vote_request makes the only promises that bind a vote.
LEMMA HandleVoteRequestVotes ==
    ASSUME TypeOK, TypeOK', VoteInv, NEW n \in Node, NEW m \in msgs,
           HandleVoteRequest(n, m)
    PROVE  MemoryForward /\ VoteInv'
  <1> DEFINE response == RequestVoteResponse(n, m, GrantsVote(n, m))
  <1>1. rpc[n].phase # "handled"
    BY HandlingPhase DEF HandleVoteRequest
  <1>2. Finish(n, m, {response})
    BY DEF HandleVoteRequest
  <1>3. /\ {response} \subseteq Message /\ MemoryForward
        /\ \A y \in {response} : y.src = n /\ Promise(y)
        /\ \A y, z \in {response} : IsGrant(y) /\ IsGrant(z) => y = z
    BY VoteRequestPromise
  <1> HIDE DEF response
  <1> QED
    BY <1>1, <1>2, <1>3, FinishVotes

\* A step of a thread that is not about to respond, that leaves the disk
\* alone and sends nothing but requests.
LEMMA QuietStepVotes ==
    ASSUME TypeOK, TypeOK', VoteInv, NEW n \in Node, MemoryForward,
           UNCHANGED disk, msgs \subseteq msgs',
           \A x \in msgs' : x \in msgs \/ ~ IsResponse(x),
           rpc'[n].phase # "handled" \/ rpc'[n] = rpc[n],
           \A p \in Node : p # n => rpc'[p] = rpc[p]
    PROVE  VoteInv'
  <1>1. \A p \in Node : Outbox(p)' \subseteq Outbox(p)
    BY DEF Outbox
  <1>2. DiskForward
    BY DEF DiskForward
  <1>3. OwnOutbox'
    BY <1>1 DEF VoteInv, OwnOutbox
  <1>4. Said' \subseteq Said \cup (msgs' \ msgs)
    BY <1>1 DEF Said
  <1>5. ASSUME NEW x \in msgs' \ msgs PROVE Promise(x) /\ KeptOnDisk(x)' /\ ~ IsGrant(x)
    BY <1>5 DEF Promise, KeptInMemory, KeptOnDisk, IsGrant, IsResponse
  <1>6. msgs' \ msgs \subseteq Message
    BY DEF TypeOK
  <1> QED
    BY <1>2, <1>3, <1>4, <1>5, <1>6, VoteStep

\* A handler that grants no vote and takes none back.
LEMMA QuietHandlerVotes ==
    ASSUME TypeOK, TypeOK', VoteInv, NEW n \in Node, NEW m, NEW responses,
           rpc[n].phase # "handled", Finish(n, m, responses), MemoryForward,
           UNCHANGED current_term, responses \subseteq Message,
           \A x \in responses : /\ x.src = n /\ ~ IsGrant(x)
                                /\ x.term = current_term[n]
    PROVE  VoteInv'
  <1>1. ASSUME NEW x \in responses PROVE Promise(x)
    BY NodeType DEF Promise, KeptInMemory
  <1> QED
    BY <1>1, FinishVotes

\* The messages of the other handlers are sent in the current term.
LEMMA ReplicateQuiet ==
    ASSUME NEW n \in Node, NEW lg, NEW next, NEW hb,
           NEW x \in replicate_log(n, lg, next, hb)
    PROVE  /\ x.src = n /\ x.type = "AppendEntries"
           /\ x.term = current_term[n] /\ x.dst \in Peers(n)
  BY DEF replicate_log, AppendEntriesTo

\* Whatever the rate limit does to them.
LEMMA ReplicationsQuiet ==
    ASSUME NEW n \in Node, NEW lg, NEW next,
           NEW sent \in Replications(n, lg, next), NEW x \in sent
    PROVE  /\ x.src = n /\ x.type = "AppendEntries"
           /\ x.term = current_term[n] /\ x.dst \in Peers(n)
  <1>1. PICK hb \in BOOLEAN : x \in replicate_log(n, lg, next, hb)
    BY DEF Replications
  <1> QED
    BY <1>1, ReplicateQuiet

\* handle_vote_response: a candidate that wins keeps the vote for itself.
LEMMA HandleVoteResponseVotes ==
    ASSUME TypeInv, TypeOK', VoteInv, NEW n \in Node, NEW m \in msgs,
           HandleVoteResponse(n, m)
    PROVE  MemoryForward /\ VoteInv'
  <1>1. /\ rpc[n].phase # "handled" /\ TypeOK
        /\ r[n] \in Role(n) /\ log[n] \in Seq(Entry) /\ Len(log[n]) \in Nat
    BY HandlingPhase, NodeType DEF TypeInv, HandleVoteResponse
  <1>2. CASE CountVote(n, m)
    <2> DEFINE votes == r[n].votes \cup {m.src}
               won == WonElection(Cardinality(votes), Cardinality(Node))
               x == IF won THEN NewLeader(n) ELSE Candidate(votes)
               sent == IF won
                       THEN replicate_log(n, log[n], InitialNext(n), TRUE)
                       ELSE {}
    <2>1. /\ r' = [r EXCEPT ![n] = x] /\ UNCHANGED current_term
          /\ Finish(n, m, sent)
          /\ r[n].kind = "Candidate"
      BY <1>2 DEF CountVote, CountsVote
    <2>2. x.kind # "Follower"
      BY DEF NewLeader, Leader, Candidate
    <2> HIDE DEF x
    <2>3. MemoryForward
      BY <1>1, <2>1, <2>2, ForwardIntro DEF Vote
    <2>4. InitialNext(n) \in [Peers(n) -> Nat \ {0}]
      BY <1>1 DEF InitialNext, HighestIndex
    <2>5. /\ sent \subseteq Message
          /\ \A y \in sent : /\ y.src = n /\ ~ IsGrant(y)
                             /\ y.term = current_term[n]
      <3> DEFINE all == replicate_log(n, log[n], InitialNext(n), TRUE)
      <3>1. sent \subseteq all
        OBVIOUS
      <3>2. all \subseteq Message
        BY <1>1, <2>4, ReplicateType
      <3>3. \A y \in all : /\ y.src = n /\ y.type = "AppendEntries"
                           /\ y.term = current_term[n]
        BY DEF replicate_log, AppendEntriesTo
      <3> QED
        BY <3>1, <3>2, <3>3 DEF IsGrant
    <2> HIDE DEF sent
    <2> QED
      BY <1>1, <2>1, <2>3, <2>5, QuietHandlerVotes
  <1>3. CASE IgnoreVote(n, m)
    <2>1. UNCHANGED <<current_term, r>> /\ Finish(n, m, {})
      BY <1>3 DEF IgnoreVote
    <2> QED
      BY <1>1, <2>1, StillForward, QuietHandlerVotes
  <1> QED
    BY <1>2, <1>3 DEF HandleVoteResponse

\* Recognizing a leader keeps the vote: a candidate has voted for itself.
LEMMA RecognizeForward ==
    ASSUME TypeOK, NEW n \in Node, NEW m, ~ is_leader(n),
           r' = [r EXCEPT ![n] = RecognizeLeader(n, m)],
           UNCHANGED current_term
    PROVE  MemoryForward
  <1>1. r[n] \in Role(n)
    BY NodeType
  <1>2. PICK a, b : become_follower(n, n) = Follower(a, b) /\ Vote(n) = b
    <2>1. CASE r[n].kind = "Follower"
      BY <1>1, <2>1, RoleType DEF become_follower, Vote
    <2>2. CASE r[n].kind # "Follower"
      BY <2>2 DEF become_follower, Vote
    <2> QED
      BY <2>1, <2>2
  <1>3. RecognizeLeader(n, m) = Follower(m.src, b)
    BY <1>2 DEF RecognizeLeader, Follower
  <1> QED
    BY <1>2, <1>3, ForwardIntro DEF Follower

\* handle_append_entries: whatever it does to the log, the vote is kept.
LEMMA HandleAppendEntriesVotes ==
    ASSUME TypeInv, TypeOK', VoteInv, NEW n \in Node, NEW m \in msgs,
           HandleAppendEntries(n, m)
    PROVE  MemoryForward /\ VoteInv'
  <1>1. /\ rpc[n].phase # "handled" /\ TypeOK
        /\ m \in Message /\ m.src \in Node
        /\ m.type = "AppendEntries"
        /\ log[n] \in Seq(Entry)
    BY HandlingPhase, NodeType DEF TypeInv, HandleAppendEntries
  <1>2. {AppendEntriesResponse(n, m, log[n], FALSE)} \subseteq Message
    BY <1>1, AppendEntriesResponseType
  <1>3. CASE StaleAppend(n, m)
    <2>1. /\ UNCHANGED <<current_term, r>>
          /\ Finish(n, m, {AppendEntriesResponse(n, m, log[n], FALSE)})
      BY <1>3 DEF StaleAppend
    <2>2. \A x \in {AppendEntriesResponse(n, m, log[n], FALSE)} :
             x.src = n /\ ~ IsGrant(x) /\ x.term = current_term[n]
      BY DEF AppendEntriesResponse, IsGrant
    <2> QED
      BY <1>1, <1>2, <2>1, <2>2, StillForward, QuietHandlerVotes
  <1>4. CASE SecondLeader(n, m)
    <2>1. /\ UNCHANGED <<msgs, current_term, r, disk>>
          /\ rpc'[n].phase = "panicked"
          /\ \A p \in Node : p # n => rpc'[p] = rpc[p]
      BY <1>1, <1>4 DEF SecondLeader, Panic, TypeOK
    <2>2. MemoryForward
      BY <2>1, StillForward
    <2> QED
      BY <1>1, <2>1, <2>2, QuietStepVotes
  <1>5. CASE RejectAppend(n, m)
    <2>1. /\ r' = [r EXCEPT ![n] = RecognizeLeader(n, m)]
          /\ UNCHANGED current_term /\ ~ is_leader(n)
          /\ Finish(n, m, {AppendEntriesResponse(n, m, log[n], FALSE)})
      BY <1>5 DEF RejectAppend
    <2>2. \A x \in {AppendEntriesResponse(n, m, log[n], FALSE)} :
             x.src = n /\ ~ IsGrant(x) /\ x.term = current_term[n]
      BY DEF AppendEntriesResponse, IsGrant
    <2>3. MemoryForward
      BY <1>1, <2>1, RecognizeForward
    <2> QED
      BY <1>1, <1>2, <2>1, <2>2, <2>3, QuietHandlerVotes
  <1>6. CASE AcceptAppend(n, m)
    <2> DEFINE lg == ReplaceFrom(log[n], m.prev_log_index + 1, m.entries)
    <2>1. /\ r' = [r EXCEPT ![n] = RecognizeLeader(n, m)]
          /\ UNCHANGED current_term /\ ~ is_leader(n)
      BY <1>6 DEF AcceptAppend
    <2>2. MemoryForward
      BY <1>1, <2>1, RecognizeForward
    <2>3. CASE Overtaken(n, m, lg)
      <3>1. /\ UNCHANGED <<msgs, disk>>
            /\ rpc' = [rpc EXCEPT ![n] = [phase |-> "panicked", work |-> {}]]
        BY <1>6, <2>3 DEF AcceptAppend, Panic
      <3>2. /\ rpc'[n].phase = "panicked"
            /\ \A p \in Node : p # n => rpc'[p] = rpc[p]
        BY <1>1, <3>1 DEF TypeOK
      <3> QED
        BY <1>1, <2>1, <2>2, <3>1, <3>2, QuietStepVotes
    <2>4. CASE ~ Overtaken(n, m, lg)
      <3>1. Finish(n, m, {AppendEntriesResponse(n, m, lg, TRUE)})
        BY <1>6, <2>4 DEF AcceptAppend
      <3>2. lg \in Seq(Entry)
        <4>1. m.entries \in Seq(Entry) /\ m.prev_log_index + 1 \in Nat \ {0}
          BY <1>1, MessageType
        <4> QED
          BY <1>1, <4>1, ReplaceFromType
      <3>3. {AppendEntriesResponse(n, m, lg, TRUE)} \subseteq Message
        BY <1>1, <3>2, AppendEntriesResponseType
      <3>4. \A x \in {AppendEntriesResponse(n, m, lg, TRUE)} :
               x.src = n /\ ~ IsGrant(x) /\ x.term = current_term[n]
        BY DEF AppendEntriesResponse, IsGrant
      <3> HIDE DEF lg
      <3> QED
        BY <1>1, <2>1, <2>2, <3>1, <3>3, <3>4, QuietHandlerVotes
    <2> QED
      BY <2>3, <2>4
  <1> QED
    BY <1>3, <1>4, <1>5, <1>6 DEF HandleAppendEntries

\* handle_append_entries_response: a leader stays a leader.
LEMMA HandleAppendEntriesResponseVotes ==
    ASSUME TypeInv, TypeOK', VoteInv, NEW n \in Node, NEW m \in msgs,
           HandleAppendEntriesResponse(n, m)
    PROVE  MemoryForward /\ VoteInv'
  <1>1. /\ rpc[n].phase # "handled" /\ TypeOK
        /\ r[n] \in Role(n) /\ log[n] \in Seq(Entry)
    BY HandlingPhase, NodeType DEF TypeInv, HandleAppendEntriesResponse
  <1>2. CASE RetryAppend(n, m)
    <2> DEFINE next == [r[n].next_indexes EXCEPT ![m.src] = DecFloored(@)]
    <2>1. /\ r' = [r EXCEPT ![n] = Leader(next, r[n].match_indexes)]
          /\ UNCHANGED current_term
          /\ r[n].kind = "Leader"
      BY <1>2 DEF RetryAppend, is_leader
    <2>2. PICK sent \in Replications(n, log[n], next) : Finish(n, m, sent)
      BY <1>2 DEF RetryAppend
    <2>3. next \in [Peers(n) -> Nat \ {0}]
      <3>1. r[n].next_indexes \in [Peers(n) -> Nat \ {0}]
        BY <1>1, <2>1, RoleType
      <3>2. \A i \in Nat \ {0} : DecFloored(i) \in Nat \ {0}
        BY DEF DecFloored
      <3> QED
        BY <3>1, <3>2
    <2> HIDE DEF next
    <2>4. MemoryForward
      BY <1>1, <2>1, ForwardIntro DEF Vote, Leader
    <2>5. /\ sent \subseteq Message
          /\ \A y \in sent : /\ y.src = n /\ ~ IsGrant(y)
                             /\ y.term = current_term[n]
      BY <1>1, <2>3, ReplicationsType, ReplicationsQuiet DEF IsGrant
    <2> QED
      BY <1>1, <2>1, <2>2, <2>4, <2>5, QuietHandlerVotes
  <1>3. CASE AdvanceMatch(n, m)
    <2> DEFINE next == [r[n].next_indexes EXCEPT ![m.src] = m.index + 1]
               match == [r[n].match_indexes EXCEPT ![m.src] = m.index]
               x == Leader(next, match)
    <2>1. r' = [r EXCEPT ![n] = x] /\ x.kind = "Leader"
      BY <1>3 DEF AdvanceMatch, Leader
    <2> HIDE DEF x
    <2>2. UNCHANGED current_term /\ r[n].kind = "Leader" /\ Finish(n, m, {})
      BY <1>3 DEF AdvanceMatch, is_leader
    <2>3. MemoryForward
      BY <1>1, <2>1, <2>2, ForwardIntro DEF Vote
    <2> QED
      BY <1>1, <2>2, <2>3, QuietHandlerVotes
  <1>4. CASE IgnoreAppendResponse(n, m)
    <2>1. UNCHANGED <<current_term, r>> /\ Finish(n, m, {})
      BY <1>4 DEF IgnoreAppendResponse
    <2> QED
      BY <1>1, <2>1, StillForward, QuietHandlerVotes
  <1> QED
    BY <1>2, <1>3, <1>4 DEF HandleAppendEntriesResponse

\* A later term makes room for a new vote; its election requests promise
\* nothing.
LEMMA TermForwardVotes ==
    ASSUME TypeOK, TypeOK', VoteInv, NEW n \in Node,
           BecomeCandidate(n) \/ \E m \in msgs : MaybeStepDown(n, m)
    PROVE  MemoryForward /\ VoteInv'
  <1>1. CASE BecomeCandidate(n)
    <2>1. current_term[n] \in Nat
      BY NodeType
    <2>2. /\ current_term'[n] > current_term[n]
          /\ \A p \in Node : p # n => /\ current_term'[p] = current_term[p]
                                     /\ r'[p] = r[p]
      BY <1>1, <2>1 DEF BecomeCandidate, TypeOK
    <2>3. MemoryForward
      BY <2>2 DEF MemoryForward, Vote
    <2>4. \A x \in RequestVotes(n, current_term[n] + 1) : ~ IsResponse(x)
      BY DEF RequestVotes, IsResponse
    <2>5. /\ msgs' = msgs \cup RequestVotes(n, current_term[n] + 1)
          /\ UNCHANGED <<disk, rpc>>
      BY <1>1 DEF BecomeCandidate
    <2> QED
      BY <2>3, <2>4, <2>5, QuietStepVotes
  <1>2. ASSUME NEW m \in msgs, MaybeStepDown(n, m)
        PROVE  MemoryForward /\ VoteInv'
    <2>1. m.term \in Nat /\ m.term > current_term[n]
      BY <1>2, MessageType DEF MaybeStepDown, TypeOK
    <2>2. /\ current_term'[n] > current_term[n]
          /\ \A p \in Node : p # n => /\ current_term'[p] = current_term[p]
                                     /\ r'[p] = r[p]
                                     /\ rpc'[p] = rpc[p]
          /\ rpc'[n].phase = "stepped"
          /\ UNCHANGED <<disk, msgs>>
      BY <1>2, <2>1 DEF MaybeStepDown, TypeOK
    <2>3. MemoryForward
      BY <2>2 DEF MemoryForward, Vote
    <2> QED
      BY <2>2, <2>3, QuietStepVotes
  <1> QED
    BY <1>1, <1>2

\* The threads that only read the vote.
LEMMA OtherThreadsVotes ==
    ASSUME TypeInv, TypeOK', VoteInv, NEW n \in Node,
           \/ ReplicateLog(n)
           \/ \E c \in Request : ClientRequest(n, c) \/ ClientCheck(n, c)
                                                   \/ ClientAppend(n, c)
    PROVE  MemoryForward /\ VoteInv'
  <1>1. /\ UNCHANGED <<current_term, r, disk, rpc>>
        /\ msgs \subseteq msgs'
        /\ \A x \in msgs' : x \in msgs \/ ~ IsResponse(x)
    <2>1. CASE ReplicateLog(n)
      <3>1. PICK hb \in BOOLEAN :
              msgs' = msgs \cup replicate_log(n, log[n], r[n].next_indexes, hb)
        BY <2>1 DEF ReplicateLog
      <3>2. \A x \in replicate_log(n, log[n], r[n].next_indexes, hb) :
               ~ IsResponse(x)
        BY DEF replicate_log, AppendEntriesTo, IsResponse
      <3> QED
        BY <2>1, <3>1, <3>2 DEF ReplicateLog
    <2>2. ASSUME NEW c \in Request, AppendAndReplicate(n, c)
          PROVE  /\ msgs \subseteq msgs'
                 /\ \A x \in msgs' : x \in msgs \/ ~ IsResponse(x)
      <3>1. CASE is_leader(n)
        <4>1. PICK sent \in Replications(n, append(n, c), r[n].next_indexes) :
                msgs' = msgs \cup sent
          BY <2>2, <3>1 DEF AppendAndReplicate
        <4>2. \A x \in sent : ~ IsResponse(x)
          BY ReplicationsQuiet DEF IsResponse
        <4> QED
          BY <4>1, <4>2
      <3>2. CASE ~ is_leader(n)
        BY <2>2, <3>2 DEF AppendAndReplicate
      <3> QED
        BY <3>1, <3>2
    <2>3. ASSUME NEW c \in Request,
                 ClientRequest(n, c) \/ ClientCheck(n, c) \/ ClientAppend(n, c)
          PROVE  <1>1!1 /\ <1>1!2 /\ <1>1!3
      BY <2>2, <2>3 DEF ClientRequest, ClientCheck, ClientAppend
    <2> QED
      BY <2>1, <2>3
  <1> QED
    BY <1>1, StillForward, QuietStepVotes DEF TypeInv

\* The write to disk of incoming_raft_rpcs_loop comes before the responses;
\* if it fails they are dropped.
LEMMA PersistVotes ==
    ASSUME TypeOK, TypeOK', VoteInv, NEW n \in Node,
           Persist(n) \/ FailPersist(n)
    PROVE  MemoryForward /\ VoteInv'
  <1>1. /\ UNCHANGED <<current_term, r, log>>
        /\ rpc[n].phase = "handled" /\ rpc' = [rpc EXCEPT ![n] = Idle]
        /\ disk' = disk \/ disk' = [disk EXCEPT ![n] = Persistent(n)]
    BY DEF Persist, FailPersist
  <1>2. /\ rpc'[n].phase = "idle"
        /\ \A p \in Node : p # n => rpc'[p] = rpc[p]
    BY <1>1 DEF TypeOK, Idle
  <1>3. Outbox(n)' = {} /\ \A p \in Node : p # n => Outbox(p)' = Outbox(p)
    BY <1>2 DEF Outbox
  <1>4. Persistent(n)' = Persistent(n) /\ MemoryForward
    BY <1>1, StillForward DEF Persistent
  <1>5. DiskForward
    BY <1>1, <1>4 DEF DiskForward, TypeOK
  <1>6. OwnOutbox'
    BY <1>3 DEF VoteInv, OwnOutbox
  <1>7. /\ msgs' \subseteq msgs \cup Outbox(n)
        /\ msgs' = msgs \/ disk'[n] = Persistent(n)'
    <2>1. CASE Persist(n)
      BY <1>1, <1>4, <2>1 DEF Persist, Outbox, TypeOK
    <2>2. CASE FailPersist(n)
      BY <2>2 DEF FailPersist
    <2> QED
      BY <2>1, <2>2
  <1>8. Said' \subseteq Said
    BY <1>3, <1>7 DEF Said
  <1>9. ASSUME NEW x \in msgs', x \notin msgs PROVE KeptOnDisk(x)'
    <2>1. x \in Outbox(n) /\ disk'[n] = Persistent(n)'
      BY <1>7, <1>9
    <2>2. x.src = n /\ KeptInMemory(x)
      BY <2>1 DEF VoteInv, OwnOutbox, MemoryKeeps, Said
    <2>3. KeptInMemory(x)'
      BY <1>1, <2>2 DEF KeptInMemory, Vote
    <2> QED
      BY <2>1, <2>2, <2>3, PersistentParts DEF KeptInMemory, KeptOnDisk
  <1> DEFINE new == {}
  <1>10. /\ new \subseteq Message /\ Said' \subseteq Said \cup new
         /\ \A x \in new : Promise(x)
         /\ \A x, y \in new : IsGrant(x) /\ IsGrant(y) => x = y
         /\ \A x \in msgs' : x \in msgs \/ KeptOnDisk(x)'
    BY <1>8, <1>9
  <1> HIDE DEF new
  <1> QED
    BY <1>4, <1>5, <1>6, <1>10, VoteStep

\* A reboot restores what was promised on the network, and forgets only
\* what was not yet sent.
LEMMA CrashVotes ==
    ASSUME TypeOK, TypeOK', VoteInv, NEW n \in Node, Crash(n)
    PROVE  VoteInv'
  <1>1. /\ UNCHANGED <<msgs, disk>>
        /\ current_term'[n] = disk[n].current_term
        /\ r'[n] = Follower(None, disk[n].voted_for)
        /\ rpc'[n].phase = "idle"
        /\ \A p \in Node : p # n => /\ current_term'[p] = current_term[p]
                                   /\ r'[p] = r[p]
                                   /\ rpc'[p] = rpc[p]
    BY DEF Crash, TypeOK, Idle
  <1>2. /\ Vote(n)' = disk[n].voted_for
        /\ \A p \in Node : p # n => Vote(p)' = Vote(p)
    BY <1>1 DEF Vote, Follower
  <1>3. Outbox(n)' = {} /\ \A p \in Node : p # n => Outbox(p)' = Outbox(p)
    BY <1>1 DEF Outbox
  <1>4. Said' \subseteq Said
    BY <1>1, <1>3 DEF Said
  <1>5. DiskBehind'
    BY <1>1, <1>2 DEF VoteInv, DiskBehind, TypeOK
  <1>6. OwnOutbox'
    BY <1>3 DEF VoteInv, OwnOutbox
  <1>7. MemoryKeeps'
    <2>1. SUFFICES ASSUME NEW x \in Said' PROVE KeptInMemory(x)'
      BY DEF MemoryKeeps
    <2>2. x \in Said /\ x \in Message /\ x.src \in Node
      BY <1>4, SaidType, MessageType
    <2>3. CASE x.src = n
      <3>1. x \in msgs
        BY <1>1, <1>3, <2>3 DEF Said, VoteInv, OwnOutbox
      <3> QED
        BY <1>1, <1>2, <2>3, <3>1 DEF VoteInv, DiskKeeps, KeptOnDisk, KeptInMemory
    <2>4. CASE x.src # n
      BY <1>1, <1>2, <2>2, <2>4 DEF VoteInv, MemoryKeeps, KeptInMemory
    <2> QED
      BY <2>3, <2>4
  <1>8. DiskKeeps'
    BY <1>1 DEF VoteInv, DiskKeeps, KeptOnDisk
  <1>9. OneVote'
    BY <1>4 DEF VoteInv, OneVote
  <1> QED
    BY <1>5, <1>6, <1>7, <1>8, <1>9 DEF VoteInv

\* Nothing is promised at first.
LEMMA InitVotes == Init => VoteInv
  <1> SUFFICES ASSUME Init PROVE VoteInv
    OBVIOUS
  <1>1. /\ msgs = {} /\ \A n \in Node : Outbox(n) = {}
        /\ \A n \in Node : /\ disk[n].current_term = current_term[n]
                           /\ disk[n].voted_for = None
    BY DEF Init, Outbox, Idle
  <1> QED
    BY <1>1 DEF VoteInv, DiskBehind, OwnOutbox, MemoryKeeps, DiskKeeps,
                OneVote, Said

\* Every step preserves the invariant.
LEMMA NextVotes == TypeInv /\ TypeInv' /\ VoteInv /\ [Next]_vars => VoteInv'
  <1> SUFFICES ASSUME TypeInv, TypeInv', VoteInv, [Next]_vars PROVE VoteInv'
    OBVIOUS
  <1>1. TypeOK /\ TypeOK'
    BY DEF TypeInv
  <1>2. CASE UNCHANGED vars
    BY <1>2 DEF vars, VoteInv, DiskBehind, OwnOutbox, MemoryKeeps, DiskKeeps,
                OneVote, Said, Outbox, KeptInMemory, KeptOnDisk, Vote
  <1>3. CASE Next
    <2>1. PICK n \in Node :
            \/ BecomeCandidate(n)
            \/ ReplicateLog(n)
            \/ \E m \in msgs : Receive(n, m)
            \/ Persist(n)
            \/ FailPersist(n)
            \/ \E c \in Request : ClientRequest(n, c)
                                \/ ClientCheck(n, c)
                                \/ ClientAppend(n, c)
            \/ Crash(n)
      BY <1>3 DEF Next
    <2>2. CASE BecomeCandidate(n)
      BY <1>1, <2>2, TermForwardVotes
    <2>3. CASE \/ ReplicateLog(n)
               \/ \E c \in Request : ClientRequest(n, c)
                                   \/ ClientCheck(n, c)
                                   \/ ClientAppend(n, c)
      BY <1>1, <2>3, OtherThreadsVotes
    <2>4. ASSUME NEW m \in msgs, Receive(n, m) PROVE VoteInv'
      <3>1. CASE MaybeStepDown(n, m)
        BY <1>1, <3>1, TermForwardVotes
      <3> QED
        BY <1>1, <2>4, <3>1, HandleVoteRequestVotes, HandleVoteResponseVotes,
           HandleAppendEntriesVotes, HandleAppendEntriesResponseVotes
           DEF Receive
    <2>5. CASE Persist(n) \/ FailPersist(n)
      BY <1>1, <2>5, PersistVotes
    <2>6. CASE Crash(n)
      BY <1>1, <2>6, CrashVotes
    <2> QED
      BY <2>1, <2>2, <2>3, <2>4, <2>5, <2>6
  <1> QED
    BY <1>2, <1>3
-----------------------------------------------------------------------------
\* The invariant implies the two properties.
LEMMA VoteInvSuffices == TypeOK /\ VoteInv => ResponseDurable /\ OneVotePerTerm
  <1> SUFFICES ASSUME TypeOK, VoteInv PROVE ResponseDurable /\ OneVotePerTerm
    OBVIOUS
  <1>1. \A x \in msgs : x \in Message /\ KeptOnDisk(x) /\ x \in Said
    BY DEF TypeOK, VoteInv, DiskKeeps, Said
  <1>2. ASSUME NEW x \in msgs, IsResponse(x)
        PROVE  disk[x.src].current_term >= x.term
    <2>1. x.term \in Nat /\ disk[x.src].current_term \in Nat
      BY <1>1, MessageType DEF TypeOK
    <2> QED
      BY <1>1, <1>2, <2>1 DEF KeptOnDisk
  <1>3. ASSUME NEW v \in Node, NEW c \in Node, NEW t, Granted(v, c, t)
        PROVE  disk[v].current_term > t \/ disk[v].voted_for = c
    <2>1. PICK x \in msgs : IsGrant(x) /\ x.src = v /\ x.dst = c /\ x.term = t
      BY <1>3 DEF Granted, IsGrant
    <2>2. t \in Nat /\ disk[v].current_term \in Nat
      BY <1>1, <2>1, MessageType DEF TypeOK
    <2> QED
      BY <1>1, <2>1, <2>2 DEF KeptOnDisk
  <1>4. ASSUME NEW v \in Node, NEW c1 \in Node, NEW c2 \in Node, NEW t,
               Granted(v, c1, t), Granted(v, c2, t)
        PROVE  c1 = c2
    <2>1. PICK x \in msgs : IsGrant(x) /\ x.src = v /\ x.dst = c1 /\ x.term = t
      BY <1>4 DEF Granted, IsGrant
    <2>2. PICK y \in msgs : IsGrant(y) /\ y.src = v /\ y.dst = c2 /\ y.term = t
      BY <1>4 DEF Granted, IsGrant
    <2> QED
      BY <1>1, <2>1, <2>2 DEF VoteInv, OneVote
  <1>5. ResponseDurable
    BY <1>2, <1>3 DEF ResponseDurable, IsResponse
  <1>6. OneVotePerTerm
    BY <1>4 DEF OneVotePerTerm
  <1> QED
    BY <1>5, <1>6

\* What a node has said in a response, incoming_raft_rpcs_loop has persisted
\* before: its term, and the vote it granted, are on its disk and stay there
\* while the term lasts, whatever crashes and failed writes come between.
THEOREM ResponsesAreDurable == Spec => []ResponseDurable
  BY InitType, NextType, InitVotes, NextVotes, VoteInvSuffices, TypeCorrect,
     PTL DEF Spec

\* A node grants its vote to one candidate per term (handle_vote_request),
\* even if it crashes and reboots in between.
THEOREM VotesAreUnique == Spec => []OneVotePerTerm
  BY InitType, NextType, InitVotes, NextVotes, VoteInvSuffices, TypeCorrect,
     PTL DEF Spec
-----------------------------------------------------------------------------
(***************************************************************************)
(* One leader per term.                                                    *)
(***************************************************************************)

IsAppend(x) == x.type = "AppendEntries"

Won(n, t) ==
    \E Q \in SUBSET Node :
        /\ n \in Q
        /\ WonElection(Cardinality(Q), Cardinality(Node))
        /\ \A v \in Q \ {n} : Granted(v, n, t)

NotToSelf == \A x \in Said : x.src # x.dst

CandidateVotes ==
    \A n \in Node : r[n].kind = "Candidate" =>
        /\ n \in r[n].votes
        /\ \A v \in r[n].votes \ {n} : Granted(v, n, current_term[n])

LeaderWon == \A n \in Node : is_leader(n) => Won(n, current_term[n])

AppendWon == \A x \in Said : IsAppend(x) => Won(x.src, x.term)

\* Who has spoken as a leader has voted for itself...
SelfVoteInMemory ==
    \A x \in Said : IsAppend(x) =>
        \/ x.term < current_term[x.src]
        \/ x.term = current_term[x.src] /\ Vote(x.src) = x.src

\* ... and for nobody else.
NoOtherVote ==
    \A x, y \in Said :
        IsAppend(x) /\ IsGrant(y) /\ x.src = y.src => x.term # y.term

\* With prompt writes the self-vote of a leader is on disk.
SelfVoteOnDisk ==
    MaxLatePersists = 0 =>
        /\ \A n \in Node : rpc[n].phase # "handled"
        /\ \A n \in Node : is_leader(n) =>
             /\ disk[n].current_term = current_term[n]
             /\ disk[n].voted_for = n
        /\ \A x \in msgs : IsAppend(x) =>
             \/ x.term < disk[x.src].current_term
             \/ /\ x.term = disk[x.src].current_term
                /\ disk[x.src].voted_for = x.src

ElectionInv ==
    /\ NotToSelf
    /\ CandidateVotes
    /\ LeaderWon
    /\ AppendWon
    /\ SelfVoteInMemory
    /\ NoOtherVote
    /\ SelfVoteOnDisk
-----------------------------------------------------------------------------
(***************************************************************************)
(* What steps have in common.                                              *)
(***************************************************************************)
OnlyAt(n) ==
    \A p \in Node \ {n} : /\ current_term'[p] = current_term[p]
                          /\ r'[p] = r[p]
                          /\ rpc'[p] = rpc[p]
                          /\ disk'[p] = disk[p]

\* No node wins an election or counts a vote.
RolesKept ==
    \A p \in Node :
        /\ r'[p].kind = "Candidate" =>
             r'[p] = r[p] /\ current_term'[p] = current_term[p]
        /\ r'[p].kind = "Leader" =>
             r[p].kind = "Leader" /\ current_term'[p] = current_term[p]

\* What node n may send in a step.
Speech(n, x) ==
    /\ x.src = n
    /\ x.dst # n
    /\ IsGrant(x) => Promise(x)
    /\ IsAppend(x) => /\ r[n].kind # "Follower"
                      /\ r'[n].kind = "Leader"
                      /\ x.term = current_term[n]
                      /\ current_term'[n] = current_term[n]

\* When the disk of a node that leads may be left alone.
LeaderWritten(n) ==
    \/ disk'[n] = Persistent(n)'
    \/ /\ disk'[n] = disk[n]
       /\ r'[n].kind = "Leader" =>
            r[n].kind = "Leader" /\ current_term'[n] = current_term[n]

\* Votes on the network stay there, and so does a victory.
LEMMA WonForever ==
    ASSUME msgs \subseteq msgs', NEW n, NEW t, Won(n, t)
    PROVE  Won(n, t)'
  <1>1. \A v : Granted(v, n, t) => Granted(v, n, t)'
    BY DEF Granted
  <1> QED
    BY <1>1 DEF Won

\* Who leads or runs as before has its votes as before.
LEMMA RolesKeptWins ==
    ASSUME msgs \subseteq msgs', RolesKept, CandidateVotes, LeaderWon
    PROVE  CandidateVotes' /\ LeaderWon'
  <1>1. ASSUME NEW n \in Node, r'[n].kind = "Candidate"
        PROVE  /\ n \in r'[n].votes
               /\ \A v \in r'[n].votes \ {n} : Granted(v, n, current_term[n])'
    <2>1. r'[n] = r[n] /\ current_term'[n] = current_term[n]
      BY <1>1 DEF RolesKept
    <2> QED
      BY <1>1, <2>1 DEF CandidateVotes, Granted
  <1>2. ASSUME NEW n \in Node, r'[n].kind = "Leader"
        PROVE  Won(n, current_term[n])'
    <2>1. r[n].kind = "Leader" /\ current_term'[n] = current_term[n]
      BY <1>2 DEF RolesKept
    <2>2. PICK t : t = current_term[n] /\ Won(n, t)
      BY <2>1 DEF LeaderWon, is_leader
    <2>3. Won(n, t)'
      BY <2>2, WonForever
    <2> QED
      BY <2>1, <2>2, <2>3 DEF Won, Granted
  <1> QED
    BY <1>1, <1>2 DEF CandidateVotes, LeaderWon, is_leader

\* The step lemma.
LEMMA ElectionStep ==
    ASSUME TypeOK, TypeOK', VoteInv, ElectionInv, MemoryForward,
           NEW n \in Node, OnlyAt(n),
           NEW new, new \subseteq Message, \A x \in new : Speech(n, x),
           \A x, y \in new : ~ (IsAppend(x) /\ IsGrant(y)),
           msgs \subseteq msgs', Said' \subseteq Said \cup new,
           CandidateVotes', LeaderWon',
           MaxLatePersists = 0 => rpc'[n].phase # "handled" /\ LeaderWritten(n)
    PROVE  ElectionInv'
  <1>1. \A x \in Said : /\ x.src \in Node /\ x.dst \in Node /\ x.term \in Nat
                        /\ current_term[x.src] \in Nat
                        /\ current_term'[x.src] \in Nat
                        /\ x.src # None
    <2>1. SUFFICES ASSUME NEW x \in Said
                   PROVE  /\ x.src \in Node /\ x.dst \in Node /\ x.term \in Nat
                          /\ current_term[x.src] \in Nat
                          /\ current_term'[x.src] \in Nat
                          /\ x.src # None
      OBVIOUS
    <2>2. x.src \in Node /\ x.dst \in Node /\ x.term \in Nat
      BY SaidType, MessageType
    <2> QED
      BY <2>2, NodeAssumption DEF TypeOK
  <1>2. NotToSelf'
    BY DEF ElectionInv, NotToSelf, Speech
  <1>3. AppendWon'
    <2>1. ASSUME NEW x \in Said, IsAppend(x) PROVE Won(x.src, x.term)'
      BY <2>1, WonForever DEF ElectionInv, AppendWon
    <2>2. ASSUME NEW x \in new, IsAppend(x) PROVE Won(x.src, x.term)'
      <3>1. /\ x.src = n /\ r'[n].kind = "Leader"
            /\ x.term = current_term'[n]
        BY <2>2 DEF Speech
      <3> QED
        BY <3>1 DEF LeaderWon, is_leader, Won, Granted
    <2> QED
      BY <2>1, <2>2 DEF AppendWon, IsAppend
  <1>4. SelfVoteInMemory'
    <2>1. ASSUME NEW x \in Said, IsAppend(x)
          PROVE  \/ x.term < current_term'[x.src]
                 \/ x.term = current_term'[x.src] /\ Vote(x.src)' = x.src
      BY <1>1, <2>1 DEF ElectionInv, SelfVoteInMemory, MemoryForward
    <2>2. ASSUME NEW x \in new, IsAppend(x)
          PROVE  x.term = current_term'[x.src] /\ Vote(x.src)' = x.src
      BY <2>2 DEF Speech, Vote
    <2> QED
      BY <2>1, <2>2 DEF SelfVoteInMemory, IsAppend
  <1>5. NoOtherVote'
    <2>1. ASSUME NEW x \in Said, NEW y \in new, IsAppend(x), IsGrant(y),
                 x.src = y.src, x.term = y.term
          PROVE  FALSE
      <3>1. y.src = n /\ y.dst # n /\ Promise(y)
        BY <2>1 DEF Speech
      <3>2. x.term = current_term[n] /\ Vote(n) \in {None, y.dst}
        BY <2>1, <3>1 DEF Promise
      <3>3. Vote(n) = n /\ n # None
        BY <1>1, <2>1, <3>1, <3>2 DEF ElectionInv, SelfVoteInMemory
      <3> QED
        BY <3>1, <3>2, <3>3
    <2>2. ASSUME NEW x \in new, NEW y \in Said, IsAppend(x), IsGrant(y),
                 x.src = y.src, x.term = y.term
          PROVE  FALSE
      <3>1. /\ x.src = n /\ r[n].kind # "Follower"
            /\ x.term = current_term[n]
        BY <2>2 DEF Speech
      <3>2. KeptInMemory(y) /\ y.src # y.dst
        BY DEF VoteInv, MemoryKeeps, ElectionInv, NotToSelf
      <3>3. Vote(n) = y.dst
        <4>1. current_term[n] \in Nat /\ y.term = current_term[n] /\ y.src = n
          BY <1>1, <2>2, <3>1
        <4> QED
          BY <2>2, <3>2, <4>1 DEF KeptInMemory
      <3> QED
        BY <2>2, <3>1, <3>2, <3>3 DEF Vote
    <2>3. ASSUME NEW x \in Said', NEW y \in Said', IsAppend(x), IsGrant(y),
                 x.src = y.src
          PROVE  x.term # y.term
      <3>1. CASE x \in Said /\ y \in Said
        BY <2>3, <3>1 DEF ElectionInv, NoOtherVote
      <3> QED
        BY <2>1, <2>2, <2>3, <3>1
    <2> QED
      BY <2>3 DEF NoOtherVote, IsAppend, IsGrant
  <1>6. SelfVoteOnDisk'
    <2>1. SUFFICES ASSUME MaxLatePersists = 0
                   PROVE  /\ \A p \in Node : rpc'[p].phase # "handled"
                          /\ \A p \in Node : r'[p].kind = "Leader" =>
                               /\ disk'[p].current_term = current_term'[p]
                               /\ disk'[p].voted_for = p
                          /\ \A x \in msgs' : IsAppend(x) =>
                               \/ x.term < disk'[x.src].current_term
                               \/ /\ x.term = disk'[x.src].current_term
                                  /\ disk'[x.src].voted_for = x.src
      BY DEF SelfVoteOnDisk, is_leader, IsAppend
    <2>2. /\ \A p \in Node : rpc[p].phase # "handled"
          /\ \A p \in Node : r[p].kind = "Leader" =>
               /\ disk[p].current_term = current_term[p]
               /\ disk[p].voted_for = p
          /\ \A x \in msgs : IsAppend(x) =>
               \/ x.term < disk[x.src].current_term
               \/ /\ x.term = disk[x.src].current_term
                  /\ disk[x.src].voted_for = x.src
      BY <2>1 DEF ElectionInv, SelfVoteOnDisk, is_leader
    <2>3. \A p \in Node : rpc'[p].phase # "handled"
      BY <2>1, <2>2 DEF OnlyAt
    <2>4. ASSUME NEW p \in Node, r'[p].kind = "Leader"
          PROVE  /\ disk'[p].current_term = current_term'[p]
                 /\ disk'[p].voted_for = p
      <3>1. CASE p # n
        BY <2>2, <2>4, <3>1 DEF OnlyAt
      <3>2. CASE p = n /\ disk'[n] = Persistent(n)'
        BY <2>4, <3>2, PersistentParts DEF Vote
      <3>3. CASE p = n /\ disk'[n] = disk[n]
                 /\ r[n].kind = "Leader" /\ current_term'[n] = current_term[n]
        BY <2>2, <3>3
      <3> QED
        BY <2>1, <2>4, <3>1, <3>2, <3>3 DEF LeaderWritten
    <2>5. ASSUME NEW x \in msgs', IsAppend(x)
          PROVE  \/ x.term < disk'[x.src].current_term
                 \/ /\ x.term = disk'[x.src].current_term
                    /\ disk'[x.src].voted_for = x.src
      <3>1. x \in msgs \/ x \in new
        BY <2>2 DEF Said, Outbox
      <3>2. x \in Message /\ x.src \in Node
        BY MessageType DEF TypeOK
      <3>3. \/ x.term < current_term'[x.src]
            \/ x.term = current_term'[x.src] /\ Vote(x.src)' = x.src
        BY <1>4, <2>5 DEF SelfVoteInMemory, Said, IsAppend
      <3>4. CASE disk'[x.src] = Persistent(x.src)'
        BY <3>2, <3>3, <3>4, PersistentParts
      <3>5. CASE disk'[x.src] = disk[x.src] /\ x \in msgs
        BY <2>2, <2>5, <3>5
      <3>6. CASE x \in new
        <4>1. x.src = n /\ r'[n].kind = "Leader" /\ x.term = current_term'[n]
          BY <2>5, <3>6 DEF Speech
        <4> QED
          BY <2>4, <4>1
      <3> QED
        BY <2>1, <3>1, <3>2, <3>4, <3>5, <3>6 DEF OnlyAt, LeaderWritten
    <2> QED
      BY <2>3, <2>4, <2>5
  <1> QED
    BY <1>2, <1>3, <1>4, <1>5, <1>6 DEF ElectionInv
-----------------------------------------------------------------------------
(***************************************************************************)
(* Every action preserves the invariant.                                   *)
(***************************************************************************)

\* A handler ends with persisting and responding, now or later.
LEMMA FinishElections ==
    ASSUME TypeOK, TypeOK', VoteInv, ElectionInv, MemoryForward,
           NEW n \in Node, NEW m, NEW responses,
           rpc[n].phase # "handled", Finish(n, m, responses),
           UNCHANGED current_term, NEW x, r' = [r EXCEPT ![n] = x],
           responses \subseteq Message, \A y \in responses : Speech(n, y),
           \A y, z \in responses : ~ (IsAppend(y) /\ IsGrant(z)),
           msgs \subseteq msgs' => CandidateVotes' /\ LeaderWon'
    PROVE  ElectionInv'
  <1>1. \A p \in Node \ {n} : r'[p] = r[p]
    BY DEF TypeOK
  <1>2. CASE FinishNow(n, m, responses)
    <2>1. /\ msgs' = msgs \cup responses
          /\ disk' = [disk EXCEPT ![n] = Persistent(n)']
          /\ rpc' = [rpc EXCEPT ![n] = Idle]
      BY <1>2 DEF FinishNow
    <2>2. /\ disk'[n] = Persistent(n)'
          /\ rpc'[n].phase = "idle"
          /\ \A p \in Node \ {n} : disk'[p] = disk[p] /\ rpc'[p] = rpc[p]
      BY <2>1 DEF TypeOK, Idle
    <2>3. OnlyAt(n) /\ LeaderWritten(n)
      BY <1>1, <2>2 DEF OnlyAt, LeaderWritten
    <2>4. Outbox(n)' = {} /\ \A p \in Node \ {n} : Outbox(p)' = Outbox(p)
      BY <2>2 DEF Outbox
    <2>5. Said' \subseteq Said \cup responses
      BY <2>1, <2>4 DEF Said
    <2> QED
      BY <2>1, <2>2, <2>3, <2>5, ElectionStep
  <1>3. CASE FinishLater(n, m, responses)
    <2>1. /\ UNCHANGED <<disk, msgs>>
          /\ rpc' = [rpc EXCEPT ![n] =
                       [phase |-> "handled", work |-> responses]]
          /\ MaxLatePersists # 0
      BY <1>3, BoundAssumption DEF FinishLater, TypeOK
    <2>2. /\ rpc'[n].phase = "handled" /\ rpc'[n].work = responses
          /\ \A p \in Node \ {n} : rpc'[p] = rpc[p]
      BY <2>1 DEF TypeOK
    <2>3. OnlyAt(n)
      BY <1>1, <2>1, <2>2 DEF OnlyAt
    <2>4. Outbox(n)' = responses /\ \A p \in Node \ {n} : Outbox(p)' = Outbox(p)
      BY <2>2 DEF Outbox
    <2>5. Said' \subseteq Said \cup responses
      BY <2>1, <2>4 DEF Said
    <2> QED
      BY <2>1, <2>3, <2>5, ElectionStep
  <1> QED
    BY <1>2, <1>3 DEF Finish

\* A handler after which nobody leads or is a candidate who was not before.
LEMMA QuietHandlerElections ==
    ASSUME TypeOK, TypeOK', VoteInv, ElectionInv, MemoryForward,
           NEW n \in Node, NEW m, NEW responses,
           rpc[n].phase # "handled", Finish(n, m, responses),
           UNCHANGED current_term, NEW x, r' = [r EXCEPT ![n] = x],
           x.kind = "Candidate" => x = r[n],
           x.kind = "Leader" => r[n].kind = "Leader",
           responses \subseteq Message, \A y \in responses : Speech(n, y),
           \A y, z \in responses : ~ (IsAppend(y) /\ IsGrant(z))
    PROVE  ElectionInv'
  <1>1. RolesKept
    BY DEF RolesKept, TypeOK
  <1>2. msgs \subseteq msgs' => CandidateVotes' /\ LeaderWon'
    BY <1>1, RolesKeptWins DEF ElectionInv
  <1> QED
    BY <1>2, FinishElections

\* A handler that leaves the role alone and sends nothing.
LEMMA SilentHandlerElections ==
    ASSUME TypeOK, TypeOK', VoteInv, ElectionInv, MemoryForward,
           NEW n \in Node, NEW m, rpc[n].phase # "handled",
           Finish(n, m, {}), UNCHANGED <<current_term, r>>
    PROVE  ElectionInv'
  <1> DEFINE responses == {}
  <1>1. /\ Finish(n, m, responses) /\ responses \subseteq Message
        /\ \A y \in responses : Speech(n, y)
        /\ \A y, z \in responses : ~ (IsAppend(y) /\ IsGrant(z))
    OBVIOUS
  <1>2. r' = [r EXCEPT ![n] = r[n]]
    BY DEF TypeOK
  <1> HIDE DEF responses
  <1> QED
    BY <1>1, <1>2, QuietHandlerElections

\* A step of another thread, or of the RPC thread before its handler.
LEMMA QuietStepElections ==
    ASSUME TypeOK, TypeOK', VoteInv, ElectionInv, MemoryForward,
           NEW n \in Node, UNCHANGED disk, msgs \subseteq msgs',
           \A p \in Node \ {n} : /\ current_term'[p] = current_term[p]
                                 /\ r'[p] = r[p]
                                 /\ rpc'[p] = rpc[p],
           rpc'[n].phase # "handled" \/ rpc'[n] = rpc[n],
           r'[n].kind = "Leader" =>
               r[n].kind = "Leader" /\ current_term'[n] = current_term[n],
           CandidateVotes', LeaderWon',
           \A y \in msgs' : y \in msgs \/ (~ IsGrant(y) /\ Speech(n, y))
    PROVE  ElectionInv'
  <1> DEFINE new == msgs' \ msgs
  <1>1. OnlyAt(n) /\ LeaderWritten(n)
    BY DEF OnlyAt, LeaderWritten
  <1>2. \A p \in Node : Outbox(p)' \subseteq Outbox(p)
    BY DEF Outbox
  <1>3. Said' \subseteq Said \cup new
    BY <1>2 DEF Said
  <1>4. MaxLatePersists = 0 => rpc'[n].phase # "handled" /\ LeaderWritten(n)
    BY <1>1 DEF ElectionInv, SelfVoteOnDisk
  <1>5. /\ new \subseteq Message
        /\ \A y \in new : Speech(n, y) /\ ~ IsGrant(y)
        /\ \A y, z \in new : ~ (IsAppend(y) /\ IsGrant(z))
    BY DEF TypeOK
  <1> QED
    BY <1>1, <1>3, <1>4, <1>5, ElectionStep

\* become_candidate: a candidate has its own vote and no other.
LEMMA BecomeCandidateElections ==
    ASSUME TypeOK, TypeOK', VoteInv, ElectionInv, NEW n \in Node,
           BecomeCandidate(n)
    PROVE  ElectionInv'
  <1>1. MemoryForward
    BY TermForwardVotes
  <1>2. /\ msgs' = msgs \cup RequestVotes(n, current_term[n] + 1)
        /\ UNCHANGED <<disk, rpc>>
        /\ r'[n] = Candidate({n})
        /\ \A p \in Node \ {n} : /\ current_term'[p] = current_term[p]
                              /\ r'[p] = r[p]
    BY DEF BecomeCandidate, TypeOK
  <1>3. \A y \in RequestVotes(n, current_term[n] + 1) :
           y.src = n /\ y.dst # n /\ ~ IsGrant(y) /\ ~ IsAppend(y)
    BY DEF RequestVotes, Peers, IsGrant, IsAppend
  <1>4. \A y \in msgs' : y \in msgs \/ (~ IsGrant(y) /\ Speech(n, y))
    BY <1>2, <1>3 DEF Speech
  <1>5. /\ r'[n].kind = "Candidate" /\ r'[n].votes = {n}
        /\ msgs \subseteq msgs'
    BY <1>2 DEF Candidate
  <1>6. CandidateVotes'
    <2>1. SUFFICES ASSUME NEW p \in Node, r'[p].kind = "Candidate"
                   PROVE  /\ p \in r'[p].votes
                          /\ \A v \in r'[p].votes \ {p} :
                               Granted(v, p, current_term[p])'
      BY DEF CandidateVotes
    <2>2. CASE p = n
      BY <1>5, <2>2
    <2>3. CASE p # n
      BY <1>2, <1>5, <2>1, <2>3 DEF ElectionInv, CandidateVotes, Granted
    <2> QED
      BY <2>2, <2>3
  <1>7. LeaderWon'
    <2>1. SUFFICES ASSUME NEW p \in Node, r'[p].kind = "Leader"
                   PROVE  Won(p, current_term[p])'
      BY DEF LeaderWon, is_leader
    <2>2. p # n /\ r[p].kind = "Leader" /\ current_term'[p] = current_term[p]
      BY <1>2, <1>5, <2>1
    <2>3. PICK t : t = current_term[p] /\ Won(p, t)
      BY <2>2 DEF ElectionInv, LeaderWon, is_leader
    <2>4. Won(p, t)'
      BY <1>5, <2>3, WonForever
    <2> QED
      BY <2>2, <2>3, <2>4 DEF Won, Granted
  <1> QED
    BY <1>1, <1>2, <1>4, <1>5, <1>6, <1>7, QuietStepElections

\* maybe_step_down: who steps down leads no more.
LEMMA MaybeStepDownElections ==
    ASSUME TypeOK, TypeOK', VoteInv, ElectionInv, NEW n \in Node,
           NEW m \in msgs, MaybeStepDown(n, m)
    PROVE  ElectionInv'
  <1>1. MemoryForward
    BY TermForwardVotes
  <1>2. /\ r'[n].kind = "Follower" /\ rpc'[n].phase = "stepped"
        /\ UNCHANGED <<disk, msgs>>
        /\ \A p \in Node \ {n} : /\ current_term'[p] = current_term[p]
                              /\ r'[p] = r[p]
                              /\ rpc'[p] = rpc[p]
    BY DEF MaybeStepDown, become_follower, Follower, TypeOK
  <1>3. CandidateVotes' /\ LeaderWon'
    <2>1. RolesKept
      BY <1>2 DEF RolesKept
    <2> QED
      BY <1>2, <2>1, RolesKeptWins DEF ElectionInv
  <1> QED
    BY <1>1, <1>2, <1>3, QuietStepElections

\* handle_vote_request: who has led in this term grants nobody its vote.
LEMMA HandleVoteRequestElections ==
    ASSUME TypeOK, TypeOK', VoteInv, ElectionInv, NEW n \in Node,
           NEW m \in msgs, HandleVoteRequest(n, m)
    PROVE  ElectionInv'
  <1> DEFINE responses == {RequestVoteResponse(n, m, GrantsVote(n, m))}
  <1>1. rpc[n].phase # "handled" /\ m.dst = n
    BY HandlingPhase DEF HandleVoteRequest
  <1>2. UNCHANGED current_term /\ Finish(n, m, responses)
    BY DEF HandleVoteRequest
  <1>3. PICK x : /\ r' = [r EXCEPT ![n] = x]
                 /\ x.kind = r[n].kind
                 /\ x.kind # "Follower" => x = r[n]
    BY VoteRequestPromise
  <1>4. m.src # n
    BY <1>1 DEF ElectionInv, NotToSelf, Said
  <1>5. ASSUME NEW y \in responses
        PROVE  y \in Message /\ Speech(n, y) /\ ~ IsAppend(y)
    BY <1>4, VoteRequestPromise DEF Speech, IsAppend
  <1>6. MemoryForward
    BY VoteRequestPromise
  <1> HIDE DEF responses
  <1>7. /\ responses \subseteq Message /\ \A y \in responses : Speech(n, y)
        /\ \A y, z \in responses : ~ (IsAppend(y) /\ IsGrant(z))
    BY <1>5
  <1> QED
    BY <1>1, <1>2, <1>3, <1>6, <1>7, QuietHandlerElections

\* handle_vote_response: a vote is counted that is on the network, and who
\* wins by won_election has won.
LEMMA HandleVoteResponseElections ==
    ASSUME TypeInv, TypeOK', VoteInv, ElectionInv, NEW n \in Node,
           NEW m \in msgs, HandleVoteResponse(n, m)
    PROVE  ElectionInv'
  <1>1. /\ rpc[n].phase # "handled" /\ TypeOK /\ m \in Message
        /\ m.src \in Node /\ m.dst = n /\ m.type = "RequestVoteResponse"
        /\ r[n] \in Role(n) /\ log[n] \in Seq(Entry) /\ Len(log[n]) \in Nat
    BY HandlingPhase, NodeType DEF TypeInv, HandleVoteResponse
  <1>2. MemoryForward
    BY HandleVoteResponseVotes
  <1>3. CASE CountVote(n, m)
    <2> DEFINE votes == r[n].votes \cup {m.src}
               won == WonElection(Cardinality(votes), Cardinality(Node))
               x == IF won THEN NewLeader(n) ELSE Candidate(votes)
               all == replicate_log(n, log[n], InitialNext(n), TRUE)
               sent == IF won THEN all ELSE {}
    <2>1. /\ r' = [r EXCEPT ![n] = x] /\ UNCHANGED current_term
          /\ Finish(n, m, sent)
          /\ r[n].kind = "Candidate" /\ m.vote_granted
          /\ m.term = current_term[n]
      BY <1>3 DEF CountVote, CountsVote
    <2>2. /\ won => x.kind = "Leader"
          /\ ~ won => x.kind = "Candidate" /\ x.votes = votes
      BY DEF NewLeader, Leader, Candidate
    <2>3. /\ votes \in SUBSET Node /\ n \in votes
          /\ \A v \in votes \ {n} : Granted(v, n, current_term[n])
      BY <1>1, <2>1, RoleType DEF ElectionInv, CandidateVotes, Granted
    <2>4. r'[n] = x /\ \A p \in Node \ {n} : r'[p] = r[p]
      BY <1>1, <2>1 DEF TypeOK
    <2>5. ASSUME msgs \subseteq msgs' PROVE CandidateVotes' /\ LeaderWon'
      <3>1. \A v, p, t : Granted(v, p, t) => Granted(v, p, t)'
        BY <2>5 DEF Granted
      <3>2. CandidateVotes'
        <4>1. SUFFICES ASSUME NEW p \in Node, r'[p].kind = "Candidate"
                       PROVE  /\ p \in r'[p].votes
                              /\ \A v \in r'[p].votes \ {p} :
                                   Granted(v, p, current_term[p])'
          BY DEF CandidateVotes
        <4>2. CASE p = n
          <5>1. r'[n].votes = votes
            BY <2>2, <2>4, <4>1, <4>2
          <5> HIDE DEF votes
          <5> QED
            BY <2>1, <2>3, <2>5, <4>2, <5>1 DEF Granted
        <4>3. CASE p # n
          BY <2>1, <2>4, <2>5, <4>1, <4>3 DEF ElectionInv, CandidateVotes, Granted
        <4> QED
          BY <4>2, <4>3
      <3>3. LeaderWon'
        <4>1. SUFFICES ASSUME NEW p \in Node, r'[p].kind = "Leader"
                       PROVE  Won(p, current_term[p])'
          BY DEF LeaderWon, is_leader
        <4>2. PICK t : t = current_term[p]
          OBVIOUS
        <4>3. Won(p, t)
          <5>1. CASE p = n
            <6>1. won
              BY <2>2, <2>4, <4>1, <5>1
            <6> HIDE DEF votes
            <6> QED
              BY <2>3, <4>2, <5>1, <6>1 DEF Won
          <5>2. CASE p # n
            BY <2>4, <4>1, <4>2, <5>2 DEF ElectionInv, LeaderWon, is_leader
          <5> QED
            BY <5>1, <5>2
        <4>4. Won(p, t)'
          BY <2>5, <4>3, WonForever
        <4> QED
          BY <2>1, <4>2, <4>4 DEF Won, Granted
      <3> QED
        BY <3>2, <3>3
    <2>6. ASSUME NEW y \in sent
          PROVE  y \in Message /\ Speech(n, y) /\ ~ IsGrant(y)
      <3>1. won /\ y \in all
        BY <2>6
      <3>2. InitialNext(n) \in [Peers(n) -> Nat \ {0}]
        BY <1>1 DEF InitialNext, HighestIndex
      <3>3. all \subseteq Message
        BY <1>1, <3>2, ReplicateType
      <3>4. /\ y.src = n /\ y.type = "AppendEntries"
            /\ y.term = current_term[n] /\ y.dst \in Peers(n)
        BY <3>1 DEF replicate_log, AppendEntriesTo
      <3>5. r'[n].kind = "Leader" /\ current_term'[n] = current_term[n]
        BY <2>1, <2>2, <2>4, <3>1
      <3> QED
        BY <2>1, <3>1, <3>3, <3>4, <3>5 DEF Speech, IsGrant, IsAppend, Peers
    <2>7. /\ sent \subseteq Message /\ \A y \in sent : Speech(n, y)
          /\ \A y, z \in sent : ~ (IsAppend(y) /\ IsGrant(z))
      BY <2>6
    <2> HIDE DEF sent, x
    <2> QED
      BY <1>1, <1>2, <2>1, <2>5, <2>7, FinishElections
  <1>4. CASE IgnoreVote(n, m)
    <2>1. UNCHANGED <<current_term, r>> /\ Finish(n, m, {})
      BY <1>4 DEF IgnoreVote
    <2> QED
      BY <1>1, <1>2, <2>1, SilentHandlerElections
  <1> QED
    BY <1>3, <1>4 DEF HandleVoteResponse

\* The response to a replication, from a node that leaves its role alone or
\* becomes a follower.
LEMMA AppendResponseElections ==
    ASSUME TypeOK, TypeOK', VoteInv, ElectionInv, MemoryForward,
           NEW n \in Node, NEW m \in msgs, Handling(n, m, "AppendEntries"),
           NEW lg \in Seq(Entry), NEW success \in BOOLEAN,
           Finish(n, m, {AppendEntriesResponse(n, m, lg, success)}),
           UNCHANGED current_term, NEW x, r' = [r EXCEPT ![n] = x],
           x = r[n] \/ x.kind = "Follower"
    PROVE  ElectionInv'
  <1> DEFINE responses == {AppendEntriesResponse(n, m, lg, success)}
  <1>1. rpc[n].phase # "handled" /\ m \in Message /\ m.dst = n
    BY HandlingPhase
  <1>2. m.src # n
    BY <1>1 DEF ElectionInv, NotToSelf, Said
  <1>3. responses \subseteq Message
    BY <1>1, AppendEntriesResponseType
  <1>4. \A y \in responses : Speech(n, y) /\ ~ IsAppend(y)
    BY <1>2 DEF AppendEntriesResponse, Speech, IsAppend, IsGrant
  <1>5. \A y, z \in responses : ~ (IsAppend(y) /\ IsGrant(z))
    BY <1>4
  <1>6. Finish(n, m, responses)
    OBVIOUS
  <1> HIDE DEF responses
  <1> QED
    BY <1>1, <1>3, <1>4, <1>5, <1>6, QuietHandlerElections

\* handle_append_entries: nobody becomes a leader.
LEMMA HandleAppendEntriesElections ==
    ASSUME TypeInv, TypeOK', VoteInv, ElectionInv, NEW n \in Node,
           NEW m \in msgs, HandleAppendEntries(n, m)
    PROVE  ElectionInv'
  <1>1. /\ TypeOK /\ m \in Message /\ m.src \in Node
        /\ m.type = "AppendEntries"
        /\ log[n] \in Seq(Entry) /\ r[n] \in Role(n)
        /\ Handling(n, m, "AppendEntries")
    BY HandlingPhase, NodeType DEF TypeInv, HandleAppendEntries
  <1>2. MemoryForward
    BY HandleAppendEntriesVotes
  <1>3. RecognizeLeader(n, m).kind = "Follower"
    BY <1>1, BecomeFollowerType DEF RecognizeLeader
  <1>4. CASE StaleAppend(n, m)
    <2>1. /\ UNCHANGED <<current_term, r>>
          /\ Finish(n, m, {AppendEntriesResponse(n, m, log[n], FALSE)})
      BY <1>4 DEF StaleAppend
    <2>2. r' = [r EXCEPT ![n] = r[n]]
      BY <1>1, <2>1 DEF TypeOK
    <2> QED
      BY <1>1, <1>2, <2>1, <2>2, AppendResponseElections
  <1>5. CASE SecondLeader(n, m)
    <2>1. /\ UNCHANGED <<msgs, current_term, r, disk>>
          /\ rpc'[n].phase = "panicked"
          /\ \A p \in Node : p # n => rpc'[p] = rpc[p]
      BY <1>1, <1>5 DEF SecondLeader, Panic, TypeOK
    <2>2. CandidateVotes' /\ LeaderWon'
      <3>1. RolesKept
        BY <2>1 DEF RolesKept
      <3> QED
        BY <2>1, <3>1, RolesKeptWins DEF ElectionInv
    <2> QED
      BY <1>1, <1>2, <2>1, <2>2, QuietStepElections
  <1>6. CASE RejectAppend(n, m)
    <2>1. /\ r' = [r EXCEPT ![n] = RecognizeLeader(n, m)]
          /\ UNCHANGED current_term
          /\ Finish(n, m, {AppendEntriesResponse(n, m, log[n], FALSE)})
      BY <1>6 DEF RejectAppend
    <2> QED
      BY <1>1, <1>2, <1>3, <2>1, AppendResponseElections
  <1>7. CASE AcceptAppend(n, m)
    <2> DEFINE lg == ReplaceFrom(log[n], m.prev_log_index + 1, m.entries)
    <2>1. /\ r' = [r EXCEPT ![n] = RecognizeLeader(n, m)]
          /\ UNCHANGED current_term
      BY <1>7 DEF AcceptAppend
    <2>2. CASE Overtaken(n, m, lg)
      <3>1. /\ UNCHANGED <<msgs, disk>>
            /\ rpc' = [rpc EXCEPT ![n] = [phase |-> "panicked", work |-> {}]]
        BY <1>7, <2>2 DEF AcceptAppend, Panic
      <3>2. /\ rpc'[n].phase = "panicked" /\ r'[n].kind = "Follower"
            /\ \A p \in Node \ {n} : rpc'[p] = rpc[p] /\ r'[p] = r[p]
        BY <1>1, <1>3, <2>1, <3>1 DEF TypeOK
      <3>3. CandidateVotes' /\ LeaderWon'
        <4>1. RolesKept
          BY <2>1, <3>2 DEF RolesKept
        <4> QED
          BY <3>1, <4>1, RolesKeptWins DEF ElectionInv
      <3> QED
        BY <1>1, <1>2, <2>1, <3>1, <3>2, <3>3, QuietStepElections
    <2>3. CASE ~ Overtaken(n, m, lg)
      <3>1. Finish(n, m, {AppendEntriesResponse(n, m, lg, TRUE)})
        BY <1>7, <2>3 DEF AcceptAppend
      <3>2. lg \in Seq(Entry)
        <4>1. m.entries \in Seq(Entry) /\ m.prev_log_index + 1 \in Nat \ {0}
          BY <1>1, MessageType
        <4> QED
          BY <1>1, <4>1, ReplaceFromType
      <3> HIDE DEF lg
      <3> QED
        BY <1>1, <1>2, <1>3, <2>1, <3>1, <3>2, AppendResponseElections
    <2> QED
      BY <2>2, <2>3
  <1> QED
    BY <1>4, <1>5, <1>6, <1>7 DEF HandleAppendEntries

\* handle_append_entries_response: a leader repeats itself.
LEMMA HandleAppendEntriesResponseElections ==
    ASSUME TypeInv, TypeOK', VoteInv, ElectionInv, NEW n \in Node,
           NEW m \in msgs, HandleAppendEntriesResponse(n, m)
    PROVE  ElectionInv'
  <1>1. /\ rpc[n].phase # "handled" /\ TypeOK
        /\ r[n] \in Role(n) /\ log[n] \in Seq(Entry)
    BY HandlingPhase, NodeType DEF TypeInv, HandleAppendEntriesResponse
  <1>2. MemoryForward
    BY HandleAppendEntriesResponseVotes
  <1>3. CASE RetryAppend(n, m)
    <2> DEFINE next == [r[n].next_indexes EXCEPT ![m.src] = DecFloored(@)]
               x == Leader(next, r[n].match_indexes)
    <2>1. /\ r' = [r EXCEPT ![n] = x]
          /\ UNCHANGED current_term
          /\ r[n].kind = "Leader" /\ x.kind = "Leader"
      BY <1>3 DEF RetryAppend, is_leader, Leader
    <2>2. PICK sent \in Replications(n, log[n], next) : Finish(n, m, sent)
      BY <1>3 DEF RetryAppend
    <2>3. next \in [Peers(n) -> Nat \ {0}]
      <3>1. r[n].next_indexes \in [Peers(n) -> Nat \ {0}]
        BY <1>1, <2>1, RoleType
      <3>2. \A i \in Nat \ {0} : DecFloored(i) \in Nat \ {0}
        BY DEF DecFloored
      <3> QED
        BY <3>1, <3>2
    <2> HIDE DEF next, x
    <2>4. r'[n].kind = "Leader" /\ current_term'[n] = current_term[n]
      BY <1>1, <2>1 DEF TypeOK
    <2>5. sent \subseteq Message
      BY <1>1, <2>3, ReplicationsType
    <2>6. \A y \in sent : Speech(n, y) /\ ~ IsGrant(y)
      BY <2>1, <2>4, ReplicationsQuiet DEF Speech, IsGrant, IsAppend, Peers
    <2> QED
      BY <1>1, <1>2, <2>1, <2>2, <2>5, <2>6, QuietHandlerElections
  <1>4. CASE AdvanceMatch(n, m)
    <2> DEFINE next == [r[n].next_indexes EXCEPT ![m.src] = m.index + 1]
               match == [r[n].match_indexes EXCEPT ![m.src] = m.index]
               x == Leader(next, match)
               sent == {}
    <2>1. r' = [r EXCEPT ![n] = x] /\ x.kind = "Leader"
      BY <1>4 DEF AdvanceMatch, Leader
    <2> HIDE DEF x
    <2>2. UNCHANGED current_term /\ r[n].kind = "Leader" /\ Finish(n, m, sent)
      BY <1>4 DEF AdvanceMatch, is_leader
    <2>3. sent \subseteq Message /\ \A y \in sent : Speech(n, y) /\ ~ IsGrant(y)
      OBVIOUS
    <2> HIDE DEF sent
    <2> QED
      BY <1>1, <1>2, <2>1, <2>2, <2>3, QuietHandlerElections
  <1>5. CASE IgnoreAppendResponse(n, m)
    <2>1. UNCHANGED <<current_term, r>> /\ Finish(n, m, {})
      BY <1>5 DEF IgnoreAppendResponse
    <2> QED
      BY <1>1, <1>2, <2>1, SilentHandlerElections
  <1> QED
    BY <1>3, <1>4, <1>5 DEF HandleAppendEntriesResponse

\* The threads that only read the role: only a leader sends.
LEMMA OtherThreadsElections ==
    ASSUME TypeInv, TypeOK', VoteInv, ElectionInv, NEW n \in Node,
           \/ ReplicateLog(n)
           \/ \E c \in Request : ClientRequest(n, c) \/ ClientCheck(n, c)
                                                   \/ ClientAppend(n, c)
    PROVE  ElectionInv'
  <1>1. MemoryForward /\ TypeOK
    BY OtherThreadsVotes DEF TypeInv
  <1>2. /\ UNCHANGED <<current_term, r, disk, rpc>>
        /\ msgs \subseteq msgs'
        /\ \A y \in msgs' : y \in msgs \/ (~ IsGrant(y) /\ Speech(n, y))
    <2>1. CASE ReplicateLog(n)
      <3>1. PICK hb \in BOOLEAN :
              msgs' = msgs \cup replicate_log(n, log[n], r[n].next_indexes, hb)
        BY <2>1 DEF ReplicateLog
      <3>2. UNCHANGED <<current_term, r, disk, rpc>> /\ r[n].kind = "Leader"
        BY <2>1 DEF ReplicateLog, is_leader
      <3>3. \A y \in replicate_log(n, log[n], r[n].next_indexes, hb) :
               ~ IsGrant(y) /\ Speech(n, y)
        BY <3>2 DEF replicate_log, AppendEntriesTo, IsGrant, Speech, IsAppend,
                    Peers
      <3> QED
        BY <3>1, <3>2, <3>3
    <2>2. ASSUME NEW c \in Request, AppendAndReplicate(n, c),
                 UNCHANGED <<current_term, r>>
          PROVE  /\ msgs \subseteq msgs'
                 /\ \A y \in msgs' : y \in msgs \/ (~ IsGrant(y) /\ Speech(n, y))
      <3>1. CASE is_leader(n)
        <4>1. PICK sent \in Replications(n, append(n, c), r[n].next_indexes) :
                msgs' = msgs \cup sent
          BY <2>2, <3>1 DEF AppendAndReplicate
        <4>2. \A y \in sent : ~ IsGrant(y) /\ Speech(n, y)
          BY <2>2, <3>1, ReplicationsQuiet
             DEF IsGrant, Speech, IsAppend, Peers, is_leader
        <4> QED
          BY <4>1, <4>2
      <3>2. CASE ~ is_leader(n)
        BY <2>2, <3>2 DEF AppendAndReplicate
      <3> QED
        BY <3>1, <3>2
    <2>3. ASSUME NEW c \in Request,
                 ClientRequest(n, c) \/ ClientCheck(n, c) \/ ClientAppend(n, c)
          PROVE  <1>2!1 /\ <1>2!2 /\ <1>2!3
      BY <2>2, <2>3 DEF ClientRequest, ClientCheck, ClientAppend
    <2> QED
      BY <2>1, <2>3
  <1>3. CandidateVotes' /\ LeaderWon'
    <2>1. RolesKept
      BY <1>2 DEF RolesKept
    <2> QED
      BY <1>2, <2>1, RolesKeptWins DEF ElectionInv
  <1> QED
    BY <1>1, <1>2, <1>3, QuietStepElections

\* The late write to disk, and its failure.
LEMMA PersistElections ==
    ASSUME TypeOK, TypeOK', VoteInv, ElectionInv, NEW n \in Node,
           Persist(n) \/ FailPersist(n)
    PROVE  ElectionInv'
  <1> DEFINE new == {}
  <1>1. MemoryForward
    BY PersistVotes
  <1>2. /\ UNCHANGED <<current_term, r>>
        /\ rpc[n].phase = "handled" /\ rpc' = [rpc EXCEPT ![n] = Idle]
        /\ disk' = disk \/ disk' = [disk EXCEPT ![n] = Persistent(n)]
        /\ msgs \subseteq msgs' /\ msgs' \subseteq msgs \cup rpc[n].work
    BY DEF Persist, FailPersist
  <1>3. OnlyAt(n) /\ rpc'[n].phase = "idle"
    BY <1>2 DEF OnlyAt, TypeOK, Idle
  <1>4. MaxLatePersists # 0
    BY <1>2 DEF ElectionInv, SelfVoteOnDisk
  <1>5. Outbox(n)' = {} /\ \A p \in Node \ {n} : Outbox(p)' = Outbox(p)
    BY <1>3 DEF Outbox, OnlyAt
  <1>6. Said' \subseteq Said \cup new
    BY <1>2, <1>5 DEF Said, Outbox
  <1>7. CandidateVotes' /\ LeaderWon'
    <2>1. RolesKept
      BY <1>2 DEF RolesKept
    <2> QED
      BY <1>2, <2>1, RolesKeptWins DEF ElectionInv
  <1>8. /\ new \subseteq Message /\ \A x \in new : Speech(n, x)
        /\ \A x, y \in new : ~ (IsAppend(x) /\ IsGrant(y))
    OBVIOUS
  <1> HIDE DEF new
  <1> QED
    BY <1>1, <1>2, <1>3, <1>4, <1>6, <1>7, <1>8, ElectionStep

\* A crash is harmless when writes are prompt: who has led has its vote on
\* disk.
LEMMA CrashElections ==
    ASSUME TypeOK, TypeOK', VoteInv, ElectionInv, NEW n \in Node, Crash(n),
           MaxLatePersists = 0
    PROVE  ElectionInv'
  <1>1. /\ UNCHANGED <<msgs, disk>>
        /\ current_term'[n] = disk[n].current_term
        /\ r'[n] = Follower(None, disk[n].voted_for)
        /\ rpc'[n].phase = "idle"
        /\ \A p \in Node : p # n => /\ current_term'[p] = current_term[p]
                                   /\ r'[p] = r[p]
                                   /\ rpc'[p] = rpc[p]
    BY DEF Crash, TypeOK, Idle
  <1>2. /\ Vote(n)' = disk[n].voted_for /\ r'[n].kind = "Follower"
        /\ \A p \in Node : p # n => Vote(p)' = Vote(p)
    BY <1>1 DEF Vote, Follower
  <1>3. Said' = msgs /\ Said = msgs
    BY <1>1 DEF Said, Outbox, ElectionInv, SelfVoteOnDisk
  <1>4. \A x \in msgs : x.src \in Node
    BY MessageType DEF TypeOK
  <1>5. CandidateVotes' /\ LeaderWon'
    <2>1. RolesKept
      BY <1>1, <1>2 DEF RolesKept
    <2> QED
      BY <1>1, <2>1, RolesKeptWins DEF ElectionInv
  <1>6. NotToSelf' /\ NoOtherVote'
    BY <1>3 DEF ElectionInv, NotToSelf, NoOtherVote
  <1>7. AppendWon'
    <2>1. ASSUME NEW x \in msgs, IsAppend(x) PROVE Won(x.src, x.term)'
      BY <1>1, <1>3, <2>1, WonForever DEF ElectionInv, AppendWon
    <2> QED
      BY <1>3, <2>1 DEF AppendWon, IsAppend
  <1>8. SelfVoteInMemory'
    <2>1. SUFFICES ASSUME NEW x \in msgs, IsAppend(x)
                   PROVE  \/ x.term < current_term'[x.src]
                          \/ /\ x.term = current_term'[x.src]
                             /\ Vote(x.src)' = x.src
      BY <1>3 DEF SelfVoteInMemory, IsAppend
    <2>2. CASE x.src = n
      BY <1>1, <1>2, <2>1, <2>2 DEF ElectionInv, SelfVoteOnDisk
    <2>3. CASE x.src # n
      BY <1>1, <1>2, <1>3, <1>4, <2>1, <2>3 DEF ElectionInv, SelfVoteInMemory
    <2> QED
      BY <2>2, <2>3
  <1>9. SelfVoteOnDisk'
    BY <1>1, <1>2 DEF ElectionInv, SelfVoteOnDisk, is_leader
  <1> QED
    BY <1>5, <1>6, <1>7, <1>8, <1>9 DEF ElectionInv

\* Nobody leads at first.
LEMMA InitElections == Init => ElectionInv
  <1> SUFFICES ASSUME Init PROVE ElectionInv
    OBVIOUS
  <1>1. /\ msgs = {} /\ \A n \in Node : Outbox(n) = {}
        /\ \A n \in Node : r[n].kind = "Follower" /\ rpc[n].phase = "idle"
    BY DEF Init, Outbox, Idle, Follower
  <1> QED
    BY <1>1 DEF ElectionInv, NotToSelf, CandidateVotes, LeaderWon, AppendWon,
                SelfVoteInMemory, NoOtherVote, SelfVoteOnDisk, Said, is_leader

\* Every step preserves the invariant, if crashes or late writes are ruled out.
LEMMA NextElections ==
    ASSUME MaxCrashes = 0 \/ MaxLatePersists = 0
    PROVE  TypeInv /\ TypeInv' /\ VoteInv /\ ElectionInv /\ [Next]_vars
             => ElectionInv'
  <1> SUFFICES ASSUME TypeInv, TypeInv', VoteInv, ElectionInv, [Next]_vars
               PROVE  ElectionInv'
    OBVIOUS
  <1>1. TypeOK /\ TypeOK'
    BY DEF TypeInv
  <1>2. CASE UNCHANGED vars
    <2>1. UNCHANGED <<msgs, current_term, r, rpc, disk>>
      BY <1>2 DEF vars
    <2>2. RolesKept
      BY <2>1 DEF RolesKept
    <2>3. CandidateVotes' /\ LeaderWon'
      BY <2>1, <2>2, RolesKeptWins DEF ElectionInv
    <2>4. Said' = Said /\ \A n : Vote(n)' = Vote(n)
      BY <2>1 DEF Said, Outbox, Vote
    <2>5. AppendWon'
      <3>1. ASSUME NEW x \in Said, IsAppend(x) PROVE Won(x.src, x.term)'
        BY <2>1, <3>1, WonForever DEF ElectionInv, AppendWon
      <3> QED
        BY <2>4, <3>1 DEF AppendWon, IsAppend
    <2>6. NotToSelf' /\ SelfVoteInMemory' /\ NoOtherVote'
      BY <2>1, <2>4 DEF ElectionInv, NotToSelf, SelfVoteInMemory, NoOtherVote
    <2>7. SelfVoteOnDisk'
      BY <2>1 DEF ElectionInv, SelfVoteOnDisk, is_leader
    <2> QED
      BY <2>3, <2>5, <2>6, <2>7 DEF ElectionInv
  <1>3. CASE Next
    <2>1. PICK n \in Node :
            \/ BecomeCandidate(n)
            \/ ReplicateLog(n)
            \/ \E m \in msgs : Receive(n, m)
            \/ Persist(n)
            \/ FailPersist(n)
            \/ \E c \in Request : ClientRequest(n, c)
                                \/ ClientCheck(n, c)
                                \/ ClientAppend(n, c)
            \/ Crash(n)
      BY <1>3 DEF Next
    <2>2. CASE BecomeCandidate(n)
      BY <1>1, <2>2, BecomeCandidateElections
    <2>3. CASE \/ ReplicateLog(n)
               \/ \E c \in Request : ClientRequest(n, c)
                                   \/ ClientCheck(n, c)
                                   \/ ClientAppend(n, c)
      BY <1>1, <2>3, OtherThreadsElections
    <2>4. ASSUME NEW m \in msgs, Receive(n, m) PROVE ElectionInv'
      BY <1>1, <2>4, MaybeStepDownElections, HandleVoteRequestElections,
         HandleVoteResponseElections, HandleAppendEntriesElections,
         HandleAppendEntriesResponseElections DEF Receive
    <2>5. CASE Persist(n) \/ FailPersist(n)
      BY <1>1, <2>5, PersistElections
    <2>6. CASE Crash(n)
      <3>1. MaxCrashes # 0
        BY <1>1, <2>6, BoundAssumption DEF Crash, TypeOK
      <3> QED
        BY <1>1, <2>6, <3>1, CrashElections
    <2> QED
      BY <2>1, <2>2, <2>3, <2>4, <2>5, <2>6
  <1> QED
    BY <1>2, <1>3
-----------------------------------------------------------------------------
\* Two majorities of the cluster share a node (won_election).
LEMMA MajoritiesMeet ==
    ASSUME NEW P \in SUBSET Node, NEW Q \in SUBSET Node,
           WonElection(Cardinality(P), Cardinality(Node)),
           WonElection(Cardinality(Q), Cardinality(Node))
    PROVE  P \cap Q # {}
  <1>1. /\ IsFiniteSet(Node) /\ Cardinality(Node) \in Nat
        /\ IsFiniteSet(P) /\ Cardinality(P) \in Nat
        /\ IsFiniteSet(Q) /\ Cardinality(Q) \in Nat
    BY NodeAssumption, FS_Subset, FS_CardinalityType
  <1>2. Cardinality(P) + Cardinality(Q) > Cardinality(Node)
    BY <1>1 DEF WonElection
  <1> QED
    BY <1>1, <1>2, FS_MajoritiesIntersect

\* The invariant implies that no two nodes lead one term.
LEMMA ElectionInvSuffices ==
    TypeOK /\ VoteInv /\ ElectionInv => ElectionSafety
  <1> SUFFICES ASSUME TypeOK, VoteInv, ElectionInv, NEW n1 \in Node,
                      NEW n2 \in Node, NEW t, LeaderOf(n1, t), LeaderOf(n2, t),
                      n1 # n2
               PROVE  FALSE
    BY DEF ElectionSafety
  <1>1. ASSUME NEW n \in Node, LeaderOf(n, t) PROVE Won(n, t)
    BY <1>1 DEF LeaderOf, ElectionInv, LeaderWon, AppendWon, IsAppend, Said
  <1>2. ASSUME NEW n \in Node, LeaderOf(n, t), NEW c \in Node, Granted(n, c, t)
        PROVE  FALSE
    <2>1. PICK y \in msgs : IsGrant(y) /\ y.src = n /\ y.dst = c /\ y.term = t
      BY <1>2 DEF Granted, IsGrant
    <2>2. y \in Said /\ KeptInMemory(y) /\ c # n
      BY <2>1 DEF VoteInv, MemoryKeeps, ElectionInv, NotToSelf, Said
    <2>3. CASE is_leader(n) /\ current_term[n] = t
      <3>1. t \in Nat /\ Vote(n) = n
        BY <2>3, NodeType DEF is_leader, Vote
      <3> QED
        BY <2>1, <2>2, <2>3, <3>1 DEF KeptInMemory
    <2>4. CASE \E x \in msgs : IsAppend(x) /\ x.src = n /\ x.term = t
      BY <2>1, <2>2, <2>4 DEF ElectionInv, NoOtherVote, Said
    <2> QED
      BY <1>2, <2>3, <2>4 DEF LeaderOf, IsAppend
  <1>3. PICK P \in SUBSET Node :
          /\ WonElection(Cardinality(P), Cardinality(Node))
          /\ \A v \in P \ {n1} : Granted(v, n1, t)
    BY <1>1 DEF Won
  <1>4. PICK Q \in SUBSET Node :
          /\ WonElection(Cardinality(Q), Cardinality(Node))
          /\ \A v \in Q \ {n2} : Granted(v, n2, t)
    BY <1>1 DEF Won
  <1>5. PICK v \in P \cap Q : v \in Node
    BY <1>3, <1>4, MajoritiesMeet
  <1>6. CASE v = n1
    BY <1>2, <1>4, <1>5, <1>6
  <1>7. CASE v = n2
    BY <1>2, <1>3, <1>5, <1>7
  <1>8. CASE v # n1 /\ v # n2
    <2>1. Granted(v, n1, t) /\ Granted(v, n2, t)
      BY <1>3, <1>4, <1>5, <1>8
    <2>2. t \in Terms
      BY <2>1 DEF Granted, Terms
    <2> QED
      BY <1>5, <2>1, <2>2, VoteInvSuffices DEF OneVotePerTerm
  <1> QED
    BY <1>6, <1>7, <1>8

\* There is at most one leader per term, which the unreachable! of
\* handle_append_entries takes for granted, provided that processes do not
\* crash, or that no crash comes between a handler and its write to disk.
THEOREM ElectionsAreSafe ==
    ASSUME MaxCrashes = 0 \/ MaxLatePersists = 0
    PROVE  Spec => []ElectionSafety
  <1>1. TypeInv /\ TypeInv' /\ VoteInv /\ ElectionInv /\ [Next]_vars
          => ElectionInv'
    BY NextElections
  <1>2. TypeInv => TypeOK
    BY DEF TypeInv
  <1> QED
    BY <1>1, <1>2, InitType, NextType, InitVotes, NextVotes, InitElections,
       ElectionInvSuffices, PTL DEF Spec
==============================================================================
