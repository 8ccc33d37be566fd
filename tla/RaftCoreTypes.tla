---------------------------- MODULE RaftCoreTypes ----------------------------
(***************************************************************************)
(* Theorems about RaftCore, for every cluster and every bound.             *)
(***************************************************************************)
EXTENDS RaftCore, TLAPS, FiniteSetTheorems, SequenceTheorems

(***************************************************************************)
(* The operators of RaftLog have the types that their callers rely on.     *)
(***************************************************************************)

\* TermAt (Log::get) yields a term, and a positive one only inside the log.
LEMMA TermAtType ==
    ASSUME NEW lg \in Seq(Entry), NEW i \in Nat
    PROVE  /\ TermAt(lg, i) \in Nat
           /\ TermAt(lg, i) # 0 => i \in 1..Len(lg)
  <1>1. CASE i \in 1..Len(lg)
    <2>1. lg[i] \in Entry
      BY <1>1, ElementOfSeq
    <2> QED
      BY <1>1, <2>1 DEF TermAt, Entry
  <1>2. CASE i \notin 1..Len(lg)
    BY <1>2 DEF TermAt
  <1> QED
    BY <1>1, <1>2

\* get_from yields a log.
LEMMA GetFromType ==
    ASSUME NEW lg \in Seq(Entry), NEW i \in Nat \ {0}
    PROVE  GetFrom(lg, i) \in Seq(Entry)
  <1>1. Len(lg) \in Nat /\ \A j \in i..Len(lg) : lg[j] \in Entry
    BY LenProperties, ElementOfSeq
  <1> QED
    BY <1>1, SubSeqProperties DEF GetFrom

\* The loop of replace_from stops at an entry of its argument.
LEMMA FirstNotHeldType ==
    ASSUME NEW lg \in Seq(Entry), NEW index \in Nat \ {0},
           NEW with \in Seq(Entry), NotHeld(lg, index, with) # {}
    PROVE  /\ FirstNotHeld(lg, index, with) \in NotHeld(lg, index, with)
           /\ FirstNotHeld(lg, index, with) \in 1..Len(with)
           /\ \A j \in NotHeld(lg, index, with) :
                FirstNotHeld(lg, index, with) <= j
  <1> DEFINE S == NotHeld(lg, index, with)
  <1>1. S \subseteq Nat /\ S \subseteq 1..Len(with)
    BY LenProperties DEF NotHeld
  <1>2. \E k \in S : \A j \in S : k <= j
    <2>1. PICK k \in S : TRUE
      OBVIOUS
    <2>2. PICK a \in S : \A b \in S : <<b, a>> \notin OpToRel(<, Nat)
      BY <1>1, <2>1, NatLessThanWellFounded, WFMin
    <2>3. \A b \in S : ~ (b < a)
      BY <1>1, <2>2 DEF OpToRel
    <2>4. \A b \in S : a <= b
      BY <1>1, <2>3
    <2> QED
      BY <2>4
  <1>3. /\ FirstNotHeld(lg, index, with) \in S
        /\ \A j \in S : FirstNotHeld(lg, index, with) <= j
    BY <1>2 DEF FirstNotHeld
  <1> QED
    BY <1>1, <1>3

\* replace_from yields a log.
LEMMA ReplaceFromType ==
    ASSUME NEW lg \in Seq(Entry), NEW index \in Nat \ {0},
           NEW with \in Seq(Entry)
    PROVE  ReplaceFrom(lg, index, with) \in Seq(Entry)
  <1>1. CASE index > Len(lg) + 1 \/ NotHeld(lg, index, with) = {}
    BY <1>1 DEF ReplaceFrom
  <1>2. CASE ~ (index > Len(lg) + 1 \/ NotHeld(lg, index, with) = {})
    <2> DEFINE k == FirstNotHeld(lg, index, with)
    <2>1. /\ Len(lg) \in Nat /\ Len(with) \in Nat
          /\ k \in 1..Len(with)
          /\ \A j \in NotHeld(lg, index, with) : k <= j
      BY <1>2, FirstNotHeldType, LenProperties
    <2>2. SubSeq(with, k, Len(with)) \in Seq(Entry)
      <3>1. \A j \in k..Len(with) : with[j] \in Entry
        BY <2>1, ElementOfSeq
      <3> QED
        BY <2>1, <3>1, SubSeqProperties
    <2>3. index + k - 2 <= Len(lg)
      <3>1. CASE k = 1
        BY <1>2, <2>1, <3>1
      <3>2. CASE k # 1
        <4>1. k - 1 \in 1..Len(with) /\ ~ (k <= k - 1)
          BY <2>1, <3>2
        <4>2. Held(lg, index, with, k - 1)
          BY <2>1, <4>1 DEF NotHeld
        <4> QED
          BY <2>1, <4>2 DEF Held
      <3> QED
        BY <3>1, <3>2
    <2>4. SubSeq(lg, 1, index + k - 2) \in Seq(Entry)
      <3>1. \A j \in 1..(index + k - 2) : lg[j] \in Entry
        BY <2>1, <2>3, ElementOfSeq
      <3> QED
        BY <2>1, <3>1, SubSeqProperties
    <2> QED
      BY <1>2, <2>2, <2>4, ConcatProperties DEF ReplaceFrom
  <1> QED
    BY <1>1, <1>2

(***************************************************************************)
(* The inductive invariant for types.  Applying entries reads the log up   *)
(* to the commit index: on a node that has not panicked everything that is *)
(* committed is applied, and a leader commits only at an entry of its own  *)
(* term, which is positive and hence the term of an entry of its log.      *)
(***************************************************************************)
AppliedIsCommitted ==
    \A n \in Node : Up(n) => commit_index[n] = Len(machine[n])

LeadingTerm ==
    \A n \in Node : r[n].kind # "Follower" => current_term[n] > 0

TypeInv == TypeOK /\ AppliedIsCommitted /\ LeadingTerm

DiskState == [current_term : Nat, voted_for : Node \cup {None}, log : Seq(Entry)]

RpcState == [phase : {"idle", "stepped", "handled", "panicked"},
             work : SUBSET Message]

EventCounts == [elections : Nat, rounds : Nat, stale : Nat, crashes : Nat,
                late_appends : Nat, late_persists : Nat]

\* The values of one node, at their types.
LEMMA NodeType ==
    ASSUME TypeOK, NEW n \in Node
    PROVE  /\ current_term[n] \in Nat
           /\ log[n] \in Seq(Entry)
           /\ commit_index[n] \in Nat
           /\ machine[n] \in Seq(Request)
           /\ Len(machine[n]) \in Nat
           /\ Len(log[n]) \in Nat
           /\ r[n] \in Role(n)
           /\ disk[n] \in DiskState
           /\ rpc[n] \in RpcState
           /\ pending[n] \subseteq Request
           /\ callbacks[n] \subseteq Request
  BY LenProperties DEF TypeOK, DiskState, RpcState

\* What a message carries, by its type.
LEMMA MessageType ==
    ASSUME NEW m \in Message
    PROVE  /\ m.src \in Node /\ m.dst \in Node /\ m.term \in Nat
           /\ m.type \in {"RequestVote", "RequestVoteResponse",
                          "AppendEntries", "AppendEntriesResponse"}
           /\ m.type = "AppendEntries" =>
                /\ m.prev_log_index \in Nat /\ m.prev_log_term \in Nat
                /\ m.entries \in Seq(Entry) /\ m.commit_index \in Nat
           /\ m.type = "AppendEntriesResponse" =>
                m.index \in Nat /\ m.success \in BOOLEAN
           /\ m.type = "RequestVoteResponse" => m.vote_granted \in BOOLEAN
  BY DEF Message

\* What a role carries, by its kind.
LEMMA RoleType ==
    ASSUME NEW n \in Node, NEW x \in Role(n)
    PROVE  /\ x.kind \in {"Follower", "Candidate", "Leader"}
           /\ x.kind = "Follower" =>
                /\ x.leader \in Node \cup {None}
                /\ x.voted_for \in Node \cup {None}
                /\ x = Follower(x.leader, x.voted_for)
           /\ x.kind = "Candidate" =>
                x.votes \in SUBSET Node /\ x = Candidate(x.votes)
           /\ x.kind = "Leader" =>
                /\ x.next_indexes \in [Peers(n) -> Nat \ {0}]
                /\ x.match_indexes \in [Peers(n) -> Nat]
                /\ x = Leader(x.next_indexes, x.match_indexes)
  BY DEF Role, Follower, Candidate, Leader, Peers

\* The constructors of roles.
LEMMA RoleIntro ==
    ASSUME NEW n \in Node
    PROVE  /\ \A l, v \in Node \cup {None} : Follower(l, v) \in Role(n)
           /\ \A S \in SUBSET Node : Candidate(S) \in Role(n)
           /\ \A x \in [Peers(n) -> Nat \ {0}] : \A y \in [Peers(n) -> Nat] :
                Leader(x, y) \in Role(n)
  BY DEF Role, Follower, Candidate, Leader, Peers

\* become_follower and the recognition of a leader yield a follower.
LEMMA BecomeFollowerType ==
    ASSUME NEW n \in Node, r[n] \in Role(n), NEW v \in Node \cup {None}
    PROVE  /\ become_follower(n, v) \in Role(n)
           /\ become_follower(n, v).kind = "Follower"
           /\ \A l \in Node : [become_follower(n, v) EXCEPT !.leader = l]
                                \in Role(n)
           /\ \A l \in Node : [become_follower(n, v) EXCEPT !.leader = l].kind
                                = "Follower"
  <1> DEFINE f == become_follower(n, v)
  <1>1. PICK a, b \in Node \cup {None} : f = Follower(a, b)
    BY RoleType DEF become_follower
  <1> QED
    BY <1>1, RoleIntro DEF Follower

\* The messages that request_votes builds.
LEMMA RequestVotesType ==
    ASSUME TypeOK, NEW n \in Node, NEW t \in Nat
    PROVE  RequestVotes(n, t) \subseteq Message
  <1>1. Len(log[n]) \in Nat /\ TermAt(log[n], Len(log[n])) \in Nat
    BY NodeType, TermAtType
  <1> QED
    BY <1>1 DEF RequestVotes, Message, HighestIndex, LastTerm, Peers

\* The messages that replicate_log builds.
LEMMA ReplicateType ==
    ASSUME TypeOK, NEW n \in Node, NEW lg \in Seq(Entry),
           NEW next \in [Peers(n) -> Nat \ {0}], NEW hb \in BOOLEAN
    PROVE  replicate_log(n, lg, next, hb) \subseteq Message
  <1>1. SUFFICES ASSUME NEW p \in Peers(n)
                 PROVE  AppendEntriesTo(n, lg, p, next[p]) \in Message
    BY DEF replicate_log
  <1>2. next[p] \in Nat \ {0} /\ next[p] - 1 \in Nat
    OBVIOUS
  <1>3. TermAt(lg, next[p] - 1) \in Nat /\ GetFrom(lg, next[p]) \in Seq(Entry)
    BY <1>2, TermAtType, GetFromType
  <1>4. current_term[n] \in Nat /\ commit_index[n] \in Nat /\ p \in Node
    BY NodeType DEF Peers
  <1> QED
    BY <1>2, <1>3, <1>4 DEF AppendEntriesTo, Message

\* Whatever the rate limit does to it, too.
LEMMA ReplicationsType ==
    ASSUME TypeOK, NEW n \in Node, NEW lg \in Seq(Entry),
           NEW next \in [Peers(n) -> Nat \ {0}],
           NEW sent \in Replications(n, lg, next)
    PROVE  sent \subseteq Message
  BY ReplicateType DEF Replications

\* A function on 1..k is a sequence of length k.
LEMMA FunctionIsSeq ==
    ASSUME NEW S, NEW k \in Nat, NEW f \in [1..k -> S]
    PROVE  f \in Seq(S) /\ Len(f) = k
  <1>1. f \in Seq(S)
    BY SeqDef
  <1>2. Len(f) \in Nat /\ DOMAIN f = 1..Len(f)
    BY <1>1, LenProperties
  <1>3. 1..k = 1..Len(f)
    BY <1>2
  <1> QED
    BY <1>1, <1>2, <1>3

\* Applying the log up to an index inside it, or up to where it is applied
\* already, keeps the machine a sequence of commands that ends there, and
\* answers requests only.
LEMMA AppliedType ==
    ASSUME TypeOK, NEW n \in Node, NEW lg \in Seq(Entry), NEW commit \in Nat,
           NEW channels, commit >= Len(machine[n]),
           commit = Len(machine[n]) \/ commit <= Len(lg)
    PROVE  /\ Applied(n, lg, commit) \in Seq(Request)
           /\ Len(Applied(n, lg, commit)) = commit
           /\ OkReplies(n, lg, commit, channels)
                \subseteq [cmd : Request, kind : {"ok", "abort"}]
  <1> DEFINE k == commit - Len(machine[n])
             tail == [i \in 1..k |-> lg[Len(machine[n]) + i].cmd]
  <1>1. k \in Nat /\ Len(machine[n]) \in Nat /\ Len(lg) \in Nat
    BY NodeType, LenProperties
  <1>2. \A i \in (Len(machine[n]) + 1)..commit : lg[i].cmd \in Request
    <2>1. SUFFICES ASSUME NEW i \in (Len(machine[n]) + 1)..commit
                   PROVE  lg[i].cmd \in Request
      OBVIOUS
    <2>2. i \in 1..Len(lg)
      BY <1>1
    <2>3. lg[i] \in Entry
      BY <2>2, ElementOfSeq
    <2> QED
      BY <2>3 DEF Entry
  <1>3. tail \in Seq(Request) /\ Len(tail) = k
    <2>1. \A i \in 1..k : lg[Len(machine[n]) + i].cmd \in Request
      BY <1>1, <1>2
    <2>2. tail \in [1..k -> Request]
      BY <2>1
    <2> HIDE DEF tail, k
    <2> QED
      BY <1>1, <2>2, FunctionIsSeq
  <1>4. /\ Applied(n, lg, commit) \in Seq(Request)
        /\ Len(Applied(n, lg, commit)) = commit
    BY <1>1, <1>3, NodeType, ConcatProperties DEF Applied
  <1>5. OkReplies(n, lg, commit, channels)
          \subseteq [cmd : Request, kind : {"ok", "abort"}]
    BY <1>2 DEF OkReplies
  <1> QED
    BY <1>4, <1>5

-----------------------------------------------------------------------------
(***************************************************************************)
(* Every action preserves the invariant.                                   *)
(***************************************************************************)

\* Counting an event.
LEMMA CountType ==
    ASSUME NEW e \in EventCounts
    PROVE  /\ [e EXCEPT !.elections = @ + 1] \in EventCounts
           /\ [e EXCEPT !.rounds = @ + 1] \in EventCounts
           /\ [e EXCEPT !.stale = @ + 1] \in EventCounts
           /\ [e EXCEPT !.crashes = @ + 1] \in EventCounts
           /\ [e EXCEPT !.late_appends = @ + 1] \in EventCounts
           /\ [e EXCEPT !.late_persists = @ + 1] \in EventCounts
  BY DEF EventCounts

\* Persisting and responding, now or later.
LEMMA FinishType ==
    ASSUME TypeOK, NEW n \in Node, NEW m \in Message, NEW responses,
           responses \subseteq Message, current_term'[n] \in Nat,
           r'[n] \in Role(n), log'[n] \in Seq(Entry), Finish(n, m, responses)
    PROVE  /\ msgs' \subseteq Message
           /\ disk' \in [Node -> DiskState]
           /\ rpc' \in [Node -> RpcState]
           /\ events' \in EventCounts
           /\ \A p \in Node : p # n => rpc'[p] = rpc[p]
  <1>1. Persistent(n)' \in DiskState
    BY RoleType DEF Persistent, DiskState
  <1>2. Received(n, m) \in EventCounts
    <2>1. events \in EventCounts
      BY DEF TypeOK, EventCounts
    <2>2. Received(n, m) = [events EXCEPT !.stale = @ + 1]
             \/ Received(n, m) = [events EXCEPT !.stale = @]
      BY DEF Received
    <2>3. [events EXCEPT !.stale = @] \in EventCounts
      BY <2>1 DEF EventCounts
    <2> QED
      BY <2>1, <2>2, <2>3, CountType
  <1>3. CASE FinishNow(n, m, responses)
    BY <1>1, <1>2, <1>3 DEF FinishNow, TypeOK, Idle, DiskState, RpcState
  <1>4. CASE FinishLater(n, m, responses)
    <2>1. events' \in EventCounts
      BY <1>2, <1>4, CountType DEF FinishLater
    <2> QED
      BY <1>4, <2>1 DEF FinishLater, TypeOK, DiskState, RpcState
  <1> QED
    BY <1>3, <1>4 DEF Finish

\* A handler that leaves the log, the machine and the terms alone.
LEMMA QuietHandlerType ==
    ASSUME TypeInv, NEW n \in Node, NEW m \in msgs, Up(n), NEW responses,
           responses \subseteq Message, Finish(n, m, responses),
           UNCHANGED <<current_term, log, commit_index, machine>>,
           UNCHANGED clientVars,
           NEW x \in Role(n), r' = [r EXCEPT ![n] = x],
           x.kind # "Follower" => r[n].kind # "Follower"
    PROVE  TypeInv'
  <1>1. m \in Message /\ r'[n] \in Role(n)
    BY DEF TypeInv, TypeOK
  <1>2. /\ msgs' \subseteq Message
        /\ disk' \in [Node -> DiskState]
        /\ rpc' \in [Node -> RpcState]
        /\ events' \in EventCounts
        /\ \A p \in Node : p # n => rpc'[p] = rpc[p]
    BY <1>1, FinishType, NodeType DEF TypeInv
  <1>3. TypeOK'
    BY <1>1, <1>2 DEF TypeInv, TypeOK, clientVars, DiskState, RpcState,
                      EventCounts
  <1>4. AppliedIsCommitted'
    BY <1>2 DEF TypeInv, AppliedIsCommitted, Up
  <1>5. LeadingTerm'
    BY DEF TypeInv, TypeOK, LeadingTerm
  <1> QED
    BY <1>3, <1>4, <1>5 DEF TypeInv

\* An election timeout (become_candidate, request_votes).
LEMMA BecomeCandidateType ==
    ASSUME TypeInv, NEW n \in Node, BecomeCandidate(n)
    PROVE  TypeInv'
  <1>1. current_term[n] \in Nat /\ current_term[n] + 1 \in Nat
    BY NodeType DEF TypeInv
  <1>2. RequestVotes(n, current_term[n] + 1) \subseteq Message
    BY <1>1, RequestVotesType DEF TypeInv
  <1>3. Candidate({n}) \in Role(n)
    BY RoleIntro
  <1>4. events' \in EventCounts
    BY CountType DEF TypeInv, TypeOK, BecomeCandidate, EventCounts
  <1>5. TypeOK'
    BY <1>1, <1>2, <1>3, <1>4
       DEF TypeInv, TypeOK, BecomeCandidate, clientVars, EventCounts
  <1>6. AppliedIsCommitted'
    BY DEF TypeInv, BecomeCandidate, AppliedIsCommitted, Up
  <1>7. LeadingTerm'
    <2>1. current_term'[n] > 0
      BY <1>1 DEF TypeInv, TypeOK, BecomeCandidate
    <2> QED
      BY <2>1 DEF TypeInv, TypeOK, BecomeCandidate, LeadingTerm
  <1> QED
    BY <1>5, <1>6, <1>7 DEF TypeInv

\* A round of log_replication_loop.
LEMMA ReplicateLogType ==
    ASSUME TypeInv, NEW n \in Node, ReplicateLog(n)
    PROVE  TypeInv'
  <1>1. r[n].next_indexes \in [Peers(n) -> Nat \ {0}]
    BY NodeType, RoleType DEF TypeInv, ReplicateLog, is_leader
  <1>2. msgs' \subseteq Message
    <2>1. PICK hb \in BOOLEAN :
            msgs' = msgs \cup replicate_log(n, log[n], r[n].next_indexes, hb)
      BY DEF ReplicateLog
    <2> QED
      BY <1>1, <2>1, ReplicateType, NodeType DEF TypeInv, TypeOK
  <1>3. events' \in EventCounts
    BY CountType DEF TypeInv, TypeOK, ReplicateLog, EventCounts
  <1>4. TypeOK'
    BY <1>2, <1>3 DEF TypeInv, TypeOK, ReplicateLog, clientVars, EventCounts
  <1>5. AppliedIsCommitted' /\ LeadingTerm'
    BY DEF TypeInv, ReplicateLog, AppliedIsCommitted, LeadingTerm, Up
  <1> QED
    BY <1>4, <1>5 DEF TypeInv

\* Stepping down for a message of a later term (maybe_step_down).
LEMMA MaybeStepDownType ==
    ASSUME TypeInv, NEW n \in Node, NEW m \in msgs, MaybeStepDown(n, m)
    PROVE  TypeInv'
  <1>1. m \in Message /\ m.term \in Nat
    BY MessageType DEF TypeInv, TypeOK
  <1>2. /\ become_follower(n, None) \in Role(n)
        /\ become_follower(n, None).kind = "Follower"
    BY BecomeFollowerType, NodeType DEF TypeInv
  <1>3. TypeOK'
    BY <1>1, <1>2 DEF TypeInv, TypeOK, MaybeStepDown, clientVars
  <1>4. AppliedIsCommitted' /\ LeadingTerm'
    BY <1>2 DEF TypeInv, TypeOK, MaybeStepDown, AppliedIsCommitted,
                LeadingTerm, Up
  <1> QED
    BY <1>3, <1>4 DEF TypeInv

\* handle_vote_request.
LEMMA HandleVoteRequestType ==
    ASSUME TypeInv, NEW n \in Node, NEW m \in msgs, HandleVoteRequest(n, m)
    PROVE  TypeInv'
  <1> DEFINE x == IF GrantsVote(n, m)
                  THEN [r[n] EXCEPT !.voted_for = m.src] ELSE r[n]
  <1>1. m \in Message /\ m.src \in Node /\ Up(n) /\ r[n] \in Role(n)
    BY MessageType, NodeType
       DEF TypeInv, TypeOK, HandleVoteRequest, Handling, Up
  <1>2. x \in Role(n) /\ x.kind = r[n].kind
    BY <1>1, RoleType, RoleIntro DEF GrantsVote, Follower
  <1>3. RequestVoteResponse(n, m, GrantsVote(n, m)) \in Message
    BY <1>1, NodeType DEF TypeInv, RequestVoteResponse, Message, GrantsVote
  <1>4. /\ r' = [r EXCEPT ![n] = x]
        /\ UNCHANGED <<current_term, log, commit_index, machine>>
        /\ UNCHANGED clientVars
        /\ Finish(n, m, {RequestVoteResponse(n, m, GrantsVote(n, m))})
    BY DEF HandleVoteRequest
  <1>5. {RequestVoteResponse(n, m, GrantsVote(n, m))} \subseteq Message
    BY <1>3
  <1> HIDE DEF x
  <1> QED
    BY <1>1, <1>2, <1>4, <1>5, QuietHandlerType

\* The same for a handler that leaves the role alone, too.
LEMMA SilentHandlerType ==
    ASSUME TypeInv, NEW n \in Node, NEW m \in msgs, Up(n), NEW responses,
           responses \subseteq Message, Finish(n, m, responses),
           UNCHANGED <<current_term, log, commit_index, machine, r>>,
           UNCHANGED clientVars
    PROVE  TypeInv'
  <1>1. r[n] \in Role(n)
    BY NodeType DEF TypeInv
  <1>2. r' = [r EXCEPT ![n] = r[n]]
    BY DEF TypeInv, TypeOK
  <1> QED
    BY <1>1, <1>2, QuietHandlerType

\* handle_vote_response: a counted vote keeps a candidate or makes a leader
\* whose indexes are of its peers.
LEMMA HandleVoteResponseType ==
    ASSUME TypeInv, NEW n \in Node, NEW m \in msgs, HandleVoteResponse(n, m)
    PROVE  TypeInv'
  <1>1. /\ m \in Message /\ m.src \in Node /\ Up(n)
        /\ r[n] \in Role(n) /\ log[n] \in Seq(Entry) /\ Len(log[n]) \in Nat
    BY MessageType, NodeType
       DEF TypeInv, TypeOK, HandleVoteResponse, Handling, Up
  <1>2. CASE CountVote(n, m)
    <2> DEFINE votes == r[n].votes \cup {m.src}
               won == WonElection(Cardinality(votes), Cardinality(Node))
               x == IF won THEN NewLeader(n) ELSE Candidate(votes)
               sent == IF won
                       THEN replicate_log(n, log[n], InitialNext(n), TRUE)
                       ELSE {}
    <2>1. votes \in SUBSET Node /\ r[n].kind = "Candidate"
      BY <1>1, <1>2, RoleType DEF CountVote, CountsVote
    <2>2. InitialNext(n) \in [Peers(n) -> Nat \ {0}]
      BY <1>1 DEF InitialNext, HighestIndex
    <2>3. NewLeader(n) \in Role(n)
      BY <2>2, RoleIntro DEF NewLeader
    <2>4. x \in Role(n)
      BY <2>1, <2>3, RoleIntro
    <2>5. sent \subseteq Message
      BY <1>1, <2>2, ReplicateType DEF TypeInv
    <2>6. /\ r' = [r EXCEPT ![n] = x]
          /\ UNCHANGED <<current_term, log, commit_index, machine>>
          /\ UNCHANGED clientVars
          /\ Finish(n, m, sent)
      BY <1>2 DEF CountVote
    <2> HIDE DEF x, sent
    <2> QED
      BY <1>1, <2>1, <2>4, <2>5, <2>6, QuietHandlerType
  <1>3. CASE IgnoreVote(n, m)
    BY <1>1, <1>3, SilentHandlerType DEF IgnoreVote
  <1> QED
    BY <1>2, <1>3 DEF HandleVoteResponse

\* The response to a replication.
LEMMA AppendEntriesResponseType ==
    ASSUME TypeOK, NEW n \in Node, NEW m \in Message, NEW lg \in Seq(Entry),
           NEW success \in BOOLEAN
    PROVE  {AppendEntriesResponse(n, m, lg, success)} \subseteq Message
  <1>1. m.src \in Node /\ current_term[n] \in Nat /\ Len(lg) \in Nat
    BY MessageType, NodeType, LenProperties
  <1> QED
    BY <1>1 DEF AppendEntriesResponse, Message, HighestIndex

\* handle_append_entries when the previous entry matches: the log, the commit
\* index and the machine change, or advance_state_machine panics.
LEMMA AcceptAppendType ==
    ASSUME TypeInv, NEW n \in Node, NEW m \in msgs, Up(n),
           m.type = "AppendEntries", AcceptAppend(n, m)
    PROVE  TypeInv'
  <1> DEFINE lg == ReplaceFrom(log[n], m.prev_log_index + 1, m.entries)
             commit == FollowerCommit(n, m, lg)
             x == RecognizeLeader(n, m)
             sent == {AppendEntriesResponse(n, m, lg, TRUE)}
  <1>1. /\ m \in Message /\ m.src \in Node /\ m.entries \in Seq(Entry)
        /\ m.prev_log_index \in Nat /\ m.commit_index \in Nat
        /\ m.prev_log_index + 1 \in Nat \ {0}
    <2>1. m \in Message
      BY DEF TypeInv, TypeOK
    <2>2. /\ m.src \in Node /\ m.entries \in Seq(Entry)
          /\ m.prev_log_index \in Nat /\ m.commit_index \in Nat
      BY <2>1, MessageType
    <2> QED
      BY <2>1, <2>2
  <1>2. /\ r[n] \in Role(n) /\ log[n] \in Seq(Entry)
        /\ commit_index[n] \in Nat /\ commit_index[n] = Len(machine[n])
        /\ callbacks[n] \subseteq Request
    BY NodeType DEF TypeInv, AppliedIsCommitted
  <1>3. lg \in Seq(Entry) /\ Len(lg) \in Nat
    BY <1>1, <1>2, ReplaceFromType, LenProperties
  <1>4. x \in Role(n) /\ x.kind = "Follower"
    BY <1>1, <1>2, BecomeFollowerType DEF RecognizeLeader
  <1>5. sent \subseteq Message
    BY <1>1, <1>3, AppendEntriesResponseType DEF TypeInv
  <1>6. /\ r' = [r EXCEPT ![n] = x]
        /\ log' = [log EXCEPT ![n] = lg]
        /\ commit_index' = [commit_index EXCEPT ![n] = commit]
        /\ callbacks' = [callbacks EXCEPT ![n] = @ \ Aborted(n, m)]
        /\ UNCHANGED <<current_term, pending, issued>>
        /\ IF Overtaken(n, m, lg)
           THEN /\ replies' = replies \cup AbortReplies(n, m)
                /\ Panic(n)
                /\ UNCHANGED <<msgs, machine, disk, events>>
           ELSE /\ machine' = [machine EXCEPT ![n] = Applied(n, lg, commit)]
                /\ replies' = replies \cup AbortReplies(n, m)
                                      \cup OkReplies(n, lg, commit,
                                                     callbacks[n] \ Aborted(n, m))
                /\ Finish(n, m, sent)
    BY DEF AcceptAppend
  <1> HIDE DEF lg
  <1>7. /\ commit \in Nat
        /\ commit = commit_index[n] \/ commit <= Len(lg)
        /\ ~ Overtaken(n, m, lg) => commit >= Len(machine[n])
    BY <1>1, <1>2, <1>3 DEF FollowerCommit, HighestIndex, Overtaken
  <1> HIDE DEF commit, x, sent
  <1>8. AbortReplies(n, m) \subseteq [cmd : Request, kind : {"ok", "abort"}]
    BY <1>2 DEF AbortReplies, Aborted
  <1>9. LeadingTerm'
    BY <1>4, <1>6 DEF TypeInv, TypeOK, LeadingTerm
  <1>10. /\ r' = [p \in Node |-> r'[p]]
        /\ \A p \in Node : r'[p] \in Role(p)
    BY <1>4, <1>6 DEF TypeInv, TypeOK
  <1>11. /\ current_term' \in [Node -> Nat]
        /\ log' \in [Node -> Seq(Entry)]
        /\ commit_index' \in [Node -> Nat]
        /\ pending' \in [Node -> SUBSET Request]
        /\ callbacks' \in [Node -> SUBSET Request]
        /\ issued' \subseteq Request
    BY <1>3, <1>6, <1>7 DEF TypeInv, TypeOK
  <1>12. CASE Overtaken(n, m, lg)
    <2>1. /\ replies' \subseteq [cmd : Request, kind : {"ok", "abort"}]
          /\ rpc' \in [Node -> RpcState]
          /\ UNCHANGED <<msgs, machine, disk, events>>
      <3>1. /\ replies' = replies \cup AbortReplies(n, m)
            /\ Panic(n)
            /\ UNCHANGED <<msgs, machine, disk, events>>
        BY <1>6, <1>12
      <3>2. [phase |-> "panicked", work |-> {}] \in RpcState
        BY DEF RpcState
      <3>3. rpc' \in [Node -> RpcState]
        BY <3>1, <3>2 DEF TypeInv, TypeOK, Panic, RpcState
      <3> QED
        BY <1>8, <3>1, <3>3 DEF TypeInv, TypeOK
    <2>2. TypeOK'
      BY <1>10, <1>11, <2>1 DEF TypeInv, TypeOK, RpcState
    <2>3. AppliedIsCommitted'
      BY <1>6, <1>12 DEF TypeInv, TypeOK, AppliedIsCommitted, Panic, Up
    <2> QED
      BY <1>9, <2>2, <2>3 DEF TypeInv
  <1>13. CASE ~ Overtaken(n, m, lg)
    <2>1. /\ Applied(n, lg, commit) \in Seq(Request)
          /\ Len(Applied(n, lg, commit)) = commit
          /\ OkReplies(n, lg, commit, callbacks[n] \ Aborted(n, m))
                \subseteq [cmd : Request, kind : {"ok", "abort"}]
      BY <1>2, <1>3, <1>7, <1>13, AppliedType DEF TypeInv
    <2>2. /\ current_term'[n] \in Nat /\ r'[n] \in Role(n)
          /\ log'[n] \in Seq(Entry)
      BY <1>3, <1>4, <1>6 DEF TypeInv, TypeOK
    <2>3. /\ msgs' \subseteq Message
          /\ disk' \in [Node -> DiskState]
          /\ rpc' \in [Node -> RpcState]
          /\ events' \in EventCounts
          /\ \A p \in Node : p # n => rpc'[p] = rpc[p]
      BY <1>1, <1>5, <1>6, <1>13, <2>2, FinishType DEF TypeInv
    <2>4. /\ replies' \subseteq [cmd : Request, kind : {"ok", "abort"}]
          /\ machine' \in [Node -> Seq(Request)]
      BY <1>6, <1>8, <1>13, <2>1 DEF TypeInv, TypeOK
    <2>5. TypeOK'
      BY <1>10, <1>11, <2>4, <2>3
         DEF TypeInv, TypeOK, DiskState, RpcState, EventCounts
    <2>6. AppliedIsCommitted'
      BY <1>6, <1>13, <2>1, <2>3 DEF TypeInv, TypeOK, AppliedIsCommitted, Up
    <2> QED
      BY <1>9, <2>5, <2>6 DEF TypeInv
  <1> QED
    BY <1>12, <1>13

\* handle_append_entries.
LEMMA HandleAppendEntriesType ==
    ASSUME TypeInv, NEW n \in Node, NEW m \in msgs, HandleAppendEntries(n, m)
    PROVE  TypeInv'
  <1>1. /\ m \in Message /\ m.src \in Node /\ Up(n)
        /\ m.type = "AppendEntries"
        /\ r[n] \in Role(n) /\ log[n] \in Seq(Entry)
    BY MessageType, NodeType
       DEF TypeInv, TypeOK, HandleAppendEntries, Handling, Up
  <1>2. {AppendEntriesResponse(n, m, log[n], FALSE)} \subseteq Message
    BY <1>1, AppendEntriesResponseType DEF TypeInv
  <1>3. CASE StaleAppend(n, m)
    BY <1>1, <1>2, <1>3, SilentHandlerType DEF StaleAppend
  <1>4. CASE SecondLeader(n, m)
    <2>1. TypeOK'
      BY <1>4 DEF TypeInv, TypeOK, SecondLeader, Panic, clientVars
    <2>2. AppliedIsCommitted' /\ LeadingTerm'
      BY <1>4 DEF TypeInv, TypeOK, SecondLeader, Panic, AppliedIsCommitted,
                  LeadingTerm, Up
    <2> QED
      BY <2>1, <2>2 DEF TypeInv
  <1>5. CASE RejectAppend(n, m)
    <2>1. RecognizeLeader(n, m) \in Role(n)
          /\ RecognizeLeader(n, m).kind = "Follower"
      BY <1>1, BecomeFollowerType DEF RecognizeLeader
    <2> QED
      BY <1>1, <1>2, <1>5, <2>1, QuietHandlerType DEF RejectAppend
  <1>6. CASE AcceptAppend(n, m)
    BY <1>1, <1>6, AcceptAppendType
  <1> QED
    BY <1>3, <1>4, <1>5, <1>6 DEF HandleAppendEntries

\* A failed replication: the next index does not drop below 1.
LEMMA RetryAppendType ==
    ASSUME TypeInv, NEW n \in Node, NEW m \in msgs, Up(n), RetryAppend(n, m)
    PROVE  TypeInv'
  <1> DEFINE next == [r[n].next_indexes EXCEPT ![m.src] = DecFloored(@)]
             x == Leader(next, r[n].match_indexes)
  <1>1. /\ r[n] \in Role(n) /\ r[n].kind = "Leader"
        /\ log[n] \in Seq(Entry)
    BY NodeType DEF TypeInv, RetryAppend, is_leader
  <1>2. next \in [Peers(n) -> Nat \ {0}]
    <2>1. r[n].next_indexes \in [Peers(n) -> Nat \ {0}]
      BY <1>1, RoleType
    <2>2. \A i \in Nat \ {0} : DecFloored(i) \in Nat \ {0}
      BY DEF DecFloored
    <2> QED
      BY <2>1, <2>2
  <1> HIDE DEF next
  <1>3. x \in Role(n) /\ x.kind = "Leader"
    BY <1>1, <1>2, RoleType, RoleIntro DEF Leader
  <1>4. /\ r' = [r EXCEPT ![n] = x]
        /\ UNCHANGED <<current_term, log, commit_index, machine>>
        /\ UNCHANGED clientVars
    BY DEF RetryAppend, next
  <1>5. PICK sent \in Replications(n, log[n], next) : Finish(n, m, sent)
    BY DEF RetryAppend, next
  <1>6. sent \subseteq Message
    BY <1>1, <1>2, ReplicationsType DEF TypeInv
  <1> HIDE DEF x
  <1> QED
    BY <1>1, <1>3, <1>4, <1>5, <1>6, QuietHandlerType

\* A leader commits where it has applied already, or inside its log.
LEMMA LeaderCommitType ==
    ASSUME TypeInv, NEW n \in Node, is_leader(n), NEW match
    PROVE  /\ LeaderCommit(n, match) \in Nat
           /\ LeaderCommit(n, match) >= commit_index[n]
           /\ \/ LeaderCommit(n, match) = commit_index[n]
              \/ LeaderCommit(n, match) <= Len(log[n])
  <1>1. /\ current_term[n] \in Nat /\ current_term[n] > 0
        /\ commit_index[n] \in Nat /\ Len(log[n]) \in Nat
    BY NodeType DEF TypeInv, LeadingTerm, is_leader
  <1>2. CASE /\ TermAt(log[n], LowerMedian(match)) = current_term[n]
             /\ LowerMedian(match) > commit_index[n]
             /\ LeaderCommit(n, match) = LowerMedian(match)
    <2>1. LowerMedian(match) \in 1..Len(log[n])
      BY <1>1, <1>2 DEF TermAt
    <2> QED
      BY <1>1, <1>2, <2>1
  <1>3. CASE LeaderCommit(n, match) = commit_index[n]
    BY <1>1, <1>3
  <1> QED
    BY <1>2, <1>3 DEF LeaderCommit

\* A successful replication: commit_index and machine advance together.
LEMMA AdvanceMatchType ==
    ASSUME TypeInv, NEW n \in Node, NEW m \in msgs, Up(n),
           m.type = "AppendEntriesResponse", AdvanceMatch(n, m)
    PROVE  TypeInv'
  <1> DEFINE match == [r[n].match_indexes EXCEPT ![m.src] = m.index]
             next == [r[n].next_indexes EXCEPT ![m.src] = m.index + 1]
             commit == LeaderCommit(n, match)
             x == Leader(next, match)
  <1>1. /\ r[n] \in Role(n) /\ r[n].kind = "Leader" /\ is_leader(n)
        /\ log[n] \in Seq(Entry)
        /\ commit_index[n] = Len(machine[n])
    BY NodeType DEF TypeInv, AdvanceMatch, is_leader, AppliedIsCommitted
  <1>2. m \in Message /\ m.index \in Nat
    BY MessageType DEF TypeInv, TypeOK
  <1>3. match \in [Peers(n) -> Nat] /\ next \in [Peers(n) -> Nat \ {0}]
    <2>1. /\ r[n].next_indexes \in [Peers(n) -> Nat \ {0}]
          /\ r[n].match_indexes \in [Peers(n) -> Nat]
      BY <1>1, RoleType
    <2>2. m.index + 1 \in Nat \ {0}
      BY <1>2
    <2> QED
      BY <1>2, <2>1, <2>2
  <1>4. r' = [r EXCEPT ![n] = x]
    BY DEF AdvanceMatch
  <1>5. /\ commit_index' = [commit_index EXCEPT ![n] = commit]
        /\ machine' = [machine EXCEPT ![n] = Applied(n, log[n], commit)]
        /\ replies' = replies \cup OkReplies(n, log[n], commit, callbacks[n])
        /\ UNCHANGED <<current_term, log, pending, callbacks, issued>>
        /\ Finish(n, m, {})
    BY DEF AdvanceMatch
  <1> HIDE DEF match, next
  <1>6. x \in Role(n) /\ x.kind = "Leader"
    BY <1>3, RoleIntro DEF Leader
  <1>7. /\ commit \in Nat /\ commit >= Len(machine[n])
        /\ commit = Len(machine[n]) \/ commit <= Len(log[n])
    BY <1>1, LeaderCommitType
  <1> HIDE DEF commit, x
  <1>8. /\ Applied(n, log[n], commit) \in Seq(Request)
        /\ Len(Applied(n, log[n], commit)) = commit
        /\ OkReplies(n, log[n], commit, callbacks[n])
             \subseteq [cmd : Request, kind : {"ok", "abort"}]
    BY <1>1, <1>7, AppliedType DEF TypeInv
  <1>9. /\ r' = [p \in Node |-> r'[p]]
        /\ \A p \in Node : r'[p] \in Role(p)
    BY <1>4, <1>6 DEF TypeInv, TypeOK
  <1>10. current_term'[n] \in Nat /\ log'[n] \in Seq(Entry)
    BY <1>5 DEF TypeInv, TypeOK
  <1>11. /\ msgs' \subseteq Message
         /\ disk' \in [Node -> DiskState]
         /\ rpc' \in [Node -> RpcState]
         /\ events' \in EventCounts
         /\ \A p \in Node : p # n => rpc'[p] = rpc[p]
    BY <1>2, <1>5, <1>9, <1>10, FinishType DEF TypeInv
  <1>12. TypeOK'
    BY <1>5, <1>7, <1>8, <1>9, <1>11
       DEF TypeInv, TypeOK, DiskState, RpcState, EventCounts
  <1>13. AppliedIsCommitted'
    BY <1>5, <1>8, <1>11 DEF TypeInv, TypeOK, AppliedIsCommitted, Up
  <1>14. LeadingTerm'
    BY <1>1, <1>4, <1>5 DEF TypeInv, TypeOK, LeadingTerm
  <1> QED
    BY <1>12, <1>13, <1>14 DEF TypeInv

\* handle_append_entries_response.
LEMMA HandleAppendEntriesResponseType ==
    ASSUME TypeInv, NEW n \in Node, NEW m \in msgs,
           HandleAppendEntriesResponse(n, m)
    PROVE  TypeInv'
  <1>1. Up(n) /\ m.type = "AppendEntriesResponse"
    BY DEF HandleAppendEntriesResponse, Handling, Up
  <1>2. CASE RetryAppend(n, m)
    BY <1>1, <1>2, RetryAppendType
  <1>3. CASE AdvanceMatch(n, m)
    BY <1>1, <1>3, AdvanceMatchType
  <1>4. CASE IgnoreAppendResponse(n, m)
    BY <1>1, <1>4, SilentHandlerType DEF IgnoreAppendResponse
  <1> QED
    BY <1>2, <1>3, <1>4 DEF HandleAppendEntriesResponse

\* The write to disk of incoming_raft_rpcs_loop, and its failure.
LEMMA PersistType ==
    ASSUME TypeInv, NEW n \in Node, Persist(n) \/ FailPersist(n)
    PROVE  TypeInv'
  <1>1. Persistent(n) \in DiskState
    BY NodeType, RoleType DEF TypeInv, Persistent, DiskState
  <1>2. /\ disk' \in [Node -> DiskState]
        /\ rpc' \in [Node -> RpcState]
        /\ msgs' \subseteq Message
    <2>1. disk' = disk \/ disk' = [disk EXCEPT ![n] = Persistent(n)]
      BY DEF Persist, FailPersist
    <2>2. disk' \in [Node -> DiskState]
      BY <1>1, <2>1 DEF TypeInv, TypeOK, DiskState
    <2>3. rpc' = [rpc EXCEPT ![n] = Idle] /\ Idle \in RpcState
      BY DEF Persist, FailPersist, Idle, RpcState
    <2>4. rpc' \in [Node -> RpcState]
      BY <2>3 DEF TypeInv, TypeOK, RpcState
    <2>5. msgs' = msgs \/ msgs' = msgs \cup rpc[n].work
      BY DEF Persist, FailPersist
    <2>6. rpc[n].work \subseteq Message
      BY NodeType DEF TypeInv, RpcState
    <2> QED
      BY <2>2, <2>4, <2>5, <2>6 DEF TypeInv, TypeOK
  <1>3. TypeOK'
    BY <1>2 DEF TypeInv, TypeOK, Persist, FailPersist, clientVars, DiskState,
                RpcState
  <1>4. AppliedIsCommitted' /\ LeadingTerm'
    BY DEF TypeInv, TypeOK, Persist, FailPersist, AppliedIsCommitted,
           LeadingTerm, Up
  <1> QED
    BY <1>3, <1>4 DEF TypeInv

\* The append of a client thread, whatever the node is by then.
LEMMA AppendAndReplicateType ==
    ASSUME TypeInv, NEW n \in Node, NEW c \in Request,
           AppendAndReplicate(n, c)
    PROVE  /\ log' \in [Node -> Seq(Entry)]
           /\ callbacks' \in [Node -> SUBSET Request]
           /\ msgs' \subseteq Message
  <1>1. append(n, c) \in Seq(Entry)
    <2>1. log[n] \in Seq(Entry) /\ current_term[n] \in Nat
      BY NodeType DEF TypeInv
    <2>2. [term |-> current_term[n], cmd |-> c] \in Entry
      BY <2>1 DEF Entry
    <2> QED
      BY <2>1, <2>2, AppendProperties DEF append
  <1>2. /\ log' \in [Node -> Seq(Entry)]
        /\ callbacks' \in [Node -> SUBSET Request]
    BY <1>1 DEF TypeInv, TypeOK, AppendAndReplicate
  <1>3. CASE is_leader(n)
    <2>1. PICK sent \in Replications(n, append(n, c), r[n].next_indexes) :
            msgs' = msgs \cup sent
      BY <1>3 DEF AppendAndReplicate
    <2>2. r[n].next_indexes \in [Peers(n) -> Nat \ {0}]
      BY <1>3, NodeType, RoleType DEF TypeInv, is_leader
    <2>3. sent \subseteq Message
      BY <1>1, <2>2, ReplicationsType DEF TypeInv
    <2> QED
      BY <1>2, <2>1, <2>3 DEF TypeInv, TypeOK
  <1>4. CASE ~ is_leader(n)
    BY <1>2, <1>4 DEF TypeInv, TypeOK, AppendAndReplicate
  <1> QED
    BY <1>3, <1>4

\* The steps of a client thread (incoming_client_rpcs_loop).
LEMMA ClientType ==
    ASSUME TypeInv, NEW n \in Node, NEW c \in Request,
           ClientRequest(n, c) \/ ClientCheck(n, c) \/ ClientAppend(n, c)
    PROVE  TypeInv'
  <1>1. CASE ClientRequest(n, c)
    <2>1. TypeOK'
      BY <1>1, AppendAndReplicateType DEF TypeInv, TypeOK, ClientRequest
    <2>2. AppliedIsCommitted' /\ LeadingTerm'
      BY <1>1 DEF TypeInv, ClientRequest, AppliedIsCommitted, LeadingTerm, Up
    <2> QED
      BY <2>1, <2>2 DEF TypeInv
  <1>2. CASE ClientCheck(n, c)
    <2>1. events' \in EventCounts
      BY <1>2, CountType DEF TypeInv, TypeOK, ClientCheck, EventCounts
    <2>2. TypeOK'
      BY <1>2, <2>1 DEF TypeInv, TypeOK, ClientCheck, EventCounts
    <2>3. AppliedIsCommitted' /\ LeadingTerm'
      BY <1>2 DEF TypeInv, ClientCheck, AppliedIsCommitted, LeadingTerm, Up
    <2> QED
      BY <2>2, <2>3 DEF TypeInv
  <1>3. CASE ClientAppend(n, c)
    <2>1. TypeOK'
      BY <1>3, AppendAndReplicateType DEF TypeInv, TypeOK, ClientAppend
    <2>2. AppliedIsCommitted' /\ LeadingTerm'
      BY <1>3 DEF TypeInv, ClientAppend, AppliedIsCommitted, LeadingTerm, Up
    <2> QED
      BY <2>1, <2>2 DEF TypeInv
  <1> QED
    BY <1>1, <1>2, <1>3

\* A reboot restores well-typed state from the disk (State::new).
LEMMA CrashType ==
    ASSUME TypeInv, NEW n \in Node, Crash(n)
    PROVE  TypeInv'
  <1>1. disk[n] \in DiskState /\ <<>> \in Seq(Request) /\ Len(<<>>) = 0
    BY NodeType, EmptySeq DEF TypeInv
  <1>2. /\ Follower(None, disk[n].voted_for) \in Role(n)
        /\ Follower(None, disk[n].voted_for).kind = "Follower"
    BY <1>1, RoleIntro DEF DiskState, Follower
  <1>3. events' \in EventCounts
    BY CountType DEF TypeInv, TypeOK, Crash, EventCounts
  <1>4. /\ r' = [p \in Node |-> r'[p]]
        /\ \A p \in Node : r'[p] \in Role(p)
    BY <1>2 DEF TypeInv, TypeOK, Crash
  <1>5. TypeOK'
    BY <1>1, <1>3, <1>4
       DEF TypeInv, TypeOK, Crash, DiskState, EventCounts, Idle
  <1>6. AppliedIsCommitted'
    BY <1>1 DEF TypeInv, TypeOK, Crash, AppliedIsCommitted, Up
  <1>7. LeadingTerm'
    BY <1>2 DEF TypeInv, TypeOK, Crash, LeadingTerm
  <1> QED
    BY <1>5, <1>6, <1>7 DEF TypeInv

\* The invariant holds of a cluster that boots for the first time.
LEMMA InitType == Init => TypeInv
  <1> SUFFICES ASSUME Init PROVE TypeInv
    OBVIOUS
  <1>1. <<>> \in Seq(Request) /\ <<>> \in Seq(Entry) /\ Len(<<>>) = 0
    BY EmptySeq
  <1>2. \A n \in Node : /\ Follower(None, None) \in Role(n)
                        /\ Follower(None, None).kind = "Follower"
    BY RoleIntro DEF Follower
  <1>3. TypeOK
    BY <1>1, <1>2 DEF Init, TypeOK, Idle
  <1>4. AppliedIsCommitted /\ LeadingTerm
    BY <1>1, <1>2 DEF Init, AppliedIsCommitted, LeadingTerm
  <1> QED
    BY <1>3, <1>4 DEF TypeInv

\* Every step preserves the invariant.
LEMMA NextType == TypeInv /\ [Next]_vars => TypeInv'
  <1> SUFFICES ASSUME TypeInv, [Next]_vars PROVE TypeInv'
    OBVIOUS
  <1>1. CASE UNCHANGED vars
    BY <1>1 DEF TypeInv, TypeOK, AppliedIsCommitted, LeadingTerm, Up, vars
  <1>2. CASE Next
    <2>1. PICK n \in Node :
            \/ BecomeCandidate(n)
            \/ ReplicateLog(n)
            \/ \E m \in msgs : Receive(n, m)
            \/ Persist(n)
            \/ FailPersist(n)
            \/ \E c \in Request : ClientRequest(n, c)
                                \/ ClientCheck(n, c)
                                \/ ClientAppend(n, c)
            \/ Crash(n)
      BY <1>2 DEF Next
    <2>2. CASE BecomeCandidate(n)
      BY <2>2, BecomeCandidateType
    <2>3. CASE ReplicateLog(n)
      BY <2>3, ReplicateLogType
    <2>4. ASSUME NEW m \in msgs, Receive(n, m) PROVE TypeInv'
      BY <2>4, MaybeStepDownType, HandleVoteRequestType,
         HandleVoteResponseType, HandleAppendEntriesType,
         HandleAppendEntriesResponseType DEF Receive
    <2>5. CASE Persist(n) \/ FailPersist(n)
      BY <2>5, PersistType
    <2>6. ASSUME NEW c \in Request,
                 ClientRequest(n, c) \/ ClientCheck(n, c) \/ ClientAppend(n, c)
          PROVE  TypeInv'
      BY <2>6, ClientType
    <2>7. CASE Crash(n)
      BY <2>7, CrashType
    <2> QED
      BY <2>1, <2>2, <2>3, <2>4, <2>5, <2>6, <2>7
  <1> QED
    BY <1>1, <1>2

\* Every variable keeps its type: no index is read outside the log when
\* entries are applied, no index reaches below 1, and every message that a
\* handler builds is one that a handler understands.
THEOREM TypeCorrect == Spec => []TypeOK
  <1>1. TypeInv => TypeOK
    BY DEF TypeInv
  <1> QED
    BY <1>1, InitType, NextType, PTL DEF Spec
==============================================================================
