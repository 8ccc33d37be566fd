----------------------------- MODULE MCRaftCore ------------------------------
(***************************************************************************)
(* RaftCore for TLC.  Nodes and requests are interchangeable.              *)
(***************************************************************************)
EXTENDS RaftCore, TLC

CONSTANT
    MaxExtras      \* heartbeat rounds, receptions of messages whose term has
                   \* passed and late appends, all counted together

ASSUME ExtrasAssumption == MaxExtras \in Nat

Extras == events.rounds + events.stale + events.late_appends

ExtrasBound == Extras <= MaxExtras

Symmetry == Permutations(Node) \cup Permutations(Request)

(***************************************************************************)
(* The same reduction at less cost, for three nodes, two requests and no   *)
(* crashes: some node is the first to stand for election, some other the   *)
(* next to enter a term, and some request the first to be sent, so let it  *)
(* be these.                                                               *)
(***************************************************************************)
FirstNode == CHOOSE n \in Node : TRUE

SecondNode == CHOOSE n \in Node \ {FirstNode} : TRUE

FirstRequest == CHOOSE c \in Request : TRUE

FirstComeFirst ==
    /\ \A n \in Node \ {FirstNode} :
         /\ events.elections = 1 => r[n].kind = "Follower"
         /\ current_term[n] > 0 => current_term[SecondNode] > 0
    /\ issued # {} => FirstRequest \in issued

(***************************************************************************)
(* A message may stay unreceived, so that whatever can happen after a      *)
(* leader has sent some of its messages can happen after it has sent all   *)
(* of them.  Unless a property is about messages it is enough to look at   *)
(* the rounds and requests in which the leader sends to every peer.        *)
(***************************************************************************)
NothingHeldBack ==
    events'.rounds # events.rounds \/ (issued' # issued /\ log' # log) =>
        \E n \in Node :
            /\ is_leader(n)
            /\ replicate_log(n, log'[n], r[n].next_indexes, TRUE) \subseteq msgs'

(***************************************************************************)
(* The view of the runs without crashes and late writes.  There the disk   *)
(* is never read, and terms only grow, so that a message which its         *)
(* receiver ignores now and will ignore later is as good as lost: a        *)
(* message of an earlier term once no more of these may be received        *)
(* (NoMoreStale), an answer to a node that no longer can be a leader, a    *)
(* vote for a candidacy that is over, or an AppendEntries message whose    *)
(* entries the follower holds already and has answered for (Superseded).   *)
(* States that differ only in these behave alike, and the properties of    *)
(* those runs do not depend on them.                                       *)
(***************************************************************************)
MayLead(n) ==
    r[n].kind \in {"Candidate", "Leader"} \/ events.elections < MaxElections

NoMoreStale == events.stale = MaxStale \/ Extras = MaxExtras

\* No client thread has appended late or will.
NoLateAppends ==
    /\ events.late_appends = 0
    /\ MaxLateAppends = 0 \/ Extras = MaxExtras

\* In its term a follower's log only changes through this leader, whose
\* messages agree with each other; each is answered with the length of the
\* whole log.  So the message will never change the log again, and its answer
\* will be one that has been given.
Superseded(m) ==
    LET lg == log[m.dst]
        last == m.prev_log_index + Len(m.entries)
    IN  /\ m.type = "AppendEntries"
        /\ m.term = current_term[m.dst]
        /\ NoMoreStale
        /\ NoLateAppends
        /\ r[m.dst].kind = "Follower"
        /\ r[m.dst].leader = m.src
        /\ m.commit_index <= commit_index[m.dst]
        /\ PrevMatches(m.dst, m)
        /\ last <= Len(lg)
        /\ SubSeq(lg, m.prev_log_index + 1, last) = m.entries
        /\ AppendEntriesResponse(m.dst, m, lg, TRUE) \in msgs

Ignored(m) ==
    \/ m.term < current_term[m.dst] /\ NoMoreStale
    \/ m.type = "AppendEntriesResponse" /\ ~ MayLead(m.dst)
    \/ /\ m.type = "RequestVoteResponse"
       /\ CountsVote(m.dst, m) => m.src \in r[m.dst].votes
    \/ Superseded(m)

Live(m) == m.term > current_term[m.dst] \/ ~ Ignored(m)

CrashFreeView ==
    <<{m \in msgs : Live(m)}, current_term, log, commit_index, machine, r, rpc,
      pending, callbacks, replies, issued, events>>

\* For the runs that follow a script: a node that has stepped down handles the
\* message before others go on.
NoPause ==
    \A n \in Node : rpc[n].phase = "stepped" => rpc'[n].phase # "stepped"
==============================================================================
