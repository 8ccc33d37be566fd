----------------------------- MODULE MCFiveNodes -----------------------------
(***************************************************************************)
(* RaftCore with five nodes, too many for all of their behaviours.  Script *)
(* keeps TLC on the way to one case: a leader with a single follower at    *)
(* its side appends an entry, and the next leader, elected by the others,  *)
(* hears of the length of these two logs.                                  *)
(***************************************************************************)
EXTENDS MCRaftCore

\* The nodes and the requests in some order.
Nth == CHOOSE f \in [1..5 -> Node] : {f[i] : i \in 1..5} = Node

Req == CHOOSE f \in [1..3 -> Request] : {f[i] : i \in 1..3} = Request

Falling(seq) == \A i \in 1..(Len(seq) - 1) : seq[i] >= seq[i + 1]

Term(i) == current_term[Nth[i]]

Length(i) == HighestIndex(log[Nth[i]])

\* The terms of the entries in a log.
LogTerms(i) == [k \in 1..Length(i) |-> log[Nth[i]][k].term]

\* In term 1 the first node leads, with the votes of the second and the
\* third.  All nodes get its first entry, the second node its second, which is
\* lost on the way to the others.
FirstTerm ==
    /\ r[Nth[1]].kind # "Follower"
    /\ \A i \in 4..5 : r[Nth[i]].kind = "Follower" /\ r[Nth[i]].voted_for = None
    /\ is_leader(Nth[1]) =>
         r[Nth[1]].match_indexes = [p \in Peers(Nth[1]) |-> 0]
    /\ Falling([i \in 1..5 |-> Term(i)])
    /\ Falling(<<2>> \o [i \in 1..5 |-> Length(i)])
    /\ Length(1) = 2 => Length(5) = 1
    /\ Length(3) <= 1

\* In term 2 the third node leads, with the votes of the last two.
SecondTerm ==
    /\ r[Nth[3]].kind # "Follower"
    /\ Length(3) <= 2
    /\ LogTerms(1) = <<1, 1>> /\ LogTerms(2) = <<1, 1>> /\ LogTerms(5) = <<1>>
    /\ Falling(<<2, Term(3), Term(4), Term(5), Term(1), Term(2)>>)

Script ==
    /\ \A i \in 1..2 : Req[i + 1] \in issued => Req[i] \in issued
    /\ \A m \in msgs : m.type = "AppendEntriesResponse" => m.success
    /\ events.elections = 1 => FirstTerm
    /\ events.elections = 2 => SecondTerm
==============================================================================
