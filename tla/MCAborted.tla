------------------------------ MODULE MCAborted ------------------------------
(***************************************************************************)
(* RaftCore with eight elections, too many for all of their behaviours.    *)
(* Script keeps TLC on the way to one case: of what a leader sends, its    *)
(* entry reaches one other node, a later leader makes it drop the entry,   *)
(* and the other node is elected in the end and commits it.                *)
(***************************************************************************)
EXTENDS MCRaftCore

\* The nodes and the requests in some order.
Nth == CHOOSE f \in [1..3 -> Node] : {f[i] : i \in 1..3} = Node

Req == CHOOSE f \in [1..4 -> Request] : {f[i] : i \in 1..4} = Request

\* Who stands in each term, who takes part in it (what is sent to the others is
\* lost), and how many requests have been sent by its end: one each in terms 1,
\* 2, 5 and 8.  In terms 3 and 6 the nodes stand in vain; it frees them from the
\* vote that a follower keeps across terms.
Standing == <<1, 2, 3, 1, 3, 1, 2, 3>>

TakingPart == <<{1, 2}, {2, 3}, {1, 3}, {1, 3}, {1, 3}, {1, 2}, 1..3, 1..3>>

Sent == <<1, 2, 2, 2, 3, 3, 3, 4>>

\* The terms of the entries that each node has by the end of each term but the
\* last.
Logs ==
    << << <<1>>, <<>>,  <<>> >>,
       << <<1>>, <<2>>, <<>> >>,
       << <<1>>, <<2>>, <<>> >>,
       << <<1>>, <<2>>, <<1>> >>,
       << <<1>>, <<2>>, <<1, 5>> >>,
       << <<1>>, <<2>>, <<1, 5>> >>,
       << <<2>>, <<2>>, <<1, 5>> >> >>

LogTerms(i) ==
    [k \in 1..HighestIndex(log[Nth[i]]) |-> log[Nth[i]][k].term]

\* In a term a log is as the term before has left it, or as this one will.
Script ==
    LET t == events.elections
    IN  /\ \A i \in 1..3 : Req[i + 1] \in issued => Req[i] \in issued
        /\ t > 0 => /\ current_term[Nth[Standing[t]]] = t
                    /\ Cardinality(issued) <= Sent[t]
        /\ t > 1 => Cardinality(issued) >= Sent[t - 1]
        /\ \A i \in 1..3 :
             /\ t > 0 /\ current_term[Nth[i]] = t => i \in TakingPart[t]
             /\ t \in 1..7 =>
                  LogTerms(i) \in {IF t = 1 THEN <<>> ELSE Logs[t - 1][i],
                                   Logs[t][i]}
==============================================================================
