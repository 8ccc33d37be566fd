------------------------------- MODULE RaftLog -------------------------------
(***************************************************************************)
(* The pure part of raft/src/state.rs: the log (struct Log), the order in  *)
(* which logs are compared when voting, and the two counting functions     *)
(* (won_election, lower_median).                                           *)
(*                                                                         *)
(* Conventions.  An Option<LogIndex> or Option<Term> is a natural number,  *)
(* 0 standing for None: indexes start at 1 and the term of an entry is at  *)
(* least 1, because a term is stepped before anything is appended in it.   *)
(* Rust orders None below every Some, as 0 is below every such number.     *)
(***************************************************************************)
EXTENDS Naturals, Sequences, FiniteSets

(***************************************************************************)
(* Log::highest_index, Log::last and Log::get(..).map(|e| e.term).         *)
(***************************************************************************)
HighestIndex(lg) == Len(lg)

TermAt(lg, idx) == IF idx \in 1..Len(lg) THEN lg[idx].term ELSE 0

LastTerm(lg) == TermAt(lg, Len(lg))

(***************************************************************************)
(* Log::get_from, with the unwrap_or_default of its only caller that sends *)
(* entries: an index past the end yields no entries.                       *)
(***************************************************************************)
GetFrom(lg, idx) == SubSeq(lg, idx, Len(lg))

(***************************************************************************)
(* Log::replace_from.  Entry k of with is already held when the log has an *)
(* entry of the same term at its place.  The loop stops at the first entry *)
(* not held: there the tail has ended (append the rest) or conflicts       *)
(* (drain the tail, dismissing it, and append the rest).  When every entry *)
(* is held the log keeps its tail.                                         *)
(***************************************************************************)
\* Mutant: an entry is taken as held whatever its term.
HeldAnyTerm(lg, index, with, k) == index + k - 1 <= Len(lg)

Held(lg, index, with, k) ==
    /\ index + k - 1 <= Len(lg)
    /\ lg[index + k - 1].term = with[k].term

NotHeld(lg, index, with) ==
    {k \in 1..Len(with) : ~ Held(lg, index, with, k)}

FirstNotHeld(lg, index, with) ==
    CHOOSE k \in NotHeld(lg, index, with) :
        \A j \in NotHeld(lg, index, with) : k <= j

\* Mutant: the entries that are held already are added again.
ReplaceFromRepeating(lg, index, with) ==
    IF index > Len(lg) + 1 \/ NotHeld(lg, index, with) = {}
    THEN lg
    ELSE LET k == FirstNotHeld(lg, index, with)
         IN  SubSeq(lg, 1, index + k - 2) \o with

\* Mutant: the tail is dropped also when it does not conflict.
ReplaceFromTruncating(lg, index, with) ==
    IF index > Len(lg) + 1 THEN lg ELSE SubSeq(lg, 1, index - 1) \o with

ReplaceFrom(lg, index, with) ==
    IF index > Len(lg) + 1 \/ NotHeld(lg, index, with) = {}
    THEN lg
    ELSE LET k == FirstNotHeld(lg, index, with)
         IN  SubSeq(lg, 1, index + k - 2) \o SubSeq(with, k, Len(with))

\* The commands of the entries that replace_from drains and dismisses.
Dismissed(lg, index, with) ==
    IF index > Len(lg) + 1 \/ NotHeld(lg, index, with) = {}
    THEN {}
    ELSE {lg[i].cmd : i \in
            (index + FirstNotHeld(lg, index, with) - 1)..Len(lg)}

(***************************************************************************)
(* The comparison in handle_vote_request of the candidate's last entry     *)
(* with the voter's.                                                       *)
(***************************************************************************)
UpToDate(lastTerm, lastIndex, lg) ==
    \/ lastTerm > LastTerm(lg)
    \/ lastTerm = LastTerm(lg) /\ lastIndex >= HighestIndex(lg)

(***************************************************************************)
(* won_election: the size of a majority of a cluster.                      *)
(***************************************************************************)
WonElection(votesReceived, clusterSize) ==
    votesReceived >= clusterSize \div 2 + 1

(***************************************************************************)
(* lower_median of the values of f: the element that select_nth_unstable   *)
(* puts at machine index mid.                                              *)
(***************************************************************************)
LowerMedian(f) ==
    LET mid == (Cardinality(DOMAIN f) - 1) \div 2
    IN  CHOOSE v \in {f[p] : p \in DOMAIN f} :
            /\ Cardinality({p \in DOMAIN f : f[p] < v}) <= mid
            /\ Cardinality({p \in DOMAIN f : f[p] <= v}) > mid
==============================================================================
