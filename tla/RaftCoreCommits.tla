--------------------------- MODULE RaftCoreCommits ---------------------------
(***************************************************************************)
(* What is committed stays committed: the nodes apply the same commands in *)
(* the same order, leaders have whatever was applied, an acknowledged      *)
(* command stays in the logs of a majority, and no handler panics.  Proved *)
(* for any number of clients, elections, rounds, lost, late and repeated   *)
(* messages, under four conditions that the code does not establish:       *)
(*   - the cluster has at most three nodes: the lower median of the match  *)
(*     indexes counts the reports of peers that keep a tail the leader did *)
(*     not send, and only among two peers it is the least of them (see the *)
(*     run tail_counted for five nodes);                                   *)
(*   - no process crashes;                                                 *)
(*   - no client thread is descheduled between its leadership check and    *)
(*     its append (see the run late_append);                               *)
(*   - a leader takes only answers of its own term for answers to its      *)
(*     messages (AnswersAreCurrent).  handle_append_entries_response does  *)
(*     not look at the term of an answer.  Where no node handles a message *)
(*     of a term that has passed, this holds.                              *)
(*                                                                         *)
(* The argument goes along a history of the terms: the log that the leader *)
(* of a term has built so far, how long it was at the election, who        *)
(* elected it, and which node has held which entry in the term of the      *)
(* entry (its acknowledgement).  An entry is chosen when a majority has    *)
(* acknowledged it, and dead when a majority is in later terms without     *)
(* having done so; both are for ever, and they exclude each other.  An     *)
(* acknowledged entry is dead or still in the log of the node, and in that *)
(* of every candidate the node has voted for since; so later leaders have  *)
(* every entry that is not dead, a chosen one in particular.  A voter of a *)
(* leader that has accepted an AppendEntries of that leader holds a prefix *)
(* of its log, so the length that it reports is honest; this is not so of  *)
(* other nodes, but a leader that has heard from both its peers has heard  *)
(* from its voter.                                                         *)
(***************************************************************************)
EXTENDS RaftCoreLogs

IsRequest(x) == x.type = "RequestVote"

IsSuccess(x) == x.type = "AppendEntriesResponse" /\ x.success

\* Logs a and b are the same up to index i.
SameUpTo(a, b, i) ==
    i <= Len(a) /\ i <= Len(b) /\ \A j \in 1..i : a[j] = b[j]

PrefixOf(a, b) == SameUpTo(a, b, Len(a))

Holds(lg, k, t) == k \in 1..Len(lg) /\ lg[k].term = t

\* A log that ends like lg must hold entry k of term t, if its entries come
\* from leaders that do.
Covers(lg, k, t) == LastTerm(lg) > t \/ (LastTerm(lg) = t /\ Len(lg) >= k)

Majority(Q) ==
    Q \subseteq Node /\ WonElection(Cardinality(Q), Cardinality(Node))

Stands(n, t) == r[n].kind = "Candidate" /\ current_term[n] = t
-----------------------------------------------------------------------------
(***************************************************************************)
(* The history of the terms.                                               *)
(***************************************************************************)
History ==
    [logs : [Nat -> Seq(Entry)], base : [Nat -> Nat],
     voters : [Nat -> SUBSET Node], acks : SUBSET (Node \X Nat \X Nat)]

Chosen(h, k, t) ==
    /\ Holds(h.logs[t], k, t)
    /\ \E Q : Majority(Q) /\ \A g \in Q : <<g, k, t>> \in h.acks

Dead(h, k, t) ==
    \E Q : /\ Majority(Q)
           /\ \A g \in Q : current_term[g] > t /\ <<g, k, t>> \notin h.acks

\* Every entry of a log comes, with all below it, from the leader of its
\* term.
Traced(h, lg) ==
    \A i \in 1..Len(lg) : SameUpTo(lg, h.logs[lg[i].term], i)

TermsUpTo(lg, t) == \A i \in 1..Len(lg) : lg[i].term \in 1..t

LogsFit(h) ==
    /\ \A s \in Nat : Traced(h, h.logs[s]) /\ TermsUpTo(h.logs[s], s)
    /\ \A n \in Node : Traced(h, log[n]) /\ TermsUpTo(log[n], current_term[n])
    /\ \A n \in Node : is_leader(n) => log[n] = h.logs[current_term[n]]

TermsFit(h) ==
    /\ \A s \in Nat :
         /\ h.voters[s] # {} =>
              Majority(h.voters[s]) /\ \E x \in Node : Led(x, s)
         /\ h.voters[s] = {} => h.logs[s] = <<>>
         /\ h.base[s] <= Len(h.logs[s])
    /\ \A n \in Node : is_leader(n) => n \in h.voters[current_term[n]]

\* What voters of a term may still hold.
VotersFit(h) ==
    \A t \in Nat : \A q \in h.voters[t] :
        \/ current_term[q] > t
        \/ /\ current_term[q] = t
           /\ \/ UpToDate(TermAt(h.logs[t], h.base[t]), h.base[t], log[q])
              \/ PrefixOf(log[q], h.logs[t])

\* An AppendEntries message has a piece of the log of its leader, up to an
\* end that is not below what the leader was elected with ...
End(y) == y.prev_log_index + Len(y.entries)

InPlace(h, y) ==
    /\ End(y) <= Len(h.logs[y.term])
    /\ h.base[y.term] <= End(y)
    /\ y.commit_index <= End(y)
    /\ y.prev_log_term = TermAt(h.logs[y.term], y.prev_log_index)
    /\ \A i \in 1..Len(y.entries) :
         y.entries[i] = h.logs[y.term][y.prev_log_index + i]

\* ... or it starts past the end of that log, because the peer has answered
\* with the length of a longer one.
Answered(p, t, i) ==
    \E x \in msgs : IsSuccess(x) /\ x.src = p /\ x.term = t /\ i <= x.index

Past(y) ==
    /\ y.prev_log_index > 0 /\ y.prev_log_term = 0 /\ y.entries = <<>>
    /\ Answered(y.dst, y.term, y.prev_log_index)

Committed(h, c, t) ==
    c = 0 \/ \E k, u \in Nat : Chosen(h, k, u) /\ u <= t /\ c <= k

AppendsFit(h) ==
    \A y \in Said : IsAppend(y) =>
        /\ h.voters[y.term] # {}
        /\ InPlace(h, y) \/ Past(y)
        /\ Committed(h, y.commit_index, y.term)

ResponsesFit(h) ==
    \A x \in Said : IsSuccess(x) =>
        /\ h.voters[x.term] # {}
        /\ \/ current_term[x.src] > x.term
           \/ x.index <= Len(log[x.src])
           \/ PrefixOf(log[x.src], h.logs[x.term])
        /\ x.src \in h.voters[x.term] =>
             /\ \/ current_term[x.src] > x.term
                \/ PrefixOf(log[x.src], h.logs[x.term])
             /\ x.index <= Len(h.logs[x.term])
             /\ \A k \in 1..x.index :
                  h.logs[x.term][k].term = x.term
                      => <<x.src, k, x.term>> \in h.acks

RequestsFit ==
    \A w \in Said : IsRequest(w) =>
        /\ w.term <= current_term[w.src]
        /\ Stands(w.src, w.term) =>
             /\ w.last_log_index = Len(log[w.src])
             /\ w.last_log_term = LastTerm(log[w.src])

GrantsFit(h) ==
    \A x \in Said : IsGrant(x) =>
        /\ x.term <= current_term[x.dst]
        /\ Stands(x.dst, x.term) =>
             \/ current_term[x.src] > x.term
             \/ h.voters[x.term] # {}
             \/ UpToDate(LastTerm(log[x.dst]), Len(log[x.dst]), log[x.src])

\* Node q and the candidates it has voted for since hold entry k of term t.
Kept(q, k, t) ==
    /\ Holds(log[q], k, t)
    /\ \A x \in Said :
         IsGrant(x) /\ x.src = q /\ x.term > t /\ Stands(x.dst, x.term)
             => Covers(log[x.dst], k, t)

AcksFit(h) ==
    /\ \A q \in Node : \A k, t \in Nat : <<q, k, t>> \in h.acks =>
         /\ Holds(h.logs[t], k, t)
         /\ t <= current_term[q]
         /\ Dead(h, k, t) \/ Kept(q, k, t)
    /\ \A q \in Node : \A k \in Nat :
         Holds(log[q], k, current_term[q])
             => <<q, k, current_term[q]>> \in h.acks

LeadersHave(h) ==
    \A s, t, k \in Nat :
        Holds(h.logs[t], k, t) /\ s > t /\ h.voters[s] # {}
            => Holds(h.logs[s], k, t) \/ Dead(h, k, t)

\* What a leader notes of a peer stems from an answer of its term.
BooksFit ==
    \A n \in Node : is_leader(n) => \A p \in Peers(n) :
        /\ \/ r[n].next_indexes[p] <= Len(log[n]) + 1
           \/ Answered(p, current_term[n], r[n].next_indexes[p] - 1)
        /\ \/ r[n].match_indexes[p] = 0
           \/ Answered(p, current_term[n], r[n].match_indexes[p])

CommitsFit(h) ==
    \A n \in Node :
        \/ commit_index[n] = 0
        \/ \E k, t \in Nat :
             /\ Chosen(h, k, t) /\ t <= current_term[n]
             /\ commit_index[n] <= k
             /\ SameUpTo(log[n], h.logs[t], commit_index[n])

MachinesFit ==
    \A n \in Node : \A i \in 1..Len(machine[n]) :
        machine[n][i] = log[n][i].cmd

RepliesFit(h) ==
    \A y \in replies : y.kind = "ok" =>
        \E k, t \in Nat : /\ Chosen(h, k, t)
                          /\ \E i \in 1..k : h.logs[t][i].cmd = y.cmd

Fits(h) ==
    /\ LogsFit(h) /\ TermsFit(h) /\ VotersFit(h)
    /\ AppendsFit(h) /\ ResponsesFit(h) /\ RequestsFit /\ GrantsFit(h)
    /\ AcksFit(h) /\ LeadersHave(h)
    /\ BooksFit /\ CommitsFit(h) /\ MachinesFit /\ RepliesFit(h)

CommitInv == NoPanic /\ \E h \in History : Fits(h)
-----------------------------------------------------------------------------
(***************************************************************************)
(* Logs that are the same up to an index.                                  *)
(***************************************************************************)

\* Sameness is symmetric, ...
LEMMA SameSym ==
    ASSUME NEW a, NEW b, NEW i, SameUpTo(a, b, i)
    PROVE  SameUpTo(b, a, i)
  BY DEF SameUpTo

\* ... reflexive, ...
LEMMA SameSelf ==
    ASSUME NEW a \in Seq(Entry), NEW i \in Nat, i <= Len(a)
    PROVE  SameUpTo(a, a, i) /\ PrefixOf(a, a)
  <1>1. Len(a) \in Nat
    BY LenProperties
  <1> QED
    BY <1>1 DEF SameUpTo, PrefixOf

\* ... inherited by smaller indexes ...
LEMMA SameBelow ==
    ASSUME NEW a \in Seq(Entry), NEW b \in Seq(Entry), NEW i \in Nat,
           NEW k \in Nat, k <= i, SameUpTo(a, b, i)
    PROVE  SameUpTo(a, b, k)
  <1>1. Len(a) \in Nat /\ Len(b) \in Nat
    BY LenProperties
  <1> QED
    BY <1>1 DEF SameUpTo

\* ... and transitive.
LEMMA SameTrans ==
    ASSUME NEW a \in Seq(Entry), NEW b \in Seq(Entry), NEW c \in Seq(Entry),
           NEW i \in Nat, NEW j \in Nat, NEW k \in Nat, k <= i, k <= j,
           SameUpTo(a, b, i), SameUpTo(b, c, j)
    PROVE  SameUpTo(a, c, k)
  <1>1. Len(a) \in Nat /\ Len(b) \in Nat /\ Len(c) \in Nat
    BY LenProperties
  <1> QED
    BY <1>1 DEF SameUpTo

\* Logs that are the same hold the same entries.
LEMMA SameHolds ==
    ASSUME NEW a \in Seq(Entry), NEW b \in Seq(Entry), NEW i \in Nat,
           SameUpTo(a, b, i), NEW k \in Nat, k <= i, NEW t
    PROVE  /\ Holds(a, k, t) => Holds(b, k, t)
           /\ TermAt(a, k) = TermAt(b, k)
  <1>1. Len(a) \in Nat /\ Len(b) \in Nat
    BY LenProperties
  <1> QED
    BY <1>1 DEF SameUpTo, Holds, TermAt

\* An empty log is a prefix of every log.
LEMMA EmptyPrefix ==
    ASSUME NEW a \in Seq(Entry)
    PROVE  PrefixOf(<<>>, a)
  <1>1. Len(a) \in Nat /\ Len(<<>>) = 0
    BY LenProperties
  <1> QED
    BY <1>1 DEF SameUpTo, PrefixOf

\* The parts of a history.
LEMMA HistoryType ==
    ASSUME NEW h \in History, NEW s \in Nat
    PROVE  /\ h.logs[s] \in Seq(Entry) /\ Len(h.logs[s]) \in Nat
           /\ h.base[s] \in Nat
           /\ h.voters[s] \subseteq Node
  <1>1. h.logs[s] \in Seq(Entry) /\ h.base[s] \in Nat /\ h.voters[s] \subseteq Node
    BY DEF History
  <1> QED
    BY <1>1, LenProperties

\* The entries of a log.
LEMMA HoldsType ==
    ASSUME NEW lg \in Seq(Entry), NEW k, NEW t, Holds(lg, k, t)
    PROVE  /\ k \in Nat /\ k > 0 /\ k <= Len(lg) /\ k \in 1..Len(lg)
           /\ Len(lg) \in Nat /\ t \in Nat
           /\ lg[k].term = t /\ lg[k] \in Entry /\ TermAt(lg, k) = t
  <1>1. k \in 1..Len(lg) /\ lg[k].term = t /\ Len(lg) \in Nat
    BY LenProperties DEF Holds
  <1>2. lg[k] \in Entry
    BY <1>1, ElementOfSeq
  <1> QED
    BY <1>1, <1>2 DEF Entry, TermAt

\* Two traced logs with an entry of the same term are the same up to it.
LEMMA TracedSame ==
    ASSUME NEW h \in History, NEW a \in Seq(Entry), NEW b \in Seq(Entry),
           Traced(h, a), Traced(h, b), NEW k, NEW t, Holds(a, k, t),
           Holds(b, k, t)
    PROVE  SameUpTo(a, b, k)
  <1>1. /\ k \in 1..Len(a) /\ k \in 1..Len(b) /\ a[k].term = t /\ b[k].term = t
        /\ k \in Nat /\ k <= k /\ h.logs[t] \in Seq(Entry)
    <2>1. k \in 1..Len(a) /\ a[k].term = t /\ k \in Nat /\ t \in Nat
      BY HoldsType
    <2>2. k \in 1..Len(b) /\ b[k].term = t
      BY DEF Holds
    <2> QED
      BY <2>1, <2>2, HistoryType
  <1>2. SameUpTo(a, h.logs[t], k) /\ SameUpTo(b, h.logs[t], k)
    BY <1>1 DEF Traced
  <1> QED
    BY <1>1, <1>2, SameSym, SameTrans

\* The terms of a traced log do not decrease.
LEMMA TracedTerms ==
    ASSUME NEW h \in History, LogsFit(h), NEW a \in Seq(Entry), Traced(h, a),
           NEW k, NEW t, Holds(a, k, t), NEW i \in 1..k
    PROVE  /\ a[i].term \in Nat /\ a[i].term > 0 /\ a[i].term <= t
           /\ Holds(a, i, a[i].term)
  <1>1. /\ k \in 1..Len(a) /\ a[k].term = t /\ k \in Nat /\ t \in Nat
        /\ Len(a) \in Nat
    BY HoldsType
  <1>2. SameUpTo(a, h.logs[t], k) /\ TermsUpTo(h.logs[t], t)
    BY <1>1 DEF Traced, LogsFit
  <1>3. h.logs[t] \in Seq(Entry) /\ Len(h.logs[t]) \in Nat
    BY <1>1, HistoryType
  <1>4. i \in 1..Len(h.logs[t]) /\ a[i] = h.logs[t][i]
    BY <1>1, <1>2, <1>3 DEF SameUpTo
  <1>5. a[i].term \in 1..t
    BY <1>2, <1>4 DEF TermsUpTo
  <1> QED
    BY <1>1, <1>5 DEF Holds

\* ... so the last one is the greatest.
LEMMA TracedLast ==
    ASSUME NEW h \in History, LogsFit(h), NEW a \in Seq(Entry), Traced(h, a),
           NEW k, NEW t, Holds(a, k, t)
    PROVE  /\ LastTerm(a) \in Nat /\ LastTerm(a) >= t
           /\ Len(a) \in Nat /\ Len(a) >= k
           /\ Holds(a, Len(a), LastTerm(a))
  <1>1. k \in 1..Len(a) /\ a[k].term = t /\ Len(a) \in Nat /\ t \in Nat
    BY HoldsType
  <1>2. Len(a) \in 1..Len(a) /\ LastTerm(a) = a[Len(a)].term
    BY <1>1 DEF LastTerm, TermAt
  <1>3. Holds(a, Len(a), LastTerm(a))
    BY <1>2 DEF Holds
  <1>4. a[k].term <= LastTerm(a) /\ LastTerm(a) \in Nat
    BY <1>1, <1>3, TracedTerms, HoldsType
  <1> QED
    BY <1>1, <1>3, <1>4

\* An entry is not chosen and dead.
LEMMA ChosenNotDead ==
    ASSUME NEW h, NEW k, NEW t, Chosen(h, k, t)
    PROVE  ~ Dead(h, k, t)
  <1> SUFFICES ASSUME Dead(h, k, t) PROVE FALSE
    OBVIOUS
  <1>1. PICK P : Majority(P) /\ \A g \in P : <<g, k, t>> \in h.acks
    BY DEF Chosen
  <1>2. PICK Q : Majority(Q) /\ \A g \in Q : <<g, k, t>> \notin h.acks
    BY DEF Dead
  <1>3. P \cap Q # {}
    BY <1>1, <1>2, MajoritiesMeet DEF Majority
  <1> QED
    BY <1>1, <1>2, <1>3

\* What is acknowledged by no node of a majority in later terms is dead: the
\* rest is in every log that ends like that of a leader.
LEMMA CoveringHolds ==
    ASSUME NEW h \in History, LogsFit(h), TermsFit(h), LeadersHave(h),
           NEW a \in Seq(Entry), Traced(h, a), NEW k, NEW t \in Nat,
           Holds(h.logs[t], k, t), Covers(a, k, t)
    PROVE  Holds(a, k, t) \/ Dead(h, k, t)
  <1>1. /\ h.logs[t] \in Seq(Entry) /\ k \in Nat /\ k > 0 /\ Len(a) \in Nat
        /\ Traced(h, h.logs[t]) /\ TermsUpTo(h.logs[t], t)
        /\ Len(h.logs[t]) \in Nat /\ k <= Len(h.logs[t]) /\ t > 0
    <2>1. h.logs[t] \in Seq(Entry) /\ Len(h.logs[t]) \in Nat
      BY HistoryType
    <2>2. k \in 1..Len(h.logs[t]) /\ h.logs[t][k].term = t
      BY <2>1, HoldsType
    <2>3. Traced(h, h.logs[t]) /\ TermsUpTo(h.logs[t], t)
      BY DEF LogsFit
    <2>4. t \in 1..t
      BY <2>2, <2>3 DEF TermsUpTo
    <2> QED
      BY <2>1, <2>2, <2>3, <2>4, LenProperties
  <1> DEFINE s == LastTerm(a)
             e == Len(a)
  <1>2. s \in Nat /\ s >= t
    <2>1. s \in Nat
      BY <1>1, TermAtType DEF LastTerm
    <2> QED
      BY <1>1, <2>1 DEF Covers
  <1>3. Holds(a, e, s) /\ a[e].term = s /\ e \in 1..e
    <2>1. e \in 1..Len(a)
      BY <1>1, <1>2, TermAtType DEF LastTerm
    <2> QED
      BY <2>1 DEF Holds, LastTerm, TermAt
  <1>4. SameUpTo(a, h.logs[s], e)
    BY <1>3 DEF Traced
  <1>5. /\ h.logs[s] \in Seq(Entry) /\ Traced(h, h.logs[s])
        /\ Len(h.logs[s]) \in Nat
    BY <1>2, HistoryType DEF LogsFit
  <1>6. h.voters[s] # {}
    <2>1. h.logs[s] # <<>>
      <3>1. e <= Len(h.logs[s]) /\ e > 0
        BY <1>3, <1>4, <1>1 DEF SameUpTo
      <3> QED
        BY <3>1, <1>1, EmptySeq
    <2> QED
      BY <1>2, <2>1 DEF TermsFit
  <1>7. Holds(h.logs[s], k, t) \/ Dead(h, k, t)
    <2>1. CASE s = t
      BY <2>1
    <2>2. CASE s # t
      <3>1. s > t
        BY <1>2, <2>2
      <3> QED
        BY <1>1, <1>2, <1>6, <3>1 DEF LeadersHave
    <2> QED
      BY <2>1, <2>2
  <1>8. ASSUME Holds(h.logs[s], k, t) PROVE k <= e
    <2>1. CASE s = t
      BY <2>1, <1>2 DEF Covers
    <2>2. CASE s # t
      <3>1. SUFFICES ASSUME e < k PROVE FALSE
        BY <1>1
      <3>2. e \in 1..k /\ h.logs[s][e] = a[e]
        BY <1>1, <1>3, <1>4, <3>1 DEF SameUpTo
      <3>3. h.logs[s][e].term <= t
        BY <1>5, <1>8, <3>2, TracedTerms
      <3> QED
        BY <1>2, <1>3, <2>2, <3>2, <3>3
    <2> QED
      BY <2>1, <2>2
  <1> HIDE DEF s, e
  <1>9. ASSUME Holds(h.logs[s], k, t) PROVE Holds(a, k, t)
    <2>1. SameUpTo(h.logs[s], a, e) /\ k <= e /\ e \in Nat
      BY <1>1, <1>4, <1>8, <1>9, SameSym DEF e
    <2> QED
      BY <1>1, <1>5, <1>9, <2>1, SameHolds
  <1> QED
    BY <1>7, <1>9
-----------------------------------------------------------------------------
(***************************************************************************)
(* What a step of node n may do, besides Forward(n) of RaftCoreLogs.       *)
(***************************************************************************)
Accepts(n, m) ==
    /\ IsAppend(m) /\ m.dst = n /\ m.term = current_term[n]
    /\ current_term'[n] = current_term[n]
    /\ r[n].kind # "Leader" /\ r'[n].kind = "Follower"
    /\ PrevMatches(n, m)
    /\ log'[n] = ReplaceFrom(log[n], m.prev_log_index + 1, m.entries)

LogMove(n) ==
    \/ log'[n] = log[n]
    \/ /\ r[n].kind = "Leader" /\ r'[n].kind = "Leader"
       /\ \E c \in Request : log'[n] = append(n, c)
    \/ \E m \in msgs : Accepts(n, m)

\* What n says in the step.
Utterance(n, x) ==
    /\ IsRequest(x) =>
         /\ x.term = current_term'[n] /\ current_term'[n] > current_term[n]
         /\ log'[n] = log[n]
         /\ x.last_log_index = Len(log[n]) /\ x.last_log_term = LastTerm(log[n])
    /\ IsGrant(x) =>
         /\ x.term = current_term[n] /\ current_term'[n] = current_term[n]
         /\ log'[n] = log[n]
         /\ \E m \in msgs :
              /\ IsRequest(m) /\ m.src = x.dst /\ m.term >= x.term
              /\ UpToDate(m.last_log_term, m.last_log_index, log[n])
    /\ IsAppend(x) =>
         /\ x.dst \in Peers(n)
         /\ x.prev_log_index = r'[n].next_indexes[x.dst] - 1
         /\ x.prev_log_term = TermAt(log'[n], r'[n].next_indexes[x.dst] - 1)
         /\ x.entries = GetFrom(log'[n], r'[n].next_indexes[x.dst])
         /\ x.commit_index = commit_index'[n]
    /\ IsSuccess(x) =>
         /\ x.term = current_term[n] /\ x.index = Len(log'[n])
         /\ \E m \in msgs : Accepts(n, m)

BooksMove(n) ==
    r'[n].kind = "Leader" => \A p \in Peers(n) :
        /\ \/ r'[n].next_indexes[p] <= Len(log'[n]) + 1
           \/ /\ r[n].kind = "Leader"
              /\ r'[n].next_indexes[p] <= r[n].next_indexes[p]
           \/ Answered(p, current_term[n], r'[n].next_indexes[p] - 1)
        /\ \/ r'[n].match_indexes[p] = 0
           \/ /\ r[n].kind = "Leader"
              /\ r'[n].match_indexes[p] = r[n].match_indexes[p]
           \/ Answered(p, current_term[n], r'[n].match_indexes[p])

CommitMove(n) ==
    \/ commit_index'[n] = commit_index[n]
    \/ /\ r[n].kind = "Leader" /\ r'[n].kind = "Leader" /\ log'[n] = log[n]
       /\ commit_index'[n] > commit_index[n]
       /\ Holds(log[n], commit_index'[n], current_term[n])
       /\ \A p \in Peers(n) : r'[n].match_indexes[p] >= commit_index'[n]
    \/ \E m \in msgs : /\ Accepts(n, m)
                       /\ commit_index'[n] = FollowerCommit(n, m, log'[n])

MachineMove(n) ==
    /\ Len(machine[n]) <= Len(machine'[n])
    /\ \A i \in 1..Len(machine[n]) : machine'[n][i] = machine[n][i]
    /\ \A i \in 1..Len(machine'[n]) :
         i \in 1..Len(machine[n]) \/ machine'[n][i] = log'[n][i].cmd

RepliesMove(n) ==
    \A y \in replies' : \/ y \in replies \/ y.kind # "ok"
                        \/ \E i \in 1..commit_index'[n] : log'[n][i].cmd = y.cmd

PanicMove(n) ==
    \/ \A p \in Node : Up(p) => Up(p)'
    \/ ~ NoSecondLeader
    \/ \E m \in msgs : Accepts(n, m) /\ Overtaken(n, m, log'[n])

CommitForward(n) ==
    /\ \A p \in Node \ {n} : /\ commit_index'[p] = commit_index[p]
                             /\ machine'[p] = machine[p]
    /\ LogMove(n)
    /\ \A x \in Said' : x \in Said \/ Utterance(n, x)
    /\ BooksMove(n) /\ CommitMove(n) /\ MachineMove(n) /\ RepliesMove(n)
    /\ PanicMove(n)

\* How the history goes on with the step: from h to g.
Elected(n) ==
    /\ r[n].kind = "Candidate" /\ r'[n].kind = "Leader"
    /\ current_term'[n] = current_term[n]
    /\ log'[n] = log[n]

GoesOn(n, h, g) ==
    /\ g \in History
    /\ \A s \in Nat :
         /\ PrefixOf(h.logs[s], g.logs[s])
         /\ \/ g.logs[s] = h.logs[s]
            \/ /\ s = current_term'[n] /\ r'[n].kind = "Leader"
               /\ g.logs[s] = log'[n]
         /\ h.voters[s] # {} => /\ g.voters[s] = h.voters[s]
                                /\ g.base[s] = h.base[s]
         /\ h.voters[s] = {} /\ g.voters[s] = {} => g.base[s] = h.base[s]
         /\ h.voters[s] = {} /\ g.voters[s] # {} =>
              /\ Elected(n) /\ s = current_term[n]
              /\ g.base[s] = Len(log[n])
              /\ n \in g.voters[s] /\ Majority(g.voters[s])
              /\ \A v \in g.voters[s] \ {n} :
                   \E x \in Said : /\ IsGrant(x) /\ x.src = v
                                   /\ x.dst = n /\ x.term = s
    /\ r'[n].kind = "Leader" => /\ g.logs[current_term'[n]] = log'[n]
                                /\ n \in g.voters[current_term'[n]]
    /\ \A a : a \in g.acks <=>
         \/ a \in h.acks
         \/ \E k \in Nat : /\ a = <<n, k, current_term'[n]>>
                           /\ Holds(log'[n], k, current_term'[n])
-----------------------------------------------------------------------------
(***************************************************************************)
(* What handle_append_entries does to a log.                               *)
(***************************************************************************)

\* A piece in place leaves the log as it is, the same as that of the leader
\* up to the end of the piece, or makes it end there.
LEMMA AcceptInPlace ==
    ASSUME NEW h \in History, LogsFit(h), NEW lg \in Seq(Entry), Traced(h, lg),
           NEW m \in Message, IsAppend(m), InPlace(h, m),
           TermAt(lg, m.prev_log_index) = m.prev_log_term,
           NEW new \in Seq(Entry),
           new = ReplaceFrom(lg, m.prev_log_index + 1, m.entries)
    PROVE  /\ End(m) \in Nat
           /\ SameUpTo(new, h.logs[m.term], End(m))
           /\ \/ new = lg
              \/ /\ Len(new) = End(m)
                 /\ ~ SameUpTo(lg, h.logs[m.term], End(m))
  <1> DEFINE p == m.prev_log_index
             es == m.entries
             H == h.logs[m.term]
             index == p + 1
             e == p + Len(es)
  <1>1. /\ p \in Nat /\ es \in Seq(Entry) /\ m.term \in Nat /\ Len(es) \in Nat
        /\ H \in Seq(Entry) /\ Len(H) \in Nat /\ Len(lg) \in Nat
        /\ Len(new) \in Nat /\ e \in Nat /\ index \in Nat \ {0}
        /\ index - 1 = p
    <2>1. p \in Nat /\ es \in Seq(Entry) /\ m.term \in Nat
      BY MessageType DEF IsAppend
    <2>2. Len(es) \in Nat /\ Len(lg) \in Nat /\ Len(new) \in Nat
      BY <2>1, LenProperties
    <2>3. H \in Seq(Entry) /\ Len(H) \in Nat
      BY <2>1, HistoryType
    <2> HIDE DEF p, es, H
    <2> QED
      BY <2>1, <2>2, <2>3
  <1>2. /\ Traced(h, H) /\ TermsUpTo(H, m.term)
        /\ e <= Len(H) /\ End(m) = e
        /\ m.prev_log_term = TermAt(H, p)
        /\ \A i \in 1..Len(es) : es[i] = H[p + i]
    BY <1>1 DEF LogsFit, InPlace, End
  <1>3. new = ReplaceFrom(lg, index, es) /\ TermAt(lg, p) = TermAt(H, p)
    BY <1>2
  <1> HIDE DEF p, es, H, index, e
  <1>4. \A i \in Nat : \A t : Holds(lg, i, t) /\ Holds(H, i, t) =>
                                SameUpTo(lg, H, i)
    BY <1>1, <1>2, TracedSame
  <1>5. SameUpTo(lg, H, p)
    <2>1. CASE p = 0
      BY <1>1, <2>1 DEF SameUpTo
    <2>2. CASE p # 0
      <3>1. p \in 1..Len(H) /\ H[p].term \in 1..m.term
        <4>1. p \in 1..Len(H)
          BY <1>1, <1>2, <2>2 DEF e
        <4> QED
          BY <1>2, <4>1 DEF TermsUpTo
      <3>2. TermAt(lg, p) = H[p].term /\ H[p].term # 0
        BY <1>1, <1>3, <3>1 DEF TermAt
      <3>3. Holds(lg, p, H[p].term) /\ Holds(H, p, H[p].term)
        BY <3>1, <3>2 DEF TermAt, Holds
      <3> QED
        BY <1>1, <1>4, <3>3
    <2> QED
      BY <2>1, <2>2
  <1>6. ASSUME NEW k \in 1..Len(es)
        PROVE  /\ index + k - 1 = p + k /\ p + k \in Nat /\ p + k <= e
               /\ p + k \in 1..Len(H) /\ es[k] = H[p + k]
               /\ Held(lg, index, es, k) => SameUpTo(lg, H, p + k)
    <2>1. /\ index + k - 1 = p + k /\ p + k \in Nat /\ p + k <= e
          /\ p + k \in 1..Len(H) /\ es[k] = H[p + k] /\ p + k > 0
      <3>1. index = p + 1 /\ e = p + Len(es)
        BY DEF index, e
      <3>2. /\ p \in Nat /\ Len(es) \in Nat /\ Len(H) \in Nat /\ e <= Len(H)
            /\ es[k] = H[p + k]
        BY <1>1, <1>2
      <3> QED
        BY <3>1, <3>2
    <2>2. ASSUME Held(lg, index, es, k) PROVE SameUpTo(lg, H, p + k)
      <3>1. p + k \in 1..Len(lg) /\ lg[p + k].term = H[p + k].term
        BY <1>1, <2>1, <2>2 DEF Held
      <3> QED
        BY <1>4, <2>1, <3>1 DEF Holds
    <2> QED
      BY <2>1, <2>2
  <1>7. \A k \in 1..Len(es) : Held(lg, index, es, k) => lg[index + k - 1] = es[k]
    <2>1. SUFFICES ASSUME NEW k \in 1..Len(es), Held(lg, index, es, k)
                   PROVE  lg[index + k - 1] = es[k]
      OBVIOUS
    <2>2. SameUpTo(lg, H, p + k) /\ p + k \in 1..(p + k)
      BY <1>1, <1>6, <2>1
    <2> QED
      BY <1>6, <2>2 DEF SameUpTo
  <1>8. CASE /\ index > Len(lg) + 1 \/ NotHeld(lg, index, es) = {}
             /\ ReplaceFrom(lg, index, es) = lg
    <2>1. NotHeld(lg, index, es) = {}
      BY <1>1, <1>5, <1>8 DEF SameUpTo, index
    <2>2. SameUpTo(lg, H, e)
      <3>1. CASE Len(es) = 0
        BY <1>1, <1>5, <3>1 DEF e
      <3>2. CASE Len(es) # 0
        <4>1. Len(es) \in 1..Len(es)
          BY <1>1, <3>2
        <4>2. Held(lg, index, es, Len(es))
          BY <2>1, <4>1 DEF NotHeld
        <4> QED
          BY <1>6, <4>1, <4>2 DEF e
      <3> QED
        BY <3>1, <3>2
    <2> QED
      BY <1>1, <1>2, <1>3, <1>8, <2>2 DEF H
  <1>9. CASE /\ index - 1 <= Len(lg) /\ NotHeld(lg, index, es) # {}
             /\ Len(ReplaceFrom(lg, index, es)) = index - 1 + Len(es)
             /\ \A i \in 1..(index - 1) : ReplaceFrom(lg, index, es)[i] = lg[i]
             /\ \A k \in 1..Len(es) :
                  ReplaceFrom(lg, index, es)[index - 1 + k] = es[k]
    <2>1. /\ Len(new) = e
          /\ \A i \in 1..p : new[i] = lg[i]
          /\ \A k \in 1..Len(es) : new[p + k] = es[k]
      BY <1>1, <1>3, <1>9 DEF e
    <2>2. \A i \in 1..e : new[i] = H[i]
      <3>1. SUFFICES ASSUME NEW i \in 1..e PROVE new[i] = H[i]
        OBVIOUS
      <3>2. CASE i <= p
        BY <1>1, <1>5, <2>1, <3>2 DEF SameUpTo
      <3>3. CASE ~ (i <= p)
        <4>1. PICK k \in 1..Len(es) : i = p + k
          <5>1. i - p \in 1..Len(es) /\ i = p + (i - p)
            BY <1>1, <3>3 DEF e
          <5> QED
            BY <5>1
        <4> QED
          BY <1>6, <2>1, <4>1
      <3> QED
        BY <3>2, <3>3
    <2>3. SameUpTo(new, H, e)
      BY <1>1, <1>2, <2>1, <2>2 DEF SameUpTo
    <2>4. ~ SameUpTo(lg, H, e)
      <3>1. PICK k \in 1..Len(es) : ~ Held(lg, index, es, k)
        BY <1>9 DEF NotHeld
      <3>2. SUFFICES ASSUME SameUpTo(lg, H, e) PROVE FALSE
        OBVIOUS
      <3>3. p + k \in 1..e
        BY <1>1, <1>6, <3>1
      <3>4. p + k <= Len(lg) /\ lg[p + k] = H[p + k]
        BY <1>1, <3>2, <3>3 DEF SameUpTo
      <3> QED
        BY <1>6, <3>1, <3>4 DEF Held
    <2> QED
      BY <1>1, <1>2, <2>1, <2>3, <2>4 DEF H
  <1> QED
    BY <1>1, <1>7, <1>8, <1>9, ReplaceShape, Zenon

\* A message that starts past the end of the log of the leader is accepted
\* only by a log that ends before it, and changes nothing.
LEMMA AcceptPast ==
    ASSUME NEW lg \in Seq(Entry), NEW t, TermsUpTo(lg, t),
           NEW m \in Message, IsAppend(m), Past(m),
           TermAt(lg, m.prev_log_index) = m.prev_log_term
    PROVE  /\ m.prev_log_index > Len(lg)
           /\ ReplaceFrom(lg, m.prev_log_index + 1, m.entries) = lg
  <1>1. /\ m.prev_log_index \in Nat /\ m.prev_log_index > 0
        /\ m.entries = <<>> /\ m.prev_log_term = 0 /\ Len(lg) \in Nat
    BY MessageType, LenProperties DEF IsAppend, Past
  <1>2. m.prev_log_index \notin 1..Len(lg)
    BY <1>1 DEF TermsUpTo, TermAt
  <1>3. NotHeld(lg, m.prev_log_index + 1, m.entries) = {}
    <2>1. Len(m.entries) = 0
      BY <1>1
    <2> QED
      BY <2>1 DEF NotHeld
  <1> QED
    BY <1>1, <1>2, <1>3 DEF ReplaceFrom

(***************************************************************************)
(* What holds around a step of node n that takes history h to g.           *)
(***************************************************************************)
Step(n, h, g) ==
    /\ TypeInv /\ TypeInv' /\ VoteInv /\ VoteInv' /\ ElectionInv /\ ElectionInv'
    /\ h \in History /\ Fits(h) /\ NoPanic
    /\ Forward(n) /\ CommitForward(n) /\ GoesOn(n, h, g)

\* The types of a node before and after a step.
LEMMA BothTypes ==
    ASSUME TypeOK, TypeOK', NEW n \in Node
    PROVE  /\ current_term[n] \in Nat /\ current_term'[n] \in Nat
           /\ log[n] \in Seq(Entry) /\ log'[n] \in Seq(Entry)
           /\ Len(log[n]) \in Nat /\ Len(log'[n]) \in Nat
           /\ commit_index[n] \in Nat /\ commit_index'[n] \in Nat
           /\ machine[n] \in Seq(Request) /\ machine'[n] \in Seq(Request)
           /\ Len(machine[n]) \in Nat /\ Len(machine'[n]) \in Nat
           /\ r[n] \in Role(n) /\ r'[n] \in Role(n)
           /\ r[n].kind \in {"Follower", "Candidate", "Leader"}
           /\ r'[n].kind \in {"Follower", "Candidate", "Leader"}
  <1>1. /\ current_term[n] \in Nat /\ current_term'[n] \in Nat
        /\ log[n] \in Seq(Entry) /\ log'[n] \in Seq(Entry)
        /\ commit_index[n] \in Nat /\ commit_index'[n] \in Nat
        /\ machine[n] \in Seq(Request) /\ machine'[n] \in Seq(Request)
        /\ r[n] \in Role(n) /\ r'[n] \in Role(n)
    BY DEF TypeOK
  <1> QED
    BY <1>1, LenProperties, RoleType

\* Terms do not decrease.
LEMMA TermsForward ==
    ASSUME TypeOK, TypeOK', NEW n \in Node, Forward(n), NEW p \in Node
    PROVE  /\ current_term'[p] \in Nat /\ current_term[p] \in Nat
           /\ current_term'[p] >= current_term[p]
  <1>1. current_term[p] \in Nat /\ current_term'[p] \in Nat
    BY DEF TypeOK
  <1> QED
    BY <1>1 DEF Forward, MemoryForward

\* Accepting an AppendEntries message: the log stays, or becomes a prefix of
\* that of the leader; in both cases it keeps what it shares with it.
LEMMA AcceptStep ==
    ASSUME TypeOK, TypeOK', NEW n \in Node, NEW h \in History, LogsFit(h),
           AppendsFit(h), NEW m \in msgs, Accepts(n, m)
    PROVE  /\ m \in Said /\ m \in Message /\ m.term = current_term[n]
           /\ h.voters[current_term[n]] # {}
           /\ Committed(h, m.commit_index, current_term[n])
           /\ log'[n] = log[n] \/ PrefixOf(log'[n], h.logs[current_term[n]])
           /\ \A i \in Nat : SameUpTo(log[n], h.logs[current_term[n]], i)
                               => SameUpTo(log'[n], log[n], i)
           /\ \/ /\ InPlace(h, m) /\ End(m) \in Nat
                 /\ SameUpTo(log'[n], h.logs[current_term[n]], End(m))
              \/ /\ Past(m) /\ log'[n] = log[n]
                 /\ m.prev_log_index > Len(log[n])
  <1> DEFINE H == h.logs[current_term[n]]
  <1>1. /\ m \in Said /\ m \in Message /\ m.term = current_term[n]
        /\ IsAppend(m) /\ TermAt(log[n], m.prev_log_index) = m.prev_log_term
        /\ log'[n] = ReplaceFrom(log[n], m.prev_log_index + 1, m.entries)
    BY DEF Said, TypeOK, Accepts, PrevMatches
  <1>2. /\ h.voters[current_term[n]] # {}
        /\ Committed(h, m.commit_index, current_term[n])
        /\ InPlace(h, m) \/ Past(m)
    BY <1>1 DEF AppendsFit
  <1>3. /\ log[n] \in Seq(Entry) /\ log'[n] \in Seq(Entry) /\ H \in Seq(Entry)
        /\ Len(log[n]) \in Nat /\ Len(log'[n]) \in Nat /\ Len(H) \in Nat
        /\ Traced(h, log[n]) /\ TermsUpTo(log[n], current_term[n])
    BY BothTypes, HistoryType DEF LogsFit
  <1>4. CASE log'[n] = log[n]
    <2>1. \A i \in Nat : SameUpTo(log[n], H, i) => SameUpTo(log'[n], log[n], i)
      BY <1>3, <1>4, SameSelf DEF SameUpTo
    <2>2. \/ /\ InPlace(h, m) /\ End(m) \in Nat
             /\ SameUpTo(log'[n], H, End(m))
          \/ /\ Past(m) /\ log'[n] = log[n]
             /\ m.prev_log_index > Len(log[n])
      <3>1. CASE InPlace(h, m)
        BY <1>1, <1>3, <3>1, AcceptInPlace
      <3>2. CASE Past(m)
        BY <1>1, <1>3, <1>4, <3>2, AcceptPast
      <3> QED
        BY <1>2, <3>1, <3>2
    <2> QED
      BY <1>1, <1>2, <1>4, <2>1, <2>2
  <1>5. CASE log'[n] # log[n]
    <2>1. InPlace(h, m)
      BY <1>1, <1>2, <1>3, <1>5, AcceptPast
    <2>2. /\ End(m) \in Nat /\ SameUpTo(log'[n], H, End(m))
          /\ Len(log'[n]) = End(m) /\ ~ SameUpTo(log[n], H, End(m))
      BY <1>1, <1>3, <1>5, <2>1, AcceptInPlace
    <2>3. PrefixOf(log'[n], H)
      BY <2>2 DEF PrefixOf
    <2>4. ASSUME NEW i \in Nat, SameUpTo(log[n], H, i)
          PROVE  SameUpTo(log'[n], log[n], i)
      <3>1. i <= End(m)
        BY <1>3, <2>2, <2>4, SameBelow
      <3>2. SameUpTo(H, log[n], i) /\ i <= i
        BY <2>4, SameSym
      <3> HIDE DEF H
      <3> QED
        BY <1>3, <2>2, <3>1, <3>2, SameTrans
    <2> QED
      BY <1>1, <1>2, <2>1, <2>2, <2>3, <2>4
  <1> QED
    BY <1>4, <1>5

\* The log of a leader with one more entry.
LEMMA AppendStep ==
    ASSUME TypeOK, TypeOK', NEW n \in Node, NEW c \in Request,
           log'[n] = append(n, c)
    PROVE  /\ Len(log'[n]) = Len(log[n]) + 1
           /\ PrefixOf(log[n], log'[n]) /\ SameUpTo(log'[n], log[n], Len(log[n]))
           /\ log'[n][Len(log[n]) + 1].term = current_term[n]
           /\ log'[n][Len(log[n]) + 1].cmd = c
  <1>1. /\ log[n] \in Seq(Entry) /\ Len(log[n]) \in Nat
        /\ [term |-> current_term[n], cmd |-> c] \in Entry
    BY BothTypes DEF Entry
  <1>2. /\ Len(log'[n]) = Len(log[n]) + 1
        /\ \A i \in 1..Len(log[n]) : log'[n][i] = log[n][i]
        /\ log'[n][Len(log[n]) + 1] = [term |-> current_term[n], cmd |-> c]
    BY <1>1, AppendProperties DEF append
  <1>3. PrefixOf(log[n], log'[n]) /\ SameUpTo(log'[n], log[n], Len(log[n]))
    BY <1>1, <1>2 DEF PrefixOf, SameUpTo
  <1> QED
    BY <1>2, <1>3

\* The history only grows.
LEMMA HistoryGrows ==
    ASSUME NEW n \in Node, NEW h, NEW g, Step(n, h, g), NEW s \in Nat
    PROVE  /\ h.logs[s] \in Seq(Entry) /\ g.logs[s] \in Seq(Entry)
           /\ Len(h.logs[s]) \in Nat /\ Len(g.logs[s]) \in Nat
           /\ Len(h.logs[s]) <= Len(g.logs[s])
           /\ h.base[s] \in Nat /\ g.base[s] \in Nat
           /\ PrefixOf(h.logs[s], g.logs[s])
           /\ \A k \in 1..Len(h.logs[s]) : g.logs[s][k] = h.logs[s][k]
           /\ \A k, t : Holds(h.logs[s], k, t) => Holds(g.logs[s], k, t)
           /\ \A a \in Seq(Entry) : \A i \in Nat :
                SameUpTo(a, h.logs[s], i) => SameUpTo(a, g.logs[s], i)
           /\ h.voters[s] # {} => g.voters[s] # {}
  <1>1. h \in History /\ g \in History /\ PrefixOf(h.logs[s], g.logs[s])
    BY DEF Step, GoesOn
  <1>2. /\ h.logs[s] \in Seq(Entry) /\ g.logs[s] \in Seq(Entry)
        /\ Len(h.logs[s]) \in Nat /\ Len(g.logs[s]) \in Nat
        /\ h.base[s] \in Nat /\ g.base[s] \in Nat
    BY <1>1, HistoryType
  <1>3. /\ Len(h.logs[s]) <= Len(g.logs[s])
        /\ \A k \in 1..Len(h.logs[s]) : g.logs[s][k] = h.logs[s][k]
    BY <1>1 DEF PrefixOf, SameUpTo
  <1>4. ASSUME NEW k, NEW t, Holds(h.logs[s], k, t)
        PROVE  Holds(g.logs[s], k, t)
    <2>1. k \in 1..Len(h.logs[s]) /\ h.logs[s][k].term = t
      BY <1>4 DEF Holds
    <2>2. k \in 1..Len(g.logs[s]) /\ g.logs[s][k] = h.logs[s][k]
      BY <1>2, <1>3, <2>1
    <2> QED
      BY <2>1, <2>2 DEF Holds
  <1>5. ASSUME NEW a \in Seq(Entry), NEW i \in Nat, SameUpTo(a, h.logs[s], i)
        PROVE  SameUpTo(a, g.logs[s], i)
    BY <1>2, <1>3, <1>5 DEF SameUpTo
  <1>6. h.voters[s] # {} => g.voters[s] # {}
    BY DEF Step, GoesOn
  <1> QED
    BY <1>1, <1>2, <1>3, <1>4, <1>5, <1>6

\* A term with voters keeps them.
LEMMA VotersStay ==
    ASSUME NEW n \in Node, NEW h, NEW g, Step(n, h, g), NEW s \in Nat,
           h.voters[s] # {}
    PROVE  /\ g.voters[s] = h.voters[s] /\ g.base[s] = h.base[s]
           /\ g.voters[s] # {}
  BY DEF Step, GoesOn

\* The acknowledgements only grow, by those of n in its term.
LEMMA AcksGrow ==
    ASSUME NEW n \in Node, NEW h, NEW g, Step(n, h, g), NEW q, NEW k, NEW t
    PROVE  /\ <<q, k, t>> \in h.acks => <<q, k, t>> \in g.acks
           /\ <<q, k, t>> \in g.acks =>
                \/ <<q, k, t>> \in h.acks
                \/ /\ q = n /\ t = current_term'[n] /\ k \in Nat
                   /\ Holds(log'[n], k, current_term'[n])
  BY DEF Step, GoesOn

\* What is chosen stays chosen, ...
LEMMA ChosenForever ==
    ASSUME NEW n \in Node, NEW h, NEW g, Step(n, h, g), NEW k, NEW t \in Nat,
           Chosen(h, k, t)
    PROVE  Chosen(g, k, t)
  <1>1. Holds(g.logs[t], k, t)
    BY HistoryGrows DEF Chosen
  <1>2. PICK Q : Majority(Q) /\ \A q \in Q : <<q, k, t>> \in h.acks
    BY DEF Chosen
  <1>3. \A q \in Q : <<q, k, t>> \in g.acks
    BY <1>2, AcksGrow
  <1> QED
    BY <1>1, <1>2, <1>3 DEF Chosen

\* ... and what is dead stays dead.
LEMMA DeadForever ==
    ASSUME NEW n \in Node, NEW h, NEW g, Step(n, h, g), NEW k, NEW t \in Nat,
           Dead(h, k, t)
    PROVE  Dead(g, k, t)'
  <1>1. PICK Q : /\ Majority(Q)
                 /\ \A q \in Q : current_term[q] > t /\ <<q, k, t>> \notin h.acks
    BY DEF Dead
  <1>2. TypeOK /\ TypeOK' /\ Forward(n) /\ Q \subseteq Node
    BY <1>1 DEF Step, TypeInv, Majority
  <1>3. ASSUME NEW q \in Q
        PROVE  current_term'[q] > t /\ <<q, k, t>> \notin g.acks
    <2>1. current_term'[q] > t
      <3>1. /\ current_term'[q] \in Nat /\ current_term[q] \in Nat
            /\ current_term'[q] >= current_term[q]
        BY <1>2, TermsForward
      <3>2. current_term[q] > t
        BY <1>1
      <3> QED
        BY <3>1, <3>2
    <2> QED
      BY <1>1, <2>1, AcksGrow
  <1> QED
    BY <1>1, <1>3 DEF Dead, Majority

\* An entry that is chosen is in the log of every later leader, with all
\* below it.
LEMMA ChosenInLater ==
    ASSUME NEW h \in History, LogsFit(h), LeadersHave(h), NEW k, NEW u \in Nat,
           Chosen(h, k, u), NEW t \in Nat, u <= t, h.voters[t] # {}
    PROVE  /\ k \in Nat /\ k <= Len(h.logs[t])
           /\ Holds(h.logs[t], k, u) /\ SameUpTo(h.logs[t], h.logs[u], k)
  <1>1. /\ Holds(h.logs[u], k, u) /\ ~ Dead(h, k, u)
        /\ h.logs[u] \in Seq(Entry) /\ h.logs[t] \in Seq(Entry)
        /\ Traced(h, h.logs[u]) /\ Traced(h, h.logs[t])
    BY ChosenNotDead, HistoryType DEF Chosen, LogsFit
  <1>2. k \in Nat
    BY <1>1, HoldsType
  <1>3. Holds(h.logs[t], k, u)
    <2>1. CASE u = t
      BY <1>1, <2>1
    <2>2. CASE u # t
      <3>1. t > u
        BY <2>2
      <3> QED
        BY <1>1, <1>2, <3>1 DEF LeadersHave
    <2> QED
      BY <2>1, <2>2
  <1> QED
    BY <1>1, <1>2, <1>3, TracedSame, HoldsType
-----------------------------------------------------------------------------
(***************************************************************************)
(* The step lemmas: logs and terms.                                        *)
(***************************************************************************)

\* A prefix of a traced log is traced.
LEMMA PrefixTraced ==
    ASSUME NEW h \in History, NEW a \in Seq(Entry), NEW b \in Seq(Entry),
           PrefixOf(a, b), Traced(h, b), NEW t, TermsUpTo(b, t)
    PROVE  Traced(h, a) /\ TermsUpTo(a, t)
  <1>1. /\ Len(a) \in Nat /\ Len(b) \in Nat /\ Len(a) <= Len(b)
        /\ \A i \in 1..Len(a) : a[i] = b[i]
    BY LenProperties DEF PrefixOf, SameUpTo
  <1>2. ASSUME NEW i \in 1..Len(a)
        PROVE  SameUpTo(a, h.logs[a[i].term], i) /\ a[i].term \in 1..t
    <2>1. i \in 1..Len(b) /\ a[i] = b[i] /\ i <= Len(a)
      BY <1>1
    <2>2. SameUpTo(b, h.logs[a[i].term], i) /\ a[i].term \in 1..t
      BY <2>1 DEF Traced, TermsUpTo
    <2>3. \A j \in 1..i : a[j] = b[j]
      BY <1>1
    <2> QED
      BY <2>1, <2>2, <2>3 DEF SameUpTo
  <1> QED
    BY <1>2 DEF Traced, TermsUpTo

\* A log that is traced in the old history is traced in the new one.
LEMMA TracedForever ==
    ASSUME NEW n \in Node, NEW h, NEW g, Step(n, h, g), NEW a \in Seq(Entry),
           Traced(h, a)
    PROVE  Traced(g, a)
  <1> SUFFICES ASSUME NEW i \in 1..Len(a)
               PROVE  SameUpTo(a, g.logs[a[i].term], i)
    BY DEF Traced
  <1>1. i \in Nat /\ a[i].term \in Nat
    <2>1. a[i] \in Entry
      BY ElementOfSeq
    <2> QED
      BY <2>1, LenProperties DEF Entry
  <1>2. PICK t \in Nat : t = a[i].term /\ SameUpTo(a, h.logs[t], i)
    BY <1>1 DEF Traced
  <1>3. SameUpTo(a, g.logs[t], i)
    BY <1>1, <1>2, HistoryGrows
  <1> QED
    BY <1>2, <1>3

\* The logs stay traced, and that of a leader is the one in the history.
LEMMA LogsFitStep ==
    ASSUME NEW n \in Node, NEW h, NEW g, Step(n, h, g)
    PROVE  LogsFit(g)'
  <1> DEFINE T == current_term'[n]
             L == log'[n]
  <1>1. /\ TypeOK /\ TypeOK' /\ TypeInv /\ VoteInv' /\ ElectionInv'
        /\ h \in History /\ g \in History /\ LogsFit(h) /\ AppendsFit(h)
        /\ Forward(n) /\ LogMove(n)
    BY DEF Step, TypeInv, Fits, CommitForward, GoesOn
  <1>2. /\ current_term[n] \in Nat /\ T \in Nat /\ T >= current_term[n]
        /\ log[n] \in Seq(Entry) /\ L \in Seq(Entry) /\ Len(log[n]) \in Nat
        /\ Len(L) \in Nat
    BY <1>1, BothTypes, TermsForward
  <1>3. Traced(h, log[n]) /\ TermsUpTo(log[n], current_term[n])
    BY <1>1 DEF LogsFit
  <1>4. Traced(g, log[n]) /\ TermsUpTo(log[n], T)
    <2>1. TermsUpTo(log[n], T)
      BY <1>2, <1>3 DEF TermsUpTo
    <2> QED
      BY <1>2, <1>3, <2>1, TracedForever
  <1>5. Traced(g, L) /\ TermsUpTo(L, T)
    <2>1. CASE L = log[n]
      BY <1>4, <2>1
    <2>2. ASSUME NEW c \in Request, r[n].kind = "Leader", r'[n].kind = "Leader",
                 L = append(n, c)
          PROVE  Traced(g, L) /\ TermsUpTo(L, T)
      <3>1. /\ Len(L) = Len(log[n]) + 1
            /\ SameUpTo(L, log[n], Len(log[n]))
            /\ L[Len(log[n]) + 1].term = current_term[n]
        BY <1>1, <2>2, AppendStep
      <3>2. T = current_term[n] /\ T > 0 /\ g.logs[T] = L
        BY <1>1, <2>2 DEF Forward, TypeInv, LeadingTerm, Step, GoesOn
      <3>3. ASSUME NEW i \in 1..Len(L)
            PROVE  SameUpTo(L, g.logs[L[i].term], i) /\ L[i].term \in 1..T
        <4> HIDE DEF L, T
        <4>1. CASE i = Len(log[n]) + 1
          <5>1. L[i].term = T /\ i <= Len(L) /\ i \in Nat
            BY <1>2, <3>1, <3>2, <4>1
          <5> QED
            BY <1>2, <3>2, <5>1, SameSelf
        <4>2. CASE i # Len(log[n]) + 1
          <5>1. i \in 1..Len(log[n]) /\ i \in Nat /\ i <= Len(log[n]) /\ i <= i
            BY <1>2, <3>1, <4>2
          <5>2. L[i] = log[n][i]
            BY <3>1, <5>1 DEF SameUpTo
          <5>3. SameUpTo(log[n], g.logs[L[i].term], i) /\ L[i].term \in 1..T
            BY <1>4, <5>1, <5>2 DEF Traced, TermsUpTo
          <5>4. L[i].term \in Nat
            BY <1>2, <5>3
          <5>5. g.logs[L[i].term] \in Seq(Entry)
            BY <1>1, <5>4, HistoryType
          <5> QED
            BY <1>2, <3>1, <5>1, <5>3, <5>5, SameTrans
        <4> QED
          BY <4>1, <4>2
      <3> QED
        BY <3>3 DEF Traced, TermsUpTo
    <2>3. ASSUME NEW m \in msgs, Accepts(n, m)
          PROVE  Traced(g, L) /\ TermsUpTo(L, T)
      <3>1. L = log[n] \/ PrefixOf(L, h.logs[current_term[n]])
        BY <1>1, <2>3, AcceptStep
      <3>2. CASE PrefixOf(L, h.logs[current_term[n]])
        <4>1. T = current_term[n] /\ h.logs[T] \in Seq(Entry)
          BY <1>1, <1>2, <2>3, HistoryType DEF Accepts
        <4>2. Traced(h, h.logs[T]) /\ TermsUpTo(h.logs[T], T)
          BY <1>1, <1>2 DEF LogsFit
        <4>3. Traced(h, L) /\ TermsUpTo(L, T)
          BY <1>1, <1>2, <3>2, <4>1, <4>2, PrefixTraced
        <4> QED
          BY <1>2, <4>3, TracedForever
      <3> QED
        BY <1>4, <3>1, <3>2
    <2> QED
      BY <1>1, <2>1, <2>2, <2>3 DEF LogMove
  <1>6. ASSUME NEW s \in Nat
        PROVE  Traced(g, g.logs[s]) /\ TermsUpTo(g.logs[s], s)
    <2>1. CASE g.logs[s] = h.logs[s]
      <3>1. Traced(h, h.logs[s]) /\ TermsUpTo(h.logs[s], s)
        BY <1>1 DEF LogsFit
      <3>2. h.logs[s] \in Seq(Entry)
        BY <1>1, HistoryType
      <3> QED
        BY <2>1, <3>1, <3>2, TracedForever
    <2>2. CASE s = T /\ g.logs[s] = L
      BY <1>5, <2>2
    <2> QED
      BY <2>1, <2>2 DEF Step, GoesOn
  <1>7. ASSUME NEW p \in Node
        PROVE  /\ Traced(g, log'[p]) /\ TermsUpTo(log'[p], current_term'[p])
               /\ r'[p].kind = "Leader" => log'[p] = g.logs[current_term'[p]]
    <2>1. CASE p = n
      BY <1>5, <2>1 DEF Step, GoesOn
    <2>2. CASE p # n
      <3>1. /\ log'[p] = log[p] /\ current_term'[p] = current_term[p]
            /\ r'[p] = r[p] /\ log[p] \in Seq(Entry) /\ current_term[p] \in Nat
        BY <1>1, <2>2, BothTypes DEF Forward
      <3>2. Traced(g, log[p]) /\ TermsUpTo(log[p], current_term[p])
        <4>1. Traced(h, log[p]) /\ TermsUpTo(log[p], current_term[p])
          BY <1>1 DEF LogsFit
        <4> QED
          BY <3>1, <4>1, TracedForever
      <3>3. ASSUME r'[p].kind = "Leader"
            PROVE  log'[p] = g.logs[current_term'[p]]
        <4>1. log[p] = h.logs[current_term[p]]
          BY <1>1, <3>1, <3>3 DEF LogsFit, is_leader
        <4>2. SUFFICES ASSUME current_term'[p] = T, r'[n].kind = "Leader"
                       PROVE  FALSE
          BY <3>1, <4>1 DEF Step, GoesOn
        <4>3. Led(n, current_term[n])'
          BY <1>1, <4>2, LeadersHaveLedNext DEF LeaderHasLed, is_leader
        <4>4. Led(n, current_term[p])'
          BY <4>2, <4>3 DEF Led, Won, Granted
        <4>5. n = p
          BY <1>1, <3>3, <4>4, LeadersAreUniqueNext DEF LedUnique, is_leader
        <4> QED
          BY <2>2, <4>5
      <3> QED
        BY <3>1, <3>2, <3>3
    <2> QED
      BY <2>1, <2>2
  <1> QED
    BY <1>6, <1>7 DEF LogsFit, is_leader

\* The terms keep their voters.
LEMMA TermsFitStep ==
    ASSUME NEW n \in Node, NEW h, NEW g, Step(n, h, g)
    PROVE  TermsFit(g)'
  <1>1. /\ TypeOK /\ TypeOK' /\ VoteInv /\ ElectionInv /\ VoteInv'
        /\ ElectionInv' /\ h \in History /\ g \in History /\ TermsFit(h)
        /\ Forward(n)
    BY DEF Step, TypeInv, Fits, GoesOn
  <1>2. ASSUME NEW s \in Nat, g.voters[s] # {}
        PROVE  Majority(g.voters[s]) /\ \E x \in Node : Led(x, s)'
    <2>1. CASE h.voters[s] # {}
      <3>1. g.voters[s] = h.voters[s] /\ Majority(h.voters[s])
        BY <1>1, <2>1 DEF Step, GoesOn, TermsFit
      <3>2. PICK x \in Node : Led(x, s)
        BY <1>1, <2>1 DEF TermsFit
      <3> QED
        BY <1>1, <3>1, <3>2, LedForever
    <2>2. CASE h.voters[s] = {}
      <3>1. /\ Elected(n) /\ s = current_term[n] /\ Majority(g.voters[s])
        BY <1>2, <2>2 DEF Step, GoesOn
      <3>2. r'[n].kind = "Leader" /\ current_term'[n] = s
        BY <3>1 DEF Elected
      <3>3. Led(n, current_term[n])'
        BY <1>1, <3>2, LeadersHaveLedNext DEF LeaderHasLed, is_leader
      <3>4. Led(n, s)'
        BY <3>2, <3>3 DEF Led, Won, Granted
      <3> QED
        BY <3>1, <3>4
    <2> QED
      BY <2>1, <2>2
  <1>3. ASSUME NEW s \in Nat, g.voters[s] = {}
        PROVE  g.logs[s] = <<>>
    <2>1. h.voters[s] = {} /\ h.logs[s] = <<>>
      BY <1>1, <1>3 DEF Step, GoesOn, TermsFit
    <2> QED
      BY <1>3, <2>1 DEF Step, GoesOn
  <1>4. ASSUME NEW s \in Nat PROVE g.base[s] <= Len(g.logs[s])
    <2>1. /\ h.base[s] <= Len(h.logs[s]) /\ Len(h.logs[s]) <= Len(g.logs[s])
          /\ h.base[s] \in Nat /\ Len(h.logs[s]) \in Nat /\ Len(g.logs[s]) \in Nat
      BY <1>1, HistoryGrows DEF TermsFit
    <2>2. CASE g.base[s] = h.base[s]
      BY <2>1, <2>2
    <2>3. CASE g.base[s] # h.base[s]
      <3>1. Elected(n) /\ s = current_term[n] /\ g.base[s] = Len(log[n])
        BY <2>3 DEF Step, GoesOn
      <3>2. /\ g.logs[current_term'[n]] = log'[n] /\ log'[n] = log[n]
            /\ current_term'[n] = s
        BY <3>1 DEF Step, GoesOn, Elected
      <3>3. Len(log[n]) \in Nat
        BY <1>1, BothTypes
      <3> QED
        BY <3>1, <3>2, <3>3
    <2> QED
      BY <2>2, <2>3
  <1>5. ASSUME NEW p \in Node, r'[p].kind = "Leader"
        PROVE  p \in g.voters[current_term'[p]]
    <2>1. CASE p = n
      BY <1>5, <2>1 DEF Step, GoesOn
    <2>2. CASE p # n
      <3>1. /\ r'[p] = r[p] /\ current_term'[p] = current_term[p]
            /\ current_term[p] \in Nat
        BY <1>1, <2>2, BothTypes DEF Forward
      <3>2. p \in h.voters[current_term[p]]
        BY <1>1, <1>5, <3>1 DEF TermsFit, is_leader
      <3> QED
        BY <3>1, <3>2 DEF Step, GoesOn
    <2> QED
      BY <2>1, <2>2
  <1> QED
    BY <1>2, <1>3, <1>4, <1>5 DEF TermsFit, is_leader, Majority
-----------------------------------------------------------------------------
(***************************************************************************)
(* The step lemmas: voters, requests and votes.                            *)
(***************************************************************************)

\* What a step has.
LEMMA StepParts ==
    ASSUME NEW n \in Node, NEW h, NEW g, Step(n, h, g)
    PROVE  /\ TypeOK /\ TypeOK' /\ h \in History /\ g \in History
           /\ LogsFit(h) /\ TermsFit(h) /\ VotersFit(h) /\ AppendsFit(h)
           /\ ResponsesFit(h) /\ RequestsFit /\ GrantsFit(h) /\ AcksFit(h)
           /\ LeadersHave(h) /\ BooksFit /\ CommitsFit(h) /\ MachinesFit
           /\ RepliesFit(h)
           /\ Forward(n) /\ CommitForward(n) /\ GoesOn(n, h, g)
           /\ Said \subseteq Message /\ Said' \subseteq Message
           /\ \A x \in Said : KeptInMemory(x)
           /\ \A x \in Said' : KeptInMemory(x)'
           /\ \A p \in Node \ {n} : /\ current_term'[p] = current_term[p]
                                    /\ r'[p] = r[p] /\ log'[p] = log[p]
                                    /\ commit_index'[p] = commit_index[p]
                                    /\ machine'[p] = machine[p]
  <1>1. /\ TypeOK /\ TypeOK' /\ h \in History /\ g \in History
        /\ Fits(h) /\ Forward(n) /\ CommitForward(n) /\ GoesOn(n, h, g)
        /\ VoteInv /\ VoteInv'
    BY DEF Step, TypeInv, GoesOn
  <1>2. /\ LogsFit(h) /\ TermsFit(h) /\ VotersFit(h) /\ AppendsFit(h)
        /\ ResponsesFit(h) /\ RequestsFit /\ GrantsFit(h) /\ AcksFit(h)
        /\ LeadersHave(h) /\ BooksFit /\ CommitsFit(h) /\ MachinesFit
        /\ RepliesFit(h)
    BY <1>1 DEF Fits
  <1>3. Said \subseteq Message
    BY <1>1, SaidType
  <1>4. Said' \subseteq Message
    BY <1>1 DEF Said, Outbox, TypeOK
  <1>5. (\A x \in Said : KeptInMemory(x)) /\ (\A x \in Said' : KeptInMemory(x)')
    BY <1>1 DEF VoteInv, MemoryKeeps
  <1>6. \A p \in Node \ {n} : /\ current_term'[p] = current_term[p]
                              /\ r'[p] = r[p] /\ log'[p] = log[p]
                              /\ commit_index'[p] = commit_index[p]
                              /\ machine'[p] = machine[p]
    BY <1>1 DEF Forward, CommitForward
  <1> QED
    BY <1>1, <1>2, <1>3, <1>4, <1>5, <1>6

\* A log that changes becomes a prefix of that of the leader, and keeps what
\* it shares with it.
LEMMA LogMoves ==
    ASSUME NEW n \in Node, NEW h, NEW g, Step(n, h, g)
    PROVE  \/ log'[n] = log[n]
           \/ /\ current_term'[n] = current_term[n]
              /\ h.voters[current_term[n]] # {}
              /\ PrefixOf(log'[n], g.logs[current_term[n]])
              /\ \A i \in Nat : SameUpTo(log[n], h.logs[current_term[n]], i)
                                  => SameUpTo(log'[n], log[n], i)
              /\ r'[n].kind # "Candidate"
  <1> DEFINE T == current_term[n]
  <1>1. /\ TypeOK /\ TypeOK' /\ h \in History /\ LogsFit(h) /\ TermsFit(h)
        /\ AppendsFit(h) /\ LogMove(n) /\ Forward(n) /\ GoesOn(n, h, g)
    BY StepParts DEF CommitForward
  <1>2. /\ T \in Nat /\ log[n] \in Seq(Entry) /\ log'[n] \in Seq(Entry)
        /\ Len(log[n]) \in Nat /\ Len(log'[n]) \in Nat
    BY <1>1, BothTypes
  <1>3. CASE /\ r[n].kind = "Leader" /\ r'[n].kind = "Leader"
             /\ \E c \in Request : log'[n] = append(n, c)
    <2>1. current_term'[n] = T /\ g.logs[T] = log'[n]
      BY <1>1, <1>3 DEF Forward, GoesOn
    <2>2. h.voters[T] # {} /\ h.logs[T] = log[n]
      BY <1>1, <1>3 DEF TermsFit, LogsFit, is_leader
    <2>3. SameUpTo(log'[n], log[n], Len(log[n]))
      BY <1>1, <1>3, AppendStep
    <2>4. ASSUME NEW i \in Nat, SameUpTo(log[n], h.logs[T], i)
          PROVE  SameUpTo(log'[n], log[n], i)
      <3>1. i <= Len(log[n])
        BY <2>4 DEF SameUpTo
      <3> QED
        BY <1>2, <2>3, <3>1, SameBelow
    <2>5. PrefixOf(log'[n], log'[n])
      BY <1>2, SameSelf
    <2> QED
      BY <1>3, <2>1, <2>2, <2>4, <2>5
  <1>4. ASSUME NEW m \in msgs, Accepts(n, m), log'[n] # log[n]
        PROVE  /\ current_term'[n] = T /\ h.voters[T] # {}
               /\ PrefixOf(log'[n], g.logs[T])
               /\ \A i \in Nat : SameUpTo(log[n], h.logs[T], i)
                                   => SameUpTo(log'[n], log[n], i)
               /\ r'[n].kind # "Candidate"
    <2>1. /\ h.voters[T] # {} /\ PrefixOf(log'[n], h.logs[T])
          /\ \A i \in Nat : SameUpTo(log[n], h.logs[T], i)
                              => SameUpTo(log'[n], log[n], i)
      BY <1>1, <1>4, AcceptStep
    <2>2. PrefixOf(log'[n], g.logs[T])
      BY <1>2, <2>1, HistoryGrows DEF PrefixOf
    <2> QED
      BY <1>4, <2>1, <2>2 DEF Accepts
  <1> QED
    BY <1>1, <1>3, <1>4 DEF LogMove

\* The voters of a term.
LEMMA VotersFitStep ==
    ASSUME NEW n \in Node, NEW h, NEW g, Step(n, h, g)
    PROVE  VotersFit(g)'
  <1> SUFFICES ASSUME NEW t \in Nat, NEW q \in g.voters[t]
               PROVE  \/ current_term'[q] > t
                      \/ /\ current_term'[q] = t
                         /\ \/ UpToDate(TermAt(g.logs[t], g.base[t]), g.base[t],
                                        log[q])'
                            \/ PrefixOf(log'[q], g.logs[t])
    BY DEF VotersFit, UpToDate, LastTerm, TermAt, HighestIndex, PrefixOf, SameUpTo
  <1>1. /\ TypeOK /\ TypeOK' /\ Forward(n) /\ g \in History /\ h \in History
        /\ GoesOn(n, h, g) /\ TermsFit(h) /\ VotersFit(h) /\ GrantsFit(h)
    BY StepParts
  <1>2. q \in Node
    BY <1>1, HistoryType
  <1>3. /\ log[q] \in Seq(Entry) /\ log'[q] \in Seq(Entry)
        /\ current_term'[q] \in Nat /\ current_term[q] \in Nat
        /\ current_term'[q] >= current_term[q]
        /\ Len(log[q]) \in Nat /\ Len(log'[q]) \in Nat
    BY <1>1, <1>2, BothTypes, TermsForward
  <1>4. CASE h.voters[t] # {}
    <2>1. g.voters[t] = h.voters[t] /\ g.base[t] = h.base[t]
      BY <1>1, <1>4 DEF GoesOn
    <2>2. CASE current_term'[q] > t
      BY <2>2
    <2>3. CASE ~ (current_term'[q] > t)
      <3>1. /\ current_term[q] = t /\ current_term'[q] = t
            /\ \/ UpToDate(TermAt(h.logs[t], h.base[t]), h.base[t], log[q])
               \/ PrefixOf(log[q], h.logs[t])
        BY <1>1, <1>3, <2>1, <2>3 DEF VotersFit
      <3>2. CASE log'[q] = log[q]
        <4>1. TermAt(h.logs[t], h.base[t]) = TermAt(g.logs[t], h.base[t])
          <5>1. /\ h.base[t] \in Nat /\ h.base[t] <= Len(h.logs[t])
                /\ h.logs[t] \in Seq(Entry) /\ g.logs[t] \in Seq(Entry)
                /\ Len(h.logs[t]) \in Nat
                /\ SameUpTo(h.logs[t], g.logs[t], Len(h.logs[t]))
            BY <1>1, HistoryGrows DEF TermsFit, PrefixOf
          <5> QED
            BY <5>1, SameHolds
        <4>2. PrefixOf(log[q], h.logs[t]) => PrefixOf(log[q], g.logs[t])
          BY <1>3, HistoryGrows DEF PrefixOf
        <4> QED
          BY <2>1, <3>1, <3>2, <4>1, <4>2 DEF UpToDate, LastTerm, HighestIndex
      <3>3. CASE log'[q] # log[q]
        <4>1. q = n
          BY <1>1, <1>2, <3>3 DEF Forward
        <4> QED
          BY <3>1, <3>3, <4>1, LogMoves
      <3> QED
        BY <3>2, <3>3
    <2> QED
      BY <2>2, <2>3
  <1>5. CASE h.voters[t] = {}
    <2>1. /\ Elected(n) /\ t = current_term[n] /\ g.base[t] = Len(log[n])
          /\ \A v \in g.voters[t] \ {n} :
               \E x \in Said : IsGrant(x) /\ x.src = v /\ x.dst = n /\ x.term = t
      BY <1>1, <1>5 DEF GoesOn
    <2>2. /\ current_term'[n] = t /\ log'[n] = log[n] /\ g.logs[t] = log[n]
          /\ Stands(n, t)
      BY <1>1, <2>1 DEF Elected, GoesOn, Stands
    <2>3. CASE q = n
      BY <1>3, <2>2, <2>3, SameSelf
    <2>4. CASE q # n
      <3>1. /\ current_term'[q] = current_term[q] /\ log'[q] = log[q]
        BY <1>1, <1>2, <2>4 DEF Forward
      <3>2. PICK x \in Said : IsGrant(x) /\ x.src = q /\ x.dst = n /\ x.term = t
        BY <2>1, <2>4
      <3>3. t <= current_term[q]
        BY <3>2, StepParts DEF KeptInMemory, IsGrant, IsResponse
      <3>4. \/ current_term[q] > t
            \/ UpToDate(LastTerm(log[n]), Len(log[n]), log[q])
        BY <1>1, <1>5, <2>2, <3>2 DEF GrantsFit
      <3>5. CASE current_term[q] > t
        BY <3>1, <3>5
      <3>6. CASE /\ ~ (current_term[q] > t)
                 /\ UpToDate(LastTerm(log[n]), Len(log[n]), log[q])
        <4>1. current_term'[q] = t
          BY <1>3, <3>1, <3>3, <3>6
        <4>2. TermAt(g.logs[t], g.base[t]) = LastTerm(log[n])
          BY <2>1, <2>2 DEF LastTerm
        <4>3. UpToDate(TermAt(g.logs[t], g.base[t]), g.base[t], log[q])
          BY <2>1, <3>6, <4>2
        <4>4. UpToDate(TermAt(g.logs[t], g.base[t]), g.base[t], log[q])'
          BY <3>1, <4>3 DEF UpToDate, LastTerm, HighestIndex
        <4> QED
          BY <4>1, <4>4
      <3> QED
        BY <3>4, <3>5, <3>6
    <2> QED
      BY <2>3, <2>4
  <1> QED
    BY <1>4, <1>5

\* Who stands in a term that it has reached before has been standing, with
\* the same log.
LEMMA StandingStill ==
    ASSUME NEW n \in Node, NEW h, NEW g, Step(n, h, g), NEW c \in Node,
           NEW t \in Nat, t <= current_term[c], Stands(c, t)'
    PROVE  Stands(c, t) /\ log'[c] = log[c]
  <1>1. TypeOK /\ TypeOK' /\ Forward(n)
    BY StepParts
  <1>2. r'[c].kind = "Candidate" /\ current_term'[c] = t
    BY DEF Stands
  <1>3. CASE c # n
    <2>1. /\ current_term'[c] = current_term[c] /\ r'[c] = r[c]
          /\ log'[c] = log[c]
      BY <1>1, <1>3 DEF Forward
    <2> QED
      BY <1>2, <2>1 DEF Stands
  <1>4. CASE c = n
    <2>1. current_term[n] \in Nat /\ current_term'[n] \in Nat
          /\ current_term'[n] >= current_term[n]
      BY <1>1, TermsForward
    <2>2. current_term'[n] = current_term[n]
      BY <1>2, <1>4, <2>1
    <2>3. r[n].kind = "Candidate"
      BY <1>1, <1>2, <1>4, <2>1, <2>2 DEF Forward
    <2>4. log'[n] = log[n]
      BY <1>2, <1>4, LogMoves
    <2> QED
      BY <1>2, <1>4, <2>2, <2>3, <2>4 DEF Stands
  <1> QED
    BY <1>3, <1>4

\* The requests for votes name the last entry of a candidate.
LEMMA RequestsFitStep ==
    ASSUME NEW n \in Node, NEW h, NEW g, Step(n, h, g)
    PROVE  RequestsFit'
  <1> SUFFICES ASSUME NEW w \in Said', IsRequest(w)
               PROVE  /\ w.term <= current_term'[w.src]
                      /\ Stands(w.src, w.term)' =>
                           /\ w.last_log_index = Len(log'[w.src])
                           /\ w.last_log_term = LastTerm(log'[w.src])
    BY DEF RequestsFit
  <1>1. /\ TypeOK /\ TypeOK' /\ Forward(n) /\ RequestsFit /\ CommitForward(n)
        /\ w \in Message
    BY StepParts
  <1>2. w.src \in Node /\ w.term \in Nat
    BY <1>1, MessageType
  <1>3. CASE w \in Said
    <2>1. /\ w.term <= current_term[w.src]
          /\ Stands(w.src, w.term) => /\ w.last_log_index = Len(log[w.src])
                                      /\ w.last_log_term = LastTerm(log[w.src])
      BY <1>1, <1>3 DEF RequestsFit
    <2>2. w.term <= current_term'[w.src]
      <3>1. /\ current_term[w.src] \in Nat /\ current_term'[w.src] \in Nat
            /\ current_term'[w.src] >= current_term[w.src]
        BY <1>1, <1>2, TermsForward
      <3> QED
        BY <1>2, <2>1, <3>1
    <2> QED
      BY <1>2, <2>1, <2>2, StandingStill
  <1>4. CASE w \notin Said
    <2>1. Utterance(n, w) /\ w.src = n
      BY <1>1, <1>4 DEF Forward, CommitForward, Speech
    <2>2. /\ w.term = current_term'[n] /\ log'[n] = log[n]
          /\ w.last_log_index = Len(log[n]) /\ w.last_log_term = LastTerm(log[n])
      BY <2>1 DEF Utterance
    <2> QED
      BY <1>2, <2>1, <2>2
  <1> QED
    BY <1>3, <1>4

\* A new vote is for a candidate with a log that is not behind.
LEMMA NewGrant ==
    ASSUME NEW n \in Node, NEW h, NEW g, Step(n, h, g), NEW x \in Said',
           x \notin Said, IsGrant(x)
    PROVE  /\ x.src = n /\ x.term = current_term[n]
           /\ current_term'[n] = current_term[n] /\ log'[n] = log[n]
           /\ x.term <= current_term'[x.dst]
           /\ Stands(x.dst, x.term)' =>
                /\ Stands(x.dst, x.term) /\ log'[x.dst] = log[x.dst]
                /\ UpToDate(LastTerm(log[x.dst]), Len(log[x.dst]), log[n])
  <1>1. /\ TypeOK /\ TypeOK' /\ Forward(n) /\ RequestsFit /\ CommitForward(n)
        /\ x \in Message /\ Said \subseteq Message
    BY StepParts
  <1>2. Utterance(n, x) /\ x.src = n /\ x.dst \in Node \ {n} /\ x.term \in Nat
    BY <1>1, MessageType DEF Forward, CommitForward, Speech
  <1>3. /\ x.term = current_term[n] /\ current_term'[n] = current_term[n]
        /\ log'[n] = log[n]
    BY <1>2 DEF Utterance
  <1>4. PICK m \in msgs :
          /\ IsRequest(m) /\ m.src = x.dst /\ m.term >= x.term
          /\ UpToDate(m.last_log_term, m.last_log_index, log[n])
    BY <1>2 DEF Utterance
  <1>5. m \in Said /\ m.term \in Nat
    BY <1>1, <1>4, MessageType DEF Said
  <1>6. /\ m.term <= current_term[x.dst]
        /\ Stands(x.dst, m.term) => /\ m.last_log_index = Len(log[x.dst])
                                    /\ m.last_log_term = LastTerm(log[x.dst])
    BY <1>1, <1>4, <1>5 DEF RequestsFit
  <1>7. /\ current_term[x.dst] \in Nat /\ log'[x.dst] = log[x.dst]
        /\ current_term'[x.dst] = current_term[x.dst] /\ r'[x.dst] = r[x.dst]
    BY <1>1, <1>2, BothTypes DEF Forward
  <1>8. x.term <= current_term'[x.dst] /\ x.term <= current_term[x.dst]
    BY <1>2, <1>4, <1>5, <1>6, <1>7
  <1>9. ASSUME Stands(x.dst, x.term)'
        PROVE  /\ Stands(x.dst, x.term)
               /\ UpToDate(LastTerm(log[x.dst]), Len(log[x.dst]), log[n])
    <2>1. Stands(x.dst, x.term) /\ current_term[x.dst] = x.term
      BY <1>7, <1>9 DEF Stands
    <2>2. m.term = x.term
      BY <1>2, <1>4, <1>5, <1>6, <2>1
    <2> QED
      BY <1>4, <1>6, <2>1, <2>2
  <1> QED
    BY <1>2, <1>3, <1>7, <1>8, <1>9

\* The votes are for candidates with logs that are not behind.
LEMMA GrantsFitStep ==
    ASSUME NEW n \in Node, NEW h, NEW g, Step(n, h, g)
    PROVE  GrantsFit(g)'
  <1> SUFFICES ASSUME NEW x \in Said', IsGrant(x)
               PROVE  /\ x.term <= current_term'[x.dst]
                      /\ Stands(x.dst, x.term)' =>
                           \/ current_term'[x.src] > x.term
                           \/ g.voters[x.term] # {}
                           \/ UpToDate(LastTerm(log[x.dst]), Len(log[x.dst]),
                                       log[x.src])'
    BY DEF GrantsFit
  <1>1. /\ TypeOK /\ TypeOK' /\ Forward(n) /\ GrantsFit(h) /\ x \in Message
    BY StepParts
  <1>2. x.src \in Node /\ x.dst \in Node /\ x.term \in Nat
    BY <1>1, MessageType
  <1>3. CASE x \in Said
    <2>1. /\ x.term <= current_term[x.dst]
          /\ Stands(x.dst, x.term) =>
               \/ current_term[x.src] > x.term
               \/ h.voters[x.term] # {}
               \/ UpToDate(LastTerm(log[x.dst]), Len(log[x.dst]), log[x.src])
      BY <1>1, <1>3 DEF GrantsFit
    <2>2. x.term <= current_term[x.src]
      BY <1>3, StepParts DEF KeptInMemory, IsGrant, IsResponse
    <2>3. /\ current_term[x.dst] \in Nat /\ current_term'[x.dst] \in Nat
          /\ current_term'[x.dst] >= current_term[x.dst]
          /\ current_term[x.src] \in Nat /\ current_term'[x.src] \in Nat
          /\ current_term'[x.src] >= current_term[x.src]
      BY <1>1, <1>2, TermsForward
    <2>4. x.term <= current_term'[x.dst]
      BY <1>2, <2>1, <2>3
    <2>5. ASSUME Stands(x.dst, x.term)'
          PROVE  \/ current_term'[x.src] > x.term
                 \/ g.voters[x.term] # {}
                 \/ UpToDate(LastTerm(log[x.dst]), Len(log[x.dst]),
                             log[x.src])'
      <3>1. Stands(x.dst, x.term) /\ log'[x.dst] = log[x.dst]
        BY <1>2, <2>1, <2>5, StandingStill
      <3>2. CASE current_term[x.src] > x.term
        BY <1>2, <2>3, <3>2
      <3>3. CASE h.voters[x.term] # {}
        BY <1>2, <3>3, VotersStay
      <3>4. CASE /\ UpToDate(LastTerm(log[x.dst]), Len(log[x.dst]), log[x.src])
                 /\ log'[x.src] = log[x.src]
        BY <3>1, <3>4 DEF UpToDate, HighestIndex
      <3>5. CASE log'[x.src] # log[x.src]
        <4>1. x.src = n
          BY <1>1, <1>2, <3>5 DEF Forward
        <4>2. h.voters[current_term[n]] # {}
          BY <3>5, <4>1, LogMoves
        <4>3. CASE x.term = current_term[n]
          BY <1>2, <4>2, <4>3, VotersStay
        <4>4. CASE x.term # current_term[n]
          BY <1>2, <2>2, <2>3, <4>1, <4>4
        <4> QED
          BY <4>3, <4>4
      <3> QED
        BY <2>1, <3>1, <3>2, <3>3, <3>4, <3>5
    <2> QED
      BY <2>4, <2>5
  <1>4. CASE x \notin Said
    <2>1. /\ x.src = n /\ log'[n] = log[n] /\ x.term <= current_term'[x.dst]
          /\ Stands(x.dst, x.term)' =>
               /\ log'[x.dst] = log[x.dst]
               /\ UpToDate(LastTerm(log[x.dst]), Len(log[x.dst]), log[n])
      BY <1>4, NewGrant
    <2> QED
      BY <2>1 DEF UpToDate, HighestIndex
  <1> QED
    BY <1>3, <1>4

\* What was answered stays answered.
LEMMA AnsweredForever ==
    ASSUME TypeOK, msgs \subseteq msgs', NEW p, NEW t, NEW i \in Nat,
           NEW j \in Nat, j <= i, Answered(p, t, i)
    PROVE  Answered(p, t, j)'
  <1>1. PICK x \in msgs : IsSuccess(x) /\ x.src = p /\ x.term = t /\ i <= x.index
    BY DEF Answered
  <1>2. x \in Message
    BY DEF TypeOK
  <1>3. x.index \in Nat
    BY <1>1, <1>2, MessageType DEF IsSuccess
  <1>4. j <= x.index /\ x \in msgs'
    BY <1>1, <1>3
  <1> QED
    BY <1>1, <1>4 DEF Answered

\* The notes of the leaders stem from answers.
LEMMA BooksFitStep ==
    ASSUME NEW n \in Node, NEW h, NEW g, Step(n, h, g)
    PROVE  BooksFit'
  <1> SUFFICES ASSUME NEW l \in Node, r'[l].kind = "Leader", NEW p \in Peers(l)
               PROVE  /\ \/ r'[l].next_indexes[p] <= Len(log'[l]) + 1
                         \/ Answered(p, current_term[l],
                                     r[l].next_indexes[p] - 1)'
                      /\ \/ r'[l].match_indexes[p] = 0
                         \/ Answered(p, current_term[l],
                                     r[l].match_indexes[p])'
    BY DEF BooksFit, is_leader, Peers
  <1>0. PICK next, nextN, match, matchN, T :
          /\ next = r[l].next_indexes[p] /\ nextN = r'[l].next_indexes[p]
          /\ match = r[l].match_indexes[p] /\ matchN = r'[l].match_indexes[p]
          /\ T = current_term[l]
    OBVIOUS
  <1>1. /\ TypeOK /\ TypeOK' /\ msgs \subseteq msgs' /\ BooksFit
        /\ Forward(n) /\ CommitForward(n)
    BY StepParts DEF Forward
  <1>2. /\ nextN \in Nat \ {0} /\ matchN \in Nat
        /\ Len(log[l]) \in Nat /\ Len(log'[l]) \in Nat
        /\ r[l].kind = "Leader" => next \in Nat \ {0} /\ match \in Nat
    <2>1. r[l] \in Role(l) /\ r'[l] \in Role(l)
      BY <1>1, BothTypes
    <2>2. /\ r'[l].next_indexes \in [Peers(l) -> Nat \ {0}]
          /\ r'[l].match_indexes \in [Peers(l) -> Nat]
          /\ r[l].kind = "Leader" =>
               /\ r[l].next_indexes \in [Peers(l) -> Nat \ {0}]
               /\ r[l].match_indexes \in [Peers(l) -> Nat]
      BY <2>1, RoleType
    <2> QED
      BY <1>0, <1>1, <2>2, BothTypes
  <1>3. current_term'[l] = T
    BY <1>0, <1>1 DEF Forward
  <1>4. ASSUME r[l].kind = "Leader"
        PROVE  /\ next <= Len(log[l]) + 1 \/ Answered(p, T, next - 1)
               /\ match = 0 \/ Answered(p, T, match)
               /\ Len(log[l]) <= Len(log'[l])
    <2>1. /\ next <= Len(log[l]) + 1 \/ Answered(p, T, next - 1)
          /\ match = 0 \/ Answered(p, T, match)
      BY <1>0, <1>1, <1>4 DEF BooksFit, is_leader
    <2>2. Len(log[l]) <= Len(log'[l])
      <3>1. CASE log'[l] = log[l]
        BY <1>2, <3>1
      <3>2. CASE log'[l] # log[l]
        <4>1. l = n /\ \E c \in Request : log'[n] = append(n, c)
          BY <1>1, <1>4, <3>2 DEF Forward, CommitForward, LogMove, Accepts
        <4>2. Len(log'[n]) = Len(log[n]) + 1
          BY <1>1, <4>1, AppendStep
        <4> QED
          BY <1>2, <4>1, <4>2
      <3> QED
        BY <3>1, <3>2
    <2> QED
      BY <2>1, <2>2
  <1>5. \/ nextN <= Len(log'[l]) + 1
        \/ r[l].kind = "Leader" /\ nextN <= next
        \/ Answered(p, T, nextN - 1)
    <2>1. CASE l = n
      BY <1>0, <1>1, <2>1 DEF CommitForward, BooksMove
    <2>2. CASE l # n
      BY <1>0, <1>1, <1>2, <2>2 DEF Forward
    <2> QED
      BY <2>1, <2>2
  <1>6. \/ matchN = 0
        \/ r[l].kind = "Leader" /\ matchN = match
        \/ Answered(p, T, matchN)
    <2>1. CASE l = n
      BY <1>0, <1>1, <2>1 DEF CommitForward, BooksMove
    <2>2. CASE l # n
      BY <1>0, <1>1, <2>2 DEF Forward
    <2> QED
      BY <2>1, <2>2
  <1>7. nextN <= Len(log'[l]) + 1 \/ Answered(p, T, nextN - 1)'
    <2>1. nextN - 1 \in Nat /\ nextN - 1 <= nextN - 1
      BY <1>2
    <2>2. CASE r[l].kind = "Leader" /\ nextN <= next
      <3>1. next - 1 \in Nat /\ nextN - 1 <= next - 1
        BY <1>2, <2>2
      <3>2. CASE next <= Len(log[l]) + 1
        BY <1>2, <1>4, <2>2, <3>2
      <3>3. CASE Answered(p, T, next - 1)
        BY <1>1, <2>1, <3>1, <3>3, AnsweredForever
      <3> QED
        BY <1>4, <2>2, <3>2, <3>3
    <2>3. CASE Answered(p, T, nextN - 1)
      BY <1>1, <2>1, <2>3, AnsweredForever
    <2> QED
      BY <1>5, <2>2, <2>3
  <1>8. matchN = 0 \/ Answered(p, T, matchN)'
    <2>1. matchN <= matchN
      BY <1>2
    <2>2. matchN = 0 \/ Answered(p, T, matchN)
      BY <1>4, <1>6
    <2> QED
      BY <1>1, <1>2, <2>1, <2>2, AnsweredForever
  <1> QED
    BY <1>0, <1>3, <1>7, <1>8 DEF Answered
-----------------------------------------------------------------------------
(***************************************************************************)
(* The step lemmas: commits.                                               *)
(***************************************************************************)

\* What a node has committed is in the log of the leader of its term.
LEMMA CommittedHeld ==
    ASSUME NEW h \in History, LogsFit(h), LeadersHave(h), CommitsFit(h), TypeOK,
           NEW p \in Node
    PROVE  /\ commit_index[p] <= Len(log[p])
           /\ h.voters[current_term[p]] # {} =>
                SameUpTo(log[p], h.logs[current_term[p]], commit_index[p])
  <1>1. /\ commit_index[p] \in Nat /\ log[p] \in Seq(Entry)
        /\ Len(log[p]) \in Nat /\ current_term[p] \in Nat
    BY NodeType
  <1>2. /\ h.logs[current_term[p]] \in Seq(Entry)
        /\ Len(h.logs[current_term[p]]) \in Nat
    BY <1>1, HistoryType
  <1>3. CASE commit_index[p] = 0
    BY <1>1, <1>2, <1>3 DEF SameUpTo
  <1>4. CASE commit_index[p] # 0
    <2>1. PICK k, t \in Nat :
            /\ Chosen(h, k, t) /\ t <= current_term[p] /\ commit_index[p] <= k
            /\ SameUpTo(log[p], h.logs[t], commit_index[p])
      BY <1>4 DEF CommitsFit
    <2>2. commit_index[p] <= Len(log[p]) /\ h.logs[t] \in Seq(Entry)
      BY <2>1, HistoryType DEF SameUpTo
    <2>3. ASSUME h.voters[current_term[p]] # {}
          PROVE  SameUpTo(log[p], h.logs[current_term[p]], commit_index[p])
      <3>1. SameUpTo(h.logs[current_term[p]], h.logs[t], k)
        BY <1>1, <2>1, <2>3, ChosenInLater
      <3>2. SameUpTo(h.logs[t], h.logs[current_term[p]], k)
        BY <3>1, SameSym
      <3>3. commit_index[p] <= commit_index[p]
        BY <1>1
      <3> QED
        BY <1>1, <1>2, <2>1, <2>2, <3>2, <3>3, SameTrans
    <2> QED
      BY <2>2, <2>3
  <1> QED
    BY <1>3, <1>4

\* No step touches what is committed.
LEMMA CommittedStays ==
    ASSUME NEW n \in Node, NEW h, NEW g, Step(n, h, g), NEW p \in Node
    PROVE  SameUpTo(log'[p], log[p], commit_index[p])
  <1>1. /\ TypeOK /\ TypeOK' /\ h \in History /\ LogsFit(h) /\ LeadersHave(h)
        /\ CommitsFit(h) /\ Forward(n)
    BY StepParts
  <1>2. /\ commit_index[p] \in Nat /\ log[p] \in Seq(Entry)
        /\ log'[p] \in Seq(Entry)
    BY <1>1, BothTypes
  <1>3. /\ commit_index[p] <= Len(log[p])
        /\ h.voters[current_term[p]] # {} =>
             SameUpTo(log[p], h.logs[current_term[p]], commit_index[p])
    BY <1>1, CommittedHeld
  <1>4. CASE log'[p] = log[p]
    BY <1>2, <1>3, <1>4, SameSelf
  <1>5. CASE log'[p] # log[p]
    <2>1. p = n
      BY <1>1, <1>5 DEF Forward
    <2> QED
      BY <1>2, <1>3, <1>5, <2>1, LogMoves
  <1> QED
    BY <1>4, <1>5

\* What n may commit: as much as it shares with an entry that is chosen.
LEMMA CommitsFitIntro ==
    ASSUME NEW n \in Node, NEW h, NEW g, Step(n, h, g), NEW p \in Node,
           NEW c \in Nat, NEW k \in Nat, NEW t \in Nat, Chosen(h, k, t),
           t <= current_term[p], c <= k, SameUpTo(log'[p], h.logs[t], c)
    PROVE  \E i, u \in Nat :
              /\ Chosen(g, i, u) /\ u <= current_term'[p] /\ c <= i
              /\ SameUpTo(log'[p], g.logs[u], c)
  <1>1. TypeOK /\ TypeOK' /\ Forward(n)
    BY StepParts
  <1>2. /\ current_term[p] \in Nat /\ current_term'[p] \in Nat
        /\ current_term'[p] >= current_term[p] /\ log'[p] \in Seq(Entry)
    BY <1>1, TermsForward, BothTypes
  <1>3. t <= current_term'[p]
    BY <1>2
  <1>4. Chosen(g, k, t)
    BY ChosenForever
  <1>5. SameUpTo(log'[p], g.logs[t], c)
    BY <1>2, HistoryGrows
  <1> QED
    BY <1>3, <1>4, <1>5

\* The entry up to which a leader commits is chosen: both its peers have
\* answered, and one of them has voted for it.
LEMMA LeaderChooses ==
    ASSUME NEW n \in Node, NEW h, NEW g, Step(n, h, g), r[n].kind = "Leader",
           r'[n].kind = "Leader", log'[n] = log[n], NEW c \in Nat,
           Holds(log[n], c, current_term[n]),
           \A p \in Peers(n) : r'[n].match_indexes[p] >= c
    PROVE  Chosen(g, c, current_term[n]) /\ current_term'[n] = current_term[n]
  <1> DEFINE T == current_term[n]
             H == h.logs[T]
             Q == h.voters[T]
  <1>1. /\ TypeOK /\ TypeOK' /\ h \in History /\ g \in History /\ LogsFit(h)
        /\ TermsFit(h) /\ ResponsesFit(h) /\ Forward(n) /\ GoesOn(n, h, g)
        /\ Said \subseteq Message /\ Said' \subseteq Message
    BY StepParts
  <1>2. /\ T \in Nat /\ current_term'[n] = T /\ log[n] \in Seq(Entry)
        /\ r'[n] \in Role(n)
    BY <1>1, BothTypes DEF Forward
  <1>3. n \in Q /\ Majority(Q) /\ H = log[n] /\ g.logs[T] = log[n]
    BY <1>1, <1>2 DEF TermsFit, LogsFit, is_leader, GoesOn
  <1>4. c > 0 /\ c \in 1..Len(H) /\ H[c].term = T
    BY <1>2, <1>3, HoldsType
  <1>5. ASSUME NEW q \in Q PROVE <<q, c, T>> \in g.acks
    <2>1. CASE q = n
      BY <1>1, <1>2, <2>1 DEF GoesOn
    <2>2. CASE q # n
      <3>1. q \in Peers(n) /\ q \in Node
        BY <1>3, <2>2 DEF Peers, Majority
      <3>2. r'[n].match_indexes[q] \in Nat /\ r'[n].match_indexes[q] >= c
        BY <1>2, <3>1, RoleType
      <3>3. Answered(q, current_term[n], r[n].match_indexes[q])'
        <4>1. BooksFit'
          BY BooksFitStep
        <4>2. r'[n].match_indexes[q] # 0
          BY <1>4, <3>2
        <4> QED
          BY <3>1, <4>1, <4>2 DEF BooksFit, is_leader, Peers
      <3>4. PICK x \in msgs' : /\ IsSuccess(x) /\ x.src = q /\ x.term = T
                               /\ r'[n].match_indexes[q] <= x.index
        BY <1>2, <3>3 DEF Answered
      <3>5. x \in Said'
        BY <3>4 DEF Said
      <3>6. x \in Said
        BY <1>1, <2>2, <3>4, <3>5 DEF Forward, Speech
      <3>7. x.index \in Nat
        BY <1>1, <3>4, <3>6, MessageType DEF IsSuccess
      <3>8. \A k \in 1..x.index : H[k].term = T => <<q, k, T>> \in h.acks
        BY <1>1, <3>4, <3>6 DEF ResponsesFit
      <3>9. c \in 1..x.index
        BY <1>4, <3>2, <3>4, <3>7
      <3>10. <<q, c, T>> \in h.acks
        BY <1>4, <3>8, <3>9
      <3> QED
        BY <3>10, AcksGrow
    <2> QED
      BY <2>1, <2>2
  <1> QED
    BY <1>2, <1>3, <1>5 DEF Chosen

\* The commit index of every node.
LEMMA CommitsFitStep ==
    ASSUME NEW n \in Node, NEW h, NEW g, Step(n, h, g)
    PROVE  CommitsFit(g)'
  <1> SUFFICES ASSUME NEW p \in Node, commit_index'[p] # 0
               PROVE  \E k, t \in Nat :
                         /\ Chosen(g, k, t) /\ t <= current_term'[p]
                         /\ commit_index'[p] <= k
                         /\ SameUpTo(log'[p], g.logs[t], commit_index'[p])
    BY DEF CommitsFit, Chosen
  <1>1. /\ TypeOK /\ TypeOK' /\ h \in History /\ LogsFit(h) /\ LeadersHave(h)
        /\ CommitsFit(h) /\ AppendsFit(h) /\ ResponsesFit(h)
        /\ Forward(n) /\ CommitForward(n) /\ GoesOn(n, h, g)
        /\ Said \subseteq Message
    BY StepParts
  <1>2. /\ commit_index[p] \in Nat /\ commit_index'[p] \in Nat
        /\ log[p] \in Seq(Entry) /\ log'[p] \in Seq(Entry)
        /\ Len(log[p]) \in Nat /\ Len(log'[p]) \in Nat
        /\ current_term[p] \in Nat
    BY <1>1, BothTypes
  <1>3. CASE commit_index'[p] = commit_index[p]
    <2>1. PICK k, t \in Nat :
            /\ Chosen(h, k, t) /\ t <= current_term[p] /\ commit_index[p] <= k
            /\ SameUpTo(log[p], h.logs[t], commit_index[p])
      BY <1>1, <1>3 DEF CommitsFit
    <2>2. h.logs[t] \in Seq(Entry) /\ commit_index[p] <= commit_index[p]
      BY <1>1, <1>2, HistoryType
    <2>3. SameUpTo(log'[p], log[p], commit_index[p])
      BY CommittedStays
    <2>4. SameUpTo(log'[p], h.logs[t], commit_index[p])
      BY <1>2, <2>1, <2>2, <2>3, SameTrans
    <2> QED
      BY <1>2, <1>3, <2>1, <2>4, CommitsFitIntro
  <1>4. CASE /\ p = n /\ r[n].kind = "Leader" /\ r'[n].kind = "Leader"
             /\ log'[n] = log[n] /\ commit_index'[n] > commit_index[n]
             /\ Holds(log[n], commit_index'[n], current_term[n])
             /\ \A q \in Peers(n) :
                  r'[n].match_indexes[q] >= commit_index'[n]
    <2>1. /\ Chosen(g, commit_index'[n], current_term[n])
          /\ current_term'[n] = current_term[n]
      BY <1>2, <1>4, LeaderChooses
    <2>2. /\ g.logs[current_term[n]] = log'[n]
          /\ commit_index'[n] <= Len(log'[n])
      BY <1>1, <1>2, <1>4, <2>1, HoldsType DEF GoesOn
    <2>3. SameUpTo(log'[n], log'[n], commit_index'[n])
      BY <1>2, <1>4, <2>2, SameSelf
    <2>4. /\ current_term[n] <= current_term'[n]
          /\ commit_index'[n] <= commit_index'[n]
      BY <1>2, <1>4, <2>1
    <2> QED
      BY <1>2, <1>4, <2>1, <2>2, <2>3, <2>4
  <1>5. ASSUME p = n, NEW m \in msgs, Accepts(n, m),
               commit_index'[n] = FollowerCommit(n, m, log'[n]),
               commit_index'[n] # commit_index[n]
        PROVE  \E k, t \in Nat :
                  /\ Chosen(h, k, t) /\ t <= current_term[n]
                  /\ commit_index'[n] <= k
                  /\ SameUpTo(log'[n], h.logs[t], commit_index'[n])
    <2> DEFINE T == current_term[n]
               H == h.logs[T]
               c == commit_index'[n]
    <2>1. /\ m \in Said /\ m \in Message /\ m.term = T /\ h.voters[T] # {}
          /\ Committed(h, m.commit_index, T)
          /\ \/ /\ InPlace(h, m) /\ End(m) \in Nat
                /\ SameUpTo(log'[n], H, End(m))
             \/ /\ Past(m) /\ log'[n] = log[n]
                /\ m.prev_log_index > Len(log[n])
      BY <1>1, <1>5, AcceptStep
    <2>2. m.commit_index \in Nat /\ m.prev_log_index \in Nat /\ m.dst = n
      BY <1>5, <2>1, MessageType DEF Accepts, IsAppend
    <2>3. /\ c <= m.commit_index /\ c <= Len(log'[n]) /\ m.commit_index # 0
      BY <1>2, <1>5, <2>2 DEF FollowerCommit, HighestIndex
    <2>4. PICK k, u \in Nat :
            Chosen(h, k, u) /\ u <= T /\ m.commit_index <= k
      BY <2>1, <2>3 DEF Committed
    <2>5. /\ H \in Seq(Entry) /\ h.logs[u] \in Seq(Entry)
          /\ SameUpTo(H, h.logs[u], k) /\ Len(H) \in Nat /\ c \in Nat
      BY <1>1, <1>2, <1>5, <2>1, <2>4, ChosenInLater, HistoryType
    <2>6. SameUpTo(log'[n], H, c)
      <3>1. CASE InPlace(h, m) /\ End(m) \in Nat /\ SameUpTo(log'[n], H, End(m))
        <4>1. m.commit_index <= End(m)
          BY <3>1 DEF InPlace
        <4>2. c <= End(m)
          BY <2>2, <2>3, <2>5, <3>1, <4>1
        <4> QED
          BY <1>2, <1>5, <2>5, <3>1, <4>2, SameBelow
      <3>2. CASE /\ Past(m) /\ log'[n] = log[n]
                 /\ m.prev_log_index > Len(log[n])
        <4>1. PICK x \in msgs : /\ IsSuccess(x) /\ x.src = n /\ x.term = T
                                /\ m.prev_log_index <= x.index
          BY <2>1, <2>2, <3>2 DEF Past, Answered
        <4>2. x \in Said
          BY DEF Said
        <4>3. x.index \in Nat
          BY <1>1, <4>1, <4>2, MessageType DEF IsSuccess
        <4>4. \/ current_term[n] > T
              \/ x.index <= Len(log[n])
              \/ PrefixOf(log[n], H)
          BY <1>1, <4>1, <4>2 DEF ResponsesFit
        <4>5. SameUpTo(log'[n], H, Len(log'[n]))
          BY <1>2, <1>5, <2>2, <3>2, <4>1, <4>3, <4>4 DEF PrefixOf
        <4> QED
          BY <1>2, <1>5, <2>3, <2>5, <4>5, SameBelow
      <3> QED
        BY <2>1, <3>1, <3>2
    <2> HIDE DEF c, H
    <2>7. c <= k /\ c <= c
      BY <2>2, <2>3, <2>4, <2>5
    <2>8. SameUpTo(log'[n], h.logs[u], c)
      BY <1>2, <1>5, <2>5, <2>6, <2>7, SameTrans
    <2> QED
      BY <2>4, <2>7, <2>8 DEF c
  <1>6. CASE /\ p = n /\ commit_index'[n] # commit_index[n]
             /\ \E m \in msgs : /\ Accepts(n, m)
                                /\ commit_index'[n] = FollowerCommit(n, m, log'[n])
    <2>1. PICK k, t \in Nat :
            /\ Chosen(h, k, t) /\ t <= current_term[p] /\ commit_index'[p] <= k
            /\ SameUpTo(log'[p], h.logs[t], commit_index'[p])
      BY <1>5, <1>6
    <2> QED
      BY <1>2, <2>1, CommitsFitIntro
  <1>7. p # n => commit_index'[p] = commit_index[p]
    BY <1>1 DEF CommitForward
  <1> QED
    BY <1>1, <1>3, <1>4, <1>6, <1>7 DEF CommitForward, CommitMove

\* What the messages of leaders carry.
LEMMA AppendsFitStep ==
    ASSUME NEW n \in Node, NEW h, NEW g, Step(n, h, g)
    PROVE  AppendsFit(g)'
  <1> SUFFICES ASSUME NEW y \in Said', IsAppend(y)
               PROVE  /\ g.voters[y.term] # {}
                      /\ InPlace(g, y) \/ Past(y)'
                      /\ Committed(g, y.commit_index, y.term)
    BY DEF AppendsFit, Committed, Chosen, InPlace, End
  <1> DEFINE t == y.term
             prev == y.prev_log_index
             es == y.entries
  <1>1. /\ TypeOK /\ TypeOK' /\ h \in History /\ g \in History /\ AppendsFit(h)
        /\ Forward(n) /\ CommitForward(n) /\ GoesOn(n, h, g) /\ y \in Message
    BY StepParts
  <1>2. /\ t \in Nat /\ prev \in Nat /\ es \in Seq(Entry) /\ Len(es) \in Nat
        /\ y.commit_index \in Nat /\ y.dst \in Node
    <2>1. /\ t \in Nat /\ prev \in Nat /\ es \in Seq(Entry)
          /\ y.commit_index \in Nat /\ y.dst \in Node
      BY <1>1, MessageType DEF IsAppend
    <2> QED
      BY <2>1, LenProperties
  <1> HIDE DEF t, prev, es
  <1>3. CASE y \in Said
    <2>1. /\ h.voters[t] # {}
          /\ InPlace(h, y) \/ Past(y)
          /\ Committed(h, y.commit_index, t)
      BY <1>1, <1>3 DEF AppendsFit, t
    <2>2. g.voters[t] # {} /\ g.base[t] = h.base[t]
      BY <1>2, <2>1, VotersStay
    <2>3. ASSUME InPlace(h, y) PROVE InPlace(g, y)
      <3>1. /\ Len(h.logs[t]) \in Nat /\ Len(g.logs[t]) \in Nat
            /\ h.logs[t] \in Seq(Entry) /\ g.logs[t] \in Seq(Entry)
            /\ Len(h.logs[t]) <= Len(g.logs[t])
            /\ SameUpTo(h.logs[t], g.logs[t], Len(h.logs[t]))
        BY <1>2, HistoryGrows DEF PrefixOf
      <3>2. /\ prev + Len(es) <= Len(h.logs[t]) /\ h.base[t] <= End(y)
            /\ y.commit_index <= End(y)
            /\ y.prev_log_term = TermAt(h.logs[t], prev)
            /\ \A i \in 1..Len(es) : es[i] = h.logs[t][prev + i]
        BY <2>3 DEF InPlace, End, t, prev, es
      <3>3. prev <= Len(h.logs[t]) /\ End(y) <= Len(g.logs[t])
        BY <1>2, <3>1, <3>2 DEF End, prev, es
      <3>4. TermAt(h.logs[t], prev) = TermAt(g.logs[t], prev)
        BY <1>2, <3>1, <3>3 DEF TermAt, SameUpTo
      <3>5. ASSUME NEW i \in 1..Len(es) PROVE es[i] = g.logs[t][prev + i]
        <4>1. prev + i \in 1..Len(h.logs[t])
          BY <1>2, <3>1, <3>2
        <4> QED
          BY <3>1, <3>2, <4>1 DEF SameUpTo
      <3>6. InPlace(g, y)
        BY <2>2, <3>2, <3>3, <3>4, <3>5 DEF InPlace, t, prev, es
      <3> QED
        BY <3>6
    <2>4. ASSUME Past(y) PROVE Past(y)'
      <3>1. Answered(y.dst, t, prev) /\ prev <= prev
        BY <1>2, <2>4 DEF Past, t, prev
      <3>2. Answered(y.dst, t, prev)'
        BY <1>1, <1>2, <3>1, AnsweredForever DEF Forward
      <3>3. Past(y)'
        BY <2>4, <3>2 DEF Past, t, prev
      <3> QED
        BY <3>3
    <2>5. Committed(g, y.commit_index, t)
      BY <2>1, ChosenForever DEF Committed
    <2> QED
      BY <2>1, <2>2, <2>3, <2>4, <2>5 DEF t
  <1>4. CASE y \notin Said
    <2>1. /\ Utterance(n, y) /\ y.src = n /\ r'[n].kind = "Leader"
          /\ t = current_term'[n] /\ y.dst \in Peers(n)
      BY <1>1, <1>4 DEF Forward, CommitForward, Speech, Utterance, t
    <2>2. PICK next : next = r'[n].next_indexes[y.dst]
      OBVIOUS
    <2>3. /\ prev = next - 1 /\ y.prev_log_term = TermAt(log'[n], next - 1)
          /\ es = GetFrom(log'[n], next) /\ y.commit_index = commit_index'[n]
      BY <2>1, <2>2 DEF Utterance, prev, es
    <2>4. next \in Nat \ {0} /\ log'[n] \in Seq(Entry) /\ Len(log'[n]) \in Nat
      <3>1. r'[n] \in Role(n) /\ log'[n] \in Seq(Entry) /\ Len(log'[n]) \in Nat
        BY <1>1, BothTypes
      <3>2. r'[n].next_indexes \in [Peers(n) -> Nat \ {0}]
        BY <2>1, <3>1, RoleType
      <3> QED
        BY <2>1, <2>2, <3>1, <3>2
    <2>5. g.logs[t] = log'[n] /\ g.voters[t] # {}
      BY <1>1, <2>1 DEF GoesOn
    <2>6. /\ commit_index'[n] = 0 \/ \E k, u \in Nat :
               /\ Chosen(g, k, u) /\ u <= t /\ commit_index'[n] <= k
               /\ SameUpTo(log'[n], g.logs[u], commit_index'[n])
          /\ commit_index'[n] <= Len(log'[n])
      <3>1. CommitsFit(g)'
        BY CommitsFitStep
      <3>2. commit_index'[n] = 0 \/ \E k, u \in Nat :
              /\ Chosen(g, k, u) /\ u <= t /\ commit_index'[n] <= k
              /\ SameUpTo(log'[n], g.logs[u], commit_index'[n])
        BY <2>1, <3>1 DEF CommitsFit, Chosen
      <3> QED
        BY <2>4, <3>2 DEF SameUpTo
    <2>7. Committed(g, y.commit_index, t)
      BY <2>3, <2>6 DEF Committed
    <2>8. CASE next <= Len(log'[n]) + 1
      <3>1. /\ Len(es) = Len(log'[n]) - next + 1
            /\ \A i \in 1..Len(es) : es[i] = log'[n][next + i - 1]
        <4>1. next \in 1..(Len(log'[n]) + 1)
          BY <2>4, <2>8
        <4> QED
          BY <2>3, <2>4, <4>1 DEF GetFrom
      <3>2. End(y) = Len(log'[n])
        BY <2>3, <2>4, <3>1 DEF End, prev, es
      <3>3. \A i \in 1..Len(es) : es[i] = log'[n][prev + i]
        <4>1. \A i \in 1..Len(es) : next + i - 1 = prev + i
          BY <1>2, <2>3, <2>4
        <4> QED
          BY <3>1, <4>1
      <3>4. g.base[t] <= Len(g.logs[t])
        <4>1. TermsFit(g)'
          BY TermsFitStep
        <4> QED
          BY <1>2, <4>1 DEF TermsFit
      <3>5. InPlace(g, y)
        BY <2>3, <2>4, <2>5, <2>6, <3>2, <3>3, <3>4 DEF InPlace, t, prev, es
      <3> QED
        BY <2>5, <2>7, <3>5 DEF t
    <2>9. CASE ~ (next <= Len(log'[n]) + 1)
      <3>1. next - 1 > 0 /\ next - 1 \notin 1..Len(log'[n]) /\ next > Len(log'[n])
        BY <2>4, <2>9
      <3>2. y.prev_log_term = 0 /\ prev > 0
        BY <2>3, <3>1 DEF TermAt
      <3>3. es = <<>>
        <4>1. Len(es) = 0
          BY <2>3, <2>4, <3>1 DEF GetFrom
        <4> QED
          BY <1>2, <4>1, EmptySeq
      <3>4. Answered(y.dst, t, prev)'
        <4>1. BooksFit'
          BY BooksFitStep
        <4>2. Answered(y.dst, current_term[n], r[n].next_indexes[y.dst] - 1)'
          BY <2>1, <2>2, <2>9, <4>1 DEF BooksFit, is_leader, Peers
        <4> QED
          BY <2>1, <2>2, <2>3, <4>2 DEF Answered
      <3>5. Past(y)'
        BY <3>2, <3>3, <3>4 DEF Past, t, prev, es
      <3> QED
        BY <2>5, <2>7, <3>5 DEF t
    <2> QED
      BY <2>8, <2>9
  <1> QED
    BY <1>3, <1>4

\* A voter that accepts a message of its leader has a prefix of its log.
LEMMA VoterAccepts ==
    ASSUME NEW n \in Node, NEW h, NEW g, Step(n, h, g), NEW m \in msgs,
           Accepts(n, m), n \in h.voters[current_term[n]]
    PROVE  PrefixOf(log'[n], h.logs[current_term[n]])
  <1> DEFINE T == current_term[n]
             H == h.logs[T]
  <1>1. /\ TypeOK /\ TypeOK' /\ h \in History /\ LogsFit(h) /\ AppendsFit(h)
        /\ ResponsesFit(h) /\ VotersFit(h) /\ Said \subseteq Message
        /\ TermsFit(h)
    BY StepParts
  <1>2. /\ T \in Nat /\ log[n] \in Seq(Entry) /\ Len(log[n]) \in Nat
        /\ H \in Seq(Entry) /\ Len(H) \in Nat /\ h.base[T] \in Nat
        /\ h.base[T] <= Len(H) /\ Traced(h, log[n])
        /\ TermsUpTo(H, T)
    <2>1. T \in Nat /\ log[n] \in Seq(Entry) /\ Len(log[n]) \in Nat
      BY <1>1, BothTypes
    <2> QED
      BY <1>1, <2>1, HistoryType DEF TermsFit, LogsFit
  <1>3. /\ m \in Message /\ m.term = T
        /\ log'[n] = log[n] \/ PrefixOf(log'[n], H)
        /\ \/ /\ InPlace(h, m) /\ End(m) \in Nat
              /\ SameUpTo(log'[n], H, End(m))
           \/ /\ Past(m) /\ log'[n] = log[n]
              /\ m.prev_log_index > Len(log[n])
    BY <1>1, AcceptStep
  <1>4. SUFFICES ASSUME log'[n] = log[n] PROVE PrefixOf(log[n], H)
    BY <1>3
  <1>5. CASE InPlace(h, m) /\ End(m) \in Nat /\ SameUpTo(log'[n], H, End(m))
    <2> DEFINE b == h.base[T]
               e == End(m)
    <2>1. b <= e
      BY <1>3, <1>5 DEF InPlace
    <2>2. \/ UpToDate(TermAt(H, b), b, log[n])
          \/ PrefixOf(log[n], H)
      BY <1>1, <1>2 DEF VotersFit
    <2>3. SameUpTo(log[n], H, e) /\ e \in Nat
      BY <1>4, <1>5
    <2> HIDE DEF H, b, e
    <2>4. CASE Len(log[n]) <= e
      BY <1>2, <2>3, <2>4, SameBelow DEF PrefixOf
    <2>5. CASE e < Len(log[n]) /\ UpToDate(TermAt(H, b), b, log[n])
      <3>1. b \in Nat /\ b <= Len(H)
        BY <1>2 DEF b, H
      <3>2. LastTerm(log[n]) \in Nat /\ TermAt(H, b) \in Nat
        BY <1>2, <3>1, TermAtType DEF LastTerm
      <3>3. TermAt(H, b) > LastTerm(log[n])
        BY <1>2, <2>1, <2>3, <2>5, <3>1, <3>2 DEF UpToDate, HighestIndex
      <3>4. b \in 1..Len(H) /\ Holds(H, b, TermAt(H, b))
        <4>1. b \in 1..Len(H)
          BY <3>2, <3>3 DEF TermAt
        <4> QED
          BY <4>1 DEF TermAt, Holds
      <3>5. Holds(log[n], b, TermAt(H, b))
        <4>1. SameUpTo(H, log[n], e)
          BY <2>3, SameSym
        <4> QED
          BY <1>2, <2>1, <2>3, <3>1, <3>4, <4>1, SameHolds
      <3>6. LastTerm(log[n]) >= TermAt(H, b)
        BY <1>1, <1>2, <3>5, TracedLast
      <3> QED
        BY <3>2, <3>3, <3>6
    <2> QED
      BY <1>2, <2>2, <2>3, <2>4, <2>5
  <1>6. CASE Past(m) /\ m.prev_log_index > Len(log[n])
    <2>1. m.dst = n
      BY DEF Accepts
    <2>2. PICK x \in msgs : IsSuccess(x) /\ x.src = n /\ x.term = T
      BY <1>3, <1>6, <2>1 DEF Past, Answered
    <2>3. x \in Said
      BY DEF Said
    <2>4. current_term[n] > T \/ PrefixOf(log[n], H)
      BY <1>1, <2>2, <2>3 DEF ResponsesFit
    <2> QED
      BY <1>2, <2>4
  <1> QED
    BY <1>3, <1>5, <1>6

\* What the answers of followers tell.
LEMMA ResponsesFitStep ==
    ASSUME NEW n \in Node, NEW h, NEW g, Step(n, h, g)
    PROVE  ResponsesFit(g)'
  <1> SUFFICES ASSUME NEW x \in Said', IsSuccess(x)
               PROVE  /\ g.voters[x.term] # {}
                      /\ \/ current_term'[x.src] > x.term
                         \/ x.index <= Len(log'[x.src])
                         \/ PrefixOf(log'[x.src], g.logs[x.term])
                      /\ x.src \in g.voters[x.term] =>
                           /\ \/ current_term'[x.src] > x.term
                              \/ PrefixOf(log'[x.src], g.logs[x.term])
                           /\ x.index <= Len(g.logs[x.term])
                           /\ \A k \in 1..x.index :
                                g.logs[x.term][k].term = x.term
                                    => <<x.src, k, x.term>> \in g.acks
    BY DEF ResponsesFit, PrefixOf, SameUpTo
  <1> DEFINE q == x.src
             t == x.term
  <1>1. /\ TypeOK /\ TypeOK' /\ h \in History /\ LogsFit(h) /\ AppendsFit(h)
        /\ ResponsesFit(h) /\ Forward(n) /\ CommitForward(n)
        /\ GoesOn(n, h, g) /\ x \in Message
    BY StepParts
  <1>2. q \in Node /\ t \in Nat /\ x.index \in Nat
    BY <1>1, MessageType DEF IsSuccess
  <1>3. /\ log[q] \in Seq(Entry) /\ log'[q] \in Seq(Entry)
        /\ Len(log[q]) \in Nat /\ Len(log'[q]) \in Nat
        /\ current_term[q] \in Nat /\ current_term'[q] \in Nat
        /\ current_term'[q] >= current_term[q]
    BY <1>1, <1>2, BothTypes, TermsForward
  <1>4. /\ Len(h.logs[t]) \in Nat /\ Len(g.logs[t]) \in Nat
        /\ Len(h.logs[t]) <= Len(g.logs[t])
        /\ \A k \in 1..Len(h.logs[t]) : g.logs[t][k] = h.logs[t][k]
        /\ \A a \in Seq(Entry) : PrefixOf(a, h.logs[t]) => PrefixOf(a, g.logs[t])
    <2>1. \A a \in Seq(Entry) : PrefixOf(a, h.logs[t]) => PrefixOf(a, g.logs[t])
      <3>1. \A a \in Seq(Entry) : Len(a) \in Nat
        BY LenProperties
      <3> QED
        BY <1>2, <3>1, HistoryGrows DEF PrefixOf
    <2>2. /\ Len(h.logs[t]) \in Nat /\ Len(g.logs[t]) \in Nat
          /\ Len(h.logs[t]) <= Len(g.logs[t])
          /\ \A k \in 1..Len(h.logs[t]) : g.logs[t][k] = h.logs[t][k]
      <3> HIDE DEF t
      <3> QED
        BY <1>2, HistoryGrows
    <2> QED
      BY <2>1, <2>2
  <1>5. CASE x \in Said
    <2>1. /\ h.voters[t] # {}
          /\ \/ current_term[q] > t
             \/ x.index <= Len(log[q])
             \/ PrefixOf(log[q], h.logs[t])
          /\ q \in h.voters[t] =>
               /\ current_term[q] > t \/ PrefixOf(log[q], h.logs[t])
               /\ x.index <= Len(h.logs[t])
               /\ \A k \in 1..x.index :
                    h.logs[t][k].term = t => <<q, k, t>> \in h.acks
      BY <1>1, <1>5 DEF ResponsesFit
    <2>2. g.voters[t] = h.voters[t]
      BY <1>2, <2>1, VotersStay
    <2>3. t <= current_term[q]
      BY <1>5, StepParts DEF KeptInMemory, IsSuccess, IsResponse
    <2>4. \/ current_term'[q] > t
          \/ current_term[q] = t /\ log'[q] = log[q]
          \/ PrefixOf(log'[q], g.logs[t])
      <3>1. SUFFICES ASSUME current_term[q] = t, log'[q] # log[q]
                     PROVE  PrefixOf(log'[q], g.logs[t])
        BY <1>2, <1>3, <2>3
      <3>2. q = n
        BY <1>1, <1>2, <3>1 DEF Forward
      <3> QED
        BY <3>1, <3>2, LogMoves
    <2>5. /\ \/ current_term'[q] > t
             \/ x.index <= Len(log'[q])
             \/ PrefixOf(log'[q], g.logs[t])
          /\ q \in h.voters[t] => \/ current_term'[q] > t
                                  \/ PrefixOf(log'[q], g.logs[t])
      <3>1. CASE current_term[q] = t /\ log'[q] = log[q]
        BY <1>2, <1>3, <1>4, <2>1, <3>1
      <3> QED
        BY <2>4, <3>1
    <2>6. ASSUME q \in h.voters[t]
          PROVE  /\ x.index <= Len(g.logs[t])
                 /\ \A k \in 1..x.index :
                      g.logs[t][k].term = t => <<q, k, t>> \in g.acks
      <3>1. x.index <= Len(g.logs[t])
        BY <1>2, <1>4, <2>1, <2>6
      <3>2. ASSUME NEW k \in 1..x.index, g.logs[t][k].term = t
            PROVE  <<q, k, t>> \in g.acks
        <4>1. k \in 1..Len(h.logs[t])
          BY <1>2, <1>4, <2>1, <2>6
        <4>2. <<q, k, t>> \in h.acks
          BY <1>4, <2>1, <2>6, <3>2, <4>1
        <4> QED
          BY <4>2, AcksGrow
      <3> QED
        BY <3>1, <3>2
    <2> QED
      BY <2>1, <2>2, <2>5, <2>6
  <1>6. CASE x \notin Said
    <2>1. Utterance(n, x) /\ q = n
      BY <1>1, <1>6 DEF Forward, CommitForward, Speech
    <2>2. /\ t = current_term[n] /\ x.index = Len(log'[n])
          /\ \E m \in msgs : Accepts(n, m)
      BY <2>1 DEF Utterance
    <2>3. PICK m \in msgs : Accepts(n, m)
      BY <2>2
    <2>4. h.voters[t] # {}
      BY <1>1, <2>2, <2>3, AcceptStep
    <2>5. g.voters[t] = h.voters[t]
      BY <1>2, <2>4, VotersStay
    <2>6. ASSUME n \in h.voters[t]
          PROVE  /\ PrefixOf(log'[n], g.logs[t])
                 /\ x.index <= Len(g.logs[t])
                 /\ \A k \in 1..x.index :
                      g.logs[t][k].term = t => <<n, k, t>> \in g.acks
      <3>1. PrefixOf(log'[n], g.logs[t])
        BY <1>3, <1>4, <2>1, <2>2, <2>3, <2>6, VoterAccepts
      <3>2. ASSUME NEW k \in 1..x.index, g.logs[t][k].term = t
            PROVE  <<n, k, t>> \in g.acks
        <4>1. k \in 1..Len(log'[n]) /\ log'[n][k] = g.logs[t][k] /\ k \in Nat
          BY <1>2, <2>2, <3>1 DEF PrefixOf, SameUpTo
        <4>2. current_term'[n] = t
          BY <2>2, <2>3 DEF Accepts
        <4>3. Holds(log'[n], k, current_term'[n])
          BY <3>2, <4>1, <4>2 DEF Holds
        <4> QED
          BY <1>1, <4>1, <4>2, <4>3 DEF GoesOn
      <3> QED
        BY <2>2, <3>1, <3>2 DEF PrefixOf, SameUpTo
    <2> QED
      BY <1>2, <2>1, <2>2, <2>4, <2>5, <2>6
  <1> QED
    BY <1>5, <1>6
-----------------------------------------------------------------------------
(***************************************************************************)
(* The step lemmas: acknowledgements and what leaders have.                *)
(***************************************************************************)

\* An entry that a node and the leader of its term hold stays in its log.
LEMMA SharedStays ==
    ASSUME NEW n \in Node, NEW h, NEW g, Step(n, h, g), NEW q \in Node,
           NEW k \in Nat, NEW t \in Nat, Holds(log[q], k, t),
           t <= current_term[q], Holds(h.logs[t], k, t)
    PROVE  Holds(log'[q], k, t) \/ Dead(h, k, t)
  <1> DEFINE T == current_term[q]
  <1>1. /\ TypeOK /\ TypeOK' /\ h \in History /\ LogsFit(h) /\ LeadersHave(h)
        /\ Forward(n)
    BY StepParts
  <1>2. /\ log[q] \in Seq(Entry) /\ log'[q] \in Seq(Entry) /\ T \in Nat
    BY <1>1, BothTypes
  <1>3. SUFFICES ASSUME log'[q] # log[q], ~ Dead(h, k, t)
                 PROVE  Holds(log'[q], k, t)
    OBVIOUS
  <1>4. q = n
    BY <1>1, <1>3 DEF Forward
  <1>5. /\ h.voters[T] # {}
        /\ \A i \in Nat : SameUpTo(log[q], h.logs[T], i)
                            => SameUpTo(log'[q], log[q], i)
    BY <1>3, <1>4, LogMoves
  <1>6. Holds(h.logs[T], k, t)
    <2>1. CASE T = t
      BY <2>1
    <2>2. CASE T # t
      <3>1. T > t
        BY <1>2, <2>2
      <3> QED
        BY <1>1, <1>2, <1>3, <1>5, <3>1 DEF LeadersHave
    <2> QED
      BY <2>1, <2>2
  <1>7. SameUpTo(log[q], h.logs[T], k)
    <2>1. /\ Traced(h, log[q]) /\ Traced(h, h.logs[T])
          /\ h.logs[T] \in Seq(Entry)
      BY <1>1, <1>2, HistoryType DEF LogsFit
    <2> HIDE DEF T
    <2> QED
      BY <1>1, <1>2, <1>6, <2>1, TracedSame
  <1>8. SameUpTo(log[q], log'[q], k) /\ k <= k
    BY <1>5, <1>7, SameSym
  <1> QED
    BY <1>2, <1>8, SameHolds

\* A vote for a candidate whose log is not behind is for one that covers what
\* the voter holds.
LEMMA UpToDateCovers ==
    ASSUME NEW h \in History, LogsFit(h), NEW a \in Seq(Entry),
           NEW b \in Seq(Entry), Traced(h, a), NEW k \in Nat, NEW t \in Nat,
           Holds(a, k, t), UpToDate(LastTerm(b), Len(b), a)
    PROVE  Covers(b, k, t)
  <1>1. /\ LastTerm(a) \in Nat /\ LastTerm(a) >= t /\ Len(a) \in Nat
        /\ Len(a) >= k
    BY TracedLast
  <1>2. LastTerm(b) \in Nat /\ Len(b) \in Nat
    <2>1. Len(b) \in Nat
      BY LenProperties
    <2> QED
      BY <2>1, TermAtType DEF LastTerm
  <1> QED
    BY <1>1, <1>2 DEF UpToDate, HighestIndex, Covers

\* The acknowledgements.
LEMMA AcksFitStep ==
    ASSUME NEW n \in Node, NEW h, NEW g, Step(n, h, g)
    PROVE  AcksFit(g)'
  <1>1. /\ TypeOK /\ TypeOK' /\ h \in History /\ g \in History /\ LogsFit(h)
        /\ AcksFit(h) /\ GrantsFit(h) /\ Forward(n) /\ GoesOn(n, h, g)
        /\ Said \subseteq Message /\ Said' \subseteq Message
    BY StepParts
  <1>2. ASSUME NEW q \in Node, NEW k \in Nat, Holds(log'[q], k, current_term'[q])
        PROVE  <<q, k, current_term'[q]>> \in g.acks
    <2>1. CASE q = n
      BY <1>1, <1>2, <2>1 DEF GoesOn
    <2>2. CASE q # n
      <3>1. current_term'[q] = current_term[q] /\ log'[q] = log[q]
        BY <1>1, <2>2 DEF Forward
      <3>2. <<q, k, current_term[q]>> \in h.acks
        BY <1>1, <1>2, <3>1 DEF AcksFit
      <3> QED
        BY <3>1, <3>2, AcksGrow
    <2> QED
      BY <2>1, <2>2
  <1>3. ASSUME NEW q \in Node, NEW k \in Nat, NEW t \in Nat,
               <<q, k, t>> \in h.acks
        PROVE  /\ Holds(g.logs[t], k, t)
               /\ t <= current_term'[q]
               /\ Dead(g, k, t)' \/ Kept(q, k, t)'
    <2>1. /\ Holds(h.logs[t], k, t) /\ t <= current_term[q]
          /\ Dead(h, k, t) \/ Kept(q, k, t)
      BY <1>1, <1>3 DEF AcksFit
    <2>2. /\ current_term[q] \in Nat /\ current_term'[q] \in Nat
          /\ current_term'[q] >= current_term[q] /\ log[q] \in Seq(Entry)
      BY <1>1, TermsForward, BothTypes
    <2>3. Holds(g.logs[t], k, t) /\ t <= current_term'[q]
      <3>1. Holds(g.logs[t], k, t)
        BY <2>1, HistoryGrows
      <3> QED
        BY <2>1, <2>2, <3>1
    <2>4. Dead(h, k, t) => Dead(g, k, t)'
      BY DeadForever
    <2>5. ASSUME Kept(q, k, t), ~ Dead(h, k, t) PROVE Kept(q, k, t)'
      <3>1. Holds(log[q], k, t)
        BY <2>5 DEF Kept
      <3>2. Holds(log'[q], k, t)
        BY <2>1, <2>5, <3>1, SharedStays
      <3>3. ASSUME NEW x \in Said', IsGrant(x), x.src = q, x.term > t,
                   Stands(x.dst, x.term)'
            PROVE  Covers(log'[x.dst], k, t)
        <4>1. x.dst \in Node /\ x.term \in Nat
          BY <1>1, MessageType
        <4>2. CASE x \in Said
          <5>1. x.term <= current_term[x.dst]
            BY <1>1, <3>3, <4>2 DEF GrantsFit
          <5>2. Stands(x.dst, x.term) /\ log'[x.dst] = log[x.dst]
            BY <3>3, <4>1, <5>1, StandingStill
          <5>3. Covers(log[x.dst], k, t)
            BY <2>5, <3>3, <4>2, <5>2 DEF Kept
          <5> QED
            BY <5>2, <5>3
        <4>3. CASE x \notin Said
          <5>1. /\ q = n /\ log'[x.dst] = log[x.dst]
                /\ UpToDate(LastTerm(log[x.dst]), Len(log[x.dst]), log[n])
            BY <3>3, <4>3, NewGrant
          <5>2. log[x.dst] \in Seq(Entry) /\ Traced(h, log[q])
            BY <1>1, <4>1, BothTypes DEF LogsFit
          <5>3. Covers(log[x.dst], k, t)
            BY <1>1, <2>2, <3>1, <5>1, <5>2, UpToDateCovers
          <5> QED
            BY <5>1, <5>3
        <4> QED
          BY <4>2, <4>3
      <3> QED
        BY <3>2, <3>3 DEF Kept
    <2> QED
      BY <2>1, <2>3, <2>4, <2>5
  <1>4. ASSUME NEW k \in Nat, Holds(log'[n], k, current_term'[n])
        PROVE  /\ Holds(g.logs[current_term'[n]], k, current_term'[n])
               /\ current_term'[n] <= current_term'[n]
               /\ Kept(n, k, current_term[n])'
    <2>1. LogsFit(g)'
      BY LogsFitStep
    <2>2. current_term'[n] \in Nat /\ log'[n] \in Seq(Entry)
      BY <1>1, BothTypes
    <2>3. Traced(g, log'[n]) /\ g.logs[current_term'[n]] \in Seq(Entry)
      BY <1>1, <2>1, <2>2, HistoryType DEF LogsFit, Traced, SameUpTo
    <2>4. SameUpTo(log'[n], g.logs[current_term'[n]], k) /\ k <= k
      BY <1>4, <2>3 DEF Traced, Holds
    <2>5. Holds(g.logs[current_term'[n]], k, current_term'[n])
      BY <1>4, <2>2, <2>3, <2>4, SameHolds
    <2>6. ASSUME NEW x \in Said', IsGrant(x), x.src = n,
                 x.term > current_term'[n]
          PROVE  FALSE
      <3>1. x.term <= current_term'[n] /\ x.term \in Nat
        BY <1>1, <2>6, StepParts, MessageType DEF KeptInMemory, IsGrant, IsResponse
      <3> QED
        BY <2>2, <2>6, <3>1
    <2>7. Kept(n, k, current_term[n])'
      BY <1>4, <2>6 DEF Kept
    <2> QED
      BY <2>2, <2>5, <2>7
  <1>5. ASSUME NEW q \in Node, NEW k \in Nat, NEW t \in Nat,
               <<q, k, t>> \in g.acks
        PROVE  /\ Holds(g.logs[t], k, t)
               /\ t <= current_term'[q]
               /\ Dead(g, k, t)' \/ Kept(q, k, t)'
    <2>1. CASE <<q, k, t>> \in h.acks
      BY <1>3, <2>1
    <2>2. CASE <<q, k, t>> \notin h.acks
      <3>1. q = n /\ t = current_term'[n] /\ Holds(log'[n], k, current_term'[n])
        BY <1>5, <2>2, AcksGrow
      <3>2. /\ Holds(g.logs[t], k, t) /\ t <= current_term'[q]
            /\ Kept(n, k, current_term[n])'
        BY <1>4, <3>1
      <3>3. Kept(q, k, t)'
        BY <3>1, <3>2 DEF Kept
      <3> QED
        BY <3>2, <3>3
    <2> QED
      BY <2>1, <2>2
  <1>6. \A q \in Node : \A k, t \in Nat : <<q, k, t>> \in g.acks =>
          /\ Holds(g.logs[t], k, t)
          /\ t <= current_term'[q]
          /\ Dead(g, k, t)' \/ Kept(q, k, t)'
    BY <1>5
  <1>7. \A q \in Node : \A k \in Nat :
          Holds(log'[q], k, current_term'[q])
              => <<q, k, current_term'[q]>> \in g.acks
    BY <1>2
  <1> QED
    BY <1>6, <1>7 DEF AcksFit, Holds

\* The entries that the leaders of later terms have.
LEMMA LeadersHaveStep ==
    ASSUME NEW n \in Node, NEW h, NEW g, Step(n, h, g)
    PROVE  LeadersHave(g)'
  <1> SUFFICES ASSUME NEW s \in Nat, NEW t \in Nat, NEW k \in Nat,
                      Holds(g.logs[t], k, t), s > t, g.voters[s] # {}
               PROVE  Holds(g.logs[s], k, t) \/ Dead(g, k, t)'
    BY DEF LeadersHave, Holds
  <1>1. /\ TypeOK /\ TypeOK' /\ h \in History /\ g \in History /\ LogsFit(h)
        /\ TermsFit(h) /\ AcksFit(h) /\ VotersFit(h) /\ LeadersHave(h)
        /\ Forward(n) /\ GoesOn(n, h, g)
    BY StepParts
  <1>2. CASE Holds(h.logs[t], k, t) /\ h.voters[s] # {}
    <2>1. Holds(h.logs[s], k, t) \/ Dead(h, k, t)
      BY <1>1, <1>2 DEF LeadersHave
    <2> QED
      BY <2>1, HistoryGrows, DeadForever
  <1>3. CASE Holds(h.logs[t], k, t) /\ h.voters[s] = {}
    <2>1. /\ Elected(n) /\ s = current_term[n] /\ Majority(g.voters[s])
          /\ \A v \in g.voters[s] \ {n} :
               \E x \in Said : IsGrant(x) /\ x.src = v /\ x.dst = n /\ x.term = s
      BY <1>1, <1>3 DEF GoesOn
    <2>2. /\ current_term'[n] = s /\ log'[n] = log[n] /\ g.logs[s] = log[n]
          /\ Stands(n, s)
      BY <1>1, <2>1 DEF Elected, GoesOn, Stands
    <2>3. Holds(log[n], k, t) \/ Dead(h, k, t)
      <3>1. CASE \A q \in g.voters[s] : <<q, k, t>> \notin h.acks
        <4>1. ASSUME NEW q \in g.voters[s] PROVE current_term[q] > t
          <5>1. CASE q = n
            BY <2>1, <5>1
          <5>2. CASE q # n
            <6>1. PICK x \in Said : IsGrant(x) /\ x.src = q /\ x.term = s
              BY <2>1, <5>2
            <6>2. s <= current_term[q]
              BY <6>1, StepParts DEF KeptInMemory, IsGrant, IsResponse
            <6>3. current_term[q] \in Nat
              BY <1>1, <2>1, BothTypes DEF Majority
            <6> QED
              BY <6>2, <6>3
          <5> QED
            BY <5>1, <5>2
        <4> QED
          BY <2>1, <3>1, <4>1 DEF Dead
      <3>2. ASSUME NEW q \in g.voters[s], <<q, k, t>> \in h.acks
            PROVE  Holds(log[n], k, t) \/ Dead(h, k, t)
        <4>1. q \in Node
          BY <2>1 DEF Majority
        <4>2. Dead(h, k, t) \/ Kept(q, k, t)
          BY <1>1, <3>2, <4>1 DEF AcksFit
        <4>3. CASE Kept(q, k, t) /\ q = n
          BY <4>3 DEF Kept
        <4>4. CASE Kept(q, k, t) /\ q # n
          <5>1. PICK x \in Said :
                  IsGrant(x) /\ x.src = q /\ x.dst = n /\ x.term = s
            BY <2>1, <4>4
          <5>2. Covers(log[n], k, t)
            BY <2>2, <4>4, <5>1 DEF Kept
          <5>3. log[n] \in Seq(Entry) /\ Traced(h, log[n])
            BY <1>1, BothTypes DEF LogsFit
          <5> QED
            BY <1>1, <1>3, <5>2, <5>3, CoveringHolds
        <4> QED
          BY <4>2, <4>3, <4>4
      <3> QED
        BY <3>1, <3>2
    <2> QED
      BY <2>2, <2>3, DeadForever
  <1>4. CASE ~ Holds(h.logs[t], k, t)
    <2>1. t = current_term'[n]
      BY <1>1, <1>4 DEF GoesOn
    <2>2. /\ current_term'[n] >= current_term[n] /\ current_term'[n] \in Nat
          /\ current_term[n] \in Nat
      BY <1>1, TermsForward
    <2>3. h.voters[s] # {}
      <3>1. SUFFICES ASSUME h.voters[s] = {} PROVE FALSE
        OBVIOUS
      <3>2. Elected(n) /\ s = current_term[n]
        BY <1>1, <3>1 DEF GoesOn
      <3> QED
        BY <2>1, <2>2, <3>2
    <2>4. Majority(h.voters[s]) /\ h.voters[s] \subseteq Node
      BY <1>1, <2>3, HistoryType DEF TermsFit
    <2>5. ASSUME NEW q \in h.voters[s]
          PROVE  current_term'[q] > t /\ <<q, k, t>> \notin g.acks
      <3>1. /\ current_term'[q] >= current_term[q] /\ current_term'[q] \in Nat
            /\ current_term[q] \in Nat
        BY <1>1, <2>4, TermsForward
      <3>2. current_term[q] >= s
        BY <1>1, <3>1 DEF VotersFit
      <3>3. current_term'[q] > t
        BY <3>1, <3>2
      <3>4. <<q, k, t>> \notin h.acks
        BY <1>1, <1>4, <2>4 DEF AcksFit
      <3>5. q # n
        BY <2>1, <2>2, <3>3
      <3> QED
        BY <3>3, <3>4, <3>5, AcksGrow
    <2>6. Dead(g, k, t)'
      BY <2>4, <2>5 DEF Dead, Majority
    <2> QED
      BY <2>6
  <1> QED
    BY <1>2, <1>3, <1>4
-----------------------------------------------------------------------------
(***************************************************************************)
(* The step lemmas: state machines, replies and panics.                    *)
(***************************************************************************)

\* What is applied is what is in the log.
LEMMA MachinesFitStep ==
    ASSUME NEW n \in Node, NEW h, NEW g, Step(n, h, g)
    PROVE  MachinesFit'
  <1> SUFFICES ASSUME NEW p \in Node, NEW i \in 1..Len(machine'[p])
               PROVE  machine'[p][i] = log'[p][i].cmd
    BY DEF MachinesFit
  <1>1. MachinesFit /\ CommitForward(n) /\ TypeOK /\ TypeOK'
    BY StepParts
  <1>2. CASE p # n
    <2>1. machine'[p] = machine[p] /\ log'[p] = log[p]
      BY <1>2, StepParts
    <2> QED
      BY <1>1, <2>1 DEF MachinesFit
  <1>3. CASE p = n
    <2>1. CASE i \in 1..Len(machine[n])
      <3>1. machine'[n][i] = machine[n][i] /\ machine[n][i] = log[n][i].cmd
        BY <1>1, <2>1 DEF CommitForward, MachineMove, MachinesFit
      <3>2. commit_index[n] = Len(machine[n])
        BY DEF Step, TypeInv, AppliedIsCommitted, NoPanic
      <3>3. SameUpTo(log'[n], log[n], commit_index[n])
        BY CommittedStays
      <3>4. log'[n][i] = log[n][i]
        BY <2>1, <3>2, <3>3 DEF SameUpTo
      <3> QED
        BY <1>3, <3>1, <3>4
    <2>2. CASE i \notin 1..Len(machine[n])
      BY <1>1, <1>3, <2>2 DEF CommitForward, MachineMove
    <2> QED
      BY <2>1, <2>2
  <1> QED
    BY <1>2, <1>3

\* Only commands that are chosen are acknowledged.
LEMMA RepliesFitStep ==
    ASSUME NEW n \in Node, NEW h, NEW g, Step(n, h, g)
    PROVE  RepliesFit(g)'
  <1> SUFFICES ASSUME NEW y \in replies', y.kind = "ok"
               PROVE  \E k, t \in Nat :
                         /\ Chosen(g, k, t)
                         /\ \E i \in 1..k : g.logs[t][i].cmd = y.cmd
    BY DEF RepliesFit, Chosen
  <1>1. RepliesFit(h) /\ CommitForward(n) /\ TypeOK /\ TypeOK' /\ h \in History
    BY StepParts
  <1>2. CASE y \in replies
    <2>1. PICK k, t \in Nat : /\ Chosen(h, k, t)
                              /\ \E i \in 1..k : h.logs[t][i].cmd = y.cmd
      BY <1>1, <1>2 DEF RepliesFit
    <2>2. PICK i \in 1..k : h.logs[t][i].cmd = y.cmd
      BY <2>1
    <2>3. k \in 1..Len(h.logs[t]) /\ Len(h.logs[t]) \in Nat
      BY <1>1, <2>1, HistoryType DEF Chosen, Holds
    <2>4. i \in 1..Len(h.logs[t])
      BY <2>3
    <2>5. g.logs[t][i] = h.logs[t][i]
      <3>1. PrefixOf(h.logs[t], g.logs[t])
        BY HistoryGrows
      <3> QED
        BY <2>4, <3>1 DEF PrefixOf, SameUpTo
    <2>6. Chosen(g, k, t)
      BY <2>1, ChosenForever
    <2> QED
      BY <2>2, <2>5, <2>6
  <1>3. CASE y \notin replies
    <2>1. PICK i \in 1..commit_index'[n] : log'[n][i].cmd = y.cmd
      BY <1>1, <1>3 DEF CommitForward, RepliesMove
    <2>2. commit_index'[n] \in Nat
      BY <1>1, BothTypes
    <2>3. CommitsFit(g)'
      BY CommitsFitStep
    <2>4. PICK k, t \in Nat : /\ Chosen(g, k, t) /\ commit_index'[n] <= k
                              /\ SameUpTo(log'[n], g.logs[t], commit_index'[n])
      BY <2>1, <2>2, <2>3 DEF CommitsFit, Chosen
    <2>5. i \in 1..k /\ g.logs[t][i] = log'[n][i]
      BY <2>1, <2>2, <2>4 DEF SameUpTo
    <2> QED
      BY <2>1, <2>4, <2>5
  <1> QED
    BY <1>2, <1>3

\* A leader is not spoken to by another one, and no commit index falls behind
\* what is applied.
LEMMA NoPanicStep ==
    ASSUME NEW n \in Node, NEW h, NEW g, Step(n, h, g)
    PROVE  NoPanic'
  <1>1. /\ TypeOK /\ TypeOK' /\ VoteInv /\ ElectionInv /\ NoPanic
        /\ CommitForward(n)
    BY DEF Step, TypeInv
  <1>2. CASE \A p \in Node : Up(p) => Up(p)'
    BY <1>1, <1>2 DEF NoPanic
  <1>3. NoSecondLeader
    BY <1>1, OneLeaderSpeaks
  <1>4. ASSUME NEW m \in msgs, Accepts(n, m), Overtaken(n, m, log'[n])
        PROVE  FALSE
    <2>1. commit_index[n] = Len(machine[n])
      BY DEF Step, TypeInv, AppliedIsCommitted, NoPanic
    <2>2. commit_index[n] <= Len(log'[n])
      BY CommittedStays DEF SameUpTo
    <2>3. /\ commit_index[n] \in Nat /\ Len(log'[n]) \in Nat
          /\ m.commit_index \in Nat
      <3>1. m \in Message /\ m.type = "AppendEntries"
        BY <1>1, <1>4 DEF TypeOK, Accepts, IsAppend
      <3> QED
        BY <1>1, <3>1, BothTypes, MessageType
    <2> QED
      BY <1>4, <2>1, <2>2, <2>3 DEF Overtaken, FollowerCommit, HighestIndex
  <1> QED
    BY <1>1, <1>2, <1>3, <1>4 DEF CommitForward, PanicMove

\* All of it.
LEMMA FitsStep ==
    ASSUME NEW n \in Node, NEW h, NEW g, Step(n, h, g)
    PROVE  g \in History /\ Fits(g)' /\ NoPanic'
  <1>1. /\ LogsFit(g)' /\ TermsFit(g)' /\ VotersFit(g)' /\ AppendsFit(g)'
        /\ ResponsesFit(g)' /\ RequestsFit' /\ GrantsFit(g)' /\ AcksFit(g)'
        /\ LeadersHave(g)' /\ BooksFit' /\ CommitsFit(g)' /\ MachinesFit'
        /\ RepliesFit(g)' /\ NoPanic'
    BY LogsFitStep, TermsFitStep, VotersFitStep, AppendsFitStep,
       ResponsesFitStep, RequestsFitStep, GrantsFitStep, AcksFitStep,
       LeadersHaveStep, BooksFitStep, CommitsFitStep, MachinesFitStep,
       RepliesFitStep, NoPanicStep
  <1>2. g \in History
    BY StepParts
  <1>3. Fits(g)'
    BY <1>1 DEF Fits
  <1> QED
    BY <1>1, <1>2, <1>3

\* There is a way to go on with the history.
LEMMA HistoryGoesOn ==
    ASSUME TypeInv, TypeInv', VoteInv, VoteInv', ElectionInv, ElectionInv',
           NEW n \in Node, NEW h \in History, Fits(h), Forward(n),
           CommitForward(n)
    PROVE  \E g : GoesOn(n, h, g)
  <1>1. /\ TypeOK /\ TypeOK' /\ LogsFit(h) /\ TermsFit(h) /\ LogMove(n)
    BY DEF TypeInv, Fits, CommitForward
  <1>2. PICK T, L : T = current_term'[n] /\ L = log'[n]
    OBVIOUS
  <1>3. /\ T \in Nat /\ L \in Seq(Entry) /\ log[n] \in Seq(Entry)
        /\ Len(log[n]) \in Nat /\ current_term[n] \in Nat
        /\ r[n].kind \in {"Follower", "Candidate", "Leader"}
    BY <1>1, <1>2, BothTypes
  <1>4. /\ h.logs[T] \in Seq(Entry) /\ h.base[T] \in Nat
        /\ h.voters[T] \subseteq Node /\ Len(h.logs[T]) \in Nat
    BY <1>3, HistoryType
  <1>5. PICK lg, b, Q :
          /\ lg \in Seq(Entry) /\ b \in Nat /\ Q \subseteq Node
          /\ PrefixOf(h.logs[T], lg)
          /\ lg = h.logs[T] \/ (r'[n].kind = "Leader" /\ lg = L)
          /\ h.voters[T] # {} => Q = h.voters[T] /\ b = h.base[T]
          /\ h.voters[T] = {} /\ Q = {} => b = h.base[T]
          /\ h.voters[T] = {} /\ Q # {} =>
               /\ Elected(n) /\ T = current_term[n] /\ b = Len(log[n])
               /\ n \in Q /\ Majority(Q)
               /\ \A v \in Q \ {n} :
                    \E x \in Said : /\ IsGrant(x) /\ x.src = v
                                    /\ x.dst = n /\ x.term = T
          /\ r'[n].kind = "Leader" => lg = L /\ n \in Q
    <2>1. CASE r'[n].kind # "Leader"
      <3>1. PrefixOf(h.logs[T], h.logs[T])
        <4>1. Len(h.logs[T]) <= Len(h.logs[T])
          BY <1>4
        <4> QED
          BY <1>4, <4>1, SameSelf
      <3> QED
        BY <1>4, <2>1, <3>1
    <2>2. CASE r'[n].kind = "Leader" /\ r[n].kind = "Leader"
      <3>1. T = current_term[n]
        BY <1>2, <2>2 DEF Forward
      <3>2. h.logs[T] = log[n] /\ n \in h.voters[T]
        BY <1>1, <2>2, <3>1 DEF LogsFit, TermsFit, is_leader
      <3>3. PrefixOf(log[n], L)
        <4>1. CASE L = log[n]
          <5>1. Len(log[n]) <= Len(log[n])
            BY <1>3
          <5> QED
            BY <1>3, <4>1, <5>1, SameSelf
        <4>2. CASE L # log[n]
          <5>1. \E c \in Request : log'[n] = append(n, c)
            BY <1>1, <1>2, <2>2, <4>2 DEF LogMove, Accepts
          <5> QED
            BY <1>1, <1>2, <5>1, AppendStep
        <4> QED
          BY <4>1, <4>2
      <3> QED
        BY <1>3, <1>4, <2>2, <3>2, <3>3
    <2>3. CASE r'[n].kind = "Leader" /\ r[n].kind # "Leader"
      <3>1. /\ T = current_term[n] /\ r[n].kind = "Candidate" /\ L = log[n]
            /\ Elected(n)
        BY <1>1, <1>2, <1>3, <2>3 DEF Forward, LogMove, Accepts, Elected
      <3>2. h.voters[T] = {}
        <4>1. SUFFICES ASSUME NEW x \in Node, Led(x, T) PROVE FALSE
          BY <1>1, <1>3 DEF TermsFit
        <4>2. Led(x, T)'
          BY <1>1, <1>3, <4>1, LedForever
        <4>3. Led(x, current_term[n])'
          BY <1>2, <4>2 DEF Led, Won, Granted
        <4>4. x = n
          BY <1>1, <2>3, <4>3, LeadersAreUniqueNext DEF LedUnique, is_leader
        <4> QED
          BY <1>3, <3>1, <4>1, <4>4 DEF Led
      <3>3. h.logs[T] = <<>>
        BY <1>1, <1>3, <3>2 DEF TermsFit
      <3>4. PrefixOf(h.logs[T], L)
        BY <1>3, <3>3, EmptyPrefix
      <3>5. Won(n, current_term[n])'
        BY <2>3 DEF ElectionInv, LeaderWon, is_leader
      <3>6. PICK Q \in SUBSET Node :
              /\ n \in Q /\ WonElection(Cardinality(Q), Cardinality(Node))
              /\ \A v \in Q \ {n} : Granted(v, n, current_term[n])'
        BY <3>5 DEF Won
      <3>7. ASSUME NEW v \in Q \ {n}
            PROVE  \E x \in Said : /\ IsGrant(x) /\ x.src = v
                                   /\ x.dst = n /\ x.term = T
        <4>1. Granted(v, n, current_term[n])'
          BY <3>6
        <4>2. PICK x \in msgs' : IsGrant(x) /\ x.src = v /\ x.dst = n /\ x.term = T
          BY <1>2, <4>1 DEF Granted, IsGrant
        <4>3. x \in Said'
          BY <4>2 DEF Said
        <4>4. x \in Said
          BY <4>2, <4>3 DEF Forward, Speech
        <4> QED
          BY <4>2, <4>4
      <3>8. Majority(Q)
        BY <3>6 DEF Majority
      <3> QED
        BY <1>3, <2>3, <3>1, <3>2, <3>4, <3>6, <3>7, <3>8
    <2> QED
      BY <2>1, <2>2, <2>3
  <1> DEFINE A == h.acks \cup {<<n, k, T>> : k \in {j \in Nat : Holds(L, j, T)}}
             g == [logs |-> [h.logs EXCEPT ![T] = lg],
                   base |-> [h.base EXCEPT ![T] = b],
                   voters |-> [h.voters EXCEPT ![T] = Q],
                   acks |-> A]
  <1>6. A \subseteq Node \X Nat \X Nat
    <2>1. h.acks \subseteq Node \X Nat \X Nat
      BY DEF History
    <2> QED
      BY <1>3, <2>1
  <1>7. g \in History
    BY <1>3, <1>5, <1>6 DEF History
  <1>8. /\ g.logs[T] = lg /\ g.base[T] = b /\ g.voters[T] = Q
        /\ \A s \in Nat \ {T} : /\ g.logs[s] = h.logs[s]
                                /\ g.base[s] = h.base[s]
                                /\ g.voters[s] = h.voters[s]
        /\ g.acks = A
    BY <1>3 DEF History
  <1>9. \A a : a \in g.acks <=>
          \/ a \in h.acks
          \/ \E k \in Nat : a = <<n, k, current_term'[n]>>
                            /\ Holds(log'[n], k, current_term'[n])
    BY <1>2, <1>8
  <1> HIDE DEF g, A
  <1>10. ASSUME NEW s \in Nat
         PROVE  /\ PrefixOf(h.logs[s], g.logs[s])
                /\ \/ g.logs[s] = h.logs[s]
                   \/ /\ s = current_term'[n] /\ r'[n].kind = "Leader"
                      /\ g.logs[s] = log'[n]
                /\ h.voters[s] # {} => /\ g.voters[s] = h.voters[s]
                                       /\ g.base[s] = h.base[s]
                /\ h.voters[s] = {} /\ g.voters[s] = {} => g.base[s] = h.base[s]
                /\ h.voters[s] = {} /\ g.voters[s] # {} =>
                     /\ Elected(n) /\ s = current_term[n]
                     /\ g.base[s] = Len(log[n])
                     /\ n \in g.voters[s] /\ Majority(g.voters[s])
                     /\ \A v \in g.voters[s] \ {n} :
                          \E x \in Said : /\ IsGrant(x) /\ x.src = v
                                          /\ x.dst = n /\ x.term = s
    <2>1. CASE s = T
      BY <1>2, <1>5, <1>8, <2>1
    <2>2. CASE s # T
      <3>1. PrefixOf(h.logs[s], h.logs[s])
        <4>1. /\ h.logs[s] \in Seq(Entry) /\ Len(h.logs[s]) \in Nat
              /\ Len(h.logs[s]) <= Len(h.logs[s])
          BY HistoryType
        <4> QED
          BY <4>1, SameSelf
      <3> QED
        BY <1>8, <2>2, <3>1
    <2> QED
      BY <2>1, <2>2
  <1>11. r'[n].kind = "Leader" => /\ g.logs[current_term'[n]] = log'[n]
                                  /\ n \in g.voters[current_term'[n]]
    BY <1>2, <1>5, <1>8
  <1>12. GoesOn(n, h, g)
    BY <1>7, <1>9, <1>10, <1>11 DEF GoesOn
  <1> QED
    BY <1>12

\* A step that moves node n forward keeps the invariant.
LEMMA ForwardCommits ==
    ASSUME TypeInv, TypeInv', VoteInv, VoteInv', ElectionInv, ElectionInv',
           NEW n \in Node, CommitInv, Forward(n), CommitForward(n)
    PROVE  CommitInv'
  <1>1. PICK h \in History : Fits(h)
    BY DEF CommitInv
  <1>2. PICK g : GoesOn(n, h, g)
    BY <1>1, HistoryGoesOn
  <1>3. Step(n, h, g)
    BY <1>1, <1>2 DEF Step, CommitInv
  <1>4. g \in History /\ Fits(g)' /\ NoPanic'
    BY <1>3, FitsStep
  <1> QED
    BY <1>4 DEF CommitInv, History
-----------------------------------------------------------------------------
(***************************************************************************)
(* Every action of a node makes such a step, provided that the answers a   *)
(* leader takes are of its own term.                                       *)
(***************************************************************************)

\* What a handler says, and that it does not panic.
LEMMA HandlerSays ==
    ASSUME TypeOK, NEW n \in Node, NEW m, NEW responses,
           rpc[n].phase # "handled", Finish(n, m, responses)
    PROVE  /\ Said' \subseteq Said \cup responses
           /\ \A p \in Node : Up(p) => Up(p)'
  <1>1. CASE FinishNow(n, m, responses)
    <2>1. /\ msgs' = msgs \cup responses /\ rpc'[n].phase = "idle"
          /\ \A p \in Node \ {n} : rpc'[p] = rpc[p]
      BY <1>1 DEF FinishNow, TypeOK, Idle
    <2>2. Outbox(n)' = {} /\ \A p \in Node \ {n} : Outbox(p)' = Outbox(p)
      BY <2>1 DEF Outbox
    <2> QED
      BY <2>1, <2>2 DEF Said, Up
  <1>2. CASE FinishLater(n, m, responses)
    <2>1. /\ msgs' = msgs /\ rpc'[n].phase = "handled"
          /\ rpc'[n].work = responses
          /\ \A p \in Node \ {n} : rpc'[p] = rpc[p]
      BY <1>2 DEF FinishLater, TypeOK
    <2>2. /\ Outbox(n)' = responses
          /\ \A p \in Node \ {n} : Outbox(p)' = Outbox(p)
      BY <2>1 DEF Outbox
    <2> QED
      BY <2>1, <2>2 DEF Said, Up
  <1> QED
    BY <1>1, <1>2 DEF Finish

\* What the other threads say.
LEMMA ThreadSays ==
    ASSUME UNCHANGED rpc
    PROVE  /\ Said' \subseteq Said \cup (msgs' \ msgs)
           /\ \A p \in Node : Up(p) => Up(p)'
  BY DEF Said, Outbox, Up

\* A role that stays, or is not that of a leader, leaves the books in order.
LEMMA BooksStay ==
    ASSUME TypeOK, NEW n \in Node, r'[n] = r[n] \/ r'[n].kind # "Leader"
    PROVE  BooksMove(n)
  <1>1. CASE r'[n].kind # "Leader"
    BY <1>1 DEF BooksMove
  <1>2. CASE r'[n] = r[n] /\ r[n].kind = "Leader"
    <2>1. r[n].next_indexes \in [Peers(n) -> Nat \ {0}]
      BY <1>2, NodeType, RoleType
    <2>2. \A p \in Peers(n) : r'[n].next_indexes[p] <= r[n].next_indexes[p]
      BY <1>2, <2>1
    <2> QED
      BY <1>2, <2>2 DEF BooksMove
  <1> QED
    BY <1>1, <1>2

\* Steps that commit nothing.
LEMMA StillCommits ==
    ASSUME TypeOK, NEW n \in Node, UNCHANGED <<commit_index, machine, replies>>,
           LogMove(n), BooksMove(n),
           \A x \in Said' : x \in Said \/ Utterance(n, x),
           \A p \in Node : Up(p) => Up(p)'
    PROVE  CommitForward(n)
  <1>1. Len(machine[n]) \in Nat
    BY NodeType
  <1>2. MachineMove(n) /\ RepliesMove(n) /\ CommitMove(n) /\ PanicMove(n)
    BY <1>1 DEF MachineMove, RepliesMove, CommitMove, PanicMove
  <1> QED
    BY <1>2 DEF CommitForward

\* An answer that is neither a vote nor a success binds to nothing.
LEMMA PlainUtterance ==
    ASSUME NEW n, NEW x,
           ~ IsRequest(x), ~ IsGrant(x), ~ IsAppend(x), ~ IsSuccess(x)
    PROVE  Utterance(n, x)
  BY DEF Utterance

\* What a leader sends of its log.
LEMMA SentUtterance ==
    ASSUME NEW n \in Node, NEW hb, NEW lg, NEW next,
           lg = log'[n], next = r'[n].next_indexes,
           commit_index'[n] = commit_index[n],
           NEW y \in replicate_log(n, lg, next, hb)
    PROVE  Utterance(n, y)
  <1>1. PICK p \in Peers(n) : y = AppendEntriesTo(n, lg, p, next[p])
    BY DEF replicate_log
  <1>2. /\ y.type = "AppendEntries" /\ y.dst = p
        /\ y.prev_log_index = next[p] - 1
        /\ y.prev_log_term = TermAt(lg, next[p] - 1)
        /\ y.entries = GetFrom(lg, next[p])
        /\ y.commit_index = commit_index[n]
    BY <1>1 DEF AppendEntriesTo
  <1> QED
    BY <1>1, <1>2 DEF Utterance, IsRequest, IsGrant, IsAppend, IsSuccess

\* Starting an election.
LEMMA BecomeCandidateCommits ==
    ASSUME TypeOK, NEW n \in Node, BecomeCandidate(n)
    PROVE  CommitForward(n)
  <1>1. /\ UNCHANGED <<commit_index, machine, replies, rpc, log>>
        /\ r'[n] = Candidate({n}) /\ current_term'[n] = current_term[n] + 1
        /\ msgs' = msgs \cup RequestVotes(n, current_term[n] + 1)
    BY DEF BecomeCandidate, clientVars, TypeOK
  <1>2. current_term[n] \in Nat
    BY NodeType
  <1>3. ASSUME NEW x \in RequestVotes(n, current_term[n] + 1)
        PROVE  Utterance(n, x)
    <2>1. /\ x.type = "RequestVote" /\ x.term = current_term[n] + 1
          /\ x.last_log_index = Len(log[n])
          /\ x.last_log_term = LastTerm(log[n])
      BY DEF RequestVotes, HighestIndex
    <2> QED
      BY <1>1, <1>2, <2>1
         DEF Utterance, IsRequest, IsGrant, IsAppend, IsSuccess
  <1>4. \A x \in Said' : x \in Said \/ Utterance(n, x)
    BY <1>1, <1>3, ThreadSays
  <1>5. \A p \in Node : Up(p) => Up(p)'
    BY <1>1, ThreadSays
  <1>6. LogMove(n) /\ BooksMove(n)
    BY <1>1, BooksStay DEF LogMove, Candidate
  <1> QED
    BY <1>1, <1>4, <1>5, <1>6, StillCommits

\* A round of the replication loop, and a client request.
LEMMA LeaderThreadsCommit ==
    ASSUME TypeOK, NEW n \in Node,
           ReplicateLog(n) \/ \E c \in Request : ClientRequest(n, c)
    PROVE  CommitForward(n)
  <1>1. /\ UNCHANGED <<commit_index, machine, replies, rpc, r>>
        /\ r[n].kind = "Leader" /\ LogMove(n)
        /\ \E hb \in BOOLEAN : \E sent :
             /\ sent = {} \/ sent = replicate_log(n, log'[n], r[n].next_indexes, hb)
             /\ msgs' = msgs \cup sent
    <2>1. CASE ReplicateLog(n)
      BY <2>1 DEF ReplicateLog, is_leader, clientVars, LogMove
    <2>2. ASSUME NEW c \in Request, ClientRequest(n, c)
          PROVE  /\ UNCHANGED <<commit_index, machine, replies, rpc, r>>
                 /\ r[n].kind = "Leader" /\ LogMove(n)
                 /\ \E hb \in BOOLEAN : \E sent :
                      /\ \/ sent = {}
                         \/ sent = replicate_log(n, log'[n],
                                                 r[n].next_indexes, hb)
                      /\ msgs' = msgs \cup sent
      <3>1. /\ UNCHANGED <<commit_index, machine, replies, rpc, r>>
            /\ is_leader(n) /\ AppendAndReplicate(n, c)
        BY <2>2 DEF ClientRequest
      <3>2. log'[n] = append(n, c)
        BY <3>1 DEF AppendAndReplicate, TypeOK
      <3>3. PICK sent \in Replications(n, append(n, c), r[n].next_indexes) :
              msgs' = msgs \cup sent
        BY <3>1 DEF AppendAndReplicate
      <3>4. \E hb \in BOOLEAN :
              sent = {} \/ sent = replicate_log(n, log'[n], r[n].next_indexes, hb)
        BY <3>2, <3>3 DEF Replications
      <3> QED
        BY <3>1, <3>2, <3>3, <3>4 DEF LogMove, is_leader
    <2> QED
      BY <2>1, <2>2
  <1>2. PICK hb \in BOOLEAN : \E sent :
          /\ sent = {} \/ sent = replicate_log(n, log'[n], r[n].next_indexes, hb)
          /\ msgs' = msgs \cup sent
    BY <1>1
  <1>3. PICK sent :
          /\ sent = {} \/ sent = replicate_log(n, log'[n], r[n].next_indexes, hb)
          /\ msgs' = msgs \cup sent
    BY <1>2
  <1>4. PICK lg, next : lg = log'[n] /\ next = r'[n].next_indexes
    OBVIOUS
  <1>5. sent = {} \/ sent = replicate_log(n, lg, next, hb)
    BY <1>1, <1>3, <1>4
  <1>6. \A y \in sent : Utterance(n, y)
    BY <1>1, <1>4, <1>5, SentUtterance
  <1>7. \A x \in Said' : x \in Said \/ Utterance(n, x)
    BY <1>1, <1>3, <1>6, ThreadSays
  <1>8. \A p \in Node : Up(p) => Up(p)'
    BY <1>1, ThreadSays
  <1>9. BooksMove(n)
    BY <1>1, BooksStay
  <1> QED
    BY <1>1, <1>7, <1>8, <1>9, StillCommits

\* The late write to disk, and its failure.
LEMMA PersistCommits ==
    ASSUME TypeOK, NEW n \in Node, Persist(n) \/ FailPersist(n)
    PROVE  CommitForward(n)
  <1>1. /\ UNCHANGED <<r, log, commit_index, machine, replies>>
        /\ rpc[n].phase = "handled" /\ rpc' = [rpc EXCEPT ![n] = Idle]
        /\ msgs' \subseteq msgs \cup rpc[n].work
    BY DEF Persist, FailPersist, clientVars
  <1>2. rpc'[n].phase = "idle" /\ \A p \in Node \ {n} : rpc'[p] = rpc[p]
    BY <1>1 DEF TypeOK, Idle
  <1>3. Outbox(n)' = {} /\ \A p \in Node \ {n} : Outbox(p)' = Outbox(p)
    BY <1>2 DEF Outbox
  <1>4. Said' \subseteq Said /\ \A p \in Node : Up(p) => Up(p)'
    BY <1>1, <1>2, <1>3 DEF Said, Outbox, Up
  <1>5. LogMove(n) /\ BooksMove(n)
    BY <1>1, BooksStay DEF LogMove
  <1> QED
    BY <1>1, <1>4, <1>5, StillCommits

\* Stepping down.
LEMMA MaybeStepDownCommits ==
    ASSUME TypeOK, NEW n \in Node, NEW m \in msgs, MaybeStepDown(n, m)
    PROVE  CommitForward(n)
  <1>1. /\ UNCHANGED <<msgs, log, commit_index, machine, replies>>
        /\ rpc'[n].phase = "stepped" /\ rpc[n].phase = "idle"
        /\ \A p \in Node \ {n} : rpc'[p] = rpc[p]
        /\ r'[n] = become_follower(n, None)
    BY DEF MaybeStepDown, TypeOK, clientVars
  <1>2. r'[n].kind = "Follower"
    BY <1>1, NodeType, BecomeFollowerType
  <1>3. \A p \in Node : Outbox(p)' = Outbox(p)
    BY <1>1 DEF Outbox
  <1>4. Said' \subseteq Said /\ \A p \in Node : Up(p) => Up(p)'
    BY <1>1, <1>3 DEF Said, Up
  <1>5. LogMove(n) /\ BooksMove(n)
    BY <1>1, <1>2, BooksStay DEF LogMove
  <1> QED
    BY <1>1, <1>4, <1>5, StillCommits

\* A handler that commits nothing and leaves the log alone.
LEMMA QuietHandlerCommits ==
    ASSUME TypeOK, NEW n \in Node, NEW m, NEW responses,
           rpc[n].phase # "handled", Finish(n, m, responses),
           UNCHANGED <<log, commit_index, machine>>, UNCHANGED clientVars,
           BooksMove(n), \A y \in responses : Utterance(n, y)
    PROVE  CommitForward(n)
  <1>1. /\ \A x \in Said' : x \in Said \/ Utterance(n, x)
        /\ \A p \in Node : Up(p) => Up(p)'
    BY HandlerSays
  <1>2. UNCHANGED <<commit_index, machine, replies>> /\ LogMove(n)
    BY DEF LogMove, clientVars
  <1> QED
    BY <1>1, <1>2, StillCommits

\* handle_vote_request: the candidate that gets the vote is up to date.
LEMMA HandleVoteRequestCommits ==
    ASSUME TypeOK, NEW n \in Node, NEW m \in msgs, HandleVoteRequest(n, m)
    PROVE  CommitForward(n)
  <1> DEFINE y == RequestVoteResponse(n, m, GrantsVote(n, m))
             responses == {y}
  <1>1. /\ rpc[n].phase # "handled" /\ m.type = "RequestVote"
    BY HandlingPhase DEF HandleVoteRequest, Handling
  <1>2. /\ UNCHANGED <<current_term, log, commit_index, machine>>
        /\ UNCHANGED clientVars /\ Finish(n, m, responses)
        /\ r'[n] = IF GrantsVote(n, m)
                   THEN [r[n] EXCEPT !.voted_for = m.src] ELSE r[n]
    BY DEF HandleVoteRequest, TypeOK
  <1>3. Utterance(n, y)
    <2>1. /\ y.type = "RequestVoteResponse" /\ y.dst = m.src
          /\ y.term = current_term[n] /\ y.vote_granted = GrantsVote(n, m)
      BY DEF RequestVoteResponse
    <2>2. GrantsVote(n, m) =>
            /\ UpToDate(m.last_log_term, m.last_log_index, log[n])
            /\ m.term >= current_term[n]
      BY DEF GrantsVote
    <2> HIDE DEF y
    <2> QED
      BY <1>1, <1>2, <2>1, <2>2
         DEF Utterance, IsRequest, IsGrant, IsAppend, IsSuccess
  <1>4. r'[n] = r[n] \/ r'[n].kind # "Leader"
    <2>1. CASE GrantsVote(n, m)
      <3>1. r[n] = Follower(r[n].leader, r[n].voted_for)
        BY <2>1, NodeType, RoleType DEF GrantsVote
      <3>2. PICK a, b : r[n] = Follower(a, b)
        BY <3>1
      <3>3. r'[n] = Follower(a, m.src)
        BY <1>2, <2>1, <3>2 DEF Follower
      <3> QED
        BY <3>3 DEF Follower
    <2>2. CASE ~ GrantsVote(n, m)
      BY <1>2, <2>2
    <2> QED
      BY <2>1, <2>2
  <1>5. BooksMove(n)
    BY <1>4, BooksStay
  <1> HIDE DEF y
  <1>6. \A x \in responses : Utterance(n, x)
    BY <1>3
  <1> HIDE DEF responses
  <1> QED
    BY <1>1, <1>2, <1>5, <1>6, QuietHandlerCommits

\* A handler that ignores its message.
LEMMA SilentHandlerCommits ==
    ASSUME TypeOK, NEW n \in Node, NEW m, rpc[n].phase # "handled",
           Finish(n, m, {}), UNCHANGED <<log, commit_index, machine, r>>,
           UNCHANGED clientVars
    PROVE  CommitForward(n)
  <1>1. PICK responses : responses = {}
    OBVIOUS
  <1>2. Finish(n, m, responses) /\ \A y \in responses : Utterance(n, y)
    BY <1>1
  <1>3. BooksMove(n)
    BY BooksStay
  <1> QED
    BY <1>2, <1>3, QuietHandlerCommits

\* handle_vote_response: a new leader opens its books.
LEMMA HandleVoteResponseCommits ==
    ASSUME TypeOK, NEW n \in Node, NEW m \in msgs, HandleVoteResponse(n, m)
    PROVE  CommitForward(n)
  <1>1. rpc[n].phase # "handled" /\ Len(log[n]) \in Nat
    BY HandlingPhase, NodeType DEF HandleVoteResponse
  <1>2. CASE CountVote(n, m)
    <2> DEFINE votes == r[n].votes \cup {m.src}
               won == WonElection(Cardinality(votes), Cardinality(Node))
               all == replicate_log(n, log[n], InitialNext(n), TRUE)
               sent == IF won THEN all ELSE {}
    <2>1. /\ r'[n] = IF won THEN NewLeader(n) ELSE Candidate(votes)
          /\ UNCHANGED <<log, commit_index, machine>> /\ UNCHANGED clientVars
          /\ Finish(n, m, sent)
      BY <1>2 DEF CountVote, TypeOK
    <2>2. CASE won
      <3>1. /\ r'[n].next_indexes = InitialNext(n)
            /\ r'[n].match_indexes = [p \in Peers(n) |-> 0]
        BY <2>1, <2>2 DEF NewLeader, Leader
      <3>2. BooksMove(n)
        <4>1. \A p \in Peers(n) :
                /\ r'[n].next_indexes[p] = Len(log'[n]) + 1
                /\ r'[n].match_indexes[p] = 0
          BY <2>1, <3>1 DEF InitialNext, HighestIndex
        <4>2. Len(log'[n]) \in Nat
          BY <1>1, <2>1
        <4> QED
          BY <4>1, <4>2 DEF BooksMove
      <3>3. PICK lg, next, hb : /\ lg = log[n] /\ next = InitialNext(n)
                                /\ hb = TRUE
        OBVIOUS
      <3>4. sent = replicate_log(n, lg, next, hb)
        BY <2>2, <3>3
      <3>5. /\ lg = log'[n] /\ next = r'[n].next_indexes
            /\ commit_index'[n] = commit_index[n]
        BY <2>1, <3>1, <3>3
      <3> HIDE DEF sent
      <3>6. \A y \in sent : Utterance(n, y)
        BY <3>4, <3>5, SentUtterance
      <3> QED
        BY <1>1, <2>1, <3>2, <3>6, QuietHandlerCommits
    <2>3. CASE ~ won
      <3>1. r'[n].kind = "Candidate" /\ \A y \in sent : Utterance(n, y)
        BY <2>1, <2>3 DEF Candidate
      <3>2. BooksMove(n)
        BY <3>1, BooksStay
      <3> HIDE DEF sent
      <3> QED
        BY <1>1, <2>1, <3>1, <3>2, QuietHandlerCommits
    <2> QED
      BY <2>2, <2>3
  <1>3. CASE IgnoreVote(n, m)
    BY <1>1, <1>3, SilentHandlerCommits DEF IgnoreVote
  <1> QED
    BY <1>2, <1>3 DEF HandleVoteResponse

\* handle_append_entries_response with a failure: the next index goes down.
LEMMA RetryAppendCommits ==
    ASSUME TypeOK, NEW n \in Node, NEW m \in msgs, rpc[n].phase # "handled",
           RetryAppend(n, m)
    PROVE  CommitForward(n)
  <1> DEFINE next == [r[n].next_indexes EXCEPT ![m.src] = DecFloored(@)]
  <1>1. /\ r'[n] = Leader(next, r[n].match_indexes) /\ r[n].kind = "Leader"
        /\ UNCHANGED <<log, commit_index, machine>> /\ UNCHANGED clientVars
    BY DEF RetryAppend, is_leader, TypeOK
  <1>2. PICK sent \in Replications(n, log[n], next) : Finish(n, m, sent)
    BY DEF RetryAppend
  <1>3. \A p \in Peers(n) : next[p] <= r[n].next_indexes[p]
    <2>1. r[n].next_indexes \in [Peers(n) -> Nat \ {0}]
      BY <1>1, NodeType, RoleType
    <2>2. \A i \in Nat \ {0} : DecFloored(i) <= i
      BY DEF DecFloored
    <2> QED
      BY <2>1, <2>2
  <1> HIDE DEF next
  <1>4. /\ r'[n].next_indexes = next
        /\ r'[n].match_indexes = r[n].match_indexes
    BY <1>1 DEF Leader
  <1>5. BooksMove(n)
    BY <1>1, <1>3, <1>4 DEF BooksMove
  <1>6. PICK lg : lg = log[n]
    OBVIOUS
  <1>7. \E hb \in BOOLEAN :
          sent = {} \/ sent = replicate_log(n, lg, next, hb)
    BY <1>2, <1>6 DEF Replications
  <1>8. PICK hb \in BOOLEAN :
          sent = {} \/ sent = replicate_log(n, lg, next, hb)
    BY <1>7
  <1>9. lg = log'[n] /\ commit_index'[n] = commit_index[n]
    BY <1>1, <1>6
  <1>10. \A y \in sent : Utterance(n, y)
    BY <1>4, <1>8, <1>9, SentUtterance
  <1> QED
    BY <1>1, <1>2, <1>5, <1>10, QuietHandlerCommits

\* Of one or two values the lower median is the least.
LEMMA LowerMedianIsLeast ==
    ASSUME NEW S, IsFiniteSet(S), S # {}, Cardinality(S) <= 2,
           NEW f \in [S -> Nat]
    PROVE  LowerMedian(f) \in Nat /\ \A p \in S : LowerMedian(f) <= f[p]
  <1> DEFINE V == {f[p] : p \in DOMAIN f}
             mid == (Cardinality(DOMAIN f) - 1) \div 2
             Below(v) == {p \in DOMAIN f : f[p] < v}
             UpTo(v) == {p \in DOMAIN f : f[p] <= v}
             Is(v) == Cardinality(Below(v)) <= mid /\ Cardinality(UpTo(v)) > mid
  <1>1. DOMAIN f = S
    OBVIOUS
  <1>2. mid = 0
    <2>1. Cardinality(S) \in Nat /\ Cardinality(S) # 0
      BY FS_CardinalityType, FS_EmptySet
    <2>2. Cardinality(S) = 1 \/ Cardinality(S) = 2
      BY <2>1
    <2>3. CASE Cardinality(S) = 1
      BY <1>1, <2>3
    <2>4. CASE Cardinality(S) = 2
      BY <1>1, <2>4
    <2> QED
      BY <2>2, <2>3, <2>4
  <1>3. V \subseteq Nat /\ V # {}
    BY <1>1
  <1>4. \A v : /\ IsFiniteSet(Below(v)) /\ IsFiniteSet(UpTo(v))
               /\ Cardinality(Below(v)) \in Nat /\ Cardinality(UpTo(v)) \in Nat
               /\ Cardinality(Below(v)) = 0 <=> Below(v) = {}
               /\ Cardinality(UpTo(v)) = 0 <=> UpTo(v) = {}
    <2>1. \A v : Below(v) \in SUBSET S /\ UpTo(v) \in SUBSET S
      BY <1>1
    <2> HIDE DEF Below, UpTo
    <2> QED
      BY <2>1, FS_Subset, FS_CardinalityType, FS_EmptySet
  <1>5. \E v \in V : Is(v)
    <2>1. PICK a \in V : \A b \in V : <<b, a>> \notin OpToRel(<, Nat)
      <3> HIDE DEF V
      <3> QED
        BY <1>3, NatLessThanWellFounded, WFMin
    <2>2. \A b \in V : ~ (b < a)
      BY <1>3, <2>1 DEF OpToRel
    <2>3. Below(a) = {} /\ UpTo(a) # {}
      <3>1. PICK q \in DOMAIN f : a = f[q]
        BY <2>1
      <3>2. a <= f[q]
        <4>1. f[q] \in Nat
          OBVIOUS
        <4> QED
          BY <3>1, <4>1
      <3>3. \A p \in DOMAIN f : ~ (f[p] < a)
        BY <2>2
      <3>4. q \in UpTo(a)
        BY <3>1, <3>2
      <3> QED
        BY <3>3, <3>4
    <2>4. Cardinality(Below(a)) <= 0 /\ Cardinality(UpTo(a)) > 0
      <3> HIDE DEF Below, UpTo
      <3> QED
        BY <1>4, <2>3
    <2> QED
      BY <1>2, <2>1, <2>4
  <1>6. LowerMedian(f) = CHOOSE v \in V : Is(v)
    BY DEF LowerMedian
  <1>7. PICK w : w = LowerMedian(f)
    OBVIOUS
  <1>8. w \in V /\ Is(w)
    <2> HIDE DEF V, Is
    <2> QED
      BY <1>5, <1>6, <1>7
  <1>9. Below(w) = {}
    <2>1. Cardinality(Below(w)) <= 0
      BY <1>2, <1>8
    <2>2. /\ Cardinality(Below(w)) \in Nat
          /\ Cardinality(Below(w)) = 0 <=> Below(w) = {}
      BY <1>4
    <2> HIDE DEF Below
    <2> QED
      BY <2>1, <2>2
  <1>10. w \in Nat /\ \A p \in S : w <= f[p]
    BY <1>1, <1>3, <1>8, <1>9
  <1> QED
    BY <1>7, <1>10

\* Applying entries adds their commands to what was applied.
LEMMA AppliedMoves ==
    ASSUME TypeOK, NEW n \in Node, NEW lg \in Seq(Entry), NEW commit \in Nat,
           NEW channels, commit >= Len(machine[n]),
           commit = Len(machine[n]) \/ commit <= Len(lg),
           lg = log'[n], commit = commit_index'[n],
           machine'[n] = Applied(n, lg, commit),
           \A y \in replies' : \/ y \in replies \/ y.kind # "ok"
                               \/ y \in OkReplies(n, lg, commit, channels)
    PROVE  MachineMove(n) /\ RepliesMove(n)
  <1> DEFINE k == commit - Len(machine[n])
             tail == [i \in 1..k |-> lg[Len(machine[n]) + i].cmd]
  <1>1. /\ k \in Nat /\ Len(machine[n]) \in Nat /\ Len(lg) \in Nat
        /\ machine[n] \in Seq(Request)
    BY NodeType, LenProperties
  <1>2. tail \in Seq(Request) /\ Len(tail) = k
    <2>1. ASSUME NEW i \in 1..k
          PROVE  lg[Len(machine[n]) + i].cmd \in Request
      <3>1. Len(machine[n]) + i \in 1..Len(lg)
        BY <1>1
      <3>2. lg[Len(machine[n]) + i] \in Entry
        BY <3>1, ElementOfSeq
      <3> QED
        BY <3>2 DEF Entry
    <2>2. tail \in [1..k -> Request]
      BY <2>1
    <2> HIDE DEF tail, k
    <2> QED
      BY <1>1, <2>2, FunctionIsSeq
  <1>3. machine'[n] = machine[n] \o tail
    BY DEF Applied
  <1>4. \A i \in 1..k : tail[i] = lg[Len(machine[n]) + i].cmd
    OBVIOUS
  <1>5. Len(machine[n]) + k = commit
    BY <1>1
  <1> HIDE DEF tail, k
  <1>6. /\ Len(machine'[n]) = Len(machine[n]) + k
        /\ \A i \in 1..(Len(machine[n]) + k) :
             machine'[n][i] = IF i <= Len(machine[n]) THEN machine[n][i]
                              ELSE tail[i - Len(machine[n])]
    <2>1. PICK a, b : a = machine[n] /\ b = tail
      OBVIOUS
    <2>2. a \in Seq(Request) /\ b \in Seq(Request)
      BY <1>1, <1>2, <2>1
    <2>3. /\ Len(a \o b) = Len(a) + Len(b)
          /\ \A i \in 1..(Len(a) + Len(b)) :
               (a \o b)[i] = IF i <= Len(a) THEN a[i] ELSE b[i - Len(a)]
      BY <2>2, ConcatProperties
    <2> QED
      BY <1>2, <1>3, <2>1, <2>3
  <1>7. \A i \in 1..Len(machine[n]) : machine'[n][i] = machine[n][i]
    BY <1>1, <1>6
  <1>8. ASSUME NEW i \in 1..Len(machine'[n]), i \notin 1..Len(machine[n])
        PROVE  machine'[n][i] = log'[n][i].cmd
    <2>1. i - Len(machine[n]) \in 1..k /\ i \in 1..(Len(machine[n]) + k)
      BY <1>1, <1>6, <1>8
    <2>2. machine'[n][i] = tail[i - Len(machine[n])]
      BY <1>1, <1>6, <1>8, <2>1
    <2>3. tail[i - Len(machine[n])] = lg[Len(machine[n]) + (i - Len(machine[n]))].cmd
      BY <1>4, <2>1
    <2>4. Len(machine[n]) + (i - Len(machine[n])) = i
      BY <1>1, <2>1
    <2> QED
      BY <2>2, <2>3, <2>4
  <1>9. MachineMove(n)
    BY <1>1, <1>6, <1>7, <1>8 DEF MachineMove
  <1>10. ASSUME NEW y \in OkReplies(n, lg, commit, channels)
         PROVE  \E i \in 1..commit_index'[n] : log'[n][i].cmd = y.cmd
    <2>1. PICK i \in (Len(machine[n]) + 1)..commit : y.cmd = lg[i].cmd
      BY DEF OkReplies
    <2>2. i \in 1..commit
      BY <1>1, <2>1
    <2> QED
      BY <2>1, <2>2
  <1>11. RepliesMove(n)
    BY <1>10 DEF RepliesMove
  <1> QED
    BY <1>9, <1>11

\* handle_append_entries.
LEMMA AcceptAppendCommits ==
    ASSUME TypeInv, TypeOK', NEW n \in Node, NEW m \in msgs, Up(n),
           IsAppend(m), m.dst = n, rpc[n].phase # "handled",
           AcceptAppend(n, m)
    PROVE  CommitForward(n)
  <1> DEFINE lg == ReplaceFrom(log[n], m.prev_log_index + 1, m.entries)
             commit == FollowerCommit(n, m, lg)
             y == AppendEntriesResponse(n, m, lg, TRUE)
             channels == callbacks[n] \ Aborted(n, m)
  <1>1. /\ m.term = current_term[n] /\ r[n].kind # "Leader" /\ PrevMatches(n, m)
        /\ r' = [r EXCEPT ![n] = RecognizeLeader(n, m)]
        /\ log' = [log EXCEPT ![n] = lg]
        /\ commit_index' = [commit_index EXCEPT ![n] = commit]
        /\ UNCHANGED current_term
        /\ IF Overtaken(n, m, lg)
           THEN /\ replies' = replies \cup AbortReplies(n, m)
                /\ Panic(n)
                /\ UNCHANGED <<msgs, machine>>
           ELSE /\ machine' = [machine EXCEPT ![n] = Applied(n, lg, commit)]
                /\ replies' = replies \cup AbortReplies(n, m)
                                      \cup OkReplies(n, lg, commit, channels)
                /\ Finish(n, m, {y})
    BY DEF AcceptAppend, is_leader
  <1>2. TypeOK /\ commit_index[n] = Len(machine[n])
    BY DEF TypeInv, AppliedIsCommitted
  <1>3. log'[n] = lg /\ commit_index'[n] = commit
    BY <1>1, <1>2 DEF TypeOK
  <1>4. \A p \in Node \ {n} : commit_index'[p] = commit_index[p]
    BY <1>1, <1>2 DEF TypeOK
  <1>5. m \in Message /\ m.src \in Node /\ m.commit_index \in Nat
    BY <1>2, MessageType DEF TypeOK, IsAppend
  <1>6. r'[n].kind = "Follower"
    <2>1. RecognizeLeader(n, m).kind = "Follower"
      BY <1>2, <1>5, NodeType, BecomeFollowerType DEF RecognizeLeader
    <2> QED
      BY <1>1, <1>2, <2>1 DEF TypeOK
  <1>7. Accepts(n, m)
    BY <1>1, <1>3, <1>6 DEF Accepts
  <1>8. LogMove(n) /\ BooksMove(n)
    BY <1>2, <1>6, <1>7, BooksStay DEF LogMove
  <1>9. CommitMove(n)
    BY <1>3, <1>7 DEF CommitMove
  <1>10. \A z \in AbortReplies(n, m) : z.kind # "ok"
    BY DEF AbortReplies
  <1>11. /\ lg \in Seq(Entry) /\ Len(lg) \in Nat /\ commit_index[n] \in Nat
         /\ Len(machine[n]) \in Nat
    BY <1>2, <1>3, BothTypes
  <1> HIDE DEF lg
  <1>12. CASE Overtaken(n, m, lg)
    <2>1. /\ UNCHANGED <<msgs, machine>> /\ Panic(n)
          /\ replies' = replies \cup AbortReplies(n, m)
      BY <1>1, <1>12
    <2>2. /\ rpc'[n].phase = "panicked"
          /\ \A p \in Node \ {n} : rpc'[p] = rpc[p]
      BY <1>2, <2>1 DEF Panic, TypeOK
    <2>3. \A p \in Node : Outbox(p)' \subseteq Outbox(p)
      BY <2>2 DEF Outbox
    <2>4. \A x \in Said' : x \in Said
      BY <2>1, <2>3 DEF Said
    <2>5. MachineMove(n) /\ RepliesMove(n)
      BY <1>10, <1>11, <2>1 DEF MachineMove, RepliesMove
    <2>6. PanicMove(n)
      BY <1>3, <1>7, <1>12 DEF PanicMove
    <2> QED
      BY <1>4, <1>8, <1>9, <2>1, <2>4, <2>5, <2>6 DEF CommitForward
  <1>13. CASE ~ Overtaken(n, m, lg)
    <2>1. /\ machine' = [machine EXCEPT ![n] = Applied(n, lg, commit)]
          /\ replies' = replies \cup AbortReplies(n, m)
                                \cup OkReplies(n, lg, commit, channels)
          /\ Finish(n, m, {y})
      BY <1>1, <1>13
    <2>2. /\ commit \in Nat /\ commit >= Len(machine[n])
          /\ commit = Len(machine[n]) \/ commit <= Len(lg)
      BY <1>2, <1>5, <1>11, <1>13 DEF Overtaken, FollowerCommit, HighestIndex
    <2>3. /\ machine'[n] = Applied(n, lg, commit)
          /\ \A p \in Node \ {n} : machine'[p] = machine[p]
      BY <1>2, <2>1 DEF TypeOK
    <2>4. \A z \in replies' : \/ z \in replies \/ z.kind # "ok"
                              \/ z \in OkReplies(n, lg, commit, channels)
      BY <1>10, <2>1
    <2> HIDE DEF commit, channels
    <2>5. MachineMove(n) /\ RepliesMove(n)
      BY <1>2, <1>3, <1>11, <2>2, <2>3, <2>4, AppliedMoves
    <2>6. Utterance(n, y)
      <3>1. /\ y.type = "AppendEntriesResponse" /\ y.term = current_term[n]
            /\ y.index = Len(lg)
        BY DEF AppendEntriesResponse, HighestIndex
      <3> HIDE DEF y
      <3> QED
        BY <1>3, <1>7, <3>1
           DEF Utterance, IsRequest, IsGrant, IsAppend, IsSuccess
    <2> HIDE DEF y
    <2>7. PICK responses : responses = {y}
      OBVIOUS
    <2>8. /\ Said' \subseteq Said \cup responses
          /\ \A p \in Node : Up(p) => Up(p)'
      BY <1>2, <2>1, <2>7, HandlerSays
    <2>9. \A x \in Said' : x \in Said \/ Utterance(n, x)
      BY <2>6, <2>7, <2>8
    <2>10. PanicMove(n)
      BY <2>8 DEF PanicMove
    <2> QED
      BY <1>4, <1>8, <1>9, <2>3, <2>5, <2>9, <2>10 DEF CommitForward
  <1> QED
    BY <1>12, <1>13

\* All cases of it.
LEMMA HandleAppendEntriesCommits ==
    ASSUME TypeInv, TypeOK', NEW n \in Node, NEW m \in msgs,
           HandleAppendEntries(n, m)
    PROVE  CommitForward(n)
  <1>1. /\ TypeOK /\ m \in Message /\ m.src \in Node /\ IsAppend(m) /\ m.dst = n
        /\ rpc[n].phase # "handled" /\ Up(n) /\ Len(machine[n]) \in Nat
    BY HandlingPhase, NodeType
       DEF TypeInv, HandleAppendEntries, IsAppend, Handling, Up
  <1> DEFINE y == AppendEntriesResponse(n, m, log[n], FALSE)
             responses == {y}
  <1>2. Utterance(n, y)
    <2>1. y.type = "AppendEntriesResponse" /\ y.success = FALSE
      BY DEF AppendEntriesResponse
    <2> HIDE DEF y
    <2> QED
      BY <2>1, PlainUtterance DEF IsRequest, IsGrant, IsAppend, IsSuccess
  <1> HIDE DEF y
  <1>3. \A x \in responses : Utterance(n, x)
    BY <1>2
  <1>4. CASE StaleAppend(n, m)
    <2>1. /\ UNCHANGED <<log, commit_index, machine, r>>
          /\ UNCHANGED clientVars /\ Finish(n, m, responses)
      BY <1>4 DEF StaleAppend, y
    <2>2. BooksMove(n)
      BY <1>1, <2>1, BooksStay
    <2> HIDE DEF responses
    <2> QED
      BY <1>1, <1>3, <2>1, <2>2, QuietHandlerCommits
  <1>5. CASE RejectAppend(n, m)
    <2>1. /\ UNCHANGED <<log, commit_index, machine>>
          /\ r'[n] = RecognizeLeader(n, m)
          /\ UNCHANGED clientVars /\ Finish(n, m, responses)
      BY <1>1, <1>5 DEF RejectAppend, y, TypeOK
    <2>2. RecognizeLeader(n, m).kind = "Follower"
      BY <1>1, NodeType, BecomeFollowerType DEF RecognizeLeader
    <2>3. BooksMove(n)
      BY <1>1, <2>1, <2>2, BooksStay
    <2> HIDE DEF responses
    <2> QED
      BY <1>1, <1>3, <2>1, <2>3, QuietHandlerCommits
  <1>6. CASE SecondLeader(n, m)
    <2>1. /\ UNCHANGED <<msgs, log, commit_index, machine, r, replies>>
          /\ rpc'[n].phase = "panicked"
          /\ \A p \in Node \ {n} : rpc'[p] = rpc[p]
      BY <1>1, <1>6 DEF SecondLeader, Panic, TypeOK, clientVars
    <2>2. \A p \in Node : Outbox(p)' \subseteq Outbox(p)
      BY <2>1 DEF Outbox
    <2>3. \A x \in Said' : x \in Said
      BY <2>1, <2>2 DEF Said
    <2>4. LogMove(n) /\ BooksMove(n) /\ CommitMove(n)
      BY <1>1, <2>1, BooksStay DEF LogMove, CommitMove
    <2>5. MachineMove(n) /\ RepliesMove(n)
      BY <1>1, <2>1 DEF MachineMove, RepliesMove
    <2>6. PanicMove(n)
      BY <1>1, <1>6 DEF PanicMove, NoSecondLeader, SecondLeader, is_leader,
                        IsAppend
    <2> QED
      BY <2>1, <2>3, <2>4, <2>5, <2>6 DEF CommitForward
  <1>7. CASE AcceptAppend(n, m)
    BY <1>1, <1>7, AcceptAppendCommits
  <1> QED
    BY <1>4, <1>5, <1>6, <1>7 DEF HandleAppendEntries

\* A leader takes the answers of its own term only.
AnswersAreCurrent ==
    \A n \in Node : \A m \in msgs :
        HandleAppendEntriesResponse(n, m) /\ is_leader(n) /\ m.success
            => m.term = current_term[n]

\* handle_append_entries_response with a success: in a cluster of two or
\* three a leader commits only what all its peers have answered for.
LEMMA AdvanceMatchCommits ==
    ASSUME TypeInv, TypeOK', NEW n \in Node, NEW m \in msgs, Up(n),
           m.type = "AppendEntriesResponse", m.term = current_term[n],
           rpc[n].phase # "handled", AdvanceMatch(n, m),
           Cardinality(Node) <= 3
    PROVE  CommitForward(n)
  <1> DEFINE next == [r[n].next_indexes EXCEPT ![m.src] = m.index + 1]
             match == [r[n].match_indexes EXCEPT ![m.src] = m.index]
             commit == LeaderCommit(n, match)
  <1>1. /\ r' = [r EXCEPT ![n] = Leader(next, match)]
        /\ commit_index' = [commit_index EXCEPT ![n] = commit]
        /\ machine' = [machine EXCEPT ![n] = Applied(n, log[n], commit)]
        /\ replies' = replies \cup OkReplies(n, log[n], commit, callbacks[n])
        /\ UNCHANGED <<current_term, log>> /\ Finish(n, m, {})
        /\ is_leader(n) /\ r[n].kind = "Leader" /\ m.success /\ m.index > 0
    BY DEF AdvanceMatch, is_leader
  <1>2. /\ TypeOK /\ commit_index[n] = Len(machine[n])
        /\ current_term[n] \in Nat /\ current_term[n] > 0
        /\ log[n] \in Seq(Entry) /\ Len(log[n]) \in Nat
        /\ commit_index[n] \in Nat
    <2>1. TypeOK
      BY DEF TypeInv
    <2> QED
      BY <1>1, <2>1, NodeType DEF TypeInv, AppliedIsCommitted, LeadingTerm
  <1>3. m \in Message /\ m.index \in Nat
    BY <1>2, MessageType DEF TypeOK
  <1>4. /\ r[n].next_indexes \in [Peers(n) -> Nat \ {0}]
        /\ r[n].match_indexes \in [Peers(n) -> Nat]
    BY <1>1, <1>2, NodeType, RoleType
  <1>5. match \in [Peers(n) -> Nat]
    BY <1>3, <1>4
  <1>6. \A p \in Peers(n) :
          /\ next[p] = r[n].next_indexes[p] \/ (p = m.src /\ next[p] = m.index + 1)
          /\ match[p] = r[n].match_indexes[p] \/ (p = m.src /\ match[p] = m.index)
    BY <1>4
  <1> HIDE DEF next, match
  <1>7. /\ r'[n].kind = "Leader" /\ r'[n].next_indexes = next
        /\ r'[n].match_indexes = match
    <2>1. r'[n] = Leader(next, match)
      BY <1>1, <1>2 DEF TypeOK
    <2> QED
      BY <2>1 DEF Leader
  <1>8. /\ commit_index'[n] = commit /\ machine'[n] = Applied(n, log[n], commit)
        /\ \A p \in Node \ {n} : /\ commit_index'[p] = commit_index[p]
                                 /\ machine'[p] = machine[p]
    BY <1>1, <1>2 DEF TypeOK
  <1>9. Answered(m.src, current_term[n], m.index)
    <2>1. m.index <= m.index
      BY <1>3
    <2> QED
      BY <1>1, <2>1 DEF Answered, IsSuccess
  <1>10. BooksMove(n)
    <2>1. ASSUME NEW p \in Peers(n)
          PROVE  /\ \/ next[p] <= r[n].next_indexes[p]
                    \/ Answered(p, current_term[n], next[p] - 1)
                 /\ \/ match[p] = r[n].match_indexes[p]
                    \/ Answered(p, current_term[n], match[p])
      <3>1. next[p] = r[n].next_indexes[p] => next[p] <= r[n].next_indexes[p]
        <4>1. r[n].next_indexes[p] \in Nat
          BY <1>4
        <4> QED
          BY <4>1
      <3>2. m.index + 1 - 1 = m.index
        BY <1>3
      <3>3. p = m.src /\ next[p] = m.index + 1
              => Answered(p, current_term[n], next[p] - 1)
        <4>1. p = m.src /\ next[p] = m.index + 1 => next[p] - 1 = m.index
          BY <1>3
        <4> QED
          BY <1>9, <4>1
      <3>4. p = m.src /\ match[p] = m.index
              => Answered(p, current_term[n], match[p])
        BY <1>9
      <3> QED
        BY <1>6, <3>1, <3>3, <3>4
    <2> QED
      BY <1>1, <1>7, <2>1 DEF BooksMove
  <1>11. CommitMove(n)
    <2>1. CASE commit = commit_index[n]
      BY <1>8, <2>1 DEF CommitMove
    <2>2. CASE commit # commit_index[n]
      <3>1. /\ commit = LowerMedian(match)
            /\ TermAt(log[n], commit) = current_term[n]
            /\ commit > commit_index[n]
        BY <2>2 DEF LeaderCommit
      <3>2. Holds(log[n], commit, current_term[n])
        BY <1>2, <3>1 DEF TermAt, Holds
      <3>3. /\ IsFiniteSet(Peers(n)) /\ Peers(n) # {}
            /\ Cardinality(Peers(n)) <= 2
        <4>1. /\ IsFiniteSet(Node \ {n})
              /\ Cardinality(Node \ {n}) = Cardinality(Node) - 1
          BY NodeAssumption, FS_RemoveElement
        <4>2. Cardinality(Node) \in Nat /\ Cardinality(Node) > 1
          BY NodeAssumption, FS_CardinalityType
        <4>3. Cardinality(Node \ {n}) <= 2 /\ Cardinality(Node \ {n}) # 0
          BY <4>1, <4>2
        <4> QED
          BY <4>1, <4>3, FS_EmptySet DEF Peers
      <3>4. LowerMedian(match) \in Nat
            /\ \A p \in Peers(n) : LowerMedian(match) <= match[p]
        BY <1>5, <3>3, LowerMedianIsLeast
      <3>5. \A p \in Peers(n) : match[p] >= commit
        BY <1>5, <3>1, <3>4
      <3> HIDE DEF commit
      <3> QED
        BY <1>1, <1>7, <1>8, <3>1, <3>2, <3>5 DEF CommitMove
    <2> QED
      BY <2>1, <2>2
  <1>12. MachineMove(n) /\ RepliesMove(n)
    <2>1. /\ commit \in Nat /\ commit >= Len(machine[n])
          /\ commit = Len(machine[n]) \/ commit <= Len(log[n])
      BY <1>1, <1>2, LeaderCommitType
    <2>2. PICK lg, channels : lg = log[n] /\ channels = callbacks[n]
      OBVIOUS
    <2> HIDE DEF commit
    <2>3. commit <= Len(lg) \/ commit = Len(machine[n])
      BY <2>1, <2>2
    <2>4. lg \in Seq(Entry) /\ lg = log'[n]
      BY <1>1, <1>2, <2>2
    <2>5. /\ commit = commit_index'[n] /\ machine'[n] = Applied(n, lg, commit)
          /\ \A y \in replies' : \/ y \in replies \/ y.kind # "ok"
                                 \/ y \in OkReplies(n, lg, commit, channels)
      BY <1>1, <1>8, <2>2
    <2> QED
      BY <1>2, <2>1, <2>3, <2>4, <2>5, AppliedMoves
  <1>13. PICK responses : responses = {}
    OBVIOUS
  <1>14. /\ Said' \subseteq Said \cup responses
         /\ \A p \in Node : Up(p) => Up(p)'
    BY <1>1, <1>2, <1>13, HandlerSays
  <1>15. LogMove(n) /\ PanicMove(n) /\ \A x \in Said' : x \in Said
    BY <1>1, <1>13, <1>14 DEF LogMove, PanicMove
  <1> QED
    BY <1>8, <1>10, <1>11, <1>12, <1>15 DEF CommitForward

\* All cases of it.
LEMMA HandleAppendEntriesResponseCommits ==
    ASSUME TypeInv, TypeOK', NEW n \in Node, NEW m \in msgs,
           HandleAppendEntriesResponse(n, m), AnswersAreCurrent,
           Cardinality(Node) <= 3
    PROVE  CommitForward(n)
  <1>1. /\ TypeOK /\ rpc[n].phase # "handled" /\ Up(n)
        /\ m.type = "AppendEntriesResponse"
    BY HandlingPhase
       DEF TypeInv, HandleAppendEntriesResponse, Handling, Up
  <1>2. CASE RetryAppend(n, m)
    BY <1>1, <1>2, RetryAppendCommits
  <1>3. CASE AdvanceMatch(n, m)
    <2>1. m.term = current_term[n]
      BY <1>3 DEF AnswersAreCurrent, AdvanceMatch
    <2> QED
      BY <1>1, <1>3, <2>1, AdvanceMatchCommits
  <1>4. CASE IgnoreAppendResponse(n, m)
    BY <1>1, <1>4, SilentHandlerCommits DEF IgnoreAppendResponse
  <1> QED
    BY <1>2, <1>3, <1>4 DEF HandleAppendEntriesResponse

\* A step that changes nothing is such a step, too.
LEMMA StutterCommits ==
    ASSUME TypeOK, NEW n \in Node, UNCHANGED vars
    PROVE  Forward(n) /\ CommitForward(n)
  <1>1. /\ UNCHANGED <<msgs, current_term, r, rpc, disk, log, commit_index,
                       machine, replies>>
        /\ r[n].kind \in {"Follower", "Candidate", "Leader"}
    BY NodeType, RoleType DEF vars
  <1>2. Said' = Said /\ \A p \in Node : Up(p) => Up(p)'
    BY <1>1 DEF Said, Outbox, Up
  <1>3. MemoryForward /\ DiskForward
    BY <1>1, StillForward DEF DiskForward
  <1>4. HintForward(n)
    BY <1>1 DEF HintForward, Hint
  <1>5. Forward(n)
    BY <1>1, <1>2, <1>3, <1>4 DEF Forward
  <1>6. LogMove(n) /\ BooksMove(n)
    BY <1>1, BooksStay DEF LogMove
  <1>7. CommitForward(n)
    BY <1>1, <1>2, <1>6, StillCommits
  <1> QED
    BY <1>5, <1>7

\* So is every other step of a cluster of two or three nodes in which nothing
\* crashes and no client thread appends late.
LEMMA NextMoves ==
    ASSUME Cardinality(Node) <= 3, MaxCrashes = 0, MaxLateAppends = 0,
           TypeInv, TypeInv', VoteInv, ElectionInv, NothingPending,
           [Next]_vars, [AnswersAreCurrent]_vars
    PROVE  \E n \in Node : Forward(n) /\ CommitForward(n)
  <1>1. TypeOK /\ TypeOK'
    BY DEF TypeInv
  <1>2. CASE UNCHANGED vars
    <2>1. Node # {}
      BY NodeAssumption, FS_EmptySet
    <2> QED
      BY <1>1, <1>2, <2>1, StutterCommits
  <1>3. CASE Next /\ AnswersAreCurrent
    <2>1. PICK n \in Node :
            \/ BecomeCandidate(n)
            \/ ReplicateLog(n)
            \/ \E m \in msgs : Receive(n, m)
            \/ Persist(n)
            \/ FailPersist(n)
            \/ \E c \in Request : ClientRequest(n, c)
                                \/ ClientCheck(n, c)
                                \/ ClientAppend(n, c)
            \/ Crash(n)
      BY <1>3 DEF Next
    <2>2. ~ Crash(n) /\ \A c \in Request : ~ ClientCheck(n, c) /\ ~ ClientAppend(n, c)
      <3>1. events.crashes \in Nat /\ events.late_appends \in Nat
        BY <1>1 DEF TypeOK
      <3> QED
        BY <3>1 DEF Crash, ClientCheck, ClientAppend, NothingPending
    <2>3. CASE BecomeCandidate(n)
      BY <1>1, <2>3, BecomeCandidateForward, BecomeCandidateCommits
         DEF MovesForward
    <2>4. CASE ReplicateLog(n) \/ \E c \in Request : ClientRequest(n, c)
      <3>1. MovesForward(n)
        BY <1>1, <2>4, OtherThreadsForward
      <3>2. CommitForward(n)
        BY <1>1, <2>4, LeaderThreadsCommit
      <3> QED
        BY <3>1, <3>2 DEF MovesForward
    <2>5. CASE Persist(n) \/ FailPersist(n)
      BY <1>1, <2>5, PersistForward, PersistCommits DEF MovesForward
    <2>6. ASSUME NEW m \in msgs, Receive(n, m)
          PROVE  Forward(n) /\ CommitForward(n)
      <3>1. MovesForward(n)
        BY <1>1, <2>6, MaybeStepDownForward, HandleVoteRequestForward,
           HandleVoteResponseForward, HandleAppendEntriesForward,
           HandleAppendEntriesResponseForward DEF Receive
      <3>2. CommitForward(n)
        BY <1>1, <1>3, <2>6, MaybeStepDownCommits, HandleVoteRequestCommits,
           HandleVoteResponseCommits, HandleAppendEntriesCommits,
           HandleAppendEntriesResponseCommits DEF Receive
      <3> QED
        BY <3>1, <3>2 DEF MovesForward
    <2> QED
      BY <2>1, <2>2, <2>3, <2>4, <2>5, <2>6
  <1> QED
    BY <1>2, <1>3

\* Every step preserves the invariant.
LEMMA NextCommits ==
    ASSUME Cardinality(Node) <= 3, MaxCrashes = 0, MaxLateAppends = 0
    PROVE  TypeInv /\ TypeInv' /\ VoteInv /\ VoteInv' /\ ElectionInv
             /\ ElectionInv' /\ NothingPending /\ CommitInv /\ [Next]_vars
             /\ [AnswersAreCurrent]_vars => CommitInv'
  BY NextMoves, ForwardCommits

\* At first the history is empty.
LEMMA InitHistory ==
    ASSUME Init
    PROVE  /\ NoPanic
           /\ \E h \in History : Fits(h) /\ \A s \in Nat : h.logs[s] = <<>>
  <1> DEFINE h == [logs |-> [s \in Nat |-> <<>>], base |-> [s \in Nat |-> 0],
                   voters |-> [s \in Nat |-> {}], acks |-> {}]
  <1>1. /\ Said = {} /\ replies = {} /\ NoPanic
        /\ \A n \in Node : /\ log[n] = <<>> /\ commit_index[n] = 0
                           /\ machine[n] = <<>> /\ ~ is_leader(n)
    BY DEF Init, Said, Outbox, Idle, NoPanic, Up, is_leader, Follower
  <1>2. <<>> \in Seq(Entry) /\ Len(<<>>) = 0 /\ 1..0 = {}
    BY EmptySeq
  <1>3. h \in History
    BY <1>2 DEF History
  <1>4. /\ h.acks = {}
        /\ \A s \in Nat : /\ h.logs[s] = <<>> /\ h.base[s] = 0
                          /\ h.voters[s] = {}
    OBVIOUS
  <1> HIDE DEF h
  <1>5. \A k, t : ~ Holds(<<>>, k, t)
    BY <1>2 DEF Holds
  <1>6. Traced(h, <<>>) /\ \A t : TermsUpTo(<<>>, t)
    BY <1>2 DEF Traced, TermsUpTo
  <1>7. LogsFit(h) /\ TermsFit(h) /\ VotersFit(h)
    BY <1>1, <1>2, <1>4, <1>6 DEF LogsFit, TermsFit, VotersFit
  <1>8. AppendsFit(h) /\ ResponsesFit(h) /\ RequestsFit /\ GrantsFit(h)
    BY <1>1 DEF AppendsFit, ResponsesFit, RequestsFit, GrantsFit
  <1>9. AcksFit(h) /\ LeadersHave(h)
    BY <1>1, <1>4, <1>5 DEF AcksFit, LeadersHave
  <1>10. BooksFit /\ CommitsFit(h) /\ MachinesFit /\ RepliesFit(h)
    BY <1>1, <1>2 DEF BooksFit, CommitsFit, MachinesFit, RepliesFit
  <1>11. Fits(h)
    BY <1>7, <1>8, <1>9, <1>10 DEF Fits
  <1> QED
    BY <1>1, <1>3, <1>4, <1>11

LEMMA InitCommits == Init => CommitInv
  BY InitHistory DEF CommitInv
-----------------------------------------------------------------------------
(***************************************************************************)
(* Answers are of the term of the leader that takes them, if no node       *)
(* handles a message of a term that has passed: the RPC thread has stepped *)
(* down for a message of a later one, and a node does not become a leader  *)
(* before it has handled it.                                               *)
(***************************************************************************)
SteppedFollows ==
    \A n \in Node : rpc[n].phase = "stepped" => r[n].kind # "Leader"

\* What a handler leaves behind is not the phase "stepped".
LEMMA FinishStepped ==
    ASSUME TypeOK, SteppedFollows, NEW n \in Node, NEW m, NEW responses,
           Finish(n, m, responses), \A p \in Node \ {n} : r'[p] = r[p]
    PROVE  SteppedFollows'
  <1>1. /\ rpc'[n].phase # "stepped"
        /\ \A p \in Node \ {n} : rpc'[p] = rpc[p]
    BY DEF Finish, FinishNow, FinishLater, TypeOK, Idle
  <1> QED
    BY <1>1 DEF SteppedFollows

\* Every step preserves it.
LEMMA NextStepped ==
    TypeOK /\ SteppedFollows /\ [Next]_vars => SteppedFollows'
  <1> SUFFICES ASSUME TypeOK, SteppedFollows, [Next]_vars
               PROVE  SteppedFollows'
    OBVIOUS
  <1>1. CASE UNCHANGED <<rpc, r>>
    BY <1>1 DEF SteppedFollows
  <1>2. ASSUME NEW n \in Node, BecomeCandidate(n) PROVE SteppedFollows'
    <2>1. /\ rpc' = rpc /\ r'[n].kind = "Candidate"
          /\ \A p \in Node \ {n} : r'[p] = r[p]
      BY <1>2 DEF BecomeCandidate, Candidate, TypeOK
    <2> QED
      BY <2>1 DEF SteppedFollows
  <1>3. ASSUME NEW n \in Node, Persist(n) \/ FailPersist(n) \/ Crash(n)
        PROVE  SteppedFollows'
    <2>1. /\ rpc'[n].phase = "idle"
          /\ \A p \in Node \ {n} : rpc'[p] = rpc[p] /\ r'[p] = r[p]
      BY <1>3 DEF Persist, FailPersist, Crash, TypeOK, Idle
    <2> QED
      BY <2>1 DEF SteppedFollows
  <1>4. ASSUME NEW n \in Node, NEW m \in msgs, Receive(n, m)
        PROVE  SteppedFollows'
    <2>1. CASE MaybeStepDown(n, m)
      <3>1. /\ r'[n] = become_follower(n, None)
            /\ \A p \in Node \ {n} : rpc'[p] = rpc[p] /\ r'[p] = r[p]
        BY <2>1 DEF MaybeStepDown, TypeOK
      <3>2. r'[n].kind = "Follower"
        BY <3>1, NodeType, BecomeFollowerType
      <3> QED
        BY <3>1, <3>2 DEF SteppedFollows
    <2>2. CASE SecondLeader(n, m) \/ (AcceptAppend(n, m) /\ Panic(n))
      <3>1. /\ rpc'[n].phase = "panicked"
            /\ \A p \in Node \ {n} : rpc'[p] = rpc[p] /\ r'[p] = r[p]
        BY <2>2 DEF SecondLeader, AcceptAppend, Panic, TypeOK
      <3> QED
        BY <3>1 DEF SteppedFollows
    <2>3. ASSUME NEW responses, Finish(n, m, responses), NEW x,
                 r' = [r EXCEPT ![n] = x] \/ r' = r
          PROVE  SteppedFollows'
      <3>1. \A p \in Node \ {n} : r'[p] = r[p]
        BY <2>3 DEF TypeOK
      <3> QED
        BY <2>3, <3>1, FinishStepped
    <2>4. CASE HandleVoteRequest(n, m)
      BY <2>3, <2>4 DEF HandleVoteRequest
    <2>5. CASE HandleVoteResponse(n, m)
      BY <2>3, <2>5 DEF HandleVoteResponse, CountVote, IgnoreVote
    <2>6. CASE HandleAppendEntriesResponse(n, m)
      BY <2>3, <2>6 DEF HandleAppendEntriesResponse, RetryAppend,
                        AdvanceMatch, IgnoreAppendResponse
    <2>7. CASE HandleAppendEntries(n, m)
      BY <2>2, <2>3, <2>7 DEF HandleAppendEntries, StaleAppend, RejectAppend,
                              AcceptAppend
    <2> QED
      BY <1>4, <2>1, <2>4, <2>5, <2>6, <2>7 DEF Receive
  <1>5. ASSUME NEW n \in Node,
               \/ ReplicateLog(n)
               \/ \E c \in Request : ClientRequest(n, c)
                                   \/ ClientCheck(n, c)
                                   \/ ClientAppend(n, c)
        PROVE  UNCHANGED <<rpc, r>>
    BY <1>5 DEF ReplicateLog, ClientRequest, ClientCheck, ClientAppend
  <1> QED
    BY <1>1, <1>2, <1>3, <1>4, <1>5 DEF Next, vars

\* handle_append_entries_response takes an answer of an earlier term only
\* when a node handles a message of a term that has passed.
THEOREM PromptAnswersAreCurrent ==
    ASSUME MaxStale = 0
    PROVE  Spec => [][AnswersAreCurrent]_vars
  <1>1. Init => SteppedFollows
    BY DEF Init, SteppedFollows, Idle
  <1>2. TypeOK /\ SteppedFollows => AnswersAreCurrent
    <2> SUFFICES ASSUME TypeOK, SteppedFollows, NEW n \in Node, NEW m \in msgs,
                        HandleAppendEntriesResponse(n, m), is_leader(n)
                 PROVE  m.term = current_term[n]
      BY DEF AnswersAreCurrent
    <2>1. rpc[n].phase # "stepped"
      BY DEF SteppedFollows, is_leader
    <2>2. /\ rpc[n].phase = "idle" /\ m.term <= current_term[n]
          /\ Stale(n, m) => events.stale < MaxStale
      BY <2>1 DEF HandleAppendEntriesResponse, Handling
    <2>3. events.stale \in Nat /\ m \in Message /\ current_term[n] \in Nat
      BY DEF TypeOK
    <2>4. m.term \in Nat
      BY <2>3, MessageType
    <2> QED
      BY <2>2, <2>3, <2>4 DEF Stale
  <1>3. TypeInv => TypeOK
    BY DEF TypeInv
  <1> QED
    BY <1>1, <1>2, <1>3, InitType, NextType, NextStepped, PTL DEF Spec
-----------------------------------------------------------------------------
(***************************************************************************)
(* What the invariant is for.                                              *)
(***************************************************************************)

\* Entries that are chosen are in one order: the logs of their terms are the
\* same up to the earlier one.
LEMMA ChosenAgree ==
    ASSUME NEW h \in History, Fits(h), NEW k \in Nat, NEW t \in Nat,
           Chosen(h, k, t), NEW j \in Nat, NEW u \in Nat, Chosen(h, j, u),
           NEW c \in Nat, c <= k, c <= j
    PROVE  SameUpTo(h.logs[t], h.logs[u], c)
  <1>1. LogsFit(h) /\ LeadersHave(h) /\ TermsFit(h)
    BY DEF Fits
  <1>2. /\ h.logs[t] \in Seq(Entry) /\ h.logs[u] \in Seq(Entry)
    BY HistoryType
  <1>3. h.voters[t] # {} /\ h.voters[u] # {}
    <2>1. Holds(h.logs[t], k, t) /\ Holds(h.logs[u], j, u)
      BY DEF Chosen
    <2>2. h.logs[t] # <<>> /\ h.logs[u] # <<>>
      <3>1. Len(h.logs[t]) > 0 /\ Len(h.logs[u]) > 0
        BY <1>2, <2>1, HoldsType
      <3>2. Len(<<>>) = 0
        BY EmptySeq
      <3> QED
        BY <3>1, <3>2
    <2> QED
      BY <1>1, <2>2 DEF TermsFit
  <1>4. CASE t <= u
    <2>1. SameUpTo(h.logs[u], h.logs[t], k)
      BY <1>1, <1>3, <1>4, ChosenInLater
    <2> QED
      BY <1>2, <2>1, SameSym, SameBelow
  <1>5. CASE u <= t
    <2>1. SameUpTo(h.logs[t], h.logs[u], j)
      BY <1>1, <1>3, <1>5, ChosenInLater
    <2> QED
      BY <1>2, <2>1, SameBelow
  <1> QED
    BY <1>4, <1>5

\* Two nodes have the same log up to where both have committed.
LEMMA CommitsAgree ==
    ASSUME TypeOK, NEW h \in History, Fits(h), NEW n1 \in Node, NEW n2 \in Node,
           commit_index[n1] <= commit_index[n2]
    PROVE  SameUpTo(log[n1], log[n2], commit_index[n1])
  <1>1. /\ commit_index[n1] \in Nat /\ commit_index[n2] \in Nat
        /\ log[n1] \in Seq(Entry) /\ log[n2] \in Seq(Entry)
        /\ Len(log[n1]) \in Nat /\ Len(log[n2]) \in Nat
    BY NodeType
  <1>2. CASE commit_index[n1] = 0
    BY <1>1, <1>2 DEF SameUpTo
  <1>3. CASE commit_index[n1] # 0
    <2>1. PICK c, d : c = commit_index[n1] /\ d = commit_index[n2]
      OBVIOUS
    <2>2. c \in Nat /\ d \in Nat /\ c <= d /\ c # 0 /\ d # 0
      BY <1>1, <1>3, <2>1
    <2>3. PICK k, t \in Nat : /\ Chosen(h, k, t) /\ c <= k
                              /\ SameUpTo(log[n1], h.logs[t], c)
      BY <2>1, <2>2 DEF Fits, CommitsFit
    <2>4. PICK j, u \in Nat : /\ Chosen(h, j, u) /\ d <= j
                              /\ SameUpTo(log[n2], h.logs[u], d)
      BY <2>1, <2>2 DEF Fits, CommitsFit
    <2>5. /\ h.logs[t] \in Seq(Entry) /\ h.logs[u] \in Seq(Entry)
          /\ c <= j /\ c <= c
      BY <2>2, <2>4, HistoryType
    <2>6. SameUpTo(h.logs[t], h.logs[u], c)
      BY <2>2, <2>3, <2>4, <2>5, ChosenAgree
    <2>7. SameUpTo(log[n1], h.logs[u], c)
      BY <1>1, <2>2, <2>3, <2>5, <2>6, SameTrans
    <2>8. SameUpTo(h.logs[u], log[n2], d)
      BY <2>4, SameSym
    <2>9. SameUpTo(log[n1], log[n2], c)
      BY <1>1, <2>2, <2>5, <2>7, <2>8, SameTrans
    <2> QED
      BY <2>1, <2>9
  <1> QED
    BY <1>2, <1>3

\* A sequence of commands that continues another one.
LEMMA ContinuesIs ==
    ASSUME NEW a \in Seq(Request), NEW b \in Seq(Request), Len(a) <= Len(b),
           \A i \in 1..Len(a) : a[i] = b[i]
    PROVE  a = SubSeq(b, 1, Len(a))
  <1>1. Len(a) \in Nat /\ Len(b) \in Nat
    BY LenProperties
  <1>2. /\ \A j \in 1..Len(a) : b[j] \in Request
        /\ \A j \in 1..Len(a) : 1 + j - 1 = j
    <2>1. \A j \in 1..Len(a) : j \in 1..Len(b)
      BY <1>1
    <2> QED
      BY <1>1, <2>1, ElementOfSeq
  <1>3. /\ SubSeq(b, 1, Len(a)) \in Seq(Request)
        /\ Len(SubSeq(b, 1, Len(a))) = Len(a)
        /\ \A j \in 1..Len(a) : SubSeq(b, 1, Len(a))[j] = b[j]
    BY <1>1, <1>2, SubSeqProperties
  <1> QED
    BY <1>3, SeqEqual

\* Machines agree, and leaders have what was applied.
LEMMA CommitInvSafe ==
    TypeInv /\ CommitInv => StateMachineSafety /\ LeaderCompleteness
  <1> SUFFICES ASSUME TypeInv, CommitInv
               PROVE  StateMachineSafety /\ LeaderCompleteness
    OBVIOUS
  <1>1. PICK h \in History : Fits(h)
    BY DEF CommitInv
  <1>2. /\ TypeOK /\ MachinesFit
        /\ \A n \in Node : commit_index[n] = Len(machine[n])
    BY <1>1 DEF TypeInv, AppliedIsCommitted, CommitInv, NoPanic, Fits
  <1>3. ASSUME NEW n1 \in Node, NEW n2 \in Node,
               Len(machine[n1]) <= Len(machine[n2])
        PROVE  machine[n1] = SubSeq(machine[n2], 1, Len(machine[n1]))
    <2>1. SameUpTo(log[n1], log[n2], Len(machine[n1]))
      <3>1. commit_index[n1] <= commit_index[n2]
        BY <1>2, <1>3
      <3>2. SameUpTo(log[n1], log[n2], commit_index[n1])
        BY <1>1, <1>2, <3>1, CommitsAgree
      <3> QED
        BY <1>2, <3>2
    <2>2. /\ machine[n1] \in Seq(Request) /\ machine[n2] \in Seq(Request)
          /\ Len(machine[n1]) \in Nat /\ Len(machine[n2]) \in Nat
      BY <1>2, NodeType
    <2>3. ASSUME NEW i \in 1..Len(machine[n1])
          PROVE  machine[n1][i] = machine[n2][i]
      <3>1. i \in 1..Len(machine[n2])
        BY <1>3, <2>2
      <3>2. log[n1][i] = log[n2][i]
        BY <2>1 DEF SameUpTo
      <3> QED
        BY <1>2, <3>1, <3>2 DEF MachinesFit
    <2> QED
      BY <1>3, <2>2, <2>3, ContinuesIs
  <1>4. ASSUME NEW n \in Node, NEW p \in Node, is_leader(n),
               current_term[p] <= current_term[n]
        PROVE  /\ Len(machine[p]) <= Len(log[n])
               /\ \A i \in 1..Len(machine[p]) : log[n][i].cmd = machine[p][i]
    <2>1. PICK c : c = Len(machine[p]) /\ c = commit_index[p]
      BY <1>2
    <2>2. /\ c \in Nat /\ Len(log[n]) \in Nat /\ log[n] \in Seq(Entry)
          /\ current_term[n] \in Nat /\ current_term[p] \in Nat
      BY <1>2, <2>1, NodeType
    <2>3. CASE c = 0
      BY <2>1, <2>2, <2>3
    <2>4. CASE c # 0
      <3>1. PICK k, t \in Nat :
              /\ Chosen(h, k, t) /\ t <= current_term[p] /\ c <= k
              /\ SameUpTo(log[p], h.logs[t], c)
        BY <1>1, <2>1, <2>4 DEF Fits, CommitsFit
      <3>2. /\ log[n] = h.logs[current_term[n]]
            /\ h.voters[current_term[n]] # {}
        BY <1>1, <1>4 DEF Fits, LogsFit, TermsFit
      <3>3. SameUpTo(log[n], h.logs[t], k)
        <4>1. t <= current_term[n]
          BY <1>4, <2>2, <3>1
        <4>2. SameUpTo(h.logs[current_term[n]], h.logs[t], k)
          BY <1>1, <2>2, <3>1, <3>2, <4>1, ChosenInLater DEF Fits
        <4> QED
          BY <3>2, <4>2
      <3>4. c <= Len(log[n])
        BY <2>2, <3>1, <3>3 DEF SameUpTo
      <3>5. ASSUME NEW i \in 1..c PROVE log[n][i] = log[p][i]
        <4>1. i \in 1..k
          BY <2>2, <3>1
        <4> QED
          BY <3>1, <3>3, <4>1 DEF SameUpTo
      <3> QED
        BY <1>2, <2>1, <3>4, <3>5 DEF MachinesFit
    <2> QED
      BY <2>3, <2>4
  <1> QED
    BY <1>3, <1>4 DEF StateMachineSafety, LeaderCompleteness, HighestIndex

\* What was acknowledged is in the logs of the majority that has chosen it.
LEMMA CommitInvReplicated == TypeOK /\ CommitInv => AckIsReplicated
  <1> SUFFICES ASSUME TypeOK, CommitInv, NEW c \in Request,
                      [cmd |-> c, kind |-> "ok"] \in replies
               PROVE  WonElection(Cardinality({n \in Node :
                                    \E i \in 1..Len(log[n]) : log[n][i].cmd = c}),
                                  Cardinality(Node))
    BY DEF AckIsReplicated
  <1> DEFINE S == {n \in Node : \E i \in 1..Len(log[n]) : log[n][i].cmd = c}
  <1>1. PICK h \in History : Fits(h)
    BY DEF CommitInv
  <1>2. PICK y \in replies : y.kind = "ok" /\ y.cmd = c
    OBVIOUS
  <1>3. PICK k, t \in Nat : /\ Chosen(h, k, t)
                            /\ \E i \in 1..k : h.logs[t][i].cmd = c
    BY <1>1, <1>2 DEF Fits, RepliesFit
  <1>4. PICK i \in 1..k : h.logs[t][i].cmd = c
    BY <1>3
  <1>5. PICK Q : Majority(Q) /\ \A q \in Q : <<q, k, t>> \in h.acks
    BY <1>3 DEF Chosen
  <1>6. ASSUME NEW q \in Q PROVE q \in S
    <2>1. q \in Node /\ log[q] \in Seq(Entry) /\ Len(log[q]) \in Nat
      BY <1>5, NodeType DEF Majority
    <2>2. Holds(log[q], k, t)
      <3>1. Dead(h, k, t) \/ Kept(q, k, t)
        BY <1>1, <1>5, <2>1 DEF Fits, AcksFit
      <3> QED
        BY <1>3, <3>1, ChosenNotDead DEF Kept
    <2>3. SameUpTo(log[q], h.logs[t], k)
      BY <1>1, <2>1, <2>2 DEF Fits, LogsFit, Traced, Holds
    <2>4. i \in 1..Len(log[q]) /\ log[q][i] = h.logs[t][i]
      BY <2>1, <2>3 DEF SameUpTo
    <2> QED
      BY <1>4, <2>1, <2>4
  <1>7. Q \in SUBSET S /\ S \in SUBSET Node
    BY <1>6
  <1> HIDE DEF S
  <1>8. IsFiniteSet(S) /\ Cardinality(Q) <= Cardinality(S)
    BY <1>7, NodeAssumption, FS_Subset
  <1>9. /\ Cardinality(Q) \in Nat /\ Cardinality(S) \in Nat
        /\ Cardinality(Node) \in Nat /\ IsFiniteSet(Q)
    BY <1>7, <1>8, NodeAssumption, FS_Subset, FS_CardinalityType
  <1>10. Cardinality(Q) >= Cardinality(Node) \div 2 + 1
    BY <1>5 DEF Majority, WonElection
  <1>11. Cardinality(S) >= Cardinality(Node) \div 2 + 1
    BY <1>8, <1>9, <1>10
  <1> QED
    BY <1>11 DEF WonElection, S
-----------------------------------------------------------------------------
(***************************************************************************)
(* What a node has applied stays applied.                                  *)
(***************************************************************************)

\* No step takes back what a machine has applied, or drops it from the log.
LEMMA AppliedStays ==
    ASSUME TypeInv, TypeInv', VoteInv, VoteInv', ElectionInv, ElectionInv',
           CommitInv, NEW n \in Node, Forward(n), CommitForward(n),
           NEW p \in Node
    PROVE  /\ Len(machine[p]) <= Len(machine'[p])
           /\ machine[p] = SubSeq(machine'[p], 1, Len(machine[p]))
           /\ \A i \in 1..Len(machine[p]) :
                i <= Len(log'[p]) /\ log'[p][i].cmd = machine[p][i]
  <1>1. PICK h \in History : Fits(h)
    BY DEF CommitInv
  <1>2. PICK g : GoesOn(n, h, g)
    BY <1>1, HistoryGoesOn
  <1>3. NoPanic /\ TypeOK /\ TypeOK' /\ MachinesFit
    BY <1>1 DEF CommitInv, TypeInv, Fits
  <1>4. Step(n, h, g)
    BY <1>1, <1>2, <1>3 DEF Step
  <1>5. PICK c : c = commit_index[p] /\ c = Len(machine[p])
    BY <1>3 DEF TypeInv, AppliedIsCommitted, NoPanic
  <1>6. /\ machine[p] \in Seq(Request) /\ machine'[p] \in Seq(Request)
        /\ Len(machine[p]) \in Nat /\ Len(machine'[p]) \in Nat
        /\ Len(log'[p]) \in Nat
    BY <1>3, BothTypes
  <1>7. /\ Len(machine[p]) <= Len(machine'[p])
        /\ \A i \in 1..Len(machine[p]) : machine[p][i] = machine'[p][i]
    <2>1. CASE p = n
      BY <2>1 DEF CommitForward, MachineMove
    <2>2. CASE p # n
      <3>1. machine'[p] = machine[p]
        BY <2>2 DEF CommitForward
      <3> QED
        BY <1>6, <3>1
    <2> QED
      BY <2>1, <2>2
  <1>8. SameUpTo(log'[p], log[p], c)
    BY <1>4, <1>5, CommittedStays
  <1>9. ASSUME NEW i \in 1..Len(machine[p])
        PROVE  i <= Len(log'[p]) /\ log'[p][i].cmd = machine[p][i]
    <2>1. i \in 1..c
      BY <1>5
    <2>2. c <= Len(log'[p]) /\ log'[p][i] = log[p][i]
      BY <1>8, <2>1 DEF SameUpTo
    <2>3. machine[p][i] = log[p][i].cmd
      BY <1>3 DEF MachinesFit
    <2> QED
      BY <1>5, <1>6, <2>1, <2>2, <2>3
  <1> QED
    BY <1>6, <1>7, <1>9, ContinuesIs
-----------------------------------------------------------------------------
(***************************************************************************)
(* The theorems.                                                           *)
(***************************************************************************)

\* All the invariants hold together.
LEMMA AllInvariants ==
    ASSUME Cardinality(Node) <= 3, MaxCrashes = 0, MaxLateAppends = 0
    PROVE  Spec /\ [][AnswersAreCurrent]_vars
             => [](TypeInv /\ VoteInv /\ ElectionInv /\ NothingPending
                     /\ CommitInv)
  <1>1. TypeInv /\ TypeInv' /\ VoteInv /\ ElectionInv /\ [Next]_vars
          => ElectionInv'
    BY NextElections
  <1>2. TypeInv /\ TypeInv' /\ VoteInv /\ VoteInv' /\ ElectionInv
          /\ ElectionInv' /\ LogInv /\ [Next]_vars => LogInv'
    BY NextLogs
  <1>3. TypeInv /\ TypeInv' /\ VoteInv /\ VoteInv' /\ ElectionInv
          /\ ElectionInv' /\ NothingPending /\ CommitInv /\ [Next]_vars
          /\ [AnswersAreCurrent]_vars => CommitInv'
    BY NextCommits
  <1>4. LogInv => NothingPending
    BY DEF LogInv
  <1> QED
    BY <1>1, <1>2, <1>3, <1>4, InitType, NextType, InitVotes, NextVotes,
       InitElections, InitLogs, InitCommits, PTL DEF Spec

\* No handler panics: no node hears of a second leader of its term, and no
\* follower is told to give up an entry that it has committed.
THEOREM HandlersNeverPanic ==
    ASSUME Cardinality(Node) <= 3, MaxCrashes = 0, MaxLateAppends = 0
    PROVE  Spec /\ [][AnswersAreCurrent]_vars => []NoPanic
  <1>1. CommitInv => NoPanic
    BY DEF CommitInv
  <1> QED
    BY <1>1, AllInvariants, PTL

\* The nodes apply the same commands in the same order (apply_committed).
THEOREM MachinesAgree ==
    ASSUME Cardinality(Node) <= 3, MaxCrashes = 0, MaxLateAppends = 0
    PROVE  Spec /\ [][AnswersAreCurrent]_vars => []StateMachineSafety
  <1> QED
    BY CommitInvSafe, AllInvariants, PTL

\* Whoever wins an election (handle_vote_response) has in its log what was
\* applied in earlier terms.
THEOREM LeadersAreComplete ==
    ASSUME Cardinality(Node) <= 3, MaxCrashes = 0, MaxLateAppends = 0
    PROVE  Spec /\ [][AnswersAreCurrent]_vars => []LeaderCompleteness
  <1> QED
    BY CommitInvSafe, AllInvariants, PTL

\* A command whose client was told that it succeeded is in the logs of a
\* majority.
THEOREM AcksAreReplicated ==
    ASSUME Cardinality(Node) <= 3, MaxCrashes = 0, MaxLateAppends = 0
    PROVE  Spec /\ [][AnswersAreCurrent]_vars => []AckIsReplicated
  <1>1. TypeInv => TypeOK
    BY DEF TypeInv
  <1> QED
    BY <1>1, CommitInvReplicated, AllInvariants, PTL

\* What a node has applied it keeps, in its machine and in its log:
\* replace_from drains no applied entry.
THEOREM AppliedStaysApplied ==
    ASSUME Cardinality(Node) <= 3, MaxCrashes = 0, MaxLateAppends = 0
    PROVE  Spec /\ [][AnswersAreCurrent]_vars => AppliedIsStable
  <1> DEFINE Stable ==
        \A n \in Node :
          \/ events'.crashes > events.crashes
          \/ /\ Len(machine[n]) <= Len(machine'[n])
             /\ machine[n] = SubSeq(machine'[n], 1, Len(machine[n]))
             /\ \A i \in 1..Len(machine[n]) :
                  i <= Len(log'[n]) /\ log'[n][i].cmd = machine[n][i]
  <1>1. TypeInv /\ TypeInv' /\ VoteInv /\ VoteInv' /\ ElectionInv
          /\ ElectionInv' /\ NothingPending /\ CommitInv /\ [Next]_vars
          /\ [AnswersAreCurrent]_vars => Stable
    <2> SUFFICES ASSUME TypeInv, TypeInv', VoteInv, VoteInv', ElectionInv,
                        ElectionInv', NothingPending, CommitInv, [Next]_vars,
                        [AnswersAreCurrent]_vars
                 PROVE  Stable
      OBVIOUS
    <2>1. PICK n \in Node : Forward(n) /\ CommitForward(n)
      BY NextMoves
    <2> QED
      BY <2>1, AppliedStays
  <1> QED
    BY <1>1, AllInvariants, PTL DEF Spec, AppliedIsStable
-----------------------------------------------------------------------------
(***************************************************************************)
(* The cluster implements Service.  For this commands must be applied once *)
(* only: a command is appended by one leader, at one index, and whatever   *)
(* log has it has it there.                                                *)
(***************************************************************************)
PlacedAt(h, c, i) ==
    \E s \in Nat : i \in 1..Len(h.logs[s]) /\ h.logs[s][i].cmd = c

OnceFit(h) ==
    \A c \in Request : \A i, j \in Nat :
        PlacedAt(h, c, i) => c \in issued /\ (PlacedAt(h, c, j) => i = j)

\* Who was told of success has its command in some machine.
OkApplied ==
    \A y \in replies : y.kind = "ok" =>
        \E n \in Node : \E i \in 1..Len(machine[n]) : machine[n][i] = y.cmd

ServiceInv ==
    /\ NoPanic
    /\ OkApplied
    /\ \E h \in History : Fits(h) /\ OnceFit(h)

MachinesOnce ==
    \A n \in Node : \A i \in 1..Len(machine[n]) :
        /\ machine[n][i] \in issued
        /\ \A j \in 1..Len(machine[n]) :
             machine[n][i] = machine[n][j] => i = j

\* What a step is to clients: a leader appends a new command, or none does.
ClientMove ==
    \/ \E p \in Node, c \in Request :
         /\ c \notin issued /\ issued' = issued \cup {c}
         /\ log'[p] = append(p, c)
         /\ \A q \in Node \ {p} : log'[q] = log[q]
         /\ UNCHANGED <<machine, replies>>
    \/ /\ issued' = issued /\ replies \subseteq replies'
       /\ \A p \in Node : r'[p].kind = "Leader" => log'[p] = log[p]

\* Only client threads append commands, and nothing that was said to a client
\* is taken back.
LEMMA NextClients ==
    ASSUME MaxCrashes = 0, MaxLateAppends = 0, TypeOK, NothingPending,
           [Next]_vars
    PROVE  ClientMove
  <1>1. CASE UNCHANGED vars
    BY <1>1 DEF vars, ClientMove, clientVars
  <1>2. CASE Next
    <2>1. PICK n \in Node :
            \/ BecomeCandidate(n)
            \/ ReplicateLog(n)
            \/ \E m \in msgs : Receive(n, m)
            \/ Persist(n)
            \/ FailPersist(n)
            \/ \E c \in Request : ClientRequest(n, c)
                                \/ ClientCheck(n, c)
                                \/ ClientAppend(n, c)
            \/ Crash(n)
      BY <1>2 DEF Next
    <2>2. ~ Crash(n) /\ \A c \in Request : ~ ClientCheck(n, c) /\ ~ ClientAppend(n, c)
      <3>1. events.crashes \in Nat /\ events.late_appends \in Nat
        BY DEF TypeOK
      <3> QED
        BY <3>1 DEF Crash, ClientCheck, ClientAppend, NothingPending
    <2>3. CASE BecomeCandidate(n) \/ ReplicateLog(n) \/ Persist(n) \/ FailPersist(n)
      BY <2>3 DEF BecomeCandidate, ReplicateLog, Persist, FailPersist,
                  clientVars, ClientMove
    <2>4. ASSUME NEW c \in Request, ClientRequest(n, c)
          PROVE  ClientMove
      BY <2>4 DEF ClientRequest, AppendAndReplicate, ClientMove, TypeOK
    <2>5. ASSUME NEW m \in msgs, Receive(n, m)
          PROVE  ClientMove
      <3>1. CASE MaybeStepDown(n, m) \/ HandleVoteRequest(n, m)
        BY <3>1 DEF MaybeStepDown, HandleVoteRequest, clientVars, ClientMove
      <3>2. CASE HandleVoteResponse(n, m)
        BY <3>2 DEF HandleVoteResponse, CountVote, IgnoreVote, clientVars,
                    ClientMove
      <3>3. CASE HandleAppendEntriesResponse(n, m)
        BY <3>3 DEF HandleAppendEntriesResponse, RetryAppend, AdvanceMatch,
                    IgnoreAppendResponse, clientVars, ClientMove
      <3>4. CASE HandleAppendEntries(n, m)
        <4>1. CASE StaleAppend(n, m) \/ SecondLeader(n, m) \/ RejectAppend(n, m)
          BY <4>1 DEF StaleAppend, SecondLeader, RejectAppend, clientVars,
                      ClientMove
        <4>2. CASE AcceptAppend(n, m)
          <5>1. /\ issued' = issued /\ replies \subseteq replies'
                /\ r' = [r EXCEPT ![n] = RecognizeLeader(n, m)]
                /\ \A p \in Node \ {n} : log'[p] = log[p]
            BY <4>2 DEF AcceptAppend, TypeOK
          <5>2. r'[n].kind = "Follower"
            <6>1. m \in Message /\ r[n] \in Role(n)
              BY DEF TypeOK
            <6>2. RecognizeLeader(n, m).kind = "Follower"
              BY <6>1, BecomeFollowerType DEF RecognizeLeader
            <6> QED
              BY <5>1, <6>2 DEF TypeOK
          <5> QED
            BY <5>1, <5>2 DEF ClientMove
        <4> QED
          BY <3>4, <4>1, <4>2 DEF HandleAppendEntries
      <3> QED
        BY <2>5, <3>1, <3>2, <3>3, <3>4 DEF Receive
    <2> QED
      BY <2>1, <2>2, <2>3, <2>4, <2>5
  <1> QED
    BY <1>1, <1>2

\* An entry of a log that is traced has its place in the history.
LEMMA TracedPlaced ==
    ASSUME NEW h \in History, NEW a \in Seq(Entry), Traced(h, a),
           NEW i \in 1..Len(a)
    PROVE  PlacedAt(h, a[i].cmd, i)
  <1>1. Len(a) \in Nat
    BY LenProperties
  <1>2. a[i].term \in Nat
    <2>1. a[i] \in Entry
      BY ElementOfSeq
    <2> QED
      BY <2>1 DEF Entry
  <1>3. PICK t \in Nat : t = a[i].term /\ SameUpTo(a, h.logs[t], i)
    BY <1>2 DEF Traced
  <1>4. Len(h.logs[t]) \in Nat
    BY HistoryType
  <1>5. i \in 1..Len(h.logs[t]) /\ a[i] = h.logs[t][i]
    BY <1>1, <1>3, <1>4 DEF SameUpTo
  <1> QED
    BY <1>5 DEF PlacedAt

\* A step gives a place to one command at most, a new one.
LEMMA PlacedStep ==
    ASSUME NEW n \in Node, NEW h, NEW g, Step(n, h, g), ClientMove,
           NEW c \in Request, NEW i \in Nat, PlacedAt(g, c, i)
    PROVE  \/ PlacedAt(h, c, i)
           \/ /\ c \notin issued /\ c \in issued'
              /\ i = Len(log[n]) + 1
  <1>1. PICK s \in Nat : i \in 1..Len(g.logs[s]) /\ g.logs[s][i].cmd = c
    BY DEF PlacedAt
  <1>2. /\ TypeOK /\ TypeOK' /\ h \in History /\ LogsFit(h) /\ GoesOn(n, h, g)
    BY StepParts DEF Step
  <1>3. /\ log[n] \in Seq(Entry) /\ Len(log[n]) \in Nat /\ Traced(h, log[n])
    BY <1>2, BothTypes DEF LogsFit
  <1>4. CASE g.logs[s] = h.logs[s]
    BY <1>1, <1>4 DEF PlacedAt
  <1>5. CASE g.logs[s] # h.logs[s]
    <2>1. r'[n].kind = "Leader" /\ g.logs[s] = log'[n]
      BY <1>2, <1>5 DEF GoesOn
    <2>2. i \in 1..Len(log'[n]) /\ log'[n][i].cmd = c
      BY <1>1, <2>1
    <2>3. CASE log'[n] = log[n]
      BY <1>2, <1>3, <2>2, <2>3, TracedPlaced
    <2>4. CASE log'[n] # log[n]
      <3>1. PICK d \in Request : /\ d \notin issued /\ issued' = issued \cup {d}
                                 /\ log'[n] = append(n, d)
        BY <2>1, <2>4 DEF ClientMove
      <3>2. /\ Len(log'[n]) = Len(log[n]) + 1
            /\ SameUpTo(log'[n], log[n], Len(log[n]))
            /\ log'[n][Len(log[n]) + 1].cmd = d
        BY <1>2, <3>1, AppendStep
      <3>3. CASE i = Len(log[n]) + 1
        BY <2>2, <3>1, <3>2, <3>3
      <3>4. CASE i # Len(log[n]) + 1
        <4>1. i \in 1..Len(log[n])
          BY <1>3, <2>2, <3>2, <3>4
        <4>2. log[n][i].cmd = c
          BY <2>2, <3>2, <4>1 DEF SameUpTo
        <4> QED
          BY <1>2, <1>3, <4>1, <4>2, TracedPlaced
      <3> QED
        BY <3>3, <3>4
    <2> QED
      BY <2>3, <2>4
  <1> QED
    BY <1>4, <1>5

\* Commands keep their one place.
LEMMA OnceFitStep ==
    ASSUME NEW n \in Node, NEW h, NEW g, Step(n, h, g), ClientMove, OnceFit(h)
    PROVE  OnceFit(g)'
  <1> SUFFICES ASSUME NEW c \in Request, NEW i \in Nat, NEW j \in Nat,
                      PlacedAt(g, c, i)
               PROVE  c \in issued' /\ (PlacedAt(g, c, j) => i = j)
    BY DEF OnceFit, PlacedAt
  <1>1. issued \subseteq issued'
    BY DEF ClientMove
  <1>2. ASSUME NEW k \in Nat, PlacedAt(g, c, k)
        PROVE  \/ PlacedAt(h, c, k) /\ c \in issued
               \/ c \notin issued /\ c \in issued' /\ k = Len(log[n]) + 1
    BY <1>2, PlacedStep DEF OnceFit
  <1> QED
    BY <1>1, <1>2 DEF OnceFit

\* A client hears of success when its command is applied.
LEMMA OkAppliedStep ==
    ASSUME TypeInv, TypeInv', VoteInv, VoteInv', ElectionInv, ElectionInv',
           CommitInv, NEW n \in Node, Forward(n), CommitForward(n),
           NoPanic', MachinesFit', OkApplied
    PROVE  OkApplied'
  <1> SUFFICES ASSUME NEW y \in replies', y.kind = "ok"
               PROVE  \E p \in Node : \E i \in 1..Len(machine'[p]) :
                        machine'[p][i] = y.cmd
    BY DEF OkApplied
  <1>1. TypeOK /\ TypeOK'
    BY DEF TypeInv
  <1>2. CASE y \in replies
    <2>1. PICK p \in Node : \E i \in 1..Len(machine[p]) : machine[p][i] = y.cmd
      BY <1>2 DEF OkApplied
    <2>2. /\ machine[p] = SubSeq(machine'[p], 1, Len(machine[p]))
          /\ Len(machine[p]) <= Len(machine'[p])
      BY AppliedStays
    <2>3. /\ Len(machine[p]) \in Nat /\ Len(machine'[p]) \in Nat
          /\ machine[p] \in Seq(Request) /\ machine'[p] \in Seq(Request)
      BY <1>1, BothTypes
    <2>4. \A i \in 1..Len(machine[p]) :
            i \in 1..Len(machine'[p]) /\ machine'[p][i] = machine[p][i]
      BY <2>2, <2>3
    <2> QED
      BY <2>1, <2>4
  <1>3. CASE y \notin replies
    <2>1. PICK i \in 1..commit_index'[n] : log'[n][i].cmd = y.cmd
      BY <1>3 DEF CommitForward, RepliesMove
    <2>2. commit_index'[n] = Len(machine'[n])
      BY DEF TypeInv, AppliedIsCommitted, NoPanic
    <2>3. i \in 1..Len(machine'[n]) /\ machine'[n][i] = log'[n][i].cmd
      BY <2>1, <2>2 DEF MachinesFit
    <2> QED
      BY <2>1, <2>3
  <1> QED
    BY <1>2, <1>3

LEMMA NextService ==
    ASSUME Cardinality(Node) <= 3, MaxCrashes = 0, MaxLateAppends = 0
    PROVE  TypeInv /\ TypeInv' /\ VoteInv /\ VoteInv' /\ ElectionInv
             /\ ElectionInv' /\ NothingPending /\ ServiceInv /\ [Next]_vars
             /\ [AnswersAreCurrent]_vars => ServiceInv'
  <1> SUFFICES ASSUME TypeInv, TypeInv', VoteInv, VoteInv', ElectionInv,
                      ElectionInv', NothingPending, ServiceInv, [Next]_vars,
                      [AnswersAreCurrent]_vars
               PROVE  ServiceInv'
    OBVIOUS
  <1>1. PICK n \in Node : Forward(n) /\ CommitForward(n)
    BY NextMoves
  <1>2. ClientMove
    BY NextClients DEF TypeInv
  <1>3. PICK h \in History : Fits(h) /\ OnceFit(h)
    BY DEF ServiceInv
  <1>4. PICK g : GoesOn(n, h, g)
    BY <1>1, <1>3, HistoryGoesOn
  <1>5. Step(n, h, g)
    BY <1>1, <1>3, <1>4 DEF Step, ServiceInv
  <1>6. g \in History /\ Fits(g)' /\ NoPanic'
    BY <1>5, FitsStep
  <1>7. OnceFit(g)'
    BY <1>2, <1>3, <1>5, OnceFitStep
  <1>8. OkApplied'
    <2>1. CommitInv /\ MachinesFit' /\ OkApplied
      BY <1>3, <1>6 DEF CommitInv, ServiceInv, Fits
    <2> QED
      BY <1>1, <1>6, <2>1, OkAppliedStep
  <1> QED
    BY <1>6, <1>7, <1>8 DEF ServiceInv, History

LEMMA InitService == Init => ServiceInv
  <1> SUFFICES ASSUME Init PROVE ServiceInv
    OBVIOUS
  <1>1. PICK h \in History : Fits(h) /\ \A s \in Nat : h.logs[s] = <<>>
    BY InitHistory
  <1>2. \A c, i : ~ PlacedAt(h, c, i)
    BY <1>1, EmptySeq DEF PlacedAt
  <1>3. OnceFit(h)
    BY <1>2 DEF OnceFit
  <1>4. OkApplied
    BY DEF Init, OkApplied
  <1> QED
    BY <1>1, <1>3, <1>4, InitHistory DEF ServiceInv

\* No machine has applied a command that nobody has asked for, or one twice.
LEMMA ServiceInvOnce == TypeInv /\ ServiceInv => MachinesOnce
  <1> SUFFICES ASSUME TypeInv, ServiceInv, NEW n \in Node
               PROVE  \A i, j \in 1..Len(machine[n]) :
                        /\ machine[n][i] \in issued
                        /\ machine[n][i] = machine[n][j] => i = j
    BY DEF MachinesOnce
  <1>1. PICK h \in History : Fits(h) /\ OnceFit(h)
    BY DEF ServiceInv
  <1>2. /\ machine[n] \in Seq(Request) /\ Len(machine[n]) \in Nat
        /\ log[n] \in Seq(Entry) /\ Len(log[n]) \in Nat
        /\ Len(machine[n]) <= Len(log[n])
    <2>1. TypeOK /\ commit_index[n] = Len(machine[n])
      BY DEF TypeInv, AppliedIsCommitted, ServiceInv, NoPanic
    <2>2. commit_index[n] <= Len(log[n])
      BY <1>1, <2>1, CommittedHeld DEF Fits
    <2> QED
      BY <2>1, <2>2, NodeType
  <1>3. ASSUME NEW i \in 1..Len(machine[n])
        PROVE  /\ machine[n][i] \in Request /\ i \in Nat
               /\ PlacedAt(h, machine[n][i], i)
    <2>1. i \in 1..Len(log[n])
      BY <1>2, <1>3
    <2> QED
      BY <1>1, <1>2, <2>1, TracedPlaced, ElementOfSeq
         DEF Fits, MachinesFit, LogsFit
  <1> QED
    BY <1>1, <1>3 DEF OnceFit

\* The node that has applied most exists.
LEMMA LongestExists ==
    ASSUME NEW f \in [Node -> Seq(Request)]
    PROVE  \E a \in Node :
             /\ a = CHOOSE n \in Node : \A p \in Node : Len(f[p]) <= Len(f[n])
             /\ \A p \in Node : Len(f[p]) <= Len(f[a])
  <1> DEFINE h == [p \in Node |-> Len(f[p])]
  <1>1. \A n \in Node : h[n] \in Nat /\ h[n] = Len(f[n])
    BY LenProperties
  <1>2. IsFiniteSet(Node) /\ Node # {}
    BY NodeAssumption, FS_EmptySet
  <1>3. \E n \in Node : \A p \in Node : h[p] <= h[n]
    <2> HIDE DEF h
    <2> QED
      BY <1>1, <1>2, MaximumExists
  <1>4. \E n \in Node : \A p \in Node : Len(f[p]) <= Len(f[n])
    BY <1>1, <1>3
  <1> QED
    BY <1>4

\* Every step of the cluster is one of Service, or none.
LEMMA ServiceStep ==
    ASSUME TypeOK, TypeOK', ClientMove, StateMachineSafety', MachinesOnce',
           OkApplied',
           \A p \in Node :
             /\ Len(machine[p]) <= Len(machine'[p])
             /\ machine[p] = SubSeq(machine'[p], 1, Len(machine[p]))
    PROVE  [TheService!Next]_(TheService!vars)
  <1> DEFINE Answered0 == {c \in Request : [cmd |-> c, kind |-> "ok"] \in replies}
             Answered1 == {c \in Request : [cmd |-> c, kind |-> "ok"] \in replies'}
  <1>1. PICK a \in Node : /\ Executed = machine[a]
                          /\ \A p \in Node : Len(machine[p]) <= Len(machine[a])
    <2>1. machine \in [Node -> Seq(Request)]
      BY DEF TypeOK
    <2> QED
      BY <2>1, LongestExists DEF Executed
  <1>2. PICK b \in Node : /\ Executed' = machine'[b]
                          /\ \A p \in Node : Len(machine'[p]) <= Len(machine'[b])
    <2>1. machine' \in [Node -> Seq(Request)]
      BY DEF TypeOK
    <2> QED
      BY <2>1, LongestExists DEF Executed
  <1>3. CASE \E p \in Node, c \in Request :
               /\ c \notin issued /\ issued' = issued \cup {c}
               /\ UNCHANGED <<machine, replies>>
    <2>1. PICK c \in Request : /\ c \notin issued /\ issued' = issued \cup {c}
                               /\ machine' = machine /\ replies' = replies
      BY <1>3
    <2>2. Executed' = Executed /\ Answered1 = Answered0
      BY <2>1 DEF Executed
    <2>3. TheService!Ask(c)
      BY <2>1, <2>2 DEF TheService!Ask
    <2> QED
      BY <2>3 DEF TheService!Next
  <1>4. CASE issued' = issued /\ replies \subseteq replies'
    <2>1. /\ machine[a] \in Seq(Request) /\ Len(machine[a]) \in Nat
          /\ \A p \in Node : /\ machine'[p] \in Seq(Request)
                             /\ Len(machine'[p]) \in Nat
      BY BothTypes
    <2>2. ASSUME NEW p \in Node
          PROVE  \A i \in 1..Len(machine'[p]) :
                   /\ i \in 1..Len(machine'[b])
                   /\ machine'[p][i] = machine'[b][i]
      <3>1. /\ Len(machine'[p]) <= Len(machine'[b])
            /\ machine'[p] = SubSeq(machine'[b], 1, Len(machine'[p]))
        BY <1>2 DEF StateMachineSafety
      <3> QED
        BY <2>1, <3>1
    <2>3. machine[a] = SubSeq(machine'[b], 1, Len(machine[a]))
          /\ Len(machine[a]) <= Len(machine'[b])
      <3>1. /\ Len(machine[a]) <= Len(machine'[a])
            /\ machine[a] = SubSeq(machine'[a], 1, Len(machine[a]))
        OBVIOUS
      <3>2. \A i \in 1..Len(machine[a]) :
              i \in 1..Len(machine'[a]) /\ machine[a][i] = machine'[a][i]
        BY <2>1, <3>1
      <3>3. /\ Len(machine[a]) <= Len(machine'[b])
            /\ \A i \in 1..Len(machine[a]) : machine[a][i] = machine'[b][i]
        BY <1>2, <2>1, <2>2, <3>1, <3>2
      <3> QED
        BY <2>1, <3>3, ContinuesIs
    <2>4. SubSeq(machine[a], 1, Len(machine[a])) = machine[a]
      <3>1. Len(machine[a]) <= Len(machine[a])
        BY <2>1
      <3> QED
        BY <2>1, <3>1, ContinuesIs
    <2>5. TheService!IsPrefix(Executed, Executed')
      BY <1>1, <1>2, <2>3, <2>4 DEF TheService!IsPrefix
    <2>6. DOMAIN machine'[b] = 1..Len(machine'[b])
      BY <2>1, LenProperties
    <2>7. TheService!IsInjective(Executed')
      BY <1>2, <2>6 DEF TheService!IsInjective, MachinesOnce
    <2>8. TheService!ToSet(Executed') \subseteq issued
      BY <1>2, <1>4, <2>6 DEF TheService!ToSet, MachinesOnce
    <2>9. Answered0 \subseteq Answered1
      BY <1>4
    <2>10. Answered1 \subseteq TheService!ToSet(Executed')
      <3> SUFFICES ASSUME NEW c \in Request, [cmd |-> c, kind |-> "ok"] \in replies'
                   PROVE  \E i \in 1..Len(machine'[b]) : machine'[b][i] = c
        BY <1>2, <2>6 DEF TheService!ToSet
      <3>1. PICK y \in replies' : y.kind = "ok" /\ y.cmd = c
        OBVIOUS
      <3>2. PICK p \in Node : \E i \in 1..Len(machine'[p]) : machine'[p][i] = c
        BY <3>1 DEF OkApplied
      <3> QED
        BY <2>2, <3>2
    <2>11. TheService!Execute
      BY <1>4, <2>5, <2>7, <2>8, <2>9, <2>10 DEF TheService!Execute
    <2> QED
      BY <2>11 DEF TheService!Next
  <1> QED
    BY <1>3, <1>4 DEF ClientMove

\* To its clients the cluster is the one machine of Service: each command
\* takes effect once, on all nodes in the same order, and before its client
\* hears of success.
THEOREM ClusterIsAService ==
    ASSUME Cardinality(Node) <= 3, MaxCrashes = 0, MaxLateAppends = 0
    PROVE  Spec /\ [][AnswersAreCurrent]_vars => ImplementsService
  <1>1. Init => TheService!Init
    <2> SUFFICES ASSUME Init PROVE TheService!Init
      OBVIOUS
    <2>1. machine = [n \in Node |-> <<>>] /\ issued = {} /\ replies = {}
      BY DEF Init
    <2>2. PICK a \in Node : Executed = machine[a]
      <3>1. machine \in [Node -> Seq(Request)]
        BY <2>1
      <3> QED
        BY <3>1, LongestExists DEF Executed
    <2> QED
      BY <2>1, <2>2 DEF TheService!Init
  <1>2. TypeInv /\ TypeInv' /\ VoteInv /\ VoteInv' /\ ElectionInv
          /\ ElectionInv' /\ NothingPending /\ ServiceInv /\ [Next]_vars
          /\ [AnswersAreCurrent]_vars => ServiceInv'
    BY NextService
  <1>3. ServiceInv => OkApplied
    BY DEF ServiceInv
  <1>4. TypeInv /\ TypeInv' /\ VoteInv /\ VoteInv' /\ ElectionInv
          /\ ElectionInv' /\ NothingPending /\ CommitInv /\ [Next]_vars
          /\ [AnswersAreCurrent]_vars /\ StateMachineSafety' /\ MachinesOnce'
          /\ OkApplied' => [TheService!Next]_(TheService!vars)
    <2> SUFFICES ASSUME TypeInv, TypeInv', VoteInv, VoteInv', ElectionInv,
                        ElectionInv', NothingPending, CommitInv, [Next]_vars,
                        [AnswersAreCurrent]_vars, StateMachineSafety',
                        MachinesOnce', OkApplied'
                 PROVE  [TheService!Next]_(TheService!vars)
      OBVIOUS
    <2>1. TypeOK /\ TypeOK'
      BY DEF TypeInv
    <2>2. PICK n \in Node : Forward(n) /\ CommitForward(n)
      BY NextMoves
    <2>3. \A p \in Node :
            /\ Len(machine[p]) <= Len(machine'[p])
            /\ machine[p] = SubSeq(machine'[p], 1, Len(machine[p]))
      BY <2>2, AppliedStays
    <2>4. ClientMove
      BY <2>1, NextClients
    <2> QED
      BY <2>1, <2>3, <2>4, ServiceStep
  <1> QED
    BY <1>1, <1>2, <1>3, <1>4, InitService, ServiceInvOnce, CommitInvSafe,
       AllInvariants, PTL DEF Spec, ImplementsService, TheService!Spec
==============================================================================
