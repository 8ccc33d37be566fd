----------------------------- MODULE RaftCoreLogs -----------------------------
(***************************************************************************)
(* Logs match, for every cluster: two logs with an entry of the same term  *)
(* at the same place are equal up to there.  Proved under two conditions   *)
(* that the code does not establish: that of RaftCoreElections (one leader *)
(* per term), and that no client thread is descheduled between its         *)
(* leadership check and its append (see the run late_append).  Also, under *)
(* the first condition alone: the leaders that nodes believe in form no    *)
(* cycle, and no leader hears from another leader of its term.             *)
(*                                                                         *)
(* The argument for logs.  A log in memory, a log on disk and the entries  *)
(* of an AppendEntries message are pieces of logs.  Any two pieces agree   *)
(* from an entry of the same term down, including the term of the entry    *)
(* before the piece, which the message carries as prev_log_term.  A piece  *)
(* changes in two ways.  A leader appends an entry at an index where no    *)
(* piece has one of its term, because a leader has all entries of its      *)
(* term.  A follower replaces the entries after prev_log_index, where its  *)
(* log has the term prev_log_term; so the new log agrees below with what   *)
(* the old log agreed with, and above with what the message agreed with.   *)
(***************************************************************************)
EXTENDS RaftCoreElections

(***************************************************************************)
(* What is known of a log: the entries after an index first, and the term  *)
(* of the entry at first, if there is one.                                 *)
(***************************************************************************)
PieceType == [first : Nat, term : Nat, entries : Seq(Entry)]

Piece(first, term, entries) ==
    [first |-> first, term |-> term, entries |-> entries]

Whole(lg) == Piece(0, 0, lg)

Part(m) == Piece(m.prev_log_index, m.prev_log_term, m.entries)

Has(A, i) == i \in (A.first + 1)..(A.first + Len(A.entries))

At(A, i) == A.entries[i - A.first]

Knows(A, i) == i > 0 /\ (Has(A, i) \/ i = A.first)

TermOf(A, i) == IF Has(A, i) THEN At(A, i).term ELSE A.term

\* Where two pieces have entries of one term they agree from there down.
Agree(A, B) ==
    \A i, j \in Nat :
        /\ Has(A, i) /\ Has(B, i) /\ At(A, i).term = At(B, i).term /\ j <= i
        => /\ Has(A, j) /\ Has(B, j) => At(A, j) = At(B, j)
           /\ Knows(A, j) /\ Knows(B, j) => TermOf(A, j) = TermOf(B, j)

\* All that A has and knows below its entries B has and knows too.
PartOf(A, B) ==
    \A i, j \in Nat :
        Has(A, i) /\ j <= i =>
            /\ Has(B, i) /\ At(A, i) = At(B, i)
            /\ Knows(A, j) => Knows(B, j) /\ TermOf(A, j) = TermOf(B, j)

\* Agreement is symmetric, ...
LEMMA AgreeSym ==
    ASSUME NEW A, NEW B, Agree(A, B)
    PROVE  Agree(B, A)
  BY DEF Agree

\* ... and a piece agrees with itself.
LEMMA AgreeSelf ==
    ASSUME NEW A
    PROVE  Agree(A, A) /\ PartOf(A, A)
  BY DEF Agree, PartOf

\* A part agrees with whatever the piece agrees with.
LEMMA PartAgrees ==
    ASSUME NEW A, NEW B, NEW C, PartOf(A, B), Agree(B, C)
    PROVE  Agree(A, C)
  <1>1. SUFFICES ASSUME NEW i \in Nat, NEW j \in Nat, Has(A, i), Has(C, i),
                        At(A, i).term = At(C, i).term, j <= i
                 PROVE  /\ Has(A, j) /\ Has(C, j) => At(A, j) = At(C, j)
                        /\ Knows(A, j) /\ Knows(C, j) =>
                             TermOf(A, j) = TermOf(C, j)
    BY DEF Agree
  <1>2. Has(B, i) /\ At(A, i) = At(B, i) /\ j <= j
    BY <1>1 DEF PartOf
  <1>3. /\ Has(B, j) /\ Has(C, j) => At(B, j) = At(C, j)
        /\ Knows(B, j) /\ Knows(C, j) => TermOf(B, j) = TermOf(C, j)
    BY <1>1, <1>2 DEF Agree
  <1>4. Has(A, j) => Has(B, j) /\ At(A, j) = At(B, j)
    BY <1>2 DEF PartOf
  <1>5. Knows(A, j) => Knows(B, j) /\ TermOf(A, j) = TermOf(B, j)
    BY <1>1 DEF PartOf
  <1> QED
    BY <1>3, <1>4, <1>5

\* The entries of a log.
LEMMA WholeHas ==
    ASSUME NEW lg \in Seq(Entry)
    PROVE  /\ Whole(lg) \in PieceType
           /\ \A i \in Nat : Has(Whole(lg), i) <=> i \in 1..Len(lg)
           /\ \A i \in Nat : Knows(Whole(lg), i) <=> i \in 1..Len(lg)
           /\ \A i \in 1..Len(lg) : /\ At(Whole(lg), i) = lg[i]
                                    /\ TermOf(Whole(lg), i) = lg[i].term
  <1>1. /\ Whole(lg).first = 0 /\ Whole(lg).term = 0
        /\ Whole(lg).entries = lg /\ Len(lg) \in Nat
    BY LenProperties DEF Whole, Piece
  <1>2. Whole(lg) \in PieceType
    BY <1>1 DEF PieceType, Whole, Piece
  <1>3. \A i \in Nat : Has(Whole(lg), i) <=> i \in 1..Len(lg)
    BY <1>1 DEF Has
  <1>4. \A i \in 1..Len(lg) : At(Whole(lg), i) = lg[i]
    BY <1>1 DEF At
  <1>5. \A i \in Nat : Knows(Whole(lg), i) <=> i \in 1..Len(lg)
    BY <1>1, <1>3 DEF Knows
  <1> QED
    BY <1>1, <1>2, <1>3, <1>4, <1>5 DEF TermOf

\* The entries of a message.
LEMMA PartHas ==
    ASSUME NEW m \in Message, IsAppend(m)
    PROVE  /\ Part(m) \in PieceType
           /\ Part(m).first = m.prev_log_index
           /\ Part(m).term = m.prev_log_term
           /\ Part(m).entries = m.entries
  <1>1. /\ m.prev_log_index \in Nat /\ m.prev_log_term \in Nat
        /\ m.entries \in Seq(Entry)
    BY MessageType DEF IsAppend
  <1> QED
    BY <1>1 DEF Part, Piece, PieceType

\* What replicate_log sends from a log is part of the log.
LEMMA SentIsPart ==
    ASSUME NEW lg \in Seq(Entry), NEW next \in Nat \ {0}, NEW m \in Message,
           IsAppend(m), m.prev_log_index = next - 1,
           m.prev_log_term = TermAt(lg, next - 1),
           m.entries = GetFrom(lg, next)
    PROVE  PartOf(Part(m), Whole(lg))
  <1> DEFINE A == Part(m)
             W == Whole(lg)
  <1>1. /\ A.first = next - 1 /\ A.term = TermAt(lg, next - 1)
        /\ A.entries = GetFrom(lg, next) /\ Len(lg) \in Nat
    BY PartHas, LenProperties
  <1>2. /\ \A i \in Nat : Has(W, i) <=> i \in 1..Len(lg)
        /\ \A i \in Nat : Knows(W, i) <=> i \in 1..Len(lg)
        /\ \A i \in 1..Len(lg) : At(W, i) = lg[i] /\ TermOf(W, i) = lg[i].term
    BY WholeHas
  <1>3. \A i \in next..Len(lg) : lg[i] \in Entry
    BY <1>1, ElementOfSeq
  <1>4. /\ Len(A.entries) = IF next <= Len(lg) THEN Len(lg) - next + 1 ELSE 0
        /\ \A k \in 1..(Len(lg) - next + 1) : A.entries[k] = lg[next + k - 1]
    BY <1>1, <1>3, SubSeqProperties DEF GetFrom
  <1> HIDE DEF A, W
  <1>5. \A i \in Nat : Has(A, i) <=> i \in next..Len(lg)
    BY <1>1, <1>4 DEF Has
  <1>6. \A i \in next..Len(lg) : At(A, i) = lg[i]
    <2>1. SUFFICES ASSUME NEW i \in next..Len(lg) PROVE At(A, i) = lg[i]
      OBVIOUS
    <2>2. i - A.first \in 1..(Len(lg) - next + 1) /\ next + (i - A.first) - 1 = i
      BY <1>1
    <2> QED
      BY <1>4, <2>2 DEF At
  <1>7. ASSUME NEW i \in Nat, NEW j \in Nat, Has(A, i), j <= i
        PROVE  /\ Has(W, i) /\ At(A, i) = At(W, i)
               /\ Knows(A, j) => Knows(W, j) /\ TermOf(A, j) = TermOf(W, j)
    <2>1. i \in next..Len(lg) /\ i \in 1..Len(lg)
      BY <1>1, <1>5, <1>7
    <2>2. Has(W, i) /\ At(A, i) = At(W, i)
      BY <1>2, <1>6, <2>1
    <2>3. ASSUME Knows(A, j)
          PROVE  Knows(W, j) /\ TermOf(A, j) = TermOf(W, j)
      <3>1. CASE Has(A, j)
        BY <1>1, <1>2, <1>5, <1>6, <3>1 DEF TermOf
      <3>2. CASE ~ Has(A, j)
        <4>1. j = next - 1 /\ j \in 1..Len(lg)
          BY <1>1, <1>7, <2>1, <2>3, <3>2 DEF Knows
        <4> QED
          BY <1>1, <1>2, <3>2, <4>1 DEF TermOf, TermAt
      <3> QED
        BY <3>1, <3>2
    <2> QED
      BY <2>2, <2>3
  <1>8. PartOf(A, W)
    BY <1>7 DEF PartOf
  <1> QED
    BY <1>8 DEF A, W

\* An entry appended where B has none of its term: the log still agrees
\* with B.
LEMMA AppendAgrees ==
    ASSUME NEW lg \in Seq(Entry), NEW e \in Entry, NEW B \in PieceType,
           Agree(Whole(lg), B),
           \A i \in Nat : Has(B, i) /\ At(B, i).term = e.term => i <= Len(lg)
    PROVE  Agree(Whole(Append(lg, e)), B)
  <1> DEFINE V == Whole(lg)
             W == Whole(Append(lg, e))
  <1>1. /\ Append(lg, e) \in Seq(Entry) /\ Len(Append(lg, e)) = Len(lg) + 1
        /\ \A i \in 1..Len(lg) : Append(lg, e)[i] = lg[i]
        /\ Append(lg, e)[Len(lg) + 1] = e
        /\ Len(lg) \in Nat
    BY AppendProperties, LenProperties
  <1>2. /\ \A i \in Nat : Has(V, i) <=> i \in 1..Len(lg)
        /\ \A i \in Nat : Knows(V, i) <=> i \in 1..Len(lg)
        /\ \A i \in 1..Len(lg) : At(V, i) = lg[i] /\ TermOf(V, i) = lg[i].term
    BY WholeHas
  <1>3. /\ \A i \in Nat : Has(W, i) <=> i \in 1..(Len(lg) + 1)
        /\ \A i \in Nat : Knows(W, i) <=> i \in 1..(Len(lg) + 1)
        /\ \A i \in 1..(Len(lg) + 1) : /\ At(W, i) = Append(lg, e)[i]
                                       /\ TermOf(W, i) = Append(lg, e)[i].term
    BY <1>1, WholeHas
  <1>4. Agree(V, B)
    OBVIOUS
  <1> HIDE DEF V, W
  <1>5. ASSUME NEW i \in Nat, NEW j \in Nat, Has(W, i), Has(B, i),
               At(W, i).term = At(B, i).term, j <= i
        PROVE  /\ Has(W, j) /\ Has(B, j) => At(W, j) = At(B, j)
               /\ Knows(W, j) /\ Knows(B, j) => TermOf(W, j) = TermOf(B, j)
    <2>1. i # Len(lg) + 1
      BY <1>1, <1>3, <1>5
    <2>2. i \in 1..Len(lg)
      BY <1>1, <1>3, <1>5, <2>1
    <2>3. Has(V, i) /\ At(V, i) = At(W, i)
      BY <1>1, <1>2, <1>3, <2>2
    <2>4. /\ Has(V, j) /\ Has(B, j) => At(V, j) = At(B, j)
          /\ Knows(V, j) /\ Knows(B, j) => TermOf(V, j) = TermOf(B, j)
      BY <1>4, <1>5, <2>3 DEF Agree
    <2>5. CASE j = 0
      BY <1>1, <1>3, <2>5
    <2>6. CASE j # 0
      <3>1. j \in 1..Len(lg)
        BY <1>1, <1>5, <2>2, <2>6
      <3>2. /\ Has(V, j) /\ Knows(V, j) /\ At(W, j) = At(V, j)
            /\ TermOf(W, j) = TermOf(V, j)
        BY <1>1, <1>2, <1>3, <3>1
      <3> QED
        BY <2>4, <3>2
    <2> QED
      BY <2>5, <2>6
  <1>6. Agree(W, B)
    BY <1>5 DEF Agree
  <1> QED
    BY <1>6 DEF W

\* replace_from leaves the log alone, or ends it with the entries it was
\* given: those that it skips as held are the ones the log has.
LEMMA ReplaceShape ==
    ASSUME NEW lg \in Seq(Entry), NEW index \in Nat \ {0},
           NEW with \in Seq(Entry),
           \A k \in 1..Len(with) :
               Held(lg, index, with, k) => lg[index + k - 1] = with[k]
    PROVE  \/ /\ index > Len(lg) + 1 \/ NotHeld(lg, index, with) = {}
              /\ ReplaceFrom(lg, index, with) = lg
           \/ /\ index - 1 <= Len(lg) /\ NotHeld(lg, index, with) # {}
              /\ Len(ReplaceFrom(lg, index, with)) = index - 1 + Len(with)
              /\ \A i \in 1..(index - 1) :
                   ReplaceFrom(lg, index, with)[i] = lg[i]
              /\ \A k \in 1..Len(with) :
                   ReplaceFrom(lg, index, with)[index - 1 + k] = with[k]
  <1>1. CASE index > Len(lg) + 1 \/ NotHeld(lg, index, with) = {}
    BY <1>1 DEF ReplaceFrom
  <1>2. CASE ~ (index > Len(lg) + 1 \/ NotHeld(lg, index, with) = {})
    <2> DEFINE k == FirstNotHeld(lg, index, with)
               a == SubSeq(lg, 1, index + k - 2)
               b == SubSeq(with, k, Len(with))
    <2>1. /\ Len(lg) \in Nat /\ Len(with) \in Nat
          /\ k \in 1..Len(with)
          /\ \A j \in NotHeld(lg, index, with) : k <= j
      BY <1>2, FirstNotHeldType, LenProperties
    <2>2. ReplaceFrom(lg, index, with) = a \o b
      BY <1>2 DEF ReplaceFrom
    <2> HIDE DEF k
    <2>3. \A j \in 1..(k - 1) : /\ index + j - 1 <= Len(lg)
                                /\ lg[index + j - 1] = with[j]
      <3>1. SUFFICES ASSUME NEW j \in 1..(k - 1)
                     PROVE  /\ index + j - 1 <= Len(lg)
                            /\ lg[index + j - 1] = with[j]
        OBVIOUS
      <3>2. j \in 1..Len(with) /\ ~ (k <= j)
        BY <2>1
      <3>3. Held(lg, index, with, j)
        BY <2>1, <3>2 DEF NotHeld
      <3> QED
        BY <3>2, <3>3 DEF Held
    <2>4. index + k - 2 <= Len(lg)
      <3>1. CASE k = 1
        BY <1>2, <2>1, <3>1
      <3>2. CASE k # 1
        <4>1. k - 1 \in 1..(k - 1) /\ k \in Nat
          BY <2>1, <3>2
        <4>2. index + (k - 1) - 1 <= Len(lg)
          BY <2>3, <4>1
        <4> QED
          BY <4>1, <4>2
      <3> QED
        BY <3>1, <3>2
    <2>5. /\ a \in Seq(Entry) /\ Len(a) = index + k - 2
          /\ \A i \in 1..(index + k - 2) : a[i] = lg[i]
      <3>1. \A j \in 1..(index + k - 2) : lg[j] \in Entry
        BY <2>1, <2>4, ElementOfSeq
      <3> QED
        BY <2>1, <3>1, SubSeqProperties
    <2>6. /\ b \in Seq(Entry) /\ Len(b) = Len(with) - k + 1
          /\ \A i \in 1..(Len(with) - k + 1) : b[i] = with[k + i - 1]
      <3>1. \A j \in k..Len(with) : with[j] \in Entry
        BY <2>1, ElementOfSeq
      <3> QED
        BY <2>1, <3>1, SubSeqProperties
    <2> HIDE DEF a, b
    <2>7. /\ Len(a \o b) = Len(a) + Len(b)
          /\ \A i \in 1..Len(a) + Len(b) :
               (a \o b)[i] = IF i <= Len(a) THEN a[i] ELSE b[i - Len(a)]
      BY <2>5, <2>6, ConcatProperties
    <2>8. \A i \in 1..(index - 1) : (a \o b)[i] = lg[i]
      BY <2>1, <2>5, <2>6, <2>7
    <2>9. ASSUME NEW j \in 1..Len(with) PROVE (a \o b)[index - 1 + j] = with[j]
      <3> DEFINE i == index - 1 + j
      <3>1. i \in 1..Len(a) + Len(b) /\ i \in Nat /\ i = index + j - 1
        BY <2>1, <2>5, <2>6
      <3>2. CASE j < k
        <4>1. j \in 1..(k - 1) /\ i \in 1..(index + k - 2) /\ i <= Len(a)
          BY <2>1, <2>5, <3>2
        <4>2. (a \o b)[i] = a[i] /\ a[i] = lg[i]
          BY <2>5, <2>7, <3>1, <4>1
        <4> QED
          BY <2>3, <3>1, <4>1, <4>2
      <3>3. CASE ~ (j < k)
        <4>1. /\ ~ (i <= Len(a)) /\ i - Len(a) \in 1..(Len(with) - k + 1)
              /\ k + (i - Len(a)) - 1 = j
          BY <2>1, <2>5, <3>3
        <4>2. (a \o b)[i] = b[i - Len(a)]
          BY <2>7, <3>1, <4>1
        <4> QED
          BY <2>6, <4>1, <4>2
      <3> QED
        BY <3>2, <3>3
    <2>10. Len(a \o b) = index - 1 + Len(with)
      BY <2>1, <2>5, <2>6, <2>7
    <2>11. index - 1 <= Len(lg)
      BY <1>2, <2>1
    <2> QED
      BY <1>2, <2>2, <2>8, <2>9, <2>10, <2>11
  <1> QED
    BY <1>1, <1>2

\* The log that replace_from builds agrees with B if the old log, the
\* entries of the message and B agree with each other.
LEMMA ReplaceAgrees ==
    ASSUME NEW lg \in Seq(Entry), NEW m \in Message, IsAppend(m),
           NEW B \in PieceType, NEW new \in Seq(Entry),
           TermAt(lg, m.prev_log_index) = m.prev_log_term,
           new = ReplaceFrom(lg, m.prev_log_index + 1, m.entries),
           Agree(Whole(lg), Part(m)), Agree(Whole(lg), B), Agree(Part(m), B)
    PROVE  /\ Agree(Whole(new), B)
           /\ \A i \in Nat : Has(Whole(new), i) =>
                \/ Has(Whole(lg), i) /\ At(Whole(new), i) = At(Whole(lg), i)
                \/ Has(Part(m), i) /\ At(Whole(new), i) = At(Part(m), i)
  <1> DEFINE p == m.prev_log_index
             es == m.entries
             V == Whole(lg)
             M == Part(m)
             W == Whole(new)
  <1>1. /\ p \in Nat /\ m.prev_log_term \in Nat /\ es \in Seq(Entry)
        /\ Len(lg) \in Nat /\ Len(es) \in Nat /\ p + 1 \in Nat \ {0}
        /\ (p + 1) - 1 = p
    BY MessageType, LenProperties DEF IsAppend
  <1>2. /\ \A i \in Nat : Has(V, i) <=> i \in 1..Len(lg)
        /\ \A i \in Nat : Knows(V, i) <=> i \in 1..Len(lg)
        /\ \A i \in 1..Len(lg) : At(V, i) = lg[i] /\ TermOf(V, i) = lg[i].term
    BY WholeHas
  <1>3. /\ \A i \in Nat : Has(W, i) <=> i \in 1..Len(new)
        /\ \A i \in Nat : Knows(W, i) <=> i \in 1..Len(new)
        /\ \A i \in 1..Len(new) : At(W, i) = new[i] /\ TermOf(W, i) = new[i].term
    BY WholeHas
  <1>4. M.first = p /\ M.term = m.prev_log_term /\ M.entries = es
    BY PartHas
  <1>5. /\ \A i \in Nat : Has(M, i) <=> i \in (p + 1)..(p + Len(es))
        /\ \A k \in 1..Len(es) : At(M, p + k) = es[k]
    BY <1>1, <1>4 DEF Has, At
  <1>6. Agree(V, M) /\ Agree(V, B) /\ Agree(M, B)
    OBVIOUS
  <1>7. \A k \in 1..Len(es) : Held(lg, p + 1, es, k) => lg[p + 1 + k - 1] = es[k]
    <2>1. SUFFICES ASSUME NEW k \in 1..Len(es), Held(lg, p + 1, es, k)
                   PROVE  lg[p + k] = es[k]
      BY <1>1
    <2>2. p + 1 + k - 1 = p + k /\ p + k \in Nat
      BY <1>1
    <2>3. p + k \in 1..Len(lg) /\ lg[p + k].term = es[k].term
      BY <1>1, <2>1, <2>2 DEF Held
    <2> HIDE DEF V, M, p, es
    <2>4. Has(V, p + k) /\ At(V, p + k) = lg[p + k]
      BY <1>2, <2>2, <2>3
    <2>5. At(M, p + k) = es[k]
      BY <1>5
    <2>6. Has(M, p + k)
      BY <1>1, <1>5, <2>2
    <2>7. p + k <= p + k
      BY <2>2
    <2> QED
      BY <1>6, <2>2, <2>3, <2>4, <2>5, <2>6, <2>7 DEF Agree
  <1>8. \/ new = lg
        \/ /\ p <= Len(lg) /\ Len(new) = p + Len(es)
           /\ \A i \in 1..p : new[i] = lg[i]
           /\ \A k \in 1..Len(es) : new[p + k] = es[k]
    <2>1. new = ReplaceFrom(lg, p + 1, es)
      OBVIOUS
    <2> HIDE DEF p, es
    <2>2. PICK index : index = p + 1
      OBVIOUS
    <2>3. index \in Nat \ {0} /\ index - 1 = p /\ new = ReplaceFrom(lg, index, es)
      BY <1>1, <2>1, <2>2
    <2>4. \A k \in 1..Len(es) : Held(lg, index, es, k) => lg[index + k - 1] = es[k]
      BY <1>7, <2>2
    <2>5. \/ /\ index > Len(lg) + 1 \/ NotHeld(lg, index, es) = {}
             /\ ReplaceFrom(lg, index, es) = lg
          \/ /\ index - 1 <= Len(lg) /\ NotHeld(lg, index, es) # {}
             /\ Len(ReplaceFrom(lg, index, es)) = index - 1 + Len(es)
             /\ \A i \in 1..(index - 1) : ReplaceFrom(lg, index, es)[i] = lg[i]
             /\ \A k \in 1..Len(es) :
                  ReplaceFrom(lg, index, es)[index - 1 + k] = es[k]
      BY <1>1, <2>3, <2>4, ReplaceShape, Zenon
    <2> QED
      BY <2>3, <2>5
  <1> HIDE DEF V, M, W, p, es
  <1>9. CASE new = lg
    <2>1. W = V
      BY <1>9 DEF W, V
    <2> QED
      BY <1>6, <2>1 DEF W, V
  <1>10. CASE /\ p <= Len(lg) /\ Len(new) = p + Len(es)
              /\ \A i \in 1..p : new[i] = lg[i]
              /\ \A k \in 1..Len(es) : new[p + k] = es[k]
    <2>1. \A i \in 1..p : /\ Has(W, i) /\ Has(V, i) /\ At(W, i) = At(V, i)
                          /\ Knows(V, i) /\ TermOf(W, i) = TermOf(V, i)
                          /\ TermOf(V, i) = At(V, i).term
      <3>1. SUFFICES ASSUME NEW i \in 1..p
                     PROVE  /\ Has(W, i) /\ Has(V, i) /\ At(W, i) = At(V, i)
                            /\ Knows(V, i) /\ TermOf(W, i) = TermOf(V, i)
                            /\ TermOf(V, i) = At(V, i).term
        OBVIOUS
      <3>2. i \in Nat /\ i \in 1..Len(lg) /\ i \in 1..Len(new) /\ new[i] = lg[i]
        BY <1>1, <1>10
      <3>3. /\ Has(V, i) /\ Knows(V, i) /\ At(V, i) = lg[i]
            /\ TermOf(V, i) = lg[i].term
        BY <1>2, <3>2
      <3>4. Has(W, i) /\ At(W, i) = new[i] /\ TermOf(W, i) = new[i].term
        BY <1>3, <3>2
      <3> QED
        BY <3>2, <3>3, <3>4
    <2>2. \A i \in (p + 1)..Len(new) :
            /\ Has(W, i) /\ Has(M, i) /\ At(W, i) = At(M, i)
            /\ TermOf(W, i) = At(W, i).term
      <3>1. SUFFICES ASSUME NEW i \in (p + 1)..Len(new)
                     PROVE  /\ Has(W, i) /\ Has(M, i) /\ At(W, i) = At(M, i)
                            /\ TermOf(W, i) = At(W, i).term
        OBVIOUS
      <3>2. i - p \in 1..Len(es) /\ p + (i - p) = i /\ i \in 1..Len(new)
        BY <1>1, <1>10
      <3>3. new[i] = es[i - p] /\ At(M, i) = es[i - p]
        <4>1. new[p + (i - p)] = es[i - p] /\ At(M, p + (i - p)) = es[i - p]
          BY <1>5, <1>10, <3>2
        <4> QED
          BY <3>2, <4>1
      <3>4. i \in Nat /\ Has(M, i)
        BY <1>1, <1>5, <1>10, <3>2
      <3>5. Has(W, i) /\ At(W, i) = new[i] /\ TermOf(W, i) = new[i].term
        BY <1>3, <3>2, <3>4
      <3> QED
        BY <3>3, <3>4, <3>5
    <2>3. \A i \in Nat : Has(W, i) => i \in 1..p \/ i \in (p + 1)..Len(new)
      BY <1>1, <1>3, <1>10
    <2>4. ASSUME NEW i \in Nat, NEW j \in Nat, Has(W, i), Has(B, i),
                 At(W, i).term = At(B, i).term, j <= i
          PROVE  /\ Has(W, j) /\ Has(B, j) => At(W, j) = At(B, j)
                 /\ Knows(W, j) /\ Knows(B, j) => TermOf(W, j) = TermOf(B, j)
      <3>1. SUFFICES ASSUME j # 0, Knows(B, j)
                     PROVE  /\ Has(B, j) => At(W, j) = At(B, j)
                            /\ TermOf(W, j) = TermOf(B, j)
        <4>1. Has(W, 0) = FALSE /\ Knows(W, 0) = FALSE
          BY <1>3
        <4>2. Has(B, j) /\ j # 0 => Knows(B, j)
          BY DEF Knows
        <4> QED
          BY <3>1, <4>1, <4>2
      <3>2. CASE i \in 1..p
        <4>1. j \in 1..p
          BY <1>1, <2>4, <3>1, <3>2
        <4> QED
          BY <1>6, <2>1, <2>4, <3>1, <3>2, <4>1 DEF Agree
      <3>3. CASE i \in (p + 1)..Len(new) /\ j \in (p + 1)..Len(new)
        <4>1. Has(M, j) /\ TermOf(M, j) = At(M, j).term /\ Knows(M, j)
          BY <1>1, <2>2, <3>3 DEF TermOf, Knows
        <4> QED
          BY <1>6, <2>2, <2>4, <3>1, <3>3, <4>1 DEF Agree
      <3>4. CASE i \in (p + 1)..Len(new) /\ j \in 1..p
        <4>1. /\ p \in 1..p /\ p <= i /\ p \in 1..Len(lg) /\ ~ Has(M, p)
          BY <1>1, <1>5, <1>10, <3>4
        <4>2. Knows(M, p) /\ TermOf(M, p) = m.prev_log_term
          BY <1>1, <1>4, <4>1 DEF Knows, TermOf
        <4>3. Knows(B, p) /\ (Has(B, p) \/ j = p)
          <5>1. B.first \in Nat /\ Len(B.entries) \in Nat
            BY LenProperties DEF PieceType
          <5>2. j >= B.first /\ i <= B.first + Len(B.entries)
            BY <2>4, <3>1, <5>1 DEF Knows, Has
          <5> QED
            BY <1>1, <3>4, <4>1, <5>1, <5>2 DEF Knows, Has
        <4>4. TermOf(B, p) = m.prev_log_term
          BY <1>1, <1>6, <2>2, <2>4, <3>4, <4>1, <4>2, <4>3 DEF Agree
        <4>5. At(V, p).term = m.prev_log_term
          BY <1>2, <4>1 DEF TermAt, p
        <4>6. CASE Has(B, p)
          <5>1. At(B, p).term = At(V, p).term
            BY <4>4, <4>5, <4>6 DEF TermOf
          <5>2. j <= p
            BY <3>4
          <5> QED
            BY <1>1, <1>6, <2>1, <3>1, <3>4, <4>1, <4>6, <5>1, <5>2 DEF Agree
        <4>7. CASE ~ Has(B, p)
          <5>1. j = p /\ ~ Has(B, j)
            BY <4>3, <4>7
          <5> QED
            BY <2>1, <3>4, <4>1, <4>4, <4>5, <5>1
        <4> QED
          BY <4>6, <4>7
      <3> QED
        BY <1>1, <2>3, <2>4, <3>1, <3>2, <3>3, <3>4
    <2>5. Agree(W, B)
      BY <2>4 DEF Agree
    <2>6. \A i \in Nat :
            Has(W, i) => \/ Has(V, i) /\ At(W, i) = At(V, i)
                         \/ Has(M, i) /\ At(W, i) = At(M, i)
      BY <2>1, <2>2, <2>3
    <2> QED
      BY <2>5, <2>6 DEF W, V, M
  <1> QED
    BY <1>8, <1>9, <1>10
-----------------------------------------------------------------------------
(***************************************************************************)
(* The inductive invariant.                                                *)
(***************************************************************************)
Appends == {x \in Said : IsAppend(x)}

Pieces ==
    {Whole(log[n]) : n \in Node} \cup {Whole(disk[n].log) : n \in Node}
                                 \cup {Part(x) : x \in Appends}

PiecesAgree == \A A, B \in Pieces : Agree(A, B)

\* x has been the leader of term t, and has gone on from there.
Led(x, t) ==
    /\ Won(x, t)
    /\ \/ t < current_term[x]
       \/ t = current_term[x] /\ Vote(x) = x /\ r[x].kind # "Candidate"
    /\ \A y \in Said : IsGrant(y) /\ y.src = x => y.term # t
    /\ MaxLatePersists = 0 =>
         \/ t < disk[x].current_term
         \/ t = disk[x].current_term /\ disk[x].voted_for = x

\* An entry comes from the leader of its term.
EntriesLed ==
    \A A \in Pieces : \A i \in Nat :
        Has(A, i) => At(A, i).term > 0 /\ \E x \in Node : Led(x, At(A, i).term)

\* A leader has all entries of its term.
LeaderAhead ==
    \A n \in Node : is_leader(n) =>
        \A A \in Pieces : \A i \in Nat :
            Has(A, i) /\ At(A, i).term = current_term[n] => i <= Len(log[n])

NothingPending == \A n \in Node : pending[n] = {}

LogInv == PiecesAgree /\ EntriesLed /\ LeaderAhead /\ NothingPending

(***************************************************************************)
(* What a step of node n, other than a crash, may do.                      *)
(***************************************************************************)
HintForward(n) ==
    \/ Hint(n)' \in {None, Hint(n)}
    \/ \E m \in msgs : /\ IsAppend(m) /\ m.dst = n /\ m.src = Hint(n)'
                       /\ m.term = current_term[n]

Forward(n) ==
    /\ msgs \subseteq msgs'
    /\ MemoryForward
    /\ DiskForward
    /\ \A p \in Node \ {n} : /\ current_term'[p] = current_term[p]
                             /\ r'[p] = r[p]
                             /\ log'[p] = log[p]
    /\ \A x \in Said' : x \in Said \/ Speech(n, x)
    /\ r'[n].kind = "Candidate" =>
         r[n].kind = "Candidate" \/ current_term'[n] > current_term[n]
    /\ r'[n].kind = "Leader" =>
         r[n].kind # "Follower" /\ current_term'[n] = current_term[n]
    /\ HintForward(n)

LogChange(n) ==
    \/ log'[n] = log[n]
    \/ /\ r[n].kind = "Leader" /\ r'[n].kind = "Leader"
       /\ \E c \in Request : log'[n] = append(n, c)
    \/ /\ r'[n].kind # "Leader"
       /\ \E m \in msgs :
            /\ IsAppend(m) /\ m.dst = n /\ m.term = current_term[n]
            /\ PrevMatches(n, m)
            /\ log'[n] = ReplaceFrom(log[n], m.prev_log_index + 1, m.entries)

LogForward(n) ==
    /\ LogChange(n)
    /\ \A x \in Said' : \/ x \in Said
                        \/ IsAppend(x) => PartOf(Part(x), Whole(log'[n]))
    /\ NothingPending'
-----------------------------------------------------------------------------
(***************************************************************************)
(* Who has led a term.                                                     *)
(***************************************************************************)

\* A leader has led its term.
LeaderHasLed ==
    TypeOK /\ VoteInv /\ ElectionInv =>
        \A n \in Node : is_leader(n) => Led(n, current_term[n])

LEMMA LeadersHaveLed == LeaderHasLed
  <1> SUFFICES ASSUME TypeOK, VoteInv, ElectionInv, NEW n \in Node, is_leader(n)
               PROVE  Led(n, current_term[n])
    BY DEF LeaderHasLed
  <1>1. Won(n, current_term[n])
    BY DEF ElectionInv, LeaderWon
  <1>2. Vote(n) = n /\ r[n].kind = "Leader"
    BY DEF is_leader, Vote
  <1>3. ASSUME NEW y \in Said, IsGrant(y), y.src = n, y.term = current_term[n]
        PROVE  FALSE
    <2>1. KeptInMemory(y) /\ y.src # y.dst /\ current_term[n] \in Nat
      BY NodeType DEF VoteInv, MemoryKeeps, ElectionInv, NotToSelf
    <2> QED
      BY <1>2, <1>3, <2>1 DEF KeptInMemory
  <1>4. MaxLatePersists = 0 => /\ disk[n].current_term = current_term[n]
                               /\ disk[n].voted_for = n
    BY DEF ElectionInv, SelfVoteOnDisk
  <1> QED
    BY <1>1, <1>2, <1>3, <1>4 DEF Led

LEMMA LeadersHaveLedNext == LeaderHasLed'
  BY LeadersHaveLed, PTL

\* Nobody else has led the term of a leader: majorities meet.
LedUnique ==
    TypeOK /\ VoteInv /\ ElectionInv =>
        \A n, x \in Node :
            is_leader(n) /\ Led(x, current_term[n]) => x = n

LEMMA LeadersAreUnique == LedUnique
  <1> SUFFICES ASSUME TypeOK, VoteInv, ElectionInv, NEW n \in Node,
                      NEW x \in Node, is_leader(n), Led(x, current_term[n]),
                      x # n
               PROVE  FALSE
    BY DEF LedUnique
  <1>1. PICK t : t = current_term[n]
    OBVIOUS
  <1>2. Led(n, t) /\ Led(x, t)
    BY <1>1, LeadersHaveLed DEF LeaderHasLed
  <1>3. ASSUME NEW v \in {n, x}, NEW c \in Node, Granted(v, c, t)
        PROVE  FALSE
    <2>1. PICK y \in msgs : IsGrant(y) /\ y.src = v /\ y.dst = c /\ y.term = t
      BY <1>3 DEF Granted, IsGrant
    <2> QED
      BY <1>2, <2>1 DEF Led, Said
  <1>4. PICK P \in SUBSET Node :
          /\ WonElection(Cardinality(P), Cardinality(Node))
          /\ \A v \in P \ {n} : Granted(v, n, t)
    BY <1>2 DEF Led, Won
  <1>5. PICK Q \in SUBSET Node :
          /\ WonElection(Cardinality(Q), Cardinality(Node))
          /\ \A v \in Q \ {x} : Granted(v, x, t)
    BY <1>2 DEF Led, Won
  <1>6. PICK v \in P \cap Q : v \in Node
    BY <1>4, <1>5, MajoritiesMeet
  <1>7. CASE v \in {n, x}
    BY <1>3, <1>4, <1>5, <1>6, <1>7
  <1>8. CASE v \notin {n, x}
    <2>1. Granted(v, n, t) /\ Granted(v, x, t)
      BY <1>4, <1>5, <1>6, <1>8
    <2>2. t \in Terms
      BY <2>1 DEF Granted, Terms
    <2> QED
      BY <1>6, <2>1, <2>2, VoteInvSuffices DEF OneVotePerTerm
  <1> QED
    BY <1>7, <1>8

LEMMA LeadersAreUniqueNext == LedUnique'
  BY LeadersAreUnique, PTL

\* Who has led a term will always have led it.
LEMMA LedForever ==
    ASSUME TypeOK, TypeOK', VoteInv, ElectionInv, NEW n \in Node, Forward(n),
           NEW x \in Node, NEW t \in Nat, Led(x, t)
    PROVE  Led(x, t)'
  <1>1. Won(x, t)'
    BY WonForever DEF Forward, Led
  <1>2. /\ current_term[x] \in Nat /\ current_term'[x] \in Nat /\ x # None
        /\ disk[x].current_term \in Nat /\ disk'[x].current_term \in Nat
    BY NodeAssumption DEF TypeOK
  <1>3. \/ current_term'[x] > current_term[x]
        \/ current_term'[x] = current_term[x] /\ Vote(x) \in {None, Vote(x)'}
    BY DEF Forward, MemoryForward
  <1>4. \/ t < current_term'[x]
        \/ t = current_term'[x] /\ Vote(x)' = x /\ r'[x].kind # "Candidate"
    <2>1. r'[x].kind = "Candidate" =>
            r[x].kind = "Candidate" \/ current_term'[x] > current_term[x]
      BY DEF Forward
    <2> QED
      BY <1>2, <1>3, <2>1 DEF Led
  <1>5. ASSUME NEW y \in Said', IsGrant(y), y.src = x, y.term = t
        PROVE  FALSE
    <2>1. CASE y \in Said
      BY <1>5, <2>1 DEF Led
    <2>2. CASE y \notin Said
      <3>1. y.src = n /\ y.dst # n /\ Promise(y)
        BY <1>5, <2>2 DEF Forward, Speech
      <3>2. t = current_term[x] /\ Vote(x) \in {None, y.dst}
        BY <1>5, <3>1 DEF Promise
      <3>3. Vote(x) = x
        BY <1>2, <3>2 DEF Led
      <3> QED
        BY <1>2, <1>5, <3>1, <3>2, <3>3
    <2> QED
      BY <2>1, <2>2
  <1>6. MaxLatePersists = 0 =>
          \/ t < disk'[x].current_term
          \/ t = disk'[x].current_term /\ disk'[x].voted_for = x
    <2>1. CASE disk'[x] = disk[x]
      BY <2>1 DEF Led
    <2>2. CASE disk'[x] = Persistent(x)'
      BY <1>4, <2>2, PersistentParts
    <2> QED
      BY <2>1, <2>2 DEF Forward, DiskForward
  <1> QED
    BY <1>1, <1>4, <1>5, <1>6 DEF Led, IsGrant
-----------------------------------------------------------------------------
(***************************************************************************)
(* The step lemma.                                                         *)
(***************************************************************************)

\* What the pieces are.
LEMMA PiecesAre ==
    ASSUME TypeOK
    PROVE  /\ \A n \in Node : Whole(log[n]) \in Pieces
           /\ \A n \in Node : Whole(disk[n].log) \in Pieces
           /\ \A x \in Said : IsAppend(x) => Part(x) \in Pieces
           /\ Pieces \subseteq PieceType
           /\ \A A \in Pieces : \A i \in Nat : Has(A, i) => At(A, i) \in Entry
  <1>1. /\ \A n \in Node : Whole(log[n]) \in Pieces
        /\ \A n \in Node : Whole(disk[n].log) \in Pieces
        /\ \A x \in Said : IsAppend(x) => Part(x) \in Pieces
    BY DEF Pieces, Appends
  <1>2. \A n \in Node : log[n] \in Seq(Entry) /\ disk[n].log \in Seq(Entry)
    BY DEF TypeOK
  <1>3. \A x \in Said : IsAppend(x) => Part(x) \in PieceType
    BY SaidType, PartHas
  <1>4. \A n \in Node : /\ Whole(log[n]) \in PieceType
                        /\ Whole(disk[n].log) \in PieceType
    BY <1>2, WholeHas
  <1>5. Pieces \subseteq PieceType
    BY <1>3, <1>4 DEF Pieces, Appends
  <1>6. ASSUME NEW A \in Pieces, NEW i \in Nat, Has(A, i)
        PROVE  At(A, i) \in Entry
    <2>1. A.first \in Nat /\ A.entries \in Seq(Entry) /\ Len(A.entries) \in Nat
      BY <1>5, LenProperties DEF PieceType
    <2>2. i - A.first \in 1..Len(A.entries)
      BY <1>6, <2>1 DEF Has
    <2> QED
      BY <2>1, <2>2, ElementOfSeq DEF At
  <1> QED
    BY <1>1, <1>5, <1>6

\* A piece after the step is part of one before, or of the new log.
LEMMA PiecesFrom ==
    ASSUME NEW n \in Node, Forward(n), LogForward(n), NEW A \in Pieces'
    PROVE  (\E B \in Pieces : PartOf(A, B)) \/ PartOf(A, Whole(log'[n]))
  <1>1. ASSUME A \in Pieces PROVE \E B \in Pieces : PartOf(A, B)
    BY <1>1, AgreeSelf
  <1>2. \/ \E p \in Node : A = Whole(log'[p])
        \/ \E p \in Node : A = Whole(disk'[p].log)
        \/ \E x \in Said' : IsAppend(x) /\ A = Part(x)
    BY DEF Pieces, Appends, IsAppend
  <1>3. ASSUME NEW p \in Node, A = Whole(log'[p])
        PROVE  A \in Pieces \/ A = Whole(log'[n])
    BY <1>3 DEF Forward, Pieces
  <1>4. ASSUME NEW p \in Node, A = Whole(disk'[p].log)
        PROVE  A \in Pieces \/ A = Whole(log'[p])
    <2>1. CASE disk'[p] = disk[p]
      BY <1>4, <2>1 DEF Pieces
    <2>2. CASE disk'[p] = Persistent(p)'
      BY <1>4, <2>2 DEF Persistent
    <2> QED
      BY <2>1, <2>2 DEF Forward, DiskForward
  <1>5. ASSUME NEW x \in Said', IsAppend(x), A = Part(x)
        PROVE  A \in Pieces \/ PartOf(A, Whole(log'[n]))
    <2>1. CASE x \in Said
      BY <1>5, <2>1 DEF Pieces, Appends
    <2>2. CASE x \notin Said
      BY <1>5, <2>2 DEF LogForward
    <2> QED
      BY <2>1, <2>2
  <1> QED
    BY <1>1, <1>2, <1>3, <1>4, <1>5, AgreeSelf

\* An entry that a step of n adds: by a leader, in its term.
Adds(n, W, i) ==
    /\ r[n].kind = "Leader" /\ r'[n].kind = "Leader"
    /\ At(W, i).term = current_term[n]
    /\ i <= Len(log'[n])

\* The new log agrees with all pieces before the step, and adds to their
\* entries at most one, of the term of a leader.
LEMMA NewLogAgrees ==
    ASSUME TypeOK, TypeOK', LogInv, NEW n \in Node, Forward(n), LogForward(n),
           NEW W, W = Whole(log'[n])
    PROVE  /\ \A B \in Pieces : Agree(W, B)
           /\ \A i \in Nat : Has(W, i) =>
                \/ \E B \in Pieces : Has(B, i) /\ At(B, i) = At(W, i)
                \/ Adds(n, W, i)
  <1> DEFINE Goal == /\ \A B \in Pieces : Agree(W, B)
                     /\ \A i \in Nat : Has(W, i) =>
                          \/ \E B \in Pieces : Has(B, i) /\ At(B, i) = At(W, i)
                          \/ Adds(n, W, i)
  <1>1. /\ log[n] \in Seq(Entry) /\ log'[n] \in Seq(Entry)
        /\ current_term[n] \in Nat /\ Len(log[n]) \in Nat
        /\ Whole(log[n]) \in Pieces /\ Pieces \subseteq PieceType
    BY NodeType, PiecesAre DEF TypeOK
  <1>2. \A A, B \in Pieces : Agree(A, B)
    BY DEF LogInv, PiecesAgree
  <1>3. CASE log'[n] = log[n]
    BY <1>1, <1>2, <1>3
  <1>4. ASSUME NEW c \in Request, log'[n] = append(n, c),
               r[n].kind = "Leader", r'[n].kind = "Leader"
        PROVE  Goal
    <2>1. PICK e \in Entry : /\ e.term = current_term[n]
                             /\ log'[n] = Append(log[n], e)
      BY <1>1, <1>4 DEF append, Entry
    <2>2. ASSUME NEW B \in Pieces PROVE Agree(W, B)
      <3>1. \A i \in Nat : Has(B, i) /\ At(B, i).term = e.term =>
                               i <= Len(log[n])
        BY <1>4, <2>1 DEF LogInv, LeaderAhead, is_leader
      <3>2. Agree(Whole(log[n]), B) /\ B \in PieceType
        BY <1>1, <1>2
      <3> QED
        BY <1>1, <2>1, <3>1, <3>2, AppendAgrees
    <2>3. ASSUME NEW i \in Nat, Has(W, i)
          PROVE  \/ \E B \in Pieces : Has(B, i) /\ At(B, i) = At(W, i)
                 \/ Adds(n, W, i)
      <3>1. /\ Len(log'[n]) = Len(log[n]) + 1
            /\ \A j \in 1..Len(log[n]) : log'[n][j] = log[n][j]
            /\ log'[n][Len(log[n]) + 1] = e
        BY <1>1, <2>1, AppendProperties
      <3>2. i \in 1..Len(log'[n]) /\ At(W, i) = log'[n][i]
        BY <1>1, <2>3, WholeHas
      <3>3. CASE i \in 1..Len(log[n])
        <4>1. Has(Whole(log[n]), i) /\ At(Whole(log[n]), i) = log[n][i]
          BY <1>1, <3>3, WholeHas
        <4> QED
          BY <1>1, <3>1, <3>2, <3>3, <4>1
      <3>4. CASE i = Len(log[n]) + 1
        BY <1>1, <1>4, <2>1, <3>1, <3>2, <3>4 DEF Adds
      <3> QED
        BY <1>1, <3>1, <3>2, <3>3, <3>4
    <2> QED
      BY <2>2, <2>3
  <1>5. ASSUME NEW m \in msgs, IsAppend(m), PrevMatches(n, m),
               log'[n] = ReplaceFrom(log[n], m.prev_log_index + 1, m.entries)
        PROVE  Goal
    <2>1. m \in Message /\ Part(m) \in Pieces
      BY <1>5, PiecesAre DEF TypeOK, Said
    <2>2. TermAt(log[n], m.prev_log_index) = m.prev_log_term
      BY <1>5 DEF PrevMatches
    <2>3. ASSUME NEW B \in Pieces
          PROVE  /\ Agree(W, B)
                 /\ \A i \in Nat : Has(W, i) =>
                      \/ /\ Has(Whole(log[n]), i)
                         /\ At(W, i) = At(Whole(log[n]), i)
                      \/ Has(Part(m), i) /\ At(W, i) = At(Part(m), i)
      <3>1. /\ Agree(Whole(log[n]), Part(m)) /\ Agree(Whole(log[n]), B)
            /\ Agree(Part(m), B) /\ B \in PieceType
        BY <1>1, <1>2, <2>1
      <3> QED
        BY <1>1, <1>5, <2>1, <2>2, <3>1, ReplaceAgrees
    <2> QED
      BY <1>1, <2>1, <2>3
  <1> QED
    BY <1>3, <1>4, <1>5 DEF LogForward, LogChange

\* A step that moves forward preserves the invariant.
LEMMA LogStep ==
    ASSUME TypeInv, TypeOK', VoteInv, VoteInv', ElectionInv, ElectionInv',
           LogInv, NEW n \in Node, Forward(n), LogForward(n)
    PROVE  LogInv'
  <1>1. PICK W : W = Whole(log'[n])
    OBVIOUS
  <1>2. TypeOK /\ \A p \in Node : current_term[p] \in Nat
    BY DEF TypeInv, TypeOK
  <1>3. /\ \A B \in Pieces : Agree(W, B)
        /\ \A i \in Nat : Has(W, i) =>
             \/ \E B \in Pieces : Has(B, i) /\ At(B, i) = At(W, i)
             \/ Adds(n, W, i)
    BY <1>1, <1>2, NewLogAgrees
  <1>4. \A A \in Pieces' : (\E B \in Pieces : PartOf(A, B)) \/ PartOf(A, W)
    BY <1>1, PiecesFrom
  <1>5. PiecesAgree'
    <2>1. SUFFICES ASSUME NEW A \in Pieces', NEW B \in Pieces'
                   PROVE  Agree(A, B)
      BY DEF PiecesAgree
    <2>2. PICK C : PartOf(A, C) /\ (C \in Pieces \/ C = W)
      BY <1>4
    <2>3. PICK D : PartOf(B, D) /\ (D \in Pieces \/ D = W)
      BY <1>4
    <2>4. Agree(C, D)
      BY <1>3, <2>2, <2>3, AgreeSelf, AgreeSym DEF LogInv, PiecesAgree
    <2>5. Agree(D, A)
      BY <2>2, <2>4, PartAgrees, AgreeSym
    <2> QED
      BY <2>3, <2>5, PartAgrees, AgreeSym
  <1>6. ASSUME NEW A \in Pieces', NEW i \in Nat, Has(A, i)
        PROVE  \/ \E B \in Pieces : Has(B, i) /\ At(B, i) = At(A, i)
               \/ At(A, i) = At(W, i) /\ Adds(n, W, i)
    <2>1. PICK C : PartOf(A, C) /\ (C \in Pieces \/ C = W)
      BY <1>4
    <2>2. i <= i
      OBVIOUS
    <2>3. Has(C, i) /\ At(A, i) = At(C, i)
      BY <1>6, <2>1, <2>2 DEF PartOf
    <2> QED
      BY <1>3, <2>1, <2>3
  <1>7. r'[n].kind = "Leader" => current_term'[n] = current_term[n]
    BY DEF Forward
  <1>8. ASSUME NEW t \in Nat, NEW x \in Node, Led(x, t) PROVE Led(x, t)'
    BY <1>2, <1>8, LedForever
  <1>9. ASSUME r'[n].kind = "Leader" PROVE Led(n, current_term[n])'
    BY <1>9, LeadersHaveLedNext DEF LeaderHasLed, is_leader
  <1>10. EntriesLed'
    <2>1. SUFFICES ASSUME NEW A \in Pieces', NEW i \in Nat, Has(A, i)
                   PROVE  /\ At(A, i).term > 0
                          /\ \E x \in Node : Led(x, At(A, i).term)'
      BY DEF EntriesLed
    <2>2. CASE \E B \in Pieces : Has(B, i) /\ At(B, i) = At(A, i)
      <3>1. PICK B \in Pieces : Has(B, i) /\ At(B, i) = At(A, i)
        BY <2>2
      <3>2. PICK t \in Nat : t = At(A, i).term
        BY <1>2, <3>1, PiecesAre DEF Entry
      <3>3. t > 0 /\ \E x \in Node : Led(x, t)
        BY <3>1, <3>2 DEF LogInv, EntriesLed
      <3>4. PICK x \in Node : Led(x, t)'
        BY <1>8, <3>3
      <3> QED
        BY <3>2, <3>3, <3>4
    <2>3. CASE At(A, i) = At(W, i) /\ Adds(n, W, i)
      <3>1. /\ At(A, i).term = current_term[n]
            /\ r[n].kind = "Leader" /\ r'[n].kind = "Leader"
        BY <2>3 DEF Adds
      <3>2. current_term[n] > 0
        BY <3>1 DEF TypeInv, LeadingTerm
      <3> QED
        BY <1>7, <1>9, <3>1, <3>2
    <2> QED
      BY <1>6, <2>1, <2>2, <2>3
  <1>11. LeaderAhead'
    <2>1. SUFFICES ASSUME NEW p \in Node, r'[p].kind = "Leader",
                          NEW A \in Pieces', NEW i \in Nat, Has(A, i),
                          At(A, i).term = current_term'[p]
                   PROVE  i <= Len(log'[p])
      BY DEF LeaderAhead, is_leader
    <2>2. PICK t \in Nat : t = current_term[p] /\ t = current_term'[p]
      BY <1>2, <1>7, <2>1 DEF Forward
    <2>3. \A x \in Node : Led(x, t)' => x = p
      BY <2>1, <2>2, LeadersAreUniqueNext DEF LedUnique, is_leader
    <2>4. CASE \E B \in Pieces : Has(B, i) /\ At(B, i) = At(A, i)
      <3>1. PICK B \in Pieces : Has(B, i) /\ At(B, i).term = t
        BY <2>1, <2>2, <2>4
      <3>2. r[p].kind = "Leader"
        <4>1. PICK x \in Node : Led(x, t)
          BY <3>1 DEF LogInv, EntriesLed
        <4>2. Led(p, t)
          BY <1>8, <2>3, <4>1
        <4>3. r[p].kind # "Candidate"
          BY <2>2, <4>2 DEF Led
        <4>4. r[p].kind \in {"Follower", "Candidate", "Leader"}
          BY <1>2, NodeType, RoleType
        <4> QED
          BY <2>1, <4>3, <4>4 DEF Forward
      <3>3. i <= Len(log[p])
        BY <2>2, <3>1, <3>2 DEF LogInv, LeaderAhead, is_leader
      <3>4. Len(log[p]) \in Nat /\ Len(log'[p]) \in Nat
        BY <1>2, LenProperties DEF TypeOK
      <3>5. Len(log[p]) <= Len(log'[p])
        <4>1. CASE log'[p] = log[p]
          BY <3>4, <4>1
        <4>2. CASE log'[p] # log[p]
          <5>1. p = n
            BY <4>2 DEF Forward
          <5>2. PICK c \in Request : log'[p] = append(p, c)
            BY <2>1, <4>2, <5>1 DEF LogForward, LogChange
          <5>3. /\ log[p] \in Seq(Entry)
                /\ [term |-> current_term[p], cmd |-> c] \in Entry
            BY <1>2 DEF TypeOK, Entry
          <5> QED
            BY <3>4, <5>2, <5>3, AppendProperties DEF append
        <4> QED
          BY <4>1, <4>2
      <3> QED
        BY <3>3, <3>4, <3>5
    <2>5. CASE At(A, i) = At(W, i) /\ Adds(n, W, i)
      <3>1. /\ current_term[n] = t /\ r'[n].kind = "Leader"
            /\ i <= Len(log'[n])
        BY <2>1, <2>2, <2>5 DEF Adds
      <3>2. Led(n, t)'
        BY <1>7, <1>9, <3>1
      <3> QED
        BY <2>3, <3>1, <3>2
    <2> QED
      BY <1>6, <2>1, <2>4, <2>5
  <1>12. NothingPending'
    BY DEF LogForward
  <1> QED
    BY <1>5, <1>10, <1>11, <1>12 DEF LogInv
-----------------------------------------------------------------------------
(***************************************************************************)
(* Every action other than a crash moves forward.                          *)
(***************************************************************************)
MovesForward(n) ==
    /\ Forward(n)
    /\ NothingPending /\ MaxLateAppends = 0 => LogForward(n)

\* A handler, which ends with persisting and responding, now or later.
LEMMA HandlerForward ==
    ASSUME TypeOK, NEW n \in Node, NEW m, NEW responses,
           rpc[n].phase # "handled", Finish(n, m, responses), MemoryForward,
           UNCHANGED <<current_term, pending>>,
           NEW x, r' = [r EXCEPT ![n] = x],
           x.kind = "Candidate" => r[n].kind = "Candidate",
           x.kind = "Leader" => r[n].kind # "Follower",
           \A p \in Node \ {n} : log'[p] = log[p],
           \A y \in responses :
               Speech(n, y) /\ (IsAppend(y) => PartOf(Part(y), Whole(log'[n]))),
           HintForward(n), LogChange(n)
    PROVE  MovesForward(n)
  <1>1. r'[n] = x /\ \A p \in Node \ {n} : r'[p] = r[p]
    BY DEF TypeOK
  <1>2. /\ msgs \subseteq msgs' /\ DiskForward
        /\ Said' \subseteq Said \cup responses
    <2>1. CASE FinishNow(n, m, responses)
      <3>1. /\ msgs' = msgs \cup responses
            /\ disk' = [disk EXCEPT ![n] = Persistent(n)']
            /\ rpc' = [rpc EXCEPT ![n] = Idle]
        BY <2>1 DEF FinishNow
      <3>2. /\ disk'[n] = Persistent(n)' /\ rpc'[n].phase = "idle"
            /\ \A p \in Node \ {n} : disk'[p] = disk[p] /\ rpc'[p] = rpc[p]
        BY <3>1 DEF TypeOK, Idle
      <3>3. Outbox(n)' = {} /\ \A p \in Node \ {n} : Outbox(p)' = Outbox(p)
        BY <3>2 DEF Outbox
      <3> QED
        BY <3>1, <3>2, <3>3 DEF Said, DiskForward
    <2>2. CASE FinishLater(n, m, responses)
      <3>1. /\ UNCHANGED <<disk, msgs>>
            /\ rpc' = [rpc EXCEPT ![n] =
                         [phase |-> "handled", work |-> responses]]
        BY <2>2 DEF FinishLater
      <3>2. /\ rpc'[n].phase = "handled" /\ rpc'[n].work = responses
            /\ \A p \in Node \ {n} : rpc'[p] = rpc[p]
        BY <3>1 DEF TypeOK
      <3>3. /\ Outbox(n)' = responses
            /\ \A p \in Node \ {n} : Outbox(p)' = Outbox(p)
        BY <3>2 DEF Outbox
      <3> QED
        BY <3>1, <3>3 DEF Said, DiskForward
    <2> QED
      BY <2>1, <2>2 DEF Finish
  <1>3. Forward(n)
    BY <1>1, <1>2 DEF Forward
  <1>4. NothingPending => LogForward(n)
    BY <1>2 DEF LogForward, NothingPending
  <1> QED
    BY <1>3, <1>4 DEF MovesForward

\* A step of another thread, or of the RPC thread without a response.
LEMMA QuietStepForward ==
    ASSUME NEW n \in Node, MemoryForward, UNCHANGED disk,
           msgs \subseteq msgs',
           \A p \in Node \ {n} : /\ current_term'[p] = current_term[p]
                                 /\ r'[p] = r[p]
                                 /\ log'[p] = log[p]
                                 /\ rpc'[p] = rpc[p],
           rpc'[n].phase # "handled" \/ rpc'[n] = rpc[n],
           r'[n].kind = "Candidate" =>
               r[n].kind = "Candidate" \/ current_term'[n] > current_term[n],
           r'[n].kind = "Leader" =>
               r[n].kind # "Follower" /\ current_term'[n] = current_term[n],
           \A y \in msgs' : \/ y \in msgs
                            \/ /\ Speech(n, y)
                               /\ IsAppend(y) =>
                                    PartOf(Part(y), Whole(log'[n])),
           HintForward(n),
           NothingPending /\ MaxLateAppends = 0 =>
               LogChange(n) /\ NothingPending'
    PROVE  MovesForward(n)
  <1>1. \A p \in Node : Outbox(p)' \subseteq Outbox(p)
    BY DEF Outbox
  <1>2. Said' \subseteq Said \cup (msgs' \ msgs)
    BY <1>1 DEF Said
  <1>3. Forward(n)
    BY <1>2 DEF Forward, DiskForward
  <1>4. NothingPending /\ MaxLateAppends = 0 => LogForward(n)
    BY <1>2 DEF LogForward
  <1> QED
    BY <1>3, <1>4 DEF MovesForward

\* What a leader sends from its log.
LEMMA ReplicateIsPart ==
    ASSUME TypeOK, NEW n \in Node, NEW lg \in Seq(Entry),
           NEW next \in [Peers(n) -> Nat \ {0}], NEW hb \in BOOLEAN,
           NEW y \in replicate_log(n, lg, next, hb)
    PROVE  /\ y.src = n /\ y.dst # n /\ IsAppend(y) /\ ~ IsGrant(y)
           /\ y.term = current_term[n]
           /\ PartOf(Part(y), Whole(lg))
  <1>1. PICK p \in Peers(n) : y = AppendEntriesTo(n, lg, p, next[p])
    BY DEF replicate_log
  <1>2. PICK k : k = next[p] /\ k \in Nat \ {0}
    OBVIOUS
  <1>3. y \in Message
    BY ReplicateType
  <1>4. /\ y.src = n /\ y.dst = p /\ y.type = "AppendEntries"
        /\ y.term = current_term[n] /\ y.prev_log_index = k - 1
        /\ y.prev_log_term = TermAt(lg, k - 1) /\ y.entries = GetFrom(lg, k)
    BY <1>1, <1>2 DEF AppendEntriesTo
  <1>5. PartOf(Part(y), Whole(lg))
    BY <1>2, <1>3, <1>4, SentIsPart DEF IsAppend
  <1> QED
    BY <1>4, <1>5 DEF IsAppend, IsGrant, Peers

\* The same when the rate limit may suppress it.
LEMMA ReplicationsArePart ==
    ASSUME TypeOK, NEW n \in Node, NEW lg \in Seq(Entry),
           NEW next \in [Peers(n) -> Nat \ {0}],
           NEW sent \in Replications(n, lg, next), NEW y \in sent
    PROVE  /\ y.src = n /\ y.dst # n /\ IsAppend(y) /\ ~ IsGrant(y)
           /\ y.term = current_term[n]
           /\ PartOf(Part(y), Whole(lg))
  <1>1. PICK hb \in BOOLEAN : y \in replicate_log(n, lg, next, hb)
    BY DEF Replications
  <1> QED
    BY <1>1, ReplicateIsPart

\* Starting an election.
LEMMA BecomeCandidateForward ==
    ASSUME TypeOK, TypeOK', VoteInv, NEW n \in Node, BecomeCandidate(n)
    PROVE  MovesForward(n)
  <1>1. MemoryForward
    BY TermForwardVotes
  <1>2. /\ msgs' = msgs \cup RequestVotes(n, current_term[n] + 1)
        /\ UNCHANGED <<disk, rpc, log, pending>>
        /\ r'[n] = Candidate({n}) /\ current_term'[n] > current_term[n]
        /\ \A p \in Node \ {n} : /\ current_term'[p] = current_term[p]
                                 /\ r'[p] = r[p]
    <2>1. current_term[n] \in Nat
      BY NodeType
    <2> QED
      BY <2>1 DEF BecomeCandidate, TypeOK, clientVars
  <1>3. r'[n].kind = "Candidate"
    BY <1>2 DEF Candidate
  <1>4. \A y \in RequestVotes(n, current_term[n] + 1) :
           y.src = n /\ y.dst # n /\ ~ IsGrant(y) /\ ~ IsAppend(y)
    BY DEF RequestVotes, Peers, IsGrant, IsAppend
  <1>5. \A y \in msgs' : y \in msgs \/ (Speech(n, y) /\ ~ IsAppend(y))
    BY <1>2, <1>4 DEF Speech
  <1>6. HintForward(n)
    BY <1>3 DEF HintForward, Hint
  <1>7. LogChange(n) /\ (NothingPending => NothingPending')
    BY <1>2 DEF LogChange, NothingPending
  <1> QED
    BY <1>1, <1>2, <1>3, <1>5, <1>6, <1>7, QuietStepForward

\* Stepping down keeps the leader that a follower believes in.
LEMMA MaybeStepDownForward ==
    ASSUME TypeOK, TypeOK', VoteInv, NEW n \in Node, NEW m \in msgs,
           MaybeStepDown(n, m)
    PROVE  MovesForward(n)
  <1>1. MemoryForward
    BY TermForwardVotes
  <1>2. /\ r'[n] = become_follower(n, None) /\ rpc'[n].phase = "stepped"
        /\ UNCHANGED <<disk, msgs, log, pending>>
        /\ \A p \in Node \ {n} : /\ current_term'[p] = current_term[p]
                                 /\ r'[p] = r[p]
                                 /\ rpc'[p] = rpc[p]
    BY DEF MaybeStepDown, TypeOK, clientVars
  <1>3. r'[n].kind = "Follower" /\ Hint(n)' \in {None, Hint(n)}
    <2>1. CASE r[n].kind = "Follower"
      BY <1>2, <2>1 DEF become_follower, Hint
    <2>2. CASE r[n].kind # "Follower"
      BY <1>2, <2>2 DEF become_follower, Hint, Follower
    <2> QED
      BY <2>1, <2>2
  <1>4. HintForward(n)
    BY <1>3 DEF HintForward
  <1>5. LogChange(n) /\ (NothingPending => NothingPending')
    BY <1>2 DEF LogChange, NothingPending
  <1> QED
    BY <1>1, <1>2, <1>3, <1>4, <1>5, QuietStepForward

\* A handler that sends no entries and leaves the log alone.
LEMMA PlainHandlerForward ==
    ASSUME TypeOK, NEW n \in Node, NEW m, NEW responses,
           rpc[n].phase # "handled", Finish(n, m, responses), MemoryForward,
           UNCHANGED <<current_term, pending, log>>,
           NEW x, r' = [r EXCEPT ![n] = x], x.kind = r[n].kind,
           \A y \in responses : Speech(n, y) /\ ~ IsAppend(y),
           HintForward(n)
    PROVE  MovesForward(n)
  <1>1. LogChange(n)
    BY DEF LogChange
  <1> QED
    BY <1>1, HandlerForward

\* A handler that ignores its message.
LEMMA SilentHandlerForward ==
    ASSUME TypeOK, NEW n \in Node, NEW m, rpc[n].phase # "handled",
           Finish(n, m, {}), UNCHANGED <<current_term, pending, log, r>>
    PROVE  MovesForward(n)
  <1> DEFINE responses == {}
  <1>1. Finish(n, m, responses) /\ \A y \in responses : Speech(n, y) /\ ~ IsAppend(y)
    OBVIOUS
  <1>2. r' = [r EXCEPT ![n] = r[n]]
    BY DEF TypeOK
  <1>3. HintForward(n)
    BY DEF HintForward, Hint
  <1> HIDE DEF responses
  <1> QED
    BY <1>1, <1>2, <1>3, StillForward, PlainHandlerForward

\* handle_vote_request leaves the log and the believed leader alone.
LEMMA HandleVoteRequestForward ==
    ASSUME TypeOK, ElectionInv, NEW n \in Node, NEW m \in msgs,
           HandleVoteRequest(n, m)
    PROVE  MovesForward(n)
  <1> DEFINE x == IF GrantsVote(n, m)
                  THEN [r[n] EXCEPT !.voted_for = m.src] ELSE r[n]
             responses == {RequestVoteResponse(n, m, GrantsVote(n, m))}
  <1>1. rpc[n].phase # "handled" /\ m.dst = n /\ r[n] \in Role(n)
    BY HandlingPhase, NodeType DEF HandleVoteRequest
  <1>2. /\ UNCHANGED <<current_term, pending, log>> /\ Finish(n, m, responses)
        /\ r' = [r EXCEPT ![n] = x] /\ r'[n] = x
    BY DEF HandleVoteRequest, clientVars, TypeOK
  <1>3. x.kind = r[n].kind /\ (x.kind = "Follower" => x.leader = r[n].leader)
    <2>1. CASE GrantsVote(n, m)
      <3>1. PICK a, b : r[n] = Follower(a, b)
        BY <1>1, <2>1, RoleType DEF GrantsVote
      <3>2. x = Follower(a, m.src)
        BY <2>1, <3>1 DEF Follower
      <3> QED
        BY <3>1, <3>2 DEF Follower
    <2>2. CASE ~ GrantsVote(n, m)
      BY <2>2
    <2> QED
      BY <2>1, <2>2
  <1>4. m.src # n
    BY <1>1 DEF ElectionInv, NotToSelf, Said
  <1>5. MemoryForward /\ \A y \in responses : Speech(n, y) /\ ~ IsAppend(y)
    BY <1>4, VoteRequestPromise DEF Speech, IsAppend
  <1> HIDE DEF x, responses
  <1>6. HintForward(n)
    BY <1>2, <1>3 DEF HintForward, Hint
  <1> QED
    BY <1>1, <1>2, <1>3, <1>5, <1>6, PlainHandlerForward

\* handle_vote_response: a new leader sends from the log it has.
LEMMA HandleVoteResponseForward ==
    ASSUME TypeInv, TypeOK', VoteInv, NEW n \in Node, NEW m \in msgs,
           HandleVoteResponse(n, m)
    PROVE  MovesForward(n)
  <1>1. /\ rpc[n].phase # "handled" /\ TypeOK
        /\ r[n] \in Role(n) /\ log[n] \in Seq(Entry) /\ Len(log[n]) \in Nat
    BY HandlingPhase, NodeType DEF TypeInv, HandleVoteResponse
  <1>2. CASE CountVote(n, m)
    <2> DEFINE votes == r[n].votes \cup {m.src}
               won == WonElection(Cardinality(votes), Cardinality(Node))
               x == IF won THEN NewLeader(n) ELSE Candidate(votes)
               all == replicate_log(n, log[n], InitialNext(n), TRUE)
               sent == IF won THEN all ELSE {}
    <2>1. /\ r' = [r EXCEPT ![n] = x] /\ r'[n] = x
          /\ UNCHANGED <<current_term, log, pending>>
          /\ Finish(n, m, sent) /\ r[n].kind = "Candidate"
      BY <1>1, <1>2 DEF CountVote, CountsVote, clientVars, TypeOK
    <2>2. /\ won => x.kind = "Leader"
          /\ ~ won => x.kind = "Candidate"
      BY DEF NewLeader, Leader, Candidate
    <2>3. InitialNext(n) \in [Peers(n) -> Nat \ {0}]
      BY <1>1 DEF InitialNext, HighestIndex
    <2>4. ASSUME NEW y \in sent
          PROVE  Speech(n, y) /\ PartOf(Part(y), Whole(log'[n]))
      <3>1. won /\ y \in all
        BY <2>4
      <3>2. /\ y.src = n /\ y.dst # n /\ ~ IsGrant(y)
            /\ y.term = current_term[n] /\ PartOf(Part(y), Whole(log[n]))
        <4>1. PICK hb \in BOOLEAN :
                y \in replicate_log(n, log[n], InitialNext(n), hb)
          BY <3>1
        <4> QED
          BY <1>1, <2>3, <4>1, ReplicateIsPart
      <3> QED
        BY <2>1, <2>2, <3>1, <3>2 DEF Speech
    <2>5. x.kind # "Follower"
      BY <2>2
    <2> HIDE DEF x, sent
    <2>6. HintForward(n) /\ LogChange(n)
      BY <2>1, <2>5 DEF HintForward, Hint, LogChange
    <2> QED
      BY <1>1, <2>1, <2>4, <2>6, HandleVoteResponseVotes, HandlerForward
  <1>3. CASE IgnoreVote(n, m)
    <2>1. UNCHANGED <<current_term, r, log, pending>> /\ Finish(n, m, {})
      BY <1>3 DEF IgnoreVote, clientVars
    <2> QED
      BY <1>1, <2>1, SilentHandlerForward
  <1> QED
    BY <1>2, <1>3 DEF HandleVoteResponse

\* handle_append_entries_response: a leader sends from its log.
LEMMA HandleAppendEntriesResponseForward ==
    ASSUME TypeInv, TypeOK', VoteInv, NEW n \in Node, NEW m \in msgs,
           HandleAppendEntriesResponse(n, m)
    PROVE  MovesForward(n)
  <1>1. /\ rpc[n].phase # "handled" /\ TypeOK
        /\ r[n] \in Role(n) /\ log[n] \in Seq(Entry)
    BY HandlingPhase, NodeType DEF TypeInv, HandleAppendEntriesResponse
  <1>2. MemoryForward
    BY HandleAppendEntriesResponseVotes
  <1>3. CASE RetryAppend(n, m)
    <2> DEFINE next == [r[n].next_indexes EXCEPT ![m.src] = DecFloored(@)]
               x == Leader(next, r[n].match_indexes)
    <2>1. /\ r' = [r EXCEPT ![n] = x] /\ r'[n] = x
          /\ UNCHANGED <<current_term, log, pending>>
          /\ r[n].kind = "Leader"
      BY <1>1, <1>3 DEF RetryAppend, is_leader, clientVars, TypeOK
    <2>2. PICK sent \in Replications(n, log[n], next) : Finish(n, m, sent)
      BY <1>3 DEF RetryAppend
    <2>3. next \in [Peers(n) -> Nat \ {0}]
      <3>1. r[n].next_indexes \in [Peers(n) -> Nat \ {0}]
        BY <1>1, <2>1, RoleType
      <3>2. \A i \in Nat \ {0} : DecFloored(i) \in Nat \ {0}
        BY DEF DecFloored
      <3> QED
        BY <3>1, <3>2
    <2>4. x.kind = "Leader"
      BY DEF Leader
    <2> HIDE DEF next, x
    <2>5. \A y \in sent : Speech(n, y) /\ PartOf(Part(y), Whole(log'[n]))
      BY <1>1, <2>1, <2>3, <2>4, ReplicationsArePart DEF Speech
    <2>6. HintForward(n) /\ LogChange(n)
      BY <2>1, <2>4 DEF HintForward, Hint, LogChange
    <2> QED
      BY <1>1, <1>2, <2>1, <2>2, <2>4, <2>5, <2>6, HandlerForward
  <1>4. CASE AdvanceMatch(n, m)
    <2> DEFINE next == [r[n].next_indexes EXCEPT ![m.src] = m.index + 1]
               match == [r[n].match_indexes EXCEPT ![m.src] = m.index]
               x == Leader(next, match)
               responses == {}
    <2>1. r' = [r EXCEPT ![n] = x] /\ x.kind = "Leader"
      BY <1>4 DEF AdvanceMatch, Leader
    <2>2. \A y \in responses : Speech(n, y) /\ ~ IsAppend(y)
      OBVIOUS
    <2>3. /\ UNCHANGED <<current_term, log, pending>> /\ r[n].kind = "Leader"
          /\ Finish(n, m, responses)
      BY <1>4 DEF AdvanceMatch, is_leader
    <2> HIDE DEF x, responses
    <2>4. HintForward(n)
      BY <1>1, <2>1 DEF HintForward, Hint, TypeOK
    <2> QED
      BY <1>1, <1>2, <2>1, <2>2, <2>3, <2>4, PlainHandlerForward
  <1>5. CASE IgnoreAppendResponse(n, m)
    <2>1. UNCHANGED <<current_term, r, log, pending>> /\ Finish(n, m, {})
      BY <1>5 DEF IgnoreAppendResponse, clientVars
    <2> QED
      BY <1>1, <2>1, SilentHandlerForward
  <1> QED
    BY <1>3, <1>4, <1>5 DEF HandleAppendEntriesResponse

\* The response to a replication from a node that recognizes the leader.
LEMMA RecognizingForward ==
    ASSUME TypeOK, ElectionInv, MemoryForward, NEW n \in Node, NEW m \in msgs,
           Handling(n, m, "AppendEntries"), m.term = current_term[n],
           NEW lg, NEW success,
           Finish(n, m, {AppendEntriesResponse(n, m, lg, success)}),
           UNCHANGED <<current_term, pending>>,
           r' = [r EXCEPT ![n] = RecognizeLeader(n, m)],
           \A p \in Node \ {n} : log'[p] = log[p], LogChange(n)
    PROVE  MovesForward(n)
  <1> DEFINE responses == {AppendEntriesResponse(n, m, lg, success)}
             x == RecognizeLeader(n, m)
  <1>1. /\ rpc[n].phase # "handled" /\ m \in Message /\ m.dst = n
        /\ m.src \in Node /\ r[n] \in Role(n) /\ IsAppend(m)
    BY HandlingPhase, NodeType DEF IsAppend
  <1>2. m.src # n
    BY <1>1 DEF ElectionInv, NotToSelf, Said
  <1>3. \A y \in responses : Speech(n, y) /\ ~ IsAppend(y)
    BY <1>2 DEF AppendEntriesResponse, Speech, IsAppend, IsGrant
  <1>4. x.kind = "Follower" /\ x.leader = m.src
    <2>1. PICK a, b : become_follower(n, n) = Follower(a, b)
      BY <1>1, RoleType DEF become_follower
    <2>2. x = Follower(m.src, b)
      BY <2>1 DEF RecognizeLeader, Follower
    <2> QED
      BY <2>2 DEF Follower
  <1>5. Finish(n, m, responses) /\ r' = [r EXCEPT ![n] = x] /\ r'[n] = x
    BY DEF TypeOK
  <1> HIDE DEF x, responses
  <1>6. HintForward(n)
    BY <1>1, <1>4, <1>5 DEF HintForward, Hint
  <1> QED
    BY <1>1, <1>3, <1>4, <1>5, <1>6, HandlerForward

\* handle_append_entries: the log is changed by replace_from only.
LEMMA HandleAppendEntriesForward ==
    ASSUME TypeInv, TypeOK', VoteInv, ElectionInv, NEW n \in Node,
           NEW m \in msgs, HandleAppendEntries(n, m)
    PROVE  MovesForward(n)
  <1>1. /\ TypeOK /\ m \in Message /\ m.src \in Node /\ m.dst = n
        /\ IsAppend(m) /\ r[n] \in Role(n) /\ rpc[n].phase # "handled"
        /\ Handling(n, m, "AppendEntries")
    BY HandlingPhase, NodeType DEF TypeInv, HandleAppendEntries, IsAppend
  <1>2. MemoryForward
    BY HandleAppendEntriesVotes
  <1>3. CASE StaleAppend(n, m)
    <2> DEFINE responses == {AppendEntriesResponse(n, m, log[n], FALSE)}
    <2>1. /\ UNCHANGED <<current_term, r, log, pending>>
          /\ Finish(n, m, responses)
      BY <1>3 DEF StaleAppend, clientVars
    <2>2. m.src # n
      BY <1>1 DEF ElectionInv, NotToSelf, Said
    <2>3. \A y \in responses : Speech(n, y) /\ ~ IsAppend(y)
      BY <2>2 DEF AppendEntriesResponse, Speech, IsAppend, IsGrant
    <2>4. r' = [r EXCEPT ![n] = r[n]]
      BY <1>1, <2>1 DEF TypeOK
    <2>5. HintForward(n)
      BY <2>1 DEF HintForward, Hint
    <2> HIDE DEF responses
    <2> QED
      BY <1>1, <1>2, <2>1, <2>3, <2>4, <2>5, PlainHandlerForward
  <1>4. CASE SecondLeader(n, m)
    <2>1. /\ UNCHANGED <<msgs, current_term, r, disk, log, pending>>
          /\ rpc'[n].phase = "panicked"
          /\ \A p \in Node \ {n} : rpc'[p] = rpc[p]
      BY <1>1, <1>4 DEF SecondLeader, Panic, TypeOK, clientVars
    <2>2. /\ HintForward(n) /\ LogChange(n)
          /\ NothingPending => NothingPending'
      BY <2>1 DEF HintForward, Hint, LogChange, NothingPending
    <2>3. r[n].kind = "Leader"
      BY <1>4 DEF SecondLeader, is_leader
    <2> QED
      BY <1>2, <2>1, <2>2, <2>3, QuietStepForward
  <1>5. CASE RejectAppend(n, m)
    <2>1. /\ r' = [r EXCEPT ![n] = RecognizeLeader(n, m)]
          /\ UNCHANGED <<current_term, pending, log>>
          /\ m.term = current_term[n]
          /\ Finish(n, m, {AppendEntriesResponse(n, m, log[n], FALSE)})
      BY <1>5 DEF RejectAppend, clientVars
    <2>2. LogChange(n)
      BY <2>1 DEF LogChange
    <2> QED
      BY <1>1, <1>2, <2>1, <2>2, RecognizingForward
  <1>6. CASE AcceptAppend(n, m)
    <2> DEFINE lg == ReplaceFrom(log[n], m.prev_log_index + 1, m.entries)
    <2>1. /\ r' = [r EXCEPT ![n] = RecognizeLeader(n, m)]
          /\ UNCHANGED <<current_term, pending>>
          /\ log' = [log EXCEPT ![n] = lg]
          /\ m.term = current_term[n] /\ PrevMatches(n, m)
      BY <1>6 DEF AcceptAppend
    <2>2. log'[n] = lg /\ \A p \in Node \ {n} : log'[p] = log[p] /\ r'[p] = r[p]
      BY <1>1, <2>1 DEF TypeOK
    <2>3. PICK b : r'[n] = Follower(m.src, b)
      <3>1. PICK a, b : become_follower(n, n) = Follower(a, b)
        BY <1>1, RoleType DEF become_follower
      <3>2. RecognizeLeader(n, m) = Follower(m.src, b)
        BY <3>1 DEF RecognizeLeader, Follower
      <3> QED
        BY <1>1, <2>1, <3>2 DEF TypeOK
    <2>4. r'[n].kind = "Follower" /\ r'[n].leader = m.src
      BY <2>3 DEF Follower
    <2>5. LogChange(n)
      BY <1>1, <2>1, <2>2, <2>4 DEF LogChange
    <2>6. CASE Overtaken(n, m, lg)
      <3>1. /\ UNCHANGED <<msgs, disk>>
            /\ rpc' = [rpc EXCEPT ![n] = [phase |-> "panicked", work |-> {}]]
        BY <1>6, <2>6 DEF AcceptAppend, Panic
      <3>2. /\ rpc'[n].phase = "panicked"
            /\ \A p \in Node \ {n} : rpc'[p] = rpc[p]
        BY <1>1, <3>1 DEF TypeOK
      <3>3. HintForward(n) /\ (NothingPending => NothingPending')
        BY <1>1, <2>1, <2>4 DEF HintForward, Hint, NothingPending
      <3> QED
        BY <1>2, <2>1, <2>2, <2>4, <2>5, <3>1, <3>2, <3>3, QuietStepForward
    <2>7. CASE ~ Overtaken(n, m, lg)
      <3>1. Finish(n, m, {AppendEntriesResponse(n, m, lg, TRUE)})
        BY <1>6, <2>7 DEF AcceptAppend
      <3> HIDE DEF lg
      <3> QED
        BY <1>1, <1>2, <2>1, <2>2, <2>5, <3>1, RecognizingForward
    <2> QED
      BY <2>6, <2>7
  <1> QED
    BY <1>3, <1>4, <1>5, <1>6 DEF HandleAppendEntries

\* The threads that replicate and that take client requests.
LEMMA OtherThreadsForward ==
    ASSUME TypeInv, TypeOK', VoteInv, NEW n \in Node,
           \/ ReplicateLog(n)
           \/ \E c \in Request : ClientRequest(n, c) \/ ClientCheck(n, c)
                                                   \/ ClientAppend(n, c)
    PROVE  MovesForward(n)
  <1>1. /\ TypeOK /\ log[n] \in Seq(Entry) /\ current_term[n] \in Nat
        /\ r[n].kind = "Leader" =>
             r[n].next_indexes \in [Peers(n) -> Nat \ {0}]
    BY NodeType, RoleType DEF TypeInv
  <1>2. MemoryForward
    BY OtherThreadsVotes
  <1>3. CASE ReplicateLog(n)
    <2>1. PICK hb \in BOOLEAN :
            msgs' = msgs \cup replicate_log(n, log[n], r[n].next_indexes, hb)
      BY <1>3 DEF ReplicateLog
    <2>2. /\ UNCHANGED <<current_term, r, disk, rpc, log, pending>>
          /\ r[n].kind = "Leader"
      BY <1>3 DEF ReplicateLog, is_leader, clientVars
    <2>3. \A y \in replicate_log(n, log[n], r[n].next_indexes, hb) :
             Speech(n, y) /\ PartOf(Part(y), Whole(log'[n]))
      BY <1>1, <2>2, ReplicateIsPart DEF Speech
    <2>4. /\ HintForward(n) /\ LogChange(n)
          /\ NothingPending => NothingPending'
      BY <2>2 DEF HintForward, Hint, LogChange, NothingPending
    <2> QED
      BY <1>2, <2>1, <2>2, <2>3, <2>4, QuietStepForward
  <1>4. ASSUME NEW c \in Request, ClientRequest(n, c) \/ ClientAppend(n, c)
        PROVE  MovesForward(n)
    <2>1. /\ UNCHANGED <<current_term, r, disk, rpc>>
          /\ AppendAndReplicate(n, c)
          /\ \/ is_leader(n) /\ UNCHANGED pending
             \/ ~ NothingPending
      BY <1>4 DEF ClientRequest, ClientAppend, NothingPending
    <2>2. /\ log'[n] = append(n, c) /\ log'[n] \in Seq(Entry)
          /\ \A p \in Node \ {n} : log'[p] = log[p]
      BY <1>1, <2>1 DEF AppendAndReplicate, TypeOK
    <2>3. /\ msgs \subseteq msgs'
          /\ \A y \in msgs' : \/ y \in msgs
                              \/ /\ Speech(n, y)
                                 /\ PartOf(Part(y), Whole(log'[n]))
      <3>1. CASE is_leader(n)
        <4>1. PICK sent \in Replications(n, append(n, c), r[n].next_indexes) :
                msgs' = msgs \cup sent
          BY <2>1, <3>1 DEF AppendAndReplicate
        <4>2. r[n].kind = "Leader" /\ r'[n].kind = "Leader"
          BY <2>1, <3>1 DEF is_leader
        <4>3. \A y \in sent : Speech(n, y) /\ PartOf(Part(y), Whole(log'[n]))
          BY <1>1, <2>1, <2>2, <4>2, ReplicationsArePart DEF Speech
        <4> QED
          BY <4>1, <4>3
      <3>2. CASE ~ is_leader(n)
        BY <2>1, <3>2 DEF AppendAndReplicate
      <3> QED
        BY <3>1, <3>2
    <2>4. HintForward(n)
      BY <2>1 DEF HintForward, Hint
    <2>5. NothingPending => LogChange(n) /\ NothingPending'
      BY <2>1, <2>2 DEF LogChange, is_leader, NothingPending
    <2>6. r[n].kind \in {"Follower", "Candidate", "Leader"}
      BY <1>1, NodeType, RoleType
    <2> QED
      BY <1>2, <2>1, <2>2, <2>3, <2>4, <2>5, <2>6, QuietStepForward
  <1>5. ASSUME NEW c \in Request, ClientCheck(n, c) PROVE MovesForward(n)
    <2>1. /\ UNCHANGED <<msgs, current_term, log, r, disk, rpc>>
          /\ r[n].kind = "Leader" /\ events.late_appends < MaxLateAppends
      BY <1>5 DEF ClientCheck, is_leader
    <2>2. HintForward(n) /\ LogChange(n)
      BY <2>1 DEF HintForward, Hint, LogChange
    <2>3. MaxLateAppends # 0
      BY <1>1, <2>1 DEF TypeOK
    <2> QED
      BY <1>2, <2>1, <2>2, <2>3, QuietStepForward
  <1> QED
    BY <1>3, <1>4, <1>5

\* The late write to disk, and its failure.
LEMMA PersistForward ==
    ASSUME TypeOK, TypeOK', VoteInv, NEW n \in Node,
           Persist(n) \/ FailPersist(n)
    PROVE  MovesForward(n)
  <1>1. MemoryForward
    BY PersistVotes
  <1>2. /\ UNCHANGED <<current_term, r, log, pending>>
        /\ rpc[n].phase = "handled" /\ rpc' = [rpc EXCEPT ![n] = Idle]
        /\ disk' = disk \/ disk' = [disk EXCEPT ![n] = Persistent(n)]
        /\ msgs \subseteq msgs' /\ msgs' \subseteq msgs \cup rpc[n].work
    BY DEF Persist, FailPersist, clientVars
  <1>3. rpc'[n].phase = "idle" /\ \A p \in Node \ {n} : rpc'[p] = rpc[p]
    BY <1>2 DEF TypeOK, Idle
  <1>4. Outbox(n)' = {} /\ \A p \in Node \ {n} : Outbox(p)' = Outbox(p)
    BY <1>3 DEF Outbox
  <1>5. Said' \subseteq Said
    BY <1>2, <1>4 DEF Said, Outbox
  <1>6. Persistent(n)' = Persistent(n)
    BY <1>2 DEF Persistent
  <1>7. DiskForward
    BY <1>2, <1>6 DEF DiskForward, TypeOK
  <1>8. /\ HintForward(n) /\ LogChange(n)
        /\ NothingPending => NothingPending'
    BY <1>2 DEF HintForward, Hint, LogChange, NothingPending
  <1>9. r[n].kind \in {"Follower", "Candidate", "Leader"}
    BY NodeType, RoleType
  <1>10. Forward(n)
    BY <1>1, <1>2, <1>5, <1>7, <1>8, <1>9 DEF Forward
  <1>11. NothingPending => LogForward(n)
    BY <1>5, <1>8 DEF LogForward
  <1> QED
    BY <1>10, <1>11 DEF MovesForward

\* A step moves some node forward, or is a crash, or changes nothing.
LEMMA NextForward ==
    ASSUME TypeInv, TypeInv', VoteInv, ElectionInv, [Next]_vars
    PROVE  \/ \E n \in Node : MovesForward(n)
           \/ \E n \in Node : Crash(n)
           \/ UNCHANGED vars
  <1>1. TypeOK /\ TypeOK'
    BY DEF TypeInv
  <1>2. SUFFICES ASSUME NEW n \in Node,
                        \/ BecomeCandidate(n)
                        \/ ReplicateLog(n)
                        \/ \E m \in msgs : Receive(n, m)
                        \/ Persist(n)
                        \/ FailPersist(n)
                        \/ \E c \in Request : ClientRequest(n, c)
                                            \/ ClientCheck(n, c)
                                            \/ ClientAppend(n, c)
                 PROVE  MovesForward(n)
    BY DEF Next
  <1>3. CASE BecomeCandidate(n)
    BY <1>1, <1>3, BecomeCandidateForward
  <1>4. CASE \/ ReplicateLog(n)
             \/ \E c \in Request : ClientRequest(n, c)
                                 \/ ClientCheck(n, c)
                                 \/ ClientAppend(n, c)
    BY <1>1, <1>4, OtherThreadsForward
  <1>5. ASSUME NEW m \in msgs, Receive(n, m) PROVE MovesForward(n)
    BY <1>1, <1>5, MaybeStepDownForward, HandleVoteRequestForward,
       HandleVoteResponseForward, HandleAppendEntriesForward,
       HandleAppendEntriesResponseForward DEF Receive
  <1>6. CASE Persist(n) \/ FailPersist(n)
    BY <1>1, <1>6, PersistForward
  <1> QED
    BY <1>2, <1>3, <1>4, <1>5, <1>6
-----------------------------------------------------------------------------
\* A crash restores the log from disk, which is one of the pieces; with
\* prompt writes who has led a term still has after a reboot.
LEMMA CrashLogs ==
    ASSUME TypeOK, ElectionInv, LogInv, NEW n \in Node, Crash(n),
           MaxLatePersists = 0
    PROVE  LogInv'
  <1>1. /\ UNCHANGED <<msgs, disk>>
        /\ current_term'[n] = disk[n].current_term
        /\ r'[n] = Follower(None, disk[n].voted_for)
        /\ log'[n] = disk[n].log /\ rpc'[n].phase = "idle"
        /\ pending'[n] = {}
        /\ \A p \in Node \ {n} : /\ current_term'[p] = current_term[p]
                                 /\ r'[p] = r[p]
                                 /\ log'[p] = log[p]
                                 /\ rpc'[p] = rpc[p]
                                 /\ pending'[p] = pending[p]
    BY DEF Crash, TypeOK, Idle
  <1>2. /\ Vote(n)' = disk[n].voted_for /\ r'[n].kind = "Follower"
        /\ \A p \in Node \ {n} : Vote(p)' = Vote(p)
    BY <1>1 DEF Vote, Follower
  <1>3. Said' = Said
    BY <1>1 DEF Said, Outbox, ElectionInv, SelfVoteOnDisk
  <1>4. Pieces' \subseteq Pieces
    <2>1. ASSUME NEW A \in Pieces' PROVE A \in Pieces
      <3>1. \/ \E p \in Node : A = Whole(log'[p])
            \/ \E p \in Node : A = Whole(disk'[p].log)
            \/ \E x \in Said' : IsAppend(x) /\ A = Part(x)
        BY DEF Pieces, Appends, IsAppend
      <3> QED
        BY <1>1, <1>3, <3>1 DEF Pieces, Appends
    <2> QED
      BY <2>1
  <1>5. PiecesAgree'
    BY <1>4 DEF LogInv, PiecesAgree
  <1>6. ASSUME NEW x \in Node, NEW t, Led(x, t) PROVE Led(x, t)'
    <2>1. Won(x, t)'
      BY <1>1, <1>6, WonForever DEF Led
    <2>2. \/ t < current_term'[x]
          \/ t = current_term'[x] /\ Vote(x)' = x /\ r'[x].kind # "Candidate"
      BY <1>1, <1>2, <1>6 DEF Led
    <2>3. \A y \in Said' : IsGrant(y) /\ y.src = x => y.term # t
      BY <1>3, <1>6 DEF Led
    <2>4. \/ t < disk'[x].current_term
          \/ t = disk'[x].current_term /\ disk'[x].voted_for = x
      BY <1>1, <1>6 DEF Led
    <2> QED
      BY <2>1, <2>2, <2>3, <2>4 DEF Led, IsGrant
  <1>7. EntriesLed'
    <2>1. SUFFICES ASSUME NEW A \in Pieces', NEW i \in Nat, Has(A, i)
                   PROVE  /\ At(A, i).term > 0
                          /\ \E x \in Node : Led(x, At(A, i).term)'
      BY DEF EntriesLed
    <2>2. PICK t : t = At(A, i).term
      OBVIOUS
    <2>3. t > 0 /\ \E x \in Node : Led(x, t)
      BY <1>4, <2>1, <2>2 DEF LogInv, EntriesLed
    <2>4. PICK x \in Node : Led(x, t)'
      BY <1>6, <2>3
    <2> QED
      BY <2>2, <2>3, <2>4
  <1>8. LeaderAhead'
    BY <1>1, <1>2, <1>4 DEF LogInv, LeaderAhead, is_leader
  <1>9. NothingPending'
    BY <1>1 DEF LogInv, NothingPending
  <1> QED
    BY <1>5, <1>7, <1>8, <1>9 DEF LogInv

\* There are no entries at first.
LEMMA InitLogs == Init => LogInv
  <1> SUFFICES ASSUME Init PROVE LogInv
    OBVIOUS
  <1>1. TypeOK /\ Said = {}
    BY InitType DEF TypeInv, Init, Said, Outbox, Idle
  <1>2. \A A \in Pieces : \A i \in Nat : ~ Has(A, i)
    <2>1. ASSUME NEW A \in Pieces, NEW i \in Nat PROVE ~ Has(A, i)
      <3>1. A = Whole(<<>>)
        BY <1>1 DEF Pieces, Appends, Init
      <3>2. <<>> \in Seq(Entry) /\ Len(<<>>) = 0
        BY EmptySeq
      <3>3. i \notin 1..0
        OBVIOUS
      <3> QED
        BY <3>1, <3>2, <3>3, WholeHas
    <2> QED
      BY <2>1
  <1>3. PiecesAgree
    BY <1>2 DEF PiecesAgree, Agree
  <1>4. EntriesLed /\ LeaderAhead
    BY <1>2 DEF EntriesLed, LeaderAhead
  <1>5. NothingPending
    BY DEF NothingPending, Init
  <1> QED
    BY <1>3, <1>4, <1>5 DEF LogInv

\* Every step preserves the invariant.
LEMMA NextLogs ==
    ASSUME MaxCrashes = 0 \/ MaxLatePersists = 0, MaxLateAppends = 0
    PROVE  TypeInv /\ TypeInv' /\ VoteInv /\ VoteInv' /\ ElectionInv
             /\ ElectionInv' /\ LogInv /\ [Next]_vars => LogInv'
  <1> SUFFICES ASSUME TypeInv, TypeInv', VoteInv, VoteInv', ElectionInv,
                      ElectionInv', LogInv, [Next]_vars
               PROVE  LogInv'
    OBVIOUS
  <1>1. TypeOK /\ TypeOK'
    BY DEF TypeInv
  <1>2. ASSUME NEW n \in Node, MovesForward(n) PROVE LogInv'
    BY <1>1, <1>2, LogStep DEF MovesForward, LogInv
  <1>3. ASSUME NEW n \in Node, Crash(n) PROVE LogInv'
    <2>1. MaxCrashes # 0
      BY <1>1, <1>3, BoundAssumption DEF Crash, TypeOK
    <2> QED
      BY <1>1, <1>3, <2>1, CrashLogs
  <1>4. CASE UNCHANGED vars
    <2>1. UNCHANGED <<msgs, current_term, r, rpc, disk, log, pending>>
      BY <1>4 DEF vars
    <2>2. Said' = Said /\ \A x : Vote(x)' = Vote(x)
      BY <2>1 DEF Said, Outbox, Vote
    <2>3. Pieces' = Pieces
      BY <2>1, <2>2 DEF Pieces, Appends
    <2>4. \A x, t : Led(x, t)' <=> Led(x, t)
      BY <2>1, <2>2 DEF Led, Won, Granted
    <2> QED
      BY <2>1, <2>3, <2>4 DEF LogInv, PiecesAgree, EntriesLed, LeaderAhead,
                              NothingPending, is_leader
  <1> QED
    BY <1>2, <1>3, <1>4, NextForward

\* The invariant implies that logs match.
LEMMA LogInvSuffices == TypeOK /\ LogInv => LogMatching
  <1> SUFFICES ASSUME TypeOK, LogInv, NEW n1 \in Node, NEW n2 \in Node,
                      NEW i \in 1..Len(log[n1]),
                      TermAt(log[n2], i) = log[n1][i].term
               PROVE  SubSeq(log[n1], 1, i) = SubSeq(log[n2], 1, i)
    BY DEF LogMatching, HighestIndex
  <1> DEFINE A == Whole(log[n1])
             B == Whole(log[n2])
  <1>1. /\ log[n1] \in Seq(Entry) /\ log[n2] \in Seq(Entry)
        /\ Len(log[n1]) \in Nat /\ Len(log[n2]) \in Nat /\ i \in Nat
        /\ A \in Pieces /\ B \in Pieces
    BY NodeType, PiecesAre
  <1>2. /\ \A j \in Nat : Has(A, j) <=> j \in 1..Len(log[n1])
        /\ \A j \in 1..Len(log[n1]) : At(A, j) = log[n1][j]
    BY <1>1, WholeHas
  <1>3. /\ \A j \in Nat : Has(B, j) <=> j \in 1..Len(log[n2])
        /\ \A j \in 1..Len(log[n2]) : At(B, j) = log[n2][j]
    BY <1>1, WholeHas
  <1> HIDE DEF A, B
  <1>4. log[n1][i].term > 0
    BY <1>1, <1>2 DEF LogInv, EntriesLed
  <1>5. i \in 1..Len(log[n2]) /\ log[n2][i].term = log[n1][i].term
    <2>1. i \in 1..Len(log[n2])
      BY <1>4 DEF TermAt
    <2> QED
      BY <2>1 DEF TermAt
  <1>6. Agree(A, B) /\ Has(A, i) /\ Has(B, i) /\ At(A, i).term = At(B, i).term
    BY <1>1, <1>2, <1>3, <1>5 DEF LogInv, PiecesAgree
  <1>7. ASSUME NEW j \in 1..i PROVE log[n1][j] = log[n2][j]
    <2>1. /\ j \in Nat /\ j <= i /\ j \in 1..Len(log[n1])
          /\ j \in 1..Len(log[n2])
      BY <1>1, <1>5
    <2>2. Has(A, j) /\ Has(B, j)
      BY <1>2, <1>3, <2>1
    <2>3. At(A, j) = At(B, j)
      BY <1>1, <1>6, <2>1, <2>2 DEF Agree
    <2> QED
      BY <1>2, <1>3, <2>1, <2>3
  <1>8. \A k \in {n1, n2} :
          /\ SubSeq(log[k], 1, i) \in Seq(Entry)
          /\ Len(SubSeq(log[k], 1, i)) = i
          /\ \A j \in 1..i : SubSeq(log[k], 1, i)[j] = log[k][j]
    <2>1. SUFFICES ASSUME NEW k \in {n1, n2}
                   PROVE  /\ SubSeq(log[k], 1, i) \in Seq(Entry)
                          /\ Len(SubSeq(log[k], 1, i)) = i
                          /\ \A j \in 1..i : SubSeq(log[k], 1, i)[j] = log[k][j]
      OBVIOUS
    <2>2. /\ \A j \in 1..i : log[k][j] \in Entry
          /\ 1 <= i /\ i - 1 + 1 = i /\ \A j \in 1..i : 1 + j - 1 = j
      BY <1>1, <1>5, ElementOfSeq
    <2> QED
      BY <1>1, <2>2, SubSeqProperties
  <1> QED
    BY <1>7, <1>8, SeqEqual

\* Two logs that have an entry of the same term at an index are equal up to
\* it (what handle_append_entries checks prev_log_term for), provided that a
\* term has one leader and that clients append only at leaders.
THEOREM LogsMatch ==
    ASSUME MaxCrashes = 0 \/ MaxLatePersists = 0, MaxLateAppends = 0
    PROVE  Spec => []LogMatching
  <1>1. TypeInv /\ TypeInv' /\ VoteInv /\ ElectionInv /\ [Next]_vars
          => ElectionInv'
    BY NextElections
  <1>2. TypeInv /\ TypeInv' /\ VoteInv /\ VoteInv' /\ ElectionInv
          /\ ElectionInv' /\ LogInv /\ [Next]_vars => LogInv'
    BY NextLogs
  <1>3. TypeInv => TypeOK
    BY DEF TypeInv
  <1> QED
    BY <1>1, <1>2, <1>3, InitType, NextType, InitVotes, NextVotes,
       InitElections, InitLogs, LogInvSuffices, PTL DEF Spec
-----------------------------------------------------------------------------
(***************************************************************************)
(* The leaders that followers believe in (current_leader) form no cycle.   *)
(* A node recognizes the leader of its term, and has itself led earlier    *)
(* terms only; so along a chain of believed leaders the terms in which     *)
(* they were recognized grow.                                              *)
(***************************************************************************)

\* Term h[n] is the one in which n recognized the leader it believes in.
Recognized(h) ==
    /\ \A n \in Node : Hint(n) # None =>
         \E m \in msgs : IsAppend(m) /\ m.src = Hint(n) /\ m.term = h[n]
    /\ \A x \in Said : IsAppend(x) /\ Hint(x.src) # None => x.term < h[x.src]

HintInv == \E h \in [Node -> Nat] : Recognized(h)

\* Two nodes never speak as leaders of one term.
LEMMA OneSpeaker ==
    ASSUME TypeOK, VoteInv, ElectionInv, NEW x \in Said, NEW y \in Said,
           IsAppend(x), IsAppend(y), x.term = y.term
    PROVE  x.src = y.src
  <1> SUFFICES ASSUME x.src # y.src PROVE FALSE
    OBVIOUS
  <1>1. PICK t : t = x.term /\ t = y.term
    OBVIOUS
  <1>2. x.src \in Node /\ y.src \in Node
    BY SaidType, MessageType
  <1>3. ASSUME NEW v \in {x.src, y.src}, NEW c \in Node, Granted(v, c, t)
        PROVE  FALSE
    <2>1. PICK z \in msgs : IsGrant(z) /\ z.src = v /\ z.term = t
      BY <1>3 DEF Granted, IsGrant
    <2> QED
      BY <1>1, <2>1 DEF ElectionInv, NoOtherVote, Said
  <1>4. PICK P \in SUBSET Node :
          /\ WonElection(Cardinality(P), Cardinality(Node))
          /\ \A v \in P \ {x.src} : Granted(v, x.src, t)
    BY <1>1 DEF ElectionInv, AppendWon, Won
  <1>5. PICK Q \in SUBSET Node :
          /\ WonElection(Cardinality(Q), Cardinality(Node))
          /\ \A v \in Q \ {y.src} : Granted(v, y.src, t)
    BY <1>1 DEF ElectionInv, AppendWon, Won
  <1>6. PICK v \in P \cap Q : v \in Node
    BY <1>4, <1>5, MajoritiesMeet
  <1>7. CASE v \in {x.src, y.src}
    BY <1>2, <1>3, <1>4, <1>5, <1>6, <1>7
  <1>8. CASE v \notin {x.src, y.src}
    <2>1. Granted(v, x.src, t) /\ Granted(v, y.src, t)
      BY <1>4, <1>5, <1>6, <1>8
    <2>2. t \in Terms
      BY <2>1 DEF Granted, Terms
    <2> QED
      BY <1>2, <1>6, <2>1, <2>2, VoteInvSuffices DEF OneVotePerTerm
  <1> QED
    BY <1>7, <1>8

\* A step that moves forward preserves the invariant: who recognizes a
\* leader of its term has not spoken as a leader in it.
LEMMA HintStep ==
    ASSUME TypeOK, VoteInv, ElectionInv, HintInv, NEW n \in Node, Forward(n)
    PROVE  HintInv'
  <1>1. PICK h \in [Node -> Nat] : Recognized(h)
    BY DEF HintInv
  <1>2. /\ msgs \subseteq msgs'
        /\ \A p \in Node \ {n} : Hint(p)' = Hint(p)
    BY DEF Forward, Hint
  <1>3. \A x \in Said : x.src \in Node /\ x.term \in Nat
    BY SaidType, MessageType
  <1>4. ASSUME NEW x \in Said', x \notin Said, IsAppend(x)
        PROVE  x.src = n /\ Hint(n)' = None
    BY <1>4 DEF Forward, Speech, Hint
  <1>5. CASE Hint(n)' \in {None, Hint(n)}
    <2>1. ASSUME NEW p \in Node, Hint(p)' # None
          PROVE  Hint(p)' = Hint(p)
      BY <1>2, <1>5, <2>1
    <2>2. ASSUME NEW p \in Node, Hint(p)' # None
          PROVE  \E m \in msgs' : /\ IsAppend(m) /\ m.src = Hint(p)'
                                  /\ m.term = h[p]
      BY <1>1, <1>2, <2>1, <2>2 DEF Recognized
    <2>3. ASSUME NEW x \in Said', IsAppend(x), Hint(x.src)' # None
          PROVE  x.term < h[x.src]
      BY <1>1, <1>3, <1>4, <2>1, <2>3 DEF Recognized
    <2>4. Recognized(h)'
      BY <2>2, <2>3 DEF Recognized, IsAppend
    <2> QED
      BY <2>4 DEF HintInv
  <1>6. ASSUME NEW m \in msgs, IsAppend(m), m.dst = n, m.src = Hint(n)',
               m.term = current_term[n]
        PROVE  HintInv'
    <2> DEFINE g == [h EXCEPT ![n] = m.term]
    <2>1. m \in Said /\ m.term \in Nat /\ m.src # n
      BY <1>3, <1>6 DEF Said, ElectionInv, NotToSelf
    <2>2. /\ g \in [Node -> Nat] /\ g[n] = m.term
          /\ \A p \in Node \ {n} : g[p] = h[p]
      BY <2>1
    <2> HIDE DEF g
    <2>3. ASSUME NEW p \in Node, Hint(p)' # None
          PROVE  \E y \in msgs' : /\ IsAppend(y) /\ y.src = Hint(p)'
                                  /\ y.term = g[p]
      <3>1. CASE p = n
        BY <1>2, <1>6, <2>2, <3>1
      <3>2. CASE p # n
        BY <1>1, <1>2, <2>2, <2>3, <3>2 DEF Recognized
      <3> QED
        BY <3>1, <3>2
    <2>4. ASSUME NEW x \in Said', IsAppend(x), Hint(x.src)' # None
          PROVE  x.term < g[x.src]
      <3>1. x \in Said
        BY <1>4, <2>4
      <3>2. CASE x.src = n
        <4>1. x.term # m.term
          BY <2>1, <2>4, <3>1, <3>2, <1>6, OneSpeaker
        <4>2. current_term[n] \in Nat
          BY NodeType
        <4>3. x.term <= current_term[n]
          BY <1>3, <2>4, <3>1, <3>2, <4>2 DEF ElectionInv, SelfVoteInMemory
        <4> QED
          BY <1>3, <1>6, <2>2, <3>1, <3>2, <4>1, <4>2, <4>3
      <3>3. CASE x.src # n
        BY <1>1, <1>2, <1>3, <2>2, <2>4, <3>1, <3>3 DEF Recognized
      <3> QED
        BY <3>2, <3>3
    <2>5. Recognized(g)'
      BY <2>3, <2>4 DEF Recognized, IsAppend
    <2> QED
      BY <2>2, <2>5 DEF HintInv
  <1> QED
    BY <1>5, <1>6 DEF Forward, HintForward

\* A crash forgets the leader.
LEMMA CrashHints ==
    ASSUME TypeOK, VoteInv, HintInv, NEW n \in Node, Crash(n)
    PROVE  HintInv'
  <1>1. PICK h \in [Node -> Nat] : Recognized(h)
    BY DEF HintInv
  <1>2. /\ UNCHANGED msgs /\ r'[n] = Follower(None, disk[n].voted_for)
        /\ rpc'[n].phase = "idle"
        /\ \A p \in Node \ {n} : r'[p] = r[p] /\ rpc'[p] = rpc[p]
    BY DEF Crash, TypeOK, Idle
  <1>3. Hint(n)' = None /\ \A p \in Node \ {n} : Hint(p)' = Hint(p)
    BY <1>2 DEF Hint, Follower
  <1>4. \A p \in Node : Outbox(p)' \subseteq Outbox(p)
    BY <1>2 DEF Outbox
  <1>5. Said' \subseteq Said
    BY <1>2, <1>4 DEF Said
  <1>6. \A x \in Said : x.src \in Node
    BY SaidType, MessageType
  <1>7. Recognized(h)'
    BY <1>1, <1>2, <1>3, <1>5, <1>6 DEF Recognized
  <1> QED
    BY <1>7 DEF HintInv

\* Nobody believes in a leader at first.
LEMMA InitHints == Init => HintInv
  <1> SUFFICES ASSUME Init PROVE HintInv
    OBVIOUS
  <1> DEFINE h == [n \in Node |-> 0]
  <1>1. h \in [Node -> Nat]
    OBVIOUS
  <1>2. Said = {} /\ \A n \in Node : Hint(n) = None
    BY DEF Init, Said, Outbox, Idle, Hint, Follower
  <1> HIDE DEF h
  <1>3. Recognized(h)
    BY <1>2 DEF Recognized
  <1> QED
    BY <1>1, <1>3 DEF HintInv

\* Every step preserves the invariant.
LEMMA NextHints ==
    TypeInv /\ TypeInv' /\ VoteInv /\ ElectionInv /\ HintInv /\ [Next]_vars
        => HintInv'
  <1> SUFFICES ASSUME TypeInv, TypeInv', VoteInv, ElectionInv, HintInv,
                      [Next]_vars
               PROVE  HintInv'
    OBVIOUS
  <1>1. TypeOK
    BY DEF TypeInv
  <1>2. CASE UNCHANGED vars
    <2>1. PICK h \in [Node -> Nat] : Recognized(h)
      BY DEF HintInv
    <2>2. Recognized(h)'
      BY <1>2, <2>1 DEF vars, Recognized, Hint, Said, Outbox
    <2> QED
      BY <2>2 DEF HintInv
  <1> QED
    BY <1>1, <1>2, NextForward, HintStep, CrashHints DEF MovesForward

\* A finite set has no function to the naturals without a maximum.
LEMMA MaximumExists ==
    ASSUME NEW S, IsFiniteSet(S), S # {}, NEW h, \A n \in S : h[n] \in Nat
    PROVE  \E n \in S : \A p \in S : h[p] <= h[n]
  <1> SUFFICES ASSUME \A n \in S : \E p \in S : h[n] < h[p] PROVE FALSE
    OBVIOUS
  <1> DEFINE U(n) == {p \in S : h[n] < h[p]}
             C == {Cardinality(U(n)) : n \in S}
  <1>1. \A n \in S : IsFiniteSet(U(n)) /\ Cardinality(U(n)) \in Nat
    BY FS_Subset, FS_CardinalityType
  <1>2. C \subseteq Nat /\ C # {}
    BY <1>1
  <1>3. PICK a \in C : \A b \in C : <<b, a>> \notin OpToRel(<, Nat)
    <2> HIDE DEF C
    <2> QED
      BY <1>2, NatLessThanWellFounded, WFMin
  <1>4. PICK n \in S : a = Cardinality(U(n))
    BY <1>3
  <1>5. PICK p \in S : h[n] < h[p]
    OBVIOUS
  <1>6. U(p) \subseteq U(n) /\ p \in U(n) /\ p \notin U(p)
    BY <1>5
  <1>7. Cardinality(U(p)) < Cardinality(U(n))
    <2>1. /\ IsFiniteSet(U(n)) /\ U(p) \in SUBSET U(n) /\ U(p) # U(n)
          /\ Cardinality(U(n)) \in Nat /\ Cardinality(U(p)) \in Nat
      BY <1>1, <1>6
    <2> HIDE DEF U
    <2>2. /\ Cardinality(U(p)) <= Cardinality(U(n))
          /\ Cardinality(U(n)) # Cardinality(U(p))
      BY <2>1, FS_Subset
    <2> QED
      BY <2>1, <2>2
  <1>8. Cardinality(U(p)) \in C
    BY <1>5
  <1> HIDE DEF U, C
  <1> QED
    BY <1>2, <1>3, <1>4, <1>7, <1>8 DEF OpToRel

\* The invariant implies that there is no cycle.
LEMMA HintInvSuffices == TypeOK /\ HintInv => HintsAcyclic
  <1> SUFFICES ASSUME TypeOK, HintInv, NEW S \in SUBSET Node, S # {},
                      \A n \in S : Hint(n) \in S
               PROVE  FALSE
    BY DEF HintsAcyclic
  <1>1. PICK h \in [Node -> Nat] : Recognized(h)
    BY DEF HintInv
  <1>2. PICK n \in S : \A p \in S : h[p] <= h[n]
    BY <1>1, NodeAssumption, FS_Subset, MaximumExists
  <1>3. \A p \in S : Hint(p) # None /\ Hint(p) \in Node
    BY NodeAssumption
  <1>4. PICK m \in msgs : IsAppend(m) /\ m.src = Hint(n) /\ m.term = h[n]
    BY <1>1, <1>3 DEF Recognized
  <1>5. h[n] < h[Hint(n)]
    BY <1>1, <1>3, <1>4 DEF Recognized, Said
  <1>6. h[n] \in Nat /\ h[Hint(n)] \in Nat /\ h[Hint(n)] <= h[n]
    BY <1>1, <1>2, <1>3
  <1> QED
    BY <1>5, <1>6

\* A request proxied from follower to believed leader (current_leader) never
\* returns to a node it has been at, if a term has one leader.
THEOREM HintsFormNoCycle ==
    ASSUME MaxCrashes = 0 \/ MaxLatePersists = 0
    PROVE  Spec => []HintsAcyclic
  <1>1. TypeInv /\ TypeInv' /\ VoteInv /\ ElectionInv /\ [Next]_vars
          => ElectionInv'
    BY NextElections
  <1>2. TypeInv => TypeOK
    BY DEF TypeInv
  <1> QED
    BY <1>1, <1>2, InitType, NextType, InitVotes, NextVotes, InitElections,
       InitHints, NextHints, HintInvSuffices, PTL DEF Spec

\* handle_append_entries never reaches its unreachable!: no leader has a
\* message before it from a leader of its own term.
NoSecondLeader ==
    \A n \in Node : \A m \in msgs :
        m.type = "AppendEntries" /\ m.dst = n /\ m.term = current_term[n]
            => ~ is_leader(n)

\* It follows from there being one leader per term.
LEMMA OneLeaderSpeaks ==
    ASSUME TypeOK, VoteInv, ElectionInv
    PROVE  NoSecondLeader
  <1>1. SUFFICES ASSUME NEW n \in Node, NEW m \in msgs, IsAppend(m),
                        m.dst = n, m.term = current_term[n], is_leader(n)
                 PROVE  FALSE
    BY DEF NoSecondLeader, IsAppend
  <1>2. m.src # n /\ m.src \in Node
    BY <1>1, MessageType DEF ElectionInv, NotToSelf, Said, TypeOK
  <1>3. m.term \in Terms /\ LeaderOf(n, m.term) /\ LeaderOf(m.src, m.term)
    BY <1>1 DEF Terms, LeaderOf, IsAppend
  <1> QED
    BY <1>2, <1>3, ElectionInvSuffices DEF ElectionSafety

\* The unreachable! is unreachable wherever elections are safe.
THEOREM UnreachableIsUnreachable ==
    ASSUME MaxCrashes = 0 \/ MaxLatePersists = 0
    PROVE  Spec => []NoSecondLeader
  <1>1. TypeInv /\ TypeInv' /\ VoteInv /\ ElectionInv /\ [Next]_vars
          => ElectionInv'
    BY NextElections
  <1>2. TypeInv /\ VoteInv /\ ElectionInv => NoSecondLeader
    BY OneLeaderSpeaks DEF TypeInv
  <1> QED
    BY <1>1, <1>2, InitType, NextType, InitVotes, NextVotes, InitElections,
       PTL DEF Spec
==============================================================================
