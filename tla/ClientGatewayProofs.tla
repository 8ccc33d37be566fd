------------------------ MODULE ClientGatewayProofs --------------------------
(***************************************************************************)
(* Theorems about ClientGateway, for any cluster and any number of         *)
(* clients, requests, elections and crashes, unless a theorem says         *)
(* otherwise.                                                              *)
(*                                                                         *)
(* The argument.  A request is passed on, never copied: whoever takes it   *)
(* lets go of it before it appears elsewhere, as a proxied request, an     *)
(* entry of a log or an answer.  So an operation is in one place at a time *)
(* (OneToken): an answer stays where it is, and what is refused is a       *)
(* request that nobody has appended, or will (Undecided).  A node looks    *)
(* an answer up under the ID that it gave to the request it had sent on.   *)
(* As long as requests are sent on only once, and the node has not been    *)
(* rebooted, this ID belongs to one entry of its table and to one          *)
(* operation (KeysMatch).                                                  *)
(***************************************************************************)
EXTENDS ClientGateway, TLAPS, FiniteSetTheorems

TakenMessage == [msg : ClientMessage, response_id : Nat, is_leader : BOOLEAN]

ProxyEntry ==
    [forward_id : Nat, original_id : Nat, client : Node \cup Client]

LogEntry ==
    [client : Node \cup Client, response_id : Nat, in_reply_to : Nat, op : Op]
-----------------------------------------------------------------------------
(***************************************************************************)
(* Types.                                                                  *)
(***************************************************************************)

\* The values of one node, at their types.
LEMMA NodeType ==
    ASSUME TypeOK, NEW n \in Node
    PROVE  /\ leader[n] \in Node \cup {None}
           /\ next_id[n] \in Nat
           /\ taken[n] \subseteq TakenMessage
           /\ proxies[n] \subseteq ProxyEntry
           /\ appended[n] \subseteq LogEntry
  BY DEF TypeOK, TakenMessage, ProxyEntry, LogEntry

\* What a message carries, by its kind.
LEMMA MessageType ==
    ASSUME NEW m \in ClientMessage
    PROVE  /\ m.kind \in {"request", "response"} /\ m.id \in Nat /\ m.op \in Op
           /\ m.kind = "request" =>
                /\ m.src \in Node \cup Client /\ m.dst \in Node
                /\ m = [kind |-> "request", src |-> m.src, dst |-> m.dst,
                        id |-> m.id, op |-> m.op]
           /\ m.kind = "response" =>
                /\ m.src \in Node /\ m.dst \in Node \cup Client
                /\ m.in_reply_to \in Nat
                /\ m = Response(m.src, m.dst, m.id, m.in_reply_to, m.op)
  BY DEF ClientMessage, Response

\* The constructors of messages.
LEMMA MessageIntro ==
    /\ \A s \in Node \cup Client : \A d \in Node : \A i \in Nat : \A o \in Op :
         [kind |-> "request", src |-> s, dst |-> d, id |-> i, op |-> o]
           \in ClientMessage
    /\ \A s \in Node : \A d \in Node \cup Client : \A i, k \in Nat :
         \A o \in Op : Response(s, d, i, k, o) \in ClientMessage
  BY DEF ClientMessage, Response

\* What Proxy sends, and what ReturnAnswer sends.
Forwarded(n, t) ==
    [kind |-> "request", src |-> n, dst |-> leader[n], id |-> t.response_id,
     op |-> t.msg.op]

Returned(n, t, e) ==
    Response(n, e.client, e.original_id, t.msg.in_reply_to, t.msg.op)

LEMMA ForwardedIs ==
    ASSUME NEW n, NEW t \in TakenMessage, t.msg.kind = "request",
           current_leader(n) # None
    PROVE  [t.msg EXCEPT !.src = n, !.dst = current_leader(n),
                         !.id = t.response_id] = Forwarded(n, t)
  <1>1. /\ current_leader(n) = leader[n]
        /\ t.msg \in ClientMessage
    BY DEF current_leader, TakenMessage
  <1>2. t.msg = [kind |-> "request", src |-> t.msg.src, dst |-> t.msg.dst,
                 id |-> t.msg.id, op |-> t.msg.op]
    BY <1>1, MessageType
  <1>3. PICK a : a = [t.msg EXCEPT !.src = n]
    OBVIOUS
  <1>4. PICK b : b = [a EXCEPT !.dst = leader[n]]
    OBVIOUS
  <1>5. PICK c : c = [b EXCEPT !.id = t.response_id]
    OBVIOUS
  <1>6. a = [kind |-> "request", src |-> n, dst |-> t.msg.dst, id |-> t.msg.id,
             op |-> t.msg.op]
    BY <1>2, <1>3
  <1>7. b = [kind |-> "request", src |-> n, dst |-> leader[n], id |-> t.msg.id,
             op |-> t.msg.op]
    BY <1>4, <1>6
  <1>8. c = Forwarded(n, t)
    BY <1>5, <1>7 DEF Forwarded
  <1> QED
    BY <1>1, <1>3, <1>4, <1>5, <1>8, Zenon

LEMMA ReturnedIs ==
    ASSUME NEW n, NEW t \in TakenMessage, t.msg.kind = "response", NEW e
    PROVE  [t.msg EXCEPT !.src = n, !.dst = e.client, !.id = e.original_id]
             = Returned(n, t, e)
  <1>1. t.msg \in ClientMessage
    BY DEF TakenMessage
  <1>2. t.msg = Response(t.msg.src, t.msg.dst, t.msg.id, t.msg.in_reply_to,
                         t.msg.op)
    BY <1>1, MessageType
  <1>3. PICK a : a = [t.msg EXCEPT !.src = n]
    OBVIOUS
  <1>4. PICK b : b = [a EXCEPT !.dst = e.client]
    OBVIOUS
  <1>5. PICK c : c = [b EXCEPT !.id = e.original_id]
    OBVIOUS
  <1>6. a = Response(n, t.msg.dst, t.msg.id, t.msg.in_reply_to, t.msg.op)
    BY <1>2, <1>3 DEF Response
  <1>7. b = Response(n, e.client, t.msg.id, t.msg.in_reply_to, t.msg.op)
    BY <1>4, <1>6 DEF Response
  <1>8. c = Returned(n, t, e)
    BY <1>5, <1>7 DEF Returned, Response
  <1> QED
    BY <1>3, <1>4, <1>5, <1>8, Zenon

\* ClientSend asks for a new operation.
LEMMA ClientSendType ==
    ASSUME TypeOK, NEW c \in Client, NEW n \in Node, ClientSend(c, n)
    PROVE  TypeOK'
  <1>1. /\ sent[c] \in 0..MaxRequests /\ sent[c] + 1 \in 1..MaxRequests
        /\ sent[c] + 1 \in Nat /\ sent[c] + 1 \in 0..MaxRequests
    BY BoundAssumption DEF TypeOK, ClientSend
  <1>2. <<c, sent[c] + 1>> \in Op
    BY <1>1 DEF Op
  <1>3. net' \subseteq ClientMessage
    <2>1. [kind |-> "request", src |-> c, dst |-> n, id |-> sent[c] + 1,
           op |-> <<c, sent[c] + 1>>] \in ClientMessage
      BY <1>1, <1>2, MessageIntro
    <2> QED
      BY <2>1 DEF TypeOK, ClientSend
  <1>4. sent' \in [Client -> 0..MaxRequests]
    BY <1>1 DEF TypeOK, ClientSend
  <1> QED
    BY <1>3, <1>4 DEF TypeOK, ClientSend, raftVars, history

LEMMA TakeType ==
    ASSUME TypeOK, NEW n \in Node, NEW m \in net, Take(n, m)
    PROVE  TypeOK'
  <1>1. m \in ClientMessage /\ next_id[n] \in Nat /\ is_leader(n) \in BOOLEAN
    BY DEF TypeOK, is_leader
  <1>2. [msg |-> m, response_id |-> next_id[n], is_leader |-> is_leader(n)]
          \in TakenMessage
    BY <1>1 DEF TakenMessage
  <1>3. taken' \in [Node -> SUBSET TakenMessage]
    BY <1>2 DEF TypeOK, Take, TakenMessage
  <1>4. next_id' \in [Node -> Nat]
    BY <1>1 DEF TypeOK, Take
  <1>5. net' \subseteq ClientMessage
    BY DEF TypeOK, Take
  <1> QED
    BY <1>3, <1>4, <1>5 DEF TypeOK, Take, raftVars, history, TakenMessage

\* A request goes into the log.
LEMMA AppendRequestType ==
    ASSUME TypeOK, NEW n \in Node, NEW t \in taken[n], AppendRequest(n, t)
    PROVE  TypeOK'
  <1>1. t \in TakenMessage /\ t.msg \in ClientMessage /\ t.response_id \in Nat
    BY NodeType DEF TakenMessage
  <1>2. [client |-> t.msg.src, response_id |-> t.response_id,
         in_reply_to |-> t.msg.id, op |-> t.msg.op] \in LogEntry
    BY <1>1, MessageType DEF AppendRequest, LogEntry
  <1>3. appended' \in [Node -> SUBSET LogEntry]
    BY <1>2 DEF TypeOK, AppendRequest, LogEntry
  <1>4. taken' \in [Node -> SUBSET TakenMessage]
    BY DEF TypeOK, AppendRequest, TakenMessage
  <1>5. logged' \subseteq Op
    BY <1>1, MessageType DEF TypeOK, AppendRequest
  <1> QED
    BY <1>3, <1>4, <1>5
    DEF TypeOK, AppendRequest, raftVars, history, TakenMessage, LogEntry

\* A request is sent on.
LEMMA ProxyType ==
    ASSUME TypeOK, NEW n \in Node, NEW t \in taken[n], Proxy(n, t)
    PROVE  TypeOK'
  <1>1. t \in TakenMessage /\ t.msg \in ClientMessage /\ t.response_id \in Nat
    BY NodeType DEF TakenMessage
  <1>2. t.msg.kind = "request" /\ current_leader(n) # None
    BY DEF Proxy
  <1>3. leader[n] \in Node
    BY <1>2, NodeType DEF current_leader
  <1>4. net' = net \cup {Forwarded(n, t)}
    BY <1>1, <1>2, ForwardedIs DEF Proxy
  <1>5. Forwarded(n, t) \in ClientMessage
    BY <1>1, <1>3, MessageType, MessageIntro DEF Forwarded
  <1>6. [forward_id |-> t.response_id, original_id |-> t.msg.id,
         client |-> t.msg.src] \in ProxyEntry
    BY <1>1, <1>2, MessageType DEF ProxyEntry
  <1>7. MakeRoom(proxies[n]) \subseteq proxies[n]
    BY DEF MakeRoom
  <1>8. proxies' \in [Node -> SUBSET ProxyEntry]
    BY <1>6, <1>7, NodeType DEF TypeOK, Proxy, ProxyEntry
  <1>9. taken' \in [Node -> SUBSET TakenMessage]
    BY DEF TypeOK, Proxy, TakenMessage
  <1> QED
    BY <1>4, <1>5, <1>8, <1>9
    DEF TypeOK, Proxy, raftVars, history, TakenMessage, ProxyEntry

\* A request is refused.
LEMMA RefuseType ==
    ASSUME TypeOK, NEW n \in Node, NEW t \in taken[n], Refuse(n, t)
    PROVE  TypeOK'
  <1>1. t \in TakenMessage /\ t.msg \in ClientMessage /\ t.response_id \in Nat
    BY NodeType DEF TakenMessage
  <1>2. Response(n, t.msg.src, t.response_id, t.msg.id, t.msg.op)
          \in ClientMessage
    BY <1>1, MessageType, MessageIntro DEF Refuse
  <1>3. taken' \in [Node -> SUBSET TakenMessage]
    BY DEF TypeOK, Refuse, TakenMessage
  <1>4. refused' \subseteq Op
    BY <1>1, MessageType DEF TypeOK, Refuse
  <1> QED
    BY <1>2, <1>3, <1>4 DEF TypeOK, Refuse, raftVars, history, TakenMessage

\* What an answer is looked up to.
Found(n, t) == {e \in proxies[n] : e.forward_id = t.msg.in_reply_to}

\* ReturnAnswer in these terms.
LEMMA ReturnAnswerIs ==
    ASSUME TypeOK, NEW n \in Node, NEW t \in taken[n], ReturnAnswer(n, t)
    PROVE  /\ t \in TakenMessage /\ t.msg \in ClientMessage
           /\ t.msg.kind = "response" /\ t.msg.in_reply_to \in Nat
           /\ proxies' = [proxies EXCEPT ![n] = @ \ Found(n, t)]
           /\ net' = net \cup {Returned(n, t, e) : e \in Found(n, t)}
           /\ taken' = [taken EXCEPT ![n] = {}]
  <1>1. /\ t \in TakenMessage /\ t.msg \in ClientMessage
        /\ t.msg.kind = "response"
    BY NodeType DEF TakenMessage, ReturnAnswer
  <1>2. \A e : [t.msg EXCEPT !.src = n, !.dst = e.client, !.id = e.original_id]
                 = Returned(n, t, e)
    BY <1>1, ReturnedIs
  <1>3. net' = net \cup {[t.msg EXCEPT !.src = n, !.dst = e.client,
                                 !.id = e.original_id] : e \in Found(n, t)}
    BY DEF ReturnAnswer, Found
  <1>4. net' = net \cup {Returned(n, t, e) : e \in Found(n, t)}
    BY <1>2, <1>3
  <1> QED
    BY <1>1, <1>4, MessageType DEF ReturnAnswer, Found

\* An answer is passed on.
LEMMA ReturnAnswerType ==
    ASSUME TypeOK, NEW n \in Node, NEW t \in taken[n], ReturnAnswer(n, t)
    PROVE  TypeOK'
  <1>1. /\ t.msg \in ClientMessage /\ t.msg.in_reply_to \in Nat
        /\ proxies' = [proxies EXCEPT ![n] = @ \ Found(n, t)]
        /\ net' = net \cup {Returned(n, t, e) : e \in Found(n, t)}
        /\ taken' = [taken EXCEPT ![n] = {}]
    BY ReturnAnswerIs
  <1>2. \A e \in Found(n, t) : Returned(n, t, e) \in ClientMessage
    <2>1. \A e \in Found(n, t) : e.client \in Node \cup Client
                                  /\ e.original_id \in Nat
      BY NodeType DEF Found, ProxyEntry
    <2> QED
      BY <1>1, <2>1, MessageType, MessageIntro DEF Returned
  <1>3. net' \subseteq ClientMessage
    BY <1>1, <1>2 DEF TypeOK
  <1>4. taken' \in [Node -> SUBSET TakenMessage]
    BY <1>1 DEF TypeOK, TakenMessage
  <1>5. proxies' \in [Node -> SUBSET ProxyEntry]
    BY <1>1 DEF TypeOK, ProxyEntry
  <1> QED
    BY <1>3, <1>4, <1>5
    DEF TypeOK, ReturnAnswer, raftVars, history, TakenMessage, ProxyEntry

\* A command is answered.
LEMMA AnswerType ==
    ASSUME TypeOK, NEW n \in Node, NEW e \in appended[n], Answer(n, e)
    PROVE  TypeOK'
  <1>1. e \in LogEntry
    BY NodeType
  <1>2. Response(n, e.client, e.response_id, e.in_reply_to, e.op)
          \in ClientMessage
    BY <1>1, MessageIntro DEF LogEntry
  <1>3. appended' \in [Node -> SUBSET LogEntry]
    BY DEF TypeOK, Answer, LogEntry
  <1> QED
    BY <1>2, <1>3 DEF TypeOK, Answer, raftVars, history, LogEntry

\* The steps of the Raft thread, and a crash.
LEMMA RaftStepType ==
    ASSUME TypeOK, NEW n \in Node,
           \/ BecomeLeader(n)
           \/ \E l \in Node : LearnLeader(n, l)
           \/ ForgetLeader(n)
           \/ Crash(n)
    PROVE  TypeOK'
  <1>1. CASE BecomeLeader(n)
    BY <1>1 DEF TypeOK, BecomeLeader, history
  <1>2. ASSUME NEW l \in Node, LearnLeader(n, l)
        PROVE  TypeOK'
    BY <1>2 DEF TypeOK, LearnLeader, history
  <1>3. CASE ForgetLeader(n)
    BY <1>3 DEF TypeOK, ForgetLeader, history
  <1>4. CASE Crash(n)
    BY <1>4 DEF TypeOK, Crash, history
  <1> QED
    BY <1>1, <1>2, <1>3, <1>4

LEMMA TypeStep == TypeOK /\ [Next]_vars => TypeOK'
  <1> SUFFICES ASSUME TypeOK, [Next]_vars
               PROVE  TypeOK'
    OBVIOUS
  <1>1. CASE UNCHANGED vars
    BY <1>1 DEF TypeOK, vars
  <1>2. CASE Next
    <2>1. PICK n \in Node :
              \/ \E c \in Client : ClientSend(c, n)
              \/ \E m \in net : Take(n, m)
              \/ \E t \in taken[n] : Handle(n, t)
              \/ \E e \in appended[n] : Answer(n, e)
              \/ BecomeLeader(n)
              \/ \E l \in Node : LearnLeader(n, l)
              \/ ForgetLeader(n)
              \/ Crash(n)
      BY <1>2 DEF Next
    <2>2. CASE \E t \in taken[n] : Handle(n, t)
      BY <2>2, AppendRequestType, ProxyType, RefuseType, ReturnAnswerType
      DEF Handle
    <2> QED
      BY <2>1, <2>2, ClientSendType, TakeType, AnswerType, RaftStepType
  <1> QED
    BY <1>1, <1>2

\* Every variable of the gateway has its type: in particular what a client
\* thread sends is addressed to a node or a client, as Proxy sends nothing when
\* no leader is known.
THEOREM GatewayTypeCorrect == Spec => []TypeOK
  <1>1. Init => TypeOK
    BY BoundAssumption DEF Init, TypeOK
  <1> QED
    BY <1>1, TypeStep, PTL DEF Spec
-----------------------------------------------------------------------------
(***************************************************************************)
(* The table of proxies.                                                   *)
(***************************************************************************)
TableInv ==
    \A n \in Node : /\ IsFiniteSet(proxies[n])
                     /\ Cardinality(proxies[n]) <= MaxInflight + 1

\* pop_first leaves room: what is left of a table of at most MaxInflight + 1
\* entries has at most MaxInflight.
LEMMA RoomIsMade ==
    ASSUME NEW table \in SUBSET ProxyEntry, IsFiniteSet(table),
           Cardinality(table) <= MaxInflight + 1
    PROVE  /\ IsFiniteSet(MakeRoom(table))
           /\ Cardinality(MakeRoom(table)) <= MaxInflight
  <1>1. Cardinality(table) \in Nat
    BY FS_CardinalityType
  <1>2. CASE ~ Cardinality(table) > MaxInflight
    BY <1>1, <1>2, BoundAssumption DEF MakeRoom
  <1>3. CASE Cardinality(table) > MaxInflight
    <2> DEFINE Ids == {e.forward_id : e \in table}
    <2>1. table # {}
      BY <1>3, FS_EmptySet, BoundAssumption
    <2>2. Ids \subseteq Nat
      BY DEF ProxyEntry
    <2>3. PICK i \in Ids : \A k \in Ids : <<k, i>> \notin OpToRel(<, Nat)
      <3>1. PICK k \in Ids : TRUE
        BY <2>1
      <3> QED
        BY <2>2, <3>1, NatLessThanWellFounded, WFMin
    <2>4. PICK first \in table : first.forward_id = i
      BY <2>3
    <2>5. \A f \in table : ~ (f.forward_id < first.forward_id)
      <3> TAKE f \in table
      <3>1. f.forward_id \in Ids /\ f.forward_id \in Nat /\ i \in Nat
        BY <2>2, <2>3
      <3> QED
        BY <2>3, <2>4, <3>1 DEF OpToRel
    <2>6. MakeRoom(table) \subseteq table \ {first}
      BY <1>3, <2>5 DEF MakeRoom
    <2>7. /\ IsFiniteSet(table \ {first})
          /\ Cardinality(table \ {first}) = Cardinality(table) - 1
      BY <2>4, FS_RemoveElement
    <2>8. /\ IsFiniteSet(MakeRoom(table))
          /\ Cardinality(MakeRoom(table)) <= Cardinality(table \ {first})
      BY <2>6, <2>7, FS_Subset
    <2>9. Cardinality(MakeRoom(table)) \in Nat
      BY <2>8, FS_CardinalityType
    <2> QED
      BY <1>1, <2>7, <2>8, <2>9, BoundAssumption
  <1> QED
    BY <1>2, <1>3

LEMMA TableStep == TypeOK /\ TableInv /\ [Next]_vars => TableInv'
  <1> SUFFICES ASSUME TypeOK, TableInv, [Next]_vars
               PROVE  TableInv'
    OBVIOUS
  <1>1. CASE UNCHANGED proxies
    BY <1>1 DEF TableInv
  <1>2. ASSUME NEW n \in Node, NEW t \in taken[n], Proxy(n, t)
        PROVE  TableInv'
    <2> DEFINE room == MakeRoom(proxies[n])
               e == [forward_id |-> t.response_id, original_id |-> t.msg.id,
                     client |-> t.msg.src]
    <2>1. /\ proxies[n] \in SUBSET ProxyEntry /\ IsFiniteSet(proxies[n])
          /\ Cardinality(proxies[n]) <= MaxInflight + 1
      BY NodeType DEF TableInv
    <2>2. IsFiniteSet(room) /\ Cardinality(room) <= MaxInflight
      BY <2>1, RoomIsMade
    <2>3. /\ IsFiniteSet(room \cup {e})
          /\ Cardinality(room \cup {e}) <= MaxInflight + 1
      <3>1. Cardinality(room) \in Nat
        BY <2>2, FS_CardinalityType
      <3>2. /\ IsFiniteSet(room \cup {e})
            /\ \/ Cardinality(room \cup {e}) = Cardinality(room)
               \/ Cardinality(room \cup {e}) = Cardinality(room) + 1
        BY <2>2, FS_AddElement
      <3> QED
        BY <2>2, <3>1, <3>2, BoundAssumption
    <2>4. proxies' = [proxies EXCEPT ![n] = room \cup {e}]
      BY <1>2 DEF Proxy
    <2> QED
      BY <2>3, <2>4 DEF TypeOK, TableInv
  <1>3. ASSUME NEW n \in Node, NEW table \in SUBSET proxies[n],
               proxies' = [proxies EXCEPT ![n] = table]
        PROVE  TableInv'
    <2>1. IsFiniteSet(table) /\ Cardinality(table) <= Cardinality(proxies[n])
      BY FS_Subset DEF TableInv
    <2>2. Cardinality(table) \in Nat /\ Cardinality(proxies[n]) \in Nat
      BY <2>1, FS_CardinalityType DEF TableInv
    <2>3. Cardinality(table) <= MaxInflight + 1
      BY <2>1, <2>2, BoundAssumption DEF TableInv
    <2> QED
      BY <1>3, <2>1, <2>3 DEF TypeOK, TableInv
  <1>4. ASSUME NEW n \in Node, NEW t \in taken[n], ReturnAnswer(n, t)
        PROVE  TableInv'
    <2>1. proxies' = [proxies EXCEPT ![n] = proxies[n] \ Found(n, t)]
      BY <1>4, ReturnAnswerIs
    <2> QED
      BY <1>3, <2>1
  <1>5. ASSUME NEW n \in Node, Crash(n)
        PROVE  TableInv'
    BY <1>3, <1>5 DEF Crash
  <1> QED
    BY <1>1, <1>2, <1>4, <1>5
    DEF Next, vars, Handle, ClientSend, Take, AppendRequest, Refuse, Answer,
        BecomeLeader, LearnLeader, ForgetLeader

\* However many answers are lost, a table never has more than
\* MAX_INFLIGHT_PROXIES + 1 entries: the one too many is what pop_first drops
\* when the next request comes.
THEOREM TableStaysBounded == Spec => []TableBounded
  <1>1. Init => TypeOK /\ TableInv
    <2>1. IsFiniteSet({}) /\ Cardinality({}) = 0
      BY FS_EmptySet
    <2> QED
      BY <2>1, BoundAssumption DEF Init, TypeOK, TableInv
  <1>2. TableInv => TableBounded
    BY DEF TableInv, TableBounded
  <1> QED
    BY <1>1, <1>2, TypeStep, TableStep, PTL DEF Spec
-----------------------------------------------------------------------------
(***************************************************************************)
(* Where an operation is: in a message, in the hands of a client thread,   *)
(* or in a log.  Each such place is a token.  What it holds comes down to  *)
(* a message: the one that it is, the one that was taken, or the request   *)
(* that the entry of the log was.                                          *)
(***************************************************************************)
NetToken(m) == [at |-> "net", node |-> None, what |-> m, msg |-> m]

TakenToken(n, t) == [at |-> "taken", node |-> n, what |-> t, msg |-> t.msg]

Request(n, e) == [kind |-> "request", src |-> e.client, dst |-> n,
                  id |-> e.in_reply_to, op |-> e.op]

LogToken(n, e) == [at |-> "log", node |-> n, what |-> e, msg |-> Request(n, e)]

NetTokens == {NetToken(m) : m \in net}

TakenTokens == UNION {{TakenToken(n, t) : t \in taken[n]} : n \in Node}

LogTokens == UNION {{LogToken(n, e) : e \in appended[n]} : n \in Node}

Tokens == NetTokens \cup TakenTokens \cup LogTokens

\* An operation is in one place.
OneToken == \A x, y \in Tokens : x.msg.op = y.msg.op => x = y

\* Only operations that have been asked for are anywhere.
Asked == \A x \in Tokens : x.msg.op[2] <= sent[x.msg.op[1]]

\* A client thread deals with one message at a time.
OneTaken ==
    \A n \in Node : \A t \in taken[n] : /\ \A u \in taken[n] : u = t
                                        /\ t.msg.dst = n

\* An ID that is in use has been drawn and is in use once.
IdsDrawn ==
    \A n \in Node :
        /\ \A t \in taken[n] : t.response_id < next_id[n]
        /\ \A e \in proxies[n] :
             /\ e.forward_id < next_id[n]
             /\ \A t \in taken[n] : t.response_id # e.forward_id
             /\ \A f \in proxies[n] : f.forward_id = e.forward_id => f = e

TokenInv == TypeOK /\ OneToken /\ Asked /\ OneTaken /\ IdsDrawn

\* A token tells what it is made of.
LEMMA TokenFields ==
    /\ \A m : NetToken(m).at = "net" /\ NetToken(m).what = m
              /\ NetToken(m).msg = m
    /\ \A n, t : /\ TakenToken(n, t).at = "taken" /\ TakenToken(n, t).node = n
                 /\ TakenToken(n, t).what = t /\ TakenToken(n, t).msg = t.msg
    /\ \A n, e : /\ LogToken(n, e).at = "log" /\ LogToken(n, e).node = n
                 /\ LogToken(n, e).what = e /\ LogToken(n, e).msg = Request(n, e)
  BY DEF NetToken, TakenToken, LogToken

\* The tokens are these and no others.
TokensAre ==
    /\ \A m \in net : NetToken(m) \in Tokens
    /\ \A n \in Node : /\ \A t \in taken[n] : TakenToken(n, t) \in Tokens
                       /\ \A e \in appended[n] : LogToken(n, e) \in Tokens
    /\ \A x \in Tokens :
         \/ \E m \in net : x = NetToken(m)
         \/ \E n \in Node : \E t \in taken[n] : x = TakenToken(n, t)
         \/ \E n \in Node : \E e \in appended[n] : x = LogToken(n, e)

LEMMA TokenIs == TokensAre
  <1>1. ASSUME NEW m \in net
        PROVE  NetToken(m) \in Tokens
    BY DEF Tokens, NetTokens
  <1>2. ASSUME NEW n \in Node, NEW t \in taken[n]
        PROVE  TakenToken(n, t) \in Tokens
    <2>1. TakenToken(n, t) \in {TakenToken(n, u) : u \in taken[n]}
      OBVIOUS
    <2>2. TakenToken(n, t) \in TakenTokens
      BY <2>1, Zenon DEF TakenTokens
    <2> QED
      BY <2>2 DEF Tokens
  <1>3. ASSUME NEW n \in Node, NEW e \in appended[n]
        PROVE  LogToken(n, e) \in Tokens
    <2>1. LogToken(n, e) \in {LogToken(n, f) : f \in appended[n]}
      OBVIOUS
    <2>2. LogToken(n, e) \in LogTokens
      BY <2>1, Zenon DEF LogTokens
    <2> QED
      BY <2>2 DEF Tokens
  <1>4. ASSUME NEW x \in Tokens
        PROVE  \/ \E m \in net : x = NetToken(m)
               \/ \E n \in Node : \E t \in taken[n] : x = TakenToken(n, t)
               \/ \E n \in Node : \E e \in appended[n] : x = LogToken(n, e)
    <2>1. CASE x \in TakenTokens
      BY <2>1, Zenon DEF TakenTokens
    <2>2. CASE x \in LogTokens
      BY <2>2, Zenon DEF LogTokens
    <2>3. CASE x \in NetTokens
      BY <2>3 DEF NetTokens
    <2> QED
      BY <2>1, <2>2, <2>3 DEF Tokens
  <1> QED
    BY <1>1, <1>2, <1>3, <1>4 DEF TokensAre

LEMMA TokenIsNext == TokensAre'
  BY TokenIs, PTL

\* What x held has moved to y.
Moves(x, y) == /\ x \in Tokens
               /\ Tokens' \subseteq (Tokens \ {x}) \cup {y}
               /\ y.msg.op = x.msg.op

\* Each step moves at most one operation.
LEMMA TakeMoves ==
    ASSUME TypeOK, NEW n \in Node, NEW m \in net, Take(n, m)
    PROVE  LET t == [msg |-> m, response_id |-> next_id[n],
                     is_leader |-> is_leader(n)]
           IN  Moves(NetToken(m), TakenToken(n, t))
  <1> DEFINE t == [msg |-> m, response_id |-> next_id[n],
                   is_leader |-> is_leader(n)]
  <1>1. /\ net' = net \ {m} /\ taken' = [taken EXCEPT ![n] = {t}]
        /\ appended' = appended
    BY DEF Take
  <1>2. t.msg = m
    OBVIOUS
  <1> HIDE DEF t
  <1>3. ASSUME NEW x \in Tokens'
        PROVE  x \in (Tokens \ {NetToken(m)}) \cup {TakenToken(n, t)}
    <2>1. CASE \E k \in net' : x = NetToken(k)
      BY <1>1, <2>1, TokenFields, TokenIs DEF TokensAre
    <2>2. CASE \E k \in Node : \E u \in taken'[k] : x = TakenToken(k, u)
      <3>0. PICK k \in Node : \E u \in taken'[k] : x = TakenToken(k, u)
        BY <2>2
      <3>1. PICK u \in taken'[k] : x = TakenToken(k, u)
        BY <3>0
      <3>2. (k = n /\ u = t) \/ u \in taken[k]
        BY <1>1, <3>1 DEF TypeOK
      <3> QED
        BY <3>1, <3>2, TokenFields, TokenIs DEF TokensAre
    <2>3. CASE \E k \in Node : \E e \in appended'[k] : x = LogToken(k, e)
      BY <1>1, <2>3, TokenFields, TokenIs DEF TokensAre
    <2> QED
      BY <2>1, <2>2, <2>3, TokenIsNext DEF TokensAre
  <1>4. Moves(NetToken(m), TakenToken(n, t))
    BY <1>2, <1>3, TokenFields, TokenIs DEF TokensAre, Moves
  <1> QED
    BY <1>4 DEF t

\* The client thread lets go of its message, and sends at most one.
LEMMA HandleMoves ==
    ASSUME TypeOK, NEW n \in Node, NEW t \in taken[n], NEW new,
           net' \subseteq net \cup {new}, new.op = t.msg.op,
           taken' = [taken EXCEPT ![n] = {}], appended' = appended
    PROVE  Moves(TakenToken(n, t), NetToken(new))
  <1>1. ASSUME NEW x \in Tokens'
        PROVE  x \in (Tokens \ {TakenToken(n, t)}) \cup {NetToken(new)}
    <2>1. CASE \E m \in net' : x = NetToken(m)
      BY <2>1, TokenFields, TokenIs DEF TokensAre
    <2>2. CASE \E k \in Node : \E u \in taken'[k] : x = TakenToken(k, u)
      <3>0. PICK k \in Node : \E u \in taken'[k] : x = TakenToken(k, u)
        BY <2>2
      <3>1. PICK u \in taken'[k] : x = TakenToken(k, u)
        BY <3>0
      <3>2. k # n /\ u \in taken[k]
        BY <3>1 DEF TypeOK
      <3> QED
        BY <3>1, <3>2, TokenFields, TokenIs DEF TokensAre
    <2>3. CASE \E k \in Node : \E e \in appended'[k] : x = LogToken(k, e)
      BY <2>3, TokenFields, TokenIs DEF TokensAre
    <2> QED
      BY <2>1, <2>2, <2>3, TokenIsNext DEF TokensAre
  <1> QED
    BY <1>1, TokenFields, TokenIs DEF TokensAre, Moves

LEMMA AppendMoves ==
    ASSUME TypeOK, NEW n \in Node, NEW t \in taken[n], AppendRequest(n, t)
    PROVE  LET e == [client |-> t.msg.src, response_id |-> t.response_id,
                     in_reply_to |-> t.msg.id, op |-> t.msg.op]
           IN  Moves(TakenToken(n, t), LogToken(n, e))
  <1> DEFINE new == [client |-> t.msg.src, response_id |-> t.response_id,
                     in_reply_to |-> t.msg.id, op |-> t.msg.op]
  <1>1. /\ net' = net /\ taken' = [taken EXCEPT ![n] = {}]
        /\ appended' = [appended EXCEPT ![n] = appended[n] \cup {new}]
    BY DEF AppendRequest
  <1>2. Request(n, new).op = t.msg.op
    BY DEF Request
  <1> HIDE DEF new
  <1>3. ASSUME NEW x \in Tokens'
        PROVE  x \in (Tokens \ {TakenToken(n, t)}) \cup {LogToken(n, new)}
    <2>1. CASE \E m \in net' : x = NetToken(m)
      BY <1>1, <2>1, TokenFields, TokenIs DEF TokensAre
    <2>2. CASE \E k \in Node : \E u \in taken'[k] : x = TakenToken(k, u)
      <3>0. PICK k \in Node : \E u \in taken'[k] : x = TakenToken(k, u)
        BY <2>2
      <3>1. PICK u \in taken'[k] : x = TakenToken(k, u)
        BY <3>0
      <3>2. k # n /\ u \in taken[k]
        BY <1>1, <3>1 DEF TypeOK
      <3> QED
        BY <3>1, <3>2, TokenFields, TokenIs DEF TokensAre
    <2>3. CASE \E k \in Node : \E e \in appended'[k] : x = LogToken(k, e)
      <3>0. PICK k \in Node : \E e \in appended'[k] : x = LogToken(k, e)
        BY <2>3
      <3>1. PICK e \in appended'[k] : x = LogToken(k, e)
        BY <3>0
      <3>2. (k = n /\ e = new) \/ e \in appended[k]
        BY <1>1, <3>1 DEF TypeOK
      <3> QED
        BY <3>1, <3>2, TokenFields, TokenIs DEF TokensAre
    <2> QED
      BY <2>1, <2>2, <2>3, TokenIsNext DEF TokensAre
  <1>4. Moves(TakenToken(n, t), LogToken(n, new))
    BY <1>2, <1>3, TokenFields, TokenIs DEF TokensAre, Moves
  <1> QED
    BY <1>4 DEF new

LEMMA AnswerMoves ==
    ASSUME TypeOK, NEW n \in Node, NEW e \in appended[n], Answer(n, e)
    PROVE  LET m == Response(n, e.client, e.response_id, e.in_reply_to, e.op)
           IN  Moves(LogToken(n, e), NetToken(m))
  <1> DEFINE new == Response(n, e.client, e.response_id, e.in_reply_to, e.op)
  <1>1. /\ net' = net \cup {new} /\ taken' = taken
        /\ appended' = [appended EXCEPT ![n] = appended[n] \ {e}]
    BY DEF Answer
  <1>2. new.op = e.op /\ Request(n, e).op = e.op
    BY DEF Response, Request
  <1> HIDE DEF new
  <1>3. ASSUME NEW x \in Tokens'
        PROVE  x \in (Tokens \ {LogToken(n, e)}) \cup {NetToken(new)}
    <2>1. CASE \E m \in net' : x = NetToken(m)
      BY <1>1, <2>1, TokenFields, TokenIs DEF TokensAre
    <2>2. CASE \E k \in Node : \E u \in taken'[k] : x = TakenToken(k, u)
      BY <1>1, <2>2, TokenFields, TokenIs DEF TokensAre
    <2>3. CASE \E k \in Node : \E f \in appended'[k] : x = LogToken(k, f)
      <3>0. PICK k \in Node : \E f \in appended'[k] : x = LogToken(k, f)
        BY <2>3
      <3>1. PICK f \in appended'[k] : x = LogToken(k, f)
        BY <3>0
      <3>2. f \in appended[k] /\ ~ (k = n /\ f = e)
        BY <1>1, <3>1 DEF TypeOK
      <3> QED
        BY <3>1, <3>2, TokenFields, TokenIs DEF TokensAre
    <2> QED
      BY <2>1, <2>2, <2>3, TokenIsNext DEF TokensAre
  <1>4. Moves(LogToken(n, e), NetToken(new))
    BY <1>2, <1>3, TokenFields, TokenIs DEF TokensAre, Moves
  <1> QED
    BY <1>4 DEF new

LEMMA ClientSendMoves ==
    ASSUME NEW c \in Client, NEW n \in Node, ClientSend(c, n)
    PROVE  LET m == [kind |-> "request", src |-> c, dst |-> n,
                     id |-> sent[c] + 1, op |-> <<c, sent[c] + 1>>]
           IN  Tokens' \subseteq Tokens \cup {NetToken(m)}
  <1> DEFINE m == [kind |-> "request", src |-> c, dst |-> n,
                   id |-> sent[c] + 1, op |-> <<c, sent[c] + 1>>]
  <1>1. net' = net \cup {m} /\ taken' = taken /\ appended' = appended
    BY DEF ClientSend
  <1> HIDE DEF m
  <1>2. Tokens' \subseteq Tokens \cup {NetToken(m)}
    BY <1>1, TokenIs, TokenIsNext DEF TokensAre
  <1> QED
    BY <1>2 DEF m

LEMMA ReturnMoves ==
    ASSUME TypeOK, IdsDrawn, NEW n \in Node, NEW t \in taken[n],
           ReturnAnswer(n, t)
    PROVE  \/ /\ Found(n, t) = {}
              /\ Moves(TakenToken(n, t), NetToken(t.msg))
              /\ Tokens' \subseteq Tokens
           \/ \E e \in Found(n, t) :
                Moves(TakenToken(n, t), NetToken(Returned(n, t, e)))
  <1>1. /\ net' = net \cup {Returned(n, t, e) : e \in Found(n, t)}
        /\ taken' = [taken EXCEPT ![n] = {}] /\ appended' = appended
    BY ReturnAnswerIs DEF ReturnAnswer
  <1>2. CASE Found(n, t) = {}
    <2>1. net' = net
      BY <1>1, <1>2
    <2>2. Moves(TakenToken(n, t), NetToken(t.msg))
      BY <1>1, <2>1, HandleMoves
    <2>3. \A k \in Node : taken'[k] \subseteq taken[k]
      BY <1>1 DEF TypeOK
    <2>4. Tokens' \subseteq Tokens
      BY <1>1, <2>1, <2>3, TokenIs, TokenIsNext DEF TokensAre
    <2> QED
      BY <1>2, <2>2, <2>4
  <1>3. CASE Found(n, t) # {}
    <2>1. PICK e \in Found(n, t) : TRUE
      BY <1>3
    <2>2. \A f \in Found(n, t) : f = e
      BY <2>1 DEF IdsDrawn, Found
    <2>3. net' \subseteq net \cup {Returned(n, t, e)}
      BY <1>1, <2>2
    <2>4. Returned(n, t, e).op = t.msg.op
      BY DEF Returned, Response
    <2>5. Moves(TakenToken(n, t), NetToken(Returned(n, t, e)))
      BY <1>1, <2>3, <2>4, HandleMoves
    <2> QED
      BY <2>1, <2>5
  <1> QED
    BY <1>2, <1>3

\* Proxy and Refuse send what they have taken.
LEMMA ProxyMoves ==
    ASSUME TypeOK, NEW n \in Node, NEW t \in taken[n], Proxy(n, t)
    PROVE  /\ Moves(TakenToken(n, t), NetToken(Forwarded(n, t)))
           /\ leader[n] \in Node \ {n}
           /\ t.msg \in ClientMessage /\ t.msg.kind = "request"
           /\ t.msg.src \in Node \cup Client
  <1>1. /\ t \in TakenMessage /\ t.msg \in ClientMessage
        /\ t.msg.kind = "request" /\ current_leader(n) # None
    BY NodeType DEF TakenMessage, Proxy
  <1>2. net' = net \cup {Forwarded(n, t)}
    BY <1>1, ForwardedIs DEF Proxy
  <1>3. Forwarded(n, t).op = t.msg.op
    BY DEF Forwarded
  <1>4. Moves(TakenToken(n, t), NetToken(Forwarded(n, t)))
    BY <1>2, <1>3, HandleMoves DEF Proxy
  <1>5. leader[n] \in Node \ {n}
    BY <1>1, NodeType DEF current_leader, is_leader
  <1> QED
    BY <1>1, <1>4, <1>5, MessageType

LEMMA RefuseMoves ==
    ASSUME TypeOK, NEW n \in Node, NEW t \in taken[n], Refuse(n, t)
    PROVE  LET m == Response(n, t.msg.src, t.response_id, t.msg.id, t.msg.op)
           IN  Moves(TakenToken(n, t), NetToken(m))
  <1> DEFINE m == Response(n, t.msg.src, t.response_id, t.msg.id, t.msg.op)
  <1>1. net' \subseteq net \cup {m}
    BY DEF Refuse
  <1>2. m.op = t.msg.op
    BY DEF Response
  <1> HIDE DEF m
  <1>3. Moves(TakenToken(n, t), NetToken(m))
    BY <1>1, <1>2, HandleMoves DEF Refuse
  <1> QED
    BY <1>3 DEF m

\* The steps of the Raft thread move nothing; a crash destroys.
LEMMA RaftStepMoves ==
    ASSUME TypeOK, NEW n \in Node,
           \/ BecomeLeader(n)
           \/ \E l \in Node : LearnLeader(n, l)
           \/ ForgetLeader(n)
           \/ Crash(n)
    PROVE  Tokens' \subseteq Tokens /\ sent' = sent
  <1>1. /\ net' = net /\ sent' = sent
        /\ \A k \in Node : /\ taken'[k] \subseteq taken[k]
                           /\ appended'[k] \subseteq appended[k]
    BY DEF TypeOK, BecomeLeader, LearnLeader, ForgetLeader, Crash
  <1> QED
    BY <1>1, TokenIs, TokenIsNext DEF TokensAre

\* What a token holds is a message.
LEMMA TokenType ==
    ASSUME TypeOK, NEW x \in Tokens
    PROVE  /\ x.msg \in ClientMessage /\ x.msg.op \in Op
           /\ x.msg.op[1] \in Client /\ x.msg.op[2] \in Nat
  <1>1. ASSUME NEW m \in net, x = NetToken(m)
        PROVE  x.msg \in ClientMessage
    BY <1>1, TokenFields DEF TypeOK
  <1>2. ASSUME NEW n \in Node, NEW t \in taken[n], x = TakenToken(n, t)
        PROVE  x.msg \in ClientMessage
    <2>1. t \in TakenMessage
      BY NodeType
    <2> QED
      BY <1>2, <2>1, TokenFields DEF TakenMessage
  <1>3. ASSUME NEW n \in Node, NEW e \in appended[n], x = LogToken(n, e)
        PROVE  x.msg \in ClientMessage
    <2>1. e \in LogEntry
      BY NodeType
    <2>2. Request(n, e) \in ClientMessage
      BY <2>1, MessageIntro DEF Request, LogEntry
    <2> QED
      BY <1>3, <2>2, TokenFields
  <1>4. x.msg \in ClientMessage
    BY <1>1, <1>2, <1>3, TokenIs DEF TokensAre
  <1>5. x.msg.op \in Op
    BY <1>4, MessageType
  <1>6. x.msg.op[1] \in Client /\ x.msg.op[2] \in 1..MaxRequests
    BY <1>5 DEF Op
  <1> QED
    BY <1>4, <1>5, <1>6, BoundAssumption

\* An operation that moves stays the only one of its kind, and asked for.
LEMMA MovePreserves ==
    ASSUME TypeOK, OneToken, Asked, NEW x, NEW y, Moves(x, y), sent' = sent
    PROVE  OneToken' /\ Asked'
  <1>1. \A z \in Tokens' : z = y \/ (z \in Tokens /\ z # x)
    BY DEF Moves
  <1>2. \A z \in Tokens : z.msg.op = y.msg.op => z = x
    BY DEF Moves, OneToken
  <1>3. OneToken'
    BY <1>1, <1>2 DEF OneToken
  <1>4. Asked'
    BY <1>1 DEF Asked, Moves
  <1> QED
    BY <1>3, <1>4

LEMMA TokenStep == TokenInv /\ [Next]_vars => OneToken' /\ Asked'
  <1> SUFFICES ASSUME TokenInv, [Next]_vars
               PROVE  OneToken' /\ Asked'
    OBVIOUS
  <1> USE DEF TokenInv
  <1>1. ASSUME Tokens' \subseteq Tokens, sent' = sent
        PROVE  OneToken' /\ Asked'
    BY <1>1 DEF OneToken, Asked
  <1>2. CASE UNCHANGED vars
    <2>1. net' = net /\ taken' = taken /\ appended' = appended
      BY <1>2 DEF vars
    <2>2. Tokens' \subseteq Tokens
      BY <2>1, TokenIs, TokenIsNext DEF TokensAre
    <2> QED
      BY <1>1, <1>2, <2>2 DEF vars
  <1>3. ASSUME NEW n \in Node, NEW c \in Client, ClientSend(c, n)
        PROVE  OneToken' /\ Asked'
    <2> DEFINE m == [kind |-> "request", src |-> c, dst |-> n,
                     id |-> sent[c] + 1, op |-> <<c, sent[c] + 1>>]
    <2>1. \A z \in Tokens' : z \in Tokens \/ z = NetToken(m)
      BY <1>3, ClientSendMoves
    <2>2. m.op = <<c, sent[c] + 1>> /\ m.op[1] = c /\ m.op[2] = sent[c] + 1
      OBVIOUS
    <2>3. NetToken(m).msg = m
      BY TokenFields
    <2> HIDE DEF m
    <2>4. /\ sent[c] \in Nat /\ sent' = [sent EXCEPT ![c] = @ + 1]
          /\ \A d \in Client : sent[d] \in Nat
      BY <1>3, BoundAssumption DEF TypeOK, ClientSend
    <2>5. \A z \in Tokens : z.msg.op # m.op
      <3> TAKE z \in Tokens
      <3>1. z.msg.op[2] <= sent[z.msg.op[1]]
        BY DEF Asked
      <3> QED
        BY <2>2, <2>4, <3>1
    <2>6. OneToken'
      BY <2>1, <2>3, <2>5 DEF OneToken
    <2>7. \A d \in Client : sent[d] <= sent'[d]
      BY <2>4 DEF TypeOK
    <2>8. ASSUME NEW z \in Tokens'
          PROVE  z.msg.op[2] <= sent'[z.msg.op[1]]
      <3>1. CASE z \in Tokens
        <4>1. z.msg.op[1] \in Client /\ z.msg.op[2] \in Nat
          BY <3>1, TokenType
        <4>2. /\ z.msg.op[2] <= sent[z.msg.op[1]]
              /\ sent[z.msg.op[1]] <= sent'[z.msg.op[1]]
          BY <2>7, <3>1, <4>1 DEF Asked
        <4>3. sent[z.msg.op[1]] \in Nat /\ sent'[z.msg.op[1]] \in Nat
          BY <2>4, <4>1 DEF TypeOK
        <4> QED
          BY <4>1, <4>2, <4>3
      <3>2. CASE z = NetToken(m)
        <4>1. sent'[c] = sent[c] + 1
          BY <2>4 DEF TypeOK
        <4> QED
          BY <2>2, <2>3, <2>4, <3>2, <4>1
      <3> QED
        BY <2>1, <3>1, <3>2
    <2> QED
      BY <2>6, <2>8 DEF Asked
  <1>4. ASSUME NEW n \in Node, NEW m \in net, Take(n, m)
        PROVE  OneToken' /\ Asked'
    <2>1. sent' = sent
      BY <1>4 DEF Take
    <2> QED
      BY <1>4, <2>1, TakeMoves, MovePreserves
  <1>5. ASSUME NEW n \in Node, NEW t \in taken[n], Handle(n, t)
        PROVE  OneToken' /\ Asked'
    <2>1. sent' = sent
      BY <1>5 DEF Handle, AppendRequest, Proxy, Refuse, ReturnAnswer
    <2> QED
      BY <1>5, <2>1, AppendMoves, ProxyMoves, RefuseMoves, ReturnMoves,
         MovePreserves DEF Handle
  <1>6. ASSUME NEW n \in Node, NEW e \in appended[n], Answer(n, e)
        PROVE  OneToken' /\ Asked'
    <2>1. sent' = sent
      BY <1>6 DEF Answer
    <2> QED
      BY <1>6, <2>1, AnswerMoves, MovePreserves
  <1>7. ASSUME NEW n \in Node,
               \/ BecomeLeader(n)
               \/ \E l \in Node : LearnLeader(n, l)
               \/ ForgetLeader(n)
               \/ Crash(n)
        PROVE  OneToken' /\ Asked'
    BY <1>1, <1>7, RaftStepMoves
  <1> QED
    BY <1>2, <1>3, <1>4, <1>5, <1>6, <1>7 DEF Next

LEMMA OneTakenStep == TypeOK /\ OneTaken /\ [Next]_vars => OneTaken'
  <1> SUFFICES ASSUME TypeOK, OneTaken, [Next]_vars
               PROVE  OneTaken'
    OBVIOUS
  <1>1. CASE UNCHANGED taken
    BY <1>1 DEF OneTaken
  <1>2. ASSUME NEW n \in Node, taken' = [taken EXCEPT ![n] = {}]
        PROVE  OneTaken'
    BY <1>2 DEF TypeOK, OneTaken
  <1>3. ASSUME NEW n \in Node, NEW m \in net, Take(n, m)
        PROVE  OneTaken'
    <2> DEFINE t == [msg |-> m, response_id |-> next_id[n],
                     is_leader |-> is_leader(n)]
    <2>1. taken' = [taken EXCEPT ![n] = {t}]
      BY <1>3 DEF Take
    <2>2. t.msg.dst = n
      BY <1>3 DEF Take
    <2> QED
      BY <2>1, <2>2 DEF TypeOK, OneTaken
  <1> QED
    BY <1>1, <1>2, <1>3
    DEF Next, vars, Handle, ClientSend, AppendRequest, Proxy, Refuse,
        ReturnAnswer, Answer, BecomeLeader, LearnLeader, ForgetLeader, Crash

LEMMA IdsDrawnStep ==
    TypeOK /\ OneTaken /\ IdsDrawn /\ [Next]_vars => IdsDrawn'
  <1> SUFFICES ASSUME TypeOK, OneTaken, IdsDrawn, [Next]_vars
               PROVE  IdsDrawn'
    OBVIOUS
  <1>1. ASSUME next_id' = next_id,
               \A n \in Node : /\ taken'[n] \subseteq taken[n]
                               /\ proxies'[n] \subseteq proxies[n]
        PROVE  IdsDrawn'
    BY <1>1 DEF IdsDrawn
  <1>2. ASSUME NEW n \in Node, NEW m \in net, Take(n, m)
        PROVE  IdsDrawn'
    <2> DEFINE t == [msg |-> m, response_id |-> next_id[n],
                     is_leader |-> is_leader(n)]
    <2>1. /\ taken' = [taken EXCEPT ![n] = {t}] /\ proxies' = proxies
          /\ next_id' = [next_id EXCEPT ![n] = @ + 1]
      BY <1>2 DEF Take
    <2>2. t.response_id = next_id[n] /\ next_id[n] \in Nat
      BY NodeType
    <2> HIDE DEF t
    <2>3. \A e \in proxies[n] : e.forward_id \in Nat
      BY NodeType DEF ProxyEntry
    <2>4. \A k \in Node : /\ next_id'[k] = IF k = n THEN next_id[n] + 1
                                           ELSE next_id[k]
                          /\ taken'[k] = IF k = n THEN {t} ELSE taken[k]
      BY <2>1 DEF TypeOK
    <2> QED
      BY <2>1, <2>2, <2>3, <2>4 DEF IdsDrawn
  <1>3. ASSUME NEW n \in Node, NEW t \in taken[n], Proxy(n, t)
        PROVE  IdsDrawn'
    <2> DEFINE e == [forward_id |-> t.response_id, original_id |-> t.msg.id,
                     client |-> t.msg.src]
    <2>1. /\ taken' = [taken EXCEPT ![n] = {}] /\ next_id' = next_id
          /\ proxies' = [proxies EXCEPT ![n] = MakeRoom(proxies[n]) \cup {e}]
      BY <1>3 DEF Proxy
    <2>2. e.forward_id = t.response_id
      OBVIOUS
    <2> HIDE DEF e
    <2>3. MakeRoom(proxies[n]) \subseteq proxies[n]
      BY DEF MakeRoom
    <2>4. \A k \in Node : /\ taken'[k] = IF k = n THEN {} ELSE taken[k]
                          /\ proxies'[k] \subseteq
                               IF k = n THEN proxies[n] \cup {e}
                               ELSE proxies[k]
      BY <2>1, <2>3 DEF TypeOK
    <2> QED
      BY <2>1, <2>2, <2>4 DEF IdsDrawn
  <1>4. ASSUME NEW n \in Node, Crash(n)
        PROVE  IdsDrawn'
    <2>1. \A k \in Node :
            /\ k = n => taken'[k] = {} /\ proxies'[k] = {}
            /\ k # n => /\ taken'[k] = taken[k] /\ proxies'[k] = proxies[k]
                        /\ next_id'[k] = next_id[k]
      BY <1>4 DEF Crash, TypeOK
    <2> QED
      BY <2>1 DEF IdsDrawn
  <1>5. CASE UNCHANGED <<next_id, taken, proxies>>
    BY <1>1, <1>5
  <1>6. ASSUME NEW n \in Node, NEW t \in taken[n],
               AppendRequest(n, t) \/ Refuse(n, t) \/ ReturnAnswer(n, t)
        PROVE  IdsDrawn'
    <2>1. next_id' = next_id /\ taken' = [taken EXCEPT ![n] = {}]
      BY <1>6 DEF AppendRequest, Refuse, ReturnAnswer
    <2>2. proxies' = [proxies EXCEPT ![n] = @ \ Found(n, t)]
            \/ proxies' = proxies
      BY <1>6 DEF AppendRequest, Refuse, ReturnAnswer, Found
    <2> QED
      BY <1>1, <2>1, <2>2 DEF TypeOK
  <1> QED
    BY <1>2, <1>3, <1>4, <1>5, <1>6
    DEF Next, vars, Handle, ClientSend, Answer, BecomeLeader, LearnLeader,
        ForgetLeader

LEMMA TokenInvInit == Init => TokenInv
  <1> SUFFICES ASSUME Init PROVE TokenInv
    OBVIOUS
  <1>1. TypeOK
    BY BoundAssumption DEF Init, TypeOK
  <1>2. Tokens = {}
    BY TokenIs DEF Init, TokensAre
  <1> QED
    BY <1>1, <1>2 DEF Init, TokenInv, OneToken, Asked, OneTaken, IdsDrawn

LEMMA TokenInvStep == TokenInv /\ [Next]_vars => TokenInv'
  BY TypeStep, TokenStep, OneTakenStep, IdsDrawnStep DEF TokenInv

\* However often a request was sent on and whoever is rebooted, a client that
\* has an answer to an operation gets no second one: no message is about the
\* operation, and no entry of a log has a channel to answer it.  (Entries
\* without a channel may be left, and be applied.)
THEOREM OperationsAreAnsweredOnce == Spec => []AnsweredOnce
  <1>1. TokenInv => AnsweredOnce
    <2> SUFFICES ASSUME TokenInv, NEW m \in Answers
                 PROVE  /\ \A other \in net \ {m} : other.op # m.op
                        /\ \A n \in Node :
                             /\ \A t \in taken[n] : t.msg.op # m.op
                             /\ \A e \in appended[n] : e.op # m.op
      BY DEF AnsweredOnce
    <2>1. NetToken(m) \in Tokens
      BY TokenIs DEF TokensAre, Answers
    <2>2. \A x \in Tokens : x.msg.op = m.op => x = NetToken(m)
      BY <2>1, TokenFields DEF TokenInv, OneToken
    <2>3. ASSUME NEW n \in Node, NEW e \in appended[n]
          PROVE  e.op # m.op
      <3>1. LogToken(n, e).msg = Request(n, e)
        BY TokenFields
      <3>2. Request(n, e).op = e.op
        BY DEF Request
      <3> QED
        BY <2>2, <3>1, <3>2, TokenIs, TokenFields DEF TokensAre
    <2>4. ASSUME NEW n \in Node, NEW t \in taken[n]
          PROVE  t.msg.op # m.op
      BY <2>2, TokenIs, TokenFields DEF TokensAre
    <2>5. ASSUME NEW other \in net \ {m}
          PROVE  other.op # m.op
      BY <2>2, TokenIs, TokenFields DEF TokensAre
    <2> QED
      BY <2>3, <2>4, <2>5
  <1> QED
    BY <1>1, TokenInvInit, TokenInvStep, PTL DEF Spec
-----------------------------------------------------------------------------
(***************************************************************************)
(* What becomes of a request: it is appended, or refused, never both.      *)
(***************************************************************************)

\* Neither has happened to a request that is on its way or being dealt with.
Undecided ==
    /\ \A m \in net :
         m.kind = "request" => m.op \notin logged /\ m.op \notin refused
    /\ \A n \in Node : \A t \in taken[n] :
         t.msg.kind = "request" =>
             t.msg.op \notin logged /\ t.msg.op \notin refused

\* Either happens only to operations that have been asked for.
DecidedAsked == \A o \in logged \cup refused : o[2] <= sent[o[1]]

RefusalInv == Undecided /\ DecidedAsked /\ RefusedIsNotLogged

\* What a client thread has in hand is nowhere else.
LEMMA OnlyInHand ==
    ASSUME TokenInv, NEW n \in Node, NEW t \in taken[n]
    PROVE  /\ \A m \in net : m.op # t.msg.op
           /\ \A k \in Node : \A u \in taken[k] :
                u.msg.op = t.msg.op => k = n /\ u = t
  <1>1. TakenToken(n, t) \in Tokens
    BY TokenIs DEF TokensAre
  <1>2. \A x \in Tokens : x.msg.op = t.msg.op => x = TakenToken(n, t)
    BY <1>1, TokenFields DEF TokenInv, OneToken
  <1>3. ASSUME NEW m \in net
        PROVE  m.op # t.msg.op
    BY <1>2, TokenIs, TokenFields DEF TokensAre
  <1>4. ASSUME NEW k \in Node, NEW u \in taken[k], u.msg.op = t.msg.op
        PROVE  k = n /\ u = t
    <2>1. TakenToken(k, u) \in Tokens /\ TakenToken(k, u).msg = u.msg
      BY TokenIs, TokenFields DEF TokensAre
    <2>2. TakenToken(k, u) = TakenToken(n, t)
      BY <1>2, <1>4, <2>1
    <2>3. /\ TakenToken(k, u).node = k /\ TakenToken(k, u).what = u
          /\ TakenToken(n, t).node = n /\ TakenToken(n, t).what = t
      BY TokenFields
    <2> QED
      BY <2>2, <2>3, Zenon
  <1> QED
    BY <1>3, <1>4

\* A step that decides nothing and brings in no undecided request.
LEMMA NothingDecided ==
    ASSUME RefusalInv, logged' = logged, refused' = refused, sent' = sent,
           \A m \in net' : m.kind = "request" =>
               m.op \notin logged /\ m.op \notin refused,
           \A n \in Node : \A t \in taken'[n] : t.msg.kind = "request" =>
               t.msg.op \notin logged /\ t.msg.op \notin refused
    PROVE  RefusalInv'
  BY DEF RefusalInv, Undecided, DecidedAsked, RefusedIsNotLogged

LEMMA ClientSendDecidesNothing ==
    ASSUME TypeOK, RefusalInv, NEW c \in Client, NEW n \in Node,
           ClientSend(c, n)
    PROVE  RefusalInv'
  <1> DEFINE m == [kind |-> "request", src |-> c, dst |-> n,
                   id |-> sent[c] + 1, op |-> <<c, sent[c] + 1>>]
  <1>1. /\ net' = net \cup {m} /\ taken' = taken
        /\ logged' = logged /\ refused' = refused
        /\ sent' = [sent EXCEPT ![c] = @ + 1]
    BY DEF ClientSend, history
  <1>2. m.op = <<c, sent[c] + 1>> /\ m.op[1] = c /\ m.op[2] = sent[c] + 1
    OBVIOUS
  <1> HIDE DEF m
  <1>3. /\ \A d \in Client : sent[d] \in Nat
        /\ sent'[c] = sent[c] + 1
        /\ \A d \in Client : d # c => sent'[d] = sent[d]
    BY <1>1, BoundAssumption DEF TypeOK
  <1>4. ASSUME NEW o \in logged \cup refused
        PROVE  o # m.op /\ o[2] <= sent'[o[1]]
    <2>1. o \in Op
      BY DEF TypeOK
    <2>2. o[1] \in Client /\ o[2] \in Nat
      BY <2>1, BoundAssumption DEF Op
    <2>3. o[2] <= sent[o[1]]
      BY DEF RefusalInv, DecidedAsked
    <2>4. CASE o[1] = c
      BY <1>2, <1>3, <2>2, <2>3, <2>4
    <2>5. CASE o[1] # c
      BY <1>2, <1>3, <2>2, <2>3, <2>5
    <2> QED
      BY <2>4, <2>5
  <1>5. Undecided'
    BY <1>1, <1>4 DEF RefusalInv, Undecided
  <1>6. DecidedAsked'
    BY <1>1, <1>4 DEF DecidedAsked
  <1> QED
    BY <1>1, <1>5, <1>6 DEF RefusalInv, RefusedIsNotLogged

LEMMA TakeDecidesNothing ==
    ASSUME TypeOK, RefusalInv, NEW n \in Node, NEW m \in net, Take(n, m)
    PROVE  RefusalInv'
  <1> DEFINE t == [msg |-> m, response_id |-> next_id[n],
                   is_leader |-> is_leader(n)]
  <1>1. /\ net' = net \ {m} /\ taken' = [taken EXCEPT ![n] = {t}]
        /\ logged' = logged /\ refused' = refused /\ sent' = sent
    BY DEF Take, history
  <1>2. t.msg = m
    OBVIOUS
  <1> HIDE DEF t
  <1>3. \A k \in Node : \A u \in taken'[k] : u = t \/ u \in taken[k]
    BY <1>1 DEF TypeOK
  <1>4. \A k \in Node : \A u \in taken'[k] : u.msg.kind = "request" =>
            u.msg.op \notin logged /\ u.msg.op \notin refused
    BY <1>2, <1>3 DEF RefusalInv, Undecided
  <1>5. \A k \in net' : k.kind = "request" =>
            k.op \notin logged /\ k.op \notin refused
    BY <1>1 DEF RefusalInv, Undecided
  <1> QED
    BY <1>1, <1>4, <1>5, NothingDecided

\* The request in hand is appended or refused, and was neither.
LEMMA RequestIsDecided ==
    ASSUME TokenInv, RefusalInv, NEW n \in Node, NEW t \in taken[n],
           AppendRequest(n, t) \/ Refuse(n, t)
    PROVE  RefusalInv'
  <1> USE DEF TokenInv
  <1>1. /\ t.msg.kind = "request" /\ sent' = sent
        /\ taken' = [taken EXCEPT ![n] = {}]
    BY DEF AppendRequest, Refuse
  <1>2. t.msg.op \notin logged /\ t.msg.op \notin refused
    BY <1>1 DEF RefusalInv, Undecided
  <1>3. \/ logged' = logged \cup {t.msg.op} /\ refused' = refused
        \/ logged' = logged /\ refused' = refused \cup {t.msg.op}
    BY DEF AppendRequest, Refuse
  <1>4. \A m \in net' : m \in net \/ m.kind = "response"
    BY DEF AppendRequest, Refuse, Response
  <1>5. \A k \in Node : \A u \in taken'[k] :
            u \in taken[k] /\ u.msg.op # t.msg.op
    <2> TAKE k \in Node
    <2> TAKE u \in taken'[k]
    <2>1. k # n /\ u \in taken[k]
      BY <1>1 DEF TypeOK
    <2> QED
      BY <2>1, OnlyInHand
  <1>6. Undecided'
    <2>1. ASSUME NEW m \in net', m.kind = "request"
          PROVE  m.op \notin logged' /\ m.op \notin refused'
      <3>1. m \in net
        BY <1>4, <2>1
      <3>2. m.op # t.msg.op
        BY <3>1, OnlyInHand
      <3>3. m.op \notin logged /\ m.op \notin refused
        BY <2>1, <3>1 DEF RefusalInv, Undecided
      <3> QED
        BY <1>3, <3>2, <3>3
    <2>2. ASSUME NEW k \in Node, NEW u \in taken'[k], u.msg.kind = "request"
          PROVE  u.msg.op \notin logged' /\ u.msg.op \notin refused'
      <3>1. u \in taken[k] /\ u.msg.op # t.msg.op
        BY <1>5
      <3>2. u.msg.op \notin logged /\ u.msg.op \notin refused
        BY <2>2, <3>1 DEF RefusalInv, Undecided
      <3> QED
        BY <1>3, <3>1, <3>2
    <2> QED
      BY <2>1, <2>2 DEF Undecided
  <1>7. t.msg.op[2] <= sent[t.msg.op[1]]
    BY TokenIs, TokenFields DEF TokensAre, Asked
  <1>8. DecidedAsked'
    BY <1>1, <1>3, <1>7 DEF RefusalInv, DecidedAsked
  <1>9. RefusedIsNotLogged'
    BY <1>2, <1>3 DEF RefusalInv, RefusedIsNotLogged
  <1> QED
    BY <1>6, <1>8, <1>9 DEF RefusalInv

\* What is sent on is a request in hand, or a response.
LEMMA PassingOnDecidesNothing ==
    ASSUME TypeOK, RefusalInv, NEW n \in Node, NEW t \in taken[n],
           Proxy(n, t) \/ ReturnAnswer(n, t)
    PROVE  RefusalInv'
  <1>1. /\ logged' = logged /\ refused' = refused /\ sent' = sent
        /\ taken' = [taken EXCEPT ![n] = {}]
    BY DEF Proxy, ReturnAnswer, history
  <1>2. t \in TakenMessage
    BY NodeType
  <1>3. ASSUME NEW m \in net', m.kind = "request"
        PROVE  m.op \notin logged /\ m.op \notin refused
    <2>1. CASE m \in net
      BY <1>3, <2>1 DEF RefusalInv, Undecided
    <2>2. CASE m \notin net /\ Proxy(n, t)
      <3>1. t.msg.kind = "request" /\ m = Forwarded(n, t)
        BY <1>2, <2>2, ForwardedIs DEF Proxy
      <3>2. m.op = t.msg.op
        BY <3>1 DEF Forwarded
      <3> QED
        BY <3>1, <3>2 DEF RefusalInv, Undecided
    <2>3. CASE m \notin net /\ ReturnAnswer(n, t)
      <3>1. \E e \in Found(n, t) : m = Returned(n, t, e)
        BY <2>3, ReturnAnswerIs
      <3>2. m.kind = "response"
        BY <3>1 DEF Returned, Response
      <3> QED
        BY <1>3, <3>2
    <2> QED
      BY <2>1, <2>2, <2>3
  <1>4. \A k \in Node : taken'[k] \subseteq taken[k]
    BY <1>1 DEF TypeOK
  <1>5. \A k \in Node : \A u \in taken'[k] : u.msg.kind = "request" =>
            u.msg.op \notin logged /\ u.msg.op \notin refused
    BY <1>4 DEF RefusalInv, Undecided
  <1> QED
    BY <1>1, <1>3, <1>5, NothingDecided

LEMMA RefusalStep == TokenInv /\ RefusalInv /\ [Next]_vars => RefusalInv'
  <1> SUFFICES ASSUME TokenInv, RefusalInv, [Next]_vars
               PROVE  RefusalInv'
    OBVIOUS
  <1> USE DEF TokenInv
  <1>1. ASSUME logged' = logged, refused' = refused, sent' = sent,
               \A m \in net' : m \in net \/ m.kind = "response",
               \A k \in Node : taken'[k] \subseteq taken[k]
        PROVE  RefusalInv'
    <2>1. \A m \in net' : m.kind = "request" =>
              m.op \notin logged /\ m.op \notin refused
      BY <1>1 DEF RefusalInv, Undecided
    <2>2. \A k \in Node : \A u \in taken'[k] : u.msg.kind = "request" =>
              u.msg.op \notin logged /\ u.msg.op \notin refused
      BY <1>1 DEF RefusalInv, Undecided
    <2> QED
      BY <1>1, <2>1, <2>2, NothingDecided
  <1>2. CASE UNCHANGED vars
    BY <1>1, <1>2 DEF vars
  <1>3. ASSUME NEW n \in Node, NEW t \in taken[n], Handle(n, t)
        PROVE  RefusalInv'
    BY <1>3, RequestIsDecided, PassingOnDecidesNothing DEF Handle
  <1>4. ASSUME NEW n \in Node, NEW e \in appended[n], Answer(n, e)
        PROVE  RefusalInv'
    <2>1. /\ logged' = logged /\ refused' = refused /\ sent' = sent
          /\ taken' = taken
          /\ \A m \in net' : m \in net \/ m.kind = "response"
      BY <1>4 DEF Answer, Response, history
    <2> QED
      BY <1>1, <2>1
  <1>5. ASSUME NEW n \in Node,
               \/ BecomeLeader(n)
               \/ \E l \in Node : LearnLeader(n, l)
               \/ ForgetLeader(n)
               \/ Crash(n)
        PROVE  RefusalInv'
    <2>1. /\ logged' = logged /\ refused' = refused /\ sent' = sent
          /\ net' = net /\ \A k \in Node : taken'[k] \subseteq taken[k]
      BY <1>5 DEF TypeOK, BecomeLeader, LearnLeader, ForgetLeader, Crash,
                  history
    <2> QED
      BY <1>1, <2>1
  <1> QED
    BY <1>2, <1>3, <1>4, <1>5, ClientSendDecidesNothing, TakeDecidesNothing
    DEF Next

\* A request that a node has refused because it knew no leader is in no log and
\* will be in none: not by way of a proxy that had sent it on, of a node that
\* becomes leader while it deals with the request, or of a reboot.
THEOREM RefusalsAreFinal == Spec => []RefusedIsNotLogged
  <1>1. Init => RefusalInv
    BY DEF Init, RefusalInv, Undecided, DecidedAsked, RefusedIsNotLogged
  <1>2. RefusalInv => RefusedIsNotLogged
    BY DEF RefusalInv
  <1> QED
    BY <1>1, <1>2, RefusalStep, TokenInvInit, TokenInvStep, PTL DEF Spec
-----------------------------------------------------------------------------
(***************************************************************************)
(* Whose answer it is.                                                     *)
(***************************************************************************)

\* Who waits for the answer, and the ID that it will be looked up under.
Asker(m) == IF m.kind = "request" THEN m.src ELSE m.dst

Key(m) == IF m.kind = "request" THEN m.id ELSE m.in_reply_to

\* There is one leader, and whoever believes in a leader believes in it.
OneLeader == /\ \A k, l \in led : k = l
             /\ \A n \in Node : leader[n] \in led \cup {None}

\* A request that has been sent on is sent on to the leader, which does not
\* send it on again.
OneHop ==
    /\ \A x \in Tokens :
         x.msg.kind = "request" /\ x.msg.src \in Node => x.msg.dst \in led
    /\ \A n \in Node : \A e \in proxies[n] : e.client \in Client

\* What a client asks for, or is answered, is its own.
ClientsOwn ==
    \A x \in Tokens :
        Asker(x.msg) \in Client
        /\ ~ (x.msg.kind = "response" /\ x.msg.src \in rebooted)
        => x.msg.op[1] = Asker(x.msg)

\* What a node will look up leads to the client that asked for it, if it leads
\* anywhere.
KeysMatch ==
    \A x \in Tokens : \A n \in Node \ rebooted :
        Asker(x.msg) = n =>
            /\ Key(x.msg) < next_id[n]
            /\ \A e \in proxies[n] :
                 e.forward_id = Key(x.msg) => e.client = x.msg.op[1]
            /\ \A t \in taken[n] : t.response_id # Key(x.msg)

HopInv == TokenInv /\ OneLeader /\ OneHop /\ ClientsOwn /\ KeysMatch

\* What the messages that the steps send come down to.
LEMMA AskerAndKey ==
    /\ \A n, to, id, r, op :
         /\ Asker(Response(n, to, id, r, op)) = to
         /\ Key(Response(n, to, id, r, op)) = r
         /\ Response(n, to, id, r, op).op = op
         /\ Response(n, to, id, r, op).src = n
         /\ Response(n, to, id, r, op).kind = "response"
    /\ \A n, t : /\ Asker(Forwarded(n, t)) = n
                 /\ Key(Forwarded(n, t)) = t.response_id
                 /\ Forwarded(n, t).op = t.msg.op
                 /\ Forwarded(n, t).src = n
                 /\ Forwarded(n, t).dst = leader[n]
                 /\ Forwarded(n, t).kind = "request"
    /\ \A n, e : /\ Asker(Request(n, e)) = e.client
                 /\ Key(Request(n, e)) = e.in_reply_to
                 /\ Request(n, e).op = e.op
                 /\ Request(n, e).src = e.client
                 /\ Request(n, e).dst = n
                 /\ Request(n, e).kind = "request"
    /\ \A n, t, e : /\ Asker(Returned(n, t, e)) = e.client
                    /\ Returned(n, t, e).op = t.msg.op
                    /\ Returned(n, t, e).src = n
                    /\ Returned(n, t, e).kind = "response"
  BY DEF Asker, Key, Response, Forwarded, Request, Returned

\* y is what x was, as far as routing goes.
SameRoute(x, y) ==
    /\ Moves(x, y)
    /\ Asker(y.msg) = Asker(x.msg)
    /\ Key(y.msg) = Key(x.msg)
    /\ y.msg.kind = "request" => /\ x.msg.kind = "request"
                                 /\ y.msg.src = x.msg.src
                                 /\ y.msg.dst = x.msg.dst
    /\ x.msg.kind = "response" => /\ y.msg.kind = "response"
                                  /\ y.msg.src = x.msg.src

\* A step that keeps the route of what it moves, draws IDs and takes entries
\* out of tables keeps the invariants.
LEMMA SameRoutePreserves ==
    ASSUME HopInv, NEW x, NEW y, SameRoute(x, y),
           led' = led, rebooted' = rebooted, proxies' = proxies,
           \A n \in Node : /\ next_id[n] <= next_id'[n]
                           /\ next_id'[n] \in Nat
                           /\ \A t \in taken'[n] :
                                t \in taken[n] \/ t.response_id = next_id[n]
    PROVE  OneHop' /\ ClientsOwn' /\ KeysMatch'
  <1>1. \A z \in Tokens' : z = y \/ z \in Tokens
    BY DEF SameRoute, Moves
  <1>2. x \in Tokens /\ y.msg.op = x.msg.op
    BY DEF SameRoute, Moves
  <1>3. OneHop'
    <2>1. ASSUME NEW z \in Tokens', z.msg.kind = "request",
                 z.msg.src \in Node
          PROVE  z.msg.dst \in led
      BY <1>1, <1>2, <2>1 DEF HopInv, OneHop, SameRoute
    <2> QED
      BY <2>1 DEF HopInv, OneHop
  <1>4. ClientsOwn'
    BY <1>1, <1>2 DEF HopInv, ClientsOwn, SameRoute
  <1>5. ASSUME NEW z \in Tokens', NEW n \in Node \ rebooted,
               Asker(z.msg) = n
        PROVE  /\ Key(z.msg) < next_id'[n]
               /\ \A e \in proxies[n] :
                    e.forward_id = Key(z.msg) => e.client = z.msg.op[1]
               /\ \A t \in taken'[n] : t.response_id # Key(z.msg)
    <2>1. PICK u \in Tokens : /\ Asker(u.msg) = n /\ Key(u.msg) = Key(z.msg)
                              /\ u.msg.op = z.msg.op
      BY <1>1, <1>2, <1>5 DEF SameRoute
    <2>2. /\ Key(z.msg) < next_id[n]
          /\ \A e \in proxies[n] :
               e.forward_id = Key(z.msg) => e.client = z.msg.op[1]
          /\ \A t \in taken[n] : t.response_id # Key(z.msg)
      BY <2>1 DEF HopInv, KeysMatch
    <2>3. u.msg \in ClientMessage
      BY TokenType DEF HopInv, TokenInv
    <2>4. Key(z.msg) \in Nat /\ next_id[n] \in Nat
      BY <2>1, <2>3, MessageType, NodeType DEF Key, HopInv, TokenInv
    <2> QED
      BY <2>2, <2>4
  <1> QED
    BY <1>3, <1>4, <1>5 DEF KeysMatch

\* So does a step that puts something new only where a client waits for it.
LEMMA NewForClientPreserves ==
    ASSUME HopInv,
           \A z \in Tokens' :
             \/ z \in Tokens
             \/ /\ Asker(z.msg) \in Client
                /\ \/ z.msg.kind = "response" /\ z.msg.src \in rebooted'
                   \/ z.msg.op[1] = Asker(z.msg),
           led \subseteq led', rebooted \subseteq rebooted',
           \A n \in Node : proxies'[n] \subseteq proxies[n],
           \A n \in Node \ rebooted' : /\ taken'[n] \subseteq taken[n]
                                       /\ next_id'[n] = next_id[n]
    PROVE  OneHop' /\ ClientsOwn' /\ KeysMatch'
  <1>1. OneHop'
    <2>1. ASSUME NEW z \in Tokens', z.msg.kind = "request",
                 z.msg.src \in Node
          PROVE  z.msg.dst \in led'
      <3>1. CASE z \in Tokens
        BY <2>1, <3>1 DEF HopInv, OneHop
      <3>2. CASE Asker(z.msg) \in Client
        BY <2>1, <3>2, IdAssumption DEF Asker
      <3> QED
        BY <3>1, <3>2
    <2> QED
      BY <2>1 DEF HopInv, OneHop
  <1>2. ClientsOwn'
    BY DEF HopInv, ClientsOwn
  <1>3. ASSUME NEW z \in Tokens', NEW n \in Node \ rebooted',
               Asker(z.msg) = n
        PROVE  /\ Key(z.msg) < next_id'[n]
               /\ \A e \in proxies'[n] :
                    e.forward_id = Key(z.msg) => e.client = z.msg.op[1]
               /\ \A t \in taken'[n] : t.response_id # Key(z.msg)
    <2>1. z \in Tokens
      BY <1>3, IdAssumption
    <2> QED
      BY <1>3, <2>1 DEF HopInv, KeysMatch
  <1> QED
    BY <1>1, <1>2, <1>3 DEF KeysMatch

LEMMA TakeHop ==
    ASSUME HopInv, NEW n \in Node, NEW m \in net, Take(n, m)
    PROVE  OneHop' /\ ClientsOwn' /\ KeysMatch'
  <1> DEFINE t == [msg |-> m, response_id |-> next_id[n],
                   is_leader |-> is_leader(n)]
  <1>1. Moves(NetToken(m), TakenToken(n, t))
    BY TakeMoves DEF HopInv, TokenInv
  <1>2. t.msg = m /\ t.response_id = next_id[n]
    OBVIOUS
  <1>3. /\ taken' = [taken EXCEPT ![n] = {t}]
        /\ next_id' = [next_id EXCEPT ![n] = @ + 1]
        /\ led' = led /\ rebooted' = rebooted /\ proxies' = proxies
    BY DEF Take, raftVars
  <1> HIDE DEF t
  <1>4. SameRoute(NetToken(m), TakenToken(n, t))
    BY <1>1, <1>2, TokenFields DEF SameRoute
  <1>5. \A k \in Node : /\ next_id[k] <= next_id'[k]
                        /\ next_id'[k] \in Nat
                        /\ \A u \in taken'[k] :
                             u \in taken[k] \/ u.response_id = next_id[k]
    BY <1>2, <1>3 DEF HopInv, TokenInv, TypeOK
  <1> QED
    BY <1>3, <1>4, <1>5, SameRoutePreserves

LEMMA AppendHop ==
    ASSUME HopInv, NEW n \in Node, NEW t \in taken[n], AppendRequest(n, t)
    PROVE  OneHop' /\ ClientsOwn' /\ KeysMatch'
  <1> DEFINE e == [client |-> t.msg.src, response_id |-> t.response_id,
                   in_reply_to |-> t.msg.id, op |-> t.msg.op]
  <1>1. Moves(TakenToken(n, t), LogToken(n, e))
    BY AppendMoves DEF HopInv, TokenInv
  <1>2. e.client = t.msg.src /\ e.in_reply_to = t.msg.id
    OBVIOUS
  <1> HIDE DEF e
  <1>3. t.msg.kind = "request" /\ t.msg.dst = n
    BY DEF AppendRequest, HopInv, TokenInv, OneTaken
  <1>4. Asker(t.msg) = t.msg.src /\ Key(t.msg) = t.msg.id
    BY <1>3 DEF Asker, Key
  <1>5. SameRoute(TakenToken(n, t), LogToken(n, e))
    BY <1>1, <1>2, <1>3, <1>4, TokenFields, AskerAndKey DEF SameRoute
  <1>6. \A k \in Node : /\ next_id[k] <= next_id'[k]
                        /\ next_id'[k] \in Nat
                        /\ \A u \in taken'[k] : u \in taken[k]
    BY DEF AppendRequest, HopInv, TokenInv, TypeOK
  <1> QED
    BY <1>5, <1>6, SameRoutePreserves DEF AppendRequest, raftVars

LEMMA RefuseHop ==
    ASSUME HopInv, NEW n \in Node, NEW t \in taken[n], Refuse(n, t)
    PROVE  OneHop' /\ ClientsOwn' /\ KeysMatch'
  <1> DEFINE m == Response(n, t.msg.src, t.response_id, t.msg.id, t.msg.op)
  <1>1. Moves(TakenToken(n, t), NetToken(m))
    BY RefuseMoves DEF HopInv, TokenInv
  <1>2. Asker(m) = t.msg.src /\ Key(m) = t.msg.id /\ m.kind = "response"
    BY AskerAndKey
  <1> HIDE DEF m
  <1>3. /\ t.msg.kind = "request"
        /\ Asker(t.msg) = t.msg.src /\ Key(t.msg) = t.msg.id
    BY DEF Refuse, Asker, Key
  <1>4. SameRoute(TakenToken(n, t), NetToken(m))
    BY <1>1, <1>2, <1>3, TokenFields DEF SameRoute
  <1>5. \A k \in Node : /\ next_id[k] <= next_id'[k]
                        /\ next_id'[k] \in Nat
                        /\ \A u \in taken'[k] : u \in taken[k]
    BY DEF Refuse, HopInv, TokenInv, TypeOK
  <1> QED
    BY <1>4, <1>5, SameRoutePreserves DEF Refuse, raftVars

LEMMA AnswerHop ==
    ASSUME HopInv, NEW n \in Node, NEW e \in appended[n], Answer(n, e)
    PROVE  OneHop' /\ ClientsOwn' /\ KeysMatch'
  <1> DEFINE m == Response(n, e.client, e.response_id, e.in_reply_to, e.op)
  <1>1. Moves(LogToken(n, e), NetToken(m))
    BY AnswerMoves DEF HopInv, TokenInv
  <1>2. Asker(m) = e.client /\ Key(m) = e.in_reply_to /\ m.kind = "response"
    BY AskerAndKey
  <1> HIDE DEF m
  <1>3. SameRoute(LogToken(n, e), NetToken(m))
    BY <1>1, <1>2, TokenFields, AskerAndKey DEF SameRoute
  <1>4. \A k \in Node : /\ next_id[k] <= next_id'[k]
                        /\ next_id'[k] \in Nat
                        /\ \A u \in taken'[k] : u \in taken[k]
    BY DEF Answer, HopInv, TokenInv, TypeOK
  <1> QED
    BY <1>3, <1>4, SameRoutePreserves DEF Answer, raftVars

LEMMA ClientSendHop ==
    ASSUME HopInv, NEW n \in Node, NEW c \in Client, ClientSend(c, n)
    PROVE  OneHop' /\ ClientsOwn' /\ KeysMatch'
  <1> DEFINE m == [kind |-> "request", src |-> c, dst |-> n,
                   id |-> sent[c] + 1, op |-> <<c, sent[c] + 1>>]
  <1>1. Tokens' \subseteq Tokens \cup {NetToken(m)}
    BY ClientSendMoves
  <1>2. Asker(m) = c /\ m.op[1] = c
    BY DEF Asker
  <1> HIDE DEF m
  <1>3. \A z \in Tokens' :
          z \in Tokens \/ (Asker(z.msg) \in Client /\ z.msg.op[1] = Asker(z.msg))
    BY <1>1, <1>2, TokenFields
  <1> QED
    BY <1>3, NewForClientPreserves DEF ClientSend, raftVars

\* The answer that a node passes on belongs to the client that it passes it
\* on to.
LEMMA ReturnHop ==
    ASSUME HopInv, NEW n \in Node, NEW t \in taken[n], ReturnAnswer(n, t)
    PROVE  OneHop' /\ ClientsOwn' /\ KeysMatch'
  <1>1. /\ led' = led /\ rebooted' = rebooted /\ next_id' = next_id
        /\ taken' = [taken EXCEPT ![n] = {}]
        /\ proxies' = [proxies EXCEPT ![n] = @ \ Found(n, t)]
    BY DEF ReturnAnswer, raftVars, Found
  <1>2. \A k \in Node : taken'[k] \subseteq taken[k]
                        /\ proxies'[k] \subseteq proxies[k]
    BY <1>1 DEF HopInv, TokenInv, TypeOK
  <1>3. ASSUME NEW e \in Found(n, t), n \notin rebooted
        PROVE  e.client = t.msg.op[1]
    <2>1. TakenToken(n, t) \in Tokens /\ TakenToken(n, t).msg = t.msg
      BY TokenIs, TokenFields DEF TokensAre
    <2>2. t.msg.kind = "response" /\ t.msg.dst = n
      BY DEF ReturnAnswer, HopInv, TokenInv, OneTaken
    <2>3. Asker(t.msg) = n /\ Key(t.msg) = t.msg.in_reply_to
      BY <2>2 DEF Asker, Key
    <2>4. e \in proxies[n] /\ e.forward_id = Key(t.msg)
      BY <2>3 DEF Found
    <2>5. n \in Node \ rebooted
      BY <1>3
    <2> QED
      BY <2>1, <2>3, <2>4, <2>5 DEF HopInv, KeysMatch
  <1>4. ASSUME NEW z \in Tokens'
        PROVE  \/ z \in Tokens
               \/ /\ Asker(z.msg) \in Client
                  /\ \/ z.msg.kind = "response" /\ z.msg.src \in rebooted'
                     \/ z.msg.op[1] = Asker(z.msg)
    <2>1. CASE Tokens' \subseteq Tokens
      BY <2>1
    <2>2. ASSUME NEW e \in Found(n, t),
                 Moves(TakenToken(n, t), NetToken(Returned(n, t, e))),
                 z \notin Tokens
          PROVE  /\ Asker(z.msg) \in Client
                 /\ \/ z.msg.kind = "response" /\ z.msg.src \in rebooted'
                    \/ z.msg.op[1] = Asker(z.msg)
      <3>1. z.msg = Returned(n, t, e)
        BY <2>2, TokenFields DEF Moves
      <3>2. /\ Asker(z.msg) = e.client /\ z.msg.op = t.msg.op
            /\ z.msg.src = n /\ z.msg.kind = "response"
        BY <3>1, AskerAndKey
      <3>3. e.client \in Client
        BY DEF HopInv, OneHop, Found
      <3> QED
        BY <1>1, <1>3, <3>2, <3>3
    <2> QED
      BY <2>1, <2>2, ReturnMoves DEF HopInv, TokenInv
  <1> QED
    BY <1>1, <1>2, <1>4, NewForClientPreserves

\* A request that is sent on comes from a client, and its new ID is in no use.
LEMMA ProxyHop ==
    ASSUME HopInv, NEW n \in Node, NEW t \in taken[n], Proxy(n, t)
    PROVE  OneHop' /\ ClientsOwn' /\ KeysMatch'
  <1> DEFINE e == [forward_id |-> t.response_id, original_id |-> t.msg.id,
                   client |-> t.msg.src]
             x == TakenToken(n, t)
             y == NetToken(Forwarded(n, t))
  <1>1. /\ led' = led /\ rebooted' = rebooted /\ next_id' = next_id
        /\ taken' = [taken EXCEPT ![n] = {}]
        /\ proxies' = [proxies EXCEPT ![n] = MakeRoom(proxies[n]) \cup {e}]
    BY DEF Proxy, raftVars
  <1>2. e.forward_id = t.response_id /\ e.client = t.msg.src
    OBVIOUS
  <1>3. /\ Moves(x, y) /\ leader[n] \in Node \ {n}
        /\ t.msg.kind = "request" /\ t.msg.src \in Node \cup Client
    BY ProxyMoves DEF HopInv, TokenInv
  <1>4. /\ Asker(y.msg) = n /\ Key(y.msg) = t.response_id
        /\ y.msg.op = t.msg.op /\ y.msg.dst = leader[n]
    BY TokenFields, AskerAndKey
  <1>5. x \in Tokens /\ x.msg = t.msg /\ t.msg.dst = n
    BY TokenIs, TokenFields DEF TokensAre, HopInv, TokenInv, OneTaken
  <1> HIDE DEF e, x, y
  <1>6. leader[n] \in led
    BY <1>3, IdAssumption DEF HopInv, OneLeader
  <1>7. t.msg.src \in Client
    <2>1. CASE t.msg.src \in Node
      <3>1. n \in led
        BY <1>3, <1>5, <2>1 DEF HopInv, OneHop
      <3> QED
        BY <1>3, <1>6, <3>1 DEF HopInv, OneLeader
    <2> QED
      BY <1>3, <2>1
  <1>8. t.msg.op[1] = t.msg.src
    <2>1. Asker(x.msg) = t.msg.src /\ x.msg.kind = "request"
      BY <1>3, <1>5 DEF Asker
    <2> QED
      BY <1>5, <1>7, <2>1 DEF HopInv, ClientsOwn
  <1>9. MakeRoom(proxies[n]) \subseteq proxies[n]
    BY DEF MakeRoom
  <1>10. \A k \in Node : /\ taken'[k] = IF k = n THEN {} ELSE taken[k]
                         /\ proxies'[k] \subseteq
                              IF k = n THEN proxies[n] \cup {e} ELSE proxies[k]
    BY <1>1, <1>9 DEF HopInv, TokenInv, TypeOK
  <1>11. \A z \in Tokens' : z \in Tokens \/ z = y
    BY <1>3 DEF Moves
  <1>12. OneHop'
    <2>1. \A z \in Tokens' :
            z.msg.kind = "request" /\ z.msg.src \in Node => z.msg.dst \in led
      BY <1>4, <1>6, <1>11 DEF HopInv, OneHop
    <2>2. \A k \in Node : \A f \in proxies'[k] : f.client \in Client
      BY <1>2, <1>7, <1>10 DEF HopInv, OneHop
    <2> QED
      BY <1>1, <2>1, <2>2 DEF OneHop
  <1>13. ClientsOwn'
    BY <1>1, <1>4, <1>11, IdAssumption DEF HopInv, ClientsOwn
  <1>14. ASSUME NEW z \in Tokens', NEW k \in Node \ rebooted,
                Asker(z.msg) = k
         PROVE  /\ Key(z.msg) < next_id[k]
                /\ \A f \in proxies'[k] :
                     f.forward_id = Key(z.msg) => f.client = z.msg.op[1]
                /\ \A u \in taken'[k] : u.response_id # Key(z.msg)
    <2>1. CASE z \in Tokens
      <3>1. /\ Key(z.msg) < next_id[k]
            /\ \A f \in proxies[k] :
                 f.forward_id = Key(z.msg) => f.client = z.msg.op[1]
            /\ \A u \in taken[k] : u.response_id # Key(z.msg)
        BY <1>14, <2>1 DEF HopInv, KeysMatch
      <3> QED
        BY <1>2, <1>10, <3>1
    <2>2. CASE z = y
      <3>1. k = n /\ Key(z.msg) = t.response_id /\ z.msg.op = t.msg.op
        BY <1>4, <1>14, <2>2
      <3>2. t.response_id < next_id[n]
        BY DEF HopInv, TokenInv, IdsDrawn
      <3>3. \A f \in proxies[n] : f.forward_id # t.response_id
        BY DEF HopInv, TokenInv, IdsDrawn
      <3> QED
        BY <1>2, <1>8, <1>10, <3>1, <3>2, <3>3
    <2> QED
      BY <1>11, <2>1, <2>2
  <1> QED
    BY <1>1, <1>12, <1>13, <1>14 DEF KeysMatch

LEMMA RaftStepHop ==
    ASSUME HopInv, NEW n \in Node,
           \/ BecomeLeader(n)
           \/ \E l \in Node : LearnLeader(n, l)
           \/ ForgetLeader(n)
           \/ Crash(n)
    PROVE  OneHop' /\ ClientsOwn' /\ KeysMatch'
  <1>1. Tokens' \subseteq Tokens
    BY RaftStepMoves DEF HopInv, TokenInv
  <1>2. /\ led \subseteq led' /\ rebooted \subseteq rebooted'
        /\ \A k \in Node : proxies'[k] \subseteq proxies[k]
        /\ \A k \in Node \ rebooted' : /\ taken'[k] \subseteq taken[k]
                                       /\ next_id'[k] = next_id[k]
    BY DEF BecomeLeader, LearnLeader, ForgetLeader, Crash, HopInv, TokenInv,
           TypeOK
  <1> QED
    BY <1>1, <1>2, NewForClientPreserves

LEMMA OneLeaderStep ==
    ASSUME MaxElections <= 1, TypeOK, OneLeader, [Next]_vars
    PROVE  OneLeader'
  <1>1. ASSUME NEW n \in Node, BecomeLeader(n)
        PROVE  OneLeader'
    <2>1. led = {}
      <3>1. SUFFICES ASSUME NEW l \in led
                     PROVE  FALSE
        OBVIOUS
      <3>2. led = {l}
        BY DEF OneLeader
      <3>3. Cardinality(led) = 1
        BY <3>2, FS_Singleton
      <3> QED
        BY <1>1, <3>3, BoundAssumption DEF BecomeLeader
    <2> QED
      BY <1>1, <2>1 DEF BecomeLeader, OneLeader, TypeOK
  <1>2. ASSUME NEW n \in Node,
               \/ \E l \in Node : LearnLeader(n, l)
               \/ ForgetLeader(n)
               \/ Crash(n)
        PROVE  OneLeader'
    BY <1>2 DEF LearnLeader, ForgetLeader, Crash, OneLeader, TypeOK
  <1>3. CASE UNCHANGED raftVars
    BY <1>3 DEF raftVars, OneLeader
  <1> QED
    BY <1>1, <1>2, <1>3
    DEF Next, vars, raftVars, ClientSend, Take, Handle, AppendRequest, Proxy,
        Refuse, ReturnAnswer, Answer

LEMMA HopInvStep ==
    ASSUME MaxElections <= 1, HopInv, [Next]_vars
    PROVE  HopInv'
  <1>1. TokenInv' /\ OneLeader'
    BY TokenInvStep, OneLeaderStep DEF HopInv, TokenInv
  <1>2. CASE UNCHANGED vars
    <2>1. net' = net /\ taken' = taken /\ appended' = appended
      BY <1>2 DEF vars
    <2>2. Tokens' \subseteq Tokens
      BY <2>1, TokenIs, TokenIsNext DEF TokensAre
    <2>3. OneHop' /\ ClientsOwn' /\ KeysMatch'
      BY <1>2, <2>2, NewForClientPreserves DEF vars
    <2> QED
      BY <1>1, <2>3 DEF HopInv
  <1>3. CASE Next
    <2>1. OneHop' /\ ClientsOwn' /\ KeysMatch'
      BY <1>3, ClientSendHop, TakeHop, AppendHop, ProxyHop, RefuseHop,
         ReturnHop, AnswerHop, RaftStepHop DEF Next, Handle
    <2> QED
      BY <1>1, <2>1 DEF HopInv
  <1> QED
    BY <1>2, <1>3

LEMMA HopInvInit == Init => HopInv
  <1> SUFFICES ASSUME Init PROVE HopInv
    OBVIOUS
  <1>1. TokenInv
    BY TokenInvInit
  <1>2. Tokens = {}
    BY TokenIs DEF Init, TokensAre
  <1> QED
    BY <1>1, <1>2
    DEF Init, HopInv, OneLeader, OneHop, ClientsOwn, KeysMatch

\* While no request is sent on twice, an answer goes to the client that asked,
\* whatever order answers come in, whatever the table has dropped and whoever
\* else is rebooted.  (With a second leader the first proxy of a request may
\* get an answer under the ID that the second has drawn.)
THEOREM AnswersAreOwn ==
    ASSUME MaxElections <= 1
    PROVE  Spec => []OwnAnswer
  <1>1. HopInv => OwnAnswer
    <2> SUFFICES ASSUME HopInv, NEW m \in Answers, m.src \notin rebooted
                 PROVE  m.op[1] = m.dst
      BY DEF OwnAnswer
    <2>1. NetToken(m) \in Tokens /\ NetToken(m).msg = m
      BY TokenIs, TokenFields DEF TokensAre, Answers
    <2>2. Asker(m) = m.dst /\ m.dst \in Client
      BY DEF Asker, Answers
    <2> QED
      BY <2>1, <2>2 DEF HopInv, ClientsOwn
  <1>2. HopInv /\ [Next]_vars => HopInv'
    BY HopInvStep
  <1> QED
    BY <1>1, <1>2, HopInvInit, PTL DEF Spec
==============================================================================
