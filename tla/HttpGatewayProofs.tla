-------------------------- MODULE HttpGatewayProofs --------------------------
(***************************************************************************)
(* Theorems about HttpGateway, for any cluster and any number of           *)
(* connections.  The engine's steps are those of ClientGateway, whose      *)
(* lemmas are used here again.                                             *)
(*                                                                         *)
(* The argument for SelfAnswerIsOwn.  A node draws the IDs of its          *)
(* connections and those of its engine from one counter, so an ID of the   *)
(* node belongs either to one connection (Own) or to the engine            *)
(* (OfEngine).  Of the two IDs in a response that a node sends to itself,  *)
(* one belongs to the connection that asked and the other to the engine    *)
(* (Routed), and handle_connection, which tries both, can only find the    *)
(* connection that asked.  A response from another node has that node's ID *)
(* in the first place, about which nothing of the kind is true: this is    *)
(* what run wrong_connection shows.                                        *)
(***************************************************************************)
EXTENDS HttpGateway, ClientGatewayProofs
-----------------------------------------------------------------------------
(***************************************************************************)
(* What the threads of the connections do to the table.                    *)
(***************************************************************************)
\* A field of one connection is set.
LEMMA TableField ==
    ASSUME NEW f \in [Client -> Connection], NEW c \in Client
    PROVE  /\ \A v \in Node : [f EXCEPT ![c].at = v] \in [Client -> Connection]
           /\ \A v \in Nat : [f EXCEPT ![c].id = v] \in [Client -> Connection]
           /\ \A v \in {"parsed", "waiting", "answered", "closed"} :
                [f EXCEPT ![c].phase = v] \in [Client -> Connection]
           /\ \A v \in Op : [f EXCEPT ![c].answer = v] \in [Client -> Connection]
           /\ \A v \in Node : [f EXCEPT ![c].from = v] \in [Client -> Connection]
  BY DEF Connection

LEMMA ReadRequestTable ==
    ASSUME TypeOK, conn \in [Client -> Connection],
           NEW n \in Node, NEW c \in Client, ReadRequest(n, c)
    PROVE  /\ conn' \in [Client -> Connection]
           /\ conn[c].phase = "new"
           /\ conn'[c].at = n /\ conn'[c].id = next_id[n]
           /\ conn'[c].phase = "parsed"
           /\ \A d \in Client : d # c => conn'[d] = conn[d]
  <1>1. PICK i \in Nat : i = next_id[n]
    BY NodeType
  <1>2. conn' = [conn EXCEPT ![c].at = n, ![c].id = i, ![c].phase = "parsed"]
    BY <1>1, Zenon DEF ReadRequest
  <1>3. PICK a : a = [conn EXCEPT ![c].at = n]
    OBVIOUS
  <1>4. PICK b : b = [a EXCEPT ![c].id = i]
    OBVIOUS
  <1>5. PICK z : z = [b EXCEPT ![c].phase = "parsed"]
    OBVIOUS
  <1>6. a \in [Client -> Connection]
    BY <1>3, TableField, Zenon
  <1>7. b \in [Client -> Connection]
    BY <1>4, <1>6, TableField, Zenon
  <1>8. z \in [Client -> Connection]
    BY <1>5, <1>7, TableField, Zenon
  <1>9. conn' = z
    BY <1>2, <1>3, <1>4, <1>5, Zenon
  <1>10. /\ conn'[c].at = n /\ conn'[c].id = i /\ conn'[c].phase = "parsed"
         /\ \A d \in Client : d # c => conn'[d] = conn[d]
    BY <1>2 DEF Connection
  <1> QED
    BY <1>1, <1>8, <1>9, <1>10, Zenon DEF ReadRequest

LEMMA RejectTable ==
    ASSUME conn \in [Client -> Connection], NEW n \in Node, NEW c \in Client,
           RejectUnread(n, c) \/ RejectRequest(n, c)
    PROVE  /\ conn' \in [Client -> Connection]
           /\ conn[c].phase = "new"
           /\ conn'[c].at = n /\ conn'[c].id = conn[c].id
           /\ conn'[c].phase = "closed"
           /\ \A d \in Client : d # c => conn'[d] = conn[d]
  <1>1. conn' = [conn EXCEPT ![c].at = n, ![c].phase = "closed"]
    BY Zenon DEF RejectUnread, RejectRequest
  <1>2. PICK a : a = [conn EXCEPT ![c].at = n]
    OBVIOUS
  <1>3. PICK z : z = [a EXCEPT ![c].phase = "closed"]
    OBVIOUS
  <1>4. a \in [Client -> Connection]
    BY <1>2, TableField, Zenon
  <1>5. z \in [Client -> Connection]
    BY <1>3, <1>4, TableField, Zenon
  <1>6. conn' = z
    BY <1>1, <1>2, <1>3, Zenon
  <1>7. /\ conn'[c].at = n /\ conn'[c].id = conn[c].id
        /\ conn'[c].phase = "closed"
        /\ \A d \in Client : d # c => conn'[d] = conn[d]
    BY <1>1 DEF Connection
  <1> QED
    BY <1>5, <1>6, <1>7, Zenon DEF RejectUnread, RejectRequest

LEMMA EnqueueTable ==
    ASSUME conn \in [Client -> Connection], NEW n \in Node, NEW c \in Client,
           Enqueue(n, c)
    PROVE  /\ conn' \in [Client -> Connection]
           /\ conn'[c].at = conn[c].at /\ conn'[c].id = conn[c].id
           /\ conn'[c].phase = "waiting"
           /\ \A d \in Client : d # c => conn'[d] = conn[d]
  <1>1. conn' = [conn EXCEPT ![c].phase = "waiting"]
    BY Zenon DEF Enqueue
  <1>2. conn' \in [Client -> Connection]
    BY <1>1, TableField, Zenon
  <1>3. /\ conn'[c].at = conn[c].at /\ conn'[c].id = conn[c].id
        /\ conn'[c].phase = "waiting"
        /\ \A d \in Client : d # c => conn'[d] = conn[d]
    BY <1>1 DEF Connection
  <1> QED
    BY <1>2, <1>3

LEMMA WriteTable ==
    ASSUME conn \in [Client -> Connection], NEW n \in Node,
           NEW m \in ClientMessage, m.kind = "response", WriteResponse(n, m)
    PROVE  /\ conn' \in [Client -> Connection]
           /\ \E c \in FindConnection(n, m) :
                /\ conn'[c].at = conn[c].at /\ conn'[c].id = conn[c].id
                /\ \/ /\ conn'[c].phase = "answered"
                      /\ conn'[c].answer = m.op /\ conn'[c].from = m.src
                   \/ conn'[c].phase = "closed"
                /\ \A d \in Client : d # c => conn'[d] = conn[d]
  <1>1. PICK c \in FindConnection(n, m) :
          \/ conn' = [conn EXCEPT ![c].phase = "answered",
                                  ![c].answer = m.op, ![c].from = m.src]
          \/ conn' = [conn EXCEPT ![c].phase = "closed"]
    BY Zenon DEF WriteResponse
  <1>2. c \in Client
    BY DEF FindConnection, Waiting
  <1>3. PICK o \in Op, s \in Node : o = m.op /\ s = m.src
    BY MessageType
  <1>4. CASE conn' = [conn EXCEPT ![c].phase = "answered",
                                  ![c].answer = m.op, ![c].from = m.src]
    <2>1. conn' = [conn EXCEPT ![c].phase = "answered", ![c].answer = o,
                               ![c].from = s]
      BY <1>3, <1>4, Zenon
    <2>2. PICK a : a = [conn EXCEPT ![c].phase = "answered"]
      OBVIOUS
    <2>3. PICK b : b = [a EXCEPT ![c].answer = o]
      OBVIOUS
    <2>4. PICK z : z = [b EXCEPT ![c].from = s]
      OBVIOUS
    <2>5. a \in [Client -> Connection]
      BY <1>2, <2>2, TableField, Zenon
    <2>6. b \in [Client -> Connection]
      BY <1>2, <2>3, <2>5, TableField, Zenon
    <2>7. z \in [Client -> Connection]
      BY <1>2, <2>4, <2>6, TableField, Zenon
    <2>8. conn' = z
      BY <2>1, <2>2, <2>3, <2>4, Zenon
    <2>9. /\ conn'[c].at = conn[c].at /\ conn'[c].id = conn[c].id
          /\ conn'[c].phase = "answered"
          /\ conn'[c].answer = o /\ conn'[c].from = s
          /\ \A d \in Client : d # c => conn'[d] = conn[d]
      BY <1>2, <2>1 DEF Connection
    <2> QED
      BY <1>3, <2>7, <2>8, <2>9, Zenon
  <1>5. CASE conn' = [conn EXCEPT ![c].phase = "closed"]
    <2>1. conn' \in [Client -> Connection]
      BY <1>2, <1>5, TableField, Zenon
    <2>2. /\ conn'[c].at = conn[c].at /\ conn'[c].id = conn[c].id
          /\ conn'[c].phase = "closed"
          /\ \A d \in Client : d # c => conn'[d] = conn[d]
      BY <1>2, <1>5 DEF Connection
    <2> QED
      BY <2>1, <2>2, Zenon
  <1> QED
    BY <1>1, <1>4, <1>5
-----------------------------------------------------------------------------
(***************************************************************************)
(* Types.                                                                  *)
(***************************************************************************)

\* The engine's steps are steps of the gateway.
LEMMA EngineStepIsNext ==
    ASSUME NEW n \in Node,
           \/ \E m \in net : EngineTake(n, m)
           \/ EngineHandle(n)
           \/ RaftStep(n)
    PROVE  Next
  BY DEF EngineTake, EngineHandle, RaftStep, Next

LEMMA HttpTypeStep ==
    ASSUME MaxRequests >= 1, HttpTypeOK, [HttpNext]_httpVars
    PROVE  HttpTypeOK'
  <1>1. TypeOK /\ conn \in [Client -> Connection] /\ rerouted \subseteq net
    BY DEF HttpTypeOK
  <1>2. CASE UNCHANGED httpVars
    <2>1. UNCHANGED vars /\ conn' = conn /\ rerouted' = rerouted
      BY <1>2 DEF httpVars
    <2>2. TypeOK' /\ net' = net
      BY <1>1, <2>1, TypeStep DEF vars
    <2> QED
      BY <1>1, <2>1, <2>2 DEF HttpTypeOK
  <1>3. ASSUME NEW n \in Node, NEW c \in Client,
               ReadRequest(n, c) \/ RejectUnread(n, c) \/ RejectRequest(n, c)
        PROVE  HttpTypeOK'
    <2>1. conn' \in [Client -> Connection]
      BY <1>1, <1>3, ReadRequestTable, RejectTable
    <2>2. next_id' \in [Node -> Nat]
      BY <1>1, <1>3 DEF TypeOK, ReadRequest, RejectUnread, RejectRequest
    <2>3. /\ UNCHANGED <<leader, led, net, rerouted>>
          /\ UNCHANGED <<taken, proxies, appended, sent, rebooted, logged, refused>>
      BY <1>3 DEF ReadRequest, RejectUnread, RejectRequest, engineVars,
                  raftVars, history
    <2> QED
      BY <1>1, <2>1, <2>2, <2>3 DEF HttpTypeOK, TypeOK
  <1>4. ASSUME NEW n \in Node, NEW c \in Client, Enqueue(n, c)
        PROVE  HttpTypeOK'
    <2>1. conn' \in [Client -> Connection] /\ conn[c].id \in Nat
      BY <1>1, <1>4, EnqueueTable DEF Connection
    <2>2. <<c, 1>> \in Op
      BY BoundAssumption DEF Op
    <2>3. [kind |-> "request", src |-> n, dst |-> n, id |-> conn[c].id,
           op |-> <<c, 1>>] \in ClientMessage
      BY <2>1, <2>2, MessageIntro
    <2>4. net' \subseteq ClientMessage /\ net \subseteq net'
      BY <1>1, <1>4, <2>3 DEF Enqueue, TypeOK
    <2>5. /\ UNCHANGED <<leader, led, next_id, rerouted>>
          /\ UNCHANGED <<taken, proxies, appended, sent, rebooted, logged, refused>>
      BY <1>4 DEF Enqueue, engineVars, raftVars, history
    <2> QED
      BY <1>1, <2>1, <2>4, <2>5 DEF HttpTypeOK, TypeOK
  <1>5. ASSUME NEW n \in Node, NEW m \in net,
               HandleResponse(n, m) \/ SendFails(n, m)
        PROVE  HttpTypeOK'
    <2>1. conn' \in [Client -> Connection]
      <3>1. CASE m.kind = "response" /\ WriteResponse(n, m)
        BY <1>1, <3>1, WriteTable DEF TypeOK
      <3> QED
        BY <1>1, <1>5, <3>1 DEF HandleResponse, Reroute, SendFails
    <2>2. net' \subseteq net /\ rerouted' \subseteq net'
      BY <1>1, <1>5 DEF HandleResponse, WriteResponse, Reroute, SendFails
    <2>3. /\ UNCHANGED <<leader, led, next_id>>
          /\ UNCHANGED <<taken, proxies, appended, sent, rebooted, logged, refused>>
      BY <1>5 DEF HandleResponse, WriteResponse, Reroute, SendFails, engineVars,
                  raftVars, history
    <2> QED
      BY <1>1, <2>1, <2>2, <2>3 DEF HttpTypeOK, TypeOK
  <1>6. ASSUME NEW n \in Node,
               \/ \E m \in net : EngineTake(n, m)
               \/ EngineHandle(n)
               \/ RaftStep(n)
        PROVE  HttpTypeOK'
    <2>1. TypeOK'
      BY <1>1, <1>6, EngineStepIsNext, TypeStep
    <2>2. conn' = conn
      BY <1>6 DEF EngineTake, EngineHandle, RaftStep
    <2>3. rerouted' \subseteq net'
      <3>1. ASSUME NEW m \in net, EngineTake(n, m)
            PROVE  rerouted' \subseteq net'
        BY <1>1, <3>1 DEF EngineTake, Take
      <3>2. CASE EngineHandle(n) \/ RaftStep(n)
        <4>1. net \subseteq net' /\ rerouted' = rerouted
          BY <3>2 DEF EngineHandle, RaftStep, Handle, AppendRequest, Proxy,
                      Refuse, ReturnAnswer, Answer, BecomeLeader, LearnLeader,
                      ForgetLeader
        <4> QED
          BY <1>1, <4>1
      <3> QED
        BY <1>6, <3>1, <3>2
    <2> QED
      BY <1>1, <2>1, <2>2, <2>3 DEF HttpTypeOK
  <1>7. CASE HttpNext
    BY <1>3, <1>4, <1>5, <1>6, <1>7
    DEF HttpNext, HandleConnection, ClientThread
  <1> QED
    BY <1>2, <1>7

LEMMA HttpInitType == HttpInit => HttpTypeOK
  <1> SUFFICES ASSUME HttpInit PROVE HttpTypeOK
    OBVIOUS
  <1>1. TypeOK
    BY BoundAssumption DEF HttpInit, Init, TypeOK
  <1>2. conn \in [Client -> Connection] /\ rerouted \subseteq net
    BY DEF HttpInit, Connection
  <1> QED
    BY <1>1, <1>2 DEF HttpTypeOK

\* Every variable of the front end has its type.  (A connection carries one
\* request, so there is room for one.)
THEOREM HttpTypeCorrect ==
    ASSUME MaxRequests >= 1
    PROVE  HttpSpec => []HttpTypeOK
  <1>1. HttpTypeOK /\ [HttpNext]_httpVars => HttpTypeOK'
    BY HttpTypeStep
  <1> QED
    BY <1>1, HttpInitType, PTL DEF HttpSpec
-----------------------------------------------------------------------------
(***************************************************************************)
(* Whom an ID belongs to.                                                  *)
(***************************************************************************)

\* The ID i of node n belongs to the connection that asked for o.
Own(n, i, o) ==
    \E c \in Client : /\ o = <<c, 1>> /\ i # 0
                      /\ conn[c].at = n /\ conn[c].id = i

\* The ID i of node n has been drawn, and by no connection.
OfEngine(n, i) ==
    /\ i # 0 /\ i < next_id[n]
    /\ \A c \in Client : conn[c].at = n => conn[c].id # i

\* The ID i, under which node n has sent the request for o to a leader, can
\* only lead back to the connection that asked for o.
OfProxy(n, i, o) ==
    /\ OfEngine(n, i)
    /\ \A t \in taken[n] : t.response_id # i
    /\ \A e \in proxies[n] : e.forward_id = i => Own(n, e.original_id, o)

RequestRouted(src, dst, i, o) ==
    IF src = dst THEN Own(src, i, o)
    ELSE src \in Node /\ dst \in led /\ OfProxy(src, i, o)

\* A node answers itself under the connection's ID, in reply to what it has
\* sent on, or under an ID of the engine, in reply to the connection.
ResponseRouted(src, dst, i, k, o) ==
    IF src = dst THEN \/ OfEngine(src, i) /\ Own(src, k, o)
                      \/ Own(src, i, o) /\ OfProxy(src, k, o)
    ELSE dst \in Node /\ OfProxy(dst, k, o)

Routed(m) ==
    IF m.kind = "request" THEN RequestRouted(m.src, m.dst, m.id, m.op)
    ELSE ResponseRouted(m.src, m.dst, m.id, m.in_reply_to, m.op)

\* Each connection has an ID of its own.
ConnIds ==
    /\ \A n \in Node : next_id[n] # 0
    /\ \A c \in Client :
         /\ conn[c].id # 0 => /\ conn[c].at \in Node
                              /\ conn[c].id < next_id[conn[c].at]
         /\ conn[c].phase = "new" => conn[c].id = 0
         /\ conn[c].phase \in {"parsed", "waiting"} => conn[c].id # 0
         /\ \A d \in Client : /\ conn[c].id # 0 /\ conn[d].id = conn[c].id
                              /\ conn[d].at = conn[c].at
                              => c = d

\* The IDs that the engine gives to answers and to requests it sends on are
\* its own, and it sends on what came from its own node.
EngineIds ==
    \A n \in Node :
        /\ \A t \in taken[n] : OfEngine(n, t.response_id)
        /\ \A e \in appended[n] : OfEngine(n, e.response_id)
        /\ \A e \in proxies[n] : e.client = n /\ OfEngine(n, e.forward_id)

AllRouted ==
    /\ \A m \in net : Routed(m)
    /\ \A n \in Node :
         /\ \A t \in taken[n] : Routed(t.msg)
         /\ \A e \in appended[n] :
              RequestRouted(e.client, n, e.in_reply_to, e.op)

SelfInv ==
    /\ HttpTypeOK /\ OneTaken /\ IdsDrawn /\ OneLeader
    /\ ConnIds /\ EngineIds /\ AllRouted
    /\ SelfAnswerIsOwn

\* What every step does: it lets IDs be drawn, never given away again.
Grows ==
    /\ \A c \in Client :
         /\ conn[c].id # 0 => /\ conn'[c].at = conn[c].at
                              /\ conn'[c].id = conn[c].id
         /\ conn[c].id = 0 /\ conn'[c].id # 0 =>
              conn'[c].id >= next_id[conn'[c].at]
    /\ \A n \in Node :
         /\ next_id'[n] >= next_id[n]
         /\ \A t \in taken'[n] : t \in taken[n] \/ t.response_id >= next_id[n]
         /\ \A e \in proxies'[n] :
              \/ e \in proxies[n]
              \/ \E t \in taken[n] : e.forward_id = t.response_id
    /\ led \subseteq led'

LEMMA IdsKept ==
    ASSUME HttpTypeOK, HttpTypeOK', Grows,
           NEW n \in Node, NEW i \in Nat, NEW o
    PROVE  /\ Own(n, i, o) => Own(n, i, o)'
           /\ OfEngine(n, i) => OfEngine(n, i)'
           /\ OfProxy(n, i, o) => OfProxy(n, i, o)'
  <1>1. /\ next_id[n] \in Nat /\ next_id'[n] \in Nat
        /\ taken[n] \subseteq TakenMessage /\ taken'[n] \subseteq TakenMessage
        /\ proxies[n] \subseteq ProxyEntry /\ proxies'[n] \subseteq ProxyEntry
    BY DEF HttpTypeOK, TypeOK, TakenMessage, ProxyEntry
  <1>2. \A c \in Client : conn[c].id \in Nat /\ conn'[c].id \in Nat
    BY DEF HttpTypeOK, Connection
  <1>3. \A k : Own(n, k, o) => Own(n, k, o)'
    BY DEF Own, Grows
  <1>4. OfEngine(n, i) => OfEngine(n, i)'
    <2> SUFFICES ASSUME OfEngine(n, i) PROVE OfEngine(n, i)'
      OBVIOUS
    <2>1. i # 0 /\ i < next_id'[n]
      BY <1>1 DEF OfEngine, Grows
    <2>2. ASSUME NEW c \in Client, conn'[c].at = n
          PROVE  conn'[c].id # i
      BY <1>1, <1>2, <2>1, <2>2 DEF OfEngine, Grows
    <2> QED
      BY <2>1, <2>2 DEF OfEngine
  <1>5. OfProxy(n, i, o) => OfProxy(n, i, o)'
    <2> SUFFICES ASSUME OfProxy(n, i, o) PROVE OfProxy(n, i, o)'
      OBVIOUS
    <2>1. \A t \in taken'[n] : t.response_id # i
      BY <1>1 DEF OfProxy, OfEngine, Grows, TakenMessage
    <2>2. ASSUME NEW e \in proxies'[n], e.forward_id = i
          PROVE  Own(n, e.original_id, o)'
      <3>1. e \in proxies[n]
        BY <2>2 DEF OfProxy, Grows
      <3>2. PICK k : k = e.original_id
        OBVIOUS
      <3>3. Own(n, k, o)
        BY <2>2, <3>1, <3>2 DEF OfProxy
      <3>4. Own(n, k, o)'
        BY <1>3, <3>3
      <3> QED
        BY <3>2, <3>4
    <2> QED
      BY <1>4, <2>1, <2>2 DEF OfProxy
  <1> QED
    BY <1>3, <1>4, <1>5

LEMMA RoutesKept ==
    ASSUME HttpTypeOK, HttpTypeOK', Grows
    PROVE  /\ \A s, d \in Node : \A i \in Nat : \A o :
                RequestRouted(s, d, i, o) => RequestRouted(s, d, i, o)'
           /\ \A m \in ClientMessage : Routed(m) => Routed(m)'
  <1>1. led \subseteq led' /\ led' \subseteq Node
    BY DEF Grows, HttpTypeOK, TypeOK
  <1>2. ASSUME NEW s, NEW d \in Node, NEW i \in Nat, NEW o,
               RequestRouted(s, d, i, o)
        PROVE  RequestRouted(s, d, i, o)'
    <2>1. s \in Node
      BY <1>2 DEF RequestRouted
    <2>2. /\ Own(s, i, o) => Own(s, i, o)'
          /\ OfProxy(s, i, o) => OfProxy(s, i, o)'
      BY <2>1, IdsKept
    <2> QED
      BY <1>1, <1>2, <2>2 DEF RequestRouted
  <1>3. ASSUME NEW s \in Node, NEW d, NEW i \in Nat, NEW k \in Nat, NEW o,
               ResponseRouted(s, d, i, k, o)
        PROVE  ResponseRouted(s, d, i, k, o)'
    <2>1. d \in Node
      BY <1>3 DEF ResponseRouted
    <2>2. /\ Own(s, k, o) => Own(s, k, o)'
          /\ Own(s, i, o) => Own(s, i, o)'
          /\ OfEngine(s, i) => OfEngine(s, i)'
          /\ OfProxy(s, k, o) => OfProxy(s, k, o)'
          /\ OfProxy(d, k, o) => OfProxy(d, k, o)'
      BY <2>1, IdsKept
    <2> QED
      BY <1>3, <2>2 DEF ResponseRouted
  <1>4. ASSUME NEW m \in ClientMessage, Routed(m)
        PROVE  Routed(m)'
    <2>1. /\ m.kind \in {"request", "response"} /\ m.id \in Nat
          /\ m.kind = "request" => m.dst \in Node
          /\ m.kind = "response" => m.src \in Node /\ m.in_reply_to \in Nat
      BY MessageType
    <2>2. CASE m.kind = "request"
      BY <1>2, <1>4, <2>1, <2>2 DEF Routed
    <2>3. CASE m.kind = "response"
      BY <1>3, <1>4, <2>1, <2>3 DEF Routed
    <2> QED
      BY <2>1, <2>2, <2>3
  <1> QED
    BY <1>2, <1>4

\* A step that keeps the IDs has to see to what it adds.
LEMMA NewIsRouted ==
    ASSUME HttpTypeOK, HttpTypeOK', EngineIds, AllRouted, Grows,
           \A m \in net' : m \in net \/ Routed(m)',
           \A n \in Node :
             /\ \A t \in taken'[n] :
                  t \in taken[n] \/ (Routed(t.msg)' /\ OfEngine(n, t.response_id)')
             /\ \A e \in appended'[n] :
                  \/ e \in appended[n]
                  \/ /\ RequestRouted(e.client, n, e.in_reply_to, e.op)'
                     /\ OfEngine(n, e.response_id)'
             /\ \A e \in proxies'[n] :
                  \/ e \in proxies[n]
                  \/ e.client = n /\ OfEngine(n, e.forward_id)'
    PROVE  EngineIds' /\ AllRouted'
  <1>1. ASSUME NEW n \in Node
        PROVE  /\ taken[n] \subseteq TakenMessage
               /\ proxies[n] \subseteq ProxyEntry
               /\ appended[n] \subseteq LogEntry
    BY NodeType DEF HttpTypeOK
  <1>2. ASSUME NEW m \in net'
        PROVE  Routed(m)'
    BY <1>2, RoutesKept DEF AllRouted, HttpTypeOK, TypeOK
  <1>3. ASSUME NEW n \in Node, NEW t \in taken'[n]
        PROVE  Routed(t.msg)' /\ OfEngine(n, t.response_id)'
    <2>1. CASE t \in taken[n]
      <3>1. PICK m \in ClientMessage, i \in Nat :
              m = t.msg /\ i = t.response_id
        BY <1>1, <2>1 DEF TakenMessage
      <3>2. Routed(m) /\ OfEngine(n, i)
        BY <2>1, <3>1 DEF AllRouted, EngineIds
      <3>3. Routed(m)' /\ OfEngine(n, i)'
        BY <3>2, RoutesKept, IdsKept
      <3> QED
        BY <3>1, <3>3
    <2> QED
      BY <1>3, <2>1
  <1>4. ASSUME NEW n \in Node, NEW e \in appended'[n]
        PROVE  /\ RequestRouted(e.client, n, e.in_reply_to, e.op)'
               /\ OfEngine(n, e.response_id)'
    <2>1. CASE e \in appended[n]
      <3>1. PICK s \in Node \cup Client, i \in Nat, k \in Nat, o \in Op :
              /\ s = e.client /\ i = e.in_reply_to /\ k = e.response_id
              /\ o = e.op
        BY <1>1, <2>1 DEF LogEntry
      <3>2. RequestRouted(s, n, i, o) /\ OfEngine(n, k)
        BY <2>1, <3>1 DEF AllRouted, EngineIds
      <3>3. s \in Node
        BY <3>2 DEF RequestRouted
      <3>4. RequestRouted(s, n, i, o)' /\ OfEngine(n, k)'
        BY <3>2, <3>3, RoutesKept, IdsKept
      <3> QED
        BY <3>1, <3>4
    <2> QED
      BY <1>4, <2>1
  <1>5. ASSUME NEW n \in Node, NEW e \in proxies'[n]
        PROVE  e.client = n /\ OfEngine(n, e.forward_id)'
    <2>1. CASE e \in proxies[n]
      <3>1. PICK i \in Nat : i = e.forward_id
        BY <1>1, <2>1 DEF ProxyEntry
      <3>2. OfEngine(n, i) /\ e.client = n
        BY <2>1, <3>1 DEF EngineIds
      <3>3. OfEngine(n, i)'
        BY <3>2, IdsKept
      <3> QED
        BY <3>1, <3>2, <3>3
    <2> QED
      BY <1>5, <2>1
  <1> QED
    BY <1>2, <1>3, <1>4, <1>5 DEF EngineIds, AllRouted
-----------------------------------------------------------------------------
(***************************************************************************)
(* The steps.                                                              *)
(***************************************************************************)

\* What the gateway's own invariants need.
LEMMA BaseStep ==
    ASSUME MaxElections <= 1, SelfInv, [HttpNext]_httpVars
    PROVE  OneTaken' /\ IdsDrawn' /\ OneLeader'
  <1>1. TypeOK /\ OneTaken /\ IdsDrawn /\ OneLeader
    BY DEF SelfInv, HttpTypeOK
  <1>2. ASSUME taken' = taken, proxies' = proxies, leader' = leader, led' = led,
               \A n \in Node : next_id'[n] >= next_id[n] /\ next_id'[n] \in Nat
        PROVE  OneTaken' /\ IdsDrawn' /\ OneLeader'
    <2>1. OneTaken' /\ OneLeader'
      BY <1>1, <1>2 DEF OneTaken, OneLeader
    <2>2. \A n \in Node : /\ next_id[n] \in Nat
                          /\ \A t \in taken[n] : t.response_id \in Nat
                          /\ \A e \in proxies[n] : e.forward_id \in Nat
      BY <1>1, NodeType DEF TakenMessage, ProxyEntry
    <2>3. IdsDrawn'
      BY <1>1, <1>2, <2>2 DEF IdsDrawn
    <2> QED
      BY <2>1, <2>3
  <1>3. ASSUME [Next]_vars
        PROVE  OneTaken' /\ IdsDrawn' /\ OneLeader'
    BY <1>1, <1>3, OneTakenStep, IdsDrawnStep, OneLeaderStep
  <1>4. ASSUME NEW n \in Node, NEW c \in Client,
               \/ ReadRequest(n, c) \/ RejectUnread(n, c)
               \/ RejectRequest(n, c) \/ Enqueue(n, c)
        PROVE  OneTaken' /\ IdsDrawn' /\ OneLeader'
    <2>1. next_id' = next_id \/ next_id' = [next_id EXCEPT ![n] = @ + 1]
      BY <1>4 DEF ReadRequest, RejectUnread, RejectRequest, Enqueue
    <2>2. \A k \in Node : next_id'[k] >= next_id[k] /\ next_id'[k] \in Nat
      BY <1>1, <2>1 DEF TypeOK
    <2>3. taken' = taken /\ proxies' = proxies /\ leader' = leader /\ led' = led
      BY <1>4 DEF ReadRequest, RejectUnread, RejectRequest, Enqueue,
                  engineVars, raftVars, history
    <2> QED
      BY <1>2, <2>2, <2>3
  <1>5. ASSUME NEW n \in Node, NEW m \in net,
               HandleResponse(n, m) \/ SendFails(n, m)
        PROVE  OneTaken' /\ IdsDrawn' /\ OneLeader'
    <2>1. /\ taken' = taken /\ proxies' = proxies /\ leader' = leader
          /\ led' = led /\ next_id' = next_id
      BY <1>5 DEF HandleResponse, WriteResponse, Reroute, SendFails,
                  engineVars, raftVars, history
    <2>2. \A k \in Node : next_id'[k] >= next_id[k] /\ next_id'[k] \in Nat
      BY <1>1, <2>1 DEF TypeOK
    <2> QED
      BY <1>2, <2>1, <2>2
  <1>6. CASE UNCHANGED httpVars
    BY <1>3, <1>6 DEF httpVars
  <1>7. CASE HttpNext
    BY <1>3, <1>4, <1>5, <1>7, EngineStepIsNext
    DEF HttpNext, HandleConnection, ClientThread
  <1> QED
    BY <1>6, <1>7

\* The conjuncts about IDs and answers.
RouteInv == ConnIds /\ EngineIds /\ AllRouted /\ SelfAnswerIsOwn

\* A connection draws an ID, or is dropped.
LEMMA ReadRoute ==
    ASSUME SelfInv, HttpTypeOK', NEW n \in Node, NEW c \in Client,
           ReadRequest(n, c) \/ RejectUnread(n, c) \/ RejectRequest(n, c)
    PROVE  RouteInv'
  <1>1. /\ TypeOK /\ conn \in [Client -> Connection]
        /\ conn' \in [Client -> Connection]
    BY DEF SelfInv, HttpTypeOK
  <1>2. /\ conn[c].phase = "new" /\ conn'[c].at = n
        /\ \/ /\ conn'[c].phase = "parsed" /\ conn'[c].id = next_id[n]
              /\ next_id' = [next_id EXCEPT ![n] = @ + 1]
           \/ conn'[c].phase = "closed" /\ conn'[c].id = conn[c].id
        /\ \A d \in Client : d # c => conn'[d] = conn[d]
    <2>1. CASE ReadRequest(n, c)
      <3>1. next_id' = [next_id EXCEPT ![n] = @ + 1]
        BY <2>1, Zenon DEF ReadRequest
      <3> QED
        BY <1>1, <2>1, <3>1, ReadRequestTable
    <2>2. CASE RejectUnread(n, c) \/ RejectRequest(n, c)
      BY <1>1, <2>2, RejectTable
    <2> QED
      BY <2>1, <2>2
  <1>3. conn[c].id = 0
    BY <1>2 DEF SelfInv, ConnIds
  <1>4. /\ net' = net /\ taken' = taken /\ proxies' = proxies
        /\ appended' = appended /\ led' = led
    BY DEF ReadRequest, RejectUnread, RejectRequest, engineVars, raftVars, history
  <1>5. next_id' = next_id \/ next_id' = [next_id EXCEPT ![n] = @ + 1]
    BY DEF ReadRequest, RejectUnread, RejectRequest
  <1>6. /\ \A k \in Node : /\ next_id'[k] >= next_id[k]
                           /\ next_id[k] \in Nat /\ next_id'[k] \in Nat
        /\ \A d \in Client : conn[d].id \in Nat /\ conn'[d].id \in Nat
    BY <1>1, <1>5 DEF TypeOK, Connection
  <1>7. Grows
    BY <1>2, <1>3, <1>4, <1>6 DEF Grows
  <1>8. EngineIds' /\ AllRouted'
    BY <1>4, <1>7, NewIsRouted DEF SelfInv
  <1>9. ConnIds'
    <2>1. \A k \in Node : next_id'[k] # 0
      BY <1>6 DEF SelfInv, ConnIds
    <2>2. \/ conn'[c].id = 0 /\ conn'[c].phase = "closed"
          \/ /\ conn'[c].id = next_id[n] /\ conn'[c].id < next_id'[n]
             /\ conn'[c].id # 0 /\ conn'[c].phase = "parsed"
      BY <1>1, <1>2, <1>3 DEF SelfInv, ConnIds, TypeOK
    <2>3. ASSUME NEW d \in Client, d # c
          PROVE  /\ conn'[d] = conn[d]
                 /\ conn[d].id # 0 => /\ conn[d].at \in Node
                                      /\ conn[d].id < next_id[conn[d].at]
                                      /\ conn[d].id < next_id'[conn[d].at]
      BY <1>2, <1>6, <2>3 DEF SelfInv, ConnIds
    <2>4. ASSUME NEW d \in Client, d # c, conn'[d].id = conn'[c].id,
                 conn'[d].at = conn'[c].at
          PROVE  conn'[c].id = 0
      BY <1>2, <1>6, <2>2, <2>3, <2>4
    <2>5. ASSUME NEW d \in Client
          PROVE  /\ conn'[d].id # 0 => /\ conn'[d].at \in Node
                                       /\ conn'[d].id < next_id'[conn'[d].at]
                 /\ conn'[d].phase = "new" => conn'[d].id = 0
                 /\ conn'[d].phase \in {"parsed", "waiting"} => conn'[d].id # 0
      <3>1. CASE d = c
        BY <1>2, <2>2, <3>1
      <3>2. CASE d # c
        BY <2>3, <3>2 DEF SelfInv, ConnIds
      <3> QED
        BY <3>1, <3>2
    <2>6. ASSUME NEW d \in Client, NEW b \in Client, conn'[d].id # 0,
                 conn'[b].id = conn'[d].id, conn'[b].at = conn'[d].at
          PROVE  d = b
      <3>1. CASE d # c /\ b # c
        BY <2>3, <2>6, <3>1 DEF SelfInv, ConnIds
      <3> QED
        BY <2>4, <2>6, <3>1
    <2> QED
      BY <2>1, <2>5, <2>6 DEF ConnIds
  <1>10. SelfAnswerIsOwn'
    BY <1>2 DEF SelfInv, SelfAnswerIsOwn
  <1> QED
    BY <1>8, <1>9, <1>10 DEF RouteInv

\* Steps that leave the IDs of connections alone.
LEMMA ConnIdsKept ==
    ASSUME SelfInv, HttpTypeOK',
           \A c \in Client :
             /\ conn'[c].at = conn[c].at /\ conn'[c].id = conn[c].id
             /\ conn'[c].phase = "new" => conn[c].phase = "new"
             /\ conn'[c].phase \in {"parsed", "waiting"} =>
                  conn[c].phase \in {"parsed", "waiting"},
           \A n \in Node : next_id'[n] >= next_id[n]
    PROVE  ConnIds'
  <1>1. /\ \A k \in Node : next_id[k] \in Nat /\ next_id'[k] \in Nat
        /\ \A d \in Client : conn[d].id \in Nat
    BY DEF SelfInv, HttpTypeOK, TypeOK, Connection
  <1>2. \A n \in Node : next_id'[n] # 0
    BY <1>1 DEF SelfInv, ConnIds
  <1>3. ASSUME NEW c \in Client, conn'[c].id # 0
        PROVE  conn'[c].at \in Node /\ conn'[c].id < next_id'[conn'[c].at]
    BY <1>1, <1>3 DEF SelfInv, ConnIds
  <1> QED
    BY <1>2, <1>3 DEF SelfInv, ConnIds

\* A connection starts to wait, and its request is on its way.
LEMMA EnqueueRoute ==
    ASSUME SelfInv, HttpTypeOK', NEW n \in Node, NEW c \in Client,
           Enqueue(n, c)
    PROVE  RouteInv'
  <1>1. TypeOK /\ conn \in [Client -> Connection]
    BY DEF SelfInv, HttpTypeOK
  <1>2. /\ conn[c].phase = "parsed" /\ conn[c].at = n
        /\ net' = net \cup {[kind |-> "request", src |-> n, dst |-> n,
                             id |-> conn[c].id, op |-> <<c, 1>>]}
        /\ taken' = taken /\ proxies' = proxies
        /\ appended' = appended /\ led' = led /\ next_id' = next_id
    BY DEF Enqueue, engineVars, raftVars, history
  <1>3. /\ conn'[c].at = n /\ conn'[c].id = conn[c].id
        /\ conn'[c].phase = "waiting"
        /\ \A d \in Client : d # c => conn'[d] = conn[d]
    BY <1>1, <1>2, EnqueueTable
  <1>4. conn[c].id # 0
    BY <1>2 DEF SelfInv, ConnIds
  <1>5. \A d \in Client :
          /\ conn'[d].at = conn[d].at /\ conn'[d].id = conn[d].id
          /\ conn'[d].phase = "new" => conn[d].phase = "new"
          /\ conn'[d].phase \in {"parsed", "waiting"} =>
               conn[d].phase \in {"parsed", "waiting"}
    BY <1>2, <1>3
  <1>6. \A k \in Node : next_id'[k] >= next_id[k]
    BY <1>1, <1>2 DEF TypeOK
  <1>7. Grows
    BY <1>2, <1>5, <1>6 DEF Grows
  <1>8. PICK i : i = conn[c].id
    OBVIOUS
  <1>9. PICK r : r = [kind |-> "request", src |-> n, dst |-> n, id |-> i,
                      op |-> <<c, 1>>]
    OBVIOUS
  <1>10. Routed(r)'
    <2>1. r.kind = "request" /\ r.src = n /\ r.dst = n /\ r.id = i
          /\ r.op = <<c, 1>>
      BY <1>9
    <2>2. Own(n, i, r.op)'
      BY <1>3, <1>4, <1>8, <2>1 DEF Own
    <2> QED
      BY <2>1, <2>2 DEF Routed, RequestRouted
  <1>11. \A m \in net' : m \in net \/ Routed(m)'
    BY <1>2, <1>8, <1>9, <1>10
  <1>12. EngineIds' /\ AllRouted'
    BY <1>2, <1>7, <1>11, NewIsRouted DEF SelfInv
  <1>13. ConnIds'
    BY <1>5, <1>6, ConnIdsKept
  <1>14. SelfAnswerIsOwn'
    BY <1>3 DEF SelfInv, SelfAnswerIsOwn
  <1> QED
    BY <1>12, <1>13, <1>14 DEF RouteInv

\* A response that a node sends itself finds the connection that asked.
LEMMA FoundIsOwn ==
    ASSUME SelfInv, NEW n \in Node, NEW m \in net, m.kind = "response",
           m.src = n, m.dst = n, NEW c \in FindConnection(n, m)
    PROVE  m.op = <<c, 1>>
  <1>1. \/ OfEngine(n, m.id) /\ Own(n, m.in_reply_to, m.op)
        \/ Own(n, m.id, m.op) /\ OfProxy(n, m.in_reply_to, m.op)
    BY DEF SelfInv, AllRouted, Routed, ResponseRouted
  <1>2. \A i : OfEngine(n, i) => Waiting(n, i) = {}
    BY DEF OfEngine, Waiting
  <1>3. ASSUME NEW i, NEW o, Own(n, i, o), NEW d \in Waiting(n, i)
        PROVE  o = <<d, 1>>
    <2>1. PICK b \in Client : /\ o = <<b, 1>> /\ i # 0
                              /\ conn[b].at = n /\ conn[b].id = i
      BY <1>3 DEF Own
    <2>2. d \in Client /\ conn[d].at = n /\ conn[d].id = i
      BY <1>3 DEF Waiting
    <2>3. b = d
      BY <2>1, <2>2 DEF SelfInv, ConnIds
    <2> QED
      BY <2>1, <2>3
  <1>4. CASE OfEngine(n, m.id) /\ Own(n, m.in_reply_to, m.op)
    BY <1>2, <1>3, <1>4 DEF FindConnection
  <1>5. CASE Own(n, m.id, m.op) /\ OfProxy(n, m.in_reply_to, m.op)
    BY <1>2, <1>3, <1>5 DEF FindConnection, OfProxy
  <1> QED
    BY <1>1, <1>4, <1>5

\* A response is written, given to the engine, or lost.
LEMMA ResponseRoute ==
    ASSUME SelfInv, HttpTypeOK', NEW n \in Node, NEW m \in net,
           HandleResponse(n, m) \/ SendFails(n, m)
    PROVE  RouteInv'
  <1>1. TypeOK /\ conn \in [Client -> Connection] /\ m \in ClientMessage
    BY DEF SelfInv, HttpTypeOK, TypeOK
  <1>2. /\ net' \subseteq net /\ taken' = taken /\ proxies' = proxies
        /\ appended' = appended /\ led' = led /\ next_id' = next_id
    BY DEF HandleResponse, WriteResponse, Reroute, SendFails, engineVars,
           raftVars
  <1>3. \/ conn' = conn
        \/ m.kind = "response" /\ m.dst = n /\ WriteResponse(n, m)
    BY DEF HandleResponse, Reroute, SendFails
  <1>4. ASSUME m.kind = "response", m.dst = n, WriteResponse(n, m)
        PROVE  \E c \in FindConnection(n, m) :
                 /\ c \in Client /\ conn[c].at = n /\ conn[c].phase = "waiting"
                 /\ conn'[c].at = conn[c].at /\ conn'[c].id = conn[c].id
                 /\ \/ /\ conn'[c].phase = "answered"
                       /\ conn'[c].answer = m.op /\ conn'[c].from = m.src
                    \/ conn'[c].phase = "closed"
                 /\ \A d \in Client : d # c => conn'[d] = conn[d]
    BY <1>1, <1>4, WriteTable DEF FindConnection, Waiting
  <1>5. \A d \in Client :
          /\ conn'[d].at = conn[d].at /\ conn'[d].id = conn[d].id
          /\ conn'[d].phase = "new" => conn[d].phase = "new"
          /\ conn'[d].phase \in {"parsed", "waiting"} =>
               conn[d].phase \in {"parsed", "waiting"}
    <2>1. CASE m.kind = "response" /\ m.dst = n /\ WriteResponse(n, m)
      <3>1. PICK c \in Client :
              /\ conn'[c].at = conn[c].at /\ conn'[c].id = conn[c].id
              /\ conn'[c].phase \in {"answered", "closed"}
              /\ \A d \in Client : d # c => conn'[d] = conn[d]
        BY <1>4, <2>1
      <3> TAKE d \in Client
      <3>2. CASE d = c
        BY <3>1, <3>2
      <3> QED
        BY <3>1, <3>2
    <2> QED
      BY <1>3, <2>1
  <1>6. \A k \in Node : next_id'[k] >= next_id[k]
    BY <1>1, <1>2 DEF TypeOK
  <1>7. Grows
    BY <1>2, <1>5, <1>6 DEF Grows
  <1>8. EngineIds' /\ AllRouted'
    BY <1>2, <1>7, NewIsRouted DEF SelfInv
  <1>9. ConnIds'
    BY <1>5, <1>6, ConnIdsKept
  <1>10. SelfAnswerIsOwn'
    <2>1. CASE m.kind = "response" /\ m.dst = n /\ WriteResponse(n, m)
      <3>1. PICK c \in FindConnection(n, m) :
              /\ c \in Client /\ conn'[c].at = n
              /\ \/ /\ conn'[c].phase = "answered"
                    /\ conn'[c].answer = m.op /\ conn'[c].from = m.src
                 \/ conn'[c].phase = "closed"
              /\ \A d \in Client : d # c => conn'[d] = conn[d]
        BY <1>4, <2>1
      <3>2. m.src = n => m.op = <<c, 1>>
        BY <2>1, FoundIsOwn
      <3> QED
        BY <3>1, <3>2 DEF SelfInv, SelfAnswerIsOwn
    <2> QED
      BY <1>3, <2>1 DEF SelfInv, SelfAnswerIsOwn
  <1> QED
    BY <1>8, <1>9, <1>10 DEF RouteInv
-----------------------------------------------------------------------------
(***************************************************************************)
(* The engine's steps.                                                     *)
(***************************************************************************)

\* The connections know nothing of them.
LEMMA EngineKeeps ==
    ASSUME SelfInv, HttpTypeOK', conn' = conn,
           \A n \in Node : next_id'[n] >= next_id[n]
    PROVE  ConnIds' /\ SelfAnswerIsOwn'
  <1>1. ConnIds'
    BY ConnIdsKept
  <1> QED
    BY <1>1 DEF SelfInv, SelfAnswerIsOwn

LEMMA TakeRoute ==
    ASSUME SelfInv, HttpTypeOK', NEW n \in Node, NEW m \in net,
           EngineTake(n, m)
    PROVE  RouteInv'
  <1>0. PICK t : t = [msg |-> m, response_id |-> next_id[n],
                      is_leader |-> is_leader(n)]
    OBVIOUS
  <1>1. /\ taken' = [taken EXCEPT ![n] = {t}]
        /\ next_id' = [next_id EXCEPT ![n] = @ + 1]
        /\ net' = net \ {m} /\ led' = led /\ proxies' = proxies
        /\ appended' = appended /\ conn' = conn
    BY <1>0 DEF EngineTake, Take, raftVars
  <1>2. t.msg = m /\ t.response_id = next_id[n]
    BY <1>0
  <1>3. TypeOK /\ m \in ClientMessage /\ next_id[n] \in Nat
    BY DEF SelfInv, HttpTypeOK, TypeOK
  <1>4. \A k \in Node :
          /\ next_id'[k] >= next_id[k]
          /\ taken'[k] = IF k = n THEN {t} ELSE taken[k]
    BY <1>1, <1>3 DEF TypeOK
  <1>5. Grows
    BY <1>1, <1>2, <1>3, <1>4 DEF Grows
  <1>6. Routed(m)'
    BY <1>3, <1>5, RoutesKept DEF SelfInv, AllRouted
  <1>7. PICK i \in Nat : i = next_id[n]
    BY <1>3
  <1>8. OfEngine(n, i)'
    <2>1. i # 0 /\ i < next_id'[n]
      BY <1>1, <1>3, <1>7 DEF SelfInv, ConnIds, TypeOK
    <2>2. ASSUME NEW c \in Client, conn'[c].at = n
          PROVE  conn'[c].id # i
      <3>1. conn[c].id \in Nat /\ conn[c].at = n
        BY <1>1, <2>2 DEF SelfInv, HttpTypeOK, Connection
      <3>2. conn[c].id # 0 => conn[c].id < i
        BY <1>7, <3>1 DEF SelfInv, ConnIds
      <3> QED
        BY <1>1, <2>1, <3>1, <3>2
    <2> QED
      BY <2>1, <2>2 DEF OfEngine
  <1>9. Routed(t.msg)' /\ OfEngine(n, t.response_id)'
    BY <1>2, <1>6, <1>7, <1>8
  <1>10. EngineIds' /\ AllRouted'
    <2>1. \A k \in Node : \A u \in taken'[k] :
            u \in taken[k] \/ (Routed(u.msg)' /\ OfEngine(k, u.response_id)')
      BY <1>4, <1>9
    <2> QED
      BY <1>1, <1>5, <2>1, NewIsRouted DEF SelfInv
  <1> QED
    BY <1>1, <1>4, <1>10, EngineKeeps DEF RouteInv

\* What the other steps of the engine have in common: no ID is drawn, and the
\* message at hand is done with.
LEMMA HandleRoute ==
    ASSUME SelfInv, HttpTypeOK', conn' = conn, next_id' = next_id,
           led \subseteq led',
           \A n \in Node :
             /\ taken'[n] \subseteq taken[n]
             /\ \A e \in proxies'[n] :
                  \/ e \in proxies[n]
                  \/ e.client = n /\ \E t \in taken[n] : e.forward_id = t.response_id
             /\ \A e \in appended'[n] :
                  \/ e \in appended[n]
                  \/ /\ RequestRouted(e.client, n, e.in_reply_to, e.op)'
                     /\ \E t \in taken[n] : e.response_id = t.response_id,
           \A m \in net' : m \in net \/ Routed(m)'
    PROVE  RouteInv'
  <1>1. \A n \in Node : next_id'[n] >= next_id[n]
    BY DEF SelfInv, HttpTypeOK, TypeOK
  <1>2. Grows
    BY <1>1 DEF Grows
  <1>3. ASSUME NEW n \in Node, NEW t \in taken[n]
        PROVE  OfEngine(n, t.response_id)'
    <2>1. PICK i \in Nat : i = t.response_id
      BY NodeType DEF SelfInv, HttpTypeOK, TakenMessage
    <2>2. OfEngine(n, i)
      BY <2>1 DEF SelfInv, EngineIds
    <2>3. OfEngine(n, i)'
      BY <1>2, <2>2, IdsKept DEF SelfInv
    <2> QED
      BY <2>1, <2>3
  <1>4. \A n \in Node :
          /\ \A e \in proxies'[n] :
               \/ e \in proxies[n]
               \/ e.client = n /\ OfEngine(n, e.forward_id)'
          /\ \A e \in appended'[n] :
               \/ e \in appended[n]
               \/ /\ RequestRouted(e.client, n, e.in_reply_to, e.op)'
                  /\ OfEngine(n, e.response_id)'
    BY <1>3
  <1>5. EngineIds' /\ AllRouted'
    BY <1>2, <1>4, NewIsRouted DEF SelfInv
  <1> QED
    BY <1>1, <1>5, EngineKeeps DEF RouteInv

\* In a step that adds nothing to a table, whatever belonged still belongs.
LEMMA IdsKeptByHandle ==
    ASSUME SelfInv, HttpTypeOK', conn' = conn, next_id' = next_id,
           led \subseteq led',
           \A n \in Node :
             /\ taken'[n] \subseteq taken[n]
             /\ \A e \in proxies'[n] :
                  \/ e \in proxies[n]
                  \/ \E t \in taken[n] : e.forward_id = t.response_id
    PROVE  Grows
  <1>1. \A n \in Node : next_id'[n] >= next_id[n]
    BY DEF SelfInv, HttpTypeOK, TypeOK
  <1> QED
    BY <1>1 DEF Grows

\* A request that is in the engine's hands, by its type and its route.
LEMMA TakenRequest ==
    ASSUME SelfInv, NEW n \in Node, NEW t \in taken[n], t.msg.kind = "request"
    PROVE  /\ t \in TakenMessage /\ t.msg \in ClientMessage
           /\ t.response_id \in Nat /\ t.msg.id \in Nat
           /\ t.msg.dst = n /\ t.msg.src \in Node
           /\ RequestRouted(t.msg.src, n, t.msg.id, t.msg.op)
           /\ OfEngine(n, t.response_id)
  <1>1. /\ t \in TakenMessage /\ t.msg \in ClientMessage
        /\ t.response_id \in Nat /\ t.msg.id \in Nat
    BY NodeType, MessageType DEF SelfInv, HttpTypeOK, TakenMessage
  <1>2. t.msg.dst = n
    BY DEF SelfInv, OneTaken
  <1>3. RequestRouted(t.msg.src, n, t.msg.id, t.msg.op)
    BY <1>2 DEF SelfInv, AllRouted, Routed
  <1>4. t.msg.src \in Node
    BY <1>3 DEF RequestRouted
  <1> QED
    BY <1>1, <1>2, <1>3, <1>4 DEF SelfInv, EngineIds

\* A request goes into the log with its route.
LEMMA AppendRoute ==
    ASSUME SelfInv, HttpTypeOK', conn' = conn, NEW n \in Node,
           NEW t \in taken[n], AppendRequest(n, t)
    PROVE  RouteInv'
  <1>1. PICK e : e = [client |-> t.msg.src, response_id |-> t.response_id,
                      in_reply_to |-> t.msg.id, op |-> t.msg.op]
    OBVIOUS
  <1>2. /\ e.client = t.msg.src /\ e.response_id = t.response_id
        /\ e.in_reply_to = t.msg.id /\ e.op = t.msg.op
    BY <1>1
  <1>3. /\ appended' = [appended EXCEPT ![n] = @ \cup {e}]
        /\ taken' = [taken EXCEPT ![n] = {}] /\ next_id' = next_id
        /\ net' = net /\ proxies' = proxies /\ led' = led
        /\ t.msg.kind = "request"
    BY <1>1 DEF AppendRequest, raftVars
  <1>4. \A k \in Node :
          /\ taken'[k] \subseteq taken[k]
          /\ appended'[k] = IF k = n THEN appended[n] \cup {e} ELSE appended[k]
    BY <1>3 DEF SelfInv, HttpTypeOK, TypeOK
  <1>5. PICK s \in Node, i \in Nat, o \in {e.op} :
          /\ s = e.client /\ i = e.in_reply_to
          /\ RequestRouted(s, n, i, o)
    BY <1>2, <1>3, TakenRequest
  <1>6. Grows
    BY <1>3, <1>4, IdsKeptByHandle
  <1>7. RequestRouted(s, n, i, o)'
    BY <1>5, <1>6, RoutesKept DEF SelfInv
  <1>8. RequestRouted(e.client, n, e.in_reply_to, e.op)'
    BY <1>5, <1>7
  <1>9. \A k \in Node : \A f \in appended'[k] :
          \/ f \in appended[k]
          \/ /\ RequestRouted(f.client, k, f.in_reply_to, f.op)'
             /\ \E u \in taken[k] : f.response_id = u.response_id
    BY <1>2, <1>4, <1>8
  <1> QED
    BY <1>3, <1>4, <1>9, HandleRoute

\* A request that is sent on came from a connection of this node, and its new
\* ID leads to no other.
LEMMA ProxyRoute ==
    ASSUME SelfInv, HttpTypeOK', conn' = conn, NEW n \in Node,
           NEW t \in taken[n], Proxy(n, t)
    PROVE  RouteInv'
  <1>1. PICK e : e = [forward_id |-> t.response_id, original_id |-> t.msg.id,
                      client |-> t.msg.src]
    OBVIOUS
  <1>2. /\ e.forward_id = t.response_id /\ e.original_id = t.msg.id
        /\ e.client = t.msg.src
    BY <1>1
  <1>3. t.msg.kind = "request" /\ current_leader(n) # None
    BY DEF Proxy
  <1>4. PICK r : r = Forwarded(n, t)
    OBVIOUS
  <1>5. net' = net \cup {r}
    BY <1>3, <1>4, TakenRequest, ForwardedIs DEF Proxy
  <1>6. /\ proxies' = [proxies EXCEPT ![n] = MakeRoom(proxies[n]) \cup {e}]
        /\ taken' = [taken EXCEPT ![n] = {}] /\ next_id' = next_id
        /\ appended' = appended /\ led' = led
    BY <1>1 DEF Proxy, raftVars
  <1>7. MakeRoom(proxies[n]) \subseteq proxies[n]
    BY DEF MakeRoom
  <1>8. \A k \in Node :
          /\ taken'[k] = IF k = n THEN {} ELSE taken[k]
          /\ proxies'[k] \subseteq
               IF k = n THEN proxies[n] \cup {e} ELSE proxies[k]
    BY <1>6, <1>7 DEF SelfInv, HttpTypeOK, TypeOK
  <1>9. leader[n] \in led /\ leader[n] # n /\ leader[n] \in Node
    BY <1>3 DEF current_leader, is_leader, SelfInv, OneLeader, HttpTypeOK,
                TypeOK
  <1>10. t.msg.src = n /\ Own(n, t.msg.id, t.msg.op)
    <2>1. RequestRouted(t.msg.src, n, t.msg.id, t.msg.op)
      BY <1>3, TakenRequest
    <2>2. CASE t.msg.src # n
      <3>1. n \in led
        BY <2>1, <2>2 DEF RequestRouted
      <3> QED
        BY <1>9, <3>1 DEF SelfInv, OneLeader
    <2> QED
      BY <2>1, <2>2 DEF RequestRouted
  <1>11. Grows
    <2>1. \A k \in Node :
            /\ taken'[k] \subseteq taken[k]
            /\ \A f \in proxies'[k] :
                 f \in proxies[k] \/ \E u \in taken[k] : f.forward_id = u.response_id
      BY <1>2, <1>8
    <2> QED
      BY <1>6, <2>1, IdsKeptByHandle
  <1>12. PICK i \in Nat, j \in Nat, o \in {t.msg.op} :
           i = t.response_id /\ j = t.msg.id
    BY <1>3, TakenRequest
  <1>13. OfProxy(n, i, o)'
    <2>1. OfEngine(n, i)'
      BY <1>3, <1>11, <1>12, TakenRequest, IdsKept DEF SelfInv
    <2>2. \A u \in taken'[n] : u.response_id # i
      BY <1>8
    <2>3. Own(n, j, o)'
      BY <1>10, <1>11, <1>12, IdsKept DEF SelfInv
    <2>4. \A f \in proxies[n] : f.forward_id # i
      BY <1>12 DEF SelfInv, IdsDrawn
    <2>5. \A f \in proxies'[n] : f.forward_id = i => f.original_id = j
      BY <1>2, <1>8, <1>12, <2>4
    <2>6. \A f \in proxies'[n] : f.forward_id = i => Own(n, f.original_id, o)'
      BY <2>3, <2>5
    <2> QED
      BY <2>1, <2>2, <2>6 DEF OfProxy
  <1>14. Routed(r)'
    <2>1. PICK l : l = leader[n]
      OBVIOUS
    <2>2. /\ r.kind = "request" /\ r.src = n /\ r.dst = l /\ r.id = i
          /\ r.op = o
      BY <1>4, <1>12, <2>1 DEF Forwarded
    <2> QED
      BY <1>6, <1>9, <1>13, <2>1, <2>2 DEF Routed, RequestRouted
  <1>15. \A m \in net' : m \in net \/ Routed(m)'
    BY <1>5, <1>14
  <1>16. \A k \in Node :
           /\ taken'[k] \subseteq taken[k]
           /\ \A f \in proxies'[k] :
                \/ f \in proxies[k]
                \/ f.client = k /\ \E u \in taken[k] : f.forward_id = u.response_id
    BY <1>2, <1>8, <1>10
  <1> QED
    BY <1>6, <1>15, <1>16, HandleRoute

\* A request that is refused, or whose entry is answered: the answer goes
\* where the request came from.
LEMMA ResponseIsRouted ==
    ASSUME NEW n \in Node, NEW s \in Node, NEW k, NEW i, NEW o, NEW m,
           m = Response(n, s, k, i, o),
           RequestRouted(s, n, i, o), OfEngine(n, k)
    PROVE  Routed(m)
  <1>1. /\ m.kind = "response" /\ m.src = n /\ m.dst = s /\ m.id = k
        /\ m.in_reply_to = i /\ m.op = o
    BY DEF Response
  <1> QED
    BY <1>1 DEF Routed, ResponseRouted, RequestRouted

LEMMA RefuseRoute ==
    ASSUME SelfInv, HttpTypeOK', conn' = conn, NEW n \in Node,
           NEW t \in taken[n], Refuse(n, t)
    PROVE  RouteInv'
  <1>1. PICK m : m = Response(n, t.msg.src, t.response_id, t.msg.id, t.msg.op)
    OBVIOUS
  <1>2. /\ net' = net \cup {m} /\ taken' = [taken EXCEPT ![n] = {}]
        /\ next_id' = next_id /\ proxies' = proxies /\ appended' = appended
        /\ led' = led /\ t.msg.kind = "request"
    BY <1>1 DEF Refuse, raftVars
  <1>3. \A k \in Node : taken'[k] \subseteq taken[k]
    BY <1>2 DEF SelfInv, HttpTypeOK, TypeOK
  <1>4. Grows
    BY <1>2, <1>3, IdsKeptByHandle
  <1>5. Routed(m)
    BY <1>1, <1>2, TakenRequest, ResponseIsRouted
  <1>6. m \in ClientMessage
    BY <1>1, <1>2, TakenRequest, MessageType, MessageIntro
  <1>7. Routed(m)'
    BY <1>4, <1>5, <1>6, RoutesKept DEF SelfInv
  <1> QED
    BY <1>2, <1>3, <1>7, HandleRoute

LEMMA AnswerRoute ==
    ASSUME SelfInv, HttpTypeOK', conn' = conn, NEW n \in Node,
           NEW e \in appended[n], Answer(n, e)
    PROVE  RouteInv'
  <1>1. PICK m : m = Response(n, e.client, e.response_id, e.in_reply_to, e.op)
    OBVIOUS
  <1>2. /\ net' = net \cup {m} /\ appended' = [appended EXCEPT ![n] = @ \ {e}]
        /\ next_id' = next_id /\ proxies' = proxies /\ taken' = taken
        /\ led' = led
    BY <1>1 DEF Answer, raftVars
  <1>3. \A k \in Node : appended'[k] \subseteq appended[k]
    BY <1>2 DEF SelfInv, HttpTypeOK, TypeOK
  <1>4. Grows
    BY <1>2, IdsKeptByHandle
  <1>5. e \in LogEntry
    BY NodeType DEF SelfInv, HttpTypeOK
  <1>6. /\ RequestRouted(e.client, n, e.in_reply_to, e.op)
        /\ OfEngine(n, e.response_id)
    BY DEF SelfInv, AllRouted, EngineIds
  <1>7. e.client \in Node
    BY <1>6 DEF RequestRouted
  <1>8. Routed(m)
    BY <1>1, <1>6, <1>7, ResponseIsRouted
  <1>9. m \in ClientMessage
    BY <1>1, <1>5, MessageIntro DEF LogEntry
  <1>10. Routed(m)'
    BY <1>4, <1>8, <1>9, RoutesKept DEF SelfInv
  <1> QED
    BY <1>2, <1>3, <1>10, HandleRoute

\* The answer of a leader gets the connection's ID back.  What a node has
\* answered itself is in no table, unless it had been sent on.
LEMMA ReturnRoute ==
    ASSUME SelfInv, HttpTypeOK', conn' = conn, NEW n \in Node,
           NEW t \in taken[n], ReturnAnswer(n, t)
    PROVE  RouteInv'
  <1>1. /\ t.msg \in ClientMessage /\ t.msg.kind = "response"
        /\ t.msg.in_reply_to \in Nat
        /\ proxies' = [proxies EXCEPT ![n] = @ \ Found(n, t)]
        /\ net' = net \cup {Returned(n, t, e) : e \in Found(n, t)}
        /\ taken' = [taken EXCEPT ![n] = {}]
    BY ReturnAnswerIs DEF SelfInv, HttpTypeOK
  <1>2. next_id' = next_id /\ appended' = appended /\ led' = led
    BY DEF ReturnAnswer, raftVars
  <1>3. \A k \in Node : /\ taken'[k] \subseteq taken[k]
                        /\ proxies'[k] \subseteq proxies[k]
    BY <1>1 DEF SelfInv, HttpTypeOK, TypeOK
  <1>4. Grows
    BY <1>2, <1>3, IdsKeptByHandle
  <1>5. t.msg.dst = n /\ Routed(t.msg)
    BY DEF SelfInv, OneTaken, AllRouted
  <1>6. \/ \E i : i = t.msg.in_reply_to /\ Own(n, i, t.msg.op)
        \/ OfProxy(n, t.msg.in_reply_to, t.msg.op)
    BY <1>1, <1>5 DEF Routed, ResponseRouted
  <1>7. ASSUME NEW e \in Found(n, t)
        PROVE  OfProxy(n, t.msg.in_reply_to, t.msg.op)
    <2>1. OfEngine(n, t.msg.in_reply_to)
      BY DEF SelfInv, EngineIds, Found
    <2>2. ~ Own(n, t.msg.in_reply_to, t.msg.op)
      BY <2>1 DEF Own, OfEngine
    <2> QED
      BY <1>6, <2>2
  <1>8. ASSUME NEW e \in Found(n, t), NEW m, m = Returned(n, t, e)
        PROVE  Routed(m)'
    <2>1. e \in proxies[n] /\ e.forward_id = t.msg.in_reply_to
      BY DEF Found
    <2>2. e.client = n /\ Own(n, e.original_id, t.msg.op)
      BY <1>7, <2>1 DEF SelfInv, EngineIds, OfProxy
    <2>3. e.original_id \in Nat
      BY <2>1, NodeType DEF SelfInv, HttpTypeOK, ProxyEntry
    <2>4. PICK i \in Nat, k \in Nat, o \in {t.msg.op} :
            i = e.original_id /\ k = t.msg.in_reply_to
      BY <1>1, <2>3
    <2>5. Own(n, i, o) /\ OfProxy(n, k, o)
      BY <1>7, <2>2, <2>4
    <2>6. Own(n, i, o)' /\ OfProxy(n, k, o)'
      BY <1>4, <2>5, IdsKept DEF SelfInv
    <2>7. /\ m.kind = "response" /\ m.src = n /\ m.dst = n /\ m.id = i
          /\ m.in_reply_to = k /\ m.op = o
      BY <1>8, <2>2, <2>4 DEF Returned, Response
    <2> QED
      BY <2>6, <2>7 DEF Routed, ResponseRouted
  <1>9. \A m \in net' : m \in net \/ Routed(m)'
    BY <1>1, <1>8
  <1> QED
    BY <1>2, <1>3, <1>9, HandleRoute

LEMMA RaftStepRoute ==
    ASSUME SelfInv, HttpTypeOK', NEW n \in Node, RaftStep(n)
    PROVE  RouteInv'
  <1>1. conn' = conn
    BY DEF RaftStep
  <1>2. ASSUME UNCHANGED <<next_id, taken, proxies, appended, net, conn>>,
               led \subseteq led'
        PROVE  RouteInv'
    BY <1>2, HandleRoute
  <1>3. CASE \/ BecomeLeader(n) \/ ForgetLeader(n)
             \/ \E l \in Node : LearnLeader(n, l)
    BY <1>1, <1>2, <1>3 DEF BecomeLeader, ForgetLeader, LearnLeader
  <1> QED
    BY <1>1, <1>3, AnswerRoute DEF RaftStep

LEMMA SelfInvStep ==
    ASSUME MaxRequests >= 1, MaxElections <= 1, SelfInv, [HttpNext]_httpVars
    PROVE  SelfInv'
  <1>1. HttpTypeOK' /\ OneTaken' /\ IdsDrawn' /\ OneLeader'
    BY HttpTypeStep, BaseStep DEF SelfInv
  <1>2. CASE UNCHANGED httpVars
    <2>1. /\ UNCHANGED <<next_id, taken, proxies, appended, net, conn>>
          /\ led' = led
      BY <1>2 DEF httpVars, vars
    <2>2. RouteInv'
      BY <1>1, <2>1, HandleRoute
    <2> QED
      BY <1>1, <2>2 DEF SelfInv, RouteInv
  <1>3. CASE HttpNext
    <2>1. ASSUME NEW n \in Node, EngineHandle(n)
          PROVE  RouteInv'
      BY <1>1, <2>1, AppendRoute, ProxyRoute, RefuseRoute, ReturnRoute
      DEF EngineHandle, Handle
    <2>2. RouteInv'
      BY <1>1, <1>3, <2>1, ReadRoute, EnqueueRoute, ResponseRoute, TakeRoute,
         RaftStepRoute DEF HttpNext, HandleConnection, ClientThread
    <2> QED
      BY <1>1, <2>2 DEF SelfInv, RouteInv
  <1> QED
    BY <1>2, <1>3

LEMMA SelfInvInit == HttpInit => SelfInv
  <1> SUFFICES ASSUME HttpInit PROVE SelfInv
    OBVIOUS
  <1>1. HttpTypeOK
    BY HttpInitType
  <1>2. OneTaken /\ IdsDrawn /\ OneLeader
    BY DEF HttpInit, Init, OneTaken, IdsDrawn, OneLeader
  <1>3. ConnIds /\ SelfAnswerIsOwn
    BY DEF HttpInit, Init, ConnIds, SelfAnswerIsOwn
  <1>4. EngineIds /\ AllRouted
    BY DEF HttpInit, Init, EngineIds, AllRouted
  <1> QED
    BY <1>1, <1>2, <1>3, <1>4 DEF SelfInv

\* While no request is sent on twice, a response that a node sends to itself
\* is written to the connection whose request it answers, however many
\* connections wait, whatever IDs other nodes have drawn and whatever has
\* been lost on the way.
THEOREM SelfAnswersAreOwn ==
    ASSUME MaxRequests >= 1, MaxElections <= 1
    PROVE  HttpSpec => []SelfAnswerIsOwn
  <1>1. SelfInv /\ [HttpNext]_httpVars => SelfInv'
    BY SelfInvStep
  <1>2. SelfInv => SelfAnswerIsOwn
    BY DEF SelfInv
  <1> QED
    BY <1>1, <1>2, SelfInvInit, PTL DEF HttpSpec
==============================================================================
