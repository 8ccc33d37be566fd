---------------------------- MODULE ClientGateway ----------------------------
(***************************************************************************)
(* How client requests and their answers are routed                        *)
(* (incoming_client_rpcs_loop in raft/src/lib.rs).  A leader appends a     *)
(* request to its log and answers when the entry is applied or dismissed.  *)
(* Any other node sends the request on to the leader it believes in, under *)
(* an ID of its own, keeps the client's ID in a table of proxies, and      *)
(* sends the answer back to the client when it comes.                      *)
(*                                                                         *)
(* The Raft state is reduced to whom a node believes in.  The beliefs of   *)
(* different nodes may differ but, as HintsAcyclic of RaftCore says, they  *)
(* lead nowhere in a circle.  Whether and when an appended request is      *)
(* answered is left open.                                                  *)
(*                                                                         *)
(* The loop reads the Raft state twice for a request that it does not      *)
(* append: is_leader, then current_leader.  Taking a message (Take) and    *)
(* dealing with it are therefore two steps.                                *)
(***************************************************************************)
EXTENDS Naturals, FiniteSets

CONSTANTS
    Node,          \* the cluster
    Client,        \* its clients
    None,          \* Option::None for a node ID
    MaxInflight,   \* MAX_INFLIGHT_PROXIES
    MaxRequests,   \* how many requests each client sends
    MaxElections,  \* how often a node becomes leader
    MaxCrashes     \* how many nodes are killed and rebooted

ASSUME IdAssumption == Node \cap Client = {} /\ None \notin Node

ASSUME BoundAssumption ==
    /\ MaxInflight \in Nat
    /\ MaxRequests \in Nat
    /\ MaxElections \in Nat
    /\ MaxCrashes \in Nat

VARIABLES
    leader,    \* whom a node believes in: itself (Role::Leader), another node
               \* (Role::Follower::leader), or nobody
    led,       \* the nodes that have been leader
    next_id,   \* CURRENT_MESSAGE_ID of each process
    taken,     \* the message that the client thread of a node is dealing with
    proxies,   \* the table of outstanding proxied requests
    appended,  \* commands in the log that carry a respond channel
    net,       \* messages on their way; those to clients stay for ever
    sent,      \* how many requests each client has sent
    rebooted,  \* the nodes that have been killed and rebooted
    logged,    \* history: the operations that a leader has put into its log
    refused    \* history: the operations that a node has refused

vars == <<leader, led, next_id, taken, proxies, appended, net, sent, rebooted,
          logged, refused>>

raftVars == <<leader, led>>

history == <<logged, refused>>
-----------------------------------------------------------------------------
(***************************************************************************)
(* The messages (enum ClientMessage) with their envelope.  op is the       *)
(* operation that a request asks for, or that a response is the outcome    *)
(* of; it stands for key and values, which no node looks at on the way.    *)
(* The op of a client's k-th request is <<client, k>>, and k is its ID.    *)
(***************************************************************************)
Op == Client \X (1..MaxRequests)

ClientMessage ==
    [kind : {"request"}, src : Node \cup Client, dst : Node, id : Nat, op : Op]
    \cup
    [kind : {"response"}, src : Node, dst : Node \cup Client, id : Nat,
     in_reply_to : Nat, op : Op]

Response(n, to, id, in_reply_to, op) ==
    [kind |-> "response", src |-> n, dst |-> to, id |-> id,
     in_reply_to |-> in_reply_to, op |-> op]

is_leader(n) == leader[n] = n

current_leader(n) == IF is_leader(n) THEN None ELSE leader[n]
-----------------------------------------------------------------------------
Init ==
    /\ leader = [n \in Node |-> None]
    /\ led = {}
    /\ next_id = [n \in Node |-> 1]
    /\ taken = [n \in Node |-> {}]
    /\ proxies = [n \in Node |-> {}]
    /\ appended = [n \in Node |-> {}]
    /\ net = {}
    /\ sent = [c \in Client |-> 0]
    /\ rebooted = {}
    /\ logged = {}
    /\ refused = {}
-----------------------------------------------------------------------------
\* A client sends its next request to any node, not waiting for the answer
\* to the one before (which may never come).
ClientSend(c, n) ==
    /\ sent[c] < MaxRequests
    /\ sent' = [sent EXCEPT ![c] = @ + 1]
    /\ net' = net \cup {[kind |-> "request", src |-> c, dst |-> n,
                         id |-> sent[c] + 1, op |-> <<c, sent[c] + 1>>]}
    /\ UNCHANGED <<next_id, taken, proxies, appended, rebooted>>
    /\ UNCHANGED <<raftVars, history>>

\* The client thread takes a message, draws an ID and reads is_leader.
Take(n, m) ==
    /\ taken[n] = {}
    /\ m.dst = n
    /\ net' = net \ {m}
    /\ taken' = [taken EXCEPT ![n] = {[msg |-> m, response_id |-> next_id[n],
                                       is_leader |-> is_leader(n)]}]
    /\ next_id' = [next_id EXCEPT ![n] = @ + 1]
    /\ UNCHANGED <<proxies, appended, sent, rebooted>>
    /\ UNCHANGED <<raftVars, history>>

\* Mutant: a node that has lost its leadership when the command is in its log
\* refuses the request.
AppendRequestRefusing(n, t) ==
    /\ t.msg.kind = "request"
    /\ t.is_leader
    /\ \/ /\ is_leader(n)
          /\ appended' = [appended EXCEPT ![n] = @ \cup
                            {[client |-> t.msg.src, op |-> t.msg.op,
                              response_id |-> t.response_id,
                              in_reply_to |-> t.msg.id]}]
          /\ UNCHANGED <<net, refused>>
       \/ /\ ~ is_leader(n)
          /\ net' = net \cup {Response(n, t.msg.src, t.response_id, t.msg.id,
                                       t.msg.op)}
          /\ refused' = refused \cup {t.msg.op}
          /\ UNCHANGED appended
    /\ logged' = logged \cup {t.msg.op}
    /\ taken' = [taken EXCEPT ![n] = {}]
    /\ UNCHANGED <<next_id, proxies, sent, rebooted>>
    /\ UNCHANGED raftVars

\* The leader's branch: the command keeps what its answer will need.
AppendRequest(n, t) ==
    /\ t.msg.kind = "request"
    /\ t.is_leader
    /\ appended' = [appended EXCEPT ![n] = @ \cup
                      {[client |-> t.msg.src, response_id |-> t.response_id,
                        in_reply_to |-> t.msg.id, op |-> t.msg.op]}]
    /\ logged' = logged \cup {t.msg.op}
    /\ taken' = [taken EXCEPT ![n] = {}]
    /\ UNCHANGED <<next_id, proxies, net, sent, rebooted, refused>>
    /\ UNCHANGED raftVars

\* Mutant: no entry is ever dropped.
MakeRoomNever(table) == table

\* A full table makes room by dropping its oldest entry (pop_first).
MakeRoom(table) ==
    IF Cardinality(table) > MaxInflight
    THEN {e \in table : \E f \in table : f.forward_id < e.forward_id}
    ELSE table

\* Mutant: the request goes out, and is remembered, under the client's ID.
ProxyUnderOriginalId(n, t) ==
    /\ t.msg.kind = "request"
    /\ ~ t.is_leader
    /\ current_leader(n) # None
    /\ proxies' = [proxies EXCEPT ![n] = MakeRoom(@) \cup
                     {[forward_id |-> t.msg.id, original_id |-> t.msg.id,
                       client |-> t.msg.src]}]
    /\ net' = net \cup {[t.msg EXCEPT !.src = n, !.dst = current_leader(n)]}
    /\ taken' = [taken EXCEPT ![n] = {}]
    /\ UNCHANGED <<next_id, appended, sent, rebooted>>
    /\ UNCHANGED <<raftVars, history>>

\* Mutant: the request goes out although no leader is known.
ProxyUnguarded(n, t) ==
    /\ t.msg.kind = "request"
    /\ ~ t.is_leader
    /\ proxies' = [proxies EXCEPT ![n] = MakeRoom(@) \cup
                     {[forward_id |-> t.response_id, original_id |-> t.msg.id,
                       client |-> t.msg.src]}]
    /\ net' = net \cup {[t.msg EXCEPT !.src = n, !.dst = current_leader(n),
                                      !.id = t.response_id]}
    /\ taken' = [taken EXCEPT ![n] = {}]
    /\ UNCHANGED <<next_id, appended, sent, rebooted>>
    /\ UNCHANGED <<raftVars, history>>

\* A request is sent on to the leader that the node believes in (current_leader
\* is read after is_leader, and either may have changed).
Proxy(n, t) ==
    /\ t.msg.kind = "request"
    /\ ~ t.is_leader
    /\ current_leader(n) # None
    /\ proxies' = [proxies EXCEPT ![n] = MakeRoom(@) \cup
                     {[forward_id |-> t.response_id, original_id |-> t.msg.id,
                       client |-> t.msg.src]}]
    /\ net' = net \cup {[t.msg EXCEPT !.src = n, !.dst = current_leader(n),
                                      !.id = t.response_id]}
    /\ taken' = [taken EXCEPT ![n] = {}]
    /\ UNCHANGED <<next_id, appended, sent, rebooted>>
    /\ UNCHANGED <<raftVars, history>>

\* Mutant: the request is kept, to be tried again, although it was refused.
RefuseKeeping(n, t) ==
    /\ t.msg.kind = "request"
    /\ ~ t.is_leader
    /\ current_leader(n) = None
    /\ net' = net \cup {Response(n, t.msg.src, t.response_id, t.msg.id,
                                 t.msg.op)}
    /\ refused' = refused \cup {t.msg.op}
    /\ UNCHANGED <<next_id, taken, proxies, appended, sent, rebooted, logged>>
    /\ UNCHANGED raftVars

\* No leader is known: ErrorResponse, TemporarilyUnavailable.
Refuse(n, t) ==
    /\ t.msg.kind = "request"
    /\ ~ t.is_leader
    /\ current_leader(n) = None
    /\ net' = net \cup {Response(n, t.msg.src, t.response_id, t.msg.id,
                                 t.msg.op)}
    /\ refused' = refused \cup {t.msg.op}
    /\ taken' = [taken EXCEPT ![n] = {}]
    /\ UNCHANGED <<next_id, proxies, appended, sent, rebooted, logged>>
    /\ UNCHANGED raftVars

\* Mutant: the answer keeps the ID that the leader gave it.
ReturnAnswerKeepingId(n, t) ==
    LET found == {e \in proxies[n] : e.forward_id = t.msg.in_reply_to}
    IN  /\ t.msg.kind = "response"
        /\ proxies' = [proxies EXCEPT ![n] = @ \ found]
        /\ net' = net \cup {[t.msg EXCEPT !.src = n, !.dst = e.client] :
                               e \in found}
        /\ taken' = [taken EXCEPT ![n] = {}]
        /\ UNCHANGED <<next_id, appended, sent, rebooted>>
        /\ UNCHANGED <<raftVars, history>>

\* An answer to a proxied request goes to the client with the ID that the
\* client's request had (set_id); in_reply_to stays what it is.  An answer
\* that nobody waits for is dropped.
ReturnAnswer(n, t) ==
    LET found == {e \in proxies[n] : e.forward_id = t.msg.in_reply_to}
    IN  /\ t.msg.kind = "response"
        /\ proxies' = [proxies EXCEPT ![n] = @ \ found]
        /\ net' = net \cup {[t.msg EXCEPT !.src = n, !.dst = e.client,
                                          !.id = e.original_id] : e \in found}
        /\ taken' = [taken EXCEPT ![n] = {}]
        /\ UNCHANGED <<next_id, appended, sent, rebooted>>
        /\ UNCHANGED <<raftVars, history>>

\* The Raft thread applies a command, or dismisses it, and answers.
Answer(n, e) ==
    /\ appended' = [appended EXCEPT ![n] = @ \ {e}]
    /\ net' = net \cup {Response(n, e.client, e.response_id, e.in_reply_to,
                                 e.op)}
    /\ UNCHANGED <<next_id, taken, proxies, sent, rebooted>>
    /\ UNCHANGED <<raftVars, history>>
-----------------------------------------------------------------------------
(***************************************************************************)
(* The Raft state changes under the gateway: a node becomes leader, learns *)
(* of one, or believes in nobody (it has stepped down, or has become a     *)
(* candidate).                                                             *)
(***************************************************************************)
BecomeLeader(n) ==
    /\ Cardinality(led) < MaxElections
    /\ n \notin led
    /\ leader' = [leader EXCEPT ![n] = n]
    /\ led' = led \cup {n}
    /\ UNCHANGED <<next_id, taken, proxies, appended, net, sent, rebooted>>
    /\ UNCHANGED history

Circular(belief) ==
    \E S \in SUBSET Node :
        S # {} /\ \A n \in S : belief[n] \in S \ {n}

LearnLeader(n, l) ==
    /\ ~ is_leader(n)
    /\ l \in led \ {n}
    /\ leader' = [leader EXCEPT ![n] = l]
    /\ ~ Circular(leader')
    /\ UNCHANGED led
    /\ UNCHANGED <<next_id, taken, proxies, appended, net, sent, rebooted>>
    /\ UNCHANGED history

ForgetLeader(n) ==
    /\ leader[n] # None
    /\ leader' = [leader EXCEPT ![n] = None]
    /\ UNCHANGED led
    /\ UNCHANGED <<next_id, taken, proxies, appended, net, sent, rebooted>>
    /\ UNCHANGED history

\* A process is killed and rebooted: its IDs start at 1 again, and neither
\* its table nor the channels of its commands survive.
Crash(n) ==
    /\ n \notin rebooted
    /\ Cardinality(rebooted) < MaxCrashes
    /\ rebooted' = rebooted \cup {n}
    /\ leader' = [leader EXCEPT ![n] = None]
    /\ next_id' = [next_id EXCEPT ![n] = 1]
    /\ taken' = [taken EXCEPT ![n] = {}]
    /\ proxies' = [proxies EXCEPT ![n] = {}]
    /\ appended' = [appended EXCEPT ![n] = {}]
    /\ UNCHANGED <<led, net, sent>>
    /\ UNCHANGED history
-----------------------------------------------------------------------------
Handle(n, t) ==
    \/ AppendRequest(n, t)
    \/ Proxy(n, t)
    \/ Refuse(n, t)
    \/ ReturnAnswer(n, t)

Next ==
    \E n \in Node :
        \/ \E c \in Client : ClientSend(c, n)
        \/ \E m \in net : Take(n, m)
        \/ \E t \in taken[n] : Handle(n, t)
        \/ \E e \in appended[n] : Answer(n, e)
        \/ BecomeLeader(n)
        \/ \E l \in Node : LearnLeader(n, l)
        \/ ForgetLeader(n)
        \/ Crash(n)

Spec == Init /\ [][Next]_vars
-----------------------------------------------------------------------------
(***************************************************************************)
(* Properties.                                                             *)
(***************************************************************************)

\* Every variable has its type.
TypeOK ==
    /\ leader \in [Node -> Node \cup {None}]
    /\ led \subseteq Node
    /\ next_id \in [Node -> Nat]
    /\ taken \in [Node -> SUBSET [msg : ClientMessage, response_id : Nat,
                                  is_leader : BOOLEAN]]
    /\ proxies \in [Node -> SUBSET [forward_id : Nat, original_id : Nat,
                                    client : Node \cup Client]]
    /\ appended \in [Node -> SUBSET [client : Node \cup Client,
                                     response_id : Nat, in_reply_to : Nat,
                                     op : Op]]
    /\ net \subseteq ClientMessage
    /\ sent \in [Client -> 0..MaxRequests]
    /\ rebooted \subseteq Node
    /\ logged \subseteq Op
    /\ refused \subseteq Op

\* What clients have been sent.
Answers == {m \in net : m.kind = "response" /\ m.dst \in Client}

\* "This node's generated message IDs are unique, so we use it to tell async
\* responses apart later" (incoming_client_rpcs_loop): an answer goes to the
\* client that asked, whatever order answers come in and whatever the table
\* has dropped meanwhile.  Nodes that have been rebooted give out the same IDs
\* again and are excepted, as the comment has it.
OwnAnswer ==
    \A m \in Answers : m.src \notin rebooted => m.op[1] = m.dst

\* An operation is answered at most once, however often its request is sent
\* on (incoming_client_rpcs_loop): once its client has an answer there is
\* nothing left from which a second one could come, be it a message on its way
\* or in the hands of a client thread, or an entry of a log that carries a
\* respond channel.  Entries without a channel are not meant: the copies of
\* other nodes may be applied after an answer, even after the error Abort (see
\* AbortIsFinal of RaftCore).
AnsweredOnce ==
    \A m \in Answers :
        /\ \A other \in net \ {m} : other.op # m.op
        /\ \A n \in Node : /\ \A t \in taken[n] : t.msg.op # m.op
                          /\ \A e \in appended[n] : e.op # m.op

\* TemporarilyUnavailable ("not a leader and current leader unknown") is a
\* definite answer: what a node has refused, be it the client's own request or
\* one that another node has sent on, no leader has put into its log or ever
\* will.  A client may send it again without its being executed twice.
RefusedIsNotLogged == refused \cap logged = {}

\* Requests whose answers never come, because a leader was killed or the
\* answer is lost, leave their entries behind; the table is bounded all the
\* same.
TableBounded == \A n \in Node : Cardinality(proxies[n]) <= MaxInflight + 1
==============================================================================
