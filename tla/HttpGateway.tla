----------------------------- MODULE HttpGateway -----------------------------
(***************************************************************************)
(* The HTTP front end (raft/src/http.rs, raft/src/main-http.rs) over the   *)
(* client gateway.  A client's request arrives on a connection of its own, *)
(* which waits in a table (correlation_map) for the response.  The node    *)
(* hands the request to its engine with its own name as the client, so     *)
(* that the response comes back as a message to the node itself.  Every    *)
(* response, from this node or another, is first offered to the waiting    *)
(* connections; one that none waits for makes "another trip through the    *)
(* engine".                                                                *)
(*                                                                         *)
(* Client of ClientGateway is the set of connections here, and <<c, 1>> is *)
(* the operation that connection c asks for.  sent and rebooted are not    *)
(* used: requests are not sent by clients of the engine's own kind, and    *)
(* main-http.rs starts each node once and only waits for it.               *)
(***************************************************************************)
EXTENDS ClientGateway

VARIABLES
    conn,      \* each connection: where, under which ID, how far, and the
               \* response that was written to it
    rerouted   \* the responses in net that have been offered to the waiting
               \* connections and now are on the engine's channel

httpVars == <<vars, conn, rerouted>>

Connection ==
    [at : Node \cup {None}, id : Nat,
     phase : {"new", "parsed", "waiting", "answered", "closed"},
     answer : Op \cup {None}, from : Node \cup {None}]

\* The connections in the table of node n whose ID is id (the key is
\* "node-<n>-<id>").
Waiting(n, id) ==
    {c \in Client : conn[c].phase = "waiting" /\ conn[c].at = n
                    /\ conn[c].id = id}

HttpInit ==
    /\ Init
    /\ conn = [c \in Client |-> [at |-> None, id |-> 0, phase |-> "new",
                                 answer |-> None, from |-> None]]
    /\ rerouted = {}

engineVars == <<taken, proxies, appended, sent, rebooted, history>>
-----------------------------------------------------------------------------
(***************************************************************************)
(* A thread per connection (handle_connection).  First the request is read *)
(* and turned into a ClientMessage, which draws an ID from the node's      *)
(* counter before it looks at the path and the body.                       *)
(***************************************************************************)
ReadRequest(n, c) ==
    /\ conn[c].phase = "new"
    /\ conn' = [conn EXCEPT ![c].at = n, ![c].id = next_id[n],
                            ![c].phase = "parsed"]
    /\ next_id' = [next_id EXCEPT ![n] = @ + 1]
    /\ UNCHANGED <<net, rerouted>>
    /\ UNCHANGED engineVars
    /\ UNCHANGED raftVars

\* Not HTTP, another method than GET and PUT, or a header that is no number
\* where one is needed: the connection is dropped without a response.
RejectUnread(n, c) ==
    /\ conn[c].phase = "new"
    /\ conn' = [conn EXCEPT ![c].at = n, ![c].phase = "closed"]
    /\ UNCHANGED <<next_id, net, rerouted>>
    /\ UNCHANGED engineVars
    /\ UNCHANGED raftVars

\* A path without a key, or PUT without a body: dropped as well, and an ID is
\* used up.
RejectRequest(n, c) ==
    /\ conn[c].phase = "new"
    /\ conn' = [conn EXCEPT ![c].at = n, ![c].phase = "closed"]
    /\ next_id' = [next_id EXCEPT ![n] = @ + 1]
    /\ UNCHANGED <<net, rerouted>>
    /\ UNCHANGED engineVars
    /\ UNCHANGED raftVars

\* The connection goes into the table, then the request to the engine.
Enqueue(n, c) ==
    /\ conn[c].phase = "parsed"
    /\ conn[c].at = n
    /\ conn' = [conn EXCEPT ![c].phase = "waiting"]
    /\ net' = net \cup {[kind |-> "request", src |-> n, dst |-> n,
                         id |-> conn[c].id, op |-> <<c, 1>>]}
    /\ UNCHANGED <<next_id, rerouted>>
    /\ UNCHANGED engineVars
    /\ UNCHANGED raftVars
-----------------------------------------------------------------------------
(***************************************************************************)
(* A message from a node (the JSON branch).  A request, and a Raft         *)
(* message, goes to the engine (route_incoming).  A response goes to the   *)
(* connection that waits under its id, else to the one that waits under    *)
(* its in_reply_to, else to the engine.                                    *)
(***************************************************************************)
\* Mutant: the ID the response replies to is the only key.
FindByReplyOnly(n, m) == Waiting(n, m.in_reply_to)

FindConnection(n, m) ==
    IF Waiting(n, m.id) # {} THEN Waiting(n, m.id)
                             ELSE Waiting(n, m.in_reply_to)

\* The client may have gone, in which case writing fails.
WriteResponse(n, m) ==
    /\ \E c \in FindConnection(n, m) :
         \/ conn' = [conn EXCEPT ![c].phase = "answered",
                                 ![c].answer = m.op, ![c].from = m.src]
         \/ conn' = [conn EXCEPT ![c].phase = "closed"]
    /\ net' = net \ {m}
    /\ UNCHANGED <<next_id, rerouted>>
    /\ UNCHANGED engineVars
    /\ UNCHANGED raftVars

\* Mutant: the response that nobody waits for is left where it is.
RerouteNowhere(n, m) ==
    /\ FindConnection(n, m) = {}
    /\ UNCHANGED <<conn, next_id, net, rerouted>>
    /\ UNCHANGED engineVars
    /\ UNCHANGED raftVars

Reroute(n, m) ==
    /\ FindConnection(n, m) = {}
    /\ rerouted' = rerouted \cup {m}
    /\ UNCHANGED <<conn, next_id, net>>
    /\ UNCHANGED engineVars
    /\ UNCHANGED raftVars

HandleResponse(n, m) ==
    /\ m.kind = "response"
    /\ m.dst = n
    /\ m \notin rerouted
    /\ WriteResponse(n, m) \/ Reroute(n, m)

\* send_tcp fails because the other node does not accept the connection: the
\* message is lost.  A node always reaches itself.
SendFails(n, m) ==
    /\ m.src = n
    /\ m.dst # n
    /\ m \notin rerouted
    /\ net' = net \ {m}
    /\ UNCHANGED <<conn, next_id, rerouted>>
    /\ UNCHANGED engineVars
    /\ UNCHANGED raftVars
-----------------------------------------------------------------------------
(***************************************************************************)
(* The steps of the gateway and of the Raft state under it.                *)
(***************************************************************************)
EngineTake(n, m) ==
    /\ m.kind = "response" => m \in rerouted
    /\ Take(n, m)
    /\ rerouted' = rerouted \ {m}
    /\ UNCHANGED conn

EngineHandle(n) ==
    /\ \E t \in taken[n] : Handle(n, t)
    /\ UNCHANGED <<conn, rerouted>>

RaftStep(n) ==
    /\ \/ \E e \in appended[n] : Answer(n, e)
       \/ BecomeLeader(n)
       \/ \E l \in Node : LearnLeader(n, l)
       \/ ForgetLeader(n)
    /\ UNCHANGED <<conn, rerouted>>

\* A thread that has something to do.
HandleConnection(n) ==
    \/ \E c \in Client : Enqueue(n, c)
    \/ \E m \in net : HandleResponse(n, m)

ClientThread(n) ==
    \/ \E m \in net : EngineTake(n, m)
    \/ EngineHandle(n)

HttpNext ==
    \E n \in Node :
        \/ \E c \in Client : ReadRequest(n, c) \/ RejectUnread(n, c)
                             \/ RejectRequest(n, c)
        \/ HandleConnection(n)
        \/ ClientThread(n)
        \/ \E m \in net : SendFails(n, m)
        \/ RaftStep(n)

\* Threads that can run do run.  Nothing is assumed of clients, of when Raft
\* answers a request, of who leads, or of failures.
Fairness ==
    \A n \in Node : WF_httpVars(HandleConnection(n)) /\ WF_httpVars(ClientThread(n))

HttpSpec == HttpInit /\ [][HttpNext]_httpVars /\ Fairness
-----------------------------------------------------------------------------
(***************************************************************************)
(* Properties.                                                             *)
(***************************************************************************)

\* Every variable has its type.
HttpTypeOK ==
    /\ TypeOK
    /\ conn \in [Client -> Connection]
    /\ rerouted \subseteq net

\* A response that a node sends to itself, as leader, as a refusal, or after
\* the engine has put the original ID back into the answer of a leader,
\* is written to the connection whose request it answers, however many
\* connections wait and whatever IDs other nodes have drawn
\* (handle_connection, incoming_client_rpcs_loop).
SelfAnswerIsOwn ==
    \A c \in Client :
        conn[c].phase = "answered" /\ conn[c].from = conn[c].at =>
            conn[c].answer = <<c, 1>>

\* "add request to repsonse_queue to match later occuring response with the
\* correct stream" (handle_connection): a response is written to the
\* connection whose request it answers.
OwnConnection ==
    \A c \in Client :
        conn[c].phase = "answered" => conn[c].answer = <<c, 1>>

\* Once a response to its request is on the way from the node to itself, a
\* connection does not wait for ever: handle_connection finds it.
ReturnedAnswerLands ==
    \A c \in Client :
        (\E m \in net : /\ m.kind = "response" /\ m.src = m.dst
                        /\ m.op = <<c, 1>>)
            ~> conn[c].phase # "waiting"

\* No message goes round for ever between the table of connections, which
\* reroutes what it does not know, and the engine, which sends what it knows
\* back: in the end every message has been dealt with and every client
\* thread waits for the next.
Settles == <>[](net = {} /\ \A n \in Node : taken[n] = {})
==============================================================================
