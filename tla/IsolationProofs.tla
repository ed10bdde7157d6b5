--------------------------- MODULE IsolationProofs ---------------------------
(***************************************************************************)
(* Type correctness of TunnelRelay and isolation of clients, for every     *)
(* number of nodes, clients, connections and sessions and every channel    *)
(* capacity: what enters a session was sent by its client, and a client is *)
(* only sent what belongs to its sessions.                                 *)
(***************************************************************************)
EXTENDS TunnelRelay, SequenceTheorems, TLAPS

-----------------------------------------------------------------------------
(* Queues and frames.                                                      *)

\* Appending a frame to a queue, and taking its head, keep queues well typed.
LEMMA QueueTypes ==
  ASSUME NEW S, NEW q \in [Conns -> Seq(S)], NEW k \in Conns
  PROVE  /\ \A f \in S : [q EXCEPT ![k] = Append(@, f)] \in [Conns -> Seq(S)]
         /\ [q EXCEPT ![k] = <<>>] \in [Conns -> Seq(S)]
         /\ q[k] # <<>> => /\ [q EXCEPT ![k] = Tail(@)] \in [Conns -> Seq(S)]
                           /\ Head(q[k]) \in S
  OBVIOUS

\* Sending to a node or to the server keeps the queues well typed.
LEMMA SendTypes ==
  ASSUME WireTypeOK, NEW k \in Conns
  PROVE  /\ \A f \in AgentFrame : SendToNode(k, f) => toAgent' \in [Conns -> Seq(AgentFrame)]
         /\ \A f \in ServerFrame :
              send_frame_data(k, f) => toServer' \in [Conns -> Seq(ServerFrame)]
<1>1. ASSUME NEW f \in AgentFrame, SendToNode(k, f)
      PROVE  toAgent' \in [Conns -> Seq(AgentFrame)]
  <2>1. toAgent \in [Conns -> Seq(AgentFrame)]
    BY Zenon DEF WireTypeOK
  <2>2. [toAgent EXCEPT ![k] = Append(@, f)] \in [Conns -> Seq(AgentFrame)]
    BY <2>1, QueueTypes, Zenon
  <2>. QED
    BY <1>1, <2>1, <2>2, Zenon DEF SendToNode
<1>2. ASSUME NEW f \in ServerFrame, send_frame_data(k, f)
      PROVE  toServer' \in [Conns -> Seq(ServerFrame)]
  <2>1. toServer \in [Conns -> Seq(ServerFrame)]
    BY Zenon DEF WireTypeOK
  <2>2. [toServer EXCEPT ![k] = Append(@, f)] \in [Conns -> Seq(ServerFrame)]
    BY <2>1, QueueTypes, Zenon
  <2>. QED
    BY <1>2, <2>1, <2>2, Zenon DEF send_frame_data
<1>. QED
  BY <1>1, <1>2, Zenon

\* The constructors build frames of the three kinds.
LEMMA FrameTypes ==
  /\ AuthResponse \in AgentFrame /\ HeartbeatAck \in AgentFrame
  /\ \A c \in Cids : /\ \A p \in Protocols, m \in Msgs : OpenTunnel(c, p, m) \in AgentFrame
                     /\ \A s \in Sids : SessionRequest(c, s) \in AgentFrame
                     /\ ConnectionDisconnect(c) \in AgentFrame
  /\ Heartbeat \in ServerFrame
  /\ \A c \in Cids, m \in Msgs :
       /\ \A t \in {"opened", "closed", "data", "error"}, s \in Sids :
            NodeFrame(t, c, s, m) \in ServerFrame
       /\ NodeFrame("refused", c, 0, m) \in ServerFrame
       /\ \A t \in {"opened", "closed", "data", "error"}, n \in Nodes, s \in Sids \cup {0} :
            WebFrame(t, n, s, c, m) \in ClientFrame
  BY Zenon DEF AgentFrame, AuthResponse, HeartbeatAck, OpenTunnel, SessionRequest,
         ConnectionDisconnect, ServerFrame, Heartbeat, NodeFrame, ClientFrame,
         WebFrame, Msgs, Sids

\* What the fields of a received frame can be.
LEMMA FrameFields ==
  /\ \A f \in ServerFrame :
       /\ f.msg \in Msgs
       /\ f.type # "heartbeat" => f.cid \in Cids
       /\ f.type \in {"opened", "closed", "data", "error"} => f.sid \in Sids
       /\ f.type = "refused" => f.sid = 0
  /\ \A f \in AgentFrame :
       /\ f.msg \in Msgs
       /\ f.type \in {"open", "request", "disconnect"} => f.cid \in Cids
       /\ f.type = "open" => f.proto \in Protocols
       /\ f.type = "request" => f.sid \in Sids
  BY WireAssumption DEF ServerFrame, AgentFrame, Msgs

-----------------------------------------------------------------------------
(* Type correctness.                                                       *)

\* Steps of the web tasks keep the server and the queues well typed.
LEMMA WebTypes ==
  ASSUME WireTypeOK, ServerTypeOK, NEW c \in Cids,
         \/ WebClientStep(c) \/ WebForward(c)
         \/ \E n \in Nodes : notify_nodes_client_disconnect(c, n)
  PROVE  WireTypeOK' /\ ServerTypeOK'
<1>. USE DEF WireTypeOK, ServerTypeOK, wireVars, nodeSide, webSide
<1>1. CASE WebConnect(c)
  BY <1>1, Zenon DEF WebConnect
<1>2. CASE update_web_heartbeat(c)
  BY <1>2, Zenon DEF update_web_heartbeat
<1>3. ASSUME NEW n \in Nodes, NEW p \in Protocols, handle_web_open_tunnel(c, n, p)
      PROVE  WireTypeOK' /\ ServerTypeOK'
  <2>0. opens[c] \in 0 .. MaxOpen /\ opens[c] < MaxOpen /\ MaxOpen \in Nat
    BY <1>3, WireAssumption, Zenon DEF handle_web_open_tunnel
  <2>1. opens[c] + 1 \in Msgs /\ opens[c] + 1 \in 0 .. MaxOpen
    BY <2>0 DEF Msgs
  <2>4. opens' \in [Cids -> 0 .. MaxOpen]
    BY <1>3, <2>1, Zenon DEF handle_web_open_tunnel
  <2>2. inbox' \in [Cids -> SUBSET ClientFrame]
    BY <1>3, <2>1, FrameTypes DEF handle_web_open_tunnel, notify_client_by_cid
  <2>3. forward' \in [Cids -> SUBSET (Conns \X AgentFrame)]
    <3>1. OpenTunnel(c, p, opens[c] + 1) \in AgentFrame
      BY <2>1, FrameTypes, Zenon
    <3>2. \/ forward' = forward
          \/ nodes[n] # None /\ forward' = [forward EXCEPT ![c] = {<<nodes[n], OpenTunnel(c, p, opens[c] + 1)>>}]
      BY <1>3, Zenon DEF handle_web_open_tunnel
    <3>3. nodes[n] # None => {<<nodes[n], OpenTunnel(c, p, opens[c] + 1)>>} \in SUBSET (Conns \X AgentFrame)
      BY <3>1
    <3>. QED
      BY <3>2, <3>3, Zenon
  <2>. QED
    BY <1>3, <2>2, <2>3, <2>4, Zenon DEF handle_web_open_tunnel
<1>4. ASSUME NEW n \in Nodes, NEW s \in Sids, handle_web_session_request(c, n, s)
      PROVE  WireTypeOK' /\ ServerTypeOK'
  BY <1>4, FrameTypes, WireAssumption, SMTT(20) DEF handle_web_session_request
<1>5. CASE disconnect_web_client(c)
  BY <1>5, Zenon DEF disconnect_web_client
<1>6. CASE WebForward(c)
  <2>1. PICK k \in Conns, f \in AgentFrame : SendToNode(k, f)
    BY <1>6 DEF WebForward
  <2>2. toAgent' \in [Conns -> Seq(AgentFrame)]
    BY <2>1, SendTypes, Zenon
  <2>. QED
    BY <1>6, <2>2, Zenon DEF WebForward
<1>7. ASSUME NEW n \in Nodes, notify_nodes_client_disconnect(c, n)
      PROVE  WireTypeOK' /\ ServerTypeOK'
  <2>1. toAgent' \in [Conns -> Seq(AgentFrame)]
    BY <1>7, FrameTypes, SendTypes DEF notify_nodes_client_disconnect
  <2>. QED
    BY <1>7, <2>1, Zenon DEF notify_nodes_client_disconnect
<1>. QED
  BY <1>1, <1>2, <1>3, <1>4, <1>5, <1>6, <1>7, Zenon DEF WebClientStep

\* The next frame of a node's socket is a frame, of one of the awaited types.
LEMMA ReceivesTypes ==
  ASSUME WireTypeOK, NEW k \in Conns, NEW types, Receives(k, types)
  PROVE  /\ toServer' \in [Conns -> Seq(ServerFrame)]
         /\ Head(toServer[k]) \in ServerFrame
         /\ Head(toServer[k]).type \in types
BY QueueTypes, Zenon DEF WireTypeOK, Receives

\* Putting a notification on a client's channel keeps the inboxes well typed.
LEMMA NotifyTypes ==
  ASSUME WireTypeOK, NEW c \in Cids, NEW f \in ClientFrame, notify_client_by_cid(c, f)
  PROVE  inbox' \in [Cids -> SUBSET ClientFrame]
BY Zenon DEF WireTypeOK, notify_client_by_cid

\* A single pending notification is well typed.
LEMMA PendTypes ==
  ASSUME ServerTypeOK, NEW k \in Conns, NEW c \in Cids, NEW f \in ClientFrame
  PROVE  [pend EXCEPT ![k] = {<<c, f>>}] \in [Conns -> SUBSET (Cids \X ClientFrame)]
<1>1. {<<c, f>>} \in SUBSET (Cids \X ClientFrame)
  OBVIOUS
<1>. QED
  BY <1>1, Zenon DEF ServerTypeOK

\* Steps of a node task keep the server and the queues well typed.
LEMMA NodeTaskTypes ==
  ASSUME WireTypeOK, ServerTypeOK, NEW k \in Conns, NodeTaskStep(k)
  PROVE  WireTypeOK' /\ ServerTypeOK'
<1>. USE DEF WireTypeOK, ServerTypeOK, wireVars, nodeSide, webSide
<1>0. NodeOf(k) \in Nodes
  BY WireAssumption, Zenon DEF NodeOf
<1>1. CASE NodeAuth(k)
  BY <1>1, Zenon DEF NodeAuth
<1>2. CASE NodeReject(k)
  BY <1>2, Zenon DEF NodeReject
<1>3. CASE NodeRegister(k)
  <2>1. toAgent' \in [Conns -> Seq(AgentFrame)]
    BY <1>3, FrameTypes DEF NodeRegister
  <2>. QED
    BY <1>0, <1>3, <2>1, Zenon DEF NodeRegister
<1>4. CASE handle_node_heartbeat(k)
  <2>1. toServer' \in [Conns -> Seq(ServerFrame)]
    BY <1>4, ReceivesTypes, Zenon DEF handle_node_heartbeat
  <2>2. toAgent' \in [Conns -> Seq(AgentFrame)]
    BY <1>0, <1>4, SendTypes, FrameTypes, Zenon DEF handle_node_heartbeat
  <2>. QED
    BY <1>4, <2>1, <2>2, Zenon DEF handle_node_heartbeat
<1>5. CASE handle_tunnel_opened(k)
  <2>. DEFINE f == Head(toServer[k])
  <2>1. toServer' \in [Conns -> Seq(ServerFrame)] /\ f \in ServerFrame /\ f.type = "opened"
    BY <1>5, ReceivesTypes DEF handle_tunnel_opened
  <2>2. f.cid \in Cids /\ f.sid \in Sids /\ f.msg \in Msgs
    BY <2>1, FrameFields, Zenon
  <2>3. pend' \in [Conns -> SUBSET (Cids \X ClientFrame)]
    BY <1>0, <1>5, <2>2, FrameTypes, PendTypes, Zenon DEF handle_tunnel_opened
  <2>4. tunnel_sessions' \in [Nodes -> [Sids -> Cids \cup {None}]]
    BY <1>0, <1>5, <2>2, Zenon DEF handle_tunnel_opened
  <2>. QED
    BY <1>5, <2>1, <2>3, <2>4, Zenon DEF handle_tunnel_opened
<1>6. CASE handle_tunnel_closed(k)
  <2>. DEFINE f == Head(toServer[k])
  <2>1. toServer' \in [Conns -> Seq(ServerFrame)] /\ f \in ServerFrame /\ f.type = "closed"
    BY <1>6, ReceivesTypes DEF handle_tunnel_closed
  <2>2. f.cid \in Cids /\ f.sid \in Sids /\ f.msg \in Msgs
    BY <2>1, FrameFields, Zenon
  <2>3. pend' \in [Conns -> SUBSET (Cids \X ClientFrame)]
    BY <1>0, <1>6, <2>2, FrameTypes, PendTypes, Zenon DEF handle_tunnel_closed
  <2>4. tunnel_sessions' \in [Nodes -> [Sids -> Cids \cup {None}]]
    BY <1>0, <1>6, <2>2, Zenon DEF handle_tunnel_closed
  <2>. QED
    BY <1>6, <2>1, <2>3, <2>4, Zenon DEF handle_tunnel_closed
<1>7. CASE handle_frame_response(k)
  <2>. DEFINE f == Head(toServer[k])
              t == IF f.type = "data" THEN "data" ELSE "error"
              c == IF f.type = "refused" THEN f.cid ELSE get_connection_id_by_sid(f.sid, NodeOf(k))
  <2>1. /\ toServer' \in [Conns -> Seq(ServerFrame)]
        /\ f \in ServerFrame /\ f.type \in {"data", "error", "refused"}
    BY <1>7, ReceivesTypes, Zenon DEF handle_frame_response
  <2>2. f.cid \in Cids /\ f.sid \in Sids \cup {0} /\ f.msg \in Msgs
    BY <2>1, FrameFields, Zenon
  <2>3. c \in Cids \cup {None}
    BY <1>0, <2>1, <2>2, FrameFields DEF get_connection_id_by_sid
  <2>4. WebFrame(t, NodeOf(k), f.sid, f.cid, f.msg) \in ClientFrame
    BY <1>0, <2>2, FrameTypes, Zenon
  <2>5. pend' = IF c = None THEN pend
                ELSE [pend EXCEPT ![k] = {<<c, WebFrame(t, NodeOf(k), f.sid, f.cid, f.msg)>>}]
    BY <1>7, Zenon DEF handle_frame_response
  <2>6. pend' \in [Conns -> SUBSET (Cids \X ClientFrame)]
    BY <2>3, <2>4, <2>5, PendTypes, Zenon
  <2>. QED
    BY <1>7, <2>1, <2>6, Zenon DEF handle_frame_response
<1>8. CASE NodeNotify(k)
  <2>1. PICK c \in Cids, f \in ClientFrame : notify_client_by_cid(c, f)
    BY <1>8 DEF NodeNotify
  <2>2. inbox' \in [Cids -> SUBSET ClientFrame]
    BY <2>1, NotifyTypes, Zenon
  <2>. QED
    BY <1>8, <2>2, Zenon DEF NodeNotify
<1>9. CASE NodeReaderEnds(k)
  BY <1>9, Zenon DEF NodeReaderEnds
<1>10. CASE disconnect_node(k)
  <2>1. CASE nodes[NodeOf(k)] = None
    <3>1. Finish(k) /\ UNCHANGED <<nodes, stale, connections, tunnel_sessions, pend, sweep, webSide>>
      BY <1>10, <2>1, Zenon DEF disconnect_node
    <3>2. toServer' \in [Conns -> Seq(ServerFrame)]
      BY <3>1, QueueTypes, Zenon DEF Finish
    <3>. QED
      BY <3>1, <3>2, Zenon DEF Finish
  <2>2. CASE nodes[NodeOf(k)] # None
    BY <1>0, <1>10, <2>2, Zenon DEF disconnect_node
  <2>. QED
    BY <2>1, <2>2, Zenon
<1>11. CASE SessionsToClose(k)
  BY <1>11, Zenon DEF SessionsToClose
<1>12. CASE notify_all_clients_for_closed_tunnel(k)
  <2>0. PICK p \in sweep[k] :
          /\ tunnel_sessions' = [tunnel_sessions EXCEPT ![NodeOf(k)][p[1]] = None]
          /\ pend' = [pend EXCEPT ![k] = {<<p[2], WebFrame("closed", NodeOf(k), p[1], p[2], 0)>>}]
          /\ sweep' = [sweep EXCEPT ![k] = @ \ {p}]
    BY <1>12, Zenon DEF notify_all_clients_for_closed_tunnel
  <2>1. p[1] \in Sids /\ p[2] \in Cids
    BY <2>0
  <2>2. 0 \in Msgs
    BY WireAssumption DEF Msgs
  <2>3. pend' \in [Conns -> SUBSET (Cids \X ClientFrame)]
    BY <1>0, <2>0, <2>1, <2>2, FrameTypes, PendTypes, Zenon
  <2>4. tunnel_sessions' \in [Nodes -> [Sids -> Cids \cup {None}]]
    BY <1>0, <2>0, <2>1, Zenon
  <2>5. sweep' \in [Conns -> SUBSET (Sids \X Cids)]
    BY <2>0, Zenon
  <2>. QED
    BY <1>12, <2>3, <2>4, <2>5, Zenon DEF notify_all_clients_for_closed_tunnel
<1>13. CASE SweepDone(k)
  BY <1>13, QueueTypes, Zenon DEF SweepDone, Finish
<1>. QED
  BY <1>1, <1>2, <1>3, <1>4, <1>5, <1>6, <1>7, <1>8, <1>9, <1>10, <1>11, <1>12, <1>13, Zenon
     DEF NodeTaskStep

\* A session task in use belongs to a client and to a connection of its node,
\* and its id has been handed out by SESSION_ID.
TaskInv ==
  \A n \in Nodes, s \in Sids :
    LET t == task[n][s] IN
    t.pc # "free" => /\ t.cid \in Cids /\ t.conn \in Conns /\ ConnNode[t.conn] = n
                     /\ s < nextSid[n]

\* What shutdown() does to the session tasks of a node: cid, conn, proto, msg,
\* pc, fed and outs stay.
LEMMA StoppedTasks ==
  ASSUME AgentTypeOK, NEW n \in Nodes, NEW keys
  PROVE  /\ Stopped(n, keys) \in [Sids -> TaskState]
         /\ \A s \in Sids :
              /\ Stopped(n, keys)[s].pc = task[n][s].pc
              /\ Stopped(n, keys)[s].cid = task[n][s].cid
              /\ Stopped(n, keys)[s].conn = task[n][s].conn
              /\ Stopped(n, keys)[s].fed = task[n][s].fed
<1>1. ASSUME NEW s \in Sids
      PROVE  /\ Stopped(n, keys)[s] \in TaskState
             /\ Stopped(n, keys)[s].pc = task[n][s].pc
             /\ Stopped(n, keys)[s].cid = task[n][s].cid
             /\ Stopped(n, keys)[s].conn = task[n][s].conn
             /\ Stopped(n, keys)[s].fed = task[n][s].fed
  <2>1. task[n][s] \in TaskState
    BY Zenon DEF AgentTypeOK
  <2>2. Stopped(n, keys)[s] = task[n][s] \/ Stopped(n, keys)[s] = [task[n][s] EXCEPT !.stop = TRUE]
    BY Zenon DEF Stopped
  <2>. QED
    BY <2>1, <2>2, Zenon DEF TaskState
<1>. QED
  BY <1>1, Zenon DEF Stopped

\* A step leaves the state, client and connection of every session alone.
SameSessions ==
  \A m \in Nodes, u \in Sids : /\ task'[m][u].pc = task[m][u].pc
                               /\ task'[m][u].cid = task[m][u].cid
                               /\ task'[m][u].conn = task[m][u].conn

\* Such a step preserves TaskInv.
LEMMA TaskInvKept ==
  ASSUME TaskInv, SameSessions, nextSid' = nextSid
  PROVE  TaskInv'
BY DEF TaskInv, SameSessions

\* Shutting down some sessions of a node is such a step, and feeds none.
LEMMA StoppedStep ==
  ASSUME AgentTypeOK, NEW n \in Nodes, NEW keys,
         task' = [task EXCEPT ![n] = Stopped(n, keys)]
  PROVE  /\ task' \in [Nodes -> [Sids -> TaskState]]
         /\ SameSessions
         /\ \A m \in Nodes, u \in Sids : task'[m][u].fed = task[m][u].fed
<1>1. task \in [Nodes -> [Sids -> TaskState]]
  BY Zenon DEF AgentTypeOK
<1>2. \A m \in Nodes : task'[m] = IF m = n THEN Stopped(n, keys) ELSE task[m]
  BY <1>1, Zenon
<1>3. task' \in [Nodes -> [Sids -> TaskState]]
  BY <1>1, StoppedTasks, Zenon
<1>. QED
  BY <1>2, <1>3, StoppedTasks DEF SameSessions

\* Replacing one session task.
LEMMA TaskUpdate ==
  ASSUME NEW F \in [Nodes -> [Sids -> TaskState]], NEW n \in Nodes, NEW s \in Sids,
         NEW t \in TaskState
  PROVE  /\ [F EXCEPT ![n][s] = t] \in [Nodes -> [Sids -> TaskState]]
         /\ \A m \in Nodes, u \in Sids :
              [F EXCEPT ![n][s] = t][m][u] = IF m = n /\ u = s THEN t ELSE F[m][u]
BY Zenon

\* So is feeding a session of node n by a client.
LEMMA FedStep ==
  ASSUME AgentTypeOK, NEW n \in Nodes, NEW s \in Sids, NEW c \in Cids
  PROVE  task' = [task EXCEPT ![n][s].fed = @ \cup {c}] =>
           /\ task' \in [Nodes -> [Sids -> TaskState]]
           /\ SameSessions
           /\ \A m \in Nodes, u \in Sids :
                task'[m][u].fed = IF m = n /\ u = s THEN task[m][u].fed \cup {c} ELSE task[m][u].fed
<1>. DEFINE t == [task[n][s] EXCEPT !.fed = @ \cup {c}]
<1>1. SUFFICES ASSUME task' = [task EXCEPT ![n][s] = t]
      PROVE  /\ task' \in [Nodes -> [Sids -> TaskState]]
             /\ SameSessions
             /\ \A m \in Nodes, u \in Sids :
                  task'[m][u].fed = IF m = n /\ u = s THEN task[m][u].fed \cup {c} ELSE task[m][u].fed
  BY Zenon
<1>2. task \in [Nodes -> [Sids -> TaskState]] /\ task[n][s] \in TaskState
  BY Zenon DEF AgentTypeOK
<1>3. /\ t \in TaskState /\ t.pc = task[n][s].pc /\ t.cid = task[n][s].cid
      /\ t.conn = task[n][s].conn /\ t.fed = task[n][s].fed \cup {c}
  BY <1>2, Zenon DEF TaskState
<1>. HIDE DEF t
<1>4. /\ task' \in [Nodes -> [Sids -> TaskState]]
      /\ \A m \in Nodes, u \in Sids : task'[m][u] = IF m = n /\ u = s THEN t ELSE task[m][u]
  BY <1>1, <1>2, <1>3, Zenon
<1>. QED
  BY <1>3, <1>4, Zenon DEF SameSessions

\* The head of an agent's socket is a frame of the awaited type.
LEMMA HandlesTypes ==
  ASSUME WireTypeOK, NEW k \in Conns, NEW type, Handles(k, type)
  PROVE  /\ toAgent' \in [Conns -> Seq(AgentFrame)]
         /\ Head(toAgent[k]) \in AgentFrame
         /\ Head(toAgent[k]).type = type
BY QueueTypes, Zenon DEF WireTypeOK, Handles

\* Steps of an agent's connection tasks keep its state and the queues well
\* typed.
LEMMA ConnTypes ==
  ASSUME WireTypeOK, AgentTypeOK, TaskInv, NEW k \in Conns,
         Connect(k) \/ AgentReaderStep(k) \/ HeartbeatTick(k) \/ HeartbeatTimeout(k)
  PROVE  WireTypeOK' /\ AgentTypeOK' /\ TaskInv'
<1>. USE DEF WireTypeOK, AgentTypeOK, wireVars, agentVars
<1>0. ConnNode[k] \in Nodes
  BY WireAssumption, Zenon
<1>1. CASE Connect(k)
  BY <1>1, Zenon DEF Connect, TaskInv
<1>2. CASE AuthAccepted(k)
  <2>1. toAgent' \in [Conns -> Seq(AgentFrame)]
    BY <1>2, QueueTypes, Zenon DEF AuthAccepted
  <2>. QED
    BY <1>2, <2>1, Zenon DEF AuthAccepted, TaskInv
<1>3. CASE OpenSession(k)
  <2>. DEFINE n == ConnNode[k]
              s == nextSid[n]
              f == Head(toAgent[k])
              new == NewTask(k, f)
  <2>1. /\ toAgent' \in [Conns -> Seq(AgentFrame)]
        /\ f \in AgentFrame /\ f.type = "open"
    BY <1>3, HandlesTypes, Zenon DEF OpenSession
  <2>2. f.cid \in Cids /\ f.proto \in Protocols /\ f.msg \in Msgs
    BY <2>1, FrameFields, Zenon
  <2>3. /\ new \in TaskState
        /\ new.pc = "spawned" /\ new.cid = f.cid /\ new.conn = k
    <3>1. 0 \in 0 .. MaxOut
      BY AgentAssumption
    <3>. QED
      BY <2>2, <3>1, Zenon DEF NewTask, TaskState
  <2>4. /\ s \in Sids
        /\ nextSid' = [nextSid EXCEPT ![n] = s + 1]
        /\ task' = [task EXCEPT ![n][s] = new]
        /\ sessions' = [sessions EXCEPT ![k] = @ \cup {<<f.cid, s>>}]
    BY <1>3, Zenon DEF OpenSession
  <2>5. nextSid' \in [Nodes -> 1 .. MaxSid + 1]
    <3>1. s + 1 \in 1 .. MaxSid + 1
      BY <2>4, WireAssumption DEF Sids
    <3>. QED
      BY <2>4, <3>1, Zenon
  <2>6. task' \in [Nodes -> [Sids -> TaskState]]
    BY <1>0, <2>3, <2>4, Zenon
  <2>7. sessions' \in [Conns -> SUBSET (Cids \X Sids)]
    BY <2>2, <2>4
  <2>8. TaskInv'
    <3>. SUFFICES ASSUME NEW m \in Nodes, NEW u \in Sids, task'[m][u].pc # "free"
                  PROVE  /\ task'[m][u].cid \in Cids /\ task'[m][u].conn \in Conns
                         /\ ConnNode[task'[m][u].conn] = m /\ u < nextSid'[m]
      BY Zenon DEF TaskInv
    <3>1. CASE m = n /\ u = s
      BY <1>0, <2>2, <2>3, <2>4, <3>1, WireAssumption, SMTT(20) DEF Sids
    <3>2. CASE ~ (m = n /\ u = s)
      <4>1. task'[m][u] = task[m][u] /\ nextSid'[m] >= nextSid[m]
        BY <1>0, <2>4, <3>2 DEF Sids
      <4>. QED
        BY <4>1, <2>5, WireAssumption, SMTT(20) DEF TaskInv, Sids
    <3>. QED
      BY <3>1, <3>2, Zenon
  <2>. QED
    BY <1>3, <2>1, <2>5, <2>6, <2>7, <2>8, Zenon DEF OpenSession
<1>4. CASE ensure_credentials(k)
  <2>. DEFINE f == Head(toAgent[k])
  <2>1. /\ toAgent' \in [Conns -> Seq(AgentFrame)]
        /\ f \in AgentFrame /\ f.type = "open"
    BY <1>4, HandlesTypes, Zenon DEF ensure_credentials
  <2>2. NodeFrame("refused", f.cid, 0, f.msg) \in ServerFrame
    BY <2>1, FrameFields, FrameTypes, Zenon
  <2>3. send_frame_data(k, NodeFrame("refused", f.cid, 0, f.msg))
    BY <1>4, Zenon DEF ensure_credentials
  <2>4. toServer' \in [Conns -> Seq(ServerFrame)]
    BY <2>2, <2>3, SendTypes, Zenon
  <2>. QED
    BY <1>4, <2>1, <2>4, Zenon DEF ensure_credentials, TaskInv
<1>5. CASE HandleHeartbeatAck(k)
  <2>1. toAgent' \in [Conns -> Seq(AgentFrame)]
    BY <1>5, HandlesTypes, Zenon DEF HandleHeartbeatAck
  <2>. QED
    BY <1>5, <2>1, Zenon DEF HandleHeartbeatAck, TaskInv
<1>6. CASE close_tunnels_for_cid(k)
  <2>. DEFINE keys == {p \in sessions[k] : p[1] = Head(toAgent[k]).cid}
  <2>1. toAgent' \in [Conns -> Seq(AgentFrame)]
    BY <1>6, HandlesTypes, Zenon DEF close_tunnels_for_cid
  <2>2. /\ sessions' = [sessions EXCEPT ![k] = @ \ keys]
        /\ task' = [task EXCEPT ![ConnNode[k]] = Stopped(ConnNode[k], keys)]
    BY <1>6, Zenon DEF close_tunnels_for_cid
  <2>3. task' \in [Nodes -> [Sids -> TaskState]] /\ SameSessions
    BY <1>0, <2>2, StoppedStep, Zenon
  <2>4. sessions' \in [Conns -> SUBSET (Cids \X Sids)]
    BY <2>2, Zenon
  <2>5. TaskInv'
    <3>1. nextSid' = nextSid
      BY <1>6, Zenon DEF close_tunnels_for_cid
    <3>. QED
      BY <2>3, <3>1, TaskInvKept, Zenon
  <2>. QED
    BY <1>6, <2>1, <2>3, <2>4, <2>5, Zenon DEF close_tunnels_for_cid
<1>7. CASE FeedSession(k)
  <2>. DEFINE n == ConnNode[k]
              f == Head(toAgent[k])
  <2>1. /\ toAgent' \in [Conns -> Seq(AgentFrame)]
        /\ f \in AgentFrame /\ f.type = "request"
    BY <1>7, HandlesTypes, Zenon DEF FeedSession
  <2>2. f.cid \in Cids /\ f.sid \in Sids
    BY <2>1, FrameFields, Zenon
  <2>3. /\ UNCHANGED <<link, toServer, inbox, agentTask, acked, sessions, nextSid>>
        /\ task' = task \/ task' = [task EXCEPT ![n][f.sid].fed = @ \cup {f.cid}]
    BY <1>7, Zenon DEF FeedSession
  <2>. HIDE DEF f
  <2>4. task' \in [Nodes -> [Sids -> TaskState]] /\ SameSessions
    <3>1. task' = task => SameSessions
      BY Zenon DEF SameSessions
    <3>. QED
      BY <1>0, <2>2, <2>3, <3>1, FedStep, Zenon
  <2>5. TaskInv'
    BY <2>3, <2>4, TaskInvKept, Zenon
  <2>. QED
    BY <2>1, <2>3, <2>4, <2>5, Zenon
<1>8. CASE ReaderEnds(k) \/ HeartbeatTimeout(k)
  <2>1. toAgent' \in [Conns -> Seq(AgentFrame)]
    <3>1. toAgent' = toAgent \/ toAgent' = [toAgent EXCEPT ![k] = <<>>]
      BY <1>8, Zenon DEF ReaderEnds, HeartbeatTimeout
    <3>2. [toAgent EXCEPT ![k] = <<>>] \in [Conns -> Seq(AgentFrame)]
      BY QueueTypes, Zenon
    <3>. QED
      BY <3>1, <3>2, Zenon
  <2>2. /\ sessions' = [sessions EXCEPT ![k] = {}]
        /\ task' = [task EXCEPT ![ConnNode[k]] = Stopped(ConnNode[k], sessions[k])]
    BY <1>8, Zenon DEF ReaderEnds, HeartbeatTimeout, CloseAll
  <2>3. task' \in [Nodes -> [Sids -> TaskState]] /\ SameSessions
    BY <1>0, <2>2, StoppedStep, Zenon
  <2>4. TaskInv'
    <3>1. nextSid' = nextSid
      BY <1>8, Zenon DEF ReaderEnds, HeartbeatTimeout
    <3>. QED
      BY <2>3, <3>1, TaskInvKept, Zenon
  <2>. QED
    BY <1>8, <2>1, <2>2, <2>3, <2>4, Zenon DEF ReaderEnds, HeartbeatTimeout
<1>9. CASE HeartbeatTick(k)
  <2>1. toServer' \in [Conns -> Seq(ServerFrame)]
    BY <1>9, FrameTypes, SendTypes, Zenon DEF HeartbeatTick
  <2>. QED
    BY <1>9, <2>1, Zenon DEF HeartbeatTick, TaskInv
<1>. QED
  BY <1>1, <1>2, <1>3, <1>4, <1>5, <1>6, <1>7, <1>8, <1>9, Zenon DEF AgentReaderStep

\* A session task that moves on keeps its client and its connection.
LEMMA SessionGoesTask ==
  ASSUME AgentTypeOK, NEW n \in Nodes, NEW s \in Sids,
         NEW pc \in {"connecting", "open", "closing", "done"}, SessionGoes(n, s, pc)
  PROVE  /\ task' \in [Nodes -> [Sids -> TaskState]]
         /\ \A m \in Nodes, u \in Sids :
              /\ task'[m][u].cid = task[m][u].cid
              /\ task'[m][u].conn = task[m][u].conn
              /\ task'[m][u].pc = IF m = n /\ u = s THEN pc ELSE task[m][u].pc
              /\ task'[m][u].fed \subseteq task[m][u].fed
<1>. DEFINE t == IF pc = "done"
                 THEN [task[n][s] EXCEPT !.pc = pc, !.stop = FALSE, !.fed = {}, !.outs = 0]
                 ELSE [task[n][s] EXCEPT !.pc = pc]
<1>1. task \in [Nodes -> [Sids -> TaskState]] /\ task[n][s] \in TaskState
  BY Zenon DEF AgentTypeOK
<1>2. task' = [task EXCEPT ![n][s] = t]
  BY Zenon DEF SessionGoes
<1>3. /\ t \in TaskState
      /\ t.cid = task[n][s].cid /\ t.conn = task[n][s].conn
      /\ t.pc = pc /\ t.fed \subseteq task[n][s].fed
  <2>1. 0 \in 0 .. MaxOut
    BY AgentAssumption
  <2>2. CASE pc = "done"
    BY <1>1, <2>1, <2>2, Zenon DEF TaskState
  <2>3. CASE pc # "done"
    BY <1>1, <2>3, Zenon DEF TaskState
  <2>. QED
    BY <2>2, <2>3, Zenon
<1>. HIDE DEF t
<1>4. /\ task' \in [Nodes -> [Sids -> TaskState]]
      /\ \A m \in Nodes, u \in Sids : task'[m][u] = IF m = n /\ u = s THEN t ELSE task[m][u]
  <2>. DEFINE F == [task EXCEPT ![n][s] = t]
  <2>1. /\ F \in [Nodes -> [Sids -> TaskState]]
        /\ \A m \in Nodes, u \in Sids : F[m][u] = IF m = n /\ u = s THEN t ELSE task[m][u]
    BY <1>1, <1>3, TaskUpdate
  <2>. HIDE DEF F
  <2>2. task' = F
    BY <1>2, Zenon DEF F
  <2>. QED
    BY <2>1, <2>2, Zenon
<1>5. ASSUME NEW m \in Nodes, NEW u \in Sids
      PROVE  /\ task'[m][u].cid = task[m][u].cid
             /\ task'[m][u].conn = task[m][u].conn
             /\ task'[m][u].pc = IF m = n /\ u = s THEN pc ELSE task[m][u].pc
             /\ task'[m][u].fed \subseteq task[m][u].fed
  <2>1. CASE m = n /\ u = s
    BY <1>3, <1>4, <2>1, Zenon
  <2>2. CASE ~(m = n /\ u = s)
    BY <1>4, <2>2, Zenon
  <2>. QED
    BY <2>1, <2>2, Zenon
<1>. QED
  BY <1>4, <1>5, Zenon

\* A frame of a live session is a frame of its client, on a real connection.
LEMMA EmitTypes ==
  ASSUME WireTypeOK, AgentTypeOK, TaskInv, NEW n \in Nodes, NEW s \in Sids,
         NEW type \in {"opened", "closed", "data", "error"},
         task[n][s].pc # "free", Emit(n, s, type)
  PROVE  toServer' \in [Conns -> Seq(ServerFrame)]
<1>. DEFINE t == task[n][s]
<1>1. t \in TaskState /\ t.msg \in Msgs
  BY DEF AgentTypeOK, TaskState
<1>2. t.cid \in Cids /\ t.conn \in Conns
  BY Zenon DEF TaskInv
<1>3. NodeFrame(type, t.cid, s, t.msg) \in ServerFrame
  BY <1>1, <1>2, FrameTypes, Zenon
<1>4. send_frame_data(t.conn, NodeFrame(type, t.cid, s, t.msg))
  BY Zenon DEF Emit
<1>. HIDE DEF t
<1>. QED
  BY <1>2, <1>3, <1>4, SendTypes, Zenon

\* Steps of the session tasks keep the agent and the queues well typed.
LEMMA SessionTypes ==
  ASSUME WireTypeOK, AgentTypeOK, TaskInv, NEW n \in Nodes, NEW s \in Sids,
         SessionProgress(n, s) \/ SessionOutput(n, s) \/ ShellEnds(n, s)
  PROVE  WireTypeOK' /\ AgentTypeOK' /\ TaskInv'
<1>1. ASSUME NEW pc \in {"connecting", "open", "closing", "done"}, SessionGoes(n, s, pc),
             task[n][s].pc # "free",
             \/ UNCHANGED toServer
             \/ \E type \in {"opened", "closed", "data", "error"} : Emit(n, s, type)
      PROVE  WireTypeOK' /\ AgentTypeOK' /\ TaskInv'
  <2>1. toServer' \in [Conns -> Seq(ServerFrame)]
    BY <1>1, EmitTypes, Zenon DEF WireTypeOK
  <2>2. AgentTypeOK'
    BY <1>1, SessionGoesTask, Zenon DEF SessionGoes, AgentTypeOK
  <2>3. TaskInv'
    <3>1. nextSid' = nextSid
      BY <1>1, Zenon DEF SessionGoes
    <3>2. AgentTypeOK /\ SessionGoes(n, s, pc) /\ task[n][s].pc # "free"
      BY <1>1, Zenon
    <3>3. ASSUME NEW m \in Nodes, NEW u \in Sids
          PROVE  /\ task'[m][u].cid = task[m][u].cid
                 /\ task'[m][u].conn = task[m][u].conn
                 /\ task'[m][u].pc # "free" => task[m][u].pc # "free"
      <4>1. task'[m][u].cid = task[m][u].cid /\ task'[m][u].conn = task[m][u].conn
        BY <3>2, SessionGoesTask
      <4>2. task'[m][u].pc = IF m = n /\ u = s THEN pc ELSE task[m][u].pc
        BY <3>2, SessionGoesTask
      <4>. QED
        BY <3>2, <4>1, <4>2, Zenon
    <3>. QED
      BY <3>1, <3>3 DEF TaskInv
  <2>. QED
    BY <1>1, <2>1, <2>2, <2>3, Zenon DEF WireTypeOK, SessionGoes
<1>2. CASE SessionProgress(n, s) \/ ShellEnds(n, s)
  <2>1. task[n][s].pc # "free"
    BY <1>2, Zenon DEF SessionProgress, SshConnected, SftpAnnounced, SftpConnected,
       ConnectFails,
                SessionStops, ShellEnds, SessionClosed, DisconnectFails, At
  <2>2. CASE SshConnected(n, s)
    BY <1>1, <2>1, <2>2, Zenon DEF SshConnected
  <2>3. CASE SftpAnnounced(n, s)
    BY <1>1, <2>1, <2>3, Zenon DEF SftpAnnounced
  <2>4. CASE SftpConnected(n, s)
    BY <1>1, <2>1, <2>4, Zenon DEF SftpConnected
  <2>5. CASE ConnectFails(n, s)
    BY <1>1, <2>1, <2>5, Zenon DEF ConnectFails
  <2>6. CASE SessionStops(n, s) \/ ShellEnds(n, s)
    BY <1>1, <2>1, <2>6, Zenon DEF SessionStops, ShellEnds
  <2>7. CASE SessionClosed(n, s)
    BY <1>1, <2>1, <2>7, Zenon DEF SessionClosed
  <2>8. CASE DisconnectFails(n, s)
    BY <1>1, <2>1, <2>8, Zenon DEF DisconnectFails
  <2>. QED
    BY <1>2, <2>2, <2>3, <2>4, <2>5, <2>6, <2>7, <2>8, Zenon DEF SessionProgress
<1>3. CASE SessionOutput(n, s)
  <2>. DEFINE t == [task[n][s] EXCEPT !.outs = @ + 1]
  <2>1. task \in [Nodes -> [Sids -> TaskState]] /\ task[n][s] \in TaskState
    BY Zenon DEF AgentTypeOK
  <2>2. /\ task' = [task EXCEPT ![n][s] = t]
        /\ task[n][s].pc = "open" /\ task[n][s].outs < MaxOut
        /\ Emit(n, s, "data")
    BY <1>3, Zenon DEF SessionOutput, At
  <2>3. t \in TaskState /\ t.pc = "open" /\ t.cid = task[n][s].cid /\ t.conn = task[n][s].conn
    <3>1. task[n][s].outs + 1 \in 0 .. MaxOut
      BY <2>1, <2>2, AgentAssumption DEF TaskState
    <3>. QED
      BY <2>1, <2>2, <3>1, Zenon DEF TaskState
  <2>. HIDE DEF t
  <2>4. /\ task' \in [Nodes -> [Sids -> TaskState]]
        /\ \A m \in Nodes, u \in Sids : /\ task'[m][u].cid = task[m][u].cid
                                        /\ task'[m][u].conn = task[m][u].conn
                                        /\ task'[m][u].pc = task[m][u].pc
    BY <2>1, <2>2, <2>3, TaskUpdate
  <2>5. toServer' \in [Conns -> Seq(ServerFrame)]
    BY <2>2, EmitTypes, Zenon
  <2>6. TaskInv'
    BY <1>3, <2>4 DEF TaskInv, SessionOutput
  <2>. QED
    BY <1>3, <2>4, <2>5, <2>6, Zenon DEF SessionOutput, WireTypeOK, AgentTypeOK
<1>. QED
  BY <1>2, <1>3, Zenon

\* No step of a session task changes whose it is or feeds it, and a session
\* that has announced itself does not do so again.
LEMMA SessionKeepsTask ==
  ASSUME AgentTypeOK, NEW n \in Nodes, NEW s \in Sids,
         SessionProgress(n, s) \/ SessionOutput(n, s) \/ ShellEnds(n, s)
  PROVE  \A m \in Nodes, u \in Sids :
           /\ task'[m][u].cid = task[m][u].cid
           /\ task'[m][u].conn = task[m][u].conn
           /\ task'[m][u].pc = "spawned" => task[m][u].pc = "spawned"
           /\ task'[m][u].fed \subseteq task[m][u].fed
<1>1. CASE SessionProgress(n, s) \/ ShellEnds(n, s)
  <2>1. PICK pc \in {"connecting", "open", "closing", "done"} : SessionGoes(n, s, pc)
    BY <1>1, Zenon DEF SessionProgress, SshConnected, SftpAnnounced, SftpConnected,
       ConnectFails,
                SessionStops, ShellEnds, SessionClosed, DisconnectFails
  <2>2. SessionGoes(n, s, pc) /\ pc # "spawned"
    BY <2>1, Zenon
  <2>3. ASSUME NEW m \in Nodes, NEW u \in Sids
        PROVE  /\ task'[m][u].cid = task[m][u].cid
               /\ task'[m][u].conn = task[m][u].conn
               /\ task'[m][u].pc = "spawned" => task[m][u].pc = "spawned"
               /\ task'[m][u].fed \subseteq task[m][u].fed
    <3>1. task'[m][u].cid = task[m][u].cid /\ task'[m][u].conn = task[m][u].conn
      BY <2>2, SessionGoesTask
    <3>2. task'[m][u].pc = IF m = n /\ u = s THEN pc ELSE task[m][u].pc
      BY <2>2, SessionGoesTask
    <3>3. task'[m][u].fed \subseteq task[m][u].fed
      BY <2>2, SessionGoesTask
    <3>. QED
      BY <2>2, <3>1, <3>2, <3>3, Zenon
  <2>. QED
    BY <2>3, Zenon
<1>2. CASE SessionOutput(n, s)
  <2>. DEFINE t == [task[n][s] EXCEPT !.outs = @ + 1]
  <2>1. task \in [Nodes -> [Sids -> TaskState]] /\ task[n][s] \in TaskState
    BY Zenon DEF AgentTypeOK
  <2>2. task' = [task EXCEPT ![n][s] = t]
    BY <1>2, Zenon DEF SessionOutput
  <2>3. /\ t.cid = task[n][s].cid /\ t.fed = task[n][s].fed
        /\ t.conn = task[n][s].conn /\ t.pc = task[n][s].pc
    BY <2>1, Zenon DEF TaskState
  <2>. HIDE DEF t
  <2>4. \A m \in Nodes, u \in Sids : task'[m][u] = IF m = n /\ u = s THEN t ELSE task[m][u]
    BY <2>1, <2>2, Zenon
  <2>. QED
    BY <2>3, <2>4, Zenon
<1>. QED
  BY <1>1, <1>2, Zenon

\* A restart of an agent process keeps the agent and the queues well typed.
LEMMA RestartTypes ==
  ASSUME WireTypeOK, AgentTypeOK, TaskInv, NEW n \in Nodes, ProcessRestart(n)
  PROVE  WireTypeOK' /\ AgentTypeOK' /\ TaskInv'
<1>. USE DEF WireTypeOK, AgentTypeOK
<1>1. NoTask \in TaskState /\ NoTask.pc = "free"
  <2>1. 0 \in 0 .. MaxOut /\ 0 \in Msgs
    BY AgentAssumption, WireAssumption DEF Msgs
  <2>. QED
    BY <2>1, Zenon DEF NoTask, TaskState
<1>. HIDE DEF NoTask
<1>2. task' \in [Nodes -> [Sids -> TaskState]]
  BY <1>1, Zenon DEF ProcessRestart
<1>3. nextSid' \in [Nodes -> 1 .. MaxSid + 1]
  <2>1. 1 \in 1 .. MaxSid + 1
    BY WireAssumption
  <2>. QED
    BY <2>1, Zenon DEF ProcessRestart
<1>4. /\ agentTask' \in [Conns -> {"none", "auth", "active", "detached", "done"}]
      /\ link' \in [Conns -> {"none", "up", "down"}]
      /\ sessions' \in [Conns -> SUBSET (Cids \X Sids)]
  BY Zenon DEF ProcessRestart
<1>5. toAgent' \in [Conns -> Seq(AgentFrame)]
  BY DEF ProcessRestart
<1>6. TaskInv'
  BY <1>1, <1>3, Zenon DEF ProcessRestart, TaskInv
<1>. QED
  BY <1>2, <1>3, <1>4, <1>5, <1>6, Zenon DEF ProcessRestart

\* The inductive strengthening of TypeOK.
TypeInv == TypeOK /\ TaskInv

\* TypeInv holds initially.
LEMMA TypeInit == Init => TypeInv
<1>. SUFFICES ASSUME Init PROVE TypeInv
  BY Zenon
<1>. USE DEF Init, WireInit, ServerInit, AgentInit
<1>1. WireTypeOK
  BY DEF WireTypeOK
<1>2. ServerTypeOK
  <2>1. 0 \in 0 .. MaxOpen /\ 0 \in 0 .. MaxRequests
    BY WireAssumption
  <2>. QED
    BY <2>1, Zenon DEF ServerTypeOK
<1>3. AgentTypeOK /\ TaskInv
  <2>1. 0 \in 0 .. MaxOut /\ 0 \in Msgs /\ 1 \in 1 .. MaxSid + 1
    BY AgentAssumption, WireAssumption DEF Msgs
  <2>2. NoTask \in TaskState /\ NoTask.pc = "free"
    BY <2>1, Zenon DEF NoTask, TaskState
  <2>. QED
    BY <2>1, <2>2, Zenon DEF AgentTypeOK, TaskInv
<1>4. faults \in [FaultKinds -> Nat] /\ restarts \in [Nodes -> Nat]
  BY Zenon
<1>. QED
  BY <1>1, <1>2, <1>3, <1>4, Zenon DEF TypeInv, TypeOK

\* Every step preserves TypeInv.
LEMMA TypeStep == TypeInv /\ [Next]_vars => TypeInv'
<1>. SUFFICES ASSUME TypeInv, [Next]_vars PROVE TypeInv'
  BY Zenon
<1>0. /\ WireTypeOK /\ ServerTypeOK /\ AgentTypeOK /\ TaskInv
      /\ faults \in [FaultKinds -> Nat] /\ restarts \in [Nodes -> Nat]
  BY Zenon DEF TypeInv, TypeOK
<1>1. UNCHANGED serverVars => (ServerTypeOK => ServerTypeOK')
  BY Zenon DEF serverVars, ServerTypeOK
<1>2. UNCHANGED agentVars => (AgentTypeOK /\ TaskInv => AgentTypeOK' /\ TaskInv')
  BY Zenon DEF agentVars, AgentTypeOK, TaskInv
<1>3. CASE ServerStep /\ UNCHANGED <<agentVars, faultVars>>
  <2>1. WireTypeOK' /\ ServerTypeOK'
    <3>1. CASE \E c \in Cids : \/ WebClientStep(c) \/ WebForward(c)
                               \/ \E n \in Nodes : notify_nodes_client_disconnect(c, n)
      BY <1>0, <3>1, WebTypes, Zenon
    <3>2. CASE \E k \in Conns : NodeTaskStep(k)
      BY <1>0, <3>2, NodeTaskTypes, Zenon
    <3>3. CASE cleanup_dangling_connections
      BY <1>0, <3>3, Zenon DEF cleanup_dangling_connections, WireTypeOK, ServerTypeOK,
                        wireVars, nodeSide, webSide
    <3>. QED
      BY <1>3, <3>1, <3>2, <3>3, Zenon DEF ServerStep
  <2>. QED
    BY <1>0, <1>2, <1>3, <2>1, Zenon DEF TypeInv, TypeOK, faultVars
<1>4. CASE AgentStep /\ UNCHANGED <<serverVars, faultVars>>
  <2>1. WireTypeOK' /\ AgentTypeOK' /\ TaskInv'
    <3>1. CASE \E k \in Conns : Connect(k) \/ AgentReaderStep(k) \/ HeartbeatTick(k)
      BY <1>0, <3>1, ConnTypes, Zenon
    <3>2. CASE \E n \in Nodes, s \in Sids :
                 SessionProgress(n, s) \/ SessionOutput(n, s) \/ ShellEnds(n, s)
      BY <1>0, <3>2, SessionTypes, Zenon
    <3>. QED
      BY <1>4, <3>1, <3>2, Zenon DEF AgentStep
  <2>. QED
    BY <1>0, <1>1, <1>4, <2>1, Zenon DEF TypeInv, TypeOK, faultVars
<1>5. CASE LinkFault
  <2>1. WireTypeOK' /\ UNCHANGED <<serverVars, agentVars, restarts>> /\ Strikes("break")
    BY <1>0, <1>5, Zenon DEF LinkFault, LinkFails, WireTypeOK, Strikes
  <2>2. faults' \in [FaultKinds -> Nat]
    BY <1>0, <2>1 DEF Strikes, FaultKinds
  <2>. QED
    BY <1>0, <1>1, <1>2, <2>1, <2>2, Zenon DEF TypeInv, TypeOK
<1>6. CASE LapseFault
  <2>1. PICK x \in Nodes \cup Cids : HeartbeatLapses(x) /\ Strikes("lapse") /\ UNCHANGED agentVars
    BY <1>6, Zenon DEF LapseFault
  <2>2. WireTypeOK' /\ ServerTypeOK'
    BY <1>0, <2>1, Zenon DEF HeartbeatLapses, WireTypeOK, ServerTypeOK, wireVars, nodeSide,
       webSide
  <2>3. faults' \in [FaultKinds -> Nat] /\ UNCHANGED restarts
    BY <1>0, <2>1 DEF Strikes, FaultKinds
  <2>. QED
    BY <1>0, <1>2, <2>1, <2>2, <2>3, Zenon DEF TypeInv, TypeOK
<1>7. CASE TimeoutFault
  <2>1. PICK k \in Conns : HeartbeatTimeout(k) /\ Strikes("timeout") /\ UNCHANGED serverVars
    BY <1>7, Zenon DEF TimeoutFault
  <2>2. WireTypeOK' /\ AgentTypeOK' /\ TaskInv'
    BY <1>0, <2>1, ConnTypes, Zenon
  <2>3. faults' \in [FaultKinds -> Nat] /\ UNCHANGED restarts
    BY <1>0, <2>1 DEF Strikes, FaultKinds
  <2>. QED
    BY <1>0, <1>1, <2>1, <2>2, <2>3, Zenon DEF TypeInv, TypeOK
<1>8. CASE RestartFault
  <2>1. PICK n \in Nodes : /\ restarts' = [restarts EXCEPT ![n] = @ + 1]
                           /\ ProcessRestart(n) /\ UNCHANGED <<faults, serverVars>>
    BY <1>8, Zenon DEF RestartFault
  <2>2. WireTypeOK' /\ AgentTypeOK' /\ TaskInv'
    BY <1>0, <2>1, RestartTypes, Zenon
  <2>3. restarts' \in [Nodes -> Nat]
    BY <1>0, <2>1
  <2>. QED
    BY <1>0, <1>1, <2>1, <2>2, <2>3, Zenon DEF TypeInv, TypeOK
<1>9. CASE UNCHANGED vars
  BY <1>0, <1>1, <1>2, <1>9, Zenon DEF vars, TypeInv, TypeOK, WireTypeOK, wireVars, faultVars
<1>. QED
  BY <1>3, <1>4, <1>5, <1>6, <1>7, <1>8, <1>9, Zenon DEF Next

\* The registries, queues and task states of the relay are well formed in
\* every reachable state: every frame ever queued is of a kind its receiver
\* handles, and a frame of a session goes to a real connection.
THEOREM TypeCorrect == Spec => []TypeOK
<1>1. TypeInv => TypeOK
  BY Zenon DEF TypeInv
<1>. QED
  BY <1>1, TypeInit, TypeStep, PTL DEF Spec

-----------------------------------------------------------------------------
(* Input.                                                                  *)

\* A handle in a connection's sessions map is for the client of the session
\* task that has its id; connections not yet dialled have no handles.
KeyInv ==
  \A k \in Conns :
    /\ agentTask[k] = "none" => sessions[k] = {}
    /\ \A p \in sessions[k] : /\ p[2] < nextSid[ConnNode[k]]
                              /\ task[ConnNode[k]][p[2]].cid = p[1]

\* The inductive strengthening of InputIsolation.
InputInv == TypeInv /\ KeyInv /\ InputIsolation

\* A step that only removes handles, and neither hands out session ids nor
\* feeds a session nor changes whose it is, preserves InputInv's parts.
LEMMA InputKept ==
  ASSUME TypeInv, KeyInv, InputIsolation,
         nextSid' = nextSid,
         \A k \in Conns : /\ sessions'[k] \subseteq sessions[k]
                          /\ agentTask'[k] = "none" => agentTask[k] = "none",
         \A n \in Nodes, s \in Sids : /\ task'[n][s].cid = task[n][s].cid
                                      /\ task'[n][s].fed \subseteq task[n][s].fed
  PROVE  KeyInv' /\ InputIsolation'
<1>1. InputIsolation'
  BY Zenon DEF InputIsolation
<1>2. \A k \in Conns : ConnNode[k] \in Nodes /\ \A p \in sessions[k] : p[2] \in Sids
  BY WireAssumption DEF TypeInv, TypeOK, AgentTypeOK
<1>3. KeyInv'
  BY <1>2 DEF KeyInv
<1>. QED
  BY <1>1, <1>3, Zenon

\* Every step preserves InputInv.
LEMMA InputStep == InputInv /\ [Next]_vars => InputInv'
<1>. SUFFICES ASSUME InputInv, [Next]_vars PROVE KeyInv' /\ InputIsolation'
  BY TypeStep, Zenon DEF InputInv
<1>0. /\ TypeInv /\ KeyInv /\ InputIsolation
      /\ WireTypeOK /\ AgentTypeOK
  BY Zenon DEF InputInv, TypeInv, TypeOK
<1>1. CASE UNCHANGED agentVars
  BY <1>0, <1>1, InputKept, Zenon DEF agentVars
<1>2. ASSUME NEW k \in Conns, Connect(k) \/ AuthAccepted(k) \/ HandleHeartbeatAck(k)
      PROVE  KeyInv' /\ InputIsolation'
  <2>1. /\ UNCHANGED <<sessions, task, nextSid>>
        /\ \A j \in Conns : agentTask'[j] = "none" => agentTask[j] = "none"
    BY <1>0, <1>2, Zenon DEF Connect, AuthAccepted, HandleHeartbeatAck, AgentTypeOK
  <2>. QED
    BY <1>0, <2>1, InputKept, Zenon
<1>3. ASSUME NEW k \in Conns, close_tunnels_for_cid(k) \/ ReaderEnds(k) \/ HeartbeatTimeout(k)
      PROVE  KeyInv' /\ InputIsolation'
  <2>0. ConnNode[k] \in Nodes
    BY WireAssumption, Zenon
  <2>1. PICK keys : task' = [task EXCEPT ![ConnNode[k]] = Stopped(ConnNode[k], keys)]
    BY <1>3, Zenon DEF close_tunnels_for_cid, ReaderEnds, HeartbeatTimeout, CloseAll
  <2>2. /\ nextSid' = nextSid
        /\ \A j \in Conns : sessions'[j] \subseteq sessions[j]
    BY <1>0, <1>3 DEF close_tunnels_for_cid, ReaderEnds, HeartbeatTimeout, CloseAll, AgentTypeOK
  <2>3. \A j \in Conns : agentTask'[j] = "none" => agentTask[j] = "none"
    BY <1>0, <1>3, Zenon DEF close_tunnels_for_cid, ReaderEnds, HeartbeatTimeout, AgentTypeOK
  <2>4. \A n \in Nodes, s \in Sids : /\ task'[n][s].cid = task[n][s].cid
                                     /\ task'[n][s].fed \subseteq task[n][s].fed
    BY <1>0, <2>0, <2>1, StoppedTasks DEF AgentTypeOK
  <2>. QED
    BY <1>0, <2>2, <2>3, <2>4, InputKept, Zenon
<1>4. ASSUME NEW k \in Conns, OpenSession(k)
      PROVE  KeyInv' /\ InputIsolation'
  <2>. DEFINE n == ConnNode[k]
              s == nextSid[n]
              f == Head(toAgent[k])
              new == NewTask(k, f)
  <2>0. n \in Nodes /\ f.cid \in Cids
    BY <1>0, <1>4, WireAssumption, HandlesTypes, FrameFields, Zenon DEF OpenSession
  <2>1. /\ s \in Sids
        /\ nextSid' = [nextSid EXCEPT ![n] = s + 1]
        /\ task' = [task EXCEPT ![n][s] = new]
        /\ sessions' = [sessions EXCEPT ![k] = @ \cup {<<f.cid, s>>}]
        /\ agentTask' = agentTask /\ agentTask[k] # "none"
    BY <1>4, Zenon DEF OpenSession, Handles
  <2>2. new.cid = f.cid /\ new.fed = {}
    BY Zenon DEF NewTask
  <2>. HIDE DEF new, f
  <2>3. /\ task'[n][s] = new
        /\ \A m \in Nodes, u \in Sids : ~ (m = n /\ u = s) => task'[m][u] = task[m][u]
    BY <1>0, <2>0, <2>1, Zenon DEF AgentTypeOK
  <2>4. InputIsolation'
    BY <1>0, <2>2, <2>3, Zenon DEF InputIsolation
  <2>5. nextSid'[n] = s + 1 /\ \A m \in Nodes : m # n => nextSid'[m] = nextSid[m]
    BY <1>0, <2>0, <2>1, Zenon DEF AgentTypeOK
  <2>6. ASSUME NEW j \in Conns, NEW p \in sessions'[j]
        PROVE  p[2] < nextSid'[ConnNode[j]] /\ task'[ConnNode[j]][p[2]].cid = p[1]
    <3>0. ConnNode[j] \in Nodes /\ s \in Nat
      BY <2>1, WireAssumption DEF Sids
    <3>1. CASE p \in sessions[j]
      <4>1. p[2] \in Sids /\ p[2] < nextSid[ConnNode[j]] /\ task[ConnNode[j]][p[2]].cid = p[1]
        BY <1>0, <3>1 DEF KeyInv, AgentTypeOK
      <4>2. ~ (ConnNode[j] = n /\ p[2] = s)
        BY <4>1, <3>0
      <4>3. task'[ConnNode[j]][p[2]] = task[ConnNode[j]][p[2]]
        BY <2>3, <3>0, <4>1, <4>2, Zenon
      <4>4. p[2] < nextSid'[ConnNode[j]]
        BY <2>5, <3>0, <4>1 DEF Sids
      <4>. QED
        BY <4>1, <4>3, <4>4, Zenon
    <3>2. CASE p \notin sessions[j]
      <4>1. j = k /\ p = <<f.cid, s>>
        BY <1>0, <2>1, <2>6, <3>2, Zenon DEF AgentTypeOK
      <4>. QED
        BY <2>2, <2>3, <2>5, <3>0, <4>1
    <3>. QED
      BY <3>1, <3>2, Zenon
  <2>7. \A j \in Conns : agentTask'[j] = "none" => sessions'[j] = {}
    BY <1>0, <2>1, Zenon DEF KeyInv, AgentTypeOK
  <2>. QED
    BY <2>4, <2>6, <2>7, Zenon DEF KeyInv
<1>5. ASSUME NEW k \in Conns, FeedSession(k)
      PROVE  KeyInv' /\ InputIsolation'
  <2>. DEFINE n == ConnNode[k]
              f == Head(toAgent[k])
              t == [task[n][f.sid] EXCEPT !.fed = @ \cup {f.cid}]
  <2>0. n \in Nodes /\ f.cid \in Cids /\ f.sid \in Sids
    BY <1>0, <1>5, WireAssumption, HandlesTypes, FrameFields, Zenon DEF FeedSession
  <2>1. /\ nextSid' = nextSid /\ sessions' = sessions /\ agentTask' = agentTask
        /\ \/ task' = task
           \/ <<f.cid, f.sid>> \in sessions[k] /\ task' = [task EXCEPT ![n][f.sid] = t]
    BY <1>5, Zenon DEF FeedSession
  <2>. HIDE DEF f
  <2>2. t.cid = task[n][f.sid].cid /\ t.fed = task[n][f.sid].fed \cup {f.cid} /\ t \in TaskState
    <3>1. task[n][f.sid] \in TaskState
      BY <1>0, <2>0, Zenon DEF AgentTypeOK
    <3>. QED
      BY <2>0, <3>1, Zenon DEF TaskState
  <2>3. CASE task' = task
    BY <1>0, <2>1, <2>3, InputKept, Zenon
  <2>4. CASE <<f.cid, f.sid>> \in sessions[k] /\ task' = [task EXCEPT ![n][f.sid] = t]
    <3>1. task[n][f.sid].cid = f.cid
      BY <1>0, <2>4, Zenon DEF KeyInv
    <3>. HIDE DEF t
    <3>2. \A m \in Nodes, u \in Sids :
            task'[m][u] = IF m = n /\ u = f.sid THEN t ELSE task[m][u]
      BY <1>0, <2>0, <2>4, Zenon DEF AgentTypeOK
    <3>3. InputIsolation'
      BY <1>0, <2>0, <2>2, <3>1, <3>2 DEF InputIsolation
    <3>4. \A m \in Nodes, u \in Sids : task'[m][u].cid = task[m][u].cid
      BY <2>2, <3>2, Zenon
    <3>5. \A j \in Conns : ConnNode[j] \in Nodes /\ \A p \in sessions[j] : p[2] \in Sids
      BY <1>0, WireAssumption DEF AgentTypeOK
    <3>6. KeyInv'
      BY <1>0, <2>1, <3>4, <3>5 DEF KeyInv
    <3>. QED
      BY <3>3, <3>6, Zenon
  <2>. QED
    BY <2>1, <2>3, <2>4, Zenon
<1>6. ASSUME NEW n \in Nodes, NEW s \in Sids,
             SessionProgress(n, s) \/ SessionOutput(n, s) \/ ShellEnds(n, s)
      PROVE  KeyInv' /\ InputIsolation'
  <2>1. UNCHANGED <<agentTask, sessions, nextSid>>
    BY <1>6, Zenon DEF SessionProgress, SshConnected, SftpAnnounced, SftpConnected,
       ConnectFails,
                SessionStops, ShellEnds, SessionClosed, DisconnectFails, SessionGoes, SessionOutput
  <2>2. \A m \in Nodes, u \in Sids : /\ task'[m][u].cid = task[m][u].cid
                                     /\ task'[m][u].fed \subseteq task[m][u].fed
    BY <1>0, <1>6, SessionKeepsTask, Zenon
  <2>. QED
    BY <1>0, <2>1, <2>2, InputKept, Zenon
<1>7. ASSUME NEW n \in Nodes, ProcessRestart(n)
      PROVE  KeyInv' /\ InputIsolation'
  <2>. DEFINE mine == {k \in Conns : ConnNode[k] = n /\ agentTask[k] # "none"}
  <2>1. /\ agentTask' = [k \in Conns |-> IF k \in mine THEN "done" ELSE agentTask[k]]
        /\ sessions' = [k \in Conns |-> IF k \in mine THEN {} ELSE sessions[k]]
        /\ task' = [task EXCEPT ![n] = [s \in Sids |-> NoTask]]
        /\ nextSid' = [nextSid EXCEPT ![n] = 1]
    BY <1>7, Zenon DEF ProcessRestart
  <2>2. NoTask.fed = {}
    BY Zenon DEF NoTask
  <2>3. InputIsolation'
    BY <1>0, <2>1, <2>2, Zenon DEF InputIsolation, AgentTypeOK
  <2>4. ASSUME NEW j \in Conns
        PROVE  /\ agentTask'[j] = "none" => sessions'[j] = {}
               /\ \A p \in sessions'[j] : /\ p[2] < nextSid'[ConnNode[j]]
                                          /\ task'[ConnNode[j]][p[2]].cid = p[1]
    <3>1. CASE ConnNode[j] = n
      BY <1>0, <2>1, <3>1, Zenon DEF KeyInv
    <3>2. CASE ConnNode[j] # n
      <4>1. /\ agentTask'[j] = agentTask[j] /\ sessions'[j] = sessions[j]
            /\ nextSid'[ConnNode[j]] = nextSid[ConnNode[j]]
            /\ task'[ConnNode[j]] = task[ConnNode[j]]
        BY <1>0, <2>1, <3>2, WireAssumption, Zenon DEF AgentTypeOK
      <4>. QED
        BY <1>0, <4>1, Zenon DEF KeyInv
    <3>. QED
      BY <3>1, <3>2, Zenon
  <2>. QED
    BY <2>3, <2>4, Zenon DEF KeyInv
<1>8. CASE ServerStep /\ UNCHANGED <<agentVars, faultVars>>
  BY <1>1, <1>8, Zenon
<1>9. CASE AgentStep /\ UNCHANGED <<serverVars, faultVars>>
  <2>1. ASSUME NEW k \in Conns, HeartbeatTick(k) \/ ensure_credentials(k)
        PROVE  KeyInv' /\ InputIsolation'
    BY <1>1, <2>1, Zenon DEF HeartbeatTick, ensure_credentials
  <2>. QED
    BY <1>2, <1>3, <1>4, <1>5, <1>6, <1>9, <2>1, Zenon DEF AgentStep, AgentReaderStep
<1>10. CASE LinkFault \/ LapseFault
  BY <1>1, <1>10, Zenon DEF LinkFault, LapseFault
<1>11. CASE TimeoutFault
  BY <1>3, <1>11, Zenon DEF TimeoutFault
<1>12. CASE RestartFault
  BY <1>7, <1>12, Zenon DEF RestartFault
<1>13. CASE UNCHANGED vars
  BY <1>1, <1>13, Zenon DEF vars
<1>. QED
  BY <1>8, <1>9, <1>10, <1>11, <1>12, <1>13, Zenon DEF Next

\* Whatever enters the command queue of an SSH or SFTP session on an agent was
\* sent by the web client that opened it: for any number of clients, nodes,
\* sessions and reconnects, and although session ids are reused after a restart.
THEOREM InputIsolated == Spec => []InputIsolation
<1>1. Init => InputInv
  <2>1. NoTask.fed = {}
    BY Zenon DEF NoTask
  <2>2. Init => KeyInv /\ InputIsolation
    BY <2>1 DEF Init, AgentInit, KeyInv, InputIsolation
  <2>. QED
    BY <2>2, TypeInit, Zenon DEF InputInv
<1>2. InputInv => InputIsolation
  BY Zenon DEF InputInv
<1>. QED
  BY <1>1, <1>2, InputStep, PTL DEF Spec

-----------------------------------------------------------------------------
(* Output.                                                                 *)

\* Session s of node n was opened for client c.
Owner(n, s, c) == s < nextSid[n] /\ task[n][s].cid = c

\* Frames from the agent of node n that name the owner of their session.
OwnedFrame(n) ==
  {f \in ServerFrame :
     f.type \in {"opened", "closed", "data", "error"} => Owner(n, f.sid, f.cid)}

\* While the agent process of a node has not restarted, every frame on its way
\* from it and every entry of a sweep names the owner of its session, and
\* every notification goes to the client its content belongs to.
RouteInv ==
  \A k \in Conns :
    LET n == ConnNode[k] IN
    /\ \A p \in pend[k] : p[2].node = n
    /\ restarts[n] = 0 =>
         /\ toServer[k] \in Seq(OwnedFrame(n))
         /\ \A p \in sweep[k] : Owner(n, p[1], p[2])
         /\ \A p \in pend[k] : p[2].from = p[1]

\* Under the same condition so does every entry of the tunnel table.
TableInv ==
  \A n \in Nodes, s \in Sids :
    restarts[n] = 0 /\ tunnel_sessions[n][s] # None => Owner(n, s, tunnel_sessions[n][s])

\* The inductive strengthening of OutputIsolation.
OutputInv == TypeInv /\ RouteInv /\ TableInv /\ OutputIsolation

\* Steps do not change the owner and the connection of a session whose id has
\* been handed out, nor make it spawn again, unless the process restarts.
LEMMA SessionKept ==
  ASSUME TypeInv, [Next]_vars, NEW n \in Nodes, restarts'[n] = 0 \/ restarts' = restarts,
         NEW s \in Sids, s < nextSid[n]
  PROVE  /\ s < nextSid'[n]
         /\ task'[n][s].cid = task[n][s].cid
         /\ task'[n][s].conn = task[n][s].conn
         /\ task'[n][s].pc = "spawned" => task[n][s].pc = "spawned"
<1>. DEFINE Same == /\ task'[n][s].cid = task[n][s].cid
                    /\ task'[n][s].conn = task[n][s].conn
                    /\ task'[n][s].pc = "spawned" => task[n][s].pc = "spawned"
<1>0. /\ WireTypeOK /\ AgentTypeOK /\ restarts \in [Nodes -> Nat]
      /\ s \in Nat /\ nextSid[n] \in Nat
  BY WireAssumption DEF TypeInv, TypeOK, AgentTypeOK, Sids
<1>2. CASE UNCHANGED agentVars
  BY <1>2, Zenon DEF agentVars
<1>3. ASSUME NEW k \in Conns, Connect(k) \/ AuthAccepted(k) \/ HandleHeartbeatAck(k)
      PROVE  s < nextSid'[n] /\ Same
  BY <1>3, Zenon DEF Connect, AuthAccepted, HandleHeartbeatAck
<1>4. ASSUME NEW k \in Conns, close_tunnels_for_cid(k) \/ ReaderEnds(k) \/ HeartbeatTimeout(k)
      PROVE  s < nextSid'[n] /\ Same
  <2>0. ConnNode[k] \in Nodes
    BY WireAssumption, Zenon
  <2>1. PICK keys : task' = [task EXCEPT ![ConnNode[k]] = Stopped(ConnNode[k], keys)]
    BY <1>4, Zenon DEF close_tunnels_for_cid, ReaderEnds, HeartbeatTimeout, CloseAll
  <2>2. nextSid' = nextSid
    BY <1>4, Zenon DEF close_tunnels_for_cid, ReaderEnds, HeartbeatTimeout
  <2>3. SameSessions
    BY <1>0, <2>0, <2>1, StoppedStep, Zenon
  <2>. QED
    BY <2>2, <2>3, Zenon DEF SameSessions
<1>5. ASSUME NEW k \in Conns, OpenSession(k)
      PROVE  s < nextSid'[n] /\ Same
  <2>. DEFINE m == ConnNode[k]
              u == nextSid[m]
  <2>1. /\ u \in Sids /\ m \in Nodes
        /\ nextSid' = [nextSid EXCEPT ![m] = u + 1]
        /\ task' = [task EXCEPT ![m][u] = NewTask(k, Head(toAgent[k]))]
    BY <1>5, WireAssumption, Zenon DEF OpenSession
  <2>2. ~ (n = m /\ s = u) /\ nextSid'[n] >= nextSid[n] /\ nextSid'[n] \in Nat
    BY <1>0, <2>1 DEF AgentTypeOK
  <2>3. task'[n][s] = task[n][s]
    BY <1>0, <2>1, <2>2, Zenon DEF AgentTypeOK
  <2>. QED
    BY <1>0, <2>2, <2>3
<1>6. ASSUME NEW k \in Conns, FeedSession(k)
      PROVE  s < nextSid'[n] /\ Same
  <2>. DEFINE m == ConnNode[k]
              f == Head(toAgent[k])
  <2>1. m \in Nodes /\ f.sid \in Sids /\ f.cid \in Cids
    BY <1>0, <1>6, WireAssumption, HandlesTypes, FrameFields, Zenon DEF FeedSession
  <2>2. nextSid' = nextSid /\ (task' = task \/ task' = [task EXCEPT ![m][f.sid].fed = @ \cup {f.cid}])
    BY <1>6, Zenon DEF FeedSession
  <2>. HIDE DEF f, m
  <2>3. ASSUME NEW x \in Sids, NEW d \in Cids, task' = [task EXCEPT ![m][x].fed = @ \cup {d}]
        PROVE  SameSessions
    BY <1>0, <2>1, <2>3, FedStep, Zenon
  <2>4. task' = task \/ SameSessions
    BY <2>1, <2>2, <2>3, Zenon
  <2>. QED
    BY <2>2, <2>4, Zenon DEF SameSessions
<1>7. ASSUME NEW m \in Nodes, NEW u \in Sids,
             SessionProgress(m, u) \/ SessionOutput(m, u) \/ ShellEnds(m, u)
      PROVE  s < nextSid'[n] /\ Same
  <2>1. nextSid' = nextSid
    BY <1>7, Zenon DEF SessionProgress, SshConnected, SftpAnnounced, SftpConnected,
       ConnectFails,
                SessionStops, ShellEnds, SessionClosed, DisconnectFails, SessionGoes, SessionOutput
  <2>2. Same
    BY <1>0, <1>7, SessionKeepsTask, Zenon
  <2>. QED
    BY <2>1, <2>2, Zenon
<1>8. CASE RestartFault
  <2>1. PICK m \in Nodes : restarts' = [restarts EXCEPT ![m] = @ + 1] /\ ProcessRestart(m)
    BY <1>8, Zenon DEF RestartFault
  <2>2. n # m
    BY <1>0, <2>1
  <2>. QED
    BY <1>0, <2>1, <2>2, Zenon DEF ProcessRestart, AgentTypeOK
<1>9. CASE AgentStep
  <2>1. ASSUME NEW k \in Conns, HeartbeatTick(k) \/ ensure_credentials(k)
        PROVE  s < nextSid'[n] /\ Same
    BY <1>2, <2>1, Zenon DEF HeartbeatTick, ensure_credentials
  <2>. QED
    BY <1>3, <1>4, <1>5, <1>6, <1>7, <1>9, <2>1, Zenon DEF AgentStep, AgentReaderStep
<1>10. CASE LinkFault \/ LapseFault \/ UNCHANGED vars
  BY <1>2, <1>10, Zenon DEF LinkFault, LapseFault, vars
<1>11. CASE TimeoutFault
  BY <1>4, <1>11, Zenon DEF TimeoutFault
<1>. QED
  BY <1>2, <1>8, <1>9, <1>10, <1>11, Zenon DEF Next

\* In particular a session keeps its owner.
LEMMA OwnerKept ==
  ASSUME TypeInv, [Next]_vars, NEW n \in Nodes, restarts'[n] = 0,
         NEW s \in Sids, NEW c, Owner(n, s, c)
  PROVE  Owner(n, s, c)'
BY SessionKept, Zenon DEF Owner

\* Frames that name their owner now still do after a step.
LEMMA OwnedKept ==
  ASSUME TypeInv, [Next]_vars, NEW n \in Nodes, restarts'[n] = 0,
         NEW q \in Seq(OwnedFrame(n))
  PROVE  q \in Seq(OwnedFrame(n)')
<1>1. OwnedFrame(n) \subseteq OwnedFrame(n)'
  BY OwnerKept, FrameFields, Zenon DEF OwnedFrame
<1>. QED
  BY <1>1

\* A process that has not restarted after a step had not before.
LEMMA RestartsGrow ==
  ASSUME TypeInv, [Next]_vars, NEW n \in Nodes, restarts'[n] = 0
  PROVE  restarts[n] = 0
<1>0. restarts \in [Nodes -> Nat]
  BY Zenon DEF TypeInv, TypeOK
<1>1. CASE RestartFault
  BY <1>0, <1>1 DEF RestartFault
<1>2. CASE restarts' = restarts
  BY <1>2, Zenon
<1>. QED
  BY <1>1, <1>2, Zenon DEF Next, LinkFault, LapseFault, TimeoutFault, Strikes, faultVars, vars

\* The frames that belong to a session.
SessionFrames == {"opened", "closed", "data", "error"}

\* A session task sends a frame of its session; the announcement only once.
Sends(n, s, type) ==
  /\ task[n][s].pc # "free"
  /\ type = "opened" => task[n][s].pc = "spawned"
  /\ task'[n][s].pc # "spawned"
  /\ Emit(n, s, type)

\* A step of a session task sends at most one frame of its session.
LEMMA SessionSends ==
  ASSUME TypeInv, NEW n \in Nodes, NEW s \in Sids,
         SessionProgress(n, s) \/ SessionOutput(n, s) \/ ShellEnds(n, s)
  PROVE  toServer' = toServer \/ \E type \in SessionFrames : Sends(n, s, type)
<1>0. AgentTypeOK
  BY Zenon DEF TypeInv, TypeOK
<1>1. ASSUME NEW pc \in {"connecting", "open", "closing", "done"}, SessionGoes(n, s, pc)
      PROVE  task'[n][s].pc # "spawned"
  <2>1. task'[n][s].pc = pc
    BY <1>0, <1>1, SessionGoesTask
  <2>. QED
    BY <2>1, Zenon
<1>2. CASE SftpConnected(n, s) \/ SessionStops(n, s) \/ ShellEnds(n, s)
  BY <1>2, Zenon DEF SftpConnected, SessionStops, ShellEnds
<1>3. CASE SshConnected(n, s) \/ SftpAnnounced(n, s)
  <2>1. Sends(n, s, "opened")
    BY <1>1, <1>3, Zenon DEF SshConnected, SftpAnnounced, At, Sends
  <2>. QED
    BY <2>1, Zenon DEF SessionFrames
<1>4. CASE ConnectFails(n, s) \/ DisconnectFails(n, s)
  <2>1. Sends(n, s, "error")
    BY <1>1, <1>4, Zenon DEF ConnectFails, DisconnectFails, At, Sends
  <2>. QED
    BY <2>1, Zenon DEF SessionFrames
<1>5. CASE SessionOutput(n, s)
  <2>1. task[n][s].pc = "open" /\ Emit(n, s, "data")
    BY <1>5, Zenon DEF SessionOutput, At
  <2>2. task'[n][s].pc = "spawned" => task[n][s].pc = "spawned"
    BY <1>0, <1>5, SessionKeepsTask, Zenon
  <2>3. Sends(n, s, "data")
    BY <2>1, <2>2, Zenon DEF Sends
  <2>. QED
    BY <2>3, Zenon DEF SessionFrames
<1>6. CASE SessionClosed(n, s)
  <2>1. Sends(n, s, "closed")
    BY <1>1, <1>6, Zenon DEF SessionClosed, At, Sends
  <2>. QED
    BY <2>1, Zenon DEF SessionFrames
<1>. QED
  BY <1>2, <1>3, <1>4, <1>5, <1>6, Zenon DEF SessionProgress

\* Such a frame names the owner, and goes out by the session's connection.
LEMMA SendsOwned ==
  ASSUME TypeInv, NEW n \in Nodes, NEW s \in Sids, NEW type \in SessionFrames,
         Sends(n, s, type)
  PROVE  /\ task[n][s].conn \in Conns /\ ConnNode[task[n][s].conn] = n /\ s < nextSid[n]
         /\ \E f \in OwnedFrame(n) :
              /\ f.type = type /\ f.sid = s /\ f.cid = task[n][s].cid
              /\ send_frame_data(task[n][s].conn, f)
<1>. DEFINE t == task[n][s]
            f == NodeFrame(type, t.cid, s, t.msg)
<1>1. t \in TaskState /\ t.msg \in Msgs /\ t.pc # "free" /\ Emit(n, s, type)
  BY Zenon DEF TypeInv, TypeOK, AgentTypeOK, TaskState, Sends
<1>2. t.cid \in Cids /\ t.conn \in Conns /\ ConnNode[t.conn] = n /\ s < nextSid[n]
  BY <1>1, Zenon DEF TypeInv, TaskInv
<1>3. f \in ServerFrame
  BY <1>1, <1>2, FrameTypes, Zenon DEF SessionFrames
<1>4. f.type = type /\ f.sid = s /\ f.cid = t.cid
  BY Zenon DEF NodeFrame
<1>5. send_frame_data(t.conn, f)
  BY <1>1, Zenon DEF Emit
<1>. HIDE DEF f
<1>6. f \in OwnedFrame(n)
  BY <1>2, <1>3, <1>4, Zenon DEF OwnedFrame, Owner
<1>. QED
  BY <1>2, <1>4, <1>5, <1>6, Zenon

\* Queue operations stay within the sequences over a set.
LEMMA SeqClosed ==
  ASSUME NEW S, NEW q \in Seq(S)
  PROVE  /\ q # <<>> => Tail(q) \in Seq(S)
         /\ <<>> \in Seq(S)
         /\ \A f \in S : Append(q, f) \in Seq(S)
OBVIOUS

\* What a step can do to the queues from the agents.
LEMMA QueueSteps ==
  ASSUME TypeInv, [Next]_vars
  PROVE  \/ toServer' = toServer
         \/ \E k \in Conns : \/ toServer[k] # <<>> /\ toServer' = [toServer EXCEPT ![k] = Tail(@)]
                             \/ toServer' = [toServer EXCEPT ![k] = <<>>]
         \/ \E j \in Conns : \E f \in ServerFrame :
              f.type \notin SessionFrames /\ send_frame_data(j, f)
         \/ \E n \in Nodes, s \in Sids : \E type \in SessionFrames : Sends(n, s, type)
<1>1. ASSUME NEW c \in Cids,
             \/ WebClientStep(c) \/ WebForward(c)
             \/ \E n \in Nodes : notify_nodes_client_disconnect(c, n)
      PROVE  toServer' = toServer
  BY <1>1, Zenon DEF WebClientStep, WebConnect, update_web_heartbeat, handle_web_open_tunnel,
              handle_web_session_request, disconnect_web_client, WebForward,
              notify_nodes_client_disconnect, wireVars
<1>2. ASSUME NEW k \in Conns, NodeTaskStep(k)
      PROVE  \/ toServer' = toServer
             \/ toServer[k] # <<>> /\ toServer' = [toServer EXCEPT ![k] = Tail(@)]
             \/ toServer' = [toServer EXCEPT ![k] = <<>>]
  BY <1>2, Zenon DEF NodeTaskStep, NodeAuth, NodeReject, NodeRegister, handle_node_heartbeat,
              handle_tunnel_opened, handle_tunnel_closed, handle_frame_response, NodeNotify,
              NodeReaderEnds, disconnect_node, SessionsToClose,
              notify_all_clients_for_closed_tunnel, SweepDone, Finish, Receives, wireVars
<1>3. ASSUME NEW k \in Conns,
             Connect(k) \/ AgentReaderStep(k) \/ HeartbeatTick(k) \/ HeartbeatTimeout(k)
      PROVE  \/ toServer' = toServer
             \/ \E f \in ServerFrame : f.type \notin SessionFrames /\ send_frame_data(k, f)
  <2>1. CASE HeartbeatTick(k)
    <3>1. Heartbeat \in ServerFrame /\ Heartbeat.type \notin SessionFrames
      BY FrameTypes, Zenon DEF Heartbeat, NodeFrame, SessionFrames
    <3>. QED
      BY <2>1, <3>1, Zenon DEF HeartbeatTick
  <2>2. CASE ensure_credentials(k)
    <3>. DEFINE f == Head(toAgent[k])
    <3>1. f \in AgentFrame /\ f.type = "open"
      BY <2>2, HandlesTypes, Zenon DEF ensure_credentials, TypeInv, TypeOK
    <3>2. NodeFrame("refused", f.cid, 0, f.msg) \in ServerFrame
      BY <3>1, FrameFields, FrameTypes, Zenon
    <3>3. NodeFrame("refused", f.cid, 0, f.msg).type \notin SessionFrames
      BY Zenon DEF SessionFrames, NodeFrame
    <3>. QED
      BY <2>2, <3>2, <3>3, Zenon DEF ensure_credentials
  <2>3. CASE ~ HeartbeatTick(k) /\ ~ ensure_credentials(k)
    BY <1>3, <2>3, Zenon DEF Connect, AgentReaderStep, AuthAccepted, OpenSession,
       HandleHeartbeatAck,
                      close_tunnels_for_cid, FeedSession, ReaderEnds, HeartbeatTimeout, wireVars
  <2>. QED
    BY <2>1, <2>2, <2>3, Zenon
<1>4. CASE ServerStep
  BY <1>1, <1>2, <1>4, Zenon DEF ServerStep, cleanup_dangling_connections, wireVars
<1>5. CASE AgentStep
  BY <1>3, <1>5, SessionSends, Zenon DEF AgentStep
<1>6. CASE TimeoutFault
  BY <1>3, <1>6, Zenon DEF TimeoutFault
<1>7. CASE LinkFault \/ LapseFault \/ RestartFault \/ UNCHANGED vars
  BY <1>7, Zenon DEF LinkFault, LinkFails, LapseFault, HeartbeatLapses, RestartFault,
     ProcessRestart,
              vars, wireVars
<1>. QED
  BY <1>4, <1>5, <1>6, <1>7, Zenon DEF Next

\* The node and the owner a client frame is made with.
LEMMA WebFrameFields ==
  ASSUME NEW t, NEW n, NEW s, NEW c, NEW m
  PROVE  /\ WebFrame(t, n, s, c, m).type = t /\ WebFrame(t, n, s, c, m).sid = s
         /\ WebFrame(t, n, s, c, m).node = n /\ WebFrame(t, n, s, c, m).from = c
BY Zenon DEF WebFrame

\* A notification about to be sent names its node, and goes to its owner.
Addressed(k, p) ==
  p[2].node = ConnNode[k] /\ (restarts[ConnNode[k]] = 0 => p[2].from = p[1])

\* What a step of a node task leaves in the table, the sweep, its pending
\* notification and the clients' channels still names the right owners.
LEMMA NodeTaskRoutes ==
  ASSUME OutputInv, NEW k \in Conns, NodeTaskStep(k)
  PROVE  /\ \A n \in Nodes, s \in Sids :
              restarts[n] = 0 /\ tunnel_sessions'[n][s] # None =>
                Owner(n, s, tunnel_sessions'[n][s])
         /\ \A j \in Conns : /\ restarts[ConnNode[j]] = 0 =>
                                  \A p \in sweep'[j] : Owner(ConnNode[j], p[1], p[2])
                             /\ \A p \in pend'[j] : Addressed(j, p)
         /\ \A c \in Cids : \A f \in inbox'[c] : restarts[f.node] = 0 => f.from = c
<1>. DEFINE n == NodeOf(k)
            f == Head(toServer[k])
            TableOK == \A m \in Nodes, s \in Sids :
                         restarts[m] = 0 /\ tunnel_sessions'[m][s] # None =>
                           Owner(m, s, tunnel_sessions'[m][s])
            SweepOK == \A j \in Conns : restarts[ConnNode[j]] = 0 =>
                         \A p \in sweep'[j] : Owner(ConnNode[j], p[1], p[2])
            PendOK == \A j \in Conns : \A p \in pend'[j] : Addressed(j, p)
            InboxOK == \A c \in Cids : \A g \in inbox'[c] : restarts[g.node] = 0 => g.from = c
<1>0. /\ WireTypeOK /\ ServerTypeOK /\ RouteInv /\ TableInv /\ OutputIsolation
      /\ n \in Nodes /\ n = ConnNode[k]
  BY WireAssumption, Zenon DEF OutputInv, TypeInv, TypeOK, NodeOf
<1>1. tunnel_sessions' = tunnel_sessions => TableOK
  BY <1>0, Zenon DEF TableInv
<1>2. sweep' = sweep => SweepOK
  BY <1>0, Zenon DEF RouteInv
<1>3. pend' = pend => PendOK
  BY <1>0, Zenon DEF RouteInv, Addressed
<1>4. inbox' = inbox => InboxOK
  BY <1>0, Zenon DEF OutputIsolation
<1>5. ASSUME NEW types, Receives(k, types)
      PROVE  /\ f \in ServerFrame /\ f.type \in types
             /\ restarts[n] = 0 /\ f.type \in {"opened", "closed", "data", "error"} =>
                  Owner(n, f.sid, f.cid)
  <2>1. f \in ServerFrame /\ f.type \in types /\ toServer[k] # <<>>
    BY <1>0, <1>5, ReceivesTypes, Zenon DEF Receives
  <2>2. restarts[n] = 0 => toServer[k] \in Seq(OwnedFrame(n))
    BY <1>0, Zenon DEF RouteInv
  <2>3. restarts[n] = 0 => f \in OwnedFrame(n)
    BY <2>1, <2>2
  <2>. QED
    BY <2>1, <2>3, Zenon DEF OwnedFrame
<1>6. ASSUME NEW c \in Cids, NEW g, g.node = n, restarts[n] = 0 => g.from = c,
             pend' = [pend EXCEPT ![k] = {<<c, g>>}]
      PROVE  PendOK
  <2>1. ASSUME NEW j \in Conns, NEW p \in pend'[j] PROVE Addressed(j, p)
    <3>1. CASE j = k
      <4>1. p = <<c, g>>
        BY <1>0, <1>6, <2>1, <3>1, Zenon DEF ServerTypeOK
      <4>. QED
        BY <1>0, <1>6, <3>1, <4>1, Zenon DEF Addressed
    <3>2. CASE j # k
      <4>1. p \in pend[j]
        BY <1>0, <1>6, <2>1, <3>2, Zenon DEF ServerTypeOK
      <4>. QED
        BY <1>0, <4>1, Zenon DEF RouteInv, Addressed
    <3>. QED
      BY <3>1, <3>2, Zenon
  <2>. QED
    BY <2>1, Zenon
<1>. HIDE DEF PendOK
<1>7. CASE handle_tunnel_opened(k)
  <2>1. /\ f \in ServerFrame /\ f.type = "opened"
        /\ restarts[n] = 0 => Owner(n, f.sid, f.cid)
    BY <1>5, <1>7, Zenon DEF handle_tunnel_opened
  <2>2. f.cid \in Cids /\ f.sid \in Sids
    BY <2>1, FrameFields, Zenon
  <2>3. /\ tunnel_sessions' = [tunnel_sessions EXCEPT ![n][f.sid] = f.cid]
        /\ pend' = [pend EXCEPT ![k] = {<<f.cid, WebFrame("opened", n, f.sid, f.cid, f.msg)>>}]
        /\ sweep' = sweep /\ inbox' = inbox
    BY <1>7, Zenon DEF handle_tunnel_opened
  <2>. HIDE DEF f, n
  <2>4. TableOK
    BY <1>0, <2>1, <2>2, <2>3, Zenon DEF TableInv, ServerTypeOK
  <2>5. PendOK
    <3>. DEFINE g == WebFrame("opened", n, f.sid, f.cid, f.msg)
    <3>1. g.node = n /\ (restarts[n] = 0 => g.from = f.cid)
      BY WebFrameFields
    <3>2. f.cid \in Cids /\ pend' = [pend EXCEPT ![k] = {<<f.cid, g>>}]
      BY <2>2, <2>3, Zenon
    <3>. HIDE DEF g
    <3>. QED
      BY <1>6, <3>1, <3>2, Zenon
  <2>. QED
    BY <1>2, <1>4, <2>3, <2>4, <2>5, Zenon DEF PendOK
<1>8. CASE handle_tunnel_closed(k)
  <2>1. f \in ServerFrame /\ f.type = "closed"
    BY <1>5, <1>8 DEF handle_tunnel_closed
  <2>2. f.cid \in Cids /\ f.sid \in Sids
    BY <2>1, FrameFields, Zenon
  <2>3. /\ tunnel_sessions' = [tunnel_sessions EXCEPT ![n][f.sid] = None]
        /\ pend' = [pend EXCEPT ![k] = {<<f.cid, WebFrame("closed", n, f.sid, f.cid, f.msg)>>}]
        /\ sweep' = sweep /\ inbox' = inbox
    BY <1>8, Zenon DEF handle_tunnel_closed
  <2>. HIDE DEF f, n
  <2>4. TableOK
    BY <1>0, <2>2, <2>3, Zenon DEF TableInv, ServerTypeOK
  <2>5. PendOK
    <3>. DEFINE g == WebFrame("closed", n, f.sid, f.cid, f.msg)
    <3>1. g.node = n /\ (restarts[n] = 0 => g.from = f.cid)
      BY WebFrameFields
    <3>2. f.cid \in Cids /\ pend' = [pend EXCEPT ![k] = {<<f.cid, g>>}]
      BY <2>2, <2>3, Zenon
    <3>. HIDE DEF g
    <3>. QED
      BY <1>6, <3>1, <3>2, Zenon
  <2>. QED
    BY <1>2, <1>4, <2>3, <2>4, <2>5, Zenon DEF PendOK
<1>9. CASE handle_frame_response(k)
  <2>. DEFINE t == IF f.type = "data" THEN "data" ELSE "error"
              c == IF f.type = "refused" THEN f.cid ELSE get_connection_id_by_sid(f.sid, n)
  <2>1. /\ f \in ServerFrame /\ f.type \in {"data", "error", "refused"}
        /\ restarts[n] = 0 /\ f.type # "refused" => Owner(n, f.sid, f.cid)
    BY <1>5, <1>9 DEF handle_frame_response
  <2>2. f.cid \in Cids /\ (f.type # "refused" => f.sid \in Sids)
    BY <2>1, FrameFields, Zenon
  <2>3. /\ pend' = IF c = None THEN pend
                   ELSE [pend EXCEPT ![k] = {<<c, WebFrame(t, n, f.sid, f.cid, f.msg)>>}]
        /\ sweep' = sweep /\ inbox' = inbox /\ tunnel_sessions' = tunnel_sessions
    BY <1>9, Zenon DEF handle_frame_response
  <2>. HIDE DEF f, n
  <2>4. c # None => c \in Cids /\ (restarts[n] = 0 => f.cid = c)
    <3>1. CASE f.type = "refused"
      BY <2>2, <3>1, Zenon
    <3>2. CASE f.type # "refused"
      <4>1. c = tunnel_sessions[n][f.sid] /\ f.sid \in Sids
        BY <2>2, <3>2, Zenon DEF get_connection_id_by_sid
      <4>2. restarts[n] = 0 /\ c # None => Owner(n, f.sid, c) /\ Owner(n, f.sid, f.cid)
        BY <1>0, <2>1, <3>2, <4>1, Zenon DEF TableInv
      <4>3. c # None => c \in Cids
        BY <1>0, <4>1 DEF ServerTypeOK
      <4>. QED
        BY <4>2, <4>3, Zenon DEF Owner
    <3>. QED
      BY <3>1, <3>2, Zenon
  <2>. HIDE DEF c, t
  <2>5. PendOK
    <3>. DEFINE g == WebFrame(t, n, f.sid, f.cid, f.msg)
    <3>1. CASE c = None
      BY <1>3, <2>3, <3>1, Zenon
    <3>2. CASE c # None
      <4>1. g.node = n /\ (restarts[n] = 0 => g.from = c)
        BY <2>4, <3>2, WebFrameFields
      <4>2. c \in Cids /\ pend' = [pend EXCEPT ![k] = {<<c, g>>}]
        BY <2>3, <2>4, <3>2, Zenon
      <4>. HIDE DEF g
      <4>. QED
        BY <1>6, <4>1, <4>2, Zenon
    <3>. QED
      BY <3>1, <3>2, Zenon
  <2>. QED
    BY <1>1, <1>2, <1>4, <2>3, <2>5, Zenon DEF PendOK
<1>10. CASE NodeNotify(k)
  <2>1. PICK p \in pend[k] : notify_client_by_cid(p[1], p[2])
    BY <1>10, Zenon DEF NodeNotify
  <2>2. /\ UNCHANGED <<tunnel_sessions, sweep>>
        /\ pend' = [pend EXCEPT ![k] = {}]
    BY <1>10, Zenon DEF NodeNotify
  <2>3. /\ p[1] \in Cids /\ p[2].node = n
        /\ restarts[n] = 0 => p[2].from = p[1]
    BY <1>0 DEF ServerTypeOK, RouteInv
  <2>4. InboxOK
    BY <1>0, <2>1, <2>3, Zenon DEF notify_client_by_cid, OutputIsolation, WireTypeOK
  <2>5. PendOK
    BY <1>0, <2>2, Zenon DEF RouteInv, Addressed, ServerTypeOK, PendOK
  <2>. QED
    BY <1>1, <1>2, <2>2, <2>4, <2>5, Zenon DEF PendOK
<1>11. CASE SessionsToClose(k)
  <2>1. /\ UNCHANGED <<tunnel_sessions, pend, inbox>>
        /\ sweep' = [sweep EXCEPT ![k] = {p \in Sids \X Cids : tunnel_sessions[n][p[1]] = p[2]}]
    BY <1>11, Zenon DEF SessionsToClose, wireVars
  <2>2. \A p \in Sids \X Cids : restarts[n] = 0 /\ tunnel_sessions[n][p[1]] = p[2] => Owner(n, p[1], p[2])
    BY <1>0, WireAssumption, Zenon DEF TableInv
  <2>. HIDE DEF n
  <2>3. ASSUME NEW j \in Conns, restarts[ConnNode[j]] = 0, NEW p \in sweep'[j]
        PROVE  Owner(ConnNode[j], p[1], p[2])
    <3>1. CASE j = k
      <4>1. p \in Sids \X Cids /\ tunnel_sessions[n][p[1]] = p[2]
        BY <1>0, <2>1, <2>3, <3>1, Zenon DEF ServerTypeOK
      <4>. QED
        BY <1>0, <2>2, <2>3, <3>1, <4>1, Zenon
    <3>2. CASE j # k
      <4>1. p \in sweep[j]
        BY <1>0, <2>1, <2>3, <3>2, Zenon DEF ServerTypeOK
      <4>. QED
        BY <1>0, <2>3, <4>1, Zenon DEF RouteInv
    <3>. QED
      BY <3>1, <3>2, Zenon
  <2>4. SweepOK
    BY <2>3, Zenon
  <2>. QED
    BY <1>1, <1>3, <1>4, <2>1, <2>4, Zenon DEF PendOK
<1>12. CASE notify_all_clients_for_closed_tunnel(k)
  <2>1. PICK p \in sweep[k] :
          /\ tunnel_sessions' = [tunnel_sessions EXCEPT ![n][p[1]] = None]
          /\ pend' = [pend EXCEPT ![k] = {<<p[2], WebFrame("closed", n, p[1], p[2], 0)>>}]
          /\ sweep' = [sweep EXCEPT ![k] = @ \ {p}]
    BY <1>12, Zenon DEF notify_all_clients_for_closed_tunnel
  <2>2. p[1] \in Sids /\ p[2] \in Cids /\ inbox' = inbox
    BY <1>0, <1>12 DEF ServerTypeOK, notify_all_clients_for_closed_tunnel, wireVars
  <2>. HIDE DEF n
  <2>3. TableOK
    BY <1>0, <2>1, <2>2, Zenon DEF TableInv, ServerTypeOK
  <2>4. SweepOK
    BY <1>0, <2>1, Zenon DEF RouteInv, ServerTypeOK
  <2>5. PendOK
    <3>. DEFINE g == WebFrame("closed", n, p[1], p[2], 0)
    <3>1. g.node = n /\ (restarts[n] = 0 => g.from = p[2])
      BY WebFrameFields
    <3>2. p[2] \in Cids /\ pend' = [pend EXCEPT ![k] = {<<p[2], g>>}]
      BY <2>1, <2>2, Zenon
    <3>. HIDE DEF g
    <3>. QED
      BY <1>6, <3>1, <3>2, Zenon
  <2>. QED
    BY <1>4, <2>2, <2>3, <2>4, <2>5, Zenon DEF PendOK
<1>13. CASE UNCHANGED <<tunnel_sessions, sweep, pend, inbox>>
  BY <1>1, <1>2, <1>3, <1>4, <1>13, Zenon DEF PendOK
<1>14. NodeTaskStep(k) =>
         \/ handle_tunnel_opened(k) \/ handle_tunnel_closed(k) \/ handle_frame_response(k)
         \/ NodeNotify(k) \/ SessionsToClose(k) \/ notify_all_clients_for_closed_tunnel(k)
         \/ UNCHANGED <<tunnel_sessions, sweep, pend, inbox>>
  BY Zenon DEF NodeTaskStep, NodeAuth, NodeReject, NodeRegister, handle_node_heartbeat,
         NodeReaderEnds, disconnect_node, SweepDone, Finish, wireVars
<1>. QED
  BY <1>7, <1>8, <1>9, <1>10, <1>11, <1>12, <1>13, <1>14, Zenon DEF PendOK

\* The same for the other steps: only handle_web_open_tunnel puts a frame on a
\* channel, an error for the client that asked.
LEMMA OtherRoutes ==
  ASSUME OutputInv, [Next]_vars, ~ \E k \in Conns : NodeTaskStep(k)
  PROVE  /\ UNCHANGED <<tunnel_sessions, sweep, pend>>
         /\ \A c \in Cids : \A f \in inbox'[c] : restarts[f.node] = 0 => f.from = c
<1>0. /\ WireTypeOK /\ OutputIsolation
  BY Zenon DEF OutputInv, TypeInv, TypeOK
<1>1. inbox' = inbox => \A c \in Cids : \A f \in inbox'[c] : restarts[f.node] = 0 => f.from = c
  BY <1>0, Zenon DEF OutputIsolation
<1>2. ASSUME NEW c \in Cids,
             \/ WebClientStep(c) \/ WebForward(c)
             \/ \E n \in Nodes : notify_nodes_client_disconnect(c, n)
      PROVE  /\ UNCHANGED <<tunnel_sessions, sweep, pend>>
             /\ \/ inbox' = inbox
                \/ \E n \in Nodes : \E m : notify_client_by_cid(c, WebFrame("error", n, 0, c, m))
  BY <1>2, Zenon DEF WebClientStep, WebConnect, update_web_heartbeat, handle_web_open_tunnel,
              handle_web_session_request, disconnect_web_client, WebForward,
              notify_nodes_client_disconnect, wireVars, nodeSide
<1>3. ASSUME NEW c \in Cids, NEW n \in Nodes, NEW m,
             notify_client_by_cid(c, WebFrame("error", n, 0, c, m))
      PROVE  \A d \in Cids : \A f \in inbox'[d] : restarts[f.node] = 0 => f.from = d
  <2>. DEFINE g == WebFrame("error", n, 0, c, m)
  <2>1. g.from = c
    BY WebFrameFields
  <2>2. inbox' = IF c \in connections THEN [inbox EXCEPT ![c] = @ \cup {g}] ELSE inbox
    BY <1>3, Zenon DEF notify_client_by_cid
  <2>. HIDE DEF g
  <2>. QED
    BY <1>0, <2>1, <2>2, Zenon DEF OutputIsolation, WireTypeOK
<1>4. CASE ServerStep
  <2>1. CASE cleanup_dangling_connections
    BY <1>1, <2>1, Zenon DEF cleanup_dangling_connections, wireVars, nodeSide
  <2>2. CASE \E c \in Cids : \/ WebClientStep(c) \/ WebForward(c)
                             \/ \E n \in Nodes : notify_nodes_client_disconnect(c, n)
    BY <1>1, <1>2, <1>3, <2>2, Zenon
  <2>. QED
    BY <1>4, <2>1, <2>2, Zenon DEF ServerStep
<1>5. CASE AgentStep /\ UNCHANGED serverVars
  <2>1. inbox' = inbox
    <3>1. ASSUME NEW k \in Conns, Connect(k) \/ AgentReaderStep(k) \/ HeartbeatTick(k)
          PROVE  inbox' = inbox
      BY <3>1, Zenon DEF Connect, AgentReaderStep, AuthAccepted, OpenSession,
         ensure_credentials,
                  HandleHeartbeatAck, close_tunnels_for_cid, FeedSession, ReaderEnds, HeartbeatTick
    <3>2. ASSUME NEW n \in Nodes, NEW s \in Sids,
                 SessionProgress(n, s) \/ SessionOutput(n, s) \/ ShellEnds(n, s)
          PROVE  inbox' = inbox
      BY <3>2, Zenon DEF SessionProgress, SshConnected, SftpAnnounced, SftpConnected,
         ConnectFails,
                  SessionStops, ShellEnds, SessionClosed, DisconnectFails, SessionGoes, SessionOutput
    <3>. QED
      BY <1>5, <3>1, <3>2, Zenon DEF AgentStep
  <2>. QED
    BY <1>1, <1>5, <2>1, Zenon DEF serverVars
<1>6. CASE LinkFault \/ LapseFault \/ TimeoutFault \/ RestartFault \/ UNCHANGED vars
  BY <1>1, <1>6, Zenon DEF LinkFault, LinkFails, LapseFault, HeartbeatLapses, TimeoutFault,
                    HeartbeatTimeout, RestartFault, ProcessRestart, vars, wireVars, serverVars,
                    nodeSide
<1>. QED
  BY <1>4, <1>5, <1>6, Zenon DEF Next

\* Every step preserves OutputInv.
LEMMA OutputStep == OutputInv /\ [Next]_vars => OutputInv'
<1>. SUFFICES ASSUME OutputInv, [Next]_vars PROVE RouteInv' /\ TableInv' /\ OutputIsolation'
  BY TypeStep, Zenon DEF OutputInv
<1>0. /\ TypeInv /\ RouteInv /\ TableInv /\ OutputIsolation
      /\ WireTypeOK /\ ServerTypeOK /\ WireTypeOK' /\ ServerTypeOK'
      /\ \A k \in Conns : ConnNode[k] \in Nodes
  BY TypeStep, WireAssumption, Zenon DEF OutputInv, TypeInv, TypeOK
<1>1. /\ \A n \in Nodes, s \in Sids :
           restarts[n] = 0 /\ tunnel_sessions'[n][s] # None => Owner(n, s, tunnel_sessions'[n][s])
      /\ \A j \in Conns : /\ restarts[ConnNode[j]] = 0 =>
                               \A p \in sweep'[j] : Owner(ConnNode[j], p[1], p[2])
                          /\ \A p \in pend'[j] : Addressed(j, p)
      /\ \A c \in Cids : \A f \in inbox'[c] : restarts[f.node] = 0 => f.from = c
  <2>1. CASE \E k \in Conns : NodeTaskStep(k)
    BY <2>1, NodeTaskRoutes, Zenon
  <2>2. CASE ~ \E k \in Conns : NodeTaskStep(k)
    BY <1>0, <2>2, OtherRoutes, Zenon DEF RouteInv, TableInv, Addressed
  <2>. QED
    BY <2>1, <2>2, Zenon
<1>2. \A k \in Conns : restarts[ConnNode[k]] = 0 => toServer'[k] \in Seq(OwnedFrame(ConnNode[k]))
  <2>. SUFFICES ASSUME NEW k \in Conns, restarts[ConnNode[k]] = 0
                PROVE  toServer'[k] \in Seq(OwnedFrame(ConnNode[k]))
    BY Zenon
  <2>1. toServer[k] \in Seq(OwnedFrame(ConnNode[k])) /\ toServer \in [Conns -> Seq(ServerFrame)]
    BY <1>0, Zenon DEF RouteInv, WireTypeOK
  <2>2. CASE toServer' = toServer
    BY <2>1, <2>2, Zenon
  <2>3. ASSUME NEW j \in Conns, toServer[j] # <<>> /\ toServer' = [toServer EXCEPT ![j] = Tail(@)]
        PROVE  toServer'[k] \in Seq(OwnedFrame(ConnNode[k]))
    <3>1. Tail(toServer[k]) \in Seq(OwnedFrame(ConnNode[k])) \/ toServer[k] = <<>>
      BY <2>1, SeqClosed, Zenon
    <3>. QED
      BY <2>1, <2>3, <3>1, Zenon
  <2>4. ASSUME NEW j \in Conns, toServer' = [toServer EXCEPT ![j] = <<>>]
        PROVE  toServer'[k] \in Seq(OwnedFrame(ConnNode[k]))
    <3>1. <<>> \in Seq(OwnedFrame(ConnNode[k]))
      BY <2>1, SeqClosed, Zenon
    <3>. QED
      BY <2>1, <2>4, <3>1, Zenon
  <2>5. ASSUME NEW j \in Conns, NEW f \in OwnedFrame(ConnNode[j]), send_frame_data(j, f)
        PROVE  toServer'[k] \in Seq(OwnedFrame(ConnNode[k]))
    <3>1. toServer' = toServer \/ toServer' = [toServer EXCEPT ![j] = Append(@, f)]
      BY <2>5, Zenon DEF send_frame_data
    <3>2. j = k => Append(toServer[k], f) \in Seq(OwnedFrame(ConnNode[k]))
      BY <2>1, <2>5, SeqClosed, Zenon
    <3>. QED
      BY <2>1, <3>1, <3>2, Zenon
  <2>6. ASSUME NEW j \in Conns, NEW f \in ServerFrame, f.type \notin SessionFrames,
               send_frame_data(j, f)
        PROVE  toServer'[k] \in Seq(OwnedFrame(ConnNode[k]))
    BY <2>5, <2>6, Zenon DEF OwnedFrame, SessionFrames
  <2>7. ASSUME NEW n \in Nodes, NEW s \in Sids, NEW type \in SessionFrames, Sends(n, s, type)
        PROVE  toServer'[k] \in Seq(OwnedFrame(ConnNode[k]))
    BY <1>0, <2>5, <2>7, SendsOwned
  <2>. QED
    BY <1>0, <2>2, <2>3, <2>4, <2>6, <2>7, QueueSteps, Zenon
<1>3. TableInv'
  <2>1. ASSUME NEW n \in Nodes, NEW s \in Sids, NEW c, restarts'[n] = 0,
               c = tunnel_sessions'[n][s], c # None
        PROVE  Owner(n, s, c)'
    <3>1. Owner(n, s, c)
      BY <1>0, <1>1, <2>1, RestartsGrow, Zenon
    <3>. QED
      BY <1>0, <2>1, <3>1, OwnerKept, Zenon
  <2>. QED
    BY <2>1, Zenon DEF TableInv, Owner
<1>4. OutputIsolation'
  <2>. SUFFICES ASSUME NEW c \in Cids, NEW f \in inbox'[c], restarts'[f.node] = 0
                PROVE  f.from = c
    BY Zenon DEF OutputIsolation
  <2>1. f.node \in Nodes
    BY <1>0 DEF WireTypeOK, ClientFrame
  <2>. QED
    BY <1>0, <1>1, <2>1, RestartsGrow, Zenon
<1>5. RouteInv'
  <2>. SUFFICES ASSUME NEW k \in Conns
                PROVE  /\ \A p \in pend'[k] : p[2].node = ConnNode[k]
                       /\ restarts'[ConnNode[k]] = 0 =>
                            /\ toServer'[k] \in Seq(OwnedFrame(ConnNode[k])')
                            /\ \A p \in sweep'[k] : Owner(ConnNode[k], p[1], p[2])'
                            /\ \A p \in pend'[k] : p[2].from = p[1]
    BY Zenon DEF RouteInv
  <2>1. \A p \in pend'[k] : p[2].node = ConnNode[k]
    BY <1>1, Zenon DEF Addressed
  <2>2. ASSUME restarts'[ConnNode[k]] = 0
        PROVE  /\ toServer'[k] \in Seq(OwnedFrame(ConnNode[k])')
               /\ \A p \in sweep'[k] : Owner(ConnNode[k], p[1], p[2])'
               /\ \A p \in pend'[k] : p[2].from = p[1]
    <3>1. restarts[ConnNode[k]] = 0
      BY <1>0, <2>2, RestartsGrow, Zenon
    <3>2. toServer'[k] \in Seq(OwnedFrame(ConnNode[k])')
      BY <1>0, <1>2, <2>2, <3>1, OwnedKept, Zenon
    <3>3. ASSUME NEW p \in sweep'[k] PROVE Owner(ConnNode[k], p[1], p[2])'
      <4>1. p[1] \in Sids
        BY <1>0, <3>3 DEF ServerTypeOK
      <4>2. Owner(ConnNode[k], p[1], p[2])
        BY <1>1, <3>1, <3>3, Zenon
      <4>. QED
        BY <1>0, <2>2, <4>1, <4>2, OwnerKept, Zenon
    <3>. QED
      BY <1>1, <3>1, <3>2, <3>3, Zenon DEF Addressed
  <2>. QED
    BY <2>1, <2>2, Zenon
<1>. QED
  BY <1>3, <1>4, <1>5, Zenon

\* Nothing is on its way when the system starts.
LEMMA OutputInit == Init => OutputInv
<1>1. ASSUME Init PROVE RouteInv /\ TableInv /\ OutputIsolation
  <2>. USE <1>1 DEF Init, WireInit, ServerInit
  <2>1. \A k \in Conns : toServer[k] = <<>> /\ pend[k] = {} /\ sweep[k] = {}
    BY Zenon
  <2>2. \A S : <<>> \in Seq(S)
    OBVIOUS
  <2>3. RouteInv
    BY <2>1, <2>2, Zenon DEF RouteInv
  <2>4. TableInv
    BY Zenon DEF TableInv
  <2>5. OutputIsolation
    BY Zenon DEF OutputIsolation
  <2>. QED
    BY <2>3, <2>4, <2>5, Zenon
<1>. QED
  BY <1>1, TypeInit, Zenon DEF OutputInv

\* A web client is only ever sent output, errors and notices of sessions it
\* opened itself, as long as the agent of the node in question has not
\* restarted: for any number of clients, nodes, connections and sessions, any
\* interleaving of the server's tasks, and any loss of frames.
THEOREM OutputIsolated == Spec => []OutputIsolation
<1>1. OutputInv => OutputIsolation
  BY Zenon DEF OutputInv
<1>. QED
  BY <1>1, OutputInit, OutputStep, PTL DEF Spec

\* No entry of the server's tunnel table passes from one client to another
\* while the agent of its node has not restarted: handle_tunnel_opened inserts
\* without looking, but the entry before and the entry after a step both name
\* the owner of the session, and a session keeps its owner.
THEOREM TunnelsKept == Spec => TunnelKept
<1>1. OutputInv /\ OutputInv' /\ [Next]_vars => EntriesStay
  <2>. SUFFICES ASSUME OutputInv, OutputInv', [Next]_vars, NEW n \in Nodes, NEW s \in Sids,
                       restarts'[n] = 0, tunnel_sessions[n][s] # None, tunnel_sessions'[n][s] # None
                PROVE  tunnel_sessions'[n][s] = tunnel_sessions[n][s]
    BY Zenon DEF EntriesStay
  <2>1. restarts[n] = 0
    BY RestartsGrow, Zenon DEF OutputInv
  <2>2. Owner(n, s, tunnel_sessions[n][s])
    BY <2>1, Zenon DEF OutputInv, TableInv
  <2>3. task'[n][s].cid = tunnel_sessions[n][s]
    BY <2>2, SessionKept, Zenon DEF OutputInv, Owner
  <2>4. task'[n][s].cid = tunnel_sessions'[n][s]
    BY Zenon DEF OutputInv, TableInv, Owner
  <2>. QED
    BY <2>3, <2>4, Zenon
<1>2. OutputInv /\ OutputInv' /\ [Next]_vars => [EntriesStay]_vars
  BY <1>1, Zenon
<1>. QED
  BY <1>2, OutputInit, OutputStep, PTL DEF Spec, TunnelKept

-----------------------------------------------------------------------------
(* Handles.                                                                *)

\* Session s of node n runs and has not been told to stop.
Runs(n, s) == task[n][s].pc \notin {"free", "done"} /\ ~task[n][s].stop

\* The session of task t can be stopped by the reader of its connection.
Reachable(t, s) ==
  <<t.cid, s>> \in sessions[t.conn] /\ agentTask[t.conn] \in {"active", "detached"}

\* A step that starts and stops no session, drops no handle and ends no reader
\* preserves HandleHeld.
LEMMA HeldKept ==
  ASSUME TaskInv, HandleHeld,
         \A n \in Nodes, s \in Sids :
           Runs(n, s)' => /\ Runs(n, s)
                          /\ task'[n][s].cid = task[n][s].cid
                          /\ task'[n][s].conn = task[n][s].conn,
         \A k \in Conns :
           /\ sessions[k] \subseteq sessions'[k]
           /\ agentTask[k] \in {"active", "detached"} => agentTask'[k] \in {"active", "detached"}
  PROVE  HandleHeld'
<1>. SUFFICES ASSUME NEW n \in Nodes, NEW s \in Sids, Runs(n, s)'
              PROVE  Reachable(task[n][s], s)'
  BY Zenon DEF HandleHeld, Runs, Reachable
<1>1. Runs(n, s) /\ task'[n][s].cid = task[n][s].cid /\ task'[n][s].conn = task[n][s].conn
  BY Zenon
<1>2. task[n][s].conn \in Conns /\ Reachable(task[n][s], s)
  BY <1>1, Zenon DEF TaskInv, HandleHeld, Runs, Reachable
<1>. QED
  BY <1>1, <1>2, Zenon DEF Reachable

\* So does a step that takes handles out of a map and tells their sessions to
\* stop, all of them if the reader ends.
LEMMA StoppedHeld ==
  ASSUME AgentTypeOK, TaskInv, HandleHeld, NEW k \in Conns, ConnNode[k] \in Nodes, NEW keys,
         task' = [task EXCEPT ![ConnNode[k]] = Stopped(ConnNode[k], keys)],
         sessions' = [sessions EXCEPT ![k] = @ \ keys],
         \A j \in Conns : j # k => agentTask'[j] = agentTask[j],
         agentTask'[k] = agentTask[k] \/ keys = sessions[k]
  PROVE  HandleHeld'
<1>. SUFFICES ASSUME NEW n \in Nodes, NEW s \in Sids, Runs(n, s)'
              PROVE  Reachable(task[n][s], s)'
  BY Zenon DEF HandleHeld, Runs, Reachable
<1>0. task \in [Nodes -> [Sids -> TaskState]] /\ sessions \in [Conns -> SUBSET (Cids \X Sids)]
  BY Zenon DEF AgentTypeOK
<1>1. task'[n][s] = task[n][s] /\ (n = ConnNode[k] => <<task[n][s].cid, s>> \notin keys)
  <2>1. CASE n # ConnNode[k]
    BY <1>0, <2>1, Zenon
  <2>2. CASE n = ConnNode[k]
    <3>1. task'[n][s] = Stopped(n, keys)[s]
      BY <1>0, <2>2, Zenon
    <3>2. Stopped(n, keys)[s].pc = task[n][s].pc
      BY StoppedTasks
    <3>3. CASE <<task[n][s].cid, s>> \in keys
      <4>1. task[n][s].pc # "done"
        BY <3>1, <3>2, Zenon DEF Runs
      <4>2. Stopped(n, keys)[s] = [task[n][s] EXCEPT !.stop = TRUE]
        <5>1. Stopped(n, keys)[s] = IF <<task[n][s].cid, s>> \in keys /\ task[n][s].pc # "done"
                                    THEN [task[n][s] EXCEPT !.stop = TRUE] ELSE task[n][s]
          BY Zenon DEF Stopped
        <5>. QED
          BY <3>3, <4>1, <5>1, Zenon
      <4>3. task[n][s] \in TaskState
        BY <1>0, Zenon
      <4>4. [task[n][s] EXCEPT !.stop = TRUE].stop = TRUE
        BY <4>3, Zenon DEF TaskState
      <4>5. task'[n][s].stop = TRUE
        BY <3>1, <4>2, <4>4, Zenon
      <4>. QED
        BY <4>5, Zenon DEF Runs
    <3>4. CASE <<task[n][s].cid, s>> \notin keys
      BY <3>1, <3>4, Zenon DEF Stopped
    <3>. QED
      BY <3>3, <3>4, Zenon
  <2>. QED
    BY <2>1, <2>2, Zenon
<1>. DEFINE t == task[n][s]
<1>2. t.conn \in Conns /\ ConnNode[t.conn] = n /\ Reachable(t, s)
  BY <1>1, ZenonT(20) DEF TaskInv, HandleHeld, Runs, Reachable
<1>3. CASE t.conn = k
  <2>1. <<t.cid, s>> \in sessions[k] /\ <<t.cid, s>> \notin keys
    BY <1>1, <1>2, <1>3, Zenon DEF Reachable
  <2>2. agentTask'[k] = agentTask[k] /\ <<t.cid, s>> \in sessions'[k]
    BY <1>0, <2>1, Zenon
  <2>. QED
    BY <1>1, <1>2, <1>3, <2>2, Zenon DEF Reachable
<1>4. CASE t.conn # k
  <2>1. agentTask'[t.conn] = agentTask[t.conn] /\ sessions'[t.conn] = sessions[t.conn]
    BY <1>0, <1>2, <1>4, Zenon
  <2>. QED
    BY <1>1, <1>2, <2>1, Zenon DEF Reachable
<1>. QED
  BY <1>3, <1>4, Zenon

\* What a session task does to itself leaves it running only if it was.
LEMMA SessionRuns ==
  ASSUME AgentTypeOK, NEW n \in Nodes, NEW s \in Sids,
         SessionProgress(n, s) \/ SessionOutput(n, s) \/ ShellEnds(n, s),
         NEW m \in Nodes, NEW u \in Sids, Runs(m, u)'
  PROVE  Runs(m, u)
<1>0. task \in [Nodes -> [Sids -> TaskState]] /\ task[n][s] \in TaskState
  BY Zenon DEF AgentTypeOK
<1>1. ASSUME NEW t, task' = [task EXCEPT ![n][s] = t], task[n][s].pc # "free" /\ task[n][s].pc # "done",
             t.pc = "done" \/ t.stop = task[n][s].stop
      PROVE  Runs(m, u)
  <2>1. task'[m][u] = IF m = n /\ u = s THEN t ELSE task[m][u]
    BY <1>0, <1>1, Zenon
  <2>. QED
    BY <1>1, <2>1, Zenon DEF Runs
<1>2. CASE SessionProgress(n, s) \/ ShellEnds(n, s)
  <2>1. task[n][s].pc # "free" /\ task[n][s].pc # "done"
    BY <1>2, Zenon DEF SessionProgress, SshConnected, SftpAnnounced, SftpConnected, ConnectFails,
       SessionStops, ShellEnds, SessionClosed, DisconnectFails, At
  <2>2. PICK pc \in {"connecting", "open", "closing", "done"} : SessionGoes(n, s, pc)
    BY <1>2, Zenon DEF SessionProgress, SshConnected, SftpAnnounced, SftpConnected, ConnectFails,
       SessionStops, ShellEnds, SessionClosed, DisconnectFails
  <2>. DEFINE ends == [task[n][s] EXCEPT !.pc = pc, !.stop = FALSE, !.fed = {}, !.outs = 0]
              goes == [task[n][s] EXCEPT !.pc = pc]
  <2>3. ends.pc = pc /\ goes.stop = task[n][s].stop
    BY <1>0, Zenon DEF TaskState
  <2>4. task' = [task EXCEPT ![n][s] = IF pc = "done" THEN ends ELSE goes]
    BY <2>2, Zenon DEF SessionGoes
  <2>. HIDE DEF ends, goes
  <2>. QED
    BY <1>1, <2>1, <2>3, <2>4, Zenon
<1>3. CASE SessionOutput(n, s)
  <2>. DEFINE t == [task[n][s] EXCEPT !.outs = @ + 1]
  <2>1. t.stop = task[n][s].stop
    BY <1>0, Zenon DEF TaskState
  <2>2. task' = [task EXCEPT ![n][s] = t] /\ task[n][s].pc = "open"
    BY <1>3, Zenon DEF SessionOutput, At
  <2>. HIDE DEF t
  <2>. QED
    BY <1>1, <2>1, <2>2, Zenon
<1>. QED
  BY <1>2, <1>3, Zenon

\* Every step preserves HandleHeld.
LEMMA HeldStep == TypeInv /\ HandleHeld /\ [Next]_vars => HandleHeld'
<1>. SUFFICES ASSUME TypeInv, HandleHeld, [Next]_vars PROVE HandleHeld'
  BY Zenon
<1>0. WireTypeOK /\ AgentTypeOK /\ TaskInv
  BY Zenon DEF TypeInv, TypeOK
<1>1. CASE UNCHANGED agentVars
  BY <1>0, <1>1, HeldKept, Zenon DEF agentVars, Runs
<1>2. ASSUME NEW k \in Conns, Connect(k) \/ AuthAccepted(k) \/ HandleHeartbeatAck(k)
      PROVE  HandleHeld'
  <2>1. UNCHANGED <<sessions, task>>
    BY <1>2, Zenon DEF Connect, AuthAccepted, HandleHeartbeatAck
  <2>2. \A j \in Conns : agentTask[j] \in {"active", "detached"} => agentTask'[j] \in {"active", "detached"}
    BY <1>0, <1>2, Zenon DEF Connect, AuthAccepted, HandleHeartbeatAck, AgentTypeOK
  <2>. QED
    BY <1>0, <2>1, <2>2, HeldKept, Zenon DEF Runs
<1>3. ASSUME NEW k \in Conns, close_tunnels_for_cid(k) PROVE HandleHeld'
  <2>. DEFINE keys == {p \in sessions[k] : p[1] = Head(toAgent[k]).cid}
  <2>1. /\ task' = [task EXCEPT ![ConnNode[k]] = Stopped(ConnNode[k], keys)]
        /\ sessions' = [sessions EXCEPT ![k] = @ \ keys]
        /\ agentTask' = agentTask
    BY <1>3, Zenon DEF close_tunnels_for_cid
  <2>. HIDE DEF keys
  <2>. QED
    BY <1>0, <2>1, StoppedHeld, WireAssumption, Zenon
<1>4. ASSUME NEW k \in Conns, ReaderEnds(k) \/ HeartbeatTimeout(k) PROVE HandleHeld'
  <2>1. CloseAll(k) /\ \A j \in Conns : j # k => agentTask'[j] = agentTask[j]
    BY <1>0, <1>4, Zenon DEF ReaderEnds, HeartbeatTimeout, AgentTypeOK
  <2>2. sessions' = [sessions EXCEPT ![k] = @ \ sessions[k]]
    <3>1. sessions[k] \ sessions[k] = {}
      BY Zenon
    <3>. QED
      BY <2>1, <3>1, Zenon DEF CloseAll
  <2>3. task' = [task EXCEPT ![ConnNode[k]] = Stopped(ConnNode[k], sessions[k])]
    BY <2>1, Zenon DEF CloseAll
  <2>. QED
    BY <1>0, <2>1, <2>2, <2>3, StoppedHeld, WireAssumption, Zenon
<1>5. ASSUME NEW k \in Conns, OpenSession(k) PROVE HandleHeld'
  <2>. DEFINE n == ConnNode[k]
              s == nextSid[n]
              f == Head(toAgent[k])
              new == NewTask(k, f)
  <2>1. /\ n \in Nodes /\ s \in Sids
        /\ task' = [task EXCEPT ![n][s] = new]
        /\ sessions' = [sessions EXCEPT ![k] = @ \cup {<<f.cid, s>>}]
        /\ agentTask' = agentTask /\ agentTask[k] \in {"active", "detached"}
    BY <1>5, WireAssumption, Zenon DEF OpenSession, Handles
  <2>2. new.cid = f.cid /\ new.conn = k
    BY Zenon DEF NewTask
  <2>. HIDE DEF new, f, s, n
  <2>3. task'[n][s] = new /\ \A m \in Nodes, u \in Sids : ~ (m = n /\ u = s) => task'[m][u] = task[m][u]
    BY <1>0, <2>1, Zenon DEF AgentTypeOK
  <2>4. <<f.cid, s>> \in sessions'[k] /\ \A j \in Conns : sessions[j] \subseteq sessions'[j]
    BY <1>0, <2>1, Zenon DEF AgentTypeOK
  <2>5. ASSUME NEW m \in Nodes, NEW u \in Sids, Runs(m, u)' PROVE Reachable(task[m][u], u)'
    <3>1. CASE m = n /\ u = s
      BY <2>1, <2>2, <2>3, <2>4, <3>1, Zenon DEF Reachable
    <3>2. CASE ~ (m = n /\ u = s)
      <4>1. task'[m][u] = task[m][u] /\ Runs(m, u)
        BY <2>3, <2>5, <3>2, Zenon DEF Runs
      <4>2. task[m][u].conn \in Conns /\ Reachable(task[m][u], u)
        BY <1>0, <4>1, Zenon DEF TaskInv, HandleHeld, Runs, Reachable
      <4>. QED
        BY <2>1, <2>4, <4>1, <4>2, Zenon DEF Reachable
    <3>. QED
      BY <3>1, <3>2, Zenon
  <2>. QED
    BY <2>5, Zenon DEF HandleHeld, Runs, Reachable
<1>6. ASSUME NEW k \in Conns, FeedSession(k) PROVE HandleHeld'
  <2>. DEFINE n == ConnNode[k]
              f == Head(toAgent[k])
              t == [task[n][f.sid] EXCEPT !.fed = @ \cup {f.cid}]
  <2>0. n \in Nodes /\ f.sid \in Sids
    BY <1>0, <1>6, WireAssumption, HandlesTypes, FrameFields, Zenon DEF FeedSession
  <2>1. /\ sessions' = sessions /\ agentTask' = agentTask
        /\ task' = task \/ task' = [task EXCEPT ![n][f.sid] = t]
    BY <1>6, Zenon DEF FeedSession
  <2>. HIDE DEF f
  <2>2. /\ t.pc = task[n][f.sid].pc /\ t.stop = task[n][f.sid].stop
        /\ t.cid = task[n][f.sid].cid /\ t.conn = task[n][f.sid].conn
    <3>1. task[n][f.sid] \in TaskState
      BY <1>0, <2>0, Zenon DEF AgentTypeOK
    <3>. QED
      BY <3>1, Zenon DEF TaskState
  <2>. HIDE DEF t, n
  <2>3. CASE task' = task
    BY <1>0, <2>1, <2>3, HeldKept, Zenon DEF Runs
  <2>4. CASE task' = [task EXCEPT ![n][f.sid] = t]
    <3>1. \A m \in Nodes, u \in Sids : task'[m][u] = IF m = n /\ u = f.sid THEN t ELSE task[m][u]
      BY <1>0, <2>0, <2>4, Zenon DEF AgentTypeOK
    <3>2. \A m \in Nodes, u \in Sids :
            /\ task'[m][u].pc = task[m][u].pc /\ task'[m][u].stop = task[m][u].stop
            /\ task'[m][u].cid = task[m][u].cid /\ task'[m][u].conn = task[m][u].conn
      BY <2>2, <3>1, Zenon
    <3>. QED
      BY <1>0, <2>1, <3>2, HeldKept, Zenon DEF Runs
  <2>. QED
    BY <2>1, <2>3, <2>4, Zenon
<1>7. ASSUME NEW n \in Nodes, NEW s \in Sids,
             SessionProgress(n, s) \/ SessionOutput(n, s) \/ ShellEnds(n, s)
      PROVE  HandleHeld'
  <2>1. UNCHANGED <<agentTask, sessions>>
    BY <1>7, Zenon DEF SessionProgress, SshConnected, SftpAnnounced, SftpConnected, ConnectFails,
       SessionStops, ShellEnds, SessionClosed, DisconnectFails, SessionGoes, SessionOutput
  <2>2. \A m \in Nodes, u \in Sids : task'[m][u].cid = task[m][u].cid /\ task'[m][u].conn = task[m][u].conn
    BY <1>0, <1>7, SessionKeepsTask, Zenon
  <2>3. \A m \in Nodes, u \in Sids : Runs(m, u)' => Runs(m, u)
    BY <1>0, <1>7, SessionRuns, Zenon
  <2>. QED
    BY <1>0, <2>1, <2>2, <2>3, HeldKept, Zenon
<1>8. ASSUME NEW n \in Nodes, ProcessRestart(n) PROVE HandleHeld'
  <2>. DEFINE mine == {k \in Conns : ConnNode[k] = n /\ agentTask[k] # "none"}
  <2>1. /\ agentTask' = [k \in Conns |-> IF k \in mine THEN "done" ELSE agentTask[k]]
        /\ sessions' = [k \in Conns |-> IF k \in mine THEN {} ELSE sessions[k]]
        /\ task' = [task EXCEPT ![n] = [s \in Sids |-> NoTask]]
    BY <1>8, Zenon DEF ProcessRestart
  <2>2. NoTask.pc = "free"
    BY Zenon DEF NoTask
  <2>. HIDE DEF NoTask
  <2>3. ASSUME NEW m \in Nodes, NEW u \in Sids, Runs(m, u)' PROVE Reachable(task[m][u], u)'
    <3>1. m # n /\ task'[m][u] = task[m][u]
      BY <1>0, <2>1, <2>2, <2>3, Zenon DEF AgentTypeOK, Runs
    <3>2. Runs(m, u)
      BY <2>3, <3>1, Zenon DEF Runs
    <3>3. task[m][u].conn \in Conns /\ ConnNode[task[m][u].conn] = m /\ Reachable(task[m][u], u)
      BY <1>0, <3>2, Zenon DEF TaskInv, HandleHeld, Runs, Reachable
    <3>4. /\ agentTask'[task[m][u].conn] = agentTask[task[m][u].conn]
          /\ sessions'[task[m][u].conn] = sessions[task[m][u].conn]
      BY <2>1, <3>1, <3>3, Zenon
    <3>. QED
      BY <3>1, <3>3, <3>4, Zenon DEF Reachable
  <2>. QED
    BY <2>3, Zenon DEF HandleHeld, Runs, Reachable
<1>9. CASE AgentStep
  <2>1. ASSUME NEW k \in Conns, HeartbeatTick(k) \/ ensure_credentials(k) PROVE HandleHeld'
    BY <1>1, <2>1, Zenon DEF HeartbeatTick, ensure_credentials
  <2>. QED
    BY <1>2, <1>3, <1>4, <1>5, <1>6, <1>7, <1>9, <2>1, Zenon DEF AgentStep, AgentReaderStep
<1>10. CASE LinkFault \/ LapseFault \/ UNCHANGED vars \/ UNCHANGED agentVars
  BY <1>1, <1>10, Zenon DEF LinkFault, LapseFault, vars
<1>11. CASE TimeoutFault \/ RestartFault
  BY <1>4, <1>8, <1>11, Zenon DEF TimeoutFault, RestartFault
<1>. QED
  BY <1>9, <1>10, <1>11, Zenon DEF Next

\* Every session task that runs and has not been told to stop can be: its
\* handle is in the map of a connection whose reader runs, however connections
\* are given up, broken, replaced or restarted while sessions are opened.
THEOREM HandlesHeld == Spec => []HandleHeld
<1>1. Init => TypeInv /\ HandleHeld
  <2>1. NoTask.pc = "free"
    BY Zenon DEF NoTask
  <2>2. Init => \A n \in Nodes, s \in Sids : task[n][s] = NoTask
    BY ZenonT(20) DEF Init, AgentInit
  <2>3. Init => HandleHeld
    BY <2>1, <2>2, Zenon DEF HandleHeld
  <2>. QED
    BY <2>3, TypeInit, Zenon
<1>2. TypeInv /\ HandleHeld /\ [Next]_vars => (TypeInv /\ HandleHeld)'
  BY TypeStep, HeldStep, Zenon
<1>. QED
  BY <1>1, <1>2, PTL DEF Spec
=============================================================================
