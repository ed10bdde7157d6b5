---------------------------- MODULE OpeningProofs ----------------------------
(***************************************************************************)
(* The order of notices: a client hears that a session is open before it   *)
(* sees any of its output.                                                 *)
(***************************************************************************)
EXTENDS IsolationProofs

-----------------------------------------------------------------------------
(* Announcements.                                                          *)

\* Frames of connection k: those of a session name its owner, go out by the
\* connection it was opened on, and follow its first.
HomeFrame(k) ==
  {f \in OwnedFrame(ConnNode[k]) :
     f.type \in SessionFrames => /\ task[ConnNode[k]][f.sid].conn = k
                                 /\ task[ConnNode[k]][f.sid].pc # "spawned"}

HomeInv ==
  \A k \in Conns : restarts[ConnNode[k]] = 0 => toServer[k] \in Seq(HomeFrame(k))

\* Whoever owns a session, or is about to, has connected.
Known(c) == c \in Cids /\ webTask[c] # "none"
KnownFrame == {f \in AgentFrame : f.type = "open" => Known(f.cid)}

KnownInv ==
  /\ \A k \in Conns : toAgent[k] \in Seq(KnownFrame)
  /\ \A c \in Cids : \A p \in forward[c] : p[2] \in KnownFrame
  /\ \A n \in Nodes, s \in Sids : s < nextSid[n] => Known(task[n][s].cid)

\* Client c has been told that session s of node n is open, or has gone.  A
\* client that has gone does not come back: its id is never used again.
Announced(n, s, c) ==
  c \in connections => \E g \in inbox[c] : g.type = "opened" /\ g.node = n /\ g.sid = s

\* The node task that has entered session s is about to tell client c.
Announcing(n, s, c) ==
  \E k \in Conns :
    /\ task[n][s].conn = k
    /\ \E p \in pend[k] : p[1] = c /\ p[2].type = "opened" /\ p[2].node = n /\ p[2].sid = s

\* Sessions in the table are announced, or are being announced by the very
\* task that will handle their next frame.
AnnounceInv ==
  /\ \A k \in Conns : \A p, q \in pend[k] : p = q
  /\ \A n \in Nodes, s \in Sids, c \in Cids :
       restarts[n] = 0 /\ tunnel_sessions[n][s] = c => Announced(n, s, c) \/ Announcing(n, s, c)
  /\ \A k \in Conns : restarts[ConnNode[k]] = 0 =>
       \A p \in pend[k] :
         /\ p[2].sid \in Sids => Owner(ConnNode[k], p[2].sid, p[1])
         /\ p[2].type = "data" => p[2].sid \in Sids /\ Announced(ConnNode[k], p[2].sid, p[1])

\* The inductive strengthening of OpenedBeforeData.
OpenInv == OutputInv /\ HomeInv /\ KnownInv /\ AnnounceInv /\ OpenedBeforeData

-----------------------------------------------------------------------------
(* What steps do to clients and to the queues from the agents.             *)

\* What a step can put on a web client's channel: nothing, the error for a
\* tunnel to an unknown node, or what a node task has pending.
LEMMA InboxSteps ==
  ASSUME [Next]_vars
  PROVE  \/ inbox' = inbox
         \/ \E c \in Cids, n \in Nodes : \E m :
              notify_client_by_cid(c, WebFrame("error", n, 0, c, m))
         \/ \E k \in Conns : NodeNotify(k) /\ UNCHANGED <<agentVars, faultVars>>
<1>1. ASSUME NEW c \in Cids,
             \/ WebClientStep(c) \/ WebForward(c)
             \/ \E n \in Nodes : notify_nodes_client_disconnect(c, n)
      PROVE  \/ inbox' = inbox
             \/ \E n \in Nodes : \E m : notify_client_by_cid(c, WebFrame("error", n, 0, c, m))
  BY <1>1, Zenon DEF WebClientStep, WebConnect, update_web_heartbeat, handle_web_open_tunnel,
              handle_web_session_request, disconnect_web_client, WebForward,
              notify_nodes_client_disconnect, wireVars
<1>2. ASSUME NEW k \in Conns, NodeTaskStep(k)
      PROVE  inbox' = inbox \/ NodeNotify(k)
  BY <1>2, Zenon DEF NodeTaskStep, NodeAuth, NodeReject, NodeRegister, handle_node_heartbeat,
              handle_tunnel_opened, handle_tunnel_closed, handle_frame_response,
              NodeReaderEnds, disconnect_node, SessionsToClose,
              notify_all_clients_for_closed_tunnel, SweepDone, Finish, wireVars
<1>3. CASE ServerStep /\ UNCHANGED <<agentVars, faultVars>>
  <2>1. CASE cleanup_dangling_connections
    BY <2>1, Zenon DEF cleanup_dangling_connections, wireVars
  <2>. QED
    BY <1>1, <1>2, <1>3, <2>1, Zenon DEF ServerStep
<1>4. CASE AgentStep
  <2>1. ASSUME NEW k \in Conns, Connect(k) \/ AgentReaderStep(k) \/ HeartbeatTick(k)
        PROVE  inbox' = inbox
    BY <2>1, Zenon DEF Connect, AgentReaderStep, AuthAccepted, OpenSession, ensure_credentials,
                HandleHeartbeatAck, close_tunnels_for_cid, FeedSession, ReaderEnds, HeartbeatTick
  <2>2. ASSUME NEW n \in Nodes, NEW s \in Sids,
               SessionProgress(n, s) \/ SessionOutput(n, s) \/ ShellEnds(n, s)
        PROVE  inbox' = inbox
    BY <2>2, Zenon DEF SessionProgress, SshConnected, SftpAnnounced, SftpConnected,
       ConnectFails,
                SessionStops, ShellEnds, SessionClosed, DisconnectFails, SessionGoes, SessionOutput
  <2>. QED
    BY <1>4, <2>1, <2>2, Zenon DEF AgentStep
<1>5. CASE LinkFault \/ LapseFault \/ TimeoutFault \/ RestartFault \/ UNCHANGED vars
  BY <1>5, Zenon DEF LinkFault, LinkFails, LapseFault, HeartbeatLapses, TimeoutFault,
              HeartbeatTimeout, RestartFault, ProcessRestart, vars, wireVars
<1>. QED
  BY <1>3, <1>4, <1>5, Zenon DEF Next

\* A frame put on a channel stays there, and is the only new one.
LEMMA NotifyGrows ==
  ASSUME TypeInv, NEW c \in Cids, NEW f, notify_client_by_cid(c, f)
  PROVE  /\ c \in connections => f \in inbox'[c]
         /\ \A d \in Cids : /\ inbox[d] \subseteq inbox'[d]
                            /\ inbox'[d] = inbox[d] \/ (d = c /\ inbox'[d] = inbox[d] \cup {f})
<1>1. inbox \in [Cids -> SUBSET ClientFrame]
  BY Zenon DEF TypeInv, TypeOK, WireTypeOK
<1>2. inbox' = IF c \in connections THEN [inbox EXCEPT ![c] = @ \cup {f}] ELSE inbox
  BY Zenon DEF notify_client_by_cid
<1>. QED
  BY <1>1, <1>2, Zenon

\* Channels only grow, clients that have connected are not new any more, and
\* one that is not registered any more does not come back.
LEMMA ClientsKept ==
  ASSUME TypeInv, [Next]_vars, NEW c \in Cids
  PROVE  /\ inbox[c] \subseteq inbox'[c]
         /\ webTask[c] # "none" => /\ webTask'[c] # "none"
                                   /\ c \in connections' => c \in connections
<1>0. ServerTypeOK
  BY Zenon DEF TypeInv, TypeOK
<1>1. inbox[c] \subseteq inbox'[c]
  <2>1. CASE inbox' = inbox
    BY <2>1, Zenon
  <2>2. ASSUME NEW d \in Cids, NEW f, notify_client_by_cid(d, f)
        PROVE  inbox[c] \subseteq inbox'[c]
    BY <2>2, NotifyGrows, Zenon
  <2>3. ASSUME NEW k \in Conns, NodeNotify(k)
        PROVE  inbox[c] \subseteq inbox'[c]
    <3>1. PICK p \in pend[k] : notify_client_by_cid(p[1], p[2])
      BY <2>3, Zenon DEF NodeNotify
    <3>2. p[1] \in Cids
      BY <1>0 DEF ServerTypeOK
    <3>. QED
      BY <2>2, <3>1, <3>2, Zenon
  <2>. QED
    BY <2>1, <2>2, <2>3, InboxSteps, Zenon
<1>2. CASE UNCHANGED <<webTask, connections>>
  BY <1>1, <1>2, Zenon
<1>3. ASSUME NEW d \in Cids, WebClientStep(d)
      PROVE  webTask[c] # "none" => /\ webTask'[c] # "none"
                                    /\ c \in connections' => c \in connections
  <2>1. CASE WebConnect(d)
    BY <1>0, <2>1, Zenon DEF WebConnect, ServerTypeOK
  <2>2. CASE disconnect_web_client(d)
    BY <1>0, <2>2, Zenon DEF disconnect_web_client, ServerTypeOK
  <2>. QED
    BY <1>2, <1>3, <2>1, <2>2, Zenon DEF WebClientStep, update_web_heartbeat,
       handle_web_open_tunnel,
                                  handle_web_session_request, webSide
<1>4. ASSUME NEW d \in Cids, WebForward(d) \/ \E n \in Nodes : notify_nodes_client_disconnect(d, n)
      PROVE  UNCHANGED <<webTask, connections>>
  BY <1>4, Zenon DEF WebForward, notify_nodes_client_disconnect
<1>5. ASSUME NEW k \in Conns, NodeTaskStep(k)
      PROVE  UNCHANGED <<webTask, connections>>
  BY <1>5, Zenon DEF NodeTaskStep, NodeAuth, NodeReject, NodeRegister, handle_node_heartbeat,
              handle_tunnel_opened, handle_tunnel_closed, handle_frame_response, NodeNotify,
              NodeReaderEnds, disconnect_node, SessionsToClose,
              notify_all_clients_for_closed_tunnel, SweepDone, webSide
<1>6. CASE cleanup_dangling_connections
  BY <1>1, <1>6, Zenon DEF cleanup_dangling_connections, webSide
<1>7. CASE ServerStep
  BY <1>1, <1>2, <1>3, <1>4, <1>5, <1>6, <1>7, Zenon DEF ServerStep
<1>8. CASE UNCHANGED serverVars \/ LapseFault
  BY <1>2, <1>8, Zenon DEF serverVars, LapseFault, HeartbeatLapses, webSide
<1>. QED
  BY <1>7, <1>8, Zenon DEF Next, LinkFault, TimeoutFault, RestartFault, vars

\* Frames at home on connection k still are after a step.
LEMMA HomeKept ==
  ASSUME TypeInv, [Next]_vars, NEW k \in Conns, restarts'[ConnNode[k]] = 0
  PROVE  HomeFrame(k) \subseteq HomeFrame(k)'
<1>. SUFFICES ASSUME NEW f \in HomeFrame(k) PROVE f \in HomeFrame(k)'
  BY Zenon
<1>0. ConnNode[k] \in Nodes
  BY WireAssumption, Zenon
<1>1. /\ f \in ServerFrame /\ f \in OwnedFrame(ConnNode[k])
      /\ f.type \in SessionFrames => /\ Owner(ConnNode[k], f.sid, f.cid)
                                     /\ task[ConnNode[k]][f.sid].conn = k
                                     /\ task[ConnNode[k]][f.sid].pc # "spawned"
  BY Zenon DEF HomeFrame, OwnedFrame, SessionFrames
<1>2. CASE f.type \in SessionFrames
  <2>1. f.sid \in Sids
    BY <1>1, <1>2, FrameFields, Zenon DEF SessionFrames
  <2>2. /\ task'[ConnNode[k]][f.sid].conn = k
        /\ task'[ConnNode[k]][f.sid].pc # "spawned"
    BY <1>0, <1>1, <1>2, <2>1, SessionKept, Zenon DEF Owner
  <2>3. Owner(ConnNode[k], f.sid, f.cid)'
    BY <1>0, <1>1, <1>2, <2>1, OwnerKept, Zenon
  <2>. QED
    BY <1>1, <2>2, <2>3, Zenon DEF HomeFrame, OwnedFrame
<1>3. CASE f.type \notin SessionFrames
  BY <1>1, <1>3, Zenon DEF HomeFrame, OwnedFrame, SessionFrames
<1>. QED
  BY <1>2, <1>3, Zenon

\* Every step preserves HomeInv.
LEMMA HomeStep ==
  ASSUME TypeInv, HomeInv, [Next]_vars
  PROVE  HomeInv'
<1>. SUFFICES ASSUME NEW k \in Conns, restarts'[ConnNode[k]] = 0
              PROVE  toServer'[k] \in Seq(HomeFrame(k)')
  BY Zenon DEF HomeInv
<1>0. /\ toServer \in [Conns -> Seq(ServerFrame)] /\ ConnNode[k] \in Nodes
  BY WireAssumption, Zenon DEF TypeInv, TypeOK, WireTypeOK
<1>1. toServer[k] \in Seq(HomeFrame(k)')
  <2>1. toServer[k] \in Seq(HomeFrame(k))
    BY <1>0, RestartsGrow, Zenon DEF HomeInv
  <2>2. HomeFrame(k) \subseteq HomeFrame(k)'
    BY HomeKept, Zenon
  <2>. QED
    BY <2>1, <2>2
<1>2. CASE toServer' = toServer
  BY <1>1, <1>2, Zenon
<1>3. ASSUME NEW j \in Conns,
             \/ toServer[j] # <<>> /\ toServer' = [toServer EXCEPT ![j] = Tail(@)]
             \/ toServer' = [toServer EXCEPT ![j] = <<>>]
      PROVE  toServer'[k] \in Seq(HomeFrame(k)')
  <2>1. /\ toServer[k] # <<>> => Tail(toServer[k]) \in Seq(HomeFrame(k)')
        /\ <<>> \in Seq(HomeFrame(k)')
    BY <1>1, SeqClosed, Zenon
  <2>. QED
    BY <1>0, <1>1, <1>3, <2>1, Zenon
<1>4. ASSUME NEW j \in Conns, NEW f, send_frame_data(j, f), j = k => f \in HomeFrame(k)'
      PROVE  toServer'[k] \in Seq(HomeFrame(k)')
  <2>1. toServer' = toServer \/ toServer' = [toServer EXCEPT ![j] = Append(@, f)]
    BY <1>4, Zenon DEF send_frame_data
  <2>2. j = k => Append(toServer[k], f) \in Seq(HomeFrame(k)')
    BY <1>1, <1>4, SeqClosed, Zenon
  <2>. QED
    BY <1>0, <1>1, <2>1, <2>2, Zenon
<1>5. ASSUME NEW j \in Conns, NEW f \in ServerFrame, f.type \notin SessionFrames,
             send_frame_data(j, f)
      PROVE  toServer'[k] \in Seq(HomeFrame(k)')
  <2>1. f \in HomeFrame(k)'
    BY <1>5, Zenon DEF HomeFrame, OwnedFrame, SessionFrames
  <2>. QED
    BY <1>4, <1>5, <2>1, Zenon
<1>6. ASSUME NEW n \in Nodes, NEW s \in Sids, NEW type \in SessionFrames, Sends(n, s, type)
      PROVE  toServer'[k] \in Seq(HomeFrame(k)')
  <2>1. PICK f \in OwnedFrame(n) :
          /\ f.type = type /\ f.sid = s /\ f.cid = task[n][s].cid
          /\ send_frame_data(task[n][s].conn, f)
    BY <1>6, SendsOwned
  <2>2. /\ task[n][s].conn \in Conns /\ ConnNode[task[n][s].conn] = n /\ s < nextSid[n]
        /\ task'[n][s].pc # "spawned"
    BY <1>6, SendsOwned, Zenon DEF Sends
  <2>3. ASSUME task[n][s].conn = k
        PROVE  f \in HomeFrame(k)'
    <3>1. n = ConnNode[k] /\ task'[n][s].conn = k
      BY <1>0, <2>2, <2>3, SessionKept, Zenon
    <3>2. f \in OwnedFrame(n)'
      <4>1. Owner(n, s, f.cid)' /\ f \in ServerFrame
        BY <2>1, <2>2, <3>1, OwnerKept DEF Owner, OwnedFrame
      <4>. QED
        BY <2>1, <4>1, Zenon DEF OwnedFrame
    <3>. QED
      BY <2>1, <2>2, <3>1, <3>2, Zenon DEF HomeFrame
  <2>. QED
    BY <1>4, <2>1, <2>2, <2>3, Zenon
<1>. QED
  BY <1>2, <1>3, <1>5, <1>6, QueueSteps, Zenon

\* What a step can do to the queue to an agent.
LEMMA AgentQueueSteps ==
  ASSUME TypeInv, KnownInv, [Next]_vars, NEW k \in Conns
  PROVE  \/ toAgent'[k] = toAgent[k]
         \/ toAgent[k] # <<>> /\ toAgent'[k] = Tail(toAgent[k])
         \/ toAgent'[k] \in {<<>>, <<AuthResponse>>}
         \/ \E f \in KnownFrame : toAgent'[k] = Append(toAgent[k], f)
<1>. DEFINE Goal == \/ toAgent'[k] = toAgent[k]
                    \/ toAgent[k] # <<>> /\ toAgent'[k] = Tail(toAgent[k])
                    \/ toAgent'[k] \in {<<>>, <<AuthResponse>>}
                    \/ \E f \in KnownFrame : toAgent'[k] = Append(toAgent[k], f)
<1>0. toAgent \in [Conns -> Seq(AgentFrame)] /\ ServerTypeOK
  BY Zenon DEF TypeInv, TypeOK, WireTypeOK
<1>1. CASE toAgent' = toAgent
  BY <1>1, Zenon
<1>2. ASSUME NEW j \in Conns, NEW f \in KnownFrame, SendToNode(j, f) PROVE Goal
  BY <1>0, <1>2, Zenon DEF SendToNode
<1>3. ASSUME NEW c \in Cids, WebForward(c) PROVE Goal
  <2>1. PICK p \in forward[c] : SendToNode(p[1], p[2])
    BY <1>3, Zenon DEF WebForward
  <2>2. p[1] \in Conns /\ p[2] \in KnownFrame
    BY <1>0 DEF ServerTypeOK, KnownInv
  <2>. QED
    BY <1>2, <2>1, <2>2, Zenon
<1>4. ASSUME NEW c \in Cids, NEW n \in Nodes, notify_nodes_client_disconnect(c, n) PROVE Goal
  <2>1. ConnectionDisconnect(c) \in KnownFrame
    BY FrameTypes, Zenon DEF KnownFrame, ConnectionDisconnect
  <2>2. nodes[n] # None => nodes[n] \in Conns
    BY <1>0, Zenon DEF ServerTypeOK
  <2>. QED
    BY <1>1, <1>2, <1>4, <2>1, <2>2, Zenon DEF notify_nodes_client_disconnect
<1>5. ASSUME NEW c \in Cids, WebClientStep(c) PROVE toAgent' = toAgent
  BY <1>5, Zenon DEF WebClientStep, WebConnect, update_web_heartbeat, handle_web_open_tunnel,
              handle_web_session_request, disconnect_web_client, wireVars
<1>6. ASSUME NEW j \in Conns, NodeTaskStep(j) PROVE Goal
  <2>1. CASE NodeRegister(j)
    BY <1>0, <2>1, Zenon DEF NodeRegister
  <2>2. CASE handle_node_heartbeat(j)
    <3>1. HeartbeatAck \in KnownFrame
      BY FrameTypes, Zenon DEF KnownFrame, HeartbeatAck
    <3>2. ConnNode[j] \in Nodes
      BY WireAssumption, Zenon
    <3>3. nodes[NodeOf(j)] # None => nodes[NodeOf(j)] \in Conns
      BY <1>0, <3>2, Zenon DEF ServerTypeOK, NodeOf
    <3>. QED
      BY <1>1, <1>2, <2>2, <3>1, <3>3, Zenon DEF handle_node_heartbeat
  <2>3. CASE toAgent' = toAgent
    BY <1>1, <2>3, Zenon
  <2>4. NodeTaskStep(j) => NodeRegister(j) \/ handle_node_heartbeat(j) \/ toAgent' = toAgent
    BY Zenon DEF NodeTaskStep, NodeAuth, NodeReject, handle_tunnel_opened,
              handle_tunnel_closed, handle_frame_response, NodeNotify, NodeReaderEnds,
              disconnect_node, SessionsToClose, notify_all_clients_for_closed_tunnel,
              SweepDone, Finish, wireVars
  <2>. QED
    BY <1>6, <2>1, <2>2, <2>3, <2>4, Zenon
<1>7. ASSUME NEW j \in Conns,
             Connect(j) \/ AgentReaderStep(j) \/ HeartbeatTick(j) \/ HeartbeatTimeout(j)
      PROVE  Goal
  <2>1. \/ toAgent' = toAgent
        \/ toAgent[j] # <<>> /\ toAgent' = [toAgent EXCEPT ![j] = Tail(@)]
        \/ toAgent' = [toAgent EXCEPT ![j] = <<>>]
    BY <1>7, Zenon DEF Connect, AgentReaderStep, AuthAccepted, OpenSession, ensure_credentials,
                Handles, HandleHeartbeatAck, close_tunnels_for_cid, FeedSession, ReaderEnds,
                HeartbeatTick, HeartbeatTimeout, wireVars
  <2>. QED
    BY <1>0, <2>1, Zenon
<1>8. ASSUME NEW n \in Nodes, NEW s \in Sids,
             SessionProgress(n, s) \/ SessionOutput(n, s) \/ ShellEnds(n, s)
      PROVE  toAgent' = toAgent
  BY <1>8, Zenon DEF SessionProgress, SshConnected, SftpAnnounced, SftpConnected, ConnectFails,
              SessionStops, ShellEnds, SessionClosed, DisconnectFails, SessionGoes, SessionOutput
<1>9. CASE RestartFault
  BY <1>0, <1>9, Zenon DEF RestartFault, ProcessRestart
<1>. HIDE DEF Goal
<1>10. CASE ServerStep
  <2>1. CASE cleanup_dangling_connections
    BY <1>1, <2>1, Zenon DEF cleanup_dangling_connections, wireVars, Goal
  <2>. QED
    BY <1>1, <1>3, <1>4, <1>5, <1>6, <1>10, <2>1, Zenon DEF ServerStep, Goal
<1>11. CASE AgentStep \/ TimeoutFault
  BY <1>1, <1>7, <1>8, <1>11, Zenon DEF AgentStep, TimeoutFault, Goal
<1>12. CASE LinkFault \/ LapseFault \/ UNCHANGED vars
  BY <1>1, <1>12, Zenon DEF LinkFault, LinkFails, LapseFault, HeartbeatLapses, vars, wireVars,
     Goal
<1>. QED
  BY <1>9, <1>10, <1>11, <1>12, Zenon DEF Next, Goal

\* A session id that is handed out goes to a client with a queued request.
LEMMA IssueSteps ==
  ASSUME TypeInv, [Next]_vars, NEW n \in Nodes, NEW s \in Sids, s < nextSid'[n]
  PROVE  \/ s < nextSid[n] /\ task'[n][s].cid = task[n][s].cid
         \/ /\ nextSid[n] <= s /\ task'[n][s].pc = "spawned"
            /\ \E k \in Conns : /\ toAgent[k] # <<>> /\ Head(toAgent[k]).type = "open"
                                /\ task'[n][s].cid = Head(toAgent[k]).cid
<1>0. /\ WireTypeOK /\ AgentTypeOK /\ restarts \in [Nodes -> Nat]
      /\ s \in Nat /\ nextSid[n] \in Nat
  BY WireAssumption DEF TypeInv, TypeOK, AgentTypeOK, Sids
<1>1. CASE \E k \in Conns : OpenSession(k)
  <2>1. PICK k \in Conns : OpenSession(k)
    BY <1>1, Zenon
  <2>. DEFINE m == ConnNode[k]
              u == nextSid[m]
              t == NewTask(k, Head(toAgent[k]))
  <2>2. /\ u \in Sids /\ m \in Nodes
        /\ toAgent[k] # <<>> /\ Head(toAgent[k]).type = "open"
        /\ nextSid' = [nextSid EXCEPT ![m] = u + 1]
        /\ task' = [task EXCEPT ![m][u] = t]
    BY <2>1, WireAssumption, Zenon DEF OpenSession, Handles
  <2>3. t.cid = Head(toAgent[k]).cid /\ t.pc = "spawned"
    BY Zenon DEF NewTask
  <2>. HIDE DEF t
  <2>4. CASE n = m /\ s = u
    BY <1>0, <2>2, <2>3, <2>4 DEF AgentTypeOK
  <2>5. CASE ~ (n = m /\ s = u)
    <3>1. task'[n][s] = task[n][s]
      BY <1>0, <2>2, <2>5, Zenon DEF AgentTypeOK
    <3>2. s < nextSid[n]
      BY <1>0, <2>2, <2>5 DEF AgentTypeOK
    <3>. QED
      BY <3>1, <3>2, Zenon
  <2>. QED
    BY <2>4, <2>5, Zenon
<1>2. CASE RestartFault
  <2>1. PICK m \in Nodes : ProcessRestart(m)
    BY <1>2, Zenon DEF RestartFault
  <2>2. n # m
    BY <1>0, <2>1 DEF ProcessRestart, AgentTypeOK, Sids
  <2>. QED
    BY <1>0, <2>1, <2>2, Zenon DEF ProcessRestart, AgentTypeOK
<1>3. CASE ~ (\E k \in Conns : OpenSession(k)) /\ ~ RestartFault
  <2>1. nextSid' = nextSid
    <3>1. ASSUME NEW k \in Conns,
                 Connect(k) \/ AgentReaderStep(k) \/ HeartbeatTick(k) \/ HeartbeatTimeout(k)
          PROVE  nextSid' = nextSid
      BY <1>3, <3>1, Zenon DEF Connect, AgentReaderStep, AuthAccepted, ensure_credentials,
                  HandleHeartbeatAck, close_tunnels_for_cid, FeedSession, ReaderEnds,
                  HeartbeatTick, HeartbeatTimeout, agentVars
    <3>2. ASSUME NEW m \in Nodes, NEW u \in Sids,
                 SessionProgress(m, u) \/ SessionOutput(m, u) \/ ShellEnds(m, u)
          PROVE  nextSid' = nextSid
      BY <3>2, Zenon DEF SessionProgress, SshConnected, SftpAnnounced, SftpConnected,
         ConnectFails,
                  SessionStops, ShellEnds, SessionClosed, DisconnectFails, SessionGoes, SessionOutput
    <3>3. CASE AgentStep \/ TimeoutFault
      BY <3>1, <3>2, <3>3, Zenon DEF AgentStep, TimeoutFault
    <3>4. CASE UNCHANGED agentVars
      BY <3>4, Zenon DEF agentVars
    <3>. QED
      BY <1>3, <3>3, <3>4, Zenon DEF Next, LinkFault, LapseFault, vars
  <2>2. restarts' = restarts
    BY <1>3, Zenon DEF Next, LinkFault, LapseFault, TimeoutFault, Strikes, faultVars, vars
  <2>. QED
    BY <1>0, <2>1, <2>2, SessionKept, Zenon
<1>. QED
  BY <1>1, <1>2, <1>3, Zenon

\* What a step can have a web handler forward: only reading handlers forward.
LEMMA ForwardSteps ==
  ASSUME TypeInv, [Next]_vars, NEW c \in Cids
  PROVE  \/ forward'[c] \subseteq forward[c]
         \/ webTask[c] = "reading" /\ \A p \in forward'[c] : p[2].type = "open" => p[2].cid = c
<1>0. ServerTypeOK
  BY Zenon DEF TypeInv, TypeOK
<1>1. CASE forward' = forward
  BY <1>1, Zenon
<1>2. ASSUME NEW d \in Cids, WebClientStep(d)
      PROVE  \/ forward'[c] \subseteq forward[c]
             \/ webTask[c] = "reading" /\ \A p \in forward'[c] : p[2].type = "open" => p[2].cid = c
  <2>1. ASSUME NEW n \in Nodes, NEW q \in Protocols, handle_web_open_tunnel(d, n, q), forward' # forward
        PROVE  /\ webTask[d] = "reading"
               /\ forward' = [forward EXCEPT ![d] = {<<nodes[n], OpenTunnel(d, q, opens[d] + 1)>>}]
    BY <2>1, Zenon DEF handle_web_open_tunnel, WebReading
  <2>2. ASSUME NEW n \in Nodes, NEW q \in Protocols, handle_web_open_tunnel(d, n, q), forward' # forward
        PROVE  \/ forward'[c] \subseteq forward[c]
               \/ webTask[c] = "reading" /\ \A p \in forward'[c] : p[2].type = "open" => p[2].cid = c
    BY <1>0, <2>1, <2>2 DEF OpenTunnel, ServerTypeOK
  <2>3. ASSUME NEW n \in Nodes, NEW s \in Sids, handle_web_session_request(d, n, s)
        PROVE  \/ forward'[c] \subseteq forward[c]
               \/ webTask[c] = "reading" /\ \A p \in forward'[c] : p[2].type = "open" => p[2].cid = c
    <3>1. /\ webTask[d] = "reading"
          /\ forward' = [forward EXCEPT ![d] = {<<nodes[n], SessionRequest(d, s)>>}]
      BY <2>3, Zenon DEF handle_web_session_request, WebReading
    <3>. QED
      BY <1>0, <3>1 DEF SessionRequest, ServerTypeOK
  <2>4. CASE WebConnect(d) \/ update_web_heartbeat(d) \/ disconnect_web_client(d)
    BY <1>1, <2>4, Zenon DEF WebConnect, update_web_heartbeat, disconnect_web_client, webSide
  <2>. QED
    BY <1>1, <1>2, <2>2, <2>3, <2>4, Zenon DEF WebClientStep
<1>3. ASSUME NEW d \in Cids, WebForward(d)
      PROVE  forward'[c] \subseteq forward[c]
  BY <1>0, <1>3, Zenon DEF WebForward, ServerTypeOK
<1>4. ASSUME NEW d \in Cids, NEW n \in Nodes, notify_nodes_client_disconnect(d, n)
      PROVE  forward' = forward
  BY <1>4, Zenon DEF notify_nodes_client_disconnect
<1>5. ASSUME NEW k \in Conns, NodeTaskStep(k)
      PROVE  forward' = forward
  BY <1>5, Zenon DEF NodeTaskStep, NodeAuth, NodeReject, NodeRegister, handle_node_heartbeat,
              handle_tunnel_opened, handle_tunnel_closed, handle_frame_response, NodeNotify,
              NodeReaderEnds, disconnect_node, SessionsToClose,
              notify_all_clients_for_closed_tunnel, SweepDone, webSide
<1>6. CASE cleanup_dangling_connections
  BY <1>1, <1>6, Zenon DEF cleanup_dangling_connections, webSide
<1>7. CASE ServerStep
  BY <1>1, <1>2, <1>3, <1>4, <1>5, <1>6, <1>7, Zenon DEF ServerStep
<1>8. CASE UNCHANGED serverVars \/ LapseFault
  BY <1>1, <1>8, Zenon DEF serverVars, LapseFault, HeartbeatLapses, webSide
<1>. QED
  BY <1>7, <1>8, Zenon DEF Next, LinkFault, TimeoutFault, RestartFault, vars

\* Owners of sessions stay clients that have connected.
LEMMA KnownStep ==
  ASSUME TypeInv, TypeInv', KnownInv, [Next]_vars
  PROVE  KnownInv'
<1>0. /\ toAgent \in [Conns -> Seq(AgentFrame)]
      /\ ServerTypeOK /\ ServerTypeOK' /\ AgentTypeOK
  BY Zenon DEF TypeInv, TypeOK, WireTypeOK
<1>1. ASSUME NEW c, Known(c) PROVE Known(c)'
  BY <1>1, ClientsKept, Zenon DEF Known
<1>2. KnownFrame \subseteq KnownFrame'
  BY <1>1, Zenon DEF KnownFrame
<1>3. ASSUME NEW k \in Conns PROVE toAgent'[k] \in Seq(KnownFrame')
  <2>. DEFINE K == KnownFrame'
  <2>1. toAgent[k] \in Seq(K)
    <3>1. toAgent[k] \in Seq(KnownFrame)
      BY Zenon DEF KnownInv
    <3>. QED
      BY <1>2, <3>1, SMT
  <2>2. AuthResponse \in K
    BY FrameTypes, Zenon DEF KnownFrame, AuthResponse
  <2>3. \/ toAgent'[k] = toAgent[k]
        \/ toAgent[k] # <<>> /\ toAgent'[k] = Tail(toAgent[k])
        \/ toAgent'[k] \in {<<>>, <<AuthResponse>>}
        \/ \E f \in K : toAgent'[k] = Append(toAgent[k], f)
    BY <1>2, AgentQueueSteps, Zenon
  <2>. HIDE DEF K
  <2>4. toAgent'[k] \in Seq(K)
    <3>1. <<AuthResponse>> \in Seq(K)
      BY <2>2
    <3>. QED
      BY <2>1, <2>3, <3>1, SeqClosed, Zenon
  <2>. QED
    BY <2>4, Zenon DEF K
<1>4. ASSUME NEW c \in Cids, NEW p \in forward'[c] PROVE p[2] \in KnownFrame'
  <2>1. p[2] \in AgentFrame
    BY <1>0 DEF ServerTypeOK
  <2>2. CASE forward'[c] \subseteq forward[c]
    BY <1>2, <2>2, Zenon DEF KnownInv
  <2>3. CASE webTask[c] = "reading" /\ \A q \in forward'[c] : q[2].type = "open" => q[2].cid = c
    <3>1. Known(c)'
      BY <1>1, <2>3, Zenon DEF Known
    <3>. QED
      BY <2>1, <2>3, <3>1, Zenon DEF KnownFrame
  <2>. QED
    BY <2>2, <2>3, ForwardSteps, Zenon
<1>5. ASSUME NEW n \in Nodes, NEW s \in Sids, s < nextSid'[n] PROVE Known(task[n][s].cid)'
  <2>1. CASE s < nextSid[n] /\ task'[n][s].cid = task[n][s].cid
    <3>1. Known(task[n][s].cid)
      BY <2>1, Zenon DEF KnownInv
    <3>2. Known(task[n][s].cid) => task[n][s].cid \in Cids /\ webTask'[task[n][s].cid] # "none"
      BY ClientsKept, Zenon DEF Known
    <3>. QED
      BY <2>1, <3>1, <3>2, Zenon DEF Known
  <2>2. ASSUME NEW k \in Conns, toAgent[k] # <<>>, Head(toAgent[k]).type = "open",
               task'[n][s].cid = Head(toAgent[k]).cid
        PROVE  Known(task[n][s].cid)'
    <3>1. toAgent[k] \in Seq(KnownFrame)
      BY Zenon DEF KnownInv
    <3>. DEFINE h == Head(toAgent[k])
    <3>2. h \in KnownFrame
      BY <2>2, <3>1
    <3>3. Known(h.cid)
      BY <2>2, <3>2, Zenon DEF KnownFrame
    <3>4. h.cid \in Cids /\ webTask'[h.cid] # "none"
      BY <3>3, ClientsKept, Zenon DEF Known
    <3>. QED
      BY <2>2, <3>4, Zenon DEF Known
  <2>. QED
    BY <1>5, <2>1, <2>2, IssueSteps, Zenon
<1>. QED
  BY <1>3, <1>4, <1>5, Zenon DEF KnownInv

-----------------------------------------------------------------------------
(* What steps do to the tunnel table and to pending notices.               *)

\* Node task k takes a frame of this type, session and owner.
Reads(k, type, s, c) ==
  /\ LET f == Head(toServer[k]) IN toServer[k] # <<>> /\ f.type = type /\ f.sid = s /\ f.cid = c
  /\ toServer' = [toServer EXCEPT ![k] = Tail(@)]

\* Node task k changes the table and comes to owe client c notice g.
Handled(k, c, g) ==
  LET n == ConnNode[k] s == g.sid IN
  /\ pend[k] = {} /\ pend' = [pend EXCEPT ![k] = {<<c, g>>}]
  /\ g.node = n
  /\ \/ /\ g.type = "opened" /\ s \in Sids /\ Reads(k, "opened", s, c)
        /\ tunnel_sessions' = [tunnel_sessions EXCEPT ![n][s] = c]
     \/ /\ g.type = "closed" /\ s \in Sids
        /\ Reads(k, "closed", s, c) \/ <<s, c>> \in sweep[k]
        /\ tunnel_sessions' = [tunnel_sessions EXCEPT ![n][s] = None]
     \/ /\ g.type \in {"data", "error"} /\ s \in Sids
        /\ tunnel_sessions[n][s] = c /\ \E d \in Cids : Reads(k, g.type, s, d)
        /\ UNCHANGED tunnel_sessions
     \/ g.type = "error" /\ s = 0 /\ UNCHANGED tunnel_sessions

\* The handlers and one round of a sweep.
LEMMA HandlerSteps ==
  ASSUME TypeInv, NEW k \in Conns,
         \/ handle_tunnel_opened(k) \/ handle_tunnel_closed(k) \/ handle_frame_response(k)
         \/ notify_all_clients_for_closed_tunnel(k)
  PROVE  \/ UNCHANGED <<tunnel_sessions, pend>>
         \/ \E c \in Cids, g \in ClientFrame : Handled(k, c, g)
<1>. DEFINE f == Head(toServer[k])
            n == ConnNode[k]
<1>0. ServerTypeOK /\ WireTypeOK /\ n \in Nodes
  BY WireAssumption, Zenon DEF TypeInv, TypeOK
<1>1. ASSUME NEW types, Receives(k, types)
      PROVE  /\ toServer[k] # <<>> /\ f \in ServerFrame /\ f.type \in types /\ pend[k] = {}
             /\ toServer' = [toServer EXCEPT ![k] = Tail(@)]
  BY <1>0, <1>1, ReceivesTypes, Zenon DEF Receives
<1>2. CASE handle_tunnel_opened(k)
  <2>. DEFINE g == WebFrame("opened", n, f.sid, f.cid, f.msg)
  <2>1. /\ Receives(k, {"opened"})
        /\ tunnel_sessions' = [tunnel_sessions EXCEPT ![n][f.sid] = f.cid]
        /\ pend' = [pend EXCEPT ![k] = {<<f.cid, g>>}]
    BY <1>2, Zenon DEF handle_tunnel_opened, NodeOf
  <2>2. /\ toServer[k] # <<>> /\ f \in ServerFrame /\ f.type = "opened" /\ pend[k] = {}
        /\ toServer' = [toServer EXCEPT ![k] = Tail(@)]
    BY <1>1, <2>1
  <2>3. f.cid \in Cids /\ f.sid \in Sids /\ f.msg \in Msgs
    BY <2>2, FrameFields, Zenon
  <2>4. g \in ClientFrame /\ g.type = "opened" /\ g.node = n /\ g.sid = f.sid
    BY <1>0, <2>3, FrameTypes, WebFrameFields
  <2>5. Handled(k, f.cid, g)
    BY <2>1, <2>2, <2>3, <2>4, Zenon DEF Handled, Reads
  <2>. QED
    BY <2>3, <2>4, <2>5, Zenon
<1>3. CASE handle_tunnel_closed(k)
  <2>. DEFINE g == WebFrame("closed", n, f.sid, f.cid, f.msg)
  <2>1. /\ Receives(k, {"closed"})
        /\ tunnel_sessions' = [tunnel_sessions EXCEPT ![n][f.sid] = None]
        /\ pend' = [pend EXCEPT ![k] = {<<f.cid, g>>}]
    BY <1>3, Zenon DEF handle_tunnel_closed, NodeOf
  <2>2. /\ toServer[k] # <<>> /\ f \in ServerFrame /\ f.type = "closed" /\ pend[k] = {}
        /\ toServer' = [toServer EXCEPT ![k] = Tail(@)]
    BY <1>1, <2>1
  <2>3. f.cid \in Cids /\ f.sid \in Sids /\ f.msg \in Msgs
    BY <2>2, FrameFields, Zenon
  <2>4. g \in ClientFrame /\ g.type = "closed" /\ g.node = n /\ g.sid = f.sid
    BY <1>0, <2>3, FrameTypes, WebFrameFields
  <2>5. Handled(k, f.cid, g)
    BY <2>1, <2>2, <2>3, <2>4, Zenon DEF Handled, Reads
  <2>. QED
    BY <2>3, <2>4, <2>5, Zenon
<1>4. CASE handle_frame_response(k)
  <2>. DEFINE t == IF f.type = "data" THEN "data" ELSE "error"
              c == IF f.type = "refused" THEN f.cid ELSE tunnel_sessions[n][f.sid]
              g == WebFrame(t, n, f.sid, f.cid, f.msg)
  <2>1. /\ Receives(k, {"data", "error", "refused"}) /\ UNCHANGED tunnel_sessions
        /\ pend' = IF c = None THEN pend ELSE [pend EXCEPT ![k] = {<<c, g>>}]
    BY <1>4, Zenon DEF handle_frame_response, NodeOf, get_connection_id_by_sid
  <2>2. /\ toServer[k] # <<>> /\ f \in ServerFrame /\ f.type \in {"data", "error", "refused"}
        /\ pend[k] = {} /\ toServer' = [toServer EXCEPT ![k] = Tail(@)]
    BY <1>1, <2>1, Zenon
  <2>3. /\ f.cid \in Cids /\ f.msg \in Msgs
        /\ IF f.type = "refused" THEN f.sid = 0 ELSE f.sid \in Sids
    BY <2>2, FrameFields, Zenon
  <2>4. g \in ClientFrame /\ g.type = t /\ g.node = n /\ g.sid = f.sid
    BY <1>0, <2>3, FrameTypes, WebFrameFields
  <2>5. CASE c = None
    BY <2>1, <2>5, Zenon
  <2>6. CASE c # None /\ f.type = "refused"
    <3>1. c \in Cids /\ g.type = "error" /\ g.sid = 0
      BY <2>3, <2>4, <2>6, Zenon
    <3>2. pend' = [pend EXCEPT ![k] = {<<c, g>>}]
      BY <2>1, <2>6, Zenon
    <3>. HIDE DEF c, g
    <3>3. Handled(k, c, g)
      BY <2>1, <2>2, <2>4, <3>1, <3>2, Zenon DEF Handled
    <3>. QED
      BY <2>4, <3>1, <3>3, Zenon
  <2>7. CASE c # None /\ f.type \in {"data", "error"}
    <3>1. /\ c \in Cids /\ g.type = f.type /\ g.sid = f.sid /\ f.sid \in Sids
          /\ tunnel_sessions[n][g.sid] = c
      <4>1. c = tunnel_sessions[n][f.sid] /\ f.sid \in Sids /\ t = f.type
        BY <2>3, <2>7, Zenon
      <4>2. tunnel_sessions[n][f.sid] \in Cids \cup {None}
        BY <1>0, <4>1 DEF ServerTypeOK
      <4>. QED
        BY <2>4, <2>7, <4>1, <4>2, Zenon
    <3>2. pend' = [pend EXCEPT ![k] = {<<c, g>>}]
      BY <2>1, <2>7, Zenon
    <3>3. Reads(k, g.type, g.sid, f.cid)
      BY <2>2, <3>1, Zenon DEF Reads
    <3>. HIDE DEF c, g
    <3>4. Handled(k, c, g)
      BY <2>1, <2>2, <2>3, <2>4, <2>7, <3>1, <3>2, <3>3, Zenon DEF Handled
    <3>. QED
      BY <2>4, <3>1, <3>4, Zenon
  <2>. QED
    BY <2>2, <2>5, <2>6, <2>7, Zenon
<1>5. CASE notify_all_clients_for_closed_tunnel(k)
  <2>1. pend[k] = {} /\ \E p \in sweep[k] :
          /\ tunnel_sessions' = [tunnel_sessions EXCEPT ![n][p[1]] = None]
          /\ pend' = [pend EXCEPT ![k] = {<<p[2], WebFrame("closed", n, p[1], p[2], 0)>>}]
    BY <1>5, Zenon DEF notify_all_clients_for_closed_tunnel, NodeOf
  <2>2. PICK p \in sweep[k] :
          /\ tunnel_sessions' = [tunnel_sessions EXCEPT ![n][p[1]] = None]
          /\ pend' = [pend EXCEPT ![k] = {<<p[2], WebFrame("closed", n, p[1], p[2], 0)>>}]
    BY <2>1, Zenon
  <2>. DEFINE g == WebFrame("closed", n, p[1], p[2], 0)
  <2>3. p[1] \in Sids /\ p[2] \in Cids /\ <<p[1], p[2]>> \in sweep[k] /\ 0 \in Msgs
    <3>1. p \in Sids \X Cids
      BY <1>0, Zenon DEF ServerTypeOK
    <3>2. p[1] \in Sids /\ p[2] \in Cids /\ p = <<p[1], p[2]>>
      BY <3>1
    <3>3. 0 \in Msgs
      BY WireAssumption DEF Msgs
    <3>. QED
      BY <3>2, <3>3, Zenon
  <2>4. g \in ClientFrame /\ g.type = "closed" /\ g.node = n /\ g.sid = p[1]
    BY <1>0, <2>3, FrameTypes, WebFrameFields
  <2>5. Handled(k, p[2], g)
    BY <2>1, <2>2, <2>3, <2>4, Zenon DEF Handled
  <2>. QED
    BY <2>3, <2>4, <2>5, Zenon
<1>. QED
  BY <1>2, <1>3, <1>4, <1>5, Zenon

\* Only the node tasks change the table and the pending notices.
LEMMA TableSteps ==
  ASSUME TypeInv, [Next]_vars
  PROVE  \/ UNCHANGED <<tunnel_sessions, pend>>
         \/ /\ UNCHANGED <<agentVars, faultVars, webTask, connections>>
            /\ \E k \in Conns :
                 \/ NodeNotify(k)
                 \/ inbox' = inbox /\ \E c \in Cids, g \in ClientFrame : Handled(k, c, g)
<1>1. ASSUME NEW k \in Conns, NodeTaskStep(k)
      PROVE  /\ UNCHANGED <<webTask, connections>>
             /\ \/ UNCHANGED <<tunnel_sessions, pend>>
                \/ NodeNotify(k)
                \/ inbox' = inbox /\ \E c \in Cids, g \in ClientFrame : Handled(k, c, g)
  <2>1. UNCHANGED <<webTask, connections>>
    BY <1>1, Zenon DEF NodeTaskStep, NodeAuth, NodeReject, NodeRegister, handle_node_heartbeat,
              handle_tunnel_opened, handle_tunnel_closed, handle_frame_response, NodeNotify,
              NodeReaderEnds, disconnect_node, SessionsToClose,
              notify_all_clients_for_closed_tunnel, SweepDone, webSide
  <2>2. CASE \/ NodeAuth(k) \/ NodeReject(k) \/ NodeRegister(k) \/ handle_node_heartbeat(k)
             \/ NodeReaderEnds(k) \/ disconnect_node(k) \/ SessionsToClose(k) \/ SweepDone(k)
    BY <2>1, <2>2, Zenon DEF NodeAuth, NodeReject, NodeRegister, handle_node_heartbeat,
              NodeReaderEnds, disconnect_node, SessionsToClose, SweepDone
  <2>3. CASE \/ handle_tunnel_opened(k) \/ handle_tunnel_closed(k) \/ handle_frame_response(k)
             \/ notify_all_clients_for_closed_tunnel(k)
    <3>1. inbox' = inbox
      BY <2>3, Zenon DEF handle_tunnel_opened, handle_tunnel_closed, handle_frame_response,
                  notify_all_clients_for_closed_tunnel, wireVars
    <3>. QED
      BY <2>1, <2>3, <3>1, HandlerSteps, Zenon
  <2>. QED
    BY <1>1, <2>1, <2>2, <2>3, Zenon DEF NodeTaskStep
<1>2. ASSUME NEW c \in Cids,
             \/ WebClientStep(c) \/ WebForward(c)
             \/ \E n \in Nodes : notify_nodes_client_disconnect(c, n)
      PROVE  UNCHANGED <<tunnel_sessions, pend>>
  BY <1>2, Zenon DEF WebClientStep, WebConnect, update_web_heartbeat, handle_web_open_tunnel,
              handle_web_session_request, disconnect_web_client, WebForward,
              notify_nodes_client_disconnect, nodeSide
<1>3. CASE cleanup_dangling_connections \/ LapseFault \/ UNCHANGED serverVars
  BY <1>3, Zenon DEF cleanup_dangling_connections, LapseFault, HeartbeatLapses, nodeSide,
     serverVars
<1>4. CASE ServerStep /\ UNCHANGED <<agentVars, faultVars>>
  BY <1>1, <1>2, <1>3, <1>4, Zenon DEF ServerStep
<1>. QED
  BY <1>3, <1>4, Zenon DEF Next, LinkFault, TimeoutFault, RestartFault, vars

-----------------------------------------------------------------------------
(* Announcements.                                                          *)

\* An announcement that has arrived is not taken back.
LEMMA AnnouncedKept ==
  ASSUME TypeInv, [Next]_vars, NEW n, NEW s, NEW c, Known(c), Announced(n, s, c)
  PROVE  Announced(n, s, c)'
BY ClientsKept, Zenon DEF Known, Announced

\* The first frame of a queue is one of the session's connection.
LEMMA HeadHome ==
  ASSUME HomeInv, NEW k \in Conns, restarts[ConnNode[k]] = 0,
         NEW type \in SessionFrames, NEW s, NEW c, Reads(k, type, s, c)
  PROVE  Owner(ConnNode[k], s, c) /\ task[ConnNode[k]][s].conn = k
<1>1. toServer[k] \in Seq(HomeFrame(k)) /\ toServer[k] # <<>>
  BY Zenon DEF HomeInv, Reads
<1>2. Head(toServer[k]) \in HomeFrame(k)
  BY <1>1
<1>. QED
  BY <1>2, Zenon DEF HomeFrame, OwnedFrame, Reads, SessionFrames

\* What a pending notice is about.
PendOf(k, p) ==
  /\ p[2].sid \in Sids => Owner(ConnNode[k], p[2].sid, p[1])
  /\ p[2].type = "data" => p[2].sid \in Sids /\ Announced(ConnNode[k], p[2].sid, p[1])

\* A handled frame leaves sessions in the table announced.
LEMMA AnnounceHandled ==
  ASSUME OutputInv, HomeInv, KnownInv, AnnounceInv,
         UNCHANGED <<agentVars, faultVars, webTask, connections, inbox>>,
         NEW k \in Conns, NEW c \in Cids, NEW g \in ClientFrame, Handled(k, c, g)
  PROVE  AnnounceInv'
<1>. DEFINE n == ConnNode[k]
<1>0. ServerTypeOK /\ n \in Nodes /\ task' = task /\ nextSid' = nextSid /\ restarts' = restarts
  BY WireAssumption, Zenon DEF OutputInv, TypeInv, TypeOK, agentVars, faultVars
<1>1. pend[k] = {} /\ pend' = [pend EXCEPT ![k] = {<<c, g>>}] /\ g.node = n
  BY Zenon DEF Handled
<1>2. pend'[k] = {<<c, g>>} /\ \A j \in Conns \ {k} : pend'[j] = pend[j]
  BY <1>0, <1>1, Zenon DEF ServerTypeOK
<1>3. ASSUME NEW m, NEW s, NEW d PROVE Announced(m, s, d)' <=> Announced(m, s, d)
  BY Zenon DEF Announced
<1>4. ASSUME NEW m, NEW s, NEW d, Announcing(m, s, d) PROVE Announcing(m, s, d)'
  BY <1>0, <1>1, <1>2, <1>4, Zenon DEF Announcing
<1>5. ASSUME NEW m, NEW s, NEW d PROVE Owner(m, s, d)' <=> Owner(m, s, d)
  BY <1>0, Zenon DEF Owner
<1>6. ASSUME NEW m \in Nodes, NEW s \in Sids, NEW d \in Cids,
             restarts[m] = 0, tunnel_sessions'[m][s] = d
      PROVE  Announced(m, s, d)' \/ Announcing(m, s, d)'
  <2>1. CASE tunnel_sessions[m][s] = d
    BY <1>3, <1>4, <1>6, <2>1, Zenon DEF AnnounceInv
  <2>2. CASE tunnel_sessions[m][s] # d
    <3>1. m = n /\ s = g.sid /\ d = c /\ g.type = "opened" /\ Reads(k, "opened", s, c)
      BY <1>0, <1>6, <2>2, WireAssumption DEF Handled, ServerTypeOK
    <3>2. task[n][s].conn = k
      BY <1>6, <3>1, HeadHome, Zenon DEF SessionFrames
    <3>3. Announcing(m, s, c)'
      <4>1. task'[m][s].conn = k /\ g.node = m
        BY <1>0, <1>1, <3>1, <3>2, Zenon
      <4>2. \E p \in pend'[k] : p[1] = c /\ p[2] = g
        BY <1>2
      <4>. QED
        BY <3>1, <4>1, <4>2, Zenon DEF Announcing
    <3>. QED
      BY <3>1, <3>3, Zenon
  <2>. QED
    BY <2>1, <2>2, Zenon
<1>7. ASSUME NEW j \in Conns, restarts[ConnNode[j]] = 0, NEW p \in pend'[j]
      PROVE  PendOf(j, p)'
  <2>1. CASE j # k
    BY <1>2, <1>3, <1>5, <1>7, <2>1, Zenon DEF AnnounceInv, PendOf
  <2>2. CASE j = k
    <3>1. p[1] = c /\ p[2] = g
      BY <1>2, <1>7, <2>2
    <3>2. ASSUME g.sid \in Sids PROVE Owner(n, g.sid, c)
      <4>1. ASSUME NEW d, NEW type \in SessionFrames, Reads(k, type, g.sid, d) PROVE Owner(n, g.sid, d)
        BY <1>7, <2>2, <4>1, HeadHome, Zenon
      <4>2. <<g.sid, c>> \in sweep[k] => Owner(n, g.sid, c)
        BY <1>7, <2>2, Zenon DEF OutputInv, RouteInv
      <4>3. tunnel_sessions[n][g.sid] = c => Owner(n, g.sid, c)
        BY <1>0, <1>7, <2>2, <3>2, WireAssumption DEF OutputInv, TableInv
      <4>4. g.sid # 0
        BY <3>2 DEF Sids
      <4>. QED
        BY <4>1, <4>2, <4>3, <4>4, Zenon DEF Handled, SessionFrames
    <3>3. ASSUME g.type = "data" PROVE g.sid \in Sids /\ Announced(n, g.sid, c)
      <4>1. /\ g.sid \in Sids /\ tunnel_sessions[n][g.sid] = c
            /\ \E d \in Cids : Reads(k, "data", g.sid, d)
        BY <3>3, Zenon DEF Handled
      <4>2. task[n][g.sid].conn = k
        BY <1>7, <2>2, <4>1, HeadHome, Zenon DEF SessionFrames
      <4>3. ~ Announcing(n, g.sid, c)
        BY <1>1, <4>2, Zenon DEF Announcing
      <4>4. Announced(n, g.sid, c)
        BY <1>0, <1>7, <2>2, <4>1, <4>3, WireAssumption, SMTT(20) DEF AnnounceInv
      <4>. QED
        BY <4>1, <4>4, Zenon
    <3>. QED
      BY <1>3, <1>5, <2>2, <3>1, <3>2, <3>3, Zenon DEF PendOf
  <2>. QED
    BY <2>1, <2>2, Zenon
<1>8. \A j \in Conns : \A p, q \in pend'[j] : p = q
  BY <1>2 DEF AnnounceInv
<1>. QED
  BY <1>0, <1>6, <1>7, <1>8, Zenon DEF AnnounceInv, PendOf

\* A delivered notice announces the session it is about.
LEMMA AnnounceNotified ==
  ASSUME OutputInv, KnownInv, AnnounceInv, [Next]_vars,
         UNCHANGED <<agentVars, faultVars>>, NEW k \in Conns, NodeNotify(k)
  PROVE  AnnounceInv'
<1>0. /\ ServerTypeOK /\ task' = task /\ nextSid' = nextSid /\ restarts' = restarts
      /\ TypeInv /\ tunnel_sessions' = tunnel_sessions /\ connections' = connections
  BY Zenon DEF OutputInv, TypeInv, TypeOK, agentVars, faultVars, NodeNotify
<1>1. PICK p \in pend[k] : notify_client_by_cid(p[1], p[2])
  BY Zenon DEF NodeNotify
<1>2. p[1] \in Cids
  BY <1>0 DEF ServerTypeOK
<1>3. pend'[k] = {} /\ \A j \in Conns \ {k} : pend'[j] = pend[j]
  BY <1>0, Zenon DEF NodeNotify, ServerTypeOK
<1>4. ASSUME NEW m, NEW s, NEW c, Known(c), Announced(m, s, c) PROVE Announced(m, s, c)'
  BY <1>0, <1>4, AnnouncedKept, Zenon
<1>5. ASSUME NEW m \in Nodes, NEW s \in Sids, NEW c, restarts[m] = 0, Owner(m, s, c) PROVE Known(c)
  BY <1>5, Zenon DEF Owner, KnownInv
<1>6. ASSUME NEW m \in Nodes, NEW s \in Sids, NEW c \in Cids,
             restarts[m] = 0, tunnel_sessions[m][s] = c
      PROVE  Announced(m, s, c)' \/ Announcing(m, s, c)'
  <2>1. CASE Announced(m, s, c)
    <3>1. Owner(m, s, c)
      BY <1>6, WireAssumption, Zenon DEF OutputInv, TableInv
    <3>. QED
      BY <1>4, <1>5, <1>6, <2>1, <3>1, Zenon
  <2>2. CASE Announcing(m, s, c)
    <3>1. PICK j \in Conns :
            /\ task[m][s].conn = j
            /\ \E q \in pend[j] : q[1] = c /\ q[2].type = "opened" /\ q[2].node = m /\ q[2].sid = s
      BY <2>2, Zenon DEF Announcing
    <3>2. CASE j # k
      BY <1>0, <1>3, <3>1, <3>2, Zenon DEF Announcing
    <3>3. CASE j = k
      <4>1. p[1] = c /\ p[2].type = "opened" /\ p[2].node = m /\ p[2].sid = s
        BY <3>1, <3>3, Zenon DEF AnnounceInv
      <4>2. c \in connections => p[2] \in inbox'[c]
        BY <1>0, <1>1, <1>2, <4>1, NotifyGrows
      <4>. QED
        BY <1>0, <4>1, <4>2, Zenon DEF Announced
    <3>. QED
      BY <3>2, <3>3, Zenon
  <2>. QED
    BY <1>6, <2>1, <2>2, Zenon DEF AnnounceInv
<1>7. ASSUME NEW j \in Conns, restarts[ConnNode[j]] = 0, NEW q \in pend'[j]
      PROVE  PendOf(j, q)'
  <2>1. q \in pend[j] /\ ConnNode[j] \in Nodes
    BY <1>3, <1>7, WireAssumption, Zenon
  <2>2. q[2].sid \in Sids => Owner(ConnNode[j], q[2].sid, q[1])
    BY <1>7, <2>1, Zenon DEF AnnounceInv
  <2>3. ASSUME q[2].type = "data" PROVE q[2].sid \in Sids /\ Announced(ConnNode[j], q[2].sid, q[1])'
    <3>1. q[2].sid \in Sids /\ Announced(ConnNode[j], q[2].sid, q[1])
      BY <1>7, <2>1, <2>3, Zenon DEF AnnounceInv
    <3>2. Known(q[1])
      BY <1>5, <1>7, <2>1, <2>2, <3>1, Zenon
    <3>. QED
      BY <1>4, <3>1, <3>2, Zenon
  <2>. QED
    BY <1>0, <2>2, <2>3, Zenon DEF PendOf, Owner
<1>8. \A j \in Conns : \A q, r \in pend'[j] : q = r
  BY <1>3, Zenon DEF AnnounceInv
<1>. QED
  BY <1>0, <1>6, <1>7, <1>8, Zenon DEF AnnounceInv, PendOf

\* Sessions stay announced, or being announced, before their next frame.
LEMMA AnnounceStep ==
  ASSUME OutputInv, HomeInv, KnownInv, AnnounceInv, [Next]_vars
  PROVE  AnnounceInv'
<1>0. TypeInv
  BY Zenon DEF OutputInv
<1>1. CASE UNCHANGED <<tunnel_sessions, pend>>
  <2>1. ASSUME NEW n \in Nodes, NEW s \in Sids, NEW c \in Cids, restarts[n] = 0, restarts'[n] = 0, Owner(n, s, c)
        PROVE  /\ Owner(n, s, c)'
               /\ Announced(n, s, c) => Announced(n, s, c)'
               /\ Announcing(n, s, c) => Announcing(n, s, c)'
    <3>1. s < nextSid[n] /\ task[n][s].cid = c
      BY <2>1, Zenon DEF Owner
    <3>2. Known(c)
      BY <3>1, Zenon DEF KnownInv
    <3>3. Owner(n, s, c)'
      BY <1>0, <2>1, OwnerKept, Zenon
    <3>4. Announced(n, s, c) => Announced(n, s, c)'
      BY <1>0, <3>2, AnnouncedKept, Zenon
    <3>5. task'[n][s].conn = task[n][s].conn
      BY <1>0, <2>1, <3>1, SessionKept, Zenon
    <3>6. Announcing(n, s, c) => Announcing(n, s, c)'
      BY <1>1, <3>5, Zenon DEF Announcing
    <3>. QED
      BY <3>3, <3>4, <3>6, Zenon
  <2>2. ASSUME NEW n \in Nodes, NEW s \in Sids, NEW c \in Cids,
               restarts'[n] = 0, tunnel_sessions[n][s] = c
        PROVE  Announced(n, s, c)' \/ Announcing(n, s, c)'
    <3>1. restarts[n] = 0
      BY <1>0, <2>2, RestartsGrow, Zenon
    <3>2. Owner(n, s, c) /\ (Announced(n, s, c) \/ Announcing(n, s, c))
      BY <2>2, <3>1, WireAssumption, Zenon DEF OutputInv, TableInv, AnnounceInv
    <3>. QED
      BY <2>1, <2>2, <3>1, <3>2, Zenon
  <2>3. ASSUME NEW k \in Conns, restarts'[ConnNode[k]] = 0, NEW p \in pend[k]
        PROVE  PendOf(k, p)'
    <3>1. ConnNode[k] \in Nodes /\ p[1] \in Cids
      BY <1>0, WireAssumption DEF TypeInv, TypeOK, ServerTypeOK
    <3>2. restarts[ConnNode[k]] = 0
      BY <1>0, <2>3, <3>1, RestartsGrow, Zenon
    <3>3. PendOf(k, p)
      BY <2>3, <3>2, Zenon DEF AnnounceInv, PendOf
    <3>. QED
      BY <2>1, <2>3, <3>1, <3>2, <3>3, Zenon DEF PendOf
  <2>4. tunnel_sessions' = tunnel_sessions /\ pend' = pend
    BY <1>1, Zenon
  <2>. QED
    BY <2>2, <2>3, <2>4, Zenon DEF AnnounceInv, PendOf
<1>2. ASSUME UNCHANGED <<agentVars, faultVars, webTask, connections>>,
             NEW k \in Conns, NodeNotify(k)
      PROVE  AnnounceInv'
  BY <1>2, AnnounceNotified, Zenon
<1>3. ASSUME UNCHANGED <<agentVars, faultVars, webTask, connections>>, inbox' = inbox,
             NEW k \in Conns, NEW c \in Cids, NEW g \in ClientFrame, Handled(k, c, g)
      PROVE  AnnounceInv'
  BY <1>3, AnnounceHandled, Zenon
<1>. QED
  BY <1>0, <1>1, <1>2, <1>3, TableSteps, Zenon

\* Data reaches a client only after the announcement of its session.
LEMMA OpenedStep ==
  ASSUME OpenInv, [Next]_vars
  PROVE  OpenedBeforeData'
<1>0. TypeInv /\ inbox \in [Cids -> SUBSET ClientFrame] /\ ServerTypeOK
  BY Zenon DEF OpenInv, OutputInv, TypeInv, TypeOK, WireTypeOK
<1>. SUFFICES ASSUME NEW c \in Cids, NEW f \in inbox'[c], f.type = "data", restarts'[f.node] = 0
              PROVE  \E g \in inbox'[c] : g.type = "opened" /\ g.node = f.node /\ g.sid = f.sid
  BY Zenon DEF OpenedBeforeData
<1>1. inbox[c] \subseteq inbox'[c]
  BY <1>0, ClientsKept, Zenon
<1>2. CASE f \in inbox[c]
  <2>1. f.node \in Nodes
    BY <1>0, <1>2 DEF ClientFrame
  <2>2. restarts[f.node] = 0
    BY <1>0, <2>1, RestartsGrow, Zenon
  <2>. QED
    BY <1>1, <1>2, <2>2, Zenon DEF OpenInv, OpenedBeforeData
<1>3. ASSUME f \notin inbox[c], NEW k \in Conns, NodeNotify(k), UNCHANGED <<agentVars, faultVars>>
      PROVE  \E g \in inbox'[c] : g.type = "opened" /\ g.node = f.node /\ g.sid = f.sid
  <2>1. PICK p \in pend[k] : notify_client_by_cid(p[1], p[2])
    BY <1>3, Zenon DEF NodeNotify
  <2>2. p[1] \in Cids /\ p[2].node = ConnNode[k] /\ restarts' = restarts
    BY <1>0, <1>3, SMTT(20) DEF ServerTypeOK, OpenInv, OutputInv, RouteInv, faultVars
  <2>3. c = p[1] /\ f = p[2] /\ c \in connections
    BY <1>0, <1>3, <2>1, <2>2, NotifyGrows DEF notify_client_by_cid
  <2>4. Announced(ConnNode[k], f.sid, c)
    BY <2>2, <2>3, Zenon DEF OpenInv, AnnounceInv
  <2>. QED
    BY <1>1, <2>2, <2>3, <2>4, Zenon DEF Announced
<1>4. ASSUME f \notin inbox[c], NEW d \in Cids, NEW n \in Nodes, NEW m,
             notify_client_by_cid(d, WebFrame("error", n, 0, d, m))
      PROVE  FALSE
  <2>1. f = WebFrame("error", n, 0, d, m)
    BY <1>0, <1>4, NotifyGrows
  <2>2. f.type = "error"
    BY <2>1, WebFrameFields
  <2>. QED
    BY <2>2, Zenon
<1>. QED
  BY <1>2, <1>3, <1>4, InboxSteps, Zenon

\* The inductive invariant holds at the start ...
LEMMA OpenInit == Init => OpenInv
<1>1. ASSUME Init PROVE HomeInv
  <2>1. \A k \in Conns : toServer[k] = <<>>
    BY <1>1, Zenon DEF Init, WireInit
  <2>2. \A S : <<>> \in Seq(S)
    OBVIOUS
  <2>. QED
    BY <2>1, <2>2, Zenon DEF HomeInv
<1>2. ASSUME Init PROVE KnownInv
  <2>1. /\ \A k \in Conns : toAgent[k] = <<>>
        /\ \A c \in Cids : forward[c] = {}
        /\ \A n \in Nodes : nextSid[n] = 1
    BY <1>2, Zenon DEF Init, WireInit, ServerInit, AgentInit
  <2>2. \A s \in Sids : ~ (s < 1)
    BY WireAssumption, SMTT(20) DEF Sids
  <2>3. \A S : <<>> \in Seq(S)
    OBVIOUS
  <2>. QED
    BY <2>1, <2>2, <2>3, Zenon DEF KnownInv
<1>3. Init => AnnounceInv /\ OpenedBeforeData
  BY WireAssumption DEF Init, WireInit, ServerInit, AnnounceInv, OpenedBeforeData
<1>. QED
  BY <1>1, <1>2, <1>3, OutputInit, Zenon DEF OpenInv

\* ... and is kept by every step.
LEMMA OpenStep == OpenInv /\ [Next]_vars => OpenInv'
<1>1. ASSUME OpenInv, [Next]_vars PROVE OpenInv'
  <2>1. OutputInv'
    BY <1>1, OutputStep, Zenon DEF OpenInv
  <2>2. TypeInv /\ TypeInv'
    BY <1>1, <2>1, Zenon DEF OpenInv, OutputInv
  <2>3. HomeInv'
    BY <1>1, <2>2, HomeStep, Zenon DEF OpenInv
  <2>4. KnownInv'
    BY <1>1, <2>2, KnownStep, Zenon DEF OpenInv
  <2>5. AnnounceInv' /\ OpenedBeforeData'
    BY <1>1, AnnounceStep, OpenedStep, Zenon DEF OpenInv
  <2>. QED
    BY <2>1, <2>3, <2>4, <2>5, Zenon DEF OpenInv
<1>. QED
  BY <1>1, Zenon

\* For any number of nodes, clients, connections and sessions, output of a
\* session never overtakes its TunnelOpened on the way to the client, while
\* the agent process of its node has not restarted.
THEOREM OpenedFirst == Spec => []OpenedBeforeData
<1>1. OpenInv => OpenedBeforeData
  BY Zenon DEF OpenInv
<1>. QED
  BY <1>1, OpenInit, OpenStep, PTL DEF Spec
=============================================================================
