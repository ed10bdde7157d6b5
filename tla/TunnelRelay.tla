---------------------------- MODULE TunnelRelay ----------------------------
(***************************************************************************)
(* The whole relay: web clients, the server's concurrent tasks, the links  *)
(* and the agents.  A step is a step of one of them; TCP links may break   *)
(* at any time.                                                            *)
(***************************************************************************)
EXTENDS Server, Agent

CONSTANTS
  MaxFaults,    \* bound: how often each kind of fault strikes
  MaxStrikes,   \* bound: how often faults of any kind strike
  MaxRestarts   \* bound: restarts of one agent process

FaultKinds == {"break", "lapse", "timeout"}

ASSUME FaultAssumption == MaxFaults \in [FaultKinds -> Nat] /\ MaxStrikes \in Nat /\ MaxRestarts \in Nat

VARIABLES
  faults,       \* faults[x]: faults of kind x so far
  restarts      \* restarts[n]: restarts of the agent process of node n so far

faultVars == <<faults, restarts>>
vars == <<wireVars, serverVars, agentVars, faultVars>>

Init ==
  /\ WireInit /\ ServerInit /\ AgentInit
  /\ faults = [x \in FaultKinds |-> 0]
  /\ restarts = [n \in Nodes |-> 0]

Strikes(x) ==
  /\ faults[x] < MaxFaults[x] /\ faults["break"] + faults["lapse"] + faults["timeout"] < MaxStrikes
  /\ faults' = [faults EXCEPT ![x] = @ + 1]
  /\ UNCHANGED restarts

-----------------------------------------------------------------------------
(* Steps, grouped by the task that takes them.                             *)

\* What a web client makes its handle_web_socket task do.
WebClientStep(c) ==
  \/ WebConnect(c)
  \/ update_web_heartbeat(c)
  \/ \E n \in Nodes, p \in Protocols : handle_web_open_tunnel(c, n, p)
  \/ \E n \in Nodes, s \in Sids : handle_web_session_request(c, n, s)
  \/ disconnect_web_client(c)

NodeTaskStep(k) ==
  \/ NodeAuth(k) \/ NodeReject(k) \/ NodeRegister(k)
  \/ handle_node_heartbeat(k)
  \/ handle_tunnel_opened(k) \/ handle_tunnel_closed(k) \/ handle_frame_response(k)
  \/ NodeNotify(k) \/ NodeReaderEnds(k)
  \/ disconnect_node(k) \/ SessionsToClose(k)
  \/ notify_all_clients_for_closed_tunnel(k) \/ SweepDone(k)

ServerStep ==
  \/ \E c \in Cids : WebClientStep(c) \/ WebForward(c)
  \/ \E c \in Cids, n \in Nodes : notify_nodes_client_disconnect(c, n)
  \/ \E k \in Conns : NodeTaskStep(k)
  \/ cleanup_dangling_connections

\* The sequential reader of connection k.
AgentReaderStep(k) ==
  \/ AuthAccepted(k)
  \/ OpenSession(k) \/ ensure_credentials(k)
  \/ HandleHeartbeatAck(k) \/ close_tunnels_for_cid(k) \/ FeedSession(k)
  \/ ReaderEnds(k)

\* The part of a session task that does not wait for its peer's input.
SessionProgress(n, s) ==
  \/ SshConnected(n, s) \/ SftpAnnounced(n, s) \/ SftpConnected(n, s) \/ ConnectFails(n, s)
  \/ SessionStops(n, s)
  \/ SessionClosed(n, s) \/ DisconnectFails(n, s)

AgentStep ==
  \/ \E k \in Conns : \/ Connect(k) \/ AgentReaderStep(k)
                      \/ HeartbeatTick(k)
  \/ \E n \in Nodes, s \in Sids :
       SessionProgress(n, s) \/ SessionOutput(n, s) \/ ShellEnds(n, s)

LinkFault ==
  \E k \in Conns : LinkFails(k) /\ Strikes("break") /\ UNCHANGED <<serverVars, agentVars>>

LapseFault ==
  \E x \in Nodes \cup Cids : HeartbeatLapses(x) /\ Strikes("lapse") /\ UNCHANGED agentVars

TimeoutFault ==
  \E k \in Conns : HeartbeatTimeout(k) /\ Strikes("timeout") /\ UNCHANGED serverVars

RestartFault ==
  \E n \in Nodes :
    /\ restarts[n] < MaxRestarts
    /\ restarts' = [restarts EXCEPT ![n] = @ + 1]
    /\ ProcessRestart(n) /\ UNCHANGED <<faults, serverVars>>

Next ==
  \/ ServerStep /\ UNCHANGED <<agentVars, faultVars>>
  \/ AgentStep /\ UNCHANGED <<serverVars, faultVars>>
  \/ LinkFault \/ LapseFault \/ TimeoutFault \/ RestartFault

Spec == Init /\ [][Next]_vars

\* Fairness.  Every spawned task is polled by the tokio runtime, and waiters
\* on an mpsc channel are served in order, so a sender cannot be overtaken for
\* ever (strong fairness of the sends).  Clients, shells, clocks and the
\* network owe nothing.
Fairness ==
  /\ \A k \in Conns :
       /\ SF_vars(NodeTaskStep(k) /\ UNCHANGED <<agentVars, faultVars>>)
       /\ WF_vars(AgentReaderStep(k) /\ UNCHANGED <<serverVars, faultVars>>)
       /\ WF_vars(HeartbeatTick(k) /\ UNCHANGED <<serverVars, faultVars>>)
  /\ \A c \in Cids :
       /\ SF_vars(WebForward(c) /\ UNCHANGED <<agentVars, faultVars>>)
       /\ \A n \in Nodes : SF_vars(notify_nodes_client_disconnect(c, n) /\ UNCHANGED <<agentVars, faultVars>>)
  /\ \A n \in Nodes, s \in Sids : WF_vars(SessionProgress(n, s) /\ UNCHANGED <<serverVars, faultVars>>)

FairSpec == Spec /\ Fairness

-----------------------------------------------------------------------------
(* Safety.                                                                 *)

\* All registries, queues and task states stay well formed; in particular a
\* registered connection, session owner or queued frame is a real one.
TypeOK ==
  /\ WireTypeOK /\ ServerTypeOK /\ AgentTypeOK
  /\ faults \in [FaultKinds -> Nat]
  /\ restarts \in [Nodes -> Nat]

\* What enters a session's command queue was sent by the client the session
\* was opened for, across reconnects, agent restarts that reuse session ids,
\* and stale tunnel_sessions entries (get_node_id_by_cid_and_sid on the
\* server, the (cid, sid) key of the agent's sessions map).
InputIsolation ==
  \A n \in Nodes, s \in Sids : task[n][s].fed \subseteq {task[n][s].cid}

\* A client is only ever sent output, errors and notices of its own sessions,
\* although frames are addressed by session id alone and looked up in a table
\* that several tasks change.  Session ids start over when an agent process
\* restarts, so this is claimed of nodes whose agent has not restarted.
OutputIsolation ==
  \A c \in Cids : \A f \in inbox[c] : restarts[f.node] = 0 => f.from = c

\* Output of a session never overtakes its TunnelOpened on the way to the
\* client (same restriction).
OpenedBeforeData ==
  \A c \in Cids : \A f \in inbox[c] :
    f.type = "data" /\ restarts[f.node] = 0 =>
      \E g \in inbox[c] : g.type = "opened" /\ g.node = f.node /\ g.sid = f.sid

\* A step that passes no tunnel of the table on to another client.
EntriesStay ==
  \A n \in Nodes, s \in Sids :
    restarts'[n] = 0 /\ tunnel_sessions[n][s] # None =>
      tunnel_sessions'[n][s] \in {tunnel_sessions[n][s], None}

\* An entry of tunnel_sessions stays with its client until it is removed: no
\* TunnelOpened, late or on another connection of the node, overwrites the
\* entry of a tunnel with another client (handle_tunnel_opened inserts without
\* looking; what keeps the ids apart is the agent's counter SESSION_ID, hence
\* the same restriction).
TunnelKept == [][EntriesStay]_vars

\* No session task is out of reach: one that runs and has not been told to stop
\* has its handle in the map of a connection whose reader still runs, so that a
\* ConnectionDisconnect or the end of that connection will stop it.  Also if the
\* session was opened by the reader of a connection that connect() has given up
\* and "closed all active sessions" of (close_tunnels, close_tunnels_for_cid).
HandleHeld ==
  \A n \in Nodes, s \in Sids :
    LET t == task[n][s] IN
    t.pc \notin {"free", "done"} /\ ~t.stop =>
      <<t.cid, s>> \in sessions[t.conn] /\ agentTask[t.conn] \in {"active", "detached"}

\* When no socket task of a node is left, tunnel_sessions holds nothing of
\* that node any more (disconnect_node, notify_all_clients_for_closed_tunnel).
CleanupComplete ==
  \A n \in Nodes :
    (\A k \in Conns : ConnNode[k] = n => nodeTask[k] \in {"none", "done"}) =>
      \A s \in Sids : tunnel_sessions[n][s] = None

-----------------------------------------------------------------------------
(* The promise to a web client, as a refinement.  Tunnels are (node, sid). *)

Tunnels == Nodes \X Sids

HasFrame(c, t, type) ==
  \E f \in inbox[c] : f.type = type /\ f.node = t[1] /\ f.sid = t[2]

viewOf ==
  [c \in Cids |-> [t \in Tunnels |->
     IF HasFrame(c, t, "closed") THEN "closed"
     ELSE IF HasFrame(c, t, "opened") THEN "open" ELSE "none"]]

gotOf == [c \in Cids |-> [t \in Tunnels |-> HasFrame(c, t, "data")]]

Service == INSTANCE TunnelService
             WITH Clients <- Cids, view <- viewOf, got <- gotOf

\* The frames put on the clients' channels, by whichever tasks and in whatever
\* interleaving, implement TunnelService.
ImplementsService == Service!Spec

-----------------------------------------------------------------------------
(* Liveness, under Fairness.                                               *)

Ended(n, s) == task[n][s].pc \in {"free", "done"}

\* After a web client has gone, its sessions on every agent end for good
\* (ConnectionDisconnect, or the teardown of the connection if the notice had
\* no registered connection to go to).  Excepted are sessions of a connection
\* given up by a heartbeat timeout: its reader is not cancelled (ws.rs, connect),
\* goes on to open sessions after "closing all active sessions", and the
\* server's notices go to the connection that is registered in its place.
SessionsReleased ==
  \A c \in Cids :
    <>[](webTask[c] = "closing" =>
           \A n \in Nodes, s \in Sids :
             task[n][s].cid = c => Ended(n, s) \/ agentTask[task[n][s].conn] = "detached")

\* An agent connection does not stay up while its node is unregistered: the
\* next heartbeat finds no entry, the server ends the connection, and
\* start_ws_connection dials again.
UnregisteredIsNoticed ==
  \A k \in Conns :
    []<>(agentTask[k] # "active" \/ nodes[ConnNode[k]] # None)

\* Every OpenTunnel request of a client that stays connected is answered:
\* opened, refused, or an error.
OpenAnswered ==
  \A c \in Cids, m \in 1 .. MaxOpen :
    opens[c] >= m ~> c \notin connections \/ \E f \in inbox[c] : f.msg = m
=============================================================================
