------------------------------- MODULE Server -------------------------------
(***************************************************************************)
(* The relay server's in-memory registries (AppState of server/src/http.rs)*)
(* and the tasks that work on them concurrently: one handle_node_socket    *)
(* task per agent connection, one handle_web_socket task per web client,   *)
(* and the periodic cleanup of server/src/tasks.rs.                        *)
(*                                                                         *)
(* A handler is split into two actions exactly where it holds a value read *)
(* from a registry across an await on a channel it does not guard:         *)
(*   - a node handler looks up (or changes) the tunnel table, then awaits  *)
(*     the web client's channel: `pend';                                   *)
(*   - a web handler clones a node's sender, then awaits that channel:     *)
(*     `forward'.                                                          *)
(* Where the code keeps the DashMap guard across the await (heartbeats,    *)
(* ConnectionDisconnect, notify_client_by_cid itself) the step is atomic.  *)
(***************************************************************************)
EXTENDS Wire

VARIABLES
  nodes,            \* nodes[n]: the connection registered for n, or None
  connections,      \* the registered web clients
  stale,            \* registered nodes and clients whose last_heartbeat is
                    \* older than CONNECTION_TIMEOUT
  tunnel_sessions,  \* tunnel_sessions[n][s]: the owning client, or None
  nodeTask,         \* control state of handle_node_socket for connection k
  pend,             \* pend[k]: notification the node task is about to send
  sweep,            \* sweep[k]: sessions_to_close still to be closed
  webTask,          \* control state of handle_web_socket for client c
  forward,          \* forward[c]: frame the web task is about to send, and
                    \* the connection whose sender it cloned
  toNotify,         \* toNotify[c]: nodes not yet visited by
                    \* notify_nodes_client_disconnect
  opens,            \* opens[c]: OpenTunnel requests client c has sent
  requests          \* requests[c]: session requests client c has sent

serverVars == <<nodes, connections, stale, tunnel_sessions, nodeTask, pend,
                sweep, webTask, forward, toNotify, opens, requests>>
nodeSide == <<nodeTask, pend, sweep>>
webSide == <<webTask, forward, toNotify, opens, requests>>

ServerTypeOK ==
  /\ nodes \in [Nodes -> Conns \cup {None}]
  /\ connections \subseteq Cids
  /\ stale \subseteq Nodes \cup Cids
  /\ tunnel_sessions \in [Nodes -> [Sids -> Cids \cup {None}]]
  /\ nodeTask \in [Conns -> {"none", "authed", "reading", "ending",
                             "removed", "sweeping", "done"}]
  /\ pend \in [Conns -> SUBSET (Cids \X ClientFrame)]
  /\ sweep \in [Conns -> SUBSET (Sids \X Cids)]
  /\ webTask \in [Cids -> {"none", "reading", "closing"}]
  /\ forward \in [Cids -> SUBSET (Conns \X AgentFrame)]
  /\ toNotify \in [Cids -> SUBSET Nodes]
  /\ opens \in [Cids -> 0 .. MaxOpen]
  /\ requests \in [Cids -> 0 .. MaxRequests]

ServerInit ==
  /\ nodes = [n \in Nodes |-> None]
  /\ connections = {}
  /\ stale = {}
  /\ tunnel_sessions = [n \in Nodes |-> [s \in Sids |-> None]]
  /\ nodeTask = [k \in Conns |-> "none"]
  /\ pend = [k \in Conns |-> {}]
  /\ sweep = [k \in Conns |-> {}]
  /\ webTask = [c \in Cids |-> "none"]
  /\ forward = [c \in Cids |-> {}]
  /\ toNotify = [c \in Cids |-> {}]
  /\ opens = [c \in Cids |-> 0]
  /\ requests = [c \in Cids |-> 0]

-----------------------------------------------------------------------------
(* Channels.                                                               *)

\* The write task of connection k still takes frames from its channel.
Writable(k) == nodeTask[k] = "reading" /\ link[k] = "up"

\* tx.send(..).await completes: there is room, or the receiver is gone.
Room(k) == Writable(k) => Len(toAgent[k]) < NodeCap

SendToNode(k, f) ==
  toAgent' = IF Writable(k) THEN [toAgent EXCEPT ![k] = Append(@, f)] ELSE toAgent

\* notify_client_by_cid: an unknown client is an error the callers ignore.
notify_client_by_cid(c, f) ==
  inbox' = IF c \in connections THEN [inbox EXCEPT ![c] = @ \cup {f}] ELSE inbox

-----------------------------------------------------------------------------
(* Web clients: server/src/web.rs.                                         *)

\* handle_web_socket after a successful wait_for_auth.
WebConnect(c) ==
  /\ webTask[c] = "none"
  /\ webTask' = [webTask EXCEPT ![c] = "reading"]
  /\ connections' = connections \cup {c}
  /\ stale' = stale \ {c}
  /\ UNCHANGED <<wireVars, nodes, tunnel_sessions, nodeSide, forward, toNotify, opens, requests>>

\* The task waits for its client's next frame.
WebReading(c) == webTask[c] = "reading" /\ forward[c] = {}

update_web_heartbeat(c) ==
  /\ WebReading(c)
  /\ c \in connections
  /\ stale' = stale \ {c}
  /\ UNCHANGED <<wireVars, nodes, connections, tunnel_sessions, nodeSide, webSide>>

handle_web_open_tunnel(c, n, p) ==
  /\ WebReading(c)
  /\ opens[c] < MaxOpen
  /\ opens' = [opens EXCEPT ![c] = @ + 1]
  /\ \/ /\ nodes[n] = None
        /\ notify_client_by_cid(c, WebFrame("error", n, 0, c, opens[c] + 1))
        /\ forward' = forward
     \/ /\ nodes[n] # None
        /\ forward' = [forward EXCEPT ![c] = {<<nodes[n], OpenTunnel(c, p, opens[c] + 1)>>}]
        /\ inbox' = inbox
  /\ UNCHANGED <<link, toAgent, toServer, nodes, connections, stale,
                 tunnel_sessions, nodeSide, webTask, toNotify, requests>>

\* get_node_id_by_cid_and_sid: only the client the session is registered for.
get_node_id_by_cid_and_sid(c, n, s) == tunnel_sessions[n][s] = c

\* handle_web_tunnel_data, handle_web_resize and the handle_sftp_* handlers:
\* a request for a session is forwarded, or dropped if either lookup fails.
handle_web_session_request(c, n, s) ==
  /\ WebReading(c)
  /\ get_node_id_by_cid_and_sid(c, n, s)
  /\ nodes[n] # None
  /\ requests[c] < MaxRequests
  /\ requests' = [requests EXCEPT ![c] = @ + 1]
  /\ forward' = [forward EXCEPT ![c] = {<<nodes[n], SessionRequest(c, s)>>}]
  /\ UNCHANGED <<wireVars, nodes, connections, stale, tunnel_sessions,
                 nodeSide, webTask, toNotify, opens>>

\* The awaited tx.send of a web handler completes.
WebForward(c) ==
  /\ \E p \in forward[c] : Room(p[1]) /\ SendToNode(p[1], p[2])
  /\ forward' = [forward EXCEPT ![c] = {}]
  /\ UNCHANGED <<link, toServer, inbox, nodes, connections, stale,
                 tunnel_sessions, nodeSide, webTask, toNotify, opens, requests>>

\* handle_web_messages returns (Close, error, invalid frame) and
\* disconnect_web_client takes the client out of the registry.
disconnect_web_client(c) ==
  /\ WebReading(c)
  /\ webTask' = [webTask EXCEPT ![c] = "closing"]
  /\ connections' = connections \ {c}
  /\ stale' = stale \ {c}
  /\ toNotify' = [toNotify EXCEPT ![c] = Nodes]
  /\ UNCHANGED <<wireVars, nodes, tunnel_sessions, nodeSide, forward, opens, requests>>

\* Mutant: try_send instead of send, so a full channel loses the notice.
TryNotifyNode(c, n) ==
  /\ n \in toNotify[c]
  /\ IF nodes[n] # None /\ Room(nodes[n])
     THEN SendToNode(nodes[n], ConnectionDisconnect(c)) ELSE toAgent' = toAgent
  /\ toNotify' = [toNotify EXCEPT ![c] = @ \ {n}]
  /\ UNCHANGED <<link, toServer, inbox, nodes, connections, stale,
                 tunnel_sessions, nodeSide, webTask, forward, opens, requests>>

\* One iteration of notify_nodes_client_disconnect.
notify_nodes_client_disconnect(c, n) ==
  /\ n \in toNotify[c]
  /\ \/ /\ nodes[n] = None
        /\ toAgent' = toAgent
     \/ /\ nodes[n] # None
        /\ Room(nodes[n])
        /\ SendToNode(nodes[n], ConnectionDisconnect(c))
  /\ toNotify' = [toNotify EXCEPT ![c] = @ \ {n}]
  /\ UNCHANGED <<link, toServer, inbox, nodes, connections, stale,
                 tunnel_sessions, nodeSide, webTask, forward, opens, requests>>

-----------------------------------------------------------------------------
(* Agent connections: server/src/node.rs.                                  *)

NodeOf(k) == ConnNode[k]

\* wait_for_auth and get_node_by_id succeed for the Auth frame of link k.
NodeAuth(k) ==
  /\ nodeTask[k] = "none" /\ link[k] # "none"
  /\ nodeTask' = [nodeTask EXCEPT ![k] = "authed"]
  /\ UNCHANGED <<wireVars, nodes, connections, stale, tunnel_sessions, pend, sweep, webSide>>

\* They fail: the socket is closed and nothing else happens.
NodeReject(k) ==
  /\ nodeTask[k] = "none" /\ link[k] # "none"
  /\ nodeTask' = [nodeTask EXCEPT ![k] = "done"]
  /\ link' = [link EXCEPT ![k] = "down"]
  /\ UNCHANGED <<toAgent, toServer, inbox, nodes, connections, stale,
                 tunnel_sessions, pend, sweep, webSide>>

\* After the awaits on Postgres and Redis: insert into `nodes', replacing
\* whatever connection was registered, and start the write task, which first
\* sends the queued AuthResponse.
NodeRegister(k) ==
  /\ nodeTask[k] = "authed"
  /\ nodeTask' = [nodeTask EXCEPT ![k] = "reading"]
  /\ nodes' = [nodes EXCEPT ![NodeOf(k)] = k]
  /\ stale' = stale \ {NodeOf(k)}
  /\ toAgent' = [toAgent EXCEPT ![k] = <<AuthResponse>>]
  /\ UNCHANGED <<link, toServer, inbox, connections, tunnel_sessions, pend, sweep, webSide>>

\* The loop of handle_node_messages takes the next frame.
Receives(k, types) ==
  /\ nodeTask[k] = "reading" /\ pend[k] = {}
  /\ toServer[k] # <<>> /\ Head(toServer[k]).type \in types
  /\ toServer' = [toServer EXCEPT ![k] = Tail(@)]

\* Mutant: a heartbeat of an unregistered node is logged and ignored.
HeartbeatTolerant(k) ==
  /\ Receives(k, {"heartbeat"})
  /\ LET r == nodes[NodeOf(k)] IN
     IF r = None THEN UNCHANGED <<toAgent, stale>>
     ELSE /\ Room(r) /\ SendToNode(r, HeartbeatAck)
          /\ stale' \in {stale, stale \ {NodeOf(k)}}
  /\ UNCHANGED <<link, inbox, nodes, connections, tunnel_sessions, nodeSide, webSide>>

\* The acknowledgement goes to the registered connection, which need not be
\* the one the heartbeat came by; last_heartbeat is refreshed only if the
\* write to Redis succeeds; a missing registration ends the connection.
handle_node_heartbeat(k) ==
  /\ Receives(k, {"heartbeat"})
  /\ LET r == nodes[NodeOf(k)] IN
     \/ /\ r = None
        /\ nodeTask' = [nodeTask EXCEPT ![k] = "ending"]
        /\ UNCHANGED <<toAgent, stale>>
     \/ /\ r # None
        /\ Room(r) /\ SendToNode(r, HeartbeatAck)
        /\ stale' \in {stale, stale \ {NodeOf(k)}}
        /\ nodeTask' = nodeTask
  /\ UNCHANGED <<link, inbox, nodes, connections, tunnel_sessions, pend, sweep, webSide>>

\* Mutant: the client is not notified.
OpenedUnnotified(k) ==
  /\ Receives(k, {"opened"})
  /\ LET f == Head(toServer[k]) IN
     tunnel_sessions' = [tunnel_sessions EXCEPT ![NodeOf(k)][f.sid] = f.cid]
  /\ UNCHANGED <<link, toAgent, inbox, nodes, connections, stale, nodeSide, webSide>>

\* Both handlers change the table first and then notify the client the frame
\* names, connected or not.
handle_tunnel_opened(k) ==
  /\ Receives(k, {"opened"})
  /\ LET f == Head(toServer[k]) n == NodeOf(k) IN
     /\ tunnel_sessions' = [tunnel_sessions EXCEPT ![n][f.sid] = f.cid]
     /\ pend' = [pend EXCEPT ![k] = {<<f.cid, WebFrame("opened", n, f.sid, f.cid, f.msg)>>}]
  /\ UNCHANGED <<link, toAgent, inbox, nodes, connections, stale, nodeTask, sweep, webSide>>

handle_tunnel_closed(k) ==
  /\ Receives(k, {"closed"})
  /\ LET f == Head(toServer[k]) n == NodeOf(k) IN
     /\ tunnel_sessions' = [tunnel_sessions EXCEPT ![n][f.sid] = None]
     /\ pend' = [pend EXCEPT ![k] = {<<f.cid, WebFrame("closed", n, f.sid, f.cid, f.msg)>>}]
  /\ UNCHANGED <<link, toAgent, inbox, nodes, connections, stale, nodeTask, sweep, webSide>>

\* Mutant: the table looked up by node alone.
ConnectionOfNode(s, n) ==
  LET owners == {tunnel_sessions[n][t] : t \in Sids} \ {None}
  IN IF owners = {} THEN None ELSE CHOOSE c \in owners : TRUE

\* A WebFrame goes to the client it is addressed to (ConnectionId) or to the
\* client the table has for its session (SessionId); without one it is dropped.
get_connection_id_by_sid(s, n) == tunnel_sessions[n][s]

handle_frame_response(k) ==
  /\ Receives(k, {"data", "error", "refused"})
  /\ LET f == Head(toServer[k])
         n == NodeOf(k)
         t == IF f.type = "data" THEN "data" ELSE "error"
         c == IF f.type = "refused" THEN f.cid ELSE get_connection_id_by_sid(f.sid, n)
     IN pend' = IF c = None THEN pend
                ELSE [pend EXCEPT ![k] = {<<c, WebFrame(t, n, f.sid, f.cid, f.msg)>>}]
  /\ UNCHANGED <<link, toAgent, inbox, nodes, connections, stale,
                 tunnel_sessions, nodeTask, sweep, webSide>>

\* The awaited notify_client_by_cid of a node handler, or of one iteration of
\* notify_all_clients_for_closed_tunnel, completes.
NodeNotify(k) ==
  /\ \E p \in pend[k] : notify_client_by_cid(p[1], p[2])
  /\ pend' = [pend EXCEPT ![k] = {}]
  /\ UNCHANGED <<link, toAgent, toServer, nodes, connections, stale,
                 tunnel_sessions, nodeTask, sweep, webSide>>

\* The socket has ended, or a frame is not one a node may send; whatever is
\* still queued is never read.
NodeReaderEnds(k) ==
  /\ nodeTask[k] = "reading" /\ pend[k] = {}
  /\ link[k] = "down"
  /\ nodeTask' = [nodeTask EXCEPT ![k] = "ending"]
  /\ UNCHANGED <<wireVars, nodes, connections, stale, tunnel_sessions, pend, sweep, webSide>>

\* The task returns and its half of the socket is dropped.
Finish(k) ==
  /\ nodeTask' = [nodeTask EXCEPT ![k] = "done"]
  /\ link' = [link EXCEPT ![k] = "down"]
  /\ toServer' = [toServer EXCEPT ![k] = <<>>]
  /\ UNCHANGED <<toAgent, inbox>>

\* disconnect_node removes the node's registration, whichever connection it
\* is for.  Only a task that found one goes on to close the node's tunnels.
disconnect_node(k) ==
  /\ nodeTask[k] = "ending"
  /\ \/ /\ nodes[NodeOf(k)] = None
        /\ Finish(k)
        /\ UNCHANGED <<nodes, stale>>
     \/ /\ nodes[NodeOf(k)] # None
        /\ nodes' = [nodes EXCEPT ![NodeOf(k)] = None]
        /\ stale' = stale \ {NodeOf(k)}
        /\ nodeTask' = [nodeTask EXCEPT ![k] = "removed"]
        /\ UNCHANGED wireVars
  /\ UNCHANGED <<connections, tunnel_sessions, pend, sweep, webSide>>

\* Mutant: the tunnels of the node are not collected.
NothingToClose(k) ==
  /\ nodeTask[k] = "removed"
  /\ nodeTask' = [nodeTask EXCEPT ![k] = "sweeping"]
  /\ UNCHANGED <<wireVars, nodes, connections, stale, tunnel_sessions, pend, sweep, webSide>>

\* After the await on Redis: the snapshot sessions_to_close.
SessionsToClose(k) ==
  /\ nodeTask[k] = "removed"
  /\ sweep' = [sweep EXCEPT ![k] =
                 {p \in Sids \X Cids : tunnel_sessions[NodeOf(k)][p[1]] = p[2]}]
  /\ nodeTask' = [nodeTask EXCEPT ![k] = "sweeping"]
  /\ UNCHANGED <<wireVars, nodes, connections, stale, tunnel_sessions, pend, webSide>>

\* One iteration of notify_all_clients_for_closed_tunnel, up to its await.
notify_all_clients_for_closed_tunnel(k) ==
  /\ nodeTask[k] = "sweeping" /\ pend[k] = {}
  /\ \E p \in sweep[k] :
       LET n == NodeOf(k) IN
       /\ tunnel_sessions' = [tunnel_sessions EXCEPT ![n][p[1]] = None]
       /\ pend' = [pend EXCEPT ![k] = {<<p[2], WebFrame("closed", n, p[1], p[2], 0)>>}]
       /\ sweep' = [sweep EXCEPT ![k] = @ \ {p}]
  /\ UNCHANGED <<wireVars, nodes, connections, stale, nodeTask, webSide>>

SweepDone(k) ==
  /\ nodeTask[k] = "sweeping" /\ pend[k] = {} /\ sweep[k] = {}
  /\ Finish(k)
  /\ UNCHANGED <<nodes, connections, stale, tunnel_sessions, pend, sweep, webSide>>

-----------------------------------------------------------------------------
(* The periodic cleanup: server/src/tasks.rs.                              *)

\* More than CONNECTION_TIMEOUT passes since a registered peer's
\* last_heartbeat.  Nothing bounds how long a heartbeat is on its way or
\* Redis refuses writes.
HeartbeatLapses(x) ==
  /\ x \in connections \/ (x \in Nodes /\ nodes[x] # None)
  /\ stale' = stale \cup {x}
  /\ UNCHANGED <<wireVars, nodes, connections, tunnel_sessions, nodeSide, webSide>>

\* The registrations go; sockets, tasks and tunnel_sessions stay.
cleanup_dangling_connections ==
  /\ stale # {}
  /\ connections' = connections \ stale
  /\ nodes' = [n \in Nodes |-> IF n \in stale THEN None ELSE nodes[n]]
  /\ stale' = {}
  /\ UNCHANGED <<wireVars, tunnel_sessions, nodeSide, webSide>>
=============================================================================
