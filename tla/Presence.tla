------------------------------ MODULE Presence ------------------------------
(***************************************************************************)
(* Presence in Redis: the hash under which servers announce a node         *)
(* (`phirepass:users:U:nodes:N') and a web client                          *)
(* (`phirepass:connections:C'), and the relay that routes by the first.    *)
(*                                                                         *)
(* One node is modelled, since keys of different nodes never meet; its     *)
(* agent holds one socket at a time, to any server, while the tasks of     *)
(* older sockets may still be at work.  A write is HSET, which keeps the   *)
(* time to live of a key that exists, and then EXPIRE: two commands, and   *)
(* a server may stop, or Redis fail, in between.  Heartbeats and refreshes *)
(* hold the guard of their registry entry over both.                       *)
(***************************************************************************)
EXTENDS Naturals

CONSTANTS
  Nil,
  Servers,
  Sockets,     \* tasks of handle_node_socket; one that has ended is used again
  Clients,     \* web connections (cids)
  MaxFaults    \* bound: failed commands, broken or half-open sockets, crashes, delays

ASSUME PresenceAssumption ==
  /\ MaxFaults \in Nat
  /\ Nil \notin Servers \cup Sockets \cup Clients

VARIABLES
  nodeKey,      \* what Redis holds for the node: the server and whether it expires
  nodeTorn,     \* history: nodeKey lost its writer between HSET and EXPIRE
  nodes,        \* nodes[s]: the socket registered for the node at s, or Nil
  lapsed,       \* servers whose entry has a last_heartbeat over the timeout
  socket,       \* socket[k]: control state of a socket task, and its server
  agent,        \* the socket the agent holds, or Nil
  off,          \* the agent has been switched off for good
  clientKey,    \* clientKey[c]: what Redis holds for a client
  clientTorn,   \* history: clients whose key lost its writer
  connections,  \* clients in the registry of their server
  client,       \* client[c]: control state of handle_web_socket, and its server
  refresh,      \* refresh[s]: the refresh under way at s
  faults

nodeVars == <<nodeKey, nodeTorn, nodes, lapsed, socket, agent, off>>
clientVars == <<clientKey, clientTorn, connections, client, refresh>>
vars == <<nodeVars, clientVars, faults>>

NodeKey == [server : Servers, expires : BOOLEAN]
SocketState == [pc : {"ended", "hset", "expire", "insert", "loop", "deaf", "beatHset", "beatExpire", "remove", "del"},
                server : Servers \cup {Nil}]
ClientState == [pc : {"new", "hset", "expire", "loop", "remove", "del", "deleted", "ended"},
                server : Servers \cup {Nil}]
Refresh == [pc : {"idle", "hset", "expire"}, client : Clients \cup {Nil}, todo : SUBSET Clients]
Resting == [pc |-> "idle", client |-> Nil, todo |-> {}]
Ended == [pc |-> "ended", server |-> Nil]

\* Keys, registries and tasks are well formed, and a refresh is of a client
\* that is registered at its server.
PresenceTypeOK ==
  /\ nodeKey \in NodeKey \cup {Nil} /\ nodeTorn \in BOOLEAN
  /\ nodes \in [Servers -> Sockets \cup {Nil}]
  /\ lapsed \subseteq Servers
  /\ socket \in [Sockets -> SocketState]
  /\ \A k \in Sockets : socket[k].pc # "ended" => socket[k].server \in Servers
  /\ agent \in Sockets \cup {Nil} /\ off \in BOOLEAN
  /\ clientKey \in [Clients -> {"none", "bare", "expiring"}]
  /\ clientTorn \subseteq Clients /\ connections \subseteq Clients
  /\ client \in [Clients -> ClientState]
  /\ refresh \in [Servers -> Refresh]
  /\ \A s \in Servers : refresh[s].pc \in {"hset", "expire"} =>
       refresh[s].client \in connections /\ client[refresh[s].client].server = s
  /\ faults \in 0 .. MaxFaults

PresenceInit ==
  /\ nodeKey = Nil /\ nodeTorn = FALSE
  /\ nodes = [s \in Servers |-> Nil]
  /\ lapsed = {}
  /\ socket = [k \in Sockets |-> Ended]
  /\ agent = Nil /\ off = FALSE
  /\ clientKey = [c \in Clients |-> "none"]
  /\ clientTorn = {} /\ connections = {}
  /\ client = [c \in Clients |-> [pc |-> "new", server |-> Nil]]
  /\ refresh = [s \in Servers |-> Resting]
  /\ faults = 0

FaultStrikes == faults < MaxFaults /\ faults' = faults + 1

-----------------------------------------------------------------------------
(* A node's key and its registry entry.                                    *)

\* HSET of the node's fields, and EXPIRE, which does nothing without the key.
HsetNode(s) == nodeKey' = [server |-> s, expires |-> nodeKey # Nil /\ nodeKey.expires]
NodeBare == nodeKey # Nil /\ ~nodeKey.expires
ExpireNode == nodeKey' = IF nodeKey = Nil THEN Nil ELSE [nodeKey EXCEPT !.expires = TRUE]

\* A write is given up at HSET, which Redis may have carried out before its
\* answer was lost, or at EXPIRE.
NodeWriteFails(s, atHset) ==
  /\ FaultStrikes
  /\ \/ atHset /\ HsetNode(s)
     \/ nodeKey' = nodeKey
  /\ nodeTorn' = (nodeTorn \/ (nodeKey' # Nil /\ ~nodeKey'.expires))

\* Somebody holds the guard of the node's entry at s over a heartbeat.
Guarded(s) == \E k \in Sockets : socket[k].pc \in {"beatHset", "beatExpire"} /\ socket[k].server = s

SocketGoes(k, pc) == socket' = [socket EXCEPT ![k].pc = pc]

\* The agent opens a socket to some server and passes wait_for_auth.
Dial(k, s) ==
  /\ ~off /\ agent = Nil /\ socket[k].pc = "ended"
  /\ socket' = [socket EXCEPT ![k] = [pc |-> "hset", server |-> s]]
  /\ agent' = k
  /\ UNCHANGED <<nodeKey, nodeTorn, nodes, lapsed, off, clientVars, faults>>

\* Mutant: the key is written without a time to live.
set_node_connected_hset_only(k) ==
  /\ socket[k].pc = "hset"
  /\ HsetNode(socket[k].server)
  /\ SocketGoes(k, "insert")
  /\ UNCHANGED <<nodeTorn, nodes, lapsed, agent, off, clientVars, faults>>

\* set_node_connected: HSET, then EXPIRE, and no guard is held.
set_node_connected(k) ==
  /\ socket[k].pc = "hset"
  /\ HsetNode(socket[k].server)
  /\ SocketGoes(k, "expire")
  /\ UNCHANGED <<nodeTorn, nodes, lapsed, agent, off, clientVars, faults>>

set_node_connected_expire(k) ==
  /\ socket[k].pc = "expire"
  /\ ExpireNode
  /\ nodeTorn' = FALSE
  /\ SocketGoes(k, "insert")
  /\ UNCHANGED <<nodes, lapsed, agent, off, clientVars, faults>>

\* A failed command is logged, and the node registered all the same.
SetConnectedFails(k) ==
  /\ socket[k].pc \in {"hset", "expire"}
  /\ NodeWriteFails(socket[k].server, socket[k].pc = "hset")
  /\ SocketGoes(k, "insert")
  /\ UNCHANGED <<nodes, lapsed, agent, off, clientVars>>

InsertNode(k) ==
  /\ socket[k].pc = "insert" /\ ~Guarded(socket[k].server)
  /\ nodes' = [nodes EXCEPT ![socket[k].server] = k]
  /\ lapsed' = lapsed \ {socket[k].server}
  /\ SocketGoes(k, "loop")
  /\ UNCHANGED <<nodeKey, nodeTorn, agent, off, clientVars, faults>>

\* The agent sends one, or one it sent before it gave up the socket is late.
HeartbeatArrives(k) == IF agent = k THEN faults' = faults ELSE FaultStrikes

\* Mutant: a heartbeat of a node that is not registered is ignored.
handle_node_heartbeat_tolerant(k) ==
  /\ socket[k].pc = "loop" /\ HeartbeatArrives(k) /\ ~Guarded(socket[k].server)
  /\ nodes[socket[k].server] # Nil
  /\ SocketGoes(k, "beatHset")
  /\ UNCHANGED <<nodeKey, nodeTorn, nodes, lapsed, agent, off, clientVars>>

\* handle_node_heartbeat: the entry may be that of another socket of the node;
\* without one the message loop ends.
handle_node_heartbeat(k) ==
  /\ socket[k].pc = "loop" /\ HeartbeatArrives(k) /\ ~Guarded(socket[k].server)
  /\ SocketGoes(k, IF nodes[socket[k].server] # Nil THEN "beatHset" ELSE "remove")
  /\ UNCHANGED <<nodeKey, nodeTorn, nodes, lapsed, agent, off, clientVars>>

update_node_stats(k) ==
  /\ socket[k].pc = "beatHset"
  /\ HsetNode(socket[k].server)
  /\ SocketGoes(k, "beatExpire")
  /\ UNCHANGED <<nodeTorn, nodes, lapsed, agent, off, clientVars, faults>>

\* EXPIRE, and only then the new last_heartbeat.
update_node_stats_expire(k) ==
  /\ socket[k].pc = "beatExpire"
  /\ ExpireNode
  /\ nodeTorn' = FALSE
  /\ lapsed' = lapsed \ {socket[k].server}
  /\ SocketGoes(k, "loop")
  /\ UNCHANGED <<nodes, agent, off, clientVars, faults>>

UpdateStatsFails(k) ==
  /\ socket[k].pc \in {"beatHset", "beatExpire"}
  /\ NodeWriteFails(socket[k].server, socket[k].pc = "beatHset")
  /\ SocketGoes(k, "loop")
  /\ UNCHANGED <<nodes, lapsed, agent, off, clientVars>>

\* The server sees that the agent has closed its side, or never does (the
\* reader of a socket has no timeout).
SocketCloses(k) ==
  /\ socket[k].pc = "loop" /\ agent # k
  /\ SocketGoes(k, "remove")
  /\ UNCHANGED <<nodeKey, nodeTorn, nodes, lapsed, agent, off, clientVars, faults>>

GoesDeaf(k) ==
  /\ socket[k].pc = "loop" /\ agent # k
  /\ FaultStrikes
  /\ SocketGoes(k, "deaf")
  /\ UNCHANGED <<nodeKey, nodeTorn, nodes, lapsed, agent, off, clientVars>>

\* disconnect_node: the entry goes, whichever socket it is of, then the key.
disconnect_node(k) ==
  /\ socket[k].pc = "remove" /\ ~Guarded(socket[k].server)
  /\ \/ /\ nodes[socket[k].server] # Nil
        /\ nodes' = [nodes EXCEPT ![socket[k].server] = Nil]
        /\ lapsed' = lapsed \ {socket[k].server}
        /\ SocketGoes(k, "del")
     \/ /\ nodes[socket[k].server] = Nil
        /\ socket' = [socket EXCEPT ![k] = Ended]
        /\ UNCHANGED <<nodes, lapsed>>
  /\ UNCHANGED <<nodeKey, nodeTorn, agent, off, clientVars, faults>>

set_node_disconnected(k) ==
  /\ socket[k].pc = "del"
  /\ nodeKey' = Nil /\ nodeTorn' = FALSE
  /\ socket' = [socket EXCEPT ![k] = Ended]
  /\ UNCHANGED <<nodes, lapsed, agent, off, clientVars, faults>>

SetDisconnectedFails(k) ==
  /\ socket[k].pc = "del"
  /\ FaultStrikes
  /\ socket' = [socket EXCEPT ![k] = Ended]
  /\ UNCHANGED <<nodeKey, nodeTorn, nodes, lapsed, agent, off, clientVars>>

\* The agent is on a socket whose task refreshes entry and key at s.
Beating(s) ==
  /\ agent # Nil /\ socket[agent].server = s
  /\ socket[agent].pc \in {"loop", "beatHset", "beatExpire"}

\* last_heartbeat grows old: nobody sends heartbeats, or they are delayed.
Lapse(s) ==
  /\ nodes[s] # Nil /\ s \notin lapsed
  /\ \/ ~Beating(s) /\ faults' = faults
     \/ Beating(s) /\ FaultStrikes
  /\ lapsed' = lapsed \cup {s}
  /\ UNCHANGED <<nodeKey, nodeTorn, nodes, socket, agent, off, clientVars>>

\* Redis drops the key: nobody writes it, or the writes are delayed.
NodeKeyExpires ==
  /\ nodeKey # Nil /\ nodeKey.expires
  /\ \/ (\A s \in Servers : ~Beating(s)) /\ faults' = faults
     \/ (\E s \in Servers : Beating(s)) /\ FaultStrikes
  /\ nodeKey' = Nil /\ nodeTorn' = FALSE
  /\ UNCHANGED <<nodes, lapsed, socket, agent, off, clientVars>>

\* The agent loses its socket, notices that the server has ended it, misses
\* acks that go to the socket registered in place of its own, or is switched
\* off.
AgentLoses ==
  /\ agent # Nil
  /\ FaultStrikes
  /\ agent' = Nil
  /\ UNCHANGED <<nodeKey, nodeTorn, nodes, lapsed, socket, off, clientVars>>

AgentNotices ==
  /\ agent # Nil
  /\ \/ socket[agent].pc = "ended"
     \/ socket[agent].pc = "loop" /\ nodes[socket[agent].server] \notin {agent, Nil}
  /\ agent' = Nil
  /\ UNCHANGED <<nodeKey, nodeTorn, nodes, lapsed, socket, off, clientVars, faults>>

AgentOff ==
  /\ ~off
  /\ off' = TRUE /\ agent' = Nil
  /\ UNCHANGED <<nodeKey, nodeTorn, nodes, lapsed, socket, clientVars, faults>>

-----------------------------------------------------------------------------
(* A web client's key and its registry entry.                              *)

HsetClient(c) == clientKey' = [clientKey EXCEPT ![c] = IF @ = "none" THEN "bare" ELSE @]
ExpireClient(c) ==
  /\ clientKey' = [clientKey EXCEPT ![c] = IF @ = "none" THEN "none" ELSE "expiring"]
  /\ clientTorn' = clientTorn \ {c}
ClientWriteFails(c, atHset) ==
  /\ FaultStrikes
  /\ \/ atHset /\ HsetClient(c)
     \/ clientKey' = clientKey
  /\ clientTorn' = clientTorn \cup {d \in {c} : clientKey'[d] = "bare"}

\* refresh_connections_task holds the guard of this entry.
Refreshing(c) == \E s \in Servers : refresh[s].client = c

ClientGoes(c, pc) == client' = [client EXCEPT ![c].pc = pc]

\* handle_web_socket after wait_for_auth: first the registry, then Redis.
WebConnect(c, s) ==
  /\ client[c].pc = "new"
  /\ client' = [client EXCEPT ![c] = [pc |-> "hset", server |-> s]]
  /\ connections' = connections \cup {c}
  /\ UNCHANGED <<nodeVars, clientKey, clientTorn, refresh, faults>>

set_connection_connected(c) ==
  \/ /\ client[c].pc = "hset"
     /\ HsetClient(c)
     /\ ClientGoes(c, "expire")
     /\ UNCHANGED <<nodeVars, clientTorn, connections, refresh, faults>>
  \/ /\ client[c].pc = "expire"
     /\ ExpireClient(c)
     /\ ClientGoes(c, "loop")
     /\ UNCHANGED <<nodeVars, connections, refresh, faults>>

SetConnectionFails(c) ==
  /\ client[c].pc \in {"hset", "expire"}
  /\ ClientWriteFails(c, client[c].pc = "hset")
  /\ ClientGoes(c, "loop")
  /\ UNCHANGED <<nodeVars, connections, refresh>>

ClientLeaves(c) ==
  /\ client[c].pc = "loop"
  /\ ClientGoes(c, "remove")
  /\ UNCHANGED <<nodeVars, clientKey, clientTorn, connections, refresh, faults>>

\* Mutant: the refresh keeps no guard, so the entry may go meanwhile.
disconnect_web_client_unguarded(c) ==
  /\ client[c].pc = "remove"
  /\ ClientGoes(c, IF c \in connections THEN "del" ELSE "ended")
  /\ connections' = connections \ {c}
  /\ UNCHANGED <<nodeVars, clientKey, clientTorn, refresh, faults>>

\* Mutant: the key is deleted while the entry stays.
disconnect_web_client_kept(c) ==
  /\ client[c].pc = "remove" /\ ~Refreshing(c)
  /\ ClientGoes(c, IF c \in connections THEN "del" ELSE "ended")
  /\ UNCHANGED <<nodeVars, clientKey, clientTorn, connections, refresh, faults>>

\* disconnect_web_client: an entry that the cleanup has removed is not deleted
\* from Redis.
disconnect_web_client(c) ==
  /\ client[c].pc = "remove" /\ ~Refreshing(c)
  /\ ClientGoes(c, IF c \in connections THEN "del" ELSE "ended")
  /\ connections' = connections \ {c}
  /\ UNCHANGED <<nodeVars, clientKey, clientTorn, refresh, faults>>

set_connection_disconnected(c) ==
  /\ client[c].pc = "del"
  /\ clientKey' = [clientKey EXCEPT ![c] = "none"]
  /\ clientTorn' = clientTorn \ {c}
  /\ ClientGoes(c, "deleted")
  /\ UNCHANGED <<nodeVars, connections, refresh, faults>>

SetConnectionDisconnectedFails(c) ==
  /\ client[c].pc = "del"
  /\ FaultStrikes
  /\ ClientGoes(c, "ended")
  /\ UNCHANGED <<nodeVars, clientKey, clientTorn, connections, refresh>>

-----------------------------------------------------------------------------
(* refresh_connections_task: clean up, then refresh every client found.    *)

\* The iterator yields the next client that is still registered, with its guard.
RefreshOn(s, left) ==
  \/ left = {} /\ refresh' = [refresh EXCEPT ![s] = Resting]
  \/ \E c \in left : refresh' = [refresh EXCEPT ![s] = [pc |-> "hset", client |-> c, todo |-> left \ {c}]]

\* Mutant: only clients are cleaned up.
refresh_connections_task_clients_only(s) ==
  /\ refresh[s].pc = "idle"
  /\ \E silent \in SUBSET {c \in connections : client[c].server = s} :
       /\ connections' = connections \ silent
       /\ RefreshOn(s, {c \in connections \ silent : client[c].server = s})
  /\ UNCHANGED <<nodeVars, clientKey, clientTorn, client, faults>>

\* cleanup_dangling_connections drops clients silent for too long and a lapsed
\* node, and leaves their keys to expire; then the iteration starts.
refresh_connections_task(s) ==
  /\ refresh[s].pc = "idle" /\ ~Guarded(s)
  /\ \E silent \in SUBSET {c \in connections : client[c].server = s} :
       /\ connections' = connections \ silent
       /\ RefreshOn(s, {c \in connections \ silent : client[c].server = s})
  /\ nodes' = [nodes EXCEPT ![s] = IF s \in lapsed THEN Nil ELSE @]
  /\ lapsed' = lapsed \ {s}
  /\ UNCHANGED <<nodeKey, nodeTorn, socket, agent, off, clientKey, clientTorn, client, faults>>

refresh_connection(s) ==
  /\ \/ /\ refresh[s].pc = "hset"
        /\ HsetClient(refresh[s].client)
        /\ refresh' = [refresh EXCEPT ![s].pc = "expire"]
        /\ clientTorn' = clientTorn
     \/ /\ refresh[s].pc = "expire"
        /\ ExpireClient(refresh[s].client)
        /\ RefreshOn(s, refresh[s].todo \cap connections)
  /\ UNCHANGED <<nodeVars, connections, client, faults>>

RefreshFails(s) ==
  /\ refresh[s].pc \in {"hset", "expire"}
  /\ ClientWriteFails(refresh[s].client, refresh[s].pc = "hset")
  /\ RefreshOn(s, refresh[s].todo \cap connections)
  /\ UNCHANGED <<nodeVars, connections, client>>

ClientKeyExpires(c) ==
  /\ clientKey[c] = "expiring"
  /\ \/ c \notin connections /\ client[c].pc \notin {"hset", "expire"} /\ faults' = faults
     \/ FaultStrikes
  /\ clientKey' = [clientKey EXCEPT ![c] = "none"]
  /\ UNCHANGED <<nodeVars, clientTorn, connections, client, refresh>>

-----------------------------------------------------------------------------
(* A server process stops at any point and starts again empty.             *)

ServerRestarts(s) ==
  /\ FaultStrikes
  /\ LET mine == {k \in Sockets : socket[k].server = s}
         own == {c \in Clients : client[c].server = s}
         midway == {c \in own : client[c].pc = "expire" \/ refresh[s].client = c} IN
     /\ socket' = [k \in Sockets |-> IF k \in mine THEN Ended ELSE socket[k]]
     /\ nodeTorn' = (nodeTorn \/ (NodeBare /\ \E k \in mine : socket[k].pc \in {"expire", "beatExpire"}))
     /\ client' = [c \in Clients |-> IF c \in own THEN [client[c] EXCEPT !.pc = IF @ = "deleted" THEN @ ELSE "ended"]
                                     ELSE client[c]]
     /\ clientTorn' = clientTorn \cup {c \in midway : clientKey[c] = "bare"}
     /\ connections' = connections \ own
  /\ nodes' = [nodes EXCEPT ![s] = Nil]
  /\ lapsed' = lapsed \ {s}
  /\ refresh' = [refresh EXCEPT ![s] = Resting]
  /\ UNCHANGED <<nodeKey, agent, off, clientKey>>

-----------------------------------------------------------------------------
(* The relay: relay/src/db/redis.rs, called by upstream_peer in proxy.rs.  *)

\* The server a browser is sent to: the one in the hash whose name SCAN finds.
\* A server id in the request is taken for the name of a hash as it stands;
\* servers are saved under another name, so that finds nothing.
get_user_server_by_node_id(server_id) ==
  IF server_id = Nil /\ nodeKey # Nil THEN nodeKey.server ELSE Nil

-----------------------------------------------------------------------------
SocketStep(k) ==
  \/ set_node_connected(k)
  \/ set_node_connected_expire(k)
  \/ InsertNode(k)
  \/ socket[k].pc = "loop" /\ agent = k /\ handle_node_heartbeat(k)
  \/ update_node_stats(k)
  \/ update_node_stats_expire(k)
  \/ SocketCloses(k)
  \/ disconnect_node(k)
  \/ set_node_disconnected(k)

ClientStep(c) ==
  \/ set_connection_connected(c)
  \/ disconnect_web_client(c)
  \/ set_connection_disconnected(c)

RefreshStep(s) == refresh_connections_task(s) \/ refresh_connection(s)

TimePasses == NodeKeyExpires \/ (\E s \in Servers : Lapse(s)) \/ (\E c \in Clients : ClientKeyExpires(c))

AgentStep == AgentNotices \/ (\E k \in Sockets, s \in Servers : Dial(k, s))

PresenceFault ==
  \/ AgentLoses
  \/ \E k \in Sockets :
       \/ SetConnectedFails(k)
       \/ UpdateStatsFails(k)
       \/ SetDisconnectedFails(k)
       \/ GoesDeaf(k)
       \/ agent # k /\ handle_node_heartbeat(k)
  \/ \E c \in Clients : SetConnectionFails(c) \/ SetConnectionDisconnectedFails(c)
  \/ \E s \in Servers : RefreshFails(s) \/ ServerRestarts(s)

PresenceNext ==
  \/ AgentOff
  \/ \E k \in Sockets : SocketStep(k)
  \/ \E c \in Clients : (\E s \in Servers : WebConnect(c, s)) \/ ClientStep(c) \/ ClientLeaves(c)
  \/ \E s \in Servers : RefreshStep(s)
  \/ TimePasses
  \/ AgentStep
  \/ PresenceFault

PresenceSpec == PresenceInit /\ [][PresenceNext]_vars

\* Tasks and timers go on; Redis drops what nobody writes; the agent dials
\* again.  Nothing is assumed of faults, of switching off, or of clients.
FairPresenceSpec ==
  /\ PresenceSpec
  /\ \A k \in Sockets : WF_vars(SocketStep(k))
  /\ \A c \in Clients : WF_vars(ClientStep(c))
  /\ \A s \in Servers : WF_vars(RefreshStep(s)) /\ WF_vars(Lapse(s) /\ faults' = faults)
  /\ \A c \in Clients : WF_vars(ClientKeyExpires(c) /\ faults' = faults)
  /\ WF_vars(NodeKeyExpires /\ faults' = faults)
  /\ WF_vars(AgentStep)

-----------------------------------------------------------------------------
(* Properties.                                                             *)

\* A key that nothing but a writer can remove is one whose writer is about to
\* set its time to live, or was lost before it could (update_node_stats and
\* refresh_connection run HSET and EXPIRE apart, and several tasks write and
\* delete the same key).
ExpiryPending ==
  /\ NodeBare => nodeTorn \/ \E k \in Sockets : socket[k].pc \in {"expire", "beatExpire"}
  /\ \A c \in Clients : clientKey[c] = "bare" =>
       c \in clientTorn \/ client[c].pc = "expire" \/ \E s \in Servers : refresh[s].pc = "expire" /\ refresh[s].client = c

\* A client whose key disconnect_web_client has deleted never reappears in
\* Redis, although the refresh task writes the keys of clients it has listed.
ClientForgotten == \A c \in Clients : client[c].pc = "deleted" => clientKey[c] = "none"

\* Once faults end, the agent stays on one socket and its key names the server
\* of that socket, so that a lookup of the relay (without a hint) finds it; late
\* disconnects and heartbeats of older sockets do not win.
Routed ==
  /\ agent # Nil /\ nodeKey # Nil
  /\ get_user_server_by_node_id(Nil) = socket[agent].server
  /\ nodes[nodeKey.server] # Nil
RouteSettles == <>[](off \/ Routed)

\* A node that is switched off disappears for good from every server, also when
\* a server never learns that its socket is dead, and from Redis unless the
\* writer of its key was lost; so do the keys of clients that have left.
OfflineForgotten ==
  <>[](/\ off => (\A s \in Servers : nodes[s] = Nil) /\ (nodeKey = Nil \/ nodeTorn)
       /\ \A c \in Clients : client[c].pc \in {"ended", "deleted"} => clientKey[c] = "none" \/ c \in clientTorn)
=============================================================================
