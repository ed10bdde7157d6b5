--------------------------- MODULE PresenceProofs ---------------------------
(***************************************************************************)
(* Proofs about Presence: keys, registries and tasks stay well formed, a   *)
(* key without a time to live has a writer that will set it or was lost,   *)
(* and the key of a client that was deleted stays deleted, for any number  *)
(* of servers, sockets, clients and faults.                                *)
(***************************************************************************)
EXTENDS Presence, TLAPS

\* The two halves of PresenceTypeOK.
NodeTypes ==
  /\ nodeKey \in NodeKey \cup {Nil} /\ nodeTorn \in BOOLEAN
  /\ nodes \in [Servers -> Sockets \cup {Nil}]
  /\ lapsed \subseteq Servers
  /\ socket \in [Sockets -> SocketState]
  /\ \A k \in Sockets : socket[k].pc # "ended" => socket[k].server \in Servers
  /\ agent \in Sockets \cup {Nil} /\ off \in BOOLEAN
  /\ faults \in 0 .. MaxFaults

ClientTypes ==
  /\ clientKey \in [Clients -> {"none", "bare", "expiring"}]
  /\ clientTorn \subseteq Clients /\ connections \subseteq Clients
  /\ client \in [Clients -> ClientState]
  /\ refresh \in [Servers -> Refresh]

\* What the refresh tasks rely on: a client in the registry has not begun to
\* end; a task at rest names no client, and one at work names a registered
\* client of its own server; so do the clients it has yet to visit, unless
\* they have gone.
Refreshes ==
  /\ \A c \in connections : client[c].pc \in {"hset", "expire", "loop", "remove"} /\ client[c].server \in Servers
  /\ \A s \in Servers :
       /\ refresh[s].pc = "idle" => refresh[s].client = Nil
       /\ refresh[s].pc # "idle" => refresh[s].client \in connections /\ client[refresh[s].client].server = s
       /\ \A c \in refresh[s].todo : client[c].pc # "new" /\ client[c].server = s

Typed == NodeTypes /\ ClientTypes /\ Refreshes

\* PresenceTypeOK is part of the inductive invariant.
LEMMA TypedIsTypeOK == Typed => PresenceTypeOK
BY Zenon DEF Typed, NodeTypes, ClientTypes, Refreshes, PresenceTypeOK

\* PresenceInit makes everything empty.
LEMMA InitTyped == PresenceInit => Typed
<1> SUFFICES ASSUME PresenceInit PROVE Typed
  BY Zenon
<1>1. NodeTypes
  <2>1. nodeTorn \in BOOLEAN /\ off \in BOOLEAN /\ nodeKey \in NodeKey \cup {Nil}
    BY Zenon DEF PresenceInit
  <2>2. faults \in 0 .. MaxFaults
    BY PresenceAssumption DEF PresenceInit
  <2>3. socket \in [Sockets -> SocketState] /\ \A k \in Sockets : socket[k].pc = "ended"
    BY Zenon DEF PresenceInit, Ended, SocketState
  <2> QED BY <2>1, <2>2, <2>3, Zenon DEF PresenceInit, NodeTypes
<1>2. ClientTypes
  BY Zenon DEF PresenceInit, ClientTypes, Resting, ClientState, Refresh
<1>3. Refreshes
  BY Zenon DEF PresenceInit, Refreshes, Resting
<1> QED BY <1>1, <1>2, <1>3, Zenon DEF Typed

\* A task that moves on is still a task of its server.
LEMMA SocketMoves ==
  ASSUME NodeTypes, NEW k \in Sockets, socket[k].pc # "ended",
         NEW pc \in {"expire", "insert", "loop", "deaf", "beatHset", "beatExpire", "remove", "del"}, SocketGoes(k, pc)
  PROVE  /\ socket' \in [Sockets -> SocketState]
         /\ \A j \in Sockets : socket'[j].pc # "ended" => socket'[j].server \in Servers
BY Zenon DEF NodeTypes, SocketGoes, SocketState

\* A task that ends has no server any more.
LEMMA SocketEnds ==
  ASSUME NodeTypes, NEW k \in Sockets, socket' = [socket EXCEPT ![k] = Ended]
  PROVE  /\ socket' \in [Sockets -> SocketState]
         /\ \A j \in Sockets : socket'[j].pc # "ended" => socket'[j].server \in Servers
BY Zenon DEF NodeTypes, Ended, SocketState

\* The commands leave a key of the right shape.
LEMMA KeyShape ==
  ASSUME NodeTypes
  PROVE  /\ \A s \in Servers : HsetNode(s) => nodeKey' \in NodeKey \cup {Nil}
         /\ ExpireNode => nodeKey' \in NodeKey \cup {Nil}
<1>1. ASSUME NEW s \in Servers, HsetNode(s) PROVE nodeKey' \in NodeKey \cup {Nil}
  <2> DEFINE e == nodeKey # Nil /\ nodeKey.expires
  <2>1. e \in BOOLEAN
    BY Zenon DEF e
  <2> HIDE DEF e
  <2>2. [server |-> s, expires |-> e] \in NodeKey
    BY <2>1, Zenon DEF NodeKey
  <2> QED BY <1>1, <2>2, Zenon DEF HsetNode, e
<1>2. ASSUME ExpireNode PROVE nodeKey' \in NodeKey \cup {Nil}
  BY <1>2, Zenon DEF ExpireNode, NodeTypes, NodeKey
<1> QED BY <1>1, <1>2, Zenon

\* Faults stay within their bound.
LEMMA FaultCounts ==
  ASSUME NodeTypes, FaultStrikes
  PROVE  faults' \in 0 .. MaxFaults
BY PresenceAssumption DEF NodeTypes, FaultStrikes

\* Steps of the node's socket tasks, of its agent and of time.
LEMMA NodeStepTyped ==
  ASSUME NodeTypes, NEW k \in Sockets, SocketStep(k)
  PROVE  NodeTypes'
<1> USE DEF SocketState
<1>1. CASE set_node_connected(k)
  <2>1. socket[k].server \in Servers
    BY <1>1, Zenon DEF set_node_connected, NodeTypes
  <2> QED BY <1>1, <2>1, SocketMoves, KeyShape, Zenon DEF set_node_connected, NodeTypes
<1>2. CASE set_node_connected_expire(k)
  <2>1. nodeTorn' \in BOOLEAN
    BY <1>2, Zenon DEF set_node_connected_expire
  <2> QED BY <1>2, <2>1, SocketMoves, KeyShape, Zenon DEF set_node_connected_expire, NodeTypes
<1>3. CASE InsertNode(k)
  <2>1. nodes' \in [Servers -> Sockets \cup {Nil}] /\ lapsed' \subseteq Servers
    BY <1>3, Zenon DEF InsertNode, NodeTypes
  <2> QED BY <1>3, <2>1, SocketMoves, Zenon DEF InsertNode, NodeTypes
<1>4. CASE handle_node_heartbeat(k) /\ agent = k
  BY <1>4, SocketMoves, Zenon DEF handle_node_heartbeat, HeartbeatArrives, NodeTypes
<1>5. CASE update_node_stats(k)
  <2>1. socket[k].server \in Servers
    BY <1>5, Zenon DEF update_node_stats, NodeTypes
  <2> QED BY <1>5, <2>1, SocketMoves, KeyShape, Zenon DEF update_node_stats, NodeTypes
<1>6. CASE update_node_stats_expire(k)
  <2>1. nodeTorn' \in BOOLEAN /\ lapsed' \subseteq Servers
    BY <1>6, Zenon DEF update_node_stats_expire, NodeTypes
  <2> QED BY <1>6, <2>1, SocketMoves, KeyShape, Zenon DEF update_node_stats_expire, NodeTypes
<1>7. CASE SocketCloses(k)
  BY <1>7, SocketMoves, Zenon DEF SocketCloses, NodeTypes
<1>8. CASE disconnect_node(k)
  <2>1. nodes' \in [Servers -> Sockets \cup {Nil}] /\ lapsed' \subseteq Servers
    BY <1>8, Zenon DEF disconnect_node, NodeTypes
  <2>2. /\ socket' \in [Sockets -> SocketState]
        /\ \A j \in Sockets : socket'[j].pc # "ended" => socket'[j].server \in Servers
    BY <1>8, SocketMoves, SocketEnds, Zenon DEF disconnect_node
  <2> QED BY <1>8, <2>1, <2>2, Zenon DEF disconnect_node, NodeTypes
<1>9. CASE set_node_disconnected(k)
  <2>1. nodeTorn' \in BOOLEAN /\ nodeKey' = Nil
    BY <1>9, Zenon DEF set_node_disconnected
  <2> QED BY <1>9, <2>1, SocketEnds, Zenon DEF set_node_disconnected, NodeTypes
<1> QED BY <1>1, <1>2, <1>3, <1>4, <1>5, <1>6, <1>7, <1>8, <1>9, Zenon DEF SocketStep

\* A node's write that is given up.
LEMMA NodeWriteTyped ==
  ASSUME NodeTypes, NEW s \in Servers, NEW b \in BOOLEAN, NodeWriteFails(s, b)
  PROVE  nodeKey' \in NodeKey \cup {Nil} /\ nodeTorn' \in BOOLEAN /\ faults' \in 0 .. MaxFaults
<1>1. faults' \in 0 .. MaxFaults
  BY FaultCounts, Zenon DEF NodeWriteFails
<1>2. nodeTorn' \in BOOLEAN
  BY Zenon DEF NodeWriteFails
<1>3. nodeKey' \in NodeKey \cup {Nil}
  BY KeyShape, Zenon DEF NodeWriteFails, NodeTypes
<1> QED BY <1>1, <1>2, <1>3, Zenon

\* Steps that only concern the agent and time.
LEMMA AgentTyped ==
  ASSUME NodeTypes, AgentStep \/ AgentOff \/ AgentLoses \/ NodeKeyExpires \/ \E s \in Servers : Lapse(s)
  PROVE  NodeTypes'
<1>1. CASE AgentNotices
  BY <1>1, Zenon DEF AgentNotices, NodeTypes
<1>2. ASSUME NEW k \in Sockets, NEW s \in Servers, Dial(k, s) PROVE NodeTypes'
  <2>1. /\ socket' \in [Sockets -> SocketState]
        /\ \A j \in Sockets : socket'[j].pc # "ended" => socket'[j].server \in Servers
    BY <1>2, Zenon DEF Dial, NodeTypes, SocketState
  <2> QED BY <1>2, <2>1, Zenon DEF Dial, NodeTypes
<1>3. CASE AgentOff
  <2>1. off' \in BOOLEAN
    BY <1>3, Zenon DEF AgentOff
  <2> QED BY <1>3, <2>1, Zenon DEF AgentOff, NodeTypes
<1>4. CASE AgentLoses
  BY <1>4, FaultCounts, Zenon DEF AgentLoses, NodeTypes
<1>5. CASE NodeKeyExpires
  <2>1. faults' \in 0 .. MaxFaults
    BY <1>5, FaultCounts, Zenon DEF NodeKeyExpires, NodeTypes
  <2>2. nodeTorn' \in BOOLEAN /\ nodeKey' = Nil
    BY <1>5, Zenon DEF NodeKeyExpires
  <2> QED BY <1>5, <2>1, <2>2, Zenon DEF NodeKeyExpires, NodeTypes
<1>6. ASSUME NEW s \in Servers, Lapse(s) PROVE NodeTypes'
  <2>1. faults' \in 0 .. MaxFaults
    BY <1>6, FaultCounts, Zenon DEF Lapse, NodeTypes
  <2> QED BY <1>6, <2>1, Zenon DEF Lapse, NodeTypes
<1> QED BY <1>1, <1>2, <1>3, <1>4, <1>5, <1>6, Zenon DEF AgentStep

\* Faults of the node's sockets.
LEMMA NodeFaultTyped ==
  ASSUME NodeTypes, NEW k \in Sockets,
         \/ SetConnectedFails(k) \/ UpdateStatsFails(k) \/ SetDisconnectedFails(k) \/ GoesDeaf(k)
         \/ agent # k /\ handle_node_heartbeat(k)
  PROVE  NodeTypes'
<1>1. CASE SetConnectedFails(k)
  <2>1. socket[k].server \in Servers /\ (socket[k].pc = "hset") \in BOOLEAN
    BY <1>1, Zenon DEF SetConnectedFails, NodeTypes
  <2>2. nodeKey' \in NodeKey \cup {Nil} /\ nodeTorn' \in BOOLEAN /\ faults' \in 0 .. MaxFaults
    BY <1>1, <2>1, NodeWriteTyped, Zenon DEF SetConnectedFails
  <2> QED BY <1>1, <2>2, SocketMoves, Zenon DEF SetConnectedFails, NodeTypes
<1>2. CASE UpdateStatsFails(k)
  <2>1. socket[k].server \in Servers /\ (socket[k].pc = "beatHset") \in BOOLEAN
    BY <1>2, Zenon DEF UpdateStatsFails, NodeTypes
  <2>2. nodeKey' \in NodeKey \cup {Nil} /\ nodeTorn' \in BOOLEAN /\ faults' \in 0 .. MaxFaults
    BY <1>2, <2>1, NodeWriteTyped, Zenon DEF UpdateStatsFails
  <2> QED BY <1>2, <2>2, SocketMoves, Zenon DEF UpdateStatsFails, NodeTypes
<1>3. CASE SetDisconnectedFails(k)
  BY <1>3, SocketEnds, FaultCounts, Zenon DEF SetDisconnectedFails, NodeTypes
<1>4. CASE GoesDeaf(k)
  BY <1>4, SocketMoves, FaultCounts, Zenon DEF GoesDeaf, NodeTypes
<1>5. CASE agent # k /\ handle_node_heartbeat(k)
  BY <1>5, SocketMoves, FaultCounts, Zenon DEF handle_node_heartbeat, HeartbeatArrives,
     NodeTypes
<1> QED BY <1>1, <1>2, <1>3, <1>4, <1>5, Zenon

\* The two steps that concern nodes and clients, as far as nodes go.
LEMMA ServerTyped ==
  ASSUME NodeTypes, NEW s \in Servers, refresh_connections_task(s) \/ ServerRestarts(s)
  PROVE  NodeTypes'
<1>1. CASE refresh_connections_task(s)
  BY <1>1, Zenon DEF refresh_connections_task, NodeTypes
<1>2. CASE ServerRestarts(s)
  <2>1. faults' \in 0 .. MaxFaults
    BY <1>2, FaultCounts, Zenon DEF ServerRestarts
  <2>2. nodeTorn' \in BOOLEAN
    BY <1>2, Zenon DEF ServerRestarts
  <2>3. /\ socket' \in [Sockets -> SocketState]
        /\ \A j \in Sockets : socket'[j].pc # "ended" => socket'[j].server \in Servers
    BY <1>2, Zenon DEF ServerRestarts, Ended, SocketState, NodeTypes
  <2>4. nodes' \in [Servers -> Sockets \cup {Nil}] /\ lapsed' \subseteq Servers
    BY <1>2, Zenon DEF ServerRestarts, NodeTypes
  <2> QED BY <1>2, <2>1, <2>2, <2>3, <2>4, Zenon DEF ServerRestarts, NodeTypes
<1> QED BY <1>1, <1>2, Zenon

\* The commands on a client's key.
LEMMA ClientKeyShape ==
  ASSUME ClientTypes, NEW c \in Clients
  PROVE  /\ HsetClient(c) => clientKey' \in [Clients -> {"none", "bare", "expiring"}]
         /\ ExpireClient(c) => clientKey' \in [Clients -> {"none", "bare", "expiring"}] /\ clientTorn' \subseteq Clients
         /\ \A b \in BOOLEAN : ClientWriteFails(c, b) =>
              clientKey' \in [Clients -> {"none", "bare", "expiring"}] /\ clientTorn' \subseteq Clients
<1>1. HsetClient(c) => clientKey' \in [Clients -> {"none", "bare", "expiring"}]
  BY Zenon DEF HsetClient, ClientTypes
<1>2. ExpireClient(c) => clientKey' \in [Clients -> {"none", "bare", "expiring"}] /\ clientTorn' \subseteq Clients
  BY Zenon DEF ExpireClient, ClientTypes
<1>3. ASSUME NEW b \in BOOLEAN, ClientWriteFails(c, b)
      PROVE  clientKey' \in [Clients -> {"none", "bare", "expiring"}] /\ clientTorn' \subseteq Clients
  BY <1>1, <1>3, Zenon DEF ClientWriteFails, ClientTypes
<1> QED BY <1>1, <1>2, <1>3, Zenon

\* A client's task that moves on, and which clients are affected by that.
LEMMA ClientMoves ==
  ASSUME ClientTypes, NEW c \in Clients, NEW pc \in {"expire", "loop", "remove", "del", "deleted", "ended"}, ClientGoes(c, pc)
  PROVE  /\ client' \in [Clients -> ClientState]
         /\ client'[c].pc = pc
         /\ \A d \in Clients : client'[d].server = client[d].server
         /\ \A d \in Clients \ {c} : client'[d] = client[d]
BY Zenon DEF ClientTypes, ClientGoes, ClientState

\* A refresh that moves on visits clients of its server that are registered.
LEMMA RefreshMoves ==
  ASSUME ClientTypes, NEW s \in Servers, NEW left \in SUBSET Clients, RefreshOn(s, left)
  PROVE  /\ refresh' \in [Servers -> Refresh]
         /\ \A t \in Servers \ {s} : refresh'[t] = refresh[t]
         /\ refresh'[s].pc = "idle" => refresh'[s].client = Nil
         /\ refresh'[s].pc # "idle" => refresh'[s].client \in left
         /\ refresh'[s].pc # "expire"
         /\ refresh'[s].todo \subseteq left
BY DEF ClientTypes, RefreshOn, Refresh, Resting

\* Steps of a client's own task: none of them takes away a client that a
\* refresh has a guard on.
LEMMA ClientStepTyped ==
  ASSUME Typed, NEW c \in Clients,
         \/ ClientStep(c) \/ ClientLeaves(c) \/ SetConnectionFails(c) \/ SetConnectionDisconnectedFails(c)
         \/ ClientKeyExpires(c) \/ \E s \in Servers : WebConnect(c, s)
  PROVE  (ClientTypes /\ Refreshes)'
<1> USE DEF Typed
<1>1. ASSUME NEW s \in Servers, WebConnect(c, s) PROVE (ClientTypes /\ Refreshes)'
  <2>1. c \notin connections /\ \A t \in Servers : refresh[t].client # c /\ c \notin refresh[t].todo
    BY <1>1, PresenceAssumption DEF WebConnect, Refreshes
  <2>2. client' \in [Clients -> ClientState] /\ client'[c] = [pc |-> "hset", server |-> s]
        /\ \A d \in Clients \ {c} : client'[d] = client[d]
    BY <1>1, Zenon DEF WebConnect, ClientTypes, ClientState
  <2>3. ClientTypes'
    BY <1>1, <2>2, Zenon DEF WebConnect, ClientTypes
  <2>4. Refreshes'
    BY <1>1, <2>1, <2>2 DEF WebConnect, Refreshes, ClientTypes, Refresh
  <2> QED BY <2>3, <2>4, Zenon
<1>2. CASE set_connection_connected(c)
  <2>1. ClientTypes'
    BY <1>2, ClientMoves, ClientKeyShape, Zenon DEF set_connection_connected, ClientTypes
  <2>2. Refreshes'
    BY <1>2, ClientMoves DEF set_connection_connected, Refreshes, ClientTypes, Refresh
  <2> QED BY <2>1, <2>2, Zenon
<1>3. CASE disconnect_web_client(c)
  <2>1. client' \in [Clients -> ClientState] /\ client'[c].pc \in {"del", "ended"}
        /\ (\A d \in Clients : client'[d].server = client[d].server) /\ \A d \in Clients \ {c} : client'[d] = client[d]
    BY <1>3, ClientMoves, Zenon DEF disconnect_web_client
  <2>2. ClientTypes'
    BY <1>3, <2>1, Zenon DEF disconnect_web_client, ClientTypes
  <2>3. Refreshes'
    BY <1>3, <2>1 DEF disconnect_web_client, Refreshing, Refreshes, ClientTypes, Refresh
  <2> QED BY <2>2, <2>3, Zenon
<1>4. CASE set_connection_disconnected(c) \/ SetConnectionDisconnectedFails(c)
  <2>1. ClientTypes'
    BY <1>4, ClientMoves, Zenon DEF set_connection_disconnected,
       SetConnectionDisconnectedFails, ClientTypes
  <2>2. c \notin connections
    BY <1>4, Zenon DEF set_connection_disconnected, SetConnectionDisconnectedFails, Refreshes
  <2>3. Refreshes'
    BY <1>4, <2>2, ClientMoves DEF set_connection_disconnected, SetConnectionDisconnectedFails,
       Refreshes, ClientTypes, Refresh
  <2> QED BY <2>1, <2>3, Zenon
<1>5. CASE ClientLeaves(c)
  <2>1. ClientTypes'
    BY <1>5, ClientMoves, Zenon DEF ClientLeaves, ClientTypes
  <2>2. Refreshes'
    BY <1>5, ClientMoves DEF ClientLeaves, Refreshes, ClientTypes, Refresh
  <2> QED BY <2>1, <2>2, Zenon
<1>6. CASE SetConnectionFails(c)
  <2>0. (client[c].pc = "hset") \in BOOLEAN
    BY Zenon
  <2>1. ClientTypes'
    BY <1>6, <2>0, ClientMoves, ClientKeyShape, Zenon DEF SetConnectionFails, ClientTypes
  <2>2. Refreshes'
    BY <1>6, ClientMoves DEF SetConnectionFails, Refreshes, ClientTypes, Refresh
  <2> QED BY <2>1, <2>2, Zenon
<1>7. CASE ClientKeyExpires(c)
  BY <1>7, Zenon DEF ClientKeyExpires, ClientTypes, Refreshes
<1> QED BY <1>1, <1>2, <1>3, <1>4, <1>5, <1>6, <1>7, Zenon DEF ClientStep

\* Steps of the refresh task, and a restart.
LEMMA RefreshTyped ==
  ASSUME Typed, NEW s \in Servers, RefreshStep(s) \/ RefreshFails(s) \/ ServerRestarts(s)
  PROVE  (ClientTypes /\ Refreshes)'
<1> USE DEF Typed
<1>1. CASE refresh_connections_task(s)
  <2>1. PICK silent \in SUBSET {c \in connections : client[c].server = s} :
          /\ connections' = connections \ silent
          /\ RefreshOn(s, {c \in connections \ silent : client[c].server = s})
    BY <1>1, Zenon DEF refresh_connections_task
  <2> DEFINE left == {c \in connections \ silent : client[c].server = s}
  <2>2. left \in SUBSET Clients /\ left \subseteq connections'
    BY <2>1, Zenon DEF ClientTypes
  <2>3. /\ refresh' \in [Servers -> Refresh]
        /\ \A t \in Servers \ {s} : refresh'[t] = refresh[t]
        /\ refresh'[s].pc = "idle" => refresh'[s].client = Nil
        /\ refresh'[s].pc # "idle" => refresh'[s].client \in left
        /\ refresh'[s].todo \subseteq left
    BY <2>1, <2>2, RefreshMoves, Zenon
  <2>4. client' = client /\ clientKey' = clientKey /\ clientTorn' = clientTorn
    BY <1>1, Zenon DEF refresh_connections_task
  <2>5. ClientTypes'
    BY <2>1, <2>3, <2>4, Zenon DEF ClientTypes
  <2>6. Refreshes'
    BY <2>1, <2>2, <2>3, <2>4 DEF Refreshes, ClientTypes
  <2> QED BY <2>5, <2>6, Zenon
<1>2. CASE refresh_connection(s) \/ RefreshFails(s)
  <2>1. refresh[s].client \in Clients /\ refresh[s].client \in connections /\ client[refresh[s].client].server = s
    BY <1>2, Zenon DEF refresh_connection, RefreshFails, Refreshes, ClientTypes
  <2>2. connections' = connections /\ client' = client
    BY <1>2, Zenon DEF refresh_connection, RefreshFails
  <2>3. clientKey' \in [Clients -> {"none", "bare", "expiring"}] /\ clientTorn' \subseteq Clients
    <3>1. (refresh[s].pc = "hset") \in BOOLEAN
      BY Zenon
    <3> QED BY <1>2, <2>1, <3>1, ClientKeyShape, Zenon DEF refresh_connection, RefreshFails,
               ClientTypes
  <2>4. CASE RefreshOn(s, refresh[s].todo \cap connections)
    <3>1. refresh[s].todo \cap connections \in SUBSET Clients
      BY Zenon DEF ClientTypes
    <3>2. /\ refresh' \in [Servers -> Refresh]
          /\ \A t \in Servers \ {s} : refresh'[t] = refresh[t]
          /\ refresh'[s].pc = "idle" => refresh'[s].client = Nil
          /\ refresh'[s].pc # "idle" => refresh'[s].client \in refresh[s].todo \cap connections
          /\ refresh'[s].todo \subseteq refresh[s].todo \cap connections
      BY <2>4, <3>1, RefreshMoves, Zenon
    <3>3. ClientTypes'
      BY <2>2, <2>3, <3>2, Zenon DEF ClientTypes
    <3>4. Refreshes'
      BY <2>2, <3>2 DEF Refreshes
    <3> QED BY <3>3, <3>4, Zenon
  <2>5. CASE refresh[s].pc = "hset" /\ refresh' = [refresh EXCEPT ![s].pc = "expire"]
    BY <2>1, <2>2, <2>3, <2>5 DEF ClientTypes, Refreshes, Refresh
  <2> QED BY <1>2, <2>4, <2>5, Zenon DEF refresh_connection, RefreshFails
<1>3. CASE ServerRestarts(s)
  <2> DEFINE own == {c \in Clients : client[c].server = s}
  <2>1. client' \in [Clients -> ClientState]
        /\ (\A c \in Clients : client'[c].server = client[c].server)
        /\ (\A c \in own : client'[c].pc \in {"deleted", "ended"})
        /\ \A c \in Clients \ own : client'[c] = client[c]
    BY <1>3 DEF ServerRestarts, ClientTypes, ClientState
  <2>2. connections' = connections \ own /\ clientKey' = clientKey /\ clientTorn' \subseteq Clients
        /\ refresh' = [refresh EXCEPT ![s] = Resting]
    BY <1>3, Zenon DEF ServerRestarts, ClientTypes
  <2>3. ClientTypes'
    BY <2>1, <2>2, Zenon DEF ClientTypes, Refresh, Resting
  <2>4. Refreshes'
    BY <2>1, <2>2 DEF ClientTypes, Refreshes, Refresh, Resting
  <2> QED BY <2>3, <2>4, Zenon
<1> QED BY <1>1, <1>2, <1>3, Zenon DEF RefreshStep

\* Every step keeps the inductive invariant.
LEMMA NextTyped ==
  ASSUME Typed, PresenceNext \/ UNCHANGED vars
  PROVE  Typed'
<1>1. ASSUME UNCHANGED clientVars, NodeTypes' PROVE Typed'
  BY <1>1, Zenon DEF Typed, clientVars, ClientTypes, Refreshes
<1>2. ASSUME UNCHANGED nodeVars, faults' \in 0 .. MaxFaults, (ClientTypes /\ Refreshes)' PROVE Typed'
  BY <1>2, Zenon DEF Typed, nodeVars, NodeTypes
<1>3. ASSUME NEW k \in Sockets, SocketStep(k) PROVE Typed'
  <2>1. UNCHANGED clientVars
    BY <1>3, Zenon DEF SocketStep, set_node_connected, set_node_connected_expire, InsertNode,
       handle_node_heartbeat,
       update_node_stats, update_node_stats_expire, SocketCloses, disconnect_node, set_node_disconnected
  <2> QED BY <1>1, <1>3, <2>1, NodeStepTyped, Zenon DEF Typed
<1>4. CASE AgentStep \/ AgentOff \/ AgentLoses \/ NodeKeyExpires \/ \E s \in Servers : Lapse(s)
  <2>1. UNCHANGED clientVars
    BY <1>4, Zenon DEF AgentStep, AgentNotices, Dial, AgentOff, AgentLoses, NodeKeyExpires,
       Lapse
  <2> QED BY <1>1, <1>4, <2>1, AgentTyped, Zenon DEF Typed
<1>5. ASSUME NEW k \in Sockets,
             \/ SetConnectedFails(k) \/ UpdateStatsFails(k) \/ SetDisconnectedFails(k) \/ GoesDeaf(k)
             \/ agent # k /\ handle_node_heartbeat(k)
      PROVE  Typed'
  <2>1. UNCHANGED clientVars
    BY <1>5, Zenon DEF SetConnectedFails, UpdateStatsFails, SetDisconnectedFails, GoesDeaf,
       handle_node_heartbeat
  <2> QED BY <1>1, <1>5, <2>1, NodeFaultTyped, Zenon DEF Typed
<1>6. ASSUME NEW c \in Clients,
             \/ ClientStep(c) \/ ClientLeaves(c) \/ SetConnectionFails(c) \/ SetConnectionDisconnectedFails(c)
             \/ ClientKeyExpires(c) \/ \E s \in Servers : WebConnect(c, s)
      PROVE  Typed'
  <2>1. UNCHANGED nodeVars
    BY <1>6, Zenon DEF ClientStep, set_connection_connected, disconnect_web_client,
       set_connection_disconnected, ClientLeaves,
       SetConnectionFails, SetConnectionDisconnectedFails, ClientKeyExpires, WebConnect
  <2>2. faults' = faults \/ FaultStrikes
    BY <1>6, Zenon DEF ClientStep, set_connection_connected, disconnect_web_client,
       set_connection_disconnected, ClientLeaves,
       SetConnectionFails, SetConnectionDisconnectedFails, ClientKeyExpires, WebConnect, ClientWriteFails
  <2>3. faults' \in 0 .. MaxFaults
    BY <2>2, FaultCounts, Zenon DEF Typed, NodeTypes
  <2> QED BY <1>2, <1>6, <2>1, <2>3, ClientStepTyped, Zenon
<1>7. ASSUME NEW s \in Servers, refresh_connection(s) \/ RefreshFails(s) PROVE Typed'
  <2>1. UNCHANGED nodeVars /\ (faults' = faults \/ FaultStrikes)
    BY <1>7, Zenon DEF refresh_connection, RefreshFails, ClientWriteFails
  <2>2. faults' \in 0 .. MaxFaults
    BY <2>1, FaultCounts, Zenon DEF Typed, NodeTypes
  <2> QED BY <1>2, <1>7, <2>1, <2>2, RefreshTyped, Zenon DEF RefreshStep
<1>8. ASSUME NEW s \in Servers, refresh_connections_task(s) \/ ServerRestarts(s) PROVE Typed'
  BY <1>8, ServerTyped, RefreshTyped, Zenon DEF Typed, RefreshStep
<1>9. CASE UNCHANGED vars
  BY <1>1, <1>9, Zenon DEF vars, nodeVars, Typed, NodeTypes
<1> QED BY <1>3, <1>4, <1>5, <1>6, <1>7, <1>8, <1>9, Zenon DEF PresenceNext, RefreshStep,
           TimePasses, PresenceFault

\* Keys, registries and tasks are well formed in every reachable state, and a
\* refresh only ever writes the key of a client registered at its server.
THEOREM PresenceTypeCorrect == PresenceSpec => []PresenceTypeOK
<1>1. Typed /\ [PresenceNext]_vars => Typed'
  BY NextTyped, Zenon
<1> QED BY <1>1, InitTyped, TypedIsTypeOK, PTL DEF PresenceSpec

-----------------------------------------------------------------------------
(* Keys without a time to live.                                            *)

NodePending == NodeBare => nodeTorn \/ \E k \in Sockets : socket[k].pc \in {"expire", "beatExpire"}

ClientPending(c) ==
  clientKey[c] = "bare" =>
    c \in clientTorn \/ client[c].pc = "expire" \/ \E s \in Servers : refresh[s].pc = "expire" /\ refresh[s].client = c

\* The node's key: whoever stops being its writer has set the time to live,
\* or is recorded as lost.
LEMMA NodePendingKept ==
  ASSUME Typed, NodePending, PresenceNext \/ UNCHANGED vars
  PROVE  NodePending'
<1> USE DEF NodePending, NodeBare, Typed, NodeTypes
<1>1. CASE UNCHANGED nodeVars
  BY <1>1, Zenon DEF nodeVars
<1>2. ASSUME NEW k \in Sockets, SocketStep(k) PROVE NodePending'
  <2>1. CASE set_node_connected(k) \/ update_node_stats(k)
    BY <2>1, Zenon DEF set_node_connected, update_node_stats, SocketGoes, SocketState
  <2>2. CASE set_node_connected_expire(k) \/ update_node_stats_expire(k)
    BY <2>2, Zenon DEF set_node_connected_expire, update_node_stats_expire, ExpireNode, NodeKey
  <2>3. CASE set_node_disconnected(k)
    BY <2>3, Zenon DEF set_node_disconnected
  <2>4. CASE InsertNode(k) \/ handle_node_heartbeat(k) \/ SocketCloses(k) \/ disconnect_node(k)
    <3>1. nodeKey' = nodeKey /\ nodeTorn' = nodeTorn /\ socket[k].pc \notin {"expire", "beatExpire"}
          /\ \A j \in Sockets \ {k} : socket'[j] = socket[j]
      BY <2>4, Zenon DEF InsertNode, handle_node_heartbeat, SocketCloses, disconnect_node,
         SocketGoes
    <3> QED BY <3>1, Zenon
  <2> QED BY <1>2, <2>1, <2>2, <2>3, <2>4, Zenon DEF SocketStep
<1>3. ASSUME NEW k \in Sockets, SetConnectedFails(k) \/ UpdateStatsFails(k) PROVE NodePending'
  BY <1>3, Zenon DEF SetConnectedFails, UpdateStatsFails, NodeWriteFails
<1>4. ASSUME NEW k \in Sockets, SetDisconnectedFails(k) \/ GoesDeaf(k) \/ handle_node_heartbeat(k) PROVE NodePending'
  <2>1. nodeKey' = nodeKey /\ nodeTorn' = nodeTorn /\ socket[k].pc \notin {"expire", "beatExpire"}
        /\ \A j \in Sockets \ {k} : socket'[j] = socket[j]
    BY <1>4, Zenon DEF SetDisconnectedFails, GoesDeaf, handle_node_heartbeat, SocketGoes
  <2> QED BY <2>1, Zenon
<1>5. ASSUME NEW k \in Sockets, NEW s \in Servers, Dial(k, s) PROVE NodePending'
  BY <1>5, Zenon DEF Dial, SocketState
<1>6. CASE AgentNotices \/ AgentOff \/ AgentLoses \/ NodeKeyExpires \/ \E s \in Servers : Lapse(s)
  BY <1>6, Zenon DEF AgentNotices, AgentOff, AgentLoses, NodeKeyExpires, Lapse
<1>7. ASSUME NEW s \in Servers, refresh_connections_task(s) PROVE NodePending'
  BY <1>7, Zenon DEF refresh_connections_task
<1>8. ASSUME NEW s \in Servers, ServerRestarts(s) PROVE NodePending'
  BY <1>8, Zenon DEF ServerRestarts, Ended
<1>9. ASSUME NEW c \in Clients,
             \/ ClientStep(c) \/ ClientLeaves(c) \/ SetConnectionFails(c) \/ SetConnectionDisconnectedFails(c)
             \/ ClientKeyExpires(c) \/ \E s \in Servers : WebConnect(c, s)
      PROVE  NodePending'
  BY <1>1, <1>9, Zenon DEF ClientStep, set_connection_connected, disconnect_web_client,
     set_connection_disconnected, ClientLeaves,
     SetConnectionFails, SetConnectionDisconnectedFails, ClientKeyExpires, WebConnect
<1>10. ASSUME NEW s \in Servers, refresh_connection(s) \/ RefreshFails(s) PROVE NodePending'
  BY <1>1, <1>10, Zenon DEF refresh_connection, RefreshFails
<1>11. CASE UNCHANGED vars
  BY <1>1, <1>11, Zenon DEF vars
<1> QED BY <1>2, <1>3, <1>4, <1>5, <1>6, <1>7, <1>8, <1>9, <1>10, <1>11, Zenon
        DEF PresenceNext, RefreshStep, TimePasses, PresenceFault, AgentStep

\* What the steps of one client's task and of one refresh do to another
\* client's key: nothing.
LEMMA OthersKept ==
  ASSUME ClientTypes, NEW c \in Clients
  PROVE  \A d \in Clients \ {c} :
           /\ HsetClient(c) => clientKey'[d] = clientKey[d]
           /\ ExpireClient(c) => clientKey'[d] = clientKey[d] /\ (d \in clientTorn' <=> d \in clientTorn)
           /\ \A b \in BOOLEAN : ClientWriteFails(c, b) =>
                clientKey'[d] = clientKey[d] /\ (d \in clientTorn' <=> d \in clientTorn)
<1> SUFFICES ASSUME NEW d \in Clients \ {c}
             PROVE  /\ HsetClient(c) => clientKey'[d] = clientKey[d]
                    /\ ExpireClient(c) => clientKey'[d] = clientKey[d] /\ (d \in clientTorn' <=> d \in clientTorn)
                    /\ \A b \in BOOLEAN : ClientWriteFails(c, b) =>
                         clientKey'[d] = clientKey[d] /\ (d \in clientTorn' <=> d \in clientTorn)
  BY Zenon
<1>1. HsetClient(c) => clientKey'[d] = clientKey[d]
  BY Zenon DEF HsetClient, ClientTypes
<1>2. ExpireClient(c) => clientKey'[d] = clientKey[d] /\ (d \in clientTorn' <=> d \in clientTorn)
  BY Zenon DEF ExpireClient, ClientTypes
<1>3. ASSUME NEW b \in BOOLEAN, ClientWriteFails(c, b)
      PROVE  clientKey'[d] = clientKey[d] /\ (d \in clientTorn' <=> d \in clientTorn)
  BY <1>1, <1>3, Zenon DEF ClientWriteFails
<1> QED BY <1>1, <1>2, <1>3, Zenon

\* The keys of clients: the same, with the client's task and the refresh of
\* its server as writers.
LEMMA ClientPendingKept ==
  ASSUME Typed, \A c \in Clients : ClientPending(c), PresenceNext \/ UNCHANGED vars
  PROVE  \A c \in Clients : ClientPending(c)'
<1> USE DEF Typed
<1> SUFFICES ASSUME NEW c \in Clients PROVE ClientPending(c)'
  BY Zenon
<1>0. ClientPending(c)
  BY Zenon
<1>1. CASE UNCHANGED clientVars
  BY <1>0, <1>1, Zenon DEF clientVars, ClientPending
<1>2. ASSUME NEW d \in Clients, set_connection_connected(d) PROVE ClientPending(c)'
  <2>1. CASE c = d
    BY <1>0, <1>2, <2>1, ClientMoves DEF set_connection_connected, HsetClient, ExpireClient,
       ClientPending, ClientTypes
  <2>2. CASE c # d
    BY <1>0, <1>2, <2>2, ClientMoves, OthersKept DEF set_connection_connected, ClientPending
  <2> QED BY <2>1, <2>2, Zenon
<1>3. ASSUME NEW d \in Clients, SetConnectionFails(d) PROVE ClientPending(c)'
  <2>0. (client[d].pc = "hset") \in BOOLEAN
    BY Zenon
  <2>1. CASE c = d
    BY <1>3, <2>1, Zenon DEF SetConnectionFails, ClientWriteFails, ClientPending
  <2>2. CASE c # d
    <3>1. ClientWriteFails(d, client[d].pc = "hset") /\ ClientGoes(d, "loop") /\ refresh' = refresh
      BY <1>3, Zenon DEF SetConnectionFails
    <3>2. clientKey'[c] = clientKey[c] /\ (c \in clientTorn' <=> c \in clientTorn)
      BY <2>0, <2>2, <3>1, OthersKept, Zenon
    <3>3. client'[c] = client[c]
      BY <2>2, <3>1, ClientMoves, Zenon
    <3> QED BY <1>0, <3>1, <3>2, <3>3, Zenon DEF ClientPending
  <2> QED BY <2>1, <2>2, Zenon
<1>4. ASSUME NEW d \in Clients,
             ClientLeaves(d) \/ disconnect_web_client(d) \/ SetConnectionDisconnectedFails(d) \/ \E s \in Servers : WebConnect(d, s)
      PROVE  ClientPending(c)'
  <2>1. clientKey' = clientKey /\ clientTorn' = clientTorn /\ refresh' = refresh /\ client[d].pc # "expire"
        /\ (c # d => client'[c] = client[c])
    BY <1>4, Zenon DEF ClientLeaves, disconnect_web_client, SetConnectionDisconnectedFails,
       WebConnect, ClientGoes, ClientTypes
  <2> QED BY <1>0, <2>1, Zenon DEF ClientPending
<1>5. ASSUME NEW d \in Clients, set_connection_disconnected(d) PROVE ClientPending(c)'
  BY <1>0, <1>5, ClientMoves DEF set_connection_disconnected, ClientPending, ClientTypes
<1>6. ASSUME NEW d \in Clients, ClientKeyExpires(d) PROVE ClientPending(c)'
  BY <1>0, <1>6, Zenon DEF ClientKeyExpires, ClientPending, ClientTypes
<1>7. ASSUME NEW s \in Servers, refresh_connections_task(s) PROVE ClientPending(c)'
  <2>1. PICK left \in SUBSET Clients : RefreshOn(s, left)
    BY <1>7, Zenon DEF refresh_connections_task, ClientTypes
  <2>2. refresh[s].pc = "idle" /\ clientKey' = clientKey /\ clientTorn' = clientTorn /\ client' = client
    BY <1>7, Zenon DEF refresh_connections_task
  <2> QED BY <1>0, <2>1, <2>2, RefreshMoves, Zenon DEF ClientPending
<1>8. ASSUME NEW s \in Servers, refresh_connection(s) \/ RefreshFails(s) PROVE ClientPending(c)'
  <2> DEFINE d == refresh[s].client
  <2>1. d \in Clients /\ client' = client
    BY <1>8, Zenon DEF refresh_connection, RefreshFails, Refreshes, ClientTypes
  <2>2. (refresh[s].pc = "hset") \in BOOLEAN
    BY Zenon
  <2>3. \A t \in Servers \ {s} : refresh'[t] = refresh[t]
    BY <1>8, Zenon DEF refresh_connection, RefreshFails, RefreshOn, ClientTypes
  <2>4. CASE c # d
    <3>1. clientKey'[c] = clientKey[c] /\ (c \in clientTorn' <=> c \in clientTorn)
      BY <1>8, <2>1, <2>2, <2>4, OthersKept, Zenon DEF refresh_connection, RefreshFails
    <3> QED BY <1>0, <2>1, <2>3, <2>4, <3>1, Zenon DEF ClientPending
  <2>5. CASE c = d /\ RefreshFails(s)
    BY <2>5, Zenon DEF RefreshFails, ClientWriteFails, ClientPending
  <2>6. CASE c = d /\ refresh_connection(s)
    BY <2>6 DEF refresh_connection, HsetClient, ExpireClient, ClientPending, ClientTypes,
       Refresh
  <2> QED BY <1>8, <2>4, <2>5, <2>6, Zenon
<1>9. ASSUME NEW s \in Servers, ServerRestarts(s) PROVE ClientPending(c)'
  <2>1. clientKey' = clientKey /\ \A t \in Servers \ {s} : refresh'[t] = refresh[t]
    BY <1>9, Zenon DEF ServerRestarts, ClientTypes
  <2>2. client[c].server # s => client'[c] = client[c]
    BY <1>9, Zenon DEF ServerRestarts
  <2>3. clientTorn \subseteq clientTorn'
    BY <1>9, Zenon DEF ServerRestarts
  <2>4. clientKey[c] = "bare" /\ client[c].server = s /\ (client[c].pc = "expire" \/ refresh[s].client = c) => c \in clientTorn'
    BY <1>9, Zenon DEF ServerRestarts
  <2>5. refresh[s].pc = "expire" /\ refresh[s].client = c => client[c].server = s
    BY Zenon DEF Refreshes
  <2> QED BY <1>0, <2>1, <2>2, <2>3, <2>4, <2>5, Zenon DEF ClientPending
<1>10. CASE \/ AgentStep \/ AgentOff \/ AgentLoses \/ NodeKeyExpires \/ \E s \in Servers : Lapse(s)
            \/ \E k \in Sockets : SocketStep(k) \/ SetConnectedFails(k) \/ UpdateStatsFails(k) \/ SetDisconnectedFails(k)
                                  \/ GoesDeaf(k) \/ handle_node_heartbeat(k)
  <2>1. UNCHANGED clientVars
    BY <1>10, Zenon DEF AgentStep, AgentNotices, Dial, AgentOff, AgentLoses, NodeKeyExpires,
       Lapse, SocketStep, set_node_connected,
       set_node_connected_expire, InsertNode, handle_node_heartbeat, update_node_stats, update_node_stats_expire,
       SocketCloses, disconnect_node, set_node_disconnected, SetConnectedFails, UpdateStatsFails, SetDisconnectedFails, GoesDeaf
  <2> QED BY <1>1, <2>1, Zenon
<1>11. CASE UNCHANGED vars
  BY <1>1, <1>11, Zenon DEF vars
<1> QED BY <1>2, <1>3, <1>4, <1>5, <1>6, <1>7, <1>8, <1>9, <1>10, <1>11, Zenon
        DEF PresenceNext, ClientStep, RefreshStep, TimePasses, PresenceFault

\* A key without a time to live, of the node or of a client, is one whose
\* writer will set it or was lost.
THEOREM KeysExpire == PresenceSpec => []ExpiryPending
<1> DEFINE Pending == NodePending /\ \A c \in Clients : ClientPending(c)
<1>1. PresenceInit => Pending
  BY Zenon DEF PresenceInit, NodePending, NodeBare, ClientPending
<1>2. Typed /\ Pending /\ [PresenceNext]_vars => Pending'
  <2> SUFFICES ASSUME Typed, Pending, [PresenceNext]_vars PROVE Pending'
    BY Zenon
  <2>1. NodePending'
    BY NodePendingKept, Zenon
  <2>2. \A c \in Clients : ClientPending(c)'
    BY ClientPendingKept, Zenon
  <2> QED BY <2>1, <2>2, Zenon
<1>3. Typed /\ [PresenceNext]_vars => Typed'
  BY NextTyped, Zenon
<1>4. Pending => ExpiryPending
  BY Zenon DEF NodePending, ClientPending, ExpiryPending
<1> HIDE DEF Pending
<1> QED BY <1>1, <1>2, <1>3, <1>4, InitTyped, PTL DEF PresenceSpec

-----------------------------------------------------------------------------
(* Deleted keys of clients.                                                *)

\* Only set_connection_disconnected makes a client "deleted", and whoever may
\* write a client's key afterwards would have to find it in the registry.
LEMMA ForgottenKept ==
  ASSUME Typed, ClientForgotten, PresenceNext \/ UNCHANGED vars
  PROVE  ClientForgotten'
<1> USE DEF Typed, ClientForgotten
<1>1. CASE UNCHANGED <<clientKey, client>>
  BY <1>1, Zenon
<1>2. ASSUME NEW d \in Clients, set_connection_connected(d) \/ SetConnectionFails(d) PROVE ClientForgotten'
  <2>1. client'[d].pc # "deleted" /\ \A c \in Clients \ {d} : client'[c] = client[c]
    BY <1>2, ClientMoves, Zenon DEF set_connection_connected, SetConnectionFails
  <2>2. (client[d].pc = "hset") \in BOOLEAN
    BY Zenon
  <2>3. \A c \in Clients \ {d} : clientKey'[c] = clientKey[c]
    BY <1>2, <2>2, OthersKept, Zenon DEF set_connection_connected, SetConnectionFails
  <2> QED BY <2>1, <2>3, Zenon
<1>3. ASSUME NEW d \in Clients,
             ClientLeaves(d) \/ disconnect_web_client(d) \/ SetConnectionDisconnectedFails(d) \/ \E s \in Servers : WebConnect(d, s)
      PROVE  ClientForgotten'
  BY <1>3 DEF ClientLeaves, disconnect_web_client, SetConnectionDisconnectedFails, WebConnect,
     ClientGoes, ClientTypes, ClientState
<1>4. ASSUME NEW d \in Clients, set_connection_disconnected(d) \/ ClientKeyExpires(d) PROVE ClientForgotten'
  BY <1>4, Zenon DEF set_connection_disconnected, ClientKeyExpires, ClientGoes, ClientTypes,
     ClientState
<1>5. ASSUME NEW s \in Servers, refresh_connection(s) \/ RefreshFails(s) PROVE ClientForgotten'
  <2> DEFINE d == refresh[s].client
  <2>1. d \in Clients /\ client[d].pc # "deleted" /\ client' = client
    BY <1>5, Zenon DEF refresh_connection, RefreshFails, Refreshes, ClientTypes
  <2>2. (refresh[s].pc = "hset") \in BOOLEAN
    BY Zenon
  <2>3. \A c \in Clients \ {d} : clientKey'[c] = clientKey[c]
    BY <1>5, <2>1, <2>2, OthersKept, Zenon DEF refresh_connection, RefreshFails
  <2> QED BY <2>1, <2>3, Zenon
<1>6. ASSUME NEW s \in Servers, refresh_connections_task(s) \/ ServerRestarts(s) PROVE ClientForgotten'
  BY <1>6 DEF refresh_connections_task, ServerRestarts, ClientTypes, ClientState
<1>7. CASE \/ AgentStep \/ AgentOff \/ AgentLoses \/ NodeKeyExpires \/ \E s \in Servers : Lapse(s)
           \/ \E k \in Sockets : SocketStep(k) \/ SetConnectedFails(k) \/ UpdateStatsFails(k) \/ SetDisconnectedFails(k)
                                 \/ GoesDeaf(k) \/ handle_node_heartbeat(k)
  <2>1. UNCHANGED clientVars
    BY <1>7, Zenon DEF AgentStep, AgentNotices, Dial, AgentOff, AgentLoses, NodeKeyExpires,
       Lapse, SocketStep, set_node_connected,
       set_node_connected_expire, InsertNode, handle_node_heartbeat, update_node_stats, update_node_stats_expire,
       SocketCloses, disconnect_node, set_node_disconnected, SetConnectedFails, UpdateStatsFails, SetDisconnectedFails, GoesDeaf
  <2> QED BY <1>1, <2>1, Zenon DEF clientVars
<1>8. CASE UNCHANGED vars
  BY <1>1, <1>8, Zenon DEF vars, clientVars
<1> QED BY <1>2, <1>3, <1>4, <1>5, <1>6, <1>7, <1>8, Zenon DEF PresenceNext, ClientStep,
           RefreshStep, TimePasses, PresenceFault

\* The refresh task never brings back the key of a client that disconnected.
THEOREM ClientsForgotten == PresenceSpec => []ClientForgotten
<1>1. PresenceInit => ClientForgotten
  BY Zenon DEF PresenceInit, ClientForgotten
<1>2. Typed /\ ClientForgotten /\ [PresenceNext]_vars => ClientForgotten'
  BY ForgottenKept, Zenon
<1>3. Typed /\ [PresenceNext]_vars => Typed'
  BY NextTyped, Zenon
<1> QED BY <1>1, <1>2, <1>3, InitTyped, PTL DEF PresenceSpec
=============================================================================
