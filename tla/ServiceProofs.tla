---------------------------- MODULE ServiceProofs ----------------------------
(***************************************************************************)
(* What holds of the tunnels of a node while its connections take turns:   *)
(* the table is cleaned up after them, and clients see TunnelService.      *)
(***************************************************************************)
EXTENDS OpeningProofs

\* A registered node task, up to the end of its clean-up.
Serving(k) == nodeTask[k] \in {"reading", "ending", "removed", "sweeping"}

\* The connections of a node take turns: a new one registers after the task
\* of the one before it has cleaned up.
TakeTurns ==
  \A j, k \in Conns : ConnNode[j] = ConnNode[k] /\ Serving(j) /\ Serving(k) => j = k

\* The heartbeat of a node does not lapse.
NoNodeLapses == stale \cap Nodes = {}

\* No agent process restarts.
NoRestarts == \A n \in Nodes : restarts[n] = 0

-----------------------------------------------------------------------------
(* Clean-up.                                                               *)

\* A reading task finds its own registration, and what is in the table has a
\* task that will sweep it.
CleanInv ==
  /\ \A k \in Conns : nodeTask[k] \in {"reading", "ending"} => nodes[ConnNode[k]] = k
  /\ \A n \in Nodes, s \in Sids, c \in Cids :
       tunnel_sessions[n][s] = c =>
         \E k \in Conns : /\ ConnNode[k] = n /\ Serving(k)
                          /\ nodeTask[k] = "sweeping" => <<s, c>> \in sweep[k]

-----------------------------------------------------------------------------
(* TunnelService.                                                          *)

About(f, n, s) == f.node = n /\ f.sid = s

\* Nothing has been heard of session s of node n.
Silent(n, s) ==
  /\ tunnel_sessions[n][s] = None
  /\ \A k \in Conns : ConnNode[k] = n => \A p \in sweep[k] : p[1] # s
  /\ \A k \in Conns : \A p \in pend[k] : ~ About(p[2], n, s)
  /\ \A c \in Cids : \A f \in inbox[c] : ~ About(f, n, s)

Started(n, s) == s < nextSid[n] /\ task[n][s].pc # "spawned"

\* A client has been told, or is about to be, that the session is closed.
Told(n, s) ==
  \/ \E c \in Cids : \E f \in inbox[c] : f.type = "closed" /\ About(f, n, s)
  \/ \E k \in Conns : \E p \in pend[k] : p[2].type = "closed" /\ About(p[2], n, s)

\* A session is first heard of when its task sends TunnelOpened, and nothing
\* is heard of it before that frame arrives.
FirstInv ==
  /\ \A n \in Nodes, s \in Sids : ~ Started(n, s) => Silent(n, s)
  /\ \A k \in Conns : \A i \in 1 .. Len(toServer[k]) :
       toServer[k][i].type = "opened" =>
         /\ Silent(ConnNode[k], toServer[k][i].sid)
         /\ \A j \in 1 .. i - 1 : toServer[k][j].sid # toServer[k][i].sid

\* Only registered tasks owe notices.
PendInv ==
  \A k \in Conns : pend[k] # {} => nodeTask[k] \in {"reading", "sweeping"}

\* What is about to be told does not contradict what has been.
QuietInv ==
  \A n \in Nodes, s \in Sids :
    /\ Told(n, s) => /\ tunnel_sessions[n][s] = None
                     /\ \A k \in Conns : \A p \in pend[k] : p[2].type = "data" => ~ About(p[2], n, s)
    /\ \A k \in Conns : \A p \in pend[k] : p[2].type = "opened" /\ About(p[2], n, s) =>
         \A c \in Cids : \A f \in inbox[c] : ~ About(f, n, s)
    /\ \A c \in Cids : \A f \in inbox[c] : About(f, n, s) => Owner(n, s, c)

\* The inductive strengthening of the refinement mapping.
ServiceInv == OpenInv /\ FirstInv /\ PendInv /\ QuietInv

-----------------------------------------------------------------------------
(* Clean-up: proof.                                                        *)

\* A step of a node task.
LEMMA CleanNodeStep ==
  ASSUME TypeInv, CleanInv, TakeTurns, TakeTurns', NEW k \in Conns, NodeTaskStep(k)
  PROVE  CleanInv'
<1>. DEFINE n == ConnNode[k]
            Mine == \A j \in Conns : nodeTask[j] \in {"reading", "ending"} => nodes[ConnNode[j]] = j
            Swept(m, s, c) == \E j \in Conns : /\ ConnNode[j] = m /\ Serving(j)
                                               /\ nodeTask[j] = "sweeping" => <<s, c>> \in sweep[j]
<1>0. ServerTypeOK /\ n \in Nodes /\ ConnNode \in [Conns -> Nodes] /\ None \notin Conns /\ None \notin Cids
  BY WireAssumption, Zenon DEF TypeInv, TypeOK
<1>1. Mine /\ \A m \in Nodes, s \in Sids, c \in Cids : tunnel_sessions[m][s] = c => Swept(m, s, c)
  BY Zenon DEF CleanInv
<1>2. ASSUME Mine', \A m \in Nodes, s \in Sids, c \in Cids : tunnel_sessions'[m][s] = c => Swept(m, s, c)'
      PROVE  CleanInv'
  BY <1>2, Zenon DEF CleanInv
<1>4. CASE NodeAuth(k) \/ NodeReject(k)
  <2>1. /\ nodeTask[k] = "none" /\ nodeTask'[k] \in {"authed", "done"}
        /\ \A j \in Conns \ {k} : nodeTask'[j] = nodeTask[j]
        /\ UNCHANGED <<nodes, tunnel_sessions, sweep>>
    BY <1>0, <1>4, Zenon DEF NodeAuth, NodeReject, ServerTypeOK
  <2>. QED
    BY <1>1, <1>2, <2>1 DEF Serving
<1>5. CASE NodeRegister(k)
  <2>1. /\ nodeTask[k] = "authed" /\ nodeTask'[k] = "reading" /\ nodes'[n] = k
        /\ \A j \in Conns \ {k} : nodeTask'[j] = nodeTask[j]
        /\ \A m \in Nodes \ {n} : nodes'[m] = nodes[m]
        /\ UNCHANGED <<tunnel_sessions, sweep>>
    BY <1>0, <1>5, Zenon DEF NodeRegister, NodeOf, ServerTypeOK
  <2>2. Mine'
    BY <1>0, <1>1, <2>1 DEF TakeTurns, Serving
  <2>. QED
    BY <1>1, <1>2, <2>1, <2>2 DEF Serving
<1>6. CASE handle_node_heartbeat(k) \/ handle_frame_response(k) \/ NodeNotify(k)
  <2>1. nodeTask[k] = "reading" \/ NodeNotify(k)
    BY <1>6, Zenon DEF handle_node_heartbeat, handle_frame_response, Receives
  <2>2. UNCHANGED <<nodes, nodeTask, tunnel_sessions, sweep>>
    BY <1>0, <1>1, <1>6, <2>1, Zenon DEF handle_node_heartbeat, handle_frame_response,
       NodeNotify, NodeOf
  <2>. QED
    BY <1>1, <1>2, <2>2 DEF Serving
<1>7. CASE handle_tunnel_opened(k) \/ handle_tunnel_closed(k)
  <2>1. /\ nodeTask[k] = "reading" /\ UNCHANGED <<nodes, nodeTask, sweep>>
        /\ \E s, c : tunnel_sessions' = [tunnel_sessions EXCEPT ![n][s] = c]
    BY <1>7, Zenon DEF handle_tunnel_opened, handle_tunnel_closed, Receives, NodeOf
  <2>2. ASSUME NEW s, NEW c PROVE Swept(n, s, c)
    BY <2>1, Zenon DEF Serving
  <2>3. \A m \in Nodes \ {n}, s \in Sids : tunnel_sessions'[m][s] = tunnel_sessions[m][s]
    BY <1>0, <2>1, Zenon DEF ServerTypeOK
  <2>. QED
    BY <1>1, <1>2, <2>1, <2>2, <2>3 DEF Serving
<1>8. CASE NodeReaderEnds(k)
  <2>1. /\ nodeTask[k] = "reading" /\ nodeTask'[k] = "ending"
        /\ \A j \in Conns \ {k} : nodeTask'[j] = nodeTask[j]
        /\ UNCHANGED <<nodes, tunnel_sessions, sweep>>
    BY <1>0, <1>8, Zenon DEF NodeReaderEnds, ServerTypeOK
  <2>. QED
    BY <1>1, <1>2, <2>1 DEF Serving
<1>9. CASE disconnect_node(k)
  <2>1. nodeTask[k] = "ending" /\ nodes[n] # None
    BY <1>0, <1>1, <1>9, Zenon DEF disconnect_node
  <2>2. /\ nodeTask'[k] = "removed"
        /\ \A j \in Conns \ {k} : nodeTask'[j] = nodeTask[j]
        /\ \A m \in Nodes \ {n} : nodes'[m] = nodes[m]
        /\ UNCHANGED <<tunnel_sessions, sweep>>
    BY <1>0, <1>9, <2>1, Zenon DEF disconnect_node, NodeOf, ServerTypeOK
  <2>3. Mine'
    BY <1>0, <1>1, <2>1, <2>2 DEF TakeTurns, Serving
  <2>. QED
    BY <1>1, <1>2, <2>1, <2>2, <2>3 DEF Serving
<1>10. CASE SessionsToClose(k)
  <2>1. /\ nodeTask[k] = "removed" /\ nodeTask'[k] = "sweeping"
        /\ sweep'[k] = {p \in Sids \X Cids : tunnel_sessions[n][p[1]] = p[2]}
        /\ \A j \in Conns \ {k} : nodeTask'[j] = nodeTask[j] /\ sweep'[j] = sweep[j]
        /\ UNCHANGED <<nodes, tunnel_sessions>>
    BY <1>0, <1>10, Zenon DEF SessionsToClose, NodeOf, ServerTypeOK
  <2>2. ASSUME NEW s \in Sids, NEW c \in Cids, tunnel_sessions[n][s] = c PROVE Swept(n, s, c)'
    BY <2>1, <2>2, Zenon DEF Serving
  <2>. QED
    BY <1>1, <1>2, <2>1, <2>2 DEF Serving
<1>11. CASE notify_all_clients_for_closed_tunnel(k)
  <2>1. PICK p \in sweep[k] :
          /\ tunnel_sessions' = [tunnel_sessions EXCEPT ![n][p[1]] = None]
          /\ sweep' = [sweep EXCEPT ![k] = @ \ {p}]
    BY <1>11, Zenon DEF notify_all_clients_for_closed_tunnel, NodeOf
  <2>2. nodeTask[k] = "sweeping" /\ UNCHANGED <<nodes, nodeTask>>
    BY <1>11, Zenon DEF notify_all_clients_for_closed_tunnel
  <2>3. /\ sweep'[k] = sweep[k] \ {p} /\ \A j \in Conns \ {k} : sweep'[j] = sweep[j]
        /\ tunnel_sessions'[n][p[1]] = None /\ p[1] \in Sids
        /\ \A m \in Nodes, s \in Sids : m # n \/ s # p[1] => tunnel_sessions'[m][s] = tunnel_sessions[m][s]
    BY <1>0, <2>1 DEF ServerTypeOK
  <2>4. ASSUME NEW m \in Nodes, NEW s \in Sids, NEW c \in Cids, tunnel_sessions'[m][s] = c
        PROVE  Swept(m, s, c)'
    <3>1. tunnel_sessions[m][s] = c /\ (m # n \/ s # p[1])
      BY <1>0, <2>3, <2>4, Zenon
    <3>2. PICK j \in Conns : /\ ConnNode[j] = m /\ Serving(j)
                             /\ nodeTask[j] = "sweeping" => <<s, c>> \in sweep[j]
      BY <1>1, <3>1
    <3>3. j = k => <<s, c>> # p
      BY <3>1, <3>2
    <3>4. nodeTask[j] = "sweeping" => <<s, c>> \in sweep'[j]
      BY <2>3, <3>2, <3>3, Zenon
    <3>. QED
      BY <2>2, <3>2, <3>4, Zenon DEF Serving
  <2>. QED
    BY <1>1, <1>2, <2>2, <2>4, Zenon
<1>12. CASE SweepDone(k)
  <2>1. /\ nodeTask[k] = "sweeping" /\ sweep[k] = {} /\ nodeTask'[k] = "done"
        /\ \A j \in Conns \ {k} : nodeTask'[j] = nodeTask[j]
        /\ UNCHANGED <<nodes, tunnel_sessions, sweep>>
    BY <1>0, <1>12, Zenon DEF SweepDone, Finish, ServerTypeOK
  <2>2. ASSUME NEW m \in Nodes, NEW s \in Sids, NEW c \in Cids, tunnel_sessions[m][s] = c
        PROVE  Swept(m, s, c)'
    <3>1. PICK j \in Conns : /\ ConnNode[j] = m /\ Serving(j)
                             /\ nodeTask[j] = "sweeping" => <<s, c>> \in sweep[j]
      BY <1>1, <2>2
    <3>2. j # k
      BY <2>1, <3>1, Zenon
    <3>. QED
      BY <2>1, <3>1, <3>2, Zenon DEF Serving
  <2>. QED
    BY <1>1, <1>2, <2>1, <2>2
<1>. QED
  BY <1>4, <1>5, <1>6, <1>7, <1>8, <1>9, <1>10, <1>11, <1>12, Zenon DEF NodeTaskStep

\* While connections take turns and no registration of a node lapses, every
\* entry of the table has a task that will remove it.
LEMMA CleanStep ==
  ASSUME TypeInv, CleanInv, TakeTurns, TakeTurns', NoNodeLapses, [Next]_vars
  PROVE  CleanInv'
<1>1. CASE UNCHANGED <<nodes, nodeTask, sweep, tunnel_sessions>>
  BY <1>1 DEF CleanInv, Serving
<1>2. ASSUME NEW c \in Cids,
             \/ WebClientStep(c) \/ WebForward(c)
             \/ \E n \in Nodes : notify_nodes_client_disconnect(c, n)
      PROVE  UNCHANGED <<nodes, nodeTask, sweep, tunnel_sessions>>
  BY <1>2, Zenon DEF WebClientStep, WebConnect, update_web_heartbeat, handle_web_open_tunnel,
              handle_web_session_request, disconnect_web_client, WebForward,
              notify_nodes_client_disconnect, nodeSide
<1>3. CASE cleanup_dangling_connections
  <2>1. nodes' = [n \in Nodes |-> nodes[n]]
    BY <1>3, Zenon DEF cleanup_dangling_connections, NoNodeLapses
  <2>2. nodes' = nodes
    BY <2>1, Zenon DEF TypeInv, TypeOK, ServerTypeOK
  <2>. QED
    BY <1>1, <1>3, <2>2, Zenon DEF cleanup_dangling_connections, nodeSide
<1>4. CASE ServerStep
  BY <1>1, <1>2, <1>3, <1>4, CleanNodeStep, Zenon DEF ServerStep
<1>5. CASE LapseFault \/ UNCHANGED serverVars
  BY <1>1, <1>5, Zenon DEF LapseFault, HeartbeatLapses, nodeSide, serverVars
<1>. QED
  BY <1>4, <1>5, Zenon DEF Next, LinkFault, TimeoutFault, RestartFault, vars

\* For any number of nodes, clients, connections and sessions, and any faults
\* but lapses of a node's heartbeat: while the connections of a node take
\* turns, no entry of tunnel_sessions outlives the socket tasks of its node.
THEOREM CleanedUp == Spec /\ []TakeTurns /\ []NoNodeLapses => []CleanupComplete
<1>1. Init => CleanInv
  BY WireAssumption DEF Init, ServerInit, CleanInv
<1>2. Init => TypeInv
  BY TypeInit, Zenon
<1>3. TypeInv /\ [Next]_vars => TypeInv'
  BY TypeStep, Zenon
<1>4. TypeInv /\ CleanInv /\ TakeTurns /\ TakeTurns' /\ NoNodeLapses /\ [Next]_vars => CleanInv'
  BY CleanStep, Zenon
<1>5. TypeInv /\ CleanInv => CleanupComplete
  <2>1. ASSUME TypeInv, CleanInv, NEW n \in Nodes, NEW s \in Sids,
               \A k \in Conns : ConnNode[k] = n => nodeTask[k] \in {"none", "done"}
        PROVE  tunnel_sessions[n][s] = None
    <3>1. tunnel_sessions[n][s] \in Cids \cup {None}
      BY <2>1 DEF TypeInv, TypeOK, ServerTypeOK
    <3>. QED
      BY <2>1, <3>1, Zenon DEF CleanInv, Serving
  <2>. QED
    BY <2>1, Zenon DEF CleanupComplete
<1>. QED
  BY <1>1, <1>2, <1>3, <1>4, <1>5, PTL DEF Spec

-----------------------------------------------------------------------------
(* TunnelService: the inductive invariant.                                 *)

\* Only registered tasks come to owe notices, and they settle them before
\* they move on; what is swept is in the table when the sweep begins.
LEMMA SweepStep ==
  ASSUME TypeInv, PendInv, [Next]_vars
  PROVE  /\ PendInv'
         /\ \A k \in Conns : \A p \in sweep'[k] :
              p \in sweep[k] \/ (p[2] \in Cids /\ tunnel_sessions[ConnNode[k]][p[1]] = p[2])
<1>. DEFINE Fresh == \A k \in Conns : \A p \in sweep'[k] :
                       p \in sweep[k] \/ (p[2] \in Cids /\ tunnel_sessions[ConnNode[k]][p[1]] = p[2])
<1>0. ServerTypeOK
  BY Zenon DEF TypeInv, TypeOK
<1>1. CASE UNCHANGED <<nodeTask, pend, sweep>>
  BY <1>1, Zenon DEF PendInv
<1>2. ASSUME NEW c \in Cids,
             \/ WebClientStep(c) \/ WebForward(c)
             \/ \E n \in Nodes : notify_nodes_client_disconnect(c, n)
      PROVE  UNCHANGED <<nodeTask, pend, sweep>>
  BY <1>2, Zenon DEF WebClientStep, WebConnect, update_web_heartbeat, handle_web_open_tunnel,
              handle_web_session_request, disconnect_web_client, WebForward,
              notify_nodes_client_disconnect, nodeSide
<1>3. ASSUME NEW k \in Conns, NodeTaskStep(k) PROVE PendInv' /\ Fresh
  <2>1. ASSUME pend'[k] # {} => nodeTask'[k] \in {"reading", "sweeping"},
               \A j \in Conns \ {k} : pend'[j] = pend[j] /\ nodeTask'[j] = nodeTask[j]
        PROVE  PendInv'
    BY <2>1, Zenon DEF PendInv
  <2>2. CASE \/ NodeAuth(k) \/ NodeReject(k) \/ NodeRegister(k) \/ NodeReaderEnds(k)
             \/ disconnect_node(k) \/ SweepDone(k)
    <3>1. pend[k] = {} /\ pend' = pend /\ sweep' = sweep
      BY <2>2, Zenon DEF NodeAuth, NodeReject, NodeRegister, NodeReaderEnds, disconnect_node,
         SweepDone, PendInv
    <3>2. \A j \in Conns \ {k} : nodeTask'[j] = nodeTask[j]
      BY <1>0, <2>2, Zenon DEF NodeAuth, NodeReject, NodeRegister, NodeReaderEnds,
         disconnect_node, SweepDone,
                        Finish, ServerTypeOK
    <3>. QED
      BY <2>1, <3>1, <3>2, Zenon
  <2>3. CASE \/ handle_tunnel_opened(k) \/ handle_tunnel_closed(k) \/ handle_frame_response(k)
             \/ notify_all_clients_for_closed_tunnel(k)
    <3>1. nodeTask[k] \in {"reading", "sweeping"} /\ nodeTask' = nodeTask
      BY <2>3, Zenon DEF handle_tunnel_opened, handle_tunnel_closed, handle_frame_response,
         Receives,
                  notify_all_clients_for_closed_tunnel
    <3>2. pend' = pend \/ \E x : pend' = [pend EXCEPT ![k] = x]
      BY <2>3, Zenon DEF handle_tunnel_opened, handle_tunnel_closed, handle_frame_response,
                  notify_all_clients_for_closed_tunnel
    <3>3. sweep' = sweep \/ \E p : sweep' = [sweep EXCEPT ![k] = @ \ {p}]
      BY <2>3, Zenon DEF handle_tunnel_opened, handle_tunnel_closed, handle_frame_response,
                  notify_all_clients_for_closed_tunnel
    <3>4. \A j \in Conns \ {k} : pend'[j] = pend[j]
      BY <1>0, <3>2, Zenon DEF ServerTypeOK
    <3>5. Fresh
      BY <1>0, <3>3, Zenon DEF ServerTypeOK
    <3>. QED
      BY <2>1, <3>1, <3>4, <3>5, Zenon
  <2>4. CASE NodeNotify(k) \/ handle_node_heartbeat(k)
    <3>1. /\ pend'[k] = {} /\ sweep' = sweep
          /\ \A j \in Conns \ {k} : pend'[j] = pend[j] /\ nodeTask'[j] = nodeTask[j]
      BY <1>0, <2>4, Zenon DEF NodeNotify, handle_node_heartbeat, Receives, ServerTypeOK
    <3>. QED
      BY <2>1, <3>1, Zenon
  <2>5. CASE SessionsToClose(k)
    <3>1. /\ nodeTask[k] = "removed" /\ pend' = pend
          /\ \A j \in Conns \ {k} : sweep'[j] = sweep[j] /\ nodeTask'[j] = nodeTask[j]
          /\ sweep'[k] = {p \in Sids \X Cids : tunnel_sessions[ConnNode[k]][p[1]] = p[2]}
      BY <1>0, <2>5, Zenon DEF SessionsToClose, NodeOf, ServerTypeOK
    <3>2. pend[k] = {}
      BY <3>1, Zenon DEF PendInv
    <3>3. Fresh
      BY <3>1
    <3>. QED
      BY <2>1, <3>1, <3>2, <3>3, Zenon
  <2>. QED
    BY <1>3, <2>2, <2>3, <2>4, <2>5, Zenon DEF NodeTaskStep
<1>4. CASE cleanup_dangling_connections \/ LapseFault \/ UNCHANGED serverVars
  BY <1>1, <1>4, Zenon DEF cleanup_dangling_connections, LapseFault, HeartbeatLapses, nodeSide,
     serverVars
<1>5. CASE ServerStep
  BY <1>1, <1>2, <1>3, <1>4, <1>5, Zenon DEF ServerStep
<1>. QED
  BY <1>4, <1>5, Zenon DEF Next, LinkFault, TimeoutFault, RestartFault, vars

\* A step puts nothing about a session on a channel that was not pending.
LEMMA InboxAbout ==
  ASSUME TypeInv, [Next]_vars, NEW c \in Cids, NEW f \in inbox'[c], f \notin inbox[c], f.sid \in Sids
  PROVE  \E k \in Conns : /\ NodeNotify(k) /\ UNCHANGED <<agentVars, faultVars>>
                          /\ \E p \in pend[k] : p[1] = c /\ p[2] = f
<1>1. ASSUME NEW d \in Cids, NEW n \in Nodes, NEW m, notify_client_by_cid(d, WebFrame("error", n, 0, d, m))
      PROVE  FALSE
  <2>1. f = WebFrame("error", n, 0, d, m)
    BY <1>1, NotifyGrows
  <2>2. f.sid = 0
    BY <2>1, WebFrameFields
  <2>. QED
    BY <2>2 DEF Sids
<1>2. ASSUME NEW k \in Conns, NodeNotify(k)
      PROVE  \E p \in pend[k] : p[1] = c /\ p[2] = f
  <2>1. PICK p \in pend[k] : notify_client_by_cid(p[1], p[2])
    BY <1>2, Zenon DEF NodeNotify
  <2>2. p[1] \in Cids
    BY DEF TypeInv, TypeOK, ServerTypeOK
  <2>3. c = p[1] /\ f = p[2]
    BY <2>1, <2>2, NotifyGrows
  <2>. QED
    BY <2>3, Zenon
<1>. QED
  BY <1>1, <1>2, InboxSteps, Zenon

\* A session nothing has been heard of is first heard of when its node's task
\* takes a TunnelOpened or TunnelClosed of it.
LEMMA SilentKept ==
  ASSUME TypeInv, PendInv, [Next]_vars, NEW n \in Nodes, NEW s \in Sids, Silent(n, s)
  PROVE  \/ Silent(n, s)'
         \/ \E k \in Conns, c \in Cids :
              ConnNode[k] = n /\ (Reads(k, "opened", s, c) \/ Reads(k, "closed", s, c))
<1>0. ServerTypeOK /\ ConnNode \in [Conns -> Nodes] /\ None \notin Cids
  BY WireAssumption, Zenon DEF TypeInv, TypeOK
<1>1. \A c \in Cids : \A f \in inbox'[c] : ~ About(f, n, s)
  BY InboxAbout DEF Silent, About
<1>2. \A k \in Conns : ConnNode[k] = n => \A p \in sweep'[k] : p[1] # s
  BY <1>0, SweepStep, Zenon DEF Silent
<1>3. CASE UNCHANGED <<tunnel_sessions, pend>>
  BY <1>1, <1>2, <1>3, Zenon DEF Silent
<1>4. ASSUME NEW k \in Conns, NodeNotify(k) PROVE Silent(n, s)'
  <2>1. tunnel_sessions' = tunnel_sessions /\ \A j \in Conns : pend'[j] \subseteq pend[j]
    BY <1>0, <1>4, Zenon DEF NodeNotify, ServerTypeOK
  <2>. QED
    BY <1>1, <1>2, <2>1, Zenon DEF Silent
<1>5. ASSUME NEW k \in Conns, NEW c \in Cids, NEW g \in ClientFrame, Handled(k, c, g),
             ~ (ConnNode[k] = n /\ (Reads(k, "opened", s, c) \/ Reads(k, "closed", s, c)))
      PROVE  Silent(n, s)'
  <2>1. ~ About(g, n, s)
    BY <1>0, <1>5 DEF Handled, About, Silent, Sids
  <2>2. \A j \in Conns : \A p \in pend'[j] : p \in pend[j] \/ p[2] = g
    BY <1>0, <1>5 DEF Handled, ServerTypeOK
  <2>3. tunnel_sessions'[n][s] = tunnel_sessions[n][s]
    BY <1>0, <1>5, <2>1 DEF Handled, About, ServerTypeOK
  <2>. QED
    BY <1>1, <1>2, <2>1, <2>2, <2>3, Zenon DEF Silent
<1>. QED
  BY <1>3, <1>4, <1>5, TableSteps, Zenon

\* What a step can do to one queue from an agent.
LEMMA QueueAt ==
  ASSUME TypeInv, [Next]_vars, NEW k \in Conns
  PROVE  \/ toServer'[k] = toServer[k]
         \/ toServer[k] # <<>> /\ toServer'[k] = Tail(toServer[k])
         \/ toServer'[k] = <<>>
         \/ \E f \in ServerFrame :
              /\ toServer'[k] = Append(toServer[k], f)
              /\ f.type \in SessionFrames => Sends(ConnNode[k], f.sid, f.type)
<1>. DEFINE Goal == \/ toServer'[k] = toServer[k]
                    \/ toServer[k] # <<>> /\ toServer'[k] = Tail(toServer[k])
                    \/ toServer'[k] = <<>>
                    \/ \E f \in ServerFrame :
                         /\ toServer'[k] = Append(toServer[k], f)
                         /\ f.type \in SessionFrames => Sends(ConnNode[k], f.sid, f.type)
<1>0. toServer \in [Conns -> Seq(ServerFrame)]
  BY Zenon DEF TypeInv, TypeOK, WireTypeOK
<1>1. ASSUME NEW j \in Conns, \/ toServer[j] # <<>> /\ toServer' = [toServer EXCEPT ![j] = Tail(@)]
                              \/ toServer' = [toServer EXCEPT ![j] = <<>>]
      PROVE  Goal
  BY <1>0, <1>1, Zenon
<1>2. ASSUME NEW j \in Conns, NEW f \in ServerFrame, send_frame_data(j, f),
             j = k /\ f.type \in SessionFrames => Sends(ConnNode[k], f.sid, f.type)
      PROVE  Goal
  <2>1. toServer' = toServer \/ toServer' = [toServer EXCEPT ![j] = Append(@, f)]
    BY <1>2, Zenon DEF send_frame_data
  <2>. QED
    BY <1>0, <1>2, <2>1, Zenon
<1>3. ASSUME NEW n \in Nodes, NEW s \in Sids, NEW type \in SessionFrames, Sends(n, s, type) PROVE Goal
  <2>1. PICK f \in OwnedFrame(n) : f.type = type /\ f.sid = s /\ send_frame_data(task[n][s].conn, f)
    BY <1>3, SendsOwned
  <2>2. f \in ServerFrame /\ task[n][s].conn \in Conns /\ ConnNode[task[n][s].conn] = n
    BY <1>3, SendsOwned, Zenon DEF OwnedFrame
  <2>. QED
    BY <1>2, <1>3, <2>1, <2>2, Zenon
<1>. HIDE DEF Goal
<1>4. Goal
  BY <1>1, <1>2, <1>3, QueueSteps, Zenon DEF Goal
<1>. QED
  BY <1>4, Zenon DEF Goal

\* Frames of a session are in the queue of its connection, and follow its start.
LEMMA QueuedHome ==
  ASSUME OpenInv, NoRestarts, NEW k \in Conns, NEW i \in 1 .. Len(toServer[k]),
         toServer[k][i].sid \in Sids
  PROVE  LET n == ConnNode[k] s == toServer[k][i].sid IN task[n][s].conn = k /\ Started(n, s)
<1>1. toServer[k] \in Seq(HomeFrame(k))
  BY WireAssumption, Zenon DEF OpenInv, HomeInv, NoRestarts
<1>2. toServer[k][i] \in HomeFrame(k)
  BY <1>1
<1>3. toServer[k][i].type \in SessionFrames
  <2>1. toServer[k][i] \in ServerFrame
    BY <1>2, Zenon DEF HomeFrame, OwnedFrame
  <2>2. \A f \in ServerFrame : f.sid = 0 \/ f.type \in SessionFrames
    BY Zenon DEF ServerFrame, SessionFrames
  <2>. QED
    BY <2>1, <2>2 DEF Sids
<1>. QED
  BY <1>2, <1>3, Zenon DEF HomeFrame, OwnedFrame, Owner, Started, SessionFrames

\* A queue never becomes its own tail by staying or growing.
LEMMA TailShorter ==
  ASSUME NEW S, NEW q \in Seq(S), q # <<>>, NEW f \in S
  PROVE  q # Tail(q) /\ Append(q, f) # Tail(q)
<1>. DEFINE t == Tail(q)
            a == Append(q, f)
<1>1. Len(t) = Len(q) - 1 /\ Len(a) = Len(q) + 1 /\ Len(q) \in Nat
  OBVIOUS
<1>. HIDE DEF t, a
<1>2. Len(t) # Len(q) /\ Len(t) # Len(a)
  BY <1>1
<1>3. q # t /\ a # t
  BY <1>2, Zenon
<1>. QED
  BY <1>3, Zenon DEF t, a

\* Nothing is heard of a session before its first frame.
LEMMA FirstStep ==
  ASSUME OpenInv, FirstInv, PendInv, NoRestarts, NoRestarts', [Next]_vars
  PROVE  FirstInv'
<1>0. TypeInv /\ ConnNode \in [Conns -> Nodes] /\ toServer \in [Conns -> Seq(ServerFrame)]
  BY WireAssumption, Zenon DEF OpenInv, OutputInv, TypeInv, TypeOK, WireTypeOK
<1>1. ASSUME NEW k \in Conns, NEW type, NEW s \in Sids, NEW c, Reads(k, type, s, c)
      PROVE  /\ 1 \in 1 .. Len(toServer[k]) /\ toServer[k][1].sid = s
             /\ task[ConnNode[k]][s].conn = k /\ Started(ConnNode[k], s)
             /\ toServer'[k] = Tail(toServer[k]) /\ \A j \in Conns \ {k} : toServer'[j] = toServer[j]
  <2>1. /\ toServer[k] # <<>> /\ Head(toServer[k]).sid = s
        /\ toServer' = [toServer EXCEPT ![k] = Tail(@)]
    BY <1>1, Zenon DEF Reads
  <2>2. 1 \in 1 .. Len(toServer[k]) /\ toServer[k][1].sid = s
    BY <1>0, <2>1
  <2>. QED
    BY <1>0, <2>1, <2>2, QueuedHome, Zenon
<1>2. ASSUME NEW n \in Nodes, NEW s \in Sids, ~ Started(n, s)' PROVE Silent(n, s)'
  <2>1. ~ Started(n, s)
    BY <1>0, <1>2, SessionKept, Zenon DEF Started, NoRestarts
  <2>2. Silent(n, s)
    BY <2>1, Zenon DEF FirstInv
  <2>3. ASSUME NEW k \in Conns, NEW c \in Cids, NEW type, ConnNode[k] = n, Reads(k, type, s, c)
        PROVE  FALSE
    BY <1>1, <2>1, <2>3, Zenon
  <2>. QED
    BY <1>0, <2>2, <2>3, SilentKept, Zenon
<1>3. ASSUME NEW k \in Conns, NEW i \in 1 .. Len(toServer[k]), NEW s,
             toServer[k][i].type = "opened", toServer[k][i].sid = s,
             i = 1 => toServer'[k] # Tail(toServer[k])
      PROVE  Silent(ConnNode[k], s)' /\ \A j \in 1 .. i - 1 : toServer[k][j].sid # s
  <2>. DEFINE n == ConnNode[k]
  <2>1. s \in Sids /\ n \in Nodes
    BY <1>0, <1>3, FrameFields
  <2>2. Silent(n, s) /\ \A j \in 1 .. i - 1 : toServer[k][j].sid # s
    BY <1>3, Zenon DEF FirstInv
  <2>3. task[n][s].conn = k
    BY <1>3, <2>1, QueuedHome, Zenon
  <2>4. ASSUME NEW j \in Conns, NEW c \in Cids, NEW type, ConnNode[j] = n, Reads(j, type, s, c)
        PROVE  FALSE
    <3>. HIDE DEF n
    <3>1. /\ toServer[j][1].sid = s /\ task[n][s].conn = j /\ toServer'[j] = Tail(toServer[j])
      BY <1>1, <2>1, <2>4
    <3>2. j = k /\ i # 1
      BY <1>3, <2>3, <3>1, Zenon
    <3>3. 1 \in 1 .. i - 1
      BY <1>0, <3>2
    <3>. QED
      BY <2>2, <3>1, <3>2, <3>3, Zenon
  <2>5. Silent(n, s)'
    BY <1>0, <2>1, <2>2, <2>4, SilentKept, Zenon
  <2>. QED
    BY <2>2, <2>5, Zenon
<1>4. ASSUME NEW k \in Conns, NEW i \in 1 .. Len(toServer'[k]), NEW s,
             toServer'[k][i].type = "opened", toServer'[k][i].sid = s
      PROVE  Silent(ConnNode[k], s)' /\ \A j \in 1 .. i - 1 : toServer'[k][j].sid # s
  <2>. DEFINE q == toServer[k]
              r == toServer'[k]
  <2>0. q \in Seq(ServerFrame) /\ Len(q) \in Nat /\ i \in Nat
    BY <1>0
  <2>1. CASE r = q
    <3>1. i \in 1 .. Len(q) /\ q # <<>> /\ q[i] \in ServerFrame
      BY <1>4, <2>0, <2>1
    <3>2. r # Tail(q)
      BY <2>0, <2>1, <3>1, TailShorter, Zenon
    <3>. QED
      BY <1>3, <1>4, <2>1, <3>1, <3>2, Zenon
  <2>2. CASE q # <<>> /\ r = Tail(q)
    <3>1. /\ i + 1 \in 1 .. Len(q) /\ i + 1 # 1 /\ r[i] = q[i + 1]
          /\ \A j \in 1 .. i - 1 : r[j] = q[j + 1] /\ j + 1 \in 1 .. (i + 1) - 1
      BY <1>4, <2>0, <2>2
    <3>2. Silent(ConnNode[k], s)' /\ \A j \in 1 .. (i + 1) - 1 : q[j].sid # s
      BY <1>3, <1>4, <3>1, Zenon
    <3>. QED
      BY <3>1, <3>2, Zenon
  <2>3. CASE r = <<>>
    BY <1>4, <2>3
  <2>4. ASSUME NEW f \in ServerFrame, r = Append(q, f),
               f.type \in SessionFrames => Sends(ConnNode[k], f.sid, f.type)
        PROVE  Silent(ConnNode[k], s)' /\ \A j \in 1 .. i - 1 : r[j].sid # s
    <3>1. Len(r) = Len(q) + 1 /\ r[Len(q) + 1] = f /\ \A j \in 1 .. Len(q) : r[j] = q[j]
      BY <2>0, <2>4
    <3>2. CASE i \in 1 .. Len(q)
      <4>0. r # Tail(q)
        BY <2>0, <2>4, <3>2, TailShorter, SMTT(20)
      <4>1. Silent(ConnNode[k], s)' /\ \A j \in 1 .. i - 1 : q[j].sid # s
        BY <1>3, <1>4, <3>1, <3>2, <4>0, Zenon
      <4>2. \A j \in 1 .. i - 1 : j \in 1 .. Len(q)
        BY <2>0, <3>2
      <4>. QED
        BY <3>1, <4>1, <4>2, Zenon
    <3>3. CASE i = Len(q) + 1
      <4>. DEFINE n == ConnNode[k]
      <4>1. s = f.sid /\ s \in Sids /\ n \in Nodes /\ Sends(n, s, "opened")
        BY <1>0, <1>4, <2>4, <3>1, <3>3, FrameFields, Zenon DEF SessionFrames
      <4>2. ~ Started(n, s)
        BY <4>1, Zenon DEF Sends, Started
      <4>3. Silent(n, s)
        BY <4>1, <4>2, Zenon DEF FirstInv
      <4>4. ASSUME NEW j \in Conns, NEW c \in Cids, NEW type, ConnNode[j] = n, Reads(j, type, s, c)
            PROVE  FALSE
        BY <1>1, <4>1, <4>2, <4>4, Zenon
      <4>5. Silent(n, s)'
        BY <1>0, <4>1, <4>3, <4>4, SilentKept, Zenon
      <4>6. \A j \in 1 .. Len(q) : q[j].sid # s
        BY <4>1, <4>2, QueuedHome, Zenon
      <4>7. \A j \in 1 .. i - 1 : j \in 1 .. Len(q)
        BY <2>0, <3>3
      <4>. QED
        BY <3>1, <4>5, <4>6, <4>7, Zenon
    <3>. QED
      BY <1>4, <2>0, <3>1, <3>2, <3>3, SMTT(20)
  <2>. QED
    BY <1>0, <2>1, <2>2, <2>3, <2>4, QueueAt, Zenon
<1>5. ASSUME NEW k \in Conns, NEW i \in 1 .. Len(toServer'[k]), toServer'[k][i].type = "opened"
      PROVE  /\ Silent(ConnNode[k], toServer[k][i].sid)'
             /\ \A j \in 1 .. i - 1 : toServer'[k][j].sid # toServer'[k][i].sid
  BY <1>4, <1>5, Zenon DEF Silent
<1>. QED
  BY <1>2, <1>5, Zenon DEF FirstInv

\* What a step leaves pending.
LEMMA PendSteps ==
  ASSUME TypeInv, [Next]_vars, NEW k \in Conns, NEW p \in pend'[k]
  PROVE  \/ p \in pend[k]
         \/ /\ inbox' = inbox /\ pend'[k] = {p} /\ \A j \in Conns \ {k} : pend'[j] = pend[j]
            /\ \E c \in Cids, g \in ClientFrame : p = <<c, g>> /\ Handled(k, c, g)
<1>0. ServerTypeOK
  BY Zenon DEF TypeInv, TypeOK
<1>1. ASSUME NEW j \in Conns, NodeNotify(j) PROVE p \in pend[k]
  BY <1>0, <1>1, Zenon DEF NodeNotify, ServerTypeOK
<1>2. ASSUME NEW j \in Conns, NEW c \in Cids, NEW g \in ClientFrame, Handled(j, c, g), p \notin pend[k]
      PROVE  /\ j = k /\ p = <<c, g>>
             /\ pend'[k] = {p} /\ \A i \in Conns \ {k} : pend'[i] = pend[i]
  BY <1>0, <1>2 DEF Handled, ServerTypeOK
<1>. QED
  BY <1>1, <1>2, TableSteps, Zenon

\* What is pending is about the node of its connection, and those of one node
\* are pending one at a time.
LEMMA PendNode ==
  ASSUME OutputInv, PendInv, TakeTurns, NEW j \in Conns, NEW k \in Conns,
         NEW p \in pend[j], NEW q \in pend[k], p[2].node = q[2].node
  PROVE  j = k /\ p[2].node = ConnNode[k]
<1>1. p[2].node = ConnNode[j] /\ q[2].node = ConnNode[k]
  BY Zenon DEF OutputInv, RouteInv
<1>2. Serving(j) /\ Serving(k)
  BY Zenon DEF PendInv, Serving
<1>. QED
  BY <1>1, <1>2, Zenon DEF TakeTurns

\* What is about to be told goes on not to contradict what has been.
LEMMA QuietStep ==
  ASSUME ServiceInv, OutputInv', PendInv', NoRestarts, NoRestarts', TakeTurns, TakeTurns', [Next]_vars
  PROVE  QuietInv'
<1>. SUFFICES ASSUME NEW n \in Nodes, NEW s \in Sids
              PROVE  /\ Told(n, s)' =>
                          /\ tunnel_sessions'[n][s] = None
                          /\ \A k \in Conns : \A p \in pend'[k] : p[2].type = "data" => ~ About(p[2], n, s)
                     /\ \A k \in Conns : \A p \in pend'[k] : p[2].type = "opened" /\ About(p[2], n, s) =>
                          \A c \in Cids : \A f \in inbox'[c] : ~ About(f, n, s)
                     /\ \A c \in Cids : \A f \in inbox'[c] : About(f, n, s) => Owner(n, s, c)'
  BY Zenon DEF QuietInv, About
<1>0. /\ TypeInv /\ OutputInv /\ PendInv /\ ServerTypeOK
      /\ ConnNode \in [Conns -> Nodes] /\ None \notin Cids
  BY WireAssumption, Zenon DEF ServiceInv, OpenInv, OutputInv, TypeInv, TypeOK
<1>1. ASSUME NEW k \in Conns, NEW c, ConnNode[k] = n, Reads(k, "opened", s, c)
      PROVE  Silent(n, s)
  <2>1. toServer[k] \in Seq(ServerFrame) /\ toServer[k] # <<>>
    BY <1>0, <1>1, Zenon DEF Reads, TypeInv, TypeOK, WireTypeOK
  <2>2. 1 \in 1 .. Len(toServer[k]) /\ toServer[k][1].type = "opened" /\ toServer[k][1].sid = s
    BY <1>1, <2>1 DEF Reads
  <2>. QED
    BY <1>1, <2>2, Zenon DEF ServiceInv, FirstInv
<1>2. ASSUME Told(n, s)
      PROVE  /\ tunnel_sessions'[n][s] = None
             /\ \A k \in Conns : \A p \in pend'[k] : p[2].type = "data" => ~ About(p[2], n, s)
  <2>1. /\ tunnel_sessions[n][s] = None
        /\ \A k \in Conns : \A p \in pend[k] : p[2].type = "data" => ~ About(p[2], n, s)
    BY <1>2, Zenon DEF ServiceInv, QuietInv
  <2>2. ASSUME NEW k \in Conns, NEW c, ConnNode[k] = n, Reads(k, "opened", s, c) PROVE FALSE
    BY <1>1, <1>2, <2>2, Zenon DEF Told, Silent
  <2>3. ASSUME NEW k \in Conns, NEW c \in Cids, NEW g \in ClientFrame, Handled(k, c, g)
        PROVE  tunnel_sessions'[n][s] = None /\ (g.type = "data" => ~ About(g, n, s))
    BY <1>0, <2>1, <2>2, <2>3, SMTT(20) DEF Handled, About, ServerTypeOK
  <2>4. tunnel_sessions'[n][s] = None
    BY <1>0, <2>1, <2>3, TableSteps, Zenon DEF NodeNotify
  <2>5. ASSUME NEW k \in Conns, NEW p \in pend'[k], p[2].type = "data" PROVE ~ About(p[2], n, s)
    BY <1>0, <2>1, <2>3, <2>5, PendSteps, SMTT(20)
  <2>. QED
    BY <2>4, <2>5, Zenon
<1>3. ASSUME ~ Told(n, s), Told(n, s)'
      PROVE  /\ tunnel_sessions'[n][s] = None
             /\ \A k \in Conns : \A p \in pend'[k] : p[2].type = "data" => ~ About(p[2], n, s)
  <2>1. ASSUME NEW c \in Cids, NEW f \in inbox'[c], f.type = "closed", About(f, n, s) PROVE FALSE
    BY <1>0, <1>3, <2>1, InboxAbout DEF Told, About
  <2>2. PICK k \in Conns : \E p \in pend'[k] : p[2].type = "closed" /\ About(p[2], n, s)
    BY <1>3, <2>1, Zenon DEF Told, About
  <2>3. PICK p \in pend'[k] : p[2].type = "closed" /\ About(p[2], n, s)
    BY <2>2, Zenon
  <2>4. p \notin pend[k]
    BY <1>3, <2>3, Zenon DEF Told
  <2>5. PICK c \in Cids, g \in ClientFrame : p = <<c, g>> /\ Handled(k, c, g)
    BY <1>0, <2>4, PendSteps, Zenon
  <2>6. tunnel_sessions'[n][s] = None
    BY <1>0, <2>3, <2>5 DEF Handled, About, ServerTypeOK
  <2>7. ASSUME NEW j \in Conns, NEW q \in pend'[j], q[2].type = "data", About(q[2], n, s) PROVE FALSE
    <3>1. ConnNode[j] = n /\ ConnNode[k] = n
      BY <2>3, <2>7, Zenon DEF About, OutputInv, RouteInv
    <3>2. j = k
      BY <2>3, <2>7, <3>1, Zenon DEF PendInv, Serving, TakeTurns
    <3>3. q = p
      BY <1>0, <2>4, <2>7, <3>2, PendSteps
    <3>. QED
      BY <2>3, <2>7, <3>3, Zenon
  <2>. QED
    BY <2>6, <2>7, Zenon
<1>4. ASSUME NEW k \in Conns, NEW p \in pend'[k], p[2].type = "opened", About(p[2], n, s),
             NEW c \in Cids, NEW f \in inbox'[c], About(f, n, s)
      PROVE  FALSE
  <2>1. CASE p \in pend[k] /\ f \in inbox[c]
    BY <1>4, <2>1, Zenon DEF ServiceInv, QuietInv
  <2>2. CASE p \in pend[k] /\ f \notin inbox[c]
    <3>1. PICK j \in Conns : NodeNotify(j) /\ \E q \in pend[j] : q[2] = f
      BY <1>0, <1>4, <2>2, InboxAbout, SMTT(20) DEF About
    <3>2. j = k
      BY <1>0, <1>4, <2>2, <3>1, PendNode, SMTT(20) DEF About
    <3>3. pend'[k] = {}
      BY <1>0, <3>1, <3>2, Zenon DEF NodeNotify, ServerTypeOK
    <3>. QED
      BY <1>4, <3>3, ZenonT(20)
  <2>3. CASE p \notin pend[k]
    <3>1. inbox' = inbox /\ \E d \in Cids, g \in ClientFrame : p = <<d, g>> /\ Handled(k, d, g)
      BY <1>0, <1>4, <2>3, PendSteps, Zenon
    <3>2. PICK d \in Cids, g \in ClientFrame : p = <<d, g>> /\ Handled(k, d, g)
      BY <3>1, Zenon
    <3>3. ConnNode[k] = n /\ Reads(k, "opened", s, d)
      BY <1>4, <3>2, Zenon DEF Handled, About
    <3>4. Silent(n, s)
      BY <1>1, <3>3, Zenon
    <3>. QED
      BY <1>4, <3>1, <3>4, Zenon DEF Silent
  <2>. QED
    BY <2>1, <2>2, <2>3, Zenon
<1>5. ASSUME NEW c \in Cids, NEW f \in inbox'[c], About(f, n, s) PROVE Owner(n, s, c)'
  <2>1. Owner(n, s, c)
    <3>1. CASE f \in inbox[c]
      BY <1>5, <3>1, Zenon DEF ServiceInv, QuietInv
    <3>2. CASE f \notin inbox[c]
      <4>1. PICK k \in Conns : \E p \in pend[k] : p[1] = c /\ p[2] = f
        BY <1>0, <1>5, <3>2, InboxAbout DEF About
      <4>2. ConnNode[k] = n
        BY <1>0, <1>5, <4>1, Zenon DEF OutputInv, RouteInv, About
      <4>. QED
        BY <1>5, <4>1, <4>2, SMTT(20) DEF ServiceInv, OpenInv, AnnounceInv, About, NoRestarts
    <3>. QED
      BY <3>1, <3>2, Zenon
  <2>. QED
    BY <1>0, <2>1, OwnerKept, Zenon DEF NoRestarts
<1>. QED
  BY <1>2, <1>3, <1>4, <1>5, Zenon

\* The strengthening holds initially and is kept while the agents do not
\* restart and the connections of a node take turns.
LEMMA ServiceInit == Init => ServiceInv
<1>1. ASSUME Init PROVE FirstInv /\ PendInv /\ QuietInv
  <2>1. /\ \A k \in Conns : toServer[k] = <<>> /\ pend[k] = {} /\ sweep[k] = {}
        /\ \A c \in Cids : inbox[c] = {}
        /\ \A n \in Nodes, s \in Sids : tunnel_sessions[n][s] = None
    BY <1>1, Zenon DEF Init, WireInit, ServerInit
  <2>2. \A k \in Conns : 1 .. Len(toServer[k]) = {}
    BY <2>1
  <2>3. FirstInv
    BY <2>1, <2>2, Zenon DEF FirstInv, Silent
  <2>. QED
    BY <2>1, <2>3, Zenon DEF PendInv, QuietInv, Told
<1>. QED
  BY <1>1, OpenInit, Zenon DEF ServiceInv

LEMMA ServiceStep ==
  ServiceInv /\ TakeTurns /\ TakeTurns' /\ NoRestarts /\ NoRestarts' /\ [Next]_vars => ServiceInv'
<1>. SUFFICES ASSUME ServiceInv, TakeTurns, TakeTurns', NoRestarts, NoRestarts', [Next]_vars
              PROVE  ServiceInv'
  BY Zenon
<1>1. OpenInv'
  BY OpenStep, Zenon DEF ServiceInv
<1>2. TypeInv /\ OutputInv'
  BY <1>1, Zenon DEF ServiceInv, OpenInv, OutputInv
<1>3. PendInv'
  BY <1>2, SweepStep, Zenon DEF ServiceInv
<1>4. FirstInv'
  BY FirstStep, Zenon DEF ServiceInv
<1>5. QuietInv'
  BY <1>2, <1>3, QuietStep, Zenon
<1>. QED
  BY <1>1, <1>3, <1>4, <1>5, Zenon DEF ServiceInv

\* What a client has after a frame was put on a channel.
LEMMA FramesAfter ==
  ASSUME TypeInv, NEW c \in Cids, NEW f, notify_client_by_cid(c, f), c \in connections,
         NEW d \in Cids, NEW t \in Tunnels, NEW type
  PROVE  HasFrame(d, t, type)' <=>
           HasFrame(d, t, type) \/ (d = c /\ f.type = type /\ f.node = t[1] /\ f.sid = t[2])
<1>1. inbox'[d] = IF d = c THEN inbox[d] \cup {f} ELSE inbox[d]
  BY Zenon DEF notify_client_by_cid, TypeInv, TypeOK, WireTypeOK
<1>. QED
  BY <1>1, Zenon DEF HasFrame

\* Frames that are not about a session do not show in TunnelService.
LEMMA OtherFrames ==
  ASSUME TypeInv, NEW c \in Cids, NEW f, notify_client_by_cid(c, f),
         f.type = "error" \/ f.sid \notin Sids \/ c \notin connections
  PROVE  UNCHANGED <<viewOf, gotOf>>
<1>1. ASSUME NEW d \in Cids, NEW t \in Tunnels, NEW type \in {"opened", "data", "closed"}
      PROVE  HasFrame(d, t, type)' <=> HasFrame(d, t, type)
  <2>1. t[2] \in Sids
    BY Zenon DEF Tunnels
  <2>2. CASE c \notin connections
    BY <2>2, Zenon DEF notify_client_by_cid, HasFrame
  <2>3. CASE c \in connections
    BY <2>1, <2>3, FramesAfter
  <2>. QED
    BY <2>2, <2>3, Zenon
<1>2. ASSUME NEW d \in Cids, NEW t \in Tunnels, NEW type \in {"opened", "data", "closed"}
      PROVE  (\E g \in inbox'[d] : g.type = type /\ g.node = t[1] /\ g.sid = t[2]) <=>
             (\E g \in inbox[d] : g.type = type /\ g.node = t[1] /\ g.sid = t[2])
  BY <1>1 DEF HasFrame
<1>3. viewOf' = viewOf
  BY <1>2 DEF viewOf, HasFrame
<1>4. gotOf' = gotOf
  BY <1>2 DEF gotOf, HasFrame
<1>. QED
  BY <1>3, <1>4, Zenon

\* A table of tables changed at one place.
LEMMA SetAt ==
  ASSUME NEW A, NEW B, NEW S, NEW F \in [A -> [B -> S]], NEW G \in [A -> [B -> S]],
         NEW a \in A, NEW b \in B, NEW v \in S,
         \A x \in A, y \in B : G[x][y] = IF x = a /\ y = b THEN v ELSE F[x][y]
  PROVE  G = [F EXCEPT ![a][b] = v]
<1>1. \A x \in A : G[x] = [F EXCEPT ![a][b] = v][x]
  <2>1. ASSUME NEW x \in A, x # a PROVE G[x] = F[x]
    BY <2>1
  <2>2. G[a] = [F[a] EXCEPT ![b] = v]
    BY Zenon
  <2>. QED
    BY <2>1, <2>2, Zenon
<1>. QED
  BY <1>1, Zenon

\* Truth values that stay.
LEMMA SameMarks ==
  ASSUME NEW A, NEW B, NEW F \in [A -> [B -> BOOLEAN]], NEW G \in [A -> [B -> BOOLEAN]],
         \A x \in A, y \in B : G[x][y] <=> F[x][y]
  PROVE  G = F
<1>1. ASSUME NEW x \in A, NEW y \in B PROVE G[x][y] = F[x][y]
  <2>1. G[x][y] \in BOOLEAN /\ F[x][y] \in BOOLEAN
    OBVIOUS
  <2>. QED
    BY <2>1, Zenon
<1>2. \A x \in A : G[x] = F[x]
  BY <1>1
<1>. QED
  BY <1>2

\* The views of the clients, one tunnel at a time.
LEMMA ViewAt ==
  /\ viewOf \in [Cids -> [Tunnels -> {"none", "open", "closed"}]]
  /\ gotOf \in [Cids -> [Tunnels -> BOOLEAN]]
  /\ \A c \in Cids, t \in Tunnels :
       /\ viewOf[c][t] = IF HasFrame(c, t, "closed") THEN "closed"
                         ELSE IF HasFrame(c, t, "opened") THEN "open" ELSE "none"
       /\ gotOf[c][t] <=> HasFrame(c, t, "data")
BY Zenon DEF viewOf, gotOf, HasFrame

LEMMA ViewAtNext ==
  /\ viewOf' \in [Cids -> [Tunnels -> {"none", "open", "closed"}]]
  /\ gotOf' \in [Cids -> [Tunnels -> BOOLEAN]]
  /\ \A c \in Cids, t \in Tunnels :
       /\ viewOf'[c][t] = IF HasFrame(c, t, "closed")' THEN "closed"
                          ELSE IF HasFrame(c, t, "opened")' THEN "open" ELSE "none"
       /\ gotOf'[c][t] <=> HasFrame(c, t, "data")'
BY Zenon DEF viewOf, gotOf, HasFrame

\* What a node task tells a client is a step of TunnelService.
LEMMA NotifySimulates ==
  ASSUME ServiceInv, NoRestarts, NEW k \in Conns, NEW p \in pend[k],
         notify_client_by_cid(p[1], p[2]), p[1] \in connections,
         p[2].sid \in Sids, p[2].type # "error"
  PROVE  Service!Next
<1>. DEFINE c == p[1]  f == p[2]  n == ConnNode[k]  s == f.sid  t == <<n, s>>
<1>0. /\ TypeInv /\ n \in Nodes /\ t \in Tunnels /\ c \in Cids /\ t[1] = n /\ t[2] = s
      /\ f.type \in {"opened", "closed", "data"} /\ f.node = n /\ restarts[n] = 0
  BY WireAssumption, SMTT(20) DEF ServiceInv, OpenInv, OutputInv, RouteInv, TypeInv, TypeOK, ServerTypeOK,
       ClientFrame, Tunnels, NoRestarts
<1>1. /\ Owner(n, s, c)
      /\ f.type = "data" => Announced(n, s, c)
  BY <1>0, Zenon DEF ServiceInv, OpenInv, AnnounceInv
<1>2. \A d \in Cids, u \in Tunnels : \A type :
        HasFrame(d, u, type)' <=> HasFrame(d, u, type) \/ (d = c /\ f.type = type /\ u = t)
  <2>1. \A u \in Tunnels : f.node = u[1] /\ f.sid = u[2] <=> u = t
    BY <1>0 DEF Tunnels
  <2>. QED
    BY <1>0, <2>1, FramesAfter
<1>3. ASSUME NEW d \in Cids, NEW type, HasFrame(d, t, type) PROVE d = c
  <2>1. Owner(n, s, d)
    BY <1>0, <1>3, Zenon DEF HasFrame, ServiceInv, QuietInv, About
  <2>. QED
    BY <1>1, <2>1, Zenon DEF Owner
<1>. HIDE DEF c, f, n, s, t
<1>4. \A d \in Cids \ {c} : viewOf[d][t] = "none"
  BY <1>0, <1>3, ViewAt, Zenon
<1>4a. gotOf \in [Cids -> [Tunnels -> BOOLEAN]] /\ gotOf' \in [Cids -> [Tunnels -> BOOLEAN]]
  BY ViewAt, ViewAtNext, Zenon
<1>5. CASE f.type = "opened"
  <2>1. \A d \in Cids : \A type : ~ HasFrame(d, t, type)
    BY <1>0, <1>5, Zenon DEF HasFrame, ServiceInv, QuietInv, About, c, f, n, s, t
  <2>2. viewOf[c][t] = "none"
    BY <1>0, <2>1, ViewAt, Zenon
  <2>3. viewOf' = [viewOf EXCEPT ![c][t] = "open"]
    <3>1. \A d \in Cids, u \in Tunnels :
            viewOf'[d][u] = IF d = c /\ u = t THEN "open" ELSE viewOf[d][u]
      BY <1>2, <1>5, <2>1, ViewAt, ViewAtNext, SMTT(20)
    <3>. QED
      BY <1>0, <3>1, ViewAt, ViewAtNext, SetAt, SMTT(20)
  <2>4. gotOf' = gotOf
    <3>1. \A d \in Cids, u \in Tunnels : gotOf'[d][u] <=> gotOf[d][u]
      BY <1>2, <1>5, ViewAt, ViewAtNext, SMTT(20)
    <3>. QED
      BY <1>4a, <3>1, SameMarks, SMTT(20)
  <2>5. Service!Opened(c, t)
    BY <1>4, <2>2, <2>3, <2>4, Zenon DEF Service!Opened
  <2>. QED
    BY <1>0, <2>5, Zenon DEF Service!Next
<1>6. CASE f.type = "data"
  <2>1. HasFrame(c, t, "opened")
    BY <1>0, <1>1, <1>6, Zenon DEF HasFrame, Announced, c
  <2>2. ~ HasFrame(c, t, "closed")
    BY <1>0, <1>6 DEF HasFrame, ServiceInv, QuietInv, Told, About, c, f, n, s, t
  <2>3. viewOf[c][t] = "open"
    BY <1>0, <2>1, <2>2, ViewAt, Zenon
  <2>4. gotOf' = [gotOf EXCEPT ![c][t] = TRUE]
    <3>1. \A d \in Cids, u \in Tunnels :
            gotOf'[d][u] <=> (d = c /\ u = t) \/ gotOf[d][u]
      BY <1>2, <1>6, ViewAt, ViewAtNext, Zenon
    <3>2. ASSUME NEW S, S = BOOLEAN, NEW v, v = TRUE PROVE gotOf' = [gotOf EXCEPT ![c][t] = v]
      <4>1. gotOf \in [Cids -> [Tunnels -> S]] /\ gotOf' \in [Cids -> [Tunnels -> S]] /\ v \in S
        BY <1>4a, <3>2, Zenon
      <4>2. ASSUME NEW d \in Cids, NEW u \in Tunnels
            PROVE  gotOf'[d][u] = IF d = c /\ u = t THEN v ELSE gotOf[d][u]
        <5>1. gotOf[d][u] \in BOOLEAN /\ gotOf'[d][u] \in BOOLEAN
          BY <1>4a, Zenon
        <5>. QED
          BY <3>1, <3>2, <5>1, Zenon
      <4>. QED
        BY <1>0, <4>1, <4>2, SetAt
    <3>. QED
      BY <3>2, Zenon
  <2>5. viewOf' = viewOf
    <3>1. ASSUME NEW d \in Cids, NEW u \in Tunnels PROVE viewOf'[d][u] = viewOf[d][u]
      <4>1. /\ HasFrame(d, u, "closed")' <=> HasFrame(d, u, "closed")
            /\ HasFrame(d, u, "opened")' <=> HasFrame(d, u, "opened")
        BY <1>2, <1>6
      <4>. QED
        BY <4>1, ViewAt, ViewAtNext, Zenon
    <3>. QED
      BY <3>1, ViewAt, ViewAtNext
  <2>6. Service!Output(c, t)
    BY <2>3, <2>4, <2>5, Zenon DEF Service!Output
  <2>. QED
    BY <1>0, <2>6, Zenon DEF Service!Next
<1>7. CASE f.type = "closed"
  <2>1. viewOf' = [viewOf EXCEPT ![c][t] = "closed"]
    <3>1. \A d \in Cids, u \in Tunnels :
            viewOf'[d][u] = IF d = c /\ u = t THEN "closed" ELSE viewOf[d][u]
      BY <1>2, <1>7, ViewAt, ViewAtNext, SMTT(20)
    <3>. QED
      BY <1>0, <3>1, ViewAt, ViewAtNext, SetAt, SMTT(20)
  <2>2. gotOf' = gotOf
    <3>1. \A d \in Cids, u \in Tunnels : gotOf'[d][u] <=> gotOf[d][u]
      BY <1>2, <1>7, ViewAt, ViewAtNext
    <3>. QED
      BY <1>4a, <3>1, SameMarks
  <2>3. Service!Closed(c, t)
    BY <1>4, <2>1, <2>2, Zenon DEF Service!Closed
  <2>. QED
    BY <1>0, <2>3, Zenon DEF Service!Next
<1>. QED
  BY <1>0, <1>5, <1>6, <1>7, Zenon

\* Every step is one of TunnelService, or does not show in it.
LEMMA StepSimulates ==
  ServiceInv /\ NoRestarts /\ [Next]_vars => [Service!Next]_<<viewOf, gotOf>>
<1>. SUFFICES ASSUME ServiceInv, NoRestarts, [Next]_vars, ~ Service!Next
              PROVE  UNCHANGED <<viewOf, gotOf>>
  BY Zenon
<1>0. TypeInv /\ ServerTypeOK
  BY Zenon DEF ServiceInv, OpenInv, OutputInv, TypeInv, TypeOK
<1>1. CASE inbox' = inbox
  BY <1>1, Zenon DEF viewOf, gotOf, HasFrame
<1>2. ASSUME NEW c \in Cids, NEW n \in Nodes, NEW m, notify_client_by_cid(c, WebFrame("error", n, 0, c, m))
      PROVE  UNCHANGED <<viewOf, gotOf>>
  <2>1. WebFrame("error", n, 0, c, m).type = "error"
    BY WebFrameFields
  <2>. QED
    BY <1>0, <1>2, <2>1, OtherFrames, Zenon
<1>3. ASSUME NEW k \in Conns, NodeNotify(k) PROVE UNCHANGED <<viewOf, gotOf>>
  <2>1. PICK p \in pend[k] : notify_client_by_cid(p[1], p[2])
    BY <1>3, Zenon DEF NodeNotify
  <2>2. p[1] \in Cids
    BY <1>0, <2>1 DEF ServerTypeOK
  <2>. QED
    BY <1>0, <2>1, <2>2, NotifySimulates, OtherFrames, Zenon
<1>. QED
  BY <1>1, <1>2, <1>3, InboxSteps, Zenon

\* The initial states are initial states of TunnelService.
LEMMA InitSimulates == Init => Service!Init
<1>1. ASSUME Init PROVE Service!Init
  <2>1. \A c \in Cids : inbox[c] = {}
    BY <1>1, Zenon DEF Init, WireInit
  <2>. QED
    BY <2>1, Zenon DEF Service!Init, viewOf, gotOf, HasFrame
<1>. QED
  BY <1>1, Zenon

\* While no agent process restarts and the connections of a node take turns,
\* what web clients receive implements TunnelService: a tunnel is announced to
\* one client, output follows the announcement and nothing follows the closing
\* notice.
THEOREM ServiceImplemented == Spec /\ []TakeTurns /\ []NoRestarts => ImplementsService
<1>. QED
  BY ServiceInit, ServiceStep, InitSimulates, StepSimulates, PTL DEF Spec, ImplementsService,
     Service!Spec
=============================================================================
