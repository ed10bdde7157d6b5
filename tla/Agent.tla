-------------------------------- MODULE Agent --------------------------------
(***************************************************************************)
(* The agent: agent/src/ws.rs (connections, the reader and heartbeat tasks,*)
(* handle_message) and the SSH and SFTP session tasks it spawns            *)
(* (agent/src/ssh/connection.rs, agent/src/sftp/connection.rs).            *)
(*                                                                         *)
(* Per connection there is a `sessions' map of handles; the session tasks  *)
(* and the sid counter belong to the process.  When connect() returns, its *)
(* JoinHandles are dropped, which detaches the reader and write tasks.     *)
(***************************************************************************)
EXTENDS Wire

CONSTANTS
  StatsAvailable,  \* Stats::get() yields statistics to send with a heartbeat
  MaxOut           \* bound: data frames one session produces

ASSUME AgentAssumption ==
  StatsAvailable \in BOOLEAN /\ MaxOut \in Nat

VARIABLES
  agentTask,  \* agentTask[k]: "none", "auth", "active" (connect() runs),
              \* "detached" (connect() returned, the reader runs on), "done"
  acked,      \* acked[k]: a HeartbeatAck has been received
  sessions,   \* sessions[k]: keys (cid, sid) of the handles of connection k
  task,       \* task[n][s]: the session task with session id s
  nextSid     \* nextSid[n]: SESSION_ID

agentVars == <<agentTask, acked, sessions, task, nextSid>>

\* pc: "free", "spawned", "connecting" (SFTP: opened, not connected), "open",
\* "closing", "done".  fed: the clients whose requests entered its queue.
TaskState == [pc : {"free", "spawned", "connecting", "open", "closing", "done"},
              cid : Cids \cup {None}, conn : Conns \cup {None},
              proto : Protocols \cup {None}, msg : Msgs, stop : BOOLEAN,
              fed : SUBSET Cids, outs : 0 .. MaxOut]
NoTask == [pc |-> "free", cid |-> None, conn |-> None, proto |-> None, msg |-> 0,
           stop |-> FALSE, fed |-> {}, outs |-> 0]
NewTask(k, f) == [pc |-> "spawned", cid |-> f.cid, conn |-> k, proto |-> f.proto,
                  msg |-> f.msg, stop |-> FALSE, fed |-> {}, outs |-> 0]

AgentTypeOK ==
  /\ agentTask \in [Conns -> {"none", "auth", "active", "detached", "done"}]
  /\ acked \in [Conns -> BOOLEAN]
  /\ sessions \in [Conns -> SUBSET (Cids \X Sids)]
  /\ task \in [Nodes -> [Sids -> TaskState]]
  /\ nextSid \in [Nodes -> 1 .. MaxSid + 1]

AgentInit ==
  /\ agentTask = [k \in Conns |-> "none"]
  /\ acked = [k \in Conns |-> FALSE]
  /\ sessions = [k \in Conns |-> {}]
  /\ task = [n \in Nodes |-> [s \in Sids |-> NoTask]]
  /\ nextSid = [n \in Nodes |-> 1]

\* shutdown() of the handles with these keys, in the maps of node n: the stop
\* signal reaches the session task when it next polls it.
Stopped(n, keys) ==
  [s \in Sids |-> IF <<task[n][s].cid, s>> \in keys /\ task[n][s].pc # "done"
                  THEN [task[n][s] EXCEPT !.stop = TRUE] ELSE task[n][s]]

-----------------------------------------------------------------------------
(* Connections.                                                            *)

\* start_ws_connection: the next WebSocketConnection, with new maps, once the
\* previous connect() has returned.
Connect(k) ==
  /\ agentTask[k] = "none"
  /\ \A j \in Conns : ConnNode[j] = ConnNode[k] =>
       /\ agentTask[j] \notin {"auth", "active"}
       /\ j < k => agentTask[j] # "none"
  /\ agentTask' = [agentTask EXCEPT ![k] = "auth"]
  /\ link' = [link EXCEPT ![k] = "up"]
  /\ UNCHANGED <<toAgent, toServer, inbox, acked, sessions, task, nextSid>>

\* The reader takes the next frame.
Handles(k, type) ==
  /\ agentTask[k] \in {"active", "detached"}
  /\ toAgent[k] # <<>> /\ Head(toAgent[k]).type = type
  /\ toAgent' = [toAgent EXCEPT ![k] = Tail(@)]

\* read_auth_response succeeds: connect() spawns its tasks.
AuthAccepted(k) ==
  /\ agentTask[k] = "auth"
  /\ toAgent[k] # <<>> /\ Head(toAgent[k]).type = "auth"
  /\ toAgent' = [toAgent EXCEPT ![k] = Tail(@)]
  /\ agentTask' = [agentTask EXCEPT ![k] = "active"]
  /\ UNCHANGED <<link, toServer, inbox, acked, sessions, task, nextSid>>

\* One tick of the heartbeat task, one heartbeat under way at a time.  Without
\* statistics a tick sends nothing.
HeartbeatTick(k) ==
  /\ agentTask[k] = "active" /\ StatsAvailable
  /\ ~ \E i \in 1 .. Len(toServer[k]) : toServer[k][i].type = "heartbeat"
  /\ send_frame_data(k, Heartbeat)
  /\ UNCHANGED <<link, toAgent, inbox, agentVars>>

\* close_tunnels at the end of connect().
CloseAll(k) ==
  /\ sessions' = [sessions EXCEPT ![k] = {}]
  /\ task' = [task EXCEPT ![ConnNode[k]] = Stopped(ConnNode[k], sessions[k])]

\* A tick finds the last acknowledgement too old: connect() returns while the
\* socket, the reader and the write task live on.
HeartbeatTimeout(k) ==
  /\ agentTask[k] = "active" /\ acked[k]
  /\ agentTask' = [agentTask EXCEPT ![k] = "detached"]
  /\ CloseAll(k)
  /\ UNCHANGED <<wireVars, acked, nextSid>>

\* Mutant: the sessions of the connection are not stopped.
ReaderEndsLeaving(k) ==
  /\ agentTask[k] \in {"auth", "active", "detached"}
  /\ link[k] = "down"
  /\ agentTask' = [agentTask EXCEPT ![k] = "done"]
  /\ toAgent' = [toAgent EXCEPT ![k] = <<>>]
  /\ UNCHANGED <<link, toServer, inbox, acked, sessions, task, nextSid>>

\* The reader meets the end of the socket; frames still queued are never
\* handled.  connect() returns and stops the sessions; a detached reader held
\* the last reference to the map, and dropping a handle drops its stop sender,
\* which the session task sees as a stop too.
ReaderEnds(k) ==
  /\ agentTask[k] \in {"auth", "active", "detached"}
  /\ link[k] = "down"
  /\ agentTask' = [agentTask EXCEPT ![k] = "done"]
  /\ toAgent' = [toAgent EXCEPT ![k] = <<>>]
  /\ CloseAll(k)
  /\ UNCHANGED <<link, toServer, inbox, acked, nextSid>>

\* The process dies and starts again: its tasks and maps are gone, the kernel
\* closes its sockets, SESSION_ID starts over.
ProcessRestart(n) ==
  /\ LET mine == {k \in Conns : ConnNode[k] = n /\ agentTask[k] # "none"} IN
     /\ mine # {}
     /\ agentTask' = [k \in Conns |-> IF k \in mine THEN "done" ELSE agentTask[k]]
     /\ link' = [k \in Conns |-> IF k \in mine THEN "down" ELSE link[k]]
     /\ toAgent' = [k \in Conns |-> IF k \in mine THEN <<>> ELSE toAgent[k]]
     /\ sessions' = [k \in Conns |-> IF k \in mine THEN {} ELSE sessions[k]]
  /\ task' = [task EXCEPT ![n] = [s \in Sids |-> NoTask]]
  /\ nextSid' = [nextSid EXCEPT ![n] = 1]
  /\ UNCHANGED <<toServer, inbox, acked>>

-----------------------------------------------------------------------------
(* handle_message.                                                         *)

\* Mutant: the session id is read and not advanced.
OpenSameSid(k) ==
  /\ Handles(k, "open")
  /\ LET n == ConnNode[k] s == nextSid[n] f == Head(toAgent[k]) IN
     /\ task' = [task EXCEPT ![n][s] = NewTask(k, f)]
     /\ sessions' = [sessions EXCEPT ![k] = @ \cup {<<f.cid, s>>}]
  /\ UNCHANGED <<link, toServer, inbox, agentTask, acked, nextSid>>

\* OpenTunnel with credentials: start_ssh_tunnel, start_sftp_tunnel.
OpenSession(k) ==
  /\ Handles(k, "open")
  /\ LET n == ConnNode[k] s == nextSid[n] f == Head(toAgent[k]) IN
     /\ s \in Sids
     /\ nextSid' = [nextSid EXCEPT ![n] = s + 1]
     /\ task' = [task EXCEPT ![n][s] = NewTask(k, f)]
     /\ sessions' = [sessions EXCEPT ![k] = @ \cup {<<f.cid, s>>}]
  /\ UNCHANGED <<link, toServer, inbox, agentTask, acked>>

\* OpenTunnel that ensure_credentials turns down.
ensure_credentials(k) ==
  /\ Handles(k, "open")
  /\ LET f == Head(toAgent[k]) IN send_frame_data(k, NodeFrame("refused", f.cid, 0, f.msg))
  /\ UNCHANGED <<link, inbox, agentVars>>

HandleHeartbeatAck(k) ==
  /\ Handles(k, "ack")
  /\ acked' = [acked EXCEPT ![k] = TRUE]
  /\ UNCHANGED <<link, toServer, inbox, agentTask, sessions, task, nextSid>>

\* ConnectionDisconnect.
close_tunnels_for_cid(k) ==
  /\ Handles(k, "disconnect")
  /\ LET n == ConnNode[k]
         keys == {p \in sessions[k] : p[1] = Head(toAgent[k]).cid}
     IN /\ sessions' = [sessions EXCEPT ![k] = @ \ keys]
        /\ task' = [task EXCEPT ![n] = Stopped(n, keys)]
  /\ UNCHANGED <<link, toServer, inbox, agentTask, acked, nextSid>>

\* Mutant: the handle is looked up by session id alone.
FeedBySid(k) ==
  /\ Handles(k, "request")
  /\ LET n == ConnNode[k] f == Head(toAgent[k]) s == f.sid IN
     task' \in {task} \cup
       (IF (\E p \in sessions[k] : p[2] = s) /\ task[n][s].pc # "done"
        THEN {[task EXCEPT ![n][s].fed = @ \cup {f.cid}]} ELSE {})
  /\ UNCHANGED <<link, toServer, inbox, agentTask, acked, sessions, nextSid>>

\* TunnelData, SSHWindowResize and SFTP* requests: send_ssh_tunnel_data,
\* send_ssh_forward_resize, send_sftp_*.  The handle is looked up by
\* (cid, sid) and the request enters the session's queue, unless there is no
\* handle, the task has ended, or the request is for the other protocol.
FeedSession(k) ==
  /\ Handles(k, "request")
  /\ LET n == ConnNode[k] f == Head(toAgent[k]) s == f.sid IN
     task' \in {task} \cup
       (IF <<f.cid, s>> \in sessions[k] /\ task[n][s].pc # "done"
        THEN {[task EXCEPT ![n][s].fed = @ \cup {f.cid}]} ELSE {})
  /\ UNCHANGED <<link, toServer, inbox, agentTask, acked, sessions, nextSid>>

-----------------------------------------------------------------------------
(* Session tasks.                                                          *)

At(n, s, pc, protos) == task[n][s].pc = pc /\ task[n][s].proto \in protos

\* A session's frame goes out by the connection it was opened on.
Emit(n, s, type) ==
  LET t == task[n][s] IN send_frame_data(t.conn, NodeFrame(type, t.cid, s, t.msg))

\* A task that ends drops its queue and its stop receiver.
SessionGoes(n, s, pc) ==
  /\ task' = [task EXCEPT ![n][s] =
       IF pc = "done" THEN [@ EXCEPT !.pc = pc, !.stop = FALSE, !.fed = {}, !.outs = 0]
       ELSE [@ EXCEPT !.pc = pc]]
  /\ UNCHANGED <<link, toAgent, inbox, agentTask, acked, sessions, nextSid>>

\* SSH: TunnelOpened after client, channel, pty and shell are there.
SshConnected(n, s) ==
  /\ At(n, s, "spawned", {"SSH"})
  /\ Emit(n, s, "opened")
  /\ SessionGoes(n, s, "open")

\* SFTP: TunnelOpened first, then the connection.
SftpAnnounced(n, s) ==
  /\ At(n, s, "spawned", {"SFTP"})
  /\ Emit(n, s, "opened")
  /\ SessionGoes(n, s, "connecting")

SftpConnected(n, s) ==
  /\ At(n, s, "connecting", {"SFTP"})
  /\ SessionGoes(n, s, "open")
  /\ UNCHANGED toServer

\* Err((SessionId(sid), err)): an Error frame and no TunnelClosed.
ConnectFails(n, s) ==
  /\ At(n, s, "spawned", {"SSH"}) \/ At(n, s, "connecting", {"SFTP"})
  /\ Emit(n, s, "error")
  /\ SessionGoes(n, s, "done")

\* tx.send(..).await of the SFTP actions waits for room in the queue.
OutRoom(k) == link[k] = "up" => Len(toServer[k]) < OutCap

\* Shell output, lost if the queue is full, or the response to an SFTP request.
SessionOutput(n, s) ==
  /\ At(n, s, "open", Protocols)
  /\ task[n][s].outs < MaxOut
  /\ task[n][s].proto = "SFTP" => task[n][s].fed # {} /\ OutRoom(task[n][s].conn)
  /\ Emit(n, s, "data")
  /\ task' = [task EXCEPT ![n][s].outs = @ + 1]
  /\ UNCHANGED <<link, toAgent, inbox, agentTask, acked, sessions, nextSid>>

\* The stop signal; only the command loop polls it.
SessionStops(n, s) ==
  /\ At(n, s, "open", Protocols)
  /\ task[n][s].stop
  /\ SessionGoes(n, s, "closing")
  /\ UNCHANGED toServer

\* SSH: eof, exit status, close, inactivity or a failed write ends the loop.
ShellEnds(n, s) ==
  /\ At(n, s, "open", {"SSH"})
  /\ SessionGoes(n, s, "closing")
  /\ UNCHANGED toServer

\* client.disconnect succeeds: TunnelClosed.
SessionClosed(n, s) ==
  /\ At(n, s, "closing", Protocols)
  /\ Emit(n, s, "closed")
  /\ SessionGoes(n, s, "done")

\* It fails: an Error frame and no TunnelClosed.
DisconnectFails(n, s) ==
  /\ At(n, s, "closing", Protocols)
  /\ Emit(n, s, "error")
  /\ SessionGoes(n, s, "done")
=============================================================================
