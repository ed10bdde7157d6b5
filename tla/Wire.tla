-------------------------------- MODULE Wire --------------------------------
(***************************************************************************)
(* The WebSocket links between the server and its agents, and the frames   *)
(* they carry.  A link is one agent connection (one WebSocketConnection of *)
(* agent/src/ws.rs and the handle_node_socket task it meets on the server).*)
(* In each direction the bounded mpsc channel, the write task and the TCP  *)
(* stream together are one FIFO queue.                                     *)
(*                                                                         *)
(* Payloads are abstracted to the client they belong to: a data or error   *)
(* frame carries in `cid' the client whose session produced its bytes.     *)
(* Nothing routes by that field unless the code's frame has it.            *)
(***************************************************************************)
EXTENDS Naturals, Sequences, FiniteSets

CONSTANTS
  Nodes,      \* node ids (Uuid)
  Cids,       \* web connection ids, a fresh Uuid each (server/src/web.rs:105)
  Conns,      \* names of agent connections, used once each in ascending order
  ConnNode,   \* the node each connection belongs to
  Protocols,  \* the tunnel protocols clients ask for, of "SSH" and "SFTP"
  MaxSid,     \* bound: sessions one agent process opens
  MaxOpen,    \* bound: OpenTunnel requests one web client sends
  MaxRequests, \* bound: session requests one web client sends
  NodeCap,    \* capacity of the server's channel to a node (256 in the code)
  OutCap,     \* capacity of the agent's outbound queue (1024 in the code)
  None

ASSUME WireAssumption ==
  /\ Conns \subseteq Nat
  /\ ConnNode \in [Conns -> Nodes]
  /\ Protocols \subseteq {"SSH", "SFTP"}
  /\ MaxSid \in Nat /\ MaxOpen \in Nat /\ MaxRequests \in Nat
  /\ NodeCap \in Nat \ {0} /\ OutCap \in Nat \ {0}
  /\ None \notin Cids /\ None \notin Conns
  /\ Nodes \cap Cids = {}

Sids == 1 .. MaxSid
Msgs == 0 .. MaxOpen            \* msg_id; 0 is the code's None

\* Frames the server sends to an agent: AuthResponse, HeartbeatAck, OpenTunnel,
\* any session request (TunnelData, SSHWindowResize, SFTP*), ConnectionDisconnect.
AgentFrame ==
  [type : {"auth", "ack"}, cid : {None}, sid : {0}, msg : {0}, proto : {None}]
  \cup [type : {"open"}, cid : Cids, sid : {0}, msg : Msgs, proto : Protocols]
  \cup [type : {"request"}, cid : Cids, sid : Sids, msg : {0}, proto : {None}]
  \cup [type : {"disconnect"}, cid : Cids, sid : {0}, msg : {0}, proto : {None}]

AuthResponse == [type |-> "auth", cid |-> None, sid |-> 0, msg |-> 0, proto |-> None]
HeartbeatAck == [type |-> "ack", cid |-> None, sid |-> 0, msg |-> 0, proto |-> None]
OpenTunnel(c, p, m) == [type |-> "open", cid |-> c, sid |-> 0, msg |-> m, proto |-> p]
SessionRequest(c, s) == [type |-> "request", cid |-> c, sid |-> s, msg |-> 0, proto |-> None]
ConnectionDisconnect(c) ==
  [type |-> "disconnect", cid |-> c, sid |-> 0, msg |-> 0, proto |-> None]

\* Frames an agent sends to the server: Heartbeat, TunnelOpened, TunnelClosed,
\* a WebFrame addressed by SessionId (data, error) and one by ConnectionId
\* (refused: RequiresUsername, RequiresPassword).
ServerFrame ==
  [type : {"heartbeat"}, cid : {None}, sid : {0}, msg : {0}]
  \cup [type : {"opened", "closed", "data", "error"}, cid : Cids, sid : Sids, msg : Msgs]
  \cup [type : {"refused"}, cid : Cids, sid : {0}, msg : Msgs]

NodeFrame(t, c, s, m) == [type |-> t, cid |-> c, sid |-> s, msg |-> m]
Heartbeat == NodeFrame("heartbeat", None, 0, 0)

\* Frames the server puts on a web client's channel; `from' is the client whose
\* session the content belongs to.
ClientFrame ==
  [type : {"opened", "closed", "data", "error"}, node : Nodes,
   sid : Sids \cup {0}, from : Cids, msg : Msgs]

\* Mutant: sid and msg_id, both u32, exchanged.
WebFrameSwapped(t, n, s, c, m) == [type |-> t, node |-> n, sid |-> m, from |-> c, msg |-> s]

WebFrame(t, n, s, c, m) == [type |-> t, node |-> n, sid |-> s, from |-> c, msg |-> m]

VARIABLES
  link,       \* link[k]: "none", "up", "down"
  toAgent,    \* toAgent[k]: frames on their way from the server to the agent
  toServer,   \* toServer[k]: frames on their way from the agent to the server
  inbox       \* inbox[c]: the set of frames put on client c's channel so far

wireVars == <<link, toAgent, toServer, inbox>>

WireTypeOK ==
  /\ link \in [Conns -> {"none", "up", "down"}]
  /\ toAgent \in [Conns -> Seq(AgentFrame)]
  /\ toServer \in [Conns -> Seq(ServerFrame)]
  /\ inbox \in [Cids -> SUBSET ClientFrame]

WireInit ==
  /\ link = [k \in Conns |-> "none"]
  /\ toAgent = [k \in Conns |-> <<>>]
  /\ toServer = [k \in Conns |-> <<>>]
  /\ inbox = [c \in Cids |-> {}]

\* send_frame_data: try_send, so a full queue or a dead connection silently
\* loses the frame.
send_frame_data(k, f) ==
  toServer' = IF link[k] = "up" /\ Len(toServer[k]) < OutCap
              THEN [toServer EXCEPT ![k] = Append(@, f)]
              ELSE toServer

\* The TCP connection breaks.  What is queued may still be read, up to any
\* point: a reader that finds its link down may read on or see the end.
LinkFails(k) ==
  /\ link[k] = "up"
  /\ link' = [link EXCEPT ![k] = "down"]
  /\ UNCHANGED <<toAgent, toServer, inbox>>
=============================================================================
