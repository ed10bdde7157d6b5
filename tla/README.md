# Phirepass: TLA+ models and proofs

Formal models of the Phirepass remote-access relay (`src/`), checked with TLC
on small instances and, for the properties that matter most, proved with TLAPS
for every value of the constants. `PROJECT.json` lists the runs, the source
lines behind every definition, the hazards and the theorems.

## The system

| part | source | what it keeps | modelled in |
|---|---|---|---|
| server, node sockets | `server/src/node.rs` | `nodes`, `tunnel_sessions` | `Server`; Redis writes in `Presence` |
| server, web sockets | `server/src/web.rs` | `connections` | `Server`; Redis writes in `Presence` |
| server, registries | `server/src/http.rs` | the three DashMaps of `AppState` | `Server` |
| server, periodic tasks | `server/src/tasks.rs` | remove peers silent for 120 s, refresh presence | `Server` (cleanup), `Presence` (cleanup and refresh) |
| server, node authentication | `server/src/node_auth.rs`, `node.rs:51-192,577-780`, `db/postgres.rs` | claims, challenges, JWTs | `NodeAuth` |
| server, presence | `server/src/db/redis.rs` | Redis keys with a time to live | `Presence` |
| agent, connection | `agent/src/ws.rs`, `session.rs`, `common.rs` | `sessions`, outbound queue, `SESSION_ID` | `Agent` |
| agent, SSH sessions | `agent/src/ssh/` | one task per session | `Agent` |
| agent, SFTP sessions | `agent/src/sftp/connection.rs` | one task per session | `Agent` |
| agent, SFTP transfers | `agent/src/sftp/actions/` | `uploads`, `downloads`, temporary files | `Upload`, `Download` |
| agent, login and identity | `agent/src/agent.rs`, `creds.rs` | key pair, `node_id` | `NodeAuth`; redial in `Agent`, `Presence` |
| relay | `relay/src/` | nothing; picks a server by presence | `Presence` (the choice) |
| browser client | `channel/` | tunnel and transfer state | transfers in `Upload`, `Download` |
| frame protocol | `common/src/protocol/` | frame kinds, byte layout | kinds in `Wire` |
| environment, statistics, start-up | `common/src/*.rs`, `server/src/{server,env,cli,stun}.rs` | configuration | not modelled |

A web client opens a tunnel to a node: its `handle_web_socket` task forwards
`OpenTunnel` through the channel of the node's registered connection. The
agent's reader spawns a session task and files its handle under `(cid, sid)`;
`sid` comes from a counter of the process. The session announces itself with
`TunnelOpened`, and the server's `handle_node_socket` task enters
`(node, sid) -> cid` in `tunnel_sessions`. From then on the client's requests
are authorised and the agent's frames are routed by that table. All server
tasks run concurrently on the shared maps.

Before that an agent has to be let in. `login` claims a node for its user's
token and saves the key pair; for every connection the agent's loop asks for a
challenge, signs it, gets a JWT and dials. A browser has to find the server
that holds the agent's socket: servers write the node's key to Redis, and the
relay reads it.

## Modules

- **`Wire`**: links, frames and queues. A link is one agent connection. Its
  mpsc channel, write task and TCP stream are one FIFO queue per direction.
  Payloads are reduced to the client they belong to, which is what the
  isolation properties tell apart; nothing routes by it unless the code's frame
  carries it. `send_frame_data` is `try_send`, so it loses frames.
- **`Server`**: registries and tasks. A handler is two actions where the code
  holds a looked-up value across an await: a node handler changes or reads the
  table, then awaits the client's channel (`pend`); a web handler clones a
  node's sender, then awaits it (`forward`). Where the DashMap guard is held
  across the await the step is atomic. `disconnect_node` is four actions:
  remove, snapshot, close each, finish.
- **`Agent`**: connections, reader, heartbeat, session map and session tasks.
  `connect()` returning drops its JoinHandles, which detaches the reader:
  `agentTask = "detached"`.
- **`TunnelRelay`**: composes the two with the faults (broken links, lapsed
  heartbeats, heartbeat timeouts, restarts of the agent process) and states
  the properties.
- **`TunnelService`**: what a client is promised about a tunnel. `TunnelRelay`
  instantiates it with a mapping from the frames in the clients' channels.
- **`Upload`**: `uploadFile` and `deleteFile` of the browser, the session tasks
  that run `start_upload`, `upload_file_chunk` and `delete_file`, the map they
  share with the reader and the cleanup task, and the files (a temporary and a
  final name per path, each naming a file to which chunks are appended). A
  handler is cut where it waits for the SFTP server or lets go of the map. The
  loops "collect the keys, then remove each" are two kinds of step (`sweep`),
  because entries change in between. The guard of `get_mut` is `Guarded`: it
  locks out everybody who needs the entry, the task that holds it included.
- **`Download`**: the same for `downloadFile`, `start_download` and
  `download_file_chunk`, with a file that another program appends to or
  truncates.
- **`NodeAuth`**: the tables `nodes` and `auth_challenges`, the identity file of
  one host, login processes, the agent's loop and the handlers of
  `verify_auth_challenge`. An action is one SQL statement with the code up to
  the next await; `claim_node` is a check and an upsert, `verify_auth_challenge`
  a lookup, a read, a delete and the grant. An agent that gives up does not take
  its statement back: the upsert of a challenge may still arrive (`LateStore`),
  and the network may deliver a verification twice (`RepeatVerify`). A key pair
  is a number and a signature names its key. Revocation is done outside this
  repository (`Revoke`), and so is the deletion of expired challenges, a
  `pg_cron` job (`DeleteExpired`).
- **`Presence`**: the Redis key of one node and those of web clients, the two
  registries and the tasks of several servers that write them. One node is
  enough, because keys and entries of different nodes never meet. HSET and
  EXPIRE are two steps, and a write may stop in between; a failed HSET may or
  may not have been carried out. A guard held over the awaits (`Guarded`,
  `Refreshing`) locks the entry, and an iteration over the map waits for it.
  The agent has at most one socket it is on (`agent`); the server may still be
  serving older ones. The relay is `get_user_server_by_node_id`: it keeps no
  state, and SCAN followed by HGET has the outcome of the HGET.
- **`MCTunnelRelay`, `MCUpload`, `MCDownload`, `MCNodeAuth`, `MCPresence`**:
  constants for TLC.
- **`IsolationProofs`, `OpeningProofs`, `ServiceProofs`** (each extends the one
  before it: the tunnels), **`UploadProofs`**, **`DownloadProofs`** and
  **`SavedProofs`** (downloads), **`AuthProofs`** and **`PresenceProofs`**:
  theorems.

## Runs

`CHECK_DEADLOCK FALSE` because every instance stops: connection names, client
ids and transfers are used once, as in the code, and there are finitely many of
them.

| run | properties | instance |
|---|---|---|
| RelayIsolation | TypeOK, OutputIsolation, OpenedBeforeData, TunnelKept | 2 clients, 2 SSH sessions, queues of 2 |
| RelayRestart | InputIsolation | 2 clients, 2 connections, 1 agent restart |
| RelayCleanup | CleanupComplete, ImplementsService | 1 client, 2 SFTP sessions, 1 break |
| RelayRelease | HandleHeld, SessionsReleased, UnregisteredIsNoticed | 1 client, 2 connections, one break, lapse or timeout, channels of 1 |
| UploadContent | UploadTypeOK, ChunksInOrder, UploadExact, FinalIsWhole | 2 clients, 2 transfers of 2 chunks to 1 path, failing writes |
| UploadReclaim | UploadsReclaimed | 1 client, transfers of 1 and 2 chunks to 2 paths |
| DownloadTransfer | DownloadTypeOK, DownloadExact, DownloadsReclaimed | 1 download of 0 to 5 bytes, chunks of 2 bytes, failing reads |
| NodeAuth | AuthTypeOK, LoginOwned, OneTime, RevokedStaysOut, AgentGetsIn | 2 logins of 2 users, 2 keys, 2 verification handlers, 4 challenges, 1 fault |
| Presence | PresenceTypeOK, ExpiryPending, ClientForgotten, RouteSettles, OfflineForgotten | 2 servers, 2 sockets, 1 web client, 1 fault |

Bounds. Two clients and two sessions are the least for a frame to be able to
reach the wrong client; two connections of a node are the least for the old
and the new socket to overlap. Session ids of two nodes may coincide; that is
left to the proof of `OutputIsolated`, which is for any set of nodes. Queues of
1 to 3 stand for 256 and 1024, so that they fill. `MaxOpen`, `MaxRequests` and
`MaxOut` bound what a client or shell does, `MaxFaults` and `MaxRestarts` how
often a fault of each kind strikes and `MaxStrikes` how many strike in all. The symmetry of client ids is used for safety only.
Two chunks are the least with one that is not the last; sizes 0 to 5 with chunks
of 2 have an empty file, exact multiples and remainders. Each path is deleted,
and the file truncated, at most once. With a single
download the clean-up inside `start_download` has nothing to collect; the one
inside `start_upload`, which has the same form, has in UploadReclaim.
In `NodeAuth` two logins are the least for one to change the file under the
other, two handlers the least for two verifications of one challenge; four
challenges are as many as can be held at once, and a challenge nobody holds is
used again, so the loop never runs out. In `Presence` two servers and two
sockets are the least for an old and a new socket to write one key. Deadlines
are not counted: what nobody refreshes expires or lapses sooner or later, and
what somebody refreshes does so only as a fault (delayed writes). The safety
properties of both modules are proved for any number of faults; those of
`Presence` were also model-checked with two.

Scope of the properties. `OutputIsolation`, `OpenedBeforeData` and `TunnelKept`
are stated for nodes whose agent process has not restarted: session ids start
over in a new process, so a late frame of the old one can meet an entry of the
new, and a new session can take over a stale entry.
`CleanupComplete` and `ImplementsService` are checked for one connection of a
node: with overlapping connections a notification that one task is about to
send can come after another task's sweep. `SessionsReleased` excepts sessions
of a connection given up by the heartbeat timeout: its detached reader may
still open sessions, and notices go to the newer connection. `HandleHeld` does
not except them: they are in the map of that reader, which stops them when its
socket breaks.

`OneTime` is about verifications that begin after a challenge was deleted. Two
that overlap may both read it before either deletes it, and both are granted;
only the holder of the key can have signed them. `LoginOwned` is about the file
on the host: a running agent keeps the identity it has loaded until its
connection ends. `RevokedStaysOut` is about verifications and sockets that begin
after the revocation; a connection that is up is not cut. `RouteSettles` is
stated for lookups without a server id: the relay takes one for the name of a
hash, and no server is saved under such a name. `ExpiryPending` and
`OfflineForgotten` except keys whose writer was lost between HSET and EXPIRE:
these stay until somebody writes or deletes them. A web client removed by the
cleanup is not deleted from Redis by its own disconnect; its key expires.

`UploadExact` and `FinalIsWhole` are stated for a transfer that is the only one
to its path: the temporary file is opened with `APPEND` and shared by all.
`UploadExact` is about the end of the call and a path nobody deletes,
`FinalIsWhole` about every state and deleted paths too. `UploadExact` is stated for files with a chunk: for an empty one the code leaves only
the temporary file. `UploadsReclaimed` takes `WriteErrors = FALSE` because of
FailedWrite. `DownloadExact` excludes truncated files and takes it that a read
returns a whole chunk unless the file ends, as SFTP servers do for regular
files; a shorter one would be taken for the whole chunk.

### Where the code and its documentation disagree

Three runs are expected to be violated; each states what a comment or the
README says.

- **LapsedNodeCleanup**: once `cleanup_dangling_connections` has removed a
  node, `disconnect_node` finds no entry and skips closing its tunnels.
- **FailedOpen**: an SSH connection error is addressed to a session id the
  server does not know yet and is dropped; the request is never answered.
- **FailedWrite**: after a failed write of a chunk that is not the last,
  `uploads.remove` waits for the guard its own task holds.

More behaviours of the code are in the models without a run of their own.
`disconnect_node` removes whatever registration the node has, also that of a
newer connection, so a connected agent may be missing from `GET /api/nodes`
until its next heartbeat fails and it reconnects; that it does is what
`UnregisteredIsNoticed` and `RouteSettles` show.
After a heartbeat timeout `connect()` returns but its reader is detached, not
cancelled, and still opens sessions (`agentTask = "detached"`). A failing SSH
disconnect suppresses `TunnelClosed`, and the tunnel entry stays until the
connection ends (`DisconnectFails`). A transfer to a path for which another was
given up ends with the chunks of both in the file, because `OpenTemp` opens the
old temporary file.

### Fairness

`FairSpec` assumes that every spawned task is polled (weak fairness of the
agent's reader, heartbeat and session tasks) and that a sender waiting on a
tokio mpsc channel is served in order, so it cannot be overtaken for ever
(strong fairness of the node tasks, which may wait for room to acknowledge a
heartbeat, and of the two sends of web tasks). Redis, Postgres and sshd are
assumed to answer, with success or failure. Nothing is assumed of clients,
shells, clocks and the network: they may do nothing, or fail within the bounds.
`SessionsReleased` and `UnregisteredIsNoticed` take `StatsAvailable = TRUE`;
an agent that cannot read statistics sends no heartbeats.

In `Upload` and `Download` weak fairness stands for: tasks are polled, the SFTP
server answers, the cleanup interval ticks and 15 minutes pass. The browser may
stop at any point.

In `NodeAuth` the agent's loop goes on and the handlers run (weak fairness):
`start_ws_connection` never ends by itself, and Postgres answers. In `Presence`
socket tasks, client tasks and the refresh task are polled, Redis answers, with
success or failure, and drops keys past their time to live, silence reaches 120
seconds, and an agent that is not switched off notices a dead socket and dials
again. Faults, logins, revocation, switching off and clients have no fairness.

## Proofs

TLAPS proves, for all constants that satisfy `WireAssumption`,
`AgentAssumption`, `FaultAssumption`, `UploadAssumption`, `DownloadAssumption`,
`AuthAssumption` and `PresenceAssumption`:

- **`TypeCorrect`**: `Spec => []TypeOK`. The inductive invariant adds
  `TaskInv`: a session task that is not free has a real client, a connection of
  its own node and an id already handed out, so that what it emits is a frame.
- **`InputIsolated`**: `Spec => []InputIsolation`. `KeyInv` says that a key
  `(cid, sid)` in a session map has an id already handed out and the client of
  the task with that id. A
  request is fed by key, and a fresh session starts with no input; a restart
  clears both maps and tasks. What the server's table says is not needed: the
  agent's key alone keeps inputs apart, also when the table is stale.
- **`OutputIsolated`**: `Spec => []OutputIsolation`. `Owner(n, s, c)` says that
  session id `s` of node `n` was issued, to client `c`. While the node has not
  restarted an id is issued once, so ownership is stable (`OwnerKept`). `TableInv`
  says that table entries name owners, `RouteInv` that queued frames and sweeps
  do and that a pending notification goes to the client its content is from. A frame routed by the table then goes to the owner
  of its session, who is also the client it came from.
- **`TunnelsKept`**: `Spec => TunnelKept`, an action property. The entry before
  a step names an owner of the session (`TableInv`), so does the entry after it
  (`TableInv'`), and ownership is stable, so if both are there they are the same.
- **`HandlesHeld`**: `Spec => []HandleHeld`, which is inductive together with
  the type invariant. `StoppedHeld` covers all the places that take handles out
  of a map: each tells the sessions to stop in the same step, and a reader that
  ends has emptied its map. A session is opened with its handle filed by a
  reader that runs, whether or not `connect()` still waits for it. A restart of
  the process leaves no task.
- **`OpenedFirst`**: `Spec => []OpenedBeforeData`. `HomeInv` says that the frames
  of a session go out by the connection it was opened on, so the task that
  enters the session in the table is the one that handles its later frames.
  `AnnounceInv` says that a session in the table has been announced to its
  client, or that this very task has the announcement pending, of which it has
  at most one at a time. `KnownInv` says that an owner has connected: a client
  that is gone is not told, and does not come back under the same id.
- **`CleanedUp`**: `Spec /\ []TakeTurns /\ []NoNodeLapses => []CleanupComplete`.
  `CleanInv` says that a reading task finds its own registration, and that each
  entry of the table has a task that will sweep it. The two hypotheses are
  needed. `NoNodeLapses` excludes what LapsedNodeCleanup shows. `TakeTurns` says
  that a new connection of a node registers after the old one's task has cleaned
  up: otherwise the first of two tasks to end removes the registration of the
  other, which then finds none. RelayCleanup, with a single connection, is an
  instance.
- **`ServiceImplemented`**: `Spec /\ []TakeTurns /\ []NoRestarts =>
  ImplementsService`. Initial states map to initial states, and a step maps to a
  step of `TunnelService` for the tunnel it is about, or to none. Only
  `notify_client_by_cid` changes what clients have received, so the argument is
  about what is pending: `FirstInv` says that nothing is heard of a session
  before its `TunnelOpened`, which is sent once; `QuietInv` that after a closing
  notice, sent or pending, no output of the session is pending and the table has
  no entry for more. With overlapping connections the second part fails, and
  after a restart the first, because session ids start over.
- **`UploadTypeCorrect`**: `Spec => []UploadTypeOK`. `Shape` adds that a task
  at work has a command of the kind its state is for.
- **`ChunksOrdered`**: `Spec => []ChunksInOrder`. `Tokens` says that at most one
  command or answer of a transfer is under way, in the queue of its session, in
  its task or on its way back; `Progress` that it is about the chunk the client
  waits for, whose predecessors and no others are in the files; `OneFile` that
  the entry of the map, the file in the task's hands and the file with the
  chunks are the same. A write therefore appends the next chunk of the transfer
  behind all earlier ones. The lemmas on transfers show what a step that sends,
  takes or answers a command of a transfer does to this, and that a step that is
  not about a transfer can only take from it (`Kept`).
- **`UploadStored`**: `Spec => []UploadExact`. On top of what `ChunksOrdered` needs,
  `CommandInv` and `LastInv` say that a chunk is sent only up to the last, and
  that the rename is reached with that chunk alone, after its entry was removed;
  `DoneInv` that nothing of a finished call is under way; `FilesHome` that a file
  at hand was created by a transfer to the same path. For a transfer that is alone
  on its path every such file is then its own, so it writes chunk after chunk to
  one file (`AloneWrites`) and what it renames is whole. `AloneInv` says that its
  file is at any time a beginning of the content, all of it once the final name
  shows it or the last ACK is on its way, and under the final name by then if
  nobody asked to delete it. The steps of a session task are used
  through what they do to its command (`SessionMoves`) and to everything else
  (`SessionEffects`), all other steps through `Calls`.
- **`FinalWhole`**: `Spec => []FinalIsWhole`, from the same invariant. The rename
  is reached only with the last chunk written (`LastInv`), so a failed write or
  a call given up leaves the final name as it was, and a deletion takes it away
  whole.
- **`DownloadTypeCorrect`**: `Spec => []DownloadTypeOK`. That chunks are received
  only of indices asked for needs `OneAtATime`: at most one command or answer of
  a call is under way, and it is about the chunk asked for last.
- **`DownloadSavesFile`**: `Spec => []DownloadExact`. `Pieces` says that every
  chunk that was read is, where it starts, part of the file as it is now, and
  whole unless it reaches the announced size; this is kept because a file that
  nobody truncates only grows. `Gathered`, in `OneAtATime`, says that a finished
  call has the chunks 0 to `TotalChunks(total) - 1`. The rest is about the
  operators: sorting these indices gives them in order (`SortedInterval`), all
  but the last chunk are whole, and the concatenation is the beginning of the
  file (`Concatenated`). Where this takes an induction it is done by a least
  counterexample (`LeastNat`, from the well-foundedness of `<`), and the function
  inside `FlattenSeq` is identified by giving one that satisfies its equation
  (`FlattenDef`) and showing that there is no other (`FlattenIs`).
- **`AuthTypeCorrect`**, **`LoginsOwn`**: `OwnerInv` says why `claim_node` may
  check and write in two statements: a key without a row is in the hands of the
  login that has just made it, so nobody else can claim it in between.
- **`ChallengeOneTime`**: `ChallengeInv` says that the agent sees a challenge
  only after it was stored, so no upsert of it, in time or late, can follow the
  verification that deletes it. A challenge nobody holds may be drawn again and
  then counts as new; the code draws 32 random bytes.
- **`RevokedOut`**: `RevokedInv`. Nothing takes the mark back, and a
  verification and a socket each look once between their beginning and their
  success.
- **`PresenceTypeCorrect`**, **`ClientsForgotten`**: `Refreshes` says that a
  refresh task at work names a registered client of its own server. The guard
  of the iterator keeps `disconnect_web_client` waiting, so no write of the
  refresh follows the DEL.
- **`KeysExpire`**: `NodePending` and `ClientPending` follow every key without a
  time to live to the writer that is about to set it, or to the fault that cut
  the write.

The invariants were model-checked before they were proved. Each proof has one
step per action, or per task where an action leaves the invariant's variables
alone.

Only model-checked: the liveness properties `SessionsReleased`,
`UnregisteredIsNoticed`, `UploadsReclaimed`, `DownloadsReclaimed`, `AgentGetsIn`,
`RouteSettles` and `OfflineForgotten`, which need fairness and `ENABLED` and are
out of the prover's reach. Every invariant and every action property that a
passing run checks is proved.

## Not modelled, and why

- Half-open TCP, seen from the agent: a link is up or both ends find out. The
  server's side is in `Presence` (`GoesDeaf`).
- Capacity of a web client's channel and its write task, and the guards held
  while waiting for them: `notify_client_by_cid` always completes. DashMap
  guards are modelled for the entry they lock and for iterations over the whole
  map; which other entries share a shard depends on hashing.
- Authentication of web clients: it only reads, and a client that fails it is
  never registered. The HTTP heartbeat of a node (`last_seen`) and the server's
  own key in Redis: nothing in this repository reads them.
- Malformed or forbidden frames: for the receiver they are the end of the
  socket, which is modelled.
- `DropFailed` of `Upload` is there, as in the code, and is never enabled: its
  task waits for its own guard (FailedWrite).
- The byte layout of frames, directory listings, terminal sizes, statistics,
  configuration and logging: sequential code without shared state. An SFTP
  server that returns short reads.
- Pingora's proxying, once the relay has named a server, and the terminal in
  the browser.
