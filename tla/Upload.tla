------------------------------- MODULE Upload -------------------------------
(***************************************************************************)
(* SFTP uploads over one agent connection: uploadFile of the browser       *)
(* (channel/public/sftp.js), the SFTP session tasks that run start_upload, *)
(* upload_file_chunk and delete_file (agent/src/sftp/actions), the map     *)
(* `uploads' they share with the reader and the cleanup task, and the      *)
(* files on the SFTP server.                                               *)
(*                                                                         *)
(* A transfer is one call of uploadFile.  generate_id draws a fresh upload *)
(* id for its start, so an upload is named by its transfer; a file is      *)
(* named by the transfer whose start created it, and a chunk is            *)
(* <<transfer, index>>.  Error frames are left out: uploadFile ignores     *)
(* them and waits for its timeout.                                         *)
(***************************************************************************)
EXTENDS Naturals, Sequences, FiniteSets

CONSTANTS
  Transfers,    \* calls of uploadFile
  Sessions,     \* SFTP session tasks
  Clients,      \* cids
  Paths,        \* final paths; each has its own temporary path
  SessionOf,    \* the session a transfer runs over
  ClientOf,     \* the client of a session
  PathOf,       \* the path a transfer writes to
  ChunksOf,     \* total_chunks of a transfer
  WriteErrors,  \* whether the SFTP server fails writes
  Nil

ASSUME UploadAssumption ==
  /\ SessionOf \in [Transfers -> Sessions]
  /\ ClientOf \in [Sessions -> Clients]
  /\ PathOf \in [Transfers -> Paths]
  /\ ChunksOf \in [Transfers -> Nat]
  /\ WriteErrors \in BOOLEAN
  /\ Nil \notin Transfers /\ Nil \notin Paths

Chunks == Transfers \X Nat

\* SFTPCommand: UploadStart, Upload (a chunk) and Delete (of a path).
Command == [op : {"start"}, t : Transfers, i : {0}, path : {Nil}]
           \cup [op : {"chunk"}, t : Transfers, i : Nat, path : {Nil}]
           \cup [op : {"delete"}, t : {Nil}, i : {0}, path : Paths]
Start(t) == [op |-> "start", t |-> t, i |-> 0, path |-> Nil]
Chunk(t, i) == [op |-> "chunk", t |-> t, i |-> i, path |-> Nil]
Delete(p) == [op |-> "delete", t |-> Nil, i |-> 0, path |-> p]

VARIABLES
  call,      \* call[t]: control state of uploadFile
  next,      \* next[t]: the chunk uploadFile awaits the ACK of
  queue,     \* queue[s]: commands on their way to session s
  replies,   \* responses on their way, each named by the command it answers
  work,      \* work[s]: what session s is doing, and its command
  uploads,   \* uploads[t]: the open file of the entry, or Nil: no entry
  stale,     \* entries with last_updated older than TIMEOUT
  temp,      \* temp[p]: the file at p's temporary path, or Nil
  final,     \* final[p]: the file at p, or Nil
  data,      \* data[x]: the chunks appended to file x
  sweep,     \* sweep[k]: keys_to_remove of the task k that removes entries
  gone,      \* clients whose ConnectionDisconnect has been received
  closing,   \* those whose uploads are still to be collected
  deleted    \* paths some client has asked to delete

clientVars == <<call, next, gone, closing, deleted>>
fileVars == <<temp, final, data>>
vars == <<clientVars, queue, replies, work, uploads, stale, sweep, fileVars>>

\* Who runs a "collect the keys, then remove each" loop over `uploads':
\* start_upload, the cleanup task and the reader.
Sweepers == Sessions \cup {"cleanup", "reader"}

Idle == [pc |-> "idle", cmd |-> Nil, file |-> Nil]

\* The type invariant: in particular a session task has a file in hand exactly
\* where start_upload and upload_file_chunk have one.
UploadTypeOK ==
  /\ call \in [Transfers -> {"idle", "starting", "sending", "done", "failed"}]
  /\ next \in [Transfers -> Nat]
  /\ queue \in [Sessions -> Seq(Command)]
  /\ replies \subseteq Command
  /\ work \in [Sessions -> [pc : {"idle", "start", "opened", "last", "final", "rename", "more",
                                  "writing", "failed", "notFound", "deleting", "closed"},
                            cmd : Command \cup {Nil}, file : Transfers \cup {Nil}]]
  /\ \A s \in Sessions :
       work[s].file # Nil <=> work[s].pc \in {"opened", "final", "rename", "writing", "failed"}
  /\ uploads \in [Transfers -> Transfers \cup {Nil}]
  /\ stale \subseteq Transfers
  /\ sweep \in [Sweepers -> SUBSET Transfers]
  /\ temp \in [Paths -> Transfers \cup {Nil}]
  /\ final \in [Paths -> Transfers \cup {Nil}]
  /\ data \in [Transfers -> Seq(Chunks)]
  /\ gone \subseteq Clients /\ closing \subseteq Clients
  /\ deleted \subseteq Paths

Init ==
  /\ call = [t \in Transfers |-> "idle"]
  /\ next = [t \in Transfers |-> 0]
  /\ queue = [s \in Sessions |-> <<>>]
  /\ replies = {}
  /\ work = [s \in Sessions |-> Idle]
  /\ uploads = [t \in Transfers |-> Nil]
  /\ stale = {}
  /\ sweep = [k \in Sweepers |-> {}]
  /\ temp = [p \in Paths |-> Nil]
  /\ final = [p \in Paths |-> Nil]
  /\ data = [t \in Transfers |-> <<>>]
  /\ gone = {} /\ closing = {}
  /\ deleted = {}

-----------------------------------------------------------------------------
(* The browser.                                                            *)

Owner(t) == ClientOf[SessionOf[t]]
Submit(s, cmd) == queue' = [queue EXCEPT ![s] = Append(@, cmd)]

uploadFile(t) ==
  /\ call[t] = "idle" /\ Owner(t) \notin gone
  /\ call' = [call EXCEPT ![t] = "starting"]
  /\ Submit(SessionOf[t], Start(t))
  /\ UNCHANGED <<next, gone, closing, deleted, replies, work, uploads, stale, sweep, fileVars>>

\* The loop of uploadFile: send chunk i, or leave the loop.
SendOrFinish(t, i) ==
  \/ /\ i < ChunksOf[t]
     /\ call' = [call EXCEPT ![t] = "sending"]
     /\ Submit(SessionOf[t], Chunk(t, i))
  \/ /\ i >= ChunksOf[t]
     /\ call' = [call EXCEPT ![t] = "done"]
     /\ queue' = queue

handleUploadStartResponse(t) ==
  /\ call[t] = "starting" /\ Start(t) \in replies /\ Owner(t) \notin gone
  /\ replies' = replies \ {Start(t)}
  /\ SendOrFinish(t, 0)
  /\ UNCHANGED <<next, gone, closing, deleted, work, uploads, stale, sweep, fileVars>>

handleUploadChunkAck(t) ==
  /\ call[t] = "sending" /\ Chunk(t, next[t]) \in replies /\ Owner(t) \notin gone
  /\ replies' = replies \ {Chunk(t, next[t])}
  /\ next' = [next EXCEPT ![t] = @ + 1]
  /\ SendOrFinish(t, next[t] + 1)
  /\ UNCHANGED <<gone, closing, deleted, work, uploads, stale, sweep, fileVars>>

\* The 10 s or 30 s timeout; what was sent may still be on its way.
GiveUp(t) ==
  /\ call[t] \in {"starting", "sending"}
  /\ call' = [call EXCEPT ![t] = "failed"]
  /\ UNCHANGED <<next, gone, closing, deleted, queue, replies, work, uploads, stale, sweep, fileVars>>

deleteFile(s, p) ==
  /\ p \notin deleted /\ ClientOf[s] \notin gone
  /\ deleted' = deleted \cup {p}
  /\ Submit(s, Delete(p))
  /\ UNCHANGED <<call, next, gone, closing, replies, work, uploads, stale, sweep, fileVars>>
-----------------------------------------------------------------------------
(* The map `uploads'.  A guard of get_mut locks out whoever needs the      *)
(* entry, or all entries, until it is dropped.                             *)

Guards(r, t) == work[r].pc \in {"writing", "failed"} /\ work[r].cmd.t = t
Guarded(t) == \E r \in Sessions : Guards(r, t)
NoGuards == \A t \in Transfers : ~Guarded(t)

Entries == {t \in Transfers : uploads[t] # Nil}
RemoveEntries(T) ==
  /\ uploads' = [t \in Transfers |-> IF t \in T THEN Nil ELSE uploads[t]]
  /\ stale' = stale \ T

\* One round of the loop over keys_to_remove.
SweepOne(k, t) ==
  /\ t \in sweep[k] /\ ~Guarded(t)
  /\ sweep' = [sweep EXCEPT ![k] = @ \ {t}]
  /\ RemoveEntries({t})
  /\ UNCHANGED <<clientVars, queue, replies, work, fileVars>>

\* An entry goes TIMEOUT (15 minutes) without being written to.
Lapse(t) ==
  /\ uploads[t] # Nil /\ t \notin stale
  /\ stale' = stale \cup {t}
  /\ UNCHANGED <<clientVars, queue, replies, work, uploads, sweep, fileVars>>

\* Mutant: an upload without any chunk is not abandoned.
AbandonedWritten == {t \in stale : data[uploads[t]] # <<>>}

\* cleanup_abandoned_uploads in the periodic task: its first half.
Abandoned == stale
cleanup_abandoned_uploads ==
  /\ sweep["cleanup"] = {} /\ Abandoned # {} /\ NoGuards
  /\ sweep' = [sweep EXCEPT !["cleanup"] = Abandoned]
  /\ UNCHANGED <<clientVars, queue, replies, work, uploads, stale, fileVars>>

\* ConnectionDisconnect: close_tunnels_for_cid signals the sessions ...
ConnectionDisconnect(c) ==
  /\ c \notin gone /\ closing = {} /\ sweep["reader"] = {}
  /\ gone' = gone \cup {c} /\ closing' = {c}
  /\ UNCHANGED <<call, next, deleted, queue, replies, work, uploads, stale, sweep, fileVars>>

\* ... then close_uploads_for_cid collects the client's entries.
close_uploads_for_cid(c) ==
  /\ c \in closing /\ NoGuards
  /\ closing' = {}
  /\ sweep' = [sweep EXCEPT !["reader"] = {t \in Entries : Owner(t) = c}]
  /\ UNCHANGED <<call, next, gone, deleted, queue, replies, work, uploads, stale, fileVars>>

-----------------------------------------------------------------------------
(* The session task: one command at a time.  A step ends where the task    *)
(* waits for the SFTP server or lets go of the map.                        *)

At(s, pc) == work[s].pc = pc
Cmd(s) == work[s].cmd
Goto(s, pc, file) == work' = [work EXCEPT ![s].pc = pc, ![s].file = file]
Done(s) == work' = [work EXCEPT ![s] = Idle]
Reply(s) == replies' = replies \cup {Cmd(s)}

\* The select is biased: a stop signal goes before any command.
Take(s, op, pc) ==
  /\ At(s, "idle") /\ ClientOf[s] \notin gone
  /\ queue[s] # <<>> /\ Head(queue[s]).op = op
  /\ queue' = [queue EXCEPT ![s] = Tail(@)]
  /\ work' = [work EXCEPT ![s] = [pc |-> pc, cmd |-> Head(queue[s]), file |-> Nil]]

SessionStops(s) ==
  /\ At(s, "idle") /\ ClientOf[s] \in gone
  /\ Goto(s, "closed", Nil)
  /\ queue' = [queue EXCEPT ![s] = <<>>]
  /\ UNCHANGED <<replies, uploads, stale, sweep, fileVars>>

\* start_upload: cleanup_abandoned_uploads, open with CREATE | APPEND, insert.
StartUpload(s) ==
  /\ NoGuards
  /\ Take(s, "start", "start")
  /\ sweep' = [sweep EXCEPT ![s] = Abandoned]
  /\ UNCHANGED <<replies, uploads, stale, fileVars>>

OpenTemp(s) ==
  LET t == Cmd(s).t
      p == PathOf[t]
  IN  /\ At(s, "start") /\ sweep[s] = {}
      /\ temp' = [temp EXCEPT ![p] = IF @ = Nil THEN t ELSE @]
      /\ Goto(s, "opened", temp'[p])
      /\ UNCHANGED <<queue, replies, uploads, stale, sweep, final, data>>

OpenFails(s) ==
  /\ At(s, "start") /\ sweep[s] = {}
  /\ Done(s)
  /\ UNCHANGED <<queue, replies, uploads, stale, sweep, fileVars>>

InsertUpload(s) ==
  /\ At(s, "opened")
  /\ uploads' = [uploads EXCEPT ![Cmd(s).t] = work[s].file]
  /\ Reply(s)
  /\ Done(s)
  /\ UNCHANGED <<queue, stale, sweep, fileVars>>

\* Mutant: off by one.
IsLastLate(t, i) == i >= ChunksOf[t]

\* upload_file_chunk: is it the last chunk?  An unknown upload is an error.
IsLast(t, i) == i + 1 >= ChunksOf[t]
CheckChunk(s) ==
  /\ queue[s] # <<>>
  /\ \/ /\ Head(queue[s]).t \in Entries
        /\ ~Guarded(Head(queue[s]).t)
        /\ Take(s, "chunk", IF IsLast(Head(queue[s]).t, Head(queue[s]).i) THEN "last" ELSE "more")
     \/ /\ Head(queue[s]).t \notin Entries
        /\ Take(s, "chunk", "notFound")
  /\ UNCHANGED <<replies, uploads, stale, sweep, fileVars>>

\* The error paths that find no entry.
NotFound(s) ==
  /\ \/ At(s, "notFound")
     \/ (At(s, "last") \/ At(s, "more")) /\ Cmd(s).t \notin Entries
  /\ Done(s)
  /\ UNCHANGED <<queue, replies, uploads, stale, sweep, fileVars>>

AppendChunk(x, cmd) == data' = [data EXCEPT ![x] = Append(@, <<cmd.t, cmd.i>>)]

\* Mutant: the entry is taken to be there still.
TakeLastUnchecked(s) ==
  /\ At(s, "last") /\ ~Guarded(Cmd(s).t)
  /\ Goto(s, "final", uploads[Cmd(s).t])
  /\ RemoveEntries({Cmd(s).t})
  /\ UNCHANGED <<queue, replies, sweep, fileVars>>

\* The last chunk: remove the entry, write, rename, acknowledge.
TakeLast(s) ==
  /\ At(s, "last") /\ Cmd(s).t \in Entries /\ ~Guarded(Cmd(s).t)
  /\ Goto(s, "final", uploads[Cmd(s).t])
  /\ RemoveEntries({Cmd(s).t})
  /\ UNCHANGED <<queue, replies, sweep, fileVars>>

\* Mutant: a failed write of the last chunk does not keep it from renaming.
WriteLastIgnored(s) ==
  /\ At(s, "final")
  /\ AppendChunk(work[s].file, Cmd(s)) \/ (WriteErrors /\ data' = data)
  /\ Goto(s, "rename", work[s].file)
  /\ UNCHANGED <<queue, replies, uploads, stale, sweep, temp, final>>

WriteLast(s) ==
  /\ At(s, "final")
  /\ \/ AppendChunk(work[s].file, Cmd(s)) /\ Goto(s, "rename", work[s].file)
     \/ WriteErrors /\ data' = data /\ Done(s)
  /\ UNCHANGED <<queue, replies, uploads, stale, sweep, temp, final>>

RenameTemp(s) ==
  LET p == PathOf[Cmd(s).t]
  IN  /\ At(s, "rename") /\ temp[p] # Nil
      /\ final' = [final EXCEPT ![p] = temp[p]]
      /\ temp' = [temp EXCEPT ![p] = Nil]
      /\ Reply(s)
      /\ Done(s)
      /\ UNCHANGED <<queue, uploads, stale, sweep, data>>

\* No such file, or a server that does not rename onto an existing one.
RenameFails(s) ==
  /\ At(s, "rename")
  /\ temp[PathOf[Cmd(s).t]] = Nil \/ final[PathOf[Cmd(s).t]] # Nil
  /\ Done(s)
  /\ UNCHANGED <<queue, replies, uploads, stale, sweep, fileVars>>

\* Another chunk: get_mut, and write with the guard held.
LockEntry(s) ==
  /\ At(s, "more") /\ Cmd(s).t \in Entries /\ ~Guarded(Cmd(s).t)
  /\ Goto(s, "writing", uploads[Cmd(s).t])
  /\ UNCHANGED <<queue, replies, uploads, stale, sweep, fileVars>>

WriteChunk(s) ==
  /\ At(s, "writing")
  /\ AppendChunk(work[s].file, Cmd(s))
  /\ stale' = stale \ {Cmd(s).t}
  /\ Reply(s)
  /\ Done(s)
  /\ UNCHANGED <<queue, uploads, sweep, temp, final>>

\* Mutant: a failed write is acknowledged.
WriteFailsAcked(s) ==
  /\ WriteErrors
  /\ At(s, "writing")
  /\ Reply(s)
  /\ Done(s)
  /\ UNCHANGED <<queue, uploads, stale, sweep, fileVars>>

WriteFails(s) ==
  /\ WriteErrors
  /\ At(s, "writing")
  /\ Goto(s, "failed", work[s].file)
  /\ UNCHANGED <<queue, replies, uploads, stale, sweep, fileVars>>

\* uploads.remove(&key) after a failed write, inside the scope of the guard
\* that get_mut returned: it waits for that guard too.
DropFailed(s) ==
  /\ At(s, "failed") /\ ~Guarded(Cmd(s).t)
  /\ RemoveEntries({Cmd(s).t})
  /\ Done(s)
  /\ UNCHANGED <<queue, replies, sweep, fileVars>>

\* delete_file: cancel the client's own uploads to the path, remove the file.
CancelUploads(s) ==
  LET p == Head(queue[s]).path
  IN  /\ NoGuards
      /\ Take(s, "delete", "deleting")
      /\ RemoveEntries({t \in Entries : Owner(t) = ClientOf[s] /\ PathOf[t] = p})
      /\ UNCHANGED <<replies, sweep, fileVars>>

RemoveFile(s) ==
  /\ At(s, "deleting")
  /\ final' \in {final, [final EXCEPT ![Cmd(s).path] = Nil]}
  /\ Done(s)
  /\ UNCHANGED <<queue, replies, uploads, stale, sweep, temp, data>>

-----------------------------------------------------------------------------
SessionStep(s) ==
  /\ \/ SessionStops(s) \/ StartUpload(s) \/ OpenTemp(s) \/ OpenFails(s) \/ InsertUpload(s)
     \/ CheckChunk(s) \/ NotFound(s) \/ TakeLast(s) \/ WriteLast(s) \/ RenameTemp(s)
     \/ RenameFails(s) \/ LockEntry(s) \/ WriteChunk(s) \/ WriteFails(s) \/ DropFailed(s)
     \/ CancelUploads(s) \/ RemoveFile(s)
  /\ UNCHANGED clientVars

Next ==
  \/ \E t \in Transfers : uploadFile(t) \/ handleUploadStartResponse(t)
                           \/ handleUploadChunkAck(t) \/ GiveUp(t) \/ Lapse(t)
  \/ \E s \in Sessions, p \in Paths : deleteFile(s, p)
  \/ \E s \in Sessions : SessionStep(s)
  \/ \E k \in Sweepers, t \in Transfers : SweepOne(k, t)
  \/ cleanup_abandoned_uploads
  \/ \E c \in Clients : ConnectionDisconnect(c) \/ close_uploads_for_cid(c)

Spec == Init /\ [][Next]_vars

\* Tasks are polled, the SFTP server answers, the interval ticks, and 15
\* minutes pass.  Nothing is assumed of the browser.
Fairness ==
  /\ \A s \in Sessions : WF_vars(SessionStep(s))
  /\ \A k \in Sweepers, t \in Transfers : WF_vars(SweepOne(k, t))
  /\ \A t \in Transfers : WF_vars(Lapse(t))
  /\ WF_vars(cleanup_abandoned_uploads)
  /\ \A c \in Clients : WF_vars(close_uploads_for_cid(c))

FairSpec == Spec /\ Fairness

-----------------------------------------------------------------------------
(* Properties.                                                             *)

Content(t) == [j \in 1 .. ChunksOf[t] |-> <<t, j - 1>>]
Others(t) == {u \in Transfers \ {t} : PathOf[u] = PathOf[t]}
UploadedAs(t) == final[PathOf[t]] # Nil /\ data[final[PathOf[t]]] = Content(t)
Completed(t) == call[t] = "done" /\ ChunksOf[t] > 0 /\ PathOf[t] \notin deleted

\* Whatever happens to the transfers (timeouts, cancellation, clean-up,
\* sharing a temporary file with another transfer), the chunks of a transfer
\* that a file contains are its first ones, in order and without gap or
\* repetition: a chunk follows all that are before it in its transfer, and no
\* other.  The client sends chunk i + 1 only after the ACK of chunk i, and
\* upload_file_chunk acknowledges only what it has written.
ChunksInOrder ==
  \A x \in Transfers : \A j \in 1 .. Len(data[x]) :
    LET t == data[x][j][1]
        i == data[x][j][2]
    IN  /\ \A h \in 0 .. i - 1 : \E k \in 1 .. j - 1 : data[x][k] = <<t, h>>
        /\ \A k \in 1 .. j - 1 : data[x][k][1] = t => data[x][k][2] < i

\* When uploadFile has received its last ACK, the only transfer ever started
\* for its path, which nobody asked to delete, has left exactly its chunks
\* under the final name: upload_file_chunk renames before it acknowledges.
UploadExact ==
  \A t \in Transfers :
    Completed(t) /\ (\A u \in Others(t) : call[u] = "idle") => UploadedAs(t)

\* At no moment, and not only after the last ACK, does the final name of a path
\* that only one transfer was ever started for show part of a file, whatever
\* becomes of the transfer (a failed write, a timeout, a cancellation, a
\* clean-up, a deletion of the path while it runs): upload_file_chunk writes to
\* the temporary path and renames only what it has written to the end.
FinalIsWhole ==
  \A t \in Transfers :
    final[PathOf[t]] # Nil /\ (\A u \in Others(t) : call[u] = "idle") => UploadedAs(t)

\* After a client has disconnected its entries go, and none comes back, also
\* when start_upload inserts one behind close_uploads_for_cid.
UploadsReclaimed ==
  \A c \in Clients :
    c \in gone ~> [](\A t \in Entries : Owner(t) # c)

\* After a failed write of an intermediate chunk the entry is removed, which
\* closes the file.
FailedIsDropped ==
  \A t \in Transfers :
    (\E s \in Sessions : At(s, "failed") /\ Cmd(s).t = t) ~> uploads[t] = Nil
=============================================================================
