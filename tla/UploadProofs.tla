---------------------------- MODULE UploadProofs ----------------------------
(***************************************************************************)
(* Proofs about Upload: tasks, map and files stay well formed, the chunks  *)
(* of a transfer are appended in order, and a transfer that was alone on   *)
(* its path and succeeded is stored whole, for any number of clients,      *)
(* sessions, transfers and paths.                                          *)
(***************************************************************************)
EXTENDS Upload, TLAPS

Busy(s) == work[s].pc \notin {"idle", "closed"}
Opening == {"start", "opened"}
Writing == {"last", "final", "rename", "more", "writing", "failed", "notFound"}

\* What UploadTypeOK needs beyond itself to be inductive: a task at work has a
\* command of the kind its state is for.
Shape ==
  \A s \in Sessions :
    /\ Busy(s) => work[s].cmd \in Command
    /\ work[s].pc \in Opening => work[s].cmd.op = "start"
    /\ work[s].pc \in Writing => work[s].cmd.op = "chunk"
    /\ work[s].pc = "deleting" => work[s].cmd.op = "delete"
Typed == UploadTypeOK /\ Shape

-----------------------------------------------------------------------------
(* Type correctness.                                                       *)

\* What kinds of commands there are.
LEMMA Commands ==
  /\ \A t \in Transfers : Start(t) \in Command /\ Start(t).t = t /\ Start(t).op = "start"
  /\ \A t \in Transfers, i \in Nat : Chunk(t, i) \in Command /\ Chunk(t, i).t = t
                                       /\ Chunk(t, i).op = "chunk" /\ Chunk(t, i).i = i
  /\ \A p \in Paths : Delete(p) \in Command /\ Delete(p).t \notin Transfers /\ Delete(p).op = "delete"
  /\ \A cmd \in Command : /\ cmd.op \in {"start", "chunk", "delete"}
                          /\ cmd.op # "delete" => cmd.t \in Transfers /\ cmd.i \in Nat
                          /\ cmd.op = "delete" => cmd.t = Nil /\ cmd.path \in Paths
BY UploadAssumption DEF Command, Start, Chunk, Delete

WorkState == [pc : {"idle", "start", "opened", "last", "final", "rename", "more",
                    "writing", "failed", "notFound", "deleting", "closed"},
              cmd : Command \cup {Nil}, file : Transfers \cup {Nil}]
Handing == {"opened", "final", "rename", "writing", "failed"}

\* The conjuncts of the type invariant about the session tasks.
WorkOK ==
  /\ work \in [Sessions -> WorkState]
  /\ \A s \in Sessions : work[s].file # Nil <=> work[s].pc \in Handing
  /\ Shape

\* A task that moves on with the same command.
LEMMA GotoTyped ==
  ASSUME WorkOK, NEW s \in Sessions, NEW file \in Transfers \cup {Nil}, NEW pc \in {"opened", "final", "rename", "writing", "failed", "closed"},
         Goto(s, pc, file), file # Nil <=> pc \in Handing,
         pc # "closed" => Busy(s),
         pc = "opened" => work[s].pc \in Opening, pc \in Writing => work[s].pc \in Writing
  PROVE  WorkOK'
<1>1. work'[s] = [work[s] EXCEPT !.pc = pc, !.file = file] /\ \A r \in Sessions : r # s => work'[r] = work[r]
  BY Zenon DEF Goto, WorkOK
<1>3. work[s] \in WorkState
  BY Zenon DEF WorkOK
<1>. DEFINE w == [work[s] EXCEPT !.pc = pc, !.file = file]
<1>10. w \in WorkState
  BY <1>3, Zenon DEF WorkState
<1>11. work' = [work EXCEPT ![s] = w]
  BY Zenon DEF Goto, WorkOK
<1>2. work' \in [Sessions -> WorkState]
  <2>. HIDE DEF w
  <2>. QED BY <1>10, <1>11, Zenon DEF WorkOK
<1>4. work'[s].pc = pc /\ work'[s].file = file /\ work'[s].cmd = work[s].cmd
  BY <1>1, <1>3, Zenon DEF WorkState
<1>5. \A r \in Sessions : work'[r].file # Nil <=> work'[r].pc \in Handing
  BY <1>1, <1>4, Zenon DEF WorkOK
<1>6. pc = "closed" \/ work[s].cmd \in Command
  BY Zenon DEF WorkOK, Shape
<1>7. pc = "opened" => work[s].cmd.op = "start"
  BY Zenon DEF WorkOK, Shape
<1>8. pc \in Writing => work[s].cmd.op = "chunk"
  BY Zenon DEF WorkOK, Shape
<1>9. ASSUME NEW r \in Sessions
      PROVE  /\ Busy(r)' => work'[r].cmd \in Command
             /\ work'[r].pc \in Opening => work'[r].cmd.op = "start"
             /\ work'[r].pc \in Writing => work'[r].cmd.op = "chunk"
             /\ work'[r].pc = "deleting" => work'[r].cmd.op = "delete"
  <2>1. CASE r = s
    BY <2>1, <1>4, <1>6, <1>7, <1>8, Zenon DEF Busy, Opening
  <2>2. CASE r # s
    BY <2>2, <1>1, Zenon DEF WorkOK, Shape, Busy
  <2>. QED BY <2>1, <2>2, Zenon
<1>. QED BY <1>2, <1>5, <1>9, Zenon DEF WorkOK, Shape, Busy, Opening, Writing, Handing

\* A task that is done.
LEMMA DoneTyped ==
  ASSUME WorkOK, NEW s \in Sessions, Done(s)
  PROVE  WorkOK'
<1>1. work'[s] = Idle /\ \A r \in Sessions : r # s => work'[r] = work[r]
  BY Zenon DEF Done, WorkOK
<1>2. work' \in [Sessions -> WorkState]
  BY Zenon DEF Done, WorkOK, WorkState, Idle
<1>. QED BY <1>1, <1>2 DEF WorkOK, Shape, Busy, Opening, Writing, Handing, Idle

\* A task that takes the first command of its queue.
LEMMA TakeTyped ==
  ASSUME UploadTypeOK, WorkOK, NEW s \in Sessions,
         NEW op \in {"start", "chunk", "delete"}, NEW pc \in {"start", "last", "more", "notFound", "deleting"},
         Take(s, op, pc),
         pc = "start" => op = "start", pc \in Writing => op = "chunk", pc = "deleting" => op = "delete"
  PROVE  WorkOK' /\ queue' \in [Sessions -> Seq(Command)]
<1>. DEFINE cmd == Head(queue[s])
<1>1. cmd \in Command /\ cmd.op = op /\ Tail(queue[s]) \in Seq(Command)
  BY DEF UploadTypeOK, Take
<1>2. queue' \in [Sessions -> Seq(Command)]
  BY <1>1, Zenon DEF UploadTypeOK, Take
<1>3. work' = [work EXCEPT ![s] = [pc |-> pc, cmd |-> cmd, file |-> Nil]]
  BY Zenon DEF Take
<1>. HIDE DEF cmd
<1>4. [pc |-> pc, cmd |-> cmd, file |-> Nil] \in WorkState
  BY <1>1, Zenon DEF WorkState
<1>5. work' \in [Sessions -> WorkState] /\ \A r \in Sessions : r # s => work'[r] = work[r]
  BY <1>3, <1>4, Zenon DEF WorkOK
<1>6. work'[s].pc = pc /\ work'[s].cmd = cmd /\ work'[s].file = Nil
  BY <1>3, Zenon DEF WorkOK
<1>. QED BY <1>1, <1>2, <1>5, <1>6, ZenonT(20) DEF WorkOK, Shape, Busy, Opening, Writing, Handing

\* The rest of the type invariant.
RestOK ==
  /\ call \in [Transfers -> {"idle", "starting", "sending", "done", "failed"}]
  /\ next \in [Transfers -> Nat]
  /\ queue \in [Sessions -> Seq(Command)]
  /\ replies \subseteq Command
  /\ uploads \in [Transfers -> Transfers \cup {Nil}]
  /\ stale \subseteq Transfers
  /\ sweep \in [Sweepers -> SUBSET Transfers]
  /\ temp \in [Paths -> Transfers \cup {Nil}]
  /\ final \in [Paths -> Transfers \cup {Nil}]
  /\ data \in [Transfers -> Seq(Chunks)]
  /\ gone \subseteq Clients /\ closing \subseteq Clients
  /\ deleted \subseteq Paths

\* Typed is about the session tasks and about the rest.
LEMMA TypedSplits == Typed <=> WorkOK /\ RestOK
BY Zenon DEF Typed, UploadTypeOK, WorkOK, RestOK, WorkState, Handing

\* A command that is sent keeps queues of commands.
LEMMA SubmitTyped ==
  ASSUME RestOK, NEW s \in Sessions, NEW cmd \in Command, Submit(s, cmd)
  PROVE  queue' \in [Sessions -> Seq(Command)]
BY DEF RestOK, Submit

\* The command of a task at work.
LEMMA CommandAtWork ==
  ASSUME WorkOK, NEW s \in Sessions
  PROVE  /\ Busy(s) => Cmd(s) \in Command
         /\ work[s].pc \in Opening \cup Writing => Cmd(s).t \in Transfers /\ Cmd(s).i \in Nat
         /\ work[s].pc = "deleting" => Cmd(s).path \in Paths
<1>1. work[s].pc \in Opening \cup Writing => Cmd(s) \in Command /\ Cmd(s).op # "delete"
  BY Zenon DEF WorkOK, Shape, Busy, Opening, Writing, Cmd
<1>2. work[s].pc = "deleting" => Cmd(s) \in Command /\ Cmd(s).op = "delete"
  BY Zenon DEF WorkOK, Shape, Busy, Cmd
<1>. QED BY <1>1, <1>2, Commands, Zenon DEF WorkOK, Shape, Cmd

\* The first states are well formed.
LEMMA TypedInit == Init => Typed
<1>. SUFFICES ASSUME Init PROVE WorkOK /\ RestOK
  BY TypedSplits, Zenon
<1>1. work \in [Sessions -> WorkState] /\ \A s \in Sessions : work[s] = Idle
  BY Zenon DEF Init, Idle, WorkState
<1>2. WorkOK
  BY <1>1 DEF WorkOK, Shape, Busy, Opening, Writing, Handing, Idle
<1>3. RestOK
  BY DEF Init, RestOK
<1>. QED BY <1>2, <1>3, Zenon

\* The steps of the browser.
LEMMA ClientTyped ==
  ASSUME Typed, NEW t \in Transfers,
         uploadFile(t) \/ handleUploadStartResponse(t) \/ handleUploadChunkAck(t) \/ GiveUp(t) \/ Lapse(t)
  PROVE  Typed'
<1>1. WorkOK /\ RestOK /\ SessionOf[t] \in Sessions /\ next[t] \in Nat
  BY TypedSplits, UploadAssumption, Zenon DEF RestOK
<1>2. work' = work
  BY Zenon DEF uploadFile, handleUploadStartResponse, handleUploadChunkAck, GiveUp, Lapse
<1>3. WorkOK'
  BY <1>1, <1>2, Zenon DEF WorkOK, Shape, Busy
<1>4. ASSUME NEW i \in Nat, SendOrFinish(t, i)
      PROVE  /\ queue' \in [Sessions -> Seq(Command)]
             /\ call' \in [Transfers -> {"idle", "starting", "sending", "done", "failed"}]
  <2>1. Chunk(t, i) \in Command
    BY Commands, Zenon
  <2>2. queue' \in [Sessions -> Seq(Command)]
    BY <2>1, <1>1, <1>4, SubmitTyped, Zenon DEF SendOrFinish, RestOK
  <2>. QED BY <2>2, <1>1, <1>4, Zenon DEF SendOrFinish, RestOK
<1>5. CASE uploadFile(t)
  <2>1. queue' \in [Sessions -> Seq(Command)]
    BY <1>1, <1>5, Commands, SubmitTyped, Zenon DEF uploadFile
  <2>2. RestOK'
    BY <2>1, <1>1, <1>5, Zenon DEF uploadFile, RestOK, fileVars
  <2>. QED BY <2>2, <1>3, TypedSplits, PTL
<1>6. CASE handleUploadStartResponse(t)
  <2>1. RestOK'
    BY <1>1, <1>4, <1>6, Zenon DEF handleUploadStartResponse, RestOK, fileVars
  <2>. QED BY <2>1, <1>3, TypedSplits, PTL
<1>7. CASE handleUploadChunkAck(t)
  <2>1. RestOK'
    BY <1>1, <1>4, <1>7 DEF handleUploadChunkAck, RestOK, fileVars
  <2>. QED BY <2>1, <1>3, TypedSplits, PTL
<1>8. CASE GiveUp(t) \/ Lapse(t)
  <2>1. RestOK'
    BY <1>1, <1>8, Zenon DEF GiveUp, Lapse, RestOK, fileVars, clientVars
  <2>. QED BY <2>1, <1>3, TypedSplits, PTL
<1>. QED BY <1>5, <1>6, <1>7, <1>8, Zenon

\* The steps on the map, and those of a deletion and of a disconnect.
LEMMA MapTyped ==
  ASSUME Typed,
         \/ \E s \in Sessions, p \in Paths : deleteFile(s, p)
         \/ \E k \in Sweepers, t \in Transfers : SweepOne(k, t)
         \/ cleanup_abandoned_uploads
         \/ \E c \in Clients : ConnectionDisconnect(c) \/ close_uploads_for_cid(c)
  PROVE  Typed'
<1>1. WorkOK /\ RestOK /\ work' = work
  BY TypedSplits, Zenon DEF deleteFile, SweepOne, cleanup_abandoned_uploads,
     ConnectionDisconnect, close_uploads_for_cid
<1>2. WorkOK'
  BY <1>1, Zenon DEF WorkOK, Shape, Busy
<1>3. CASE \E s \in Sessions, p \in Paths : deleteFile(s, p)
  <2>1. PICK s \in Sessions, p \in Paths : deleteFile(s, p)
    BY <1>3, Zenon
  <2>2. queue' \in [Sessions -> Seq(Command)]
    BY <2>1, <1>1, Commands, SubmitTyped, Zenon DEF deleteFile
  <2>3. RestOK'
    BY <2>1, <2>2, <1>1, Zenon DEF deleteFile, RestOK, fileVars
  <2>. QED BY <2>3, <1>2, TypedSplits, PTL
<1>4. CASE \E k \in Sweepers, t \in Transfers : SweepOne(k, t)
  <2>1. RestOK'
    BY <1>4, <1>1 DEF SweepOne, RemoveEntries, RestOK, fileVars, clientVars
  <2>. QED BY <2>1, <1>2, TypedSplits, PTL
<1>5. CASE cleanup_abandoned_uploads
  <2>1. RestOK'
    BY <1>5, <1>1, Zenon DEF cleanup_abandoned_uploads, Abandoned, RestOK, fileVars, clientVars
  <2>. QED BY <2>1, <1>2, TypedSplits, PTL
<1>6. CASE \E c \in Clients : ConnectionDisconnect(c) \/ close_uploads_for_cid(c)
  <2>1. RestOK'
    BY <1>6, <1>1, Zenon DEF ConnectionDisconnect, close_uploads_for_cid, Entries, RestOK,
       fileVars
  <2>. QED BY <2>1, <1>2, TypedSplits, PTL
<1>. QED BY <1>3, <1>4, <1>5, <1>6, Zenon

\* The steps of a session task.
LEMMA SessionTyped ==
  ASSUME Typed, NEW s \in Sessions, SessionStep(s)
  PROVE  Typed'
<1>1. WorkOK /\ RestOK /\ UploadTypeOK
  BY TypedSplits, Zenon DEF Typed
<1>2. work[s].file \in Transfers \cup {Nil} /\ (work[s].file # Nil <=> work[s].pc \in Handing)
  BY <1>1, Zenon DEF WorkOK, WorkState
<1>3. UNCHANGED clientVars
  BY Zenon DEF SessionStep
<1>4. ASSUME WorkOK', RestOK' PROVE Typed'
  BY <1>4, TypedSplits, PTL
<1>5. ASSUME Done(s) PROVE WorkOK'
  BY <1>1, <1>5, DoneTyped, Zenon
<1>6. Reply(s) /\ Busy(s) => replies' \subseteq Command
  BY <1>1, CommandAtWork, Zenon DEF Reply, RestOK
<1>7. CASE SessionStops(s)
  <2>1. WorkOK'
    BY <1>1, <1>7, GotoTyped, Zenon DEF SessionStops, Handing, Writing
  <2>2. RestOK'
    BY <1>1, <1>3, <1>7 DEF SessionStops, RestOK, fileVars, clientVars
  <2>. QED BY <2>1, <2>2, <1>4, Zenon
<1>8. CASE StartUpload(s)
  <2>1. WorkOK' /\ queue' \in [Sessions -> Seq(Command)]
    BY <1>1, <1>8, TakeTyped, Zenon DEF StartUpload, Writing
  <2>2. RestOK'
    BY <2>1, <1>1, <1>3, <1>8, Zenon DEF StartUpload, Abandoned, RestOK, fileVars, clientVars
  <2>. QED BY <2>1, <2>2, <1>4, Zenon
<1>9. CASE OpenTemp(s)
  <2>. DEFINE t == Cmd(s).t
              p == PathOf[t]
  <2>1. t \in Transfers /\ p \in Paths /\ work[s].pc = "start"
    BY <1>1, <1>9, CommandAtWork, UploadAssumption, Zenon DEF OpenTemp, At, Opening
  <2>2. temp' \in [Paths -> Transfers \cup {Nil}] /\ temp'[p] \in Transfers /\ Goto(s, "opened", temp'[p])
    BY <2>1, <1>1, <1>9, Zenon DEF OpenTemp, RestOK
  <2>3. WorkOK'
    BY <2>1, <2>2, <1>1, GotoTyped, UploadAssumption, Zenon DEF Handing, Opening, Writing, Busy
  <2>4. RestOK'
    BY <2>2, <1>1, <1>3, <1>9, Zenon DEF OpenTemp, RestOK, clientVars
  <2>. QED BY <2>3, <2>4, <1>4, Zenon
<1>10. CASE OpenFails(s) \/ NotFound(s) \/ RenameFails(s)
  <2>1. RestOK'
    BY <1>1, <1>3, <1>10, Zenon DEF OpenFails, NotFound, RenameFails, RestOK, fileVars,
       clientVars
  <2>. QED BY <2>1, <1>4, <1>5, <1>10, Zenon DEF OpenFails, NotFound, RenameFails
<1>11. CASE InsertUpload(s)
  <2>1. replies' \subseteq Command
    BY <1>6, <1>11, Zenon DEF InsertUpload, Busy, At
  <2>2. RestOK'
    BY <2>1, <1>1, <1>2, <1>3, <1>11, Zenon DEF InsertUpload, RestOK, fileVars, clientVars
  <2>. QED BY <2>2, <1>4, <1>5, <1>11, Zenon DEF InsertUpload
<1>12. CASE CheckChunk(s)
  <2>1. \E pc \in {"last", "more", "notFound"} : Take(s, "chunk", pc)
    BY <1>12, Zenon DEF CheckChunk
  <2>2. WorkOK' /\ queue' \in [Sessions -> Seq(Command)]
    BY <2>1, <1>1, TakeTyped, Zenon
  <2>3. RestOK'
    BY <2>2, <1>1, <1>3, <1>12, Zenon DEF CheckChunk, RestOK, fileVars, clientVars
  <2>. QED BY <2>2, <2>3, <1>4, Zenon
<1>13. CASE TakeLast(s) \/ LockEntry(s)
  <2>1. uploads[Cmd(s).t] \in Transfers
    BY <1>1, <1>13, Zenon DEF TakeLast, LockEntry, Entries, RestOK
  <2>2. WorkOK'
    BY <2>1, <1>1, <1>13, GotoTyped, UploadAssumption, Zenon DEF TakeLast, LockEntry, At,
       Handing, Writing, Busy
  <2>3. RestOK'
    BY <1>1, <1>3, <1>13, Zenon DEF TakeLast, LockEntry, RemoveEntries, RestOK, fileVars,
       clientVars
  <2>. QED BY <2>2, <2>3, <1>4, Zenon
<1>14. ASSUME AppendChunk(work[s].file, Cmd(s)), work[s].pc \in {"final", "writing"}
       PROVE  data' \in [Transfers -> Seq(Chunks)]
  <2>1. work[s].file \in Transfers /\ <<Cmd(s).t, Cmd(s).i>> \in Chunks
    BY <1>1, <1>2, <1>14, CommandAtWork, Zenon DEF Handing, Writing, Chunks
  <2>. QED BY <2>1, <1>1, <1>14 DEF AppendChunk, RestOK
<1>15. CASE WriteLast(s)
  <2>1. work[s].pc = "final"
    BY <1>15, Zenon DEF WriteLast, At
  <2>2. WorkOK'
    BY <2>1, <1>1, <1>2, <1>5, <1>15, GotoTyped, Zenon DEF WriteLast, Handing, Writing, Busy
  <2>3. data' \in [Transfers -> Seq(Chunks)]
    BY <2>1, <1>1, <1>14, <1>15, Zenon DEF WriteLast, RestOK
  <2>4. RestOK'
    BY <2>3, <1>1, <1>3, <1>15, Zenon DEF WriteLast, RestOK, clientVars
  <2>. QED BY <2>2, <2>4, <1>4, Zenon
<1>16. CASE RenameTemp(s)
  <2>1. replies' \subseteq Command
    BY <1>6, <1>16, Zenon DEF RenameTemp, Busy, At
  <2>2. RestOK'
    BY <2>1, <1>1, <1>3, <1>16, Zenon DEF RenameTemp, RestOK, clientVars
  <2>. QED BY <2>2, <1>4, <1>5, <1>16, Zenon DEF RenameTemp
<1>17. CASE WriteChunk(s)
  <2>1. replies' \subseteq Command /\ data' \in [Transfers -> Seq(Chunks)]
    BY <1>6, <1>14, <1>17, Zenon DEF WriteChunk, Busy, At
  <2>2. RestOK'
    BY <2>1, <1>1, <1>3, <1>17, Zenon DEF WriteChunk, RestOK, clientVars
  <2>. QED BY <2>2, <1>4, <1>5, <1>17, Zenon DEF WriteChunk
<1>18. CASE WriteFails(s)
  <2>1. WorkOK'
    BY <1>1, <1>2, <1>18, GotoTyped, Zenon DEF WriteFails, At, Handing, Writing, Busy
  <2>2. RestOK'
    BY <1>1, <1>3, <1>18, Zenon DEF WriteFails, RestOK, fileVars, clientVars
  <2>. QED BY <2>1, <2>2, <1>4, Zenon
<1>19. CASE DropFailed(s)
  <2>1. RestOK'
    BY <1>1, <1>3, <1>19, Zenon DEF DropFailed, RemoveEntries, RestOK, fileVars, clientVars
  <2>. QED BY <2>1, <1>4, <1>5, <1>19, Zenon DEF DropFailed
<1>20. CASE CancelUploads(s)
  <2>1. WorkOK' /\ queue' \in [Sessions -> Seq(Command)]
    BY <1>1, <1>20, TakeTyped, Zenon DEF CancelUploads, Writing
  <2>2. RestOK'
    BY <2>1, <1>1, <1>3, <1>20, Zenon DEF CancelUploads, RemoveEntries, RestOK, fileVars,
       clientVars
  <2>. QED BY <2>1, <2>2, <1>4, Zenon
<1>21. CASE RemoveFile(s)
  <2>1. RestOK'
    BY <1>1, <1>3, <1>21, Zenon DEF RemoveFile, RestOK, clientVars
  <2>. QED BY <2>1, <1>4, <1>5, <1>21, Zenon DEF RemoveFile
<1>. QED BY <1>7, <1>8, <1>9, <1>10, <1>11, <1>12, <1>13, <1>15, <1>16, <1>17, <1>18, <1>19,
            <1>20, <1>21, Zenon
       DEF SessionStep

\* Every step of the system keeps Typed.
LEMMA TypedNext == Typed /\ [Next]_vars => Typed'
<1>. SUFFICES ASSUME Typed, [Next]_vars PROVE Typed'
  BY Zenon
<1>1. CASE UNCHANGED vars
  BY <1>1, Zenon DEF vars, clientVars, fileVars, Typed, UploadTypeOK, Shape, Busy
<1>2. CASE Next
  BY <1>2, ClientTyped, MapTyped, SessionTyped, Zenon DEF Next
<1>. QED BY <1>1, <1>2, Zenon

\* Whatever the browser, the clean-up and the SFTP server do, a session task
\* has a file in hand exactly where start_upload and upload_file_chunk do, and
\* the map, the queues and the files hold what they are meant for.
THEOREM UploadTypeCorrect == Spec => []UploadTypeOK
<1>1. Spec => []Typed
  BY TypedInit, TypedNext, PTL DEF Spec
<1>2. Typed => UploadTypeOK
  BY Zenon DEF Typed
<1>. QED BY <1>1, <1>2, PTL

-----------------------------------------------------------------------------
(* Transfers: at most one command or answer of a transfer is under way, it  *)
(* is about the chunk the client waits for, and the transfer has one file.  *)

Works(s, t) == Busy(s) /\ work[s].cmd.t = t

\* Commands of a transfer are sent to its own session.
WorkHome == \A s \in Sessions, t \in Transfers : Works(s, t) => SessionOf[t] = s
QueuesHome ==
  \A s \in Sessions, t \in Transfers : \A j \in 1 .. Len(queue[s]) :
    queue[s][j].t = t => SessionOf[t] = s

Waiting(t) == \E j \in 1 .. Len(queue[SessionOf[t]]) : queue[SessionOf[t]][j].t = t
Working(t) == Works(SessionOf[t], t)
Answered(t) == \E r \in replies : r.t = t

Has(x, t, i) == \E j \in 1 .. Len(data[x]) : data[x][j] = <<t, i>>
NoData(t) == \A x \in Transfers, i \in Nat : ~Has(x, t, i)

\* No two commands in a queue are of one transfer.
QueuesUnique ==
  \A s \in Sessions : \A j, k \in 1 .. Len(queue[s]) :
    queue[s][j].t \in Transfers /\ queue[s][j].t = queue[s][k].t => j = k

Tokens(t) ==
  /\ call[t] = "idle" => ~Waiting(t) /\ ~Working(t) /\ ~Answered(t) /\ next[t] = 0 /\ NoData(t)
  /\ Waiting(t) => ~Working(t) /\ ~Answered(t)
  /\ Working(t) => ~Answered(t)
  /\ \A r, q \in replies : r.t = t /\ q.t = t => r = q

\* A command before its write, and an answer, against what is in the files.
Unwritten(t, cmd) ==
  IF cmd.op = "chunk" THEN cmd.i = next[t] /\ \A x \in Transfers : ~Has(x, t, next[t])
  ELSE next[t] = 0 /\ NoData(t)
Written(t, cmd) ==
  IF cmd.op = "chunk" THEN \E x \in Transfers : Has(x, t, cmd.i)
  ELSE next[t] = 0 /\ NoData(t)

Progress(t) ==
  /\ \A j \in 1 .. Len(queue[SessionOf[t]]) :
       queue[SessionOf[t]][j].t = t => Unwritten(t, queue[SessionOf[t]][j])
  /\ Working(t) => IF work[SessionOf[t]].pc = "rename" THEN Written(t, work[SessionOf[t]].cmd)
                   ELSE Unwritten(t, work[SessionOf[t]].cmd)
  /\ \A r \in replies : r.t = t => Written(t, r)
  /\ \A x \in Transfers, i \in Nat : Has(x, t, i) => i <= next[t]
  /\ \A i \in Nat : i < next[t] => \E x \in Transfers : Has(x, t, i)

\* A transfer has one file: that of its entry, that of the task at work for
\* it, and that which has its chunks.
InHand(t) == Working(t) /\ work[SessionOf[t]].pc \in {"final", "rename", "writing", "failed"}
FileOf(t) == work[SessionOf[t]].file
OneFile(t) ==
  /\ \A x \in Transfers, i \in Nat : Has(x, t, i) => uploads[t] \in {x, Nil} /\ (InHand(t) => FileOf(t) = x)
  /\ \A x, y \in Transfers, i, h \in Nat : Has(x, t, i) /\ Has(y, t, h) => x = y
  /\ InHand(t) => uploads[t] \in {FileOf(t), Nil}

TransferInv == \A t \in Transfers : Tokens(t) /\ Progress(t) /\ OneFile(t)
OrderInv == WorkHome /\ QueuesHome /\ QueuesUnique /\ TransferInv /\ ChunksInOrder

-----------------------------------------------------------------------------
(* A transfer that a step leaves alone, or takes something from.           *)

Kept(t) ==
  LET s == SessionOf[t]
  IN  /\ \A j \in 1 .. Len(queue'[s]) : queue'[s][j].t = t =>
           \E k \in 1 .. Len(queue[s]) : queue[s][k] = queue'[s][j]
      /\ Working(t)' => /\ Working(t) /\ work'[s].cmd = work[s].cmd
                        /\ work'[s].pc = "rename" <=> work[s].pc = "rename"
      /\ InHand(t)' => (InHand(t) /\ FileOf(t)' = FileOf(t)) \/ FileOf(t)' = uploads[t]
      /\ \A r \in replies' : r.t = t => r \in replies
      /\ next'[t] = next[t]
      /\ call'[t] = "idle" => call[t] = "idle"
      /\ \A x \in Transfers, i \in Nat : Has(x, t, i)' <=> Has(x, t, i)
      /\ uploads'[t] \in {uploads[t], Nil}

\* Such a transfer keeps what is known of it.
LEMMA KeptTransfer ==
  ASSUME Typed, Typed', NEW t \in Transfers, Tokens(t), Progress(t), OneFile(t), Kept(t)
  PROVE  (Tokens(t) /\ Progress(t) /\ OneFile(t))'
<1>. DEFINE s == SessionOf[t]
<1>1. s \in Sessions /\ next[t] \in Nat
  BY UploadAssumption, Zenon DEF Typed, UploadTypeOK
<1>2. Waiting(t)' => Waiting(t)
  BY Zenon DEF Kept, Waiting
<1>3. Working(t)' => Working(t)
  BY Zenon DEF Kept
<1>4. \A r \in replies' : r.t = t => r \in replies
  BY Zenon DEF Kept
<1>5. \A x \in Transfers, i \in Nat : Has(x, t, i)' <=> Has(x, t, i)
  BY Zenon DEF Kept
<1>6. NoData(t)' <=> NoData(t)
  BY <1>5, Zenon DEF NoData
<1>7. next'[t] = next[t]
  BY Zenon DEF Kept
<1>8. Tokens(t)'
  BY <1>2, <1>3, <1>4, <1>6, <1>7, Zenon DEF Kept, Tokens, Answered
<1>9. ASSUME NEW cmd \in Command, cmd.t = t
      PROVE  /\ Unwritten(t, cmd) => Unwritten(t, cmd)'
             /\ Written(t, cmd) => Written(t, cmd)'
  <2>1. cmd.op = "chunk" => cmd.i \in Nat
    BY Commands, Zenon
  <2>. QED BY <2>1, <1>1, <1>5, <1>6, <1>7, Zenon DEF Unwritten, Written
<1>10. ASSUME NEW cmd, NEW j \in 1 .. Len(queue'[s]), cmd = queue'[s][j], cmd.t = t
       PROVE  Unwritten(t, cmd)'
  <2>1. PICK k \in 1 .. Len(queue[s]) : queue[s][k] = cmd
    BY <1>10, Zenon DEF Kept
  <2>2. cmd \in Command /\ Unwritten(t, cmd)
    BY <2>1, <1>1, <1>10 DEF Typed, UploadTypeOK, Progress
  <2>. QED BY <2>2, <1>9, <1>10, Zenon
<1>11. ASSUME NEW cmd, Working(t)', cmd = work'[s].cmd
       PROVE  IF work'[s].pc = "rename" THEN Written(t, cmd)' ELSE Unwritten(t, cmd)'
  <2>1. Working(t) /\ cmd = work[s].cmd /\ (work'[s].pc = "rename" <=> work[s].pc = "rename")
    BY <1>11, Zenon DEF Kept
  <2>2. cmd \in Command /\ cmd.t = t
    BY <2>1, <1>1, Zenon DEF Working, Works, Typed, Shape
  <2>3. IF work[s].pc = "rename" THEN Written(t, cmd) ELSE Unwritten(t, cmd)
    BY <2>1, Zenon DEF Progress
  <2>. QED BY <2>1, <2>2, <2>3, <1>9, Zenon
<1>12. ASSUME NEW r \in replies', r.t = t
       PROVE  Written(t, r)'
  <2>1. r \in Command /\ Written(t, r)
    BY <1>4, <1>12, Zenon DEF Progress, Typed, UploadTypeOK
  <2>. QED BY <2>1, <1>9, <1>12, Zenon
<1>13. Progress(t)'
  BY <1>5, <1>7, <1>10, <1>11, <1>12, Zenon DEF Progress
<1>14. InHand(t)' => FileOf(t)' \in Transfers
  BY <1>1, Zenon DEF InHand, FileOf, Typed, UploadTypeOK
<1>15. uploads'[t] \in {uploads[t], Nil}
  BY Zenon DEF Kept
<1>16. InHand(t)' => (InHand(t) /\ FileOf(t)' = FileOf(t)) \/ FileOf(t)' = uploads[t]
  BY Zenon DEF Kept
<1>17. OneFile(t)'
  <2>1. \A x \in Transfers, i \in Nat : Has(x, t, i)' =>
           uploads'[t] \in {x, Nil} /\ (InHand(t)' => FileOf(t)' = x)
    BY <1>5, <1>14, <1>15, <1>16, UploadAssumption DEF OneFile
  <2>2. \A x, y \in Transfers, i, h \in Nat : Has(x, t, i)' /\ Has(y, t, h)' => x = y
    BY <1>5, Zenon DEF OneFile
  <2>3. InHand(t)' => uploads'[t] \in {FileOf(t)', Nil}
    BY <1>14, <1>15, <1>16, Zenon DEF OneFile
  <2>. QED BY <2>1, <2>2, <2>3, Zenon DEF OneFile
<1>. QED BY <1>8, <1>13, <1>17, Zenon

-----------------------------------------------------------------------------
(* Queues.                                                                 *)

\* The first element of a sequence.
LEMMA FirstOf ==
  ASSUME NEW S, NEW q \in Seq(S), q # <<>>
  PROVE  1 \in 1 .. Len(q) /\ q[1] = Head(q)
<1>1. Len(q) \in Nat /\ Len(q) # 0
  OBVIOUS
<1>2. 1 \in 1 .. Len(q)
  BY <1>1
<1>3. q[1] = Head(q)
  OBVIOUS
<1>. QED BY <1>2, <1>3, Zenon

\* A command that is sent goes behind the others.
LEMMA SubmitQueues ==
  ASSUME Typed, QueuesHome, QueuesUnique, NEW s \in Sessions, NEW cmd \in Command, Submit(s, cmd),
         cmd.t \in Transfers => SessionOf[cmd.t] = s /\ ~Waiting(cmd.t)
  PROVE  /\ QueuesHome' /\ QueuesUnique'
         /\ \A r \in Sessions : \A j \in 1 .. Len(queue'[r]) :
              \/ j \in 1 .. Len(queue[r]) /\ queue'[r][j] = queue[r][j]
              \/ r = s /\ queue'[r][j] = cmd
<1>1. /\ queue[s] \in Seq(Command) /\ queue'[s] = Append(queue[s], cmd)
      /\ \A r \in Sessions : r # s => queue'[r] = queue[r]
  BY Zenon DEF Submit, Typed, UploadTypeOK
<1>2. \A j \in 1 .. Len(queue'[s]) :
        \/ j \in 1 .. Len(queue[s]) /\ queue'[s][j] = queue[s][j]
        \/ j = Len(queue[s]) + 1 /\ queue'[s][j] = cmd
  <2>1. queue'[s] = Append(queue[s], cmd) /\ Len(queue[s]) \in Nat
    BY <1>1
  <2>2. Len(queue'[s]) = Len(queue[s]) + 1
    BY <1>1, <2>1
  <2>3. \A j \in 1 .. Len(queue[s]) : queue'[s][j] = queue[s][j]
    BY <1>1, <2>1
  <2>4. queue'[s][Len(queue[s]) + 1] = cmd
    BY <1>1, <2>1
  <2>. QED BY <2>1, <2>2, <2>3, <2>4
<1>3. \A r \in Sessions : \A j \in 1 .. Len(queue'[r]) :
        \/ j \in 1 .. Len(queue[r]) /\ queue'[r][j] = queue[r][j]
        \/ r = s /\ queue'[r][j] = cmd
  BY <1>1, <1>2, Zenon
<1>4. QueuesHome'
  BY <1>3 DEF QueuesHome
<1>5. cmd.t \in Transfers => \A j \in 1 .. Len(queue[s]) : queue[s][j].t # cmd.t
  BY Zenon DEF Waiting
<1>6. ASSUME NEW r \in Sessions, NEW j \in 1 .. Len(queue'[r]), NEW k \in 1 .. Len(queue'[r]),
             queue'[r][j].t \in Transfers, queue'[r][j].t = queue'[r][k].t
      PROVE  j = k
  <2>1. CASE r # s
    BY <2>1, <1>1, <1>6, Zenon DEF QueuesUnique
  <2>2. CASE r = s
    BY <2>2, <1>2, <1>5, <1>6, Zenon DEF QueuesUnique
  <2>. QED BY <2>1, <2>2, Zenon
<1>7. QueuesUnique'
  BY <1>6, Zenon DEF QueuesUnique
<1>. QED BY <1>3, <1>4, <1>7, Zenon

\* A queue whose first command is taken, or which is dropped.
LEMMA ShorterQueues ==
  ASSUME Typed, QueuesHome, QueuesUnique, NEW s \in Sessions,
         \/ queue' = [queue EXCEPT ![s] = <<>>]
         \/ queue[s] # <<>> /\ queue' = [queue EXCEPT ![s] = Tail(@)]
  PROVE  /\ QueuesHome' /\ QueuesUnique'
         /\ \A r \in Sessions : \A j \in 1 .. Len(queue'[r]) :
              \E k \in 1 .. Len(queue[r]) : queue'[r][j] = queue[r][k] /\ (r = s => k # 1)
<1>1. queue \in [Sessions -> Seq(Command)]
  BY Zenon DEF Typed, UploadTypeOK
<1>2. \A r \in Sessions : r # s => queue'[r] = queue[r]
  BY <1>1, Zenon
<1>3. CASE queue' = [queue EXCEPT ![s] = <<>>]
  <2>1. queue'[s] = <<>>
    BY <1>1, <1>3, Zenon
  <2>. QED BY <2>1, <1>2 DEF QueuesHome, QueuesUnique
<1>4. CASE queue[s] # <<>> /\ queue' = [queue EXCEPT ![s] = Tail(@)]
  <2>1. queue[s] \in Seq(Command) /\ queue'[s] = Tail(queue[s])
    BY <1>1, <1>4, Zenon
  <2>2. \A j \in 1 .. Len(queue'[s]) : j + 1 \in 1 .. Len(queue[s]) /\ queue'[s][j] = queue[s][j + 1]
    BY <2>1, <1>4
  <2>3. \A r \in Sessions : \A j \in 1 .. Len(queue'[r]) :
          \E k \in 1 .. Len(queue[r]) : queue'[r][j] = queue[r][k] /\ (r = s => k # 1)
    <3>. SUFFICES ASSUME NEW r \in Sessions, NEW j \in 1 .. Len(queue'[r])
                  PROVE  \E k \in 1 .. Len(queue[r]) : queue'[r][j] = queue[r][k] /\ (r = s => k # 1)
      BY Zenon
    <3>1. CASE r = s
      BY <3>1, <2>2
    <3>2. CASE r # s
      BY <3>2, <1>2, Zenon
    <3>. QED BY <3>1, <3>2, Zenon
  <2>4. QueuesHome'
    <3>. SUFFICES ASSUME NEW r \in Sessions, NEW j \in 1 .. Len(queue'[r]),
                         queue'[r][j].t \in Transfers
                  PROVE  SessionOf[queue'[r][j].t] = r
      BY DEF QueuesHome
    <3>1. PICK k \in 1 .. Len(queue[r]) : queue'[r][j] = queue[r][k]
      BY <2>3, Zenon
    <3>. QED BY <3>1, Zenon DEF QueuesHome
  <2>5. ASSUME NEW r \in Sessions, NEW j \in 1 .. Len(queue'[r]), NEW k \in 1 .. Len(queue'[r]),
               queue'[r][j].t \in Transfers, queue'[r][j].t = queue'[r][k].t
        PROVE  j = k
    <3>1. CASE r # s
      BY <3>1, <1>2, <2>5, Zenon DEF QueuesUnique
    <3>2. CASE r = s
      <4>1. /\ j + 1 \in 1 .. Len(queue[s]) /\ queue'[s][j] = queue[s][j + 1]
            /\ k + 1 \in 1 .. Len(queue[s]) /\ queue'[s][k] = queue[s][k + 1]
        BY <3>2, <2>2, Zenon
      <4>2. j + 1 = k + 1
        BY <4>1, <3>2, <2>5, Zenon DEF QueuesUnique
      <4>. QED BY <4>2
    <3>. QED BY <3>1, <3>2, Zenon
  <2>6. QueuesUnique'
    BY <2>5, Zenon DEF QueuesUnique
  <2>. QED BY <2>3, <2>4, <2>6, Zenon
<1>. QED BY <1>3, <1>4, Zenon

-----------------------------------------------------------------------------
(* Files.                                                                  *)

\* A write adds one chunk to one file.
LEMMA AppendHas ==
  ASSUME Typed, NEW f \in Transfers, NEW cmd \in Command, cmd.op = "chunk", AppendChunk(f, cmd)
  PROVE  \A x, t \in Transfers, i \in Nat :
           Has(x, t, i)' <=> Has(x, t, i) \/ (x = f /\ t = cmd.t /\ i = cmd.i)
<1>1. data \in [Transfers -> Seq(Chunks)] /\ <<cmd.t, cmd.i>> \in Chunks
  BY Commands, Zenon DEF Typed, UploadTypeOK, Chunks
<1>2. data[f] \in Seq(Chunks) /\ data'[f] = Append(data[f], <<cmd.t, cmd.i>>)
  BY <1>1, Zenon DEF AppendChunk
<1>3. /\ Len(data'[f]) = Len(data[f]) + 1 /\ Len(data[f]) \in Nat
      /\ \A j \in 1 .. Len(data[f]) : data'[f][j] = data[f][j]
      /\ data'[f][Len(data[f]) + 1] = <<cmd.t, cmd.i>>
  BY <1>1, <1>2
<1>. TAKE x, t \in Transfers, i \in Nat
<1>4. CASE x # f
  <2>1. data'[x] = data[x]
    BY <1>1, <1>4, Zenon DEF AppendChunk
  <2>. QED BY <2>1, <1>4, Zenon DEF Has
<1>5. CASE x = f
  <2>1. Has(f, t, i)' => Has(f, t, i) \/ (t = cmd.t /\ i = cmd.i)
    <3>. SUFFICES ASSUME Has(f, t, i)' PROVE Has(f, t, i) \/ (t = cmd.t /\ i = cmd.i)
      BY Zenon
    <3>1. PICK j \in 1 .. Len(data'[f]) : data'[f][j] = <<t, i>>
      BY Zenon DEF Has
    <3>2. CASE j = Len(data[f]) + 1
      <4>1. <<t, i>> = <<cmd.t, cmd.i>>
        BY <3>1, <3>2, <1>3, Zenon
      <4>. QED BY <4>1, Zenon
    <3>3. CASE j # Len(data[f]) + 1
      <4>1. j \in 1 .. Len(data[f]) /\ data[f][j] = <<t, i>>
        BY <3>1, <3>3, <1>3, SMTT(20)
      <4>. QED BY <4>1, Zenon DEF Has
    <3>. QED BY <3>2, <3>3, Zenon
  <2>2. Has(f, t, i) => Has(f, t, i)'
    <3>. SUFFICES ASSUME Has(f, t, i) PROVE Has(f, t, i)'
      BY Zenon
    <3>1. PICK j \in 1 .. Len(data[f]) : data[f][j] = <<t, i>>
      BY Zenon DEF Has
    <3>2. j \in 1 .. Len(data'[f]) /\ data'[f][j] = <<t, i>>
      BY <3>1, <1>3
    <3>. QED BY <3>2, Zenon DEF Has
  <2>3. t = cmd.t /\ i = cmd.i => Has(f, t, i)'
    BY <1>3 DEF Has
  <2>. QED BY <2>1, <2>2, <2>3, <1>5, Zenon
<1>. QED BY <1>4, <1>5, Zenon

\* Position j of file x in ChunksInOrder.
InOrder(x, j) ==
  /\ \A h \in 0 .. data[x][j][2] - 1 : \E k \in 1 .. j - 1 : data[x][k] = <<data[x][j][1], h>>
  /\ \A k \in 1 .. j - 1 : data[x][k][1] = data[x][j][1] => data[x][k][2] < data[x][j][2]

\* A chunk written behind all the earlier ones of its transfer, to the file
\* that has them, and before any later one.
LEMMA AppendInOrder ==
  ASSUME Typed, ChunksInOrder, NEW f \in Transfers, NEW cmd \in Command, cmd.op = "chunk",
         AppendChunk(f, cmd),
         \A h \in Nat : h < cmd.i => Has(f, cmd.t, h),
         \A h \in Nat : Has(f, cmd.t, h) => h < cmd.i
  PROVE  ChunksInOrder'
<1>1. data \in [Transfers -> Seq(Chunks)] /\ <<cmd.t, cmd.i>> \in Chunks /\ cmd.i \in Nat
  BY Commands, Zenon DEF Typed, UploadTypeOK, Chunks
<1>2. data[f] \in Seq(Chunks) /\ data'[f] = Append(data[f], <<cmd.t, cmd.i>>)
  BY <1>1, Zenon DEF AppendChunk
<1>3. /\ Len(data'[f]) = Len(data[f]) + 1 /\ Len(data[f]) \in Nat
      /\ \A j \in 1 .. Len(data[f]) : data'[f][j] = data[f][j]
      /\ data'[f][Len(data[f]) + 1] = <<cmd.t, cmd.i>>
  BY <1>1, <1>2
<1>. SUFFICES ASSUME NEW x \in Transfers, NEW j \in 1 .. Len(data'[x])
              PROVE  InOrder(x, j)'
  BY Zenon DEF ChunksInOrder, InOrder
<1>. DEFINE t == data'[x][j][1]
            i == data'[x][j][2]
<1>4. CASE x # f
  <2>1. data'[x] = data[x]
    BY <1>1, <1>4, Zenon DEF AppendChunk
  <2>2. InOrder(x, j)
    BY <2>1, Zenon DEF ChunksInOrder, InOrder
  <2>. QED BY <2>1, <2>2, Zenon DEF InOrder
<1>5. CASE x = f /\ j # Len(data[f]) + 1
  <2>1. /\ j \in 1 .. Len(data[f]) /\ t = data[f][j][1] /\ i = data[f][j][2]
        /\ \A k \in 1 .. j - 1 : k \in 1 .. Len(data[f]) /\ data'[f][k] = data[f][k]
    BY <1>3, <1>5
  <2>2. InOrder(f, j)
    BY <2>1, Zenon DEF ChunksInOrder, InOrder
  <2>3. /\ \A h \in 0 .. i - 1 : \E k \in 1 .. j - 1 : data[f][k] = <<t, h>>
        /\ \A k \in 1 .. j - 1 : data[f][k][1] = t => data[f][k][2] < i
    BY <2>1, <2>2, Zenon DEF InOrder
  <2>. QED BY <2>1, <2>3, <1>5, Zenon DEF InOrder
<1>6. CASE x = f /\ j = Len(data[f]) + 1
  <2>1. t = cmd.t /\ i = cmd.i /\ 1 .. j - 1 = 1 .. Len(data[f])
    BY <1>3, <1>6
  <2>2. ASSUME NEW h \in 0 .. i - 1
        PROVE  \E k \in 1 .. j - 1 : data'[x][k] = <<t, h>>
    <3>1. Has(f, cmd.t, h)
      BY <2>1, <1>1
    <3>2. PICK k \in 1 .. Len(data[f]) : data[f][k] = <<t, h>>
      BY <3>1, <2>1, Zenon DEF Has
    <3>. QED BY <3>2, <2>1, <1>3, <1>6, Zenon
  <2>3. ASSUME NEW k \in 1 .. j - 1, data'[x][k][1] = t
        PROVE  data'[x][k][2] < i
    <3>1. k \in 1 .. Len(data[f]) /\ data'[x][k] = data[f][k]
      BY <2>1, <1>3, <1>6, Zenon
    <3>2. data[f][k] \in Chunks
      BY <3>1, <1>2
    <3>3. PICK u \in Transfers, h \in Nat : data[f][k] = <<u, h>>
      BY <3>2 DEF Chunks
    <3>4. u = t /\ data'[x][k][2] = h
      BY <3>1, <3>3, <2>3
    <3>5. Has(f, cmd.t, h)
      BY <3>1, <3>3, <3>4, <2>1, Zenon DEF Has
    <3>. QED BY <3>4, <3>5, <2>1, Zenon
  <2>. QED BY <2>2, <2>3, Zenon DEF InOrder
<1>. QED BY <1>4, <1>5, <1>6, Zenon

Wrote(t, f, cmd) ==
  /\ cmd.op = "chunk" /\ cmd.t = t /\ cmd.i = next[t]
  /\ \A h \in Nat : h < cmd.i => Has(f, t, h)
  /\ \A h \in Nat : Has(f, t, h) => h < cmd.i
  /\ \A x \in Transfers, i \in Nat : Has(x, t, i)' => x = f /\ i <= next[t]
  /\ \A i \in Nat : i <= next[t] => Has(f, t, i)'

\* The write for a transfer is such a write, and keeps its one file.
LEMMA WriteOf ==
  ASSUME Typed, NEW t \in Transfers, Tokens(t), Progress(t), OneFile(t), Working(t),
         NEW f, f = FileOf(t), NEW cmd, cmd = work[SessionOf[t]].cmd,
         work[SessionOf[t]].pc \in {"final", "writing"}, AppendChunk(f, cmd)
  PROVE  Wrote(t, f, cmd)
<1>. DEFINE s == SessionOf[t]
<1>1. s \in Sessions /\ next[t] \in Nat
  BY UploadAssumption, Zenon DEF Typed, UploadTypeOK
<1>2. f \in Transfers /\ cmd \in Command /\ cmd.op = "chunk"
  BY <1>1, Zenon DEF FileOf, Typed, UploadTypeOK, Shape, Busy, Writing
<1>3. cmd.t = t
  BY Zenon DEF Working, Works
<1>4. cmd.i = next[t] /\ \A x \in Transfers : ~Has(x, t, next[t])
  BY <1>2, Zenon DEF Progress, Unwritten
<1>5. InHand(t)
  BY Zenon DEF InHand
<1>6. \A x \in Transfers, i \in Nat : Has(x, t, i) => x = f /\ i <= next[t]
  BY <1>5, Zenon DEF OneFile, Progress
<1>7. \A h \in Nat : h < cmd.i => Has(f, t, h)
  BY <1>4, <1>6, Zenon DEF Progress
<1>8. \A h \in Nat : Has(f, t, h) => h < cmd.i
  BY <1>1, <1>2, <1>4, <1>6
<1>9. \A x \in Transfers, i \in Nat : Has(x, t, i)' <=> Has(x, t, i) \/ (x = f /\ i = cmd.i)
  BY <1>2, <1>3, AppendHas
<1>10. \A i \in Nat : i <= next[t] => Has(f, t, i)'
  BY <1>1, <1>2, <1>4, <1>7, <1>9
<1>11. \A x \in Transfers, i \in Nat : Has(x, t, i)' => x = f /\ i <= next[t]
  BY <1>1, <1>4, <1>6, <1>9
<1>. QED BY <1>2, <1>3, <1>4, <1>7, <1>8, <1>10, <1>11, Zenon DEF Wrote

-----------------------------------------------------------------------------
(* A transfer that a step is about.                                        *)

\* The client has the answer it waited for, or none yet, and sends its next
\* command or is done.
LEMMA SentTransfer ==
  ASSUME Typed, Typed', NEW t \in Transfers, OneFile(t),
         ~Waiting(t), ~Working(t), ~Answered(t)', call'[t] # "idle",
         UNCHANGED <<work, uploads, data>>,
         \A x \in Transfers, i \in Nat : Has(x, t, i) => i <= next'[t],
         \A i \in Nat : i < next'[t] => \E x \in Transfers : Has(x, t, i),
         NEW cmd, Unwritten(t, cmd)',
         \A j \in 1 .. Len(queue'[SessionOf[t]]) : queue'[SessionOf[t]][j].t = t =>
           \/ \E k \in 1 .. Len(queue[SessionOf[t]]) : queue[SessionOf[t]][k] = queue'[SessionOf[t]][j]
           \/ queue'[SessionOf[t]][j] = cmd
  PROVE  (Tokens(t) /\ Progress(t) /\ OneFile(t))'
<1>. DEFINE s == SessionOf[t]
<1>1. ~Working(t)' /\ ~InHand(t)'
  BY Zenon DEF Working, Works, Busy, InHand
<1>2. \A x \in Transfers, i \in Nat : Has(x, t, i)' <=> Has(x, t, i)
  BY Zenon DEF Has
<1>3. \A j \in 1 .. Len(queue'[s]) : queue'[s][j].t = t => queue'[s][j] = cmd
  BY Zenon DEF Waiting
<1>4. Tokens(t)'
  BY <1>1, Zenon DEF Tokens, Answered
<1>5. ASSUME NEW c, NEW j \in 1 .. Len(queue'[s]), c = queue'[s][j], c.t = t
      PROVE  Unwritten(t, c)'
  BY <1>3, <1>5, Zenon
<1>6. Progress(t)'
  BY <1>1, <1>2, <1>5, Zenon DEF Progress, Answered
<1>7. OneFile(t)'
  BY <1>1, <1>2, Zenon DEF OneFile
<1>. QED BY <1>4, <1>6, <1>7, Zenon

\* Its task takes its command.
LEMMA TakenTransfer ==
  ASSUME Typed, Typed', QueuesHome, QueuesUnique, NEW s \in Sessions, NEW op,
         NEW pc \in {"start", "last", "more", "notFound", "deleting"}, Take(s, op, pc),
         NEW t \in Transfers, Head(queue[s]).t = t, Tokens(t), Progress(t), OneFile(t),
         UNCHANGED <<call, next, replies, data>>, uploads'[t] \in {uploads[t], Nil}
  PROVE  (Tokens(t) /\ Progress(t) /\ OneFile(t))'
<1>1. queue[s] \in Seq(Command) /\ queue[s] # <<>>
  BY Zenon DEF Typed, UploadTypeOK, Take
<1>2. 1 \in 1 .. Len(queue[s]) /\ queue[s][1] = Head(queue[s])
  BY <1>1, FirstOf, Zenon
<1>3. SessionOf[t] = s /\ Waiting(t)
  BY <1>2, Zenon DEF QueuesHome, Waiting
<1>4. ~Waiting(t)'
  <2>. SUFFICES ASSUME NEW j \in 1 .. Len(queue'[s]), queue'[s][j].t = t PROVE FALSE
    BY <1>3, Zenon DEF Waiting
  <2>1. PICK k \in 1 .. Len(queue[s]) : queue'[s][j] = queue[s][k] /\ k # 1
    BY <1>1, ShorterQueues, Zenon DEF Take
  <2>. QED BY <2>1, <1>2, Zenon DEF QueuesUnique
<1>5. work'[s].pc = pc /\ work'[s].cmd = Head(queue[s])
  BY Zenon DEF Take, Typed, UploadTypeOK
<1>6. Working(t)' /\ ~InHand(t)'
  BY <1>3, <1>5, Zenon DEF Working, Works, Busy, InHand
<1>7. \A x \in Transfers, i \in Nat : Has(x, t, i)' <=> Has(x, t, i)
  BY Zenon DEF Has
<1>8. Tokens(t)'
  BY <1>3, <1>4, Zenon DEF Tokens, Answered
<1>9. ~Answered(t)'
  BY <1>3, Zenon DEF Tokens, Answered
<1>10. ASSUME NEW cmd, cmd = work'[s].cmd PROVE Unwritten(t, cmd)'
  <2>1. cmd = queue[s][1] /\ Unwritten(t, cmd)
    BY <1>2, <1>3, <1>5, <1>10, Zenon DEF Progress
  <2>. QED BY <2>1, Zenon DEF Unwritten, NoData, Has
<1>11. Progress(t)'
  BY <1>3, <1>4, <1>5, <1>7, <1>9, <1>10, Zenon DEF Progress, Waiting, Answered
<1>12. OneFile(t)'
  BY <1>6, <1>7, Zenon DEF OneFile
<1>. QED BY <1>8, <1>11, <1>12, Zenon

\* Its task answers.
LEMMA AnsweredTransfer ==
  ASSUME Typed, Typed', NEW t \in Transfers, Tokens(t), Working(t),
         NEW s, s = SessionOf[t], Done(s), Reply(s), UNCHANGED <<call, next, queue>>,
         NEW cmd, cmd = Cmd(s), Written(t, cmd)',
         NEW f \in Transfers, uploads'[t] \in {f, Nil},
         \A x \in Transfers, i \in Nat : Has(x, t, i)' => x = f /\ i <= next[t],
         \A i \in Nat : i < next[t] => \E x \in Transfers : Has(x, t, i)'
  PROVE  (Tokens(t) /\ Progress(t) /\ OneFile(t))'
<1>1. s \in Sessions
  BY UploadAssumption, Zenon
<1>2. ~Working(t)' /\ ~InHand(t)'
  BY <1>1, Zenon DEF Done, Idle, Working, Works, Busy, InHand, Typed, UploadTypeOK
<1>3. ~Waiting(t)' /\ ~Answered(t) /\ call'[t] # "idle"
  BY Zenon DEF Tokens, Waiting
<1>4. \A r \in replies' : r.t = t => r = cmd
  BY <1>3, Zenon DEF Reply, Answered
<1>5. Tokens(t)'
  BY <1>2, <1>3, <1>4, Zenon DEF Tokens
<1>6. ASSUME NEW r \in replies', r.t = t PROVE Written(t, r)'
  BY <1>4, <1>6, Zenon
<1>7. Progress(t)'
  BY <1>2, <1>3, <1>6, Zenon DEF Progress, Waiting
<1>8. OneFile(t)'
  BY <1>2, Zenon DEF OneFile
<1>. QED BY <1>5, <1>7, <1>8, Zenon

-----------------------------------------------------------------------------
(* The steps.                                                              *)

QueueKept(t) ==
  \A j \in 1 .. Len(queue'[SessionOf[t]]) : queue'[SessionOf[t]][j].t = t =>
    \E k \in 1 .. Len(queue[SessionOf[t]]) : queue[SessionOf[t]][k] = queue'[SessionOf[t]][j]

\* Files that are not written to keep their chunks and their order.
LEMMA SameData ==
  ASSUME data' = data
  PROVE  /\ \A t, x \in Transfers, i \in Nat : Has(x, t, i)' <=> Has(x, t, i)
         /\ ChunksInOrder => ChunksInOrder'
BY Zenon DEF Has, ChunksInOrder

\* Queues that nothing is sent to or taken from.
LEMMA SameQueue ==
  ASSUME queue' = queue
  PROVE  /\ QueuesHome => QueuesHome'
         /\ QueuesUnique => QueuesUnique'
         /\ \A t \in Transfers : QueueKept(t)
BY Zenon DEF QueuesHome, QueuesUnique, QueueKept

\* A transfer no task works for after the step.
LEMMA OtherTransfer ==
  ASSUME Typed, NEW s \in Sessions, NEW t \in Transfers,
         \A r \in Sessions : r # s => work'[r] = work[r], ~Works(s, t)',
         UNCHANGED <<call, next>>, QueueKept(t),
         \A r \in replies' : r.t = t => r \in replies,
         \A x \in Transfers, i \in Nat : Has(x, t, i)' <=> Has(x, t, i),
         uploads'[t] \in {uploads[t], Nil}
  PROVE  Kept(t)
<1>1. SessionOf[t] \in Sessions
  BY UploadAssumption, Zenon
<1>2. Working(t)' => Working(t) /\ SessionOf[t] # s /\ work'[SessionOf[t]] = work[SessionOf[t]]
  BY <1>1, Zenon DEF Working, Works, Busy
<1>3. InHand(t)' => InHand(t) /\ FileOf(t)' = FileOf(t)
  BY <1>2, Zenon DEF InHand, FileOf
<1>. QED BY <1>2, <1>3, Zenon DEF Kept, QueueKept

\* A transfer whose task is as before.
LEMMA IdleTransfer ==
  ASSUME NEW t \in Transfers, UNCHANGED <<work, data>>, replies' \subseteq replies,
         next'[t] = next[t], call'[t] = "idle" => call[t] = "idle", QueueKept(t),
         uploads'[t] \in {uploads[t], Nil}
  PROVE  Kept(t)
<1>1. (Working(t)' <=> Working(t)) /\ (InHand(t)' <=> InHand(t)) /\ FileOf(t)' = FileOf(t)
  BY Zenon DEF Working, Works, Busy, InHand, FileOf
<1>. QED BY <1>1, SameData, Zenon DEF Kept, QueueKept

\* All transfers are kept, and so is the order.
LEMMA AllKept ==
  ASSUME Typed, Typed', OrderInv, \A t \in Transfers : Kept(t),
         WorkHome', QueuesHome', QueuesUnique', data' = data
  PROVE  OrderInv'
BY KeptTransfer, SameData, Zenon DEF OrderInv, TransferInv

\* Steps that send nothing, answer nothing and leave the tasks alone.
LEMMA MapOrder ==
  ASSUME Typed, Typed', OrderInv, UNCHANGED <<next, queue, replies, work, data>>,
         \A t \in Transfers : call'[t] = "idle" => call[t] = "idle",
         \A t \in Transfers : uploads'[t] \in {uploads[t], Nil}
  PROVE  OrderInv'
<1>1. \A t \in Transfers : Kept(t)
  BY IdleTransfer, SameQueue, Zenon
<1>2. WorkHome'
  BY Zenon DEF OrderInv, WorkHome, Works, Busy
<1>. QED BY <1>1, <1>2, SameQueue, AllKept, Zenon DEF OrderInv

\* A command sent to a session, or none.
LEMMA SendOrder ==
  ASSUME Typed, Typed', OrderInv, UNCHANGED <<work, uploads, data>>, replies' \subseteq replies,
         NEW s \in Sessions, NEW cmd \in Command, Submit(s, cmd) \/ queue' = queue,
         cmd.t \in Transfers =>
           SessionOf[cmd.t] = s /\ ~Waiting(cmd.t) /\ (Tokens(cmd.t) /\ Progress(cmd.t) /\ OneFile(cmd.t))',
         \A u \in Transfers : u # cmd.t => next'[u] = next[u] /\ call'[u] = call[u]
  PROVE  OrderInv'
<1>1. /\ QueuesHome' /\ QueuesUnique'
      /\ \A u \in Transfers : u # cmd.t => QueueKept(u)
  <2>1. CASE Submit(s, cmd)
    <3>1. /\ QueuesHome' /\ QueuesUnique'
          /\ \A r \in Sessions : \A j \in 1 .. Len(queue'[r]) :
               \/ j \in 1 .. Len(queue[r]) /\ queue'[r][j] = queue[r][j]
               \/ r = s /\ queue'[r][j] = cmd
      BY <2>1, SubmitQueues DEF OrderInv
    <3>2. ASSUME NEW u \in Transfers, u # cmd.t, NEW j \in 1 .. Len(queue'[SessionOf[u]]),
                 queue'[SessionOf[u]][j].t = u
          PROVE  \E k \in 1 .. Len(queue[SessionOf[u]]) :
                   queue[SessionOf[u]][k] = queue'[SessionOf[u]][j]
      <4>1. SessionOf[u] \in Sessions
        BY UploadAssumption, Zenon
      <4>. QED BY <4>1, <3>1, <3>2, Zenon
    <3>. QED BY <3>1, <3>2, Zenon DEF QueueKept
  <2>2. CASE queue' = queue
    BY <2>2, SameQueue, Zenon DEF OrderInv
  <2>. QED BY <2>1, <2>2, Zenon
<1>2. ASSUME NEW u \in Transfers, u # cmd.t
      PROVE  (Tokens(u) /\ Progress(u) /\ OneFile(u))'
  <2>1. Kept(u)
    BY <1>1, <1>2, IdleTransfer, Zenon
  <2>. QED BY <2>1, KeptTransfer, Zenon DEF OrderInv, TransferInv
<1>3. TransferInv'
  BY <1>2, Zenon DEF TransferInv
<1>4. WorkHome'
  BY Zenon DEF OrderInv, WorkHome, Works, Busy
<1>. QED BY <1>1, <1>3, <1>4, SameData, Zenon DEF OrderInv

\* The steps of the browser.
LEMMA ClientOrder ==
  ASSUME Typed, Typed', OrderInv, NEW t \in Transfers,
         uploadFile(t) \/ handleUploadStartResponse(t) \/ handleUploadChunkAck(t) \/ GiveUp(t) \/ Lapse(t)
  PROVE  OrderInv'
<1>. DEFINE s == SessionOf[t]
<1>1. s \in Sessions /\ next[t] \in Nat /\ call \in [Transfers -> {"idle", "starting", "sending", "done", "failed"}]
      /\ next \in [Transfers -> Nat] /\ replies \subseteq Command
  BY UploadAssumption, Zenon DEF Typed, UploadTypeOK
<1>2. Tokens(t) /\ Progress(t) /\ OneFile(t)
  BY Zenon DEF OrderInv, TransferInv
<1>3. ASSUME NEW cmd \in Command, cmd.t = t, ~Waiting(t), Submit(s, cmd) \/ queue' = queue
      PROVE  \A j \in 1 .. Len(queue'[s]) : queue'[s][j].t = t =>
               \/ \E k \in 1 .. Len(queue[s]) : queue[s][k] = queue'[s][j]
               \/ queue'[s][j] = cmd
  <2>1. CASE Submit(s, cmd)
    <3>1. \A r \in Sessions : \A j \in 1 .. Len(queue'[r]) :
            \/ j \in 1 .. Len(queue[r]) /\ queue'[r][j] = queue[r][j]
            \/ r = s /\ queue'[r][j] = cmd
      BY <2>1, <1>1, <1>3, SubmitQueues, Zenon DEF OrderInv
    <3>. QED BY <3>1, <1>1, Zenon
  <2>2. CASE queue' = queue
    BY <2>2, Zenon
  <2>. QED BY <2>1, <2>2, <1>3, Zenon
<1>4. CASE uploadFile(t)
  <2>. DEFINE cmd == Start(t)
  <2>1. cmd \in Command /\ cmd.t = t /\ cmd.op = "start"
    BY Commands, Zenon
  <2>. HIDE DEF cmd
  <2>2. /\ call[t] = "idle" /\ call' = [call EXCEPT ![t] = "starting"] /\ Submit(s, cmd)
        /\ UNCHANGED <<next, replies, work, uploads, data>>
    BY <1>4, Zenon DEF uploadFile, fileVars, cmd
  <2>3. call'[t] # "idle" /\ \A u \in Transfers : u # t => call'[u] = call[u]
    BY <2>2, <1>1, Zenon
  <2>4. ~Waiting(t) /\ ~Working(t) /\ ~Answered(t) /\ next[t] = 0 /\ NoData(t)
    BY <2>2, <1>2, Zenon DEF Tokens
  <2>5. ~Answered(t)' /\ NoData(t)'
    BY <2>2, <2>4, Zenon DEF Answered, NoData, Has
  <2>6. Unwritten(t, cmd)'
    BY <2>1, <2>2, <2>4, <2>5, Zenon DEF Unwritten
  <2>7. \A x \in Transfers, i \in Nat : ~Has(x, t, i)
    BY <2>4, Zenon DEF NoData
  <2>8. \A i \in Nat : ~(i < next'[t])
    BY <2>2, <2>4
  <2>9. (Tokens(t) /\ Progress(t) /\ OneFile(t))'
    BY <2>1, <2>2, <2>3, <2>4, <2>5, <2>6, <2>7, <2>8, <1>2, <1>3, SentTransfer, Zenon
  <2>. QED BY <2>1, <2>2, <2>3, <2>4, <2>9, <1>1, SendOrder, Zenon
<1>5. ASSUME NEW n \in Nat, NEW old \in replies, old.t = t, replies' = replies \ {old},
             SendOrFinish(t, n), next' = [next EXCEPT ![t] = n], UNCHANGED <<work, uploads, data>>,
             \A x \in Transfers, i \in Nat : Has(x, t, i) => i < n,
             \A i \in Nat : i < n => \E x \in Transfers : Has(x, t, i)
      PROVE  OrderInv'
  <2>. DEFINE cmd == Chunk(t, n)
  <2>1. cmd \in Command /\ cmd.t = t /\ cmd.op = "chunk" /\ cmd.i = n
    BY Commands
  <2>2. Submit(s, cmd) \/ queue' = queue
    BY <1>5, Zenon DEF SendOrFinish
  <2>. HIDE DEF cmd
  <2>3. call'[t] # "idle" /\ \A u \in Transfers : u # t => call'[u] = call[u] /\ next'[u] = next[u]
    BY <1>1, <1>5, Zenon DEF SendOrFinish
  <2>4. next'[t] = n
    BY <1>1, <1>5, Zenon
  <2>5. ~Waiting(t) /\ ~Working(t)
    BY <1>2, <1>5, Zenon DEF Tokens, Answered
  <2>6. ~Answered(t)'
    BY <1>2, <1>5, Zenon DEF Tokens, Answered
  <2>7. \A x \in Transfers : ~Has(x, t, n)'
    BY <1>5, SameData
  <2>8. Unwritten(t, cmd)'
    BY <2>1, <2>4, <2>7, Zenon DEF Unwritten
  <2>9. \A x \in Transfers, i \in Nat : Has(x, t, i) => i <= next'[t]
    BY <2>4, <1>5
  <2>10. \A i \in Nat : i < next'[t] => \E x \in Transfers : Has(x, t, i)
    BY <2>4, <1>5, Zenon
  <2>11. (Tokens(t) /\ Progress(t) /\ OneFile(t))'
    BY <2>1, <2>2, <2>3, <2>5, <2>6, <2>8, <2>9, <2>10, <1>2, <1>3, <1>5, SentTransfer, Zenon
  <2>12. replies' \subseteq replies /\ UNCHANGED <<work, uploads, data>>
    BY <1>5, Zenon
  <2>. QED BY <2>1, <2>2, <2>3, <2>5, <2>11, <2>12, <1>1, SendOrder, Zenon
<1>6. CASE handleUploadStartResponse(t)
  <2>1. /\ Start(t) \in replies /\ replies' = replies \ {Start(t)} /\ SendOrFinish(t, 0)
        /\ UNCHANGED <<next, work, uploads, data>>
    BY <1>6, Zenon DEF handleUploadStartResponse, fileVars
  <2>2. Start(t).t = t /\ Start(t).op = "start"
    BY Commands, Zenon
  <2>3. next[t] = 0 /\ NoData(t)
    BY <2>1, <2>2, <1>2, Zenon DEF Progress, Written
  <2>4. next' = [next EXCEPT ![t] = 0]
    BY <2>1, <2>3, <1>1, Zenon
  <2>5. /\ \A x \in Transfers, i \in Nat : Has(x, t, i) => i < 0
        /\ \A i \in Nat : i < 0 => \E x \in Transfers : Has(x, t, i)
    BY <2>3 DEF NoData
  <2>. QED BY <2>1, <2>2, <2>4, <2>5, <1>5, Zenon
<1>7. CASE handleUploadChunkAck(t)
  <2>. DEFINE m == next[t]
  <2>1. /\ Chunk(t, m) \in replies /\ replies' = replies \ {Chunk(t, m)} /\ SendOrFinish(t, m + 1)
        /\ next' = [next EXCEPT ![t] = m + 1] /\ UNCHANGED <<work, uploads, data>>
    BY <1>7, Zenon DEF handleUploadChunkAck, fileVars
  <2>2. m \in Nat /\ Chunk(t, m).t = t /\ Chunk(t, m).op = "chunk" /\ Chunk(t, m).i = m
    BY <1>1, Zenon DEF Chunk
  <2>3. \E x \in Transfers : Has(x, t, m)
    BY <2>1, <2>2, <1>2, Zenon DEF Progress, Written
  <2>4. /\ \A x \in Transfers, i \in Nat : Has(x, t, i) => i < m + 1
        /\ \A i \in Nat : i < m + 1 => \E x \in Transfers : Has(x, t, i)
    <3>1. /\ \A x \in Transfers, i \in Nat : Has(x, t, i) => i <= m
          /\ \A i \in Nat : i < m => \E x \in Transfers : Has(x, t, i)
      BY <1>2, Zenon DEF Progress
    <3>. HIDE DEF m
    <3>2. \A i \in Nat : (i <= m => i < m + 1) /\ (i < m + 1 => i < m \/ i = m)
      BY <2>2
    <3>. QED BY <3>1, <3>2, <2>3, Zenon
  <2>5. m + 1 \in Nat
    BY <2>2
  <2>. DEFINE n == m + 1
  <2>. HIDE DEF n
  <2>6. n \in Nat /\ SendOrFinish(t, n) /\ next' = [next EXCEPT ![t] = n]
    BY <2>1, <2>5, Zenon DEF n
  <2>7. /\ \A x \in Transfers, i \in Nat : Has(x, t, i) => i < n
        /\ \A i \in Nat : i < n => \E x \in Transfers : Has(x, t, i)
    BY <2>4, Zenon DEF n
  <2>. QED BY <2>1, <2>2, <2>6, <2>7, <1>5, Zenon
<1>8. CASE GiveUp(t) \/ Lapse(t)
  BY <1>1, <1>8, MapOrder, Zenon DEF GiveUp, Lapse, fileVars, clientVars
<1>. QED BY <1>4, <1>6, <1>7, <1>8, Zenon

\* A deletion is asked for, entries are removed, a client disconnects.
LEMMA OthersOrder ==
  ASSUME Typed, Typed', OrderInv,
         \/ \E s \in Sessions, p \in Paths : deleteFile(s, p)
         \/ \E k \in Sweepers, t \in Transfers : SweepOne(k, t)
         \/ cleanup_abandoned_uploads
         \/ \E c \in Clients : ConnectionDisconnect(c) \/ close_uploads_for_cid(c)
  PROVE  OrderInv'
<1>1. CASE \E s \in Sessions, p \in Paths : deleteFile(s, p)
  <2>1. PICK s \in Sessions, p \in Paths : deleteFile(s, p)
    BY <1>1, Zenon
  <2>2. Delete(p) \in Command /\ Delete(p).t \notin Transfers
    BY Commands, Zenon
  <2>. QED BY <2>1, <2>2, SendOrder, Zenon DEF deleteFile, fileVars
<1>2. CASE \E k \in Sweepers, t \in Transfers : SweepOne(k, t)
  BY <1>2, MapOrder, Zenon DEF SweepOne, RemoveEntries, fileVars, clientVars
<1>3. CASE cleanup_abandoned_uploads \/ \E c \in Clients : ConnectionDisconnect(c) \/ close_uploads_for_cid(c)
  BY <1>3, MapOrder, Zenon DEF cleanup_abandoned_uploads, ConnectionDisconnect,
     close_uploads_for_cid, fileVars, clientVars
<1>. QED BY <1>1, <1>2, <1>3, Zenon

\* A task that is done, with or without an answer, with or without a write.
LEMMA DoneOthers ==
  ASSUME Typed, WorkHome, NEW s \in Sessions, Done(s)
  PROVE  /\ WorkHome'
         /\ \A r \in Sessions : r # s => work'[r] = work[r]
         /\ \A t \in Transfers : ~Works(s, t)'
<1>1. work'[s] = Idle /\ \A r \in Sessions : r # s => work'[r] = work[r]
  BY Zenon DEF Done, Typed, UploadTypeOK
<1>2. work'[s].pc = "idle"
  BY <1>1 DEF Idle
<1>3. \A t \in Transfers : ~Works(s, t)'
  BY <1>2, Zenon DEF Works, Busy
<1>. QED BY <1>1, <1>3, Zenon DEF WorkHome, Works, Busy

\* A task that moves on with its command.
LEMMA GotoOthers ==
  ASSUME Typed, WorkHome, NEW s \in Sessions, NEW pc, NEW file, Goto(s, pc, file), Busy(s)
  PROVE  /\ WorkHome'
         /\ \A r \in Sessions : r # s => work'[r] = work[r]
         /\ \A t \in Transfers : Works(s, t)' => Works(s, t)
         /\ work'[s].pc = pc /\ work'[s].file = file /\ work'[s].cmd = work[s].cmd
<1>1. /\ work'[s] = [work[s] EXCEPT !.pc = pc, !.file = file]
      /\ \A r \in Sessions : r # s => work'[r] = work[r]
  BY Zenon DEF Goto, Typed, UploadTypeOK
<1>2. work'[s].pc = pc /\ work'[s].file = file /\ work'[s].cmd = work[s].cmd
  BY <1>1, ZenonT(20) DEF Typed, UploadTypeOK
<1>3. \A t \in Transfers : Works(s, t)' => Works(s, t)
  BY <1>2, Zenon DEF Works
<1>4. WorkHome'
  <2>1. \A r \in Sessions, t \in Transfers : Works(r, t)' => Works(r, t)
    BY <1>1, <1>3, Zenon DEF Works, Busy
  <2>. QED BY <2>1, Zenon DEF WorkHome
<1>. QED BY <1>1, <1>2, <1>3, <1>4, Zenon

\* A task that ends its command without answering.
LEMMA DoneOrder ==
  ASSUME Typed, Typed', OrderInv, NEW s \in Sessions, Done(s), UNCHANGED <<call, next, queue, replies, data>>,
         \A t \in Transfers : uploads'[t] \in {uploads[t], Nil}
  PROVE  OrderInv'
<1>1. /\ WorkHome'
      /\ \A r \in Sessions : r # s => work'[r] = work[r]
      /\ \A t \in Transfers : ~Works(s, t)'
  BY DoneOthers, Zenon DEF OrderInv
<1>2. \A t \in Transfers : Kept(t)
  BY <1>1, SameQueue, SameData, OtherTransfer, Zenon
<1>. QED BY <1>1, <1>2, SameQueue, AllKept, Zenon DEF OrderInv

\* A task that goes on, before its write or after it has failed.
LEMMA GotoOrder ==
  ASSUME Typed, Typed', OrderInv, NEW s \in Sessions, NEW pc \in {"opened", "final", "writing", "failed"},
         NEW file, Goto(s, pc, file), Busy(s), work[s].pc # "rename",
         UNCHANGED <<call, next, queue, replies, data>>,
         \A t \in Transfers : uploads'[t] \in {uploads[t], Nil},
         \/ pc = "opened"
         \/ file = uploads[Cmd(s).t]
         \/ work[s].pc = "writing" /\ file = work[s].file
  PROVE  OrderInv'
<1>1. /\ WorkHome'
      /\ \A r \in Sessions : r # s => work'[r] = work[r]
      /\ \A t \in Transfers : Works(s, t)' => Works(s, t)
      /\ work'[s].pc = pc /\ work'[s].file = file /\ work'[s].cmd = work[s].cmd
  BY GotoOthers, Zenon DEF OrderInv
<1>2. ASSUME NEW t \in Transfers PROVE Kept(t)
  <2>1. CASE ~Works(s, t)
    BY <2>1, <1>1, SameQueue, SameData, OtherTransfer, Zenon
  <2>2. CASE Works(s, t)
    <3>1. SessionOf[t] = s /\ Working(t) /\ Cmd(s).t = t
      BY <2>2, Zenon DEF OrderInv, WorkHome, Working, Works, Cmd
    <3>2. InHand(t)' => (InHand(t) /\ FileOf(t)' = FileOf(t)) \/ FileOf(t)' = uploads[t]
      BY <3>1, <1>1, Zenon DEF InHand, FileOf
    <3>. QED BY <3>1, <3>2, <1>1, SameQueue, SameData, Zenon DEF Kept, QueueKept
  <2>. QED BY <2>1, <2>2, Zenon
<1>. QED BY <1>1, <1>2, SameQueue, AllKept, Zenon DEF OrderInv

\* A task that takes a command.
LEMMA TakeOrder ==
  ASSUME Typed, Typed', OrderInv, NEW s \in Sessions, NEW op,
         NEW pc \in {"start", "last", "more", "notFound", "deleting"}, Take(s, op, pc),
         UNCHANGED <<call, next, replies, data>>,
         \A t \in Transfers : uploads'[t] \in {uploads[t], Nil}
  PROVE  OrderInv'
<1>1. queue[s] # <<>> /\ queue' = [queue EXCEPT ![s] = Tail(@)] /\ queue[s] \in Seq(Command)
  BY Zenon DEF Take, Typed, UploadTypeOK
<1>2. /\ QueuesHome' /\ QueuesUnique'
      /\ \A r \in Sessions : \A j \in 1 .. Len(queue'[r]) :
           \E k \in 1 .. Len(queue[r]) : queue'[r][j] = queue[r][k] /\ (r = s => k # 1)
  BY <1>1, ShorterQueues, Zenon DEF OrderInv
<1>3. \A t \in Transfers : QueueKept(t)
  BY <1>2, UploadAssumption DEF QueueKept
<1>4. work'[s].cmd = Head(queue[s]) /\ \A r \in Sessions : r # s => work'[r] = work[r]
  BY Zenon DEF Take, Typed, UploadTypeOK
<1>5. 1 \in 1 .. Len(queue[s]) /\ queue[s][1] = Head(queue[s])
  BY <1>1, FirstOf, Zenon
<1>6. WorkHome'
  <2>. SUFFICES ASSUME NEW r \in Sessions, NEW t \in Transfers, Works(r, t)' PROVE SessionOf[t] = r
    BY Zenon DEF WorkHome
  <2>1. CASE r = s
    <3>1. queue[s][1].t = t
      BY <2>1, <1>4, <1>5, Zenon DEF Works
    <3>. QED BY <3>1, <2>1, <1>5, Zenon DEF OrderInv, QueuesHome
  <2>2. CASE r # s
    <3>1. Works(r, t)
      BY <2>2, <1>4, Zenon DEF Works, Busy
    <3>. QED BY <3>1, Zenon DEF OrderInv, WorkHome
  <2>. QED BY <2>1, <2>2, Zenon
<1>7. ASSUME NEW t \in Transfers PROVE (Tokens(t) /\ Progress(t) /\ OneFile(t))'
  <2>1. CASE Head(queue[s]).t = t
    BY <2>1, TakenTransfer, Zenon DEF OrderInv, TransferInv
  <2>2. CASE Head(queue[s]).t # t
    <3>1. ~Works(s, t)'
      BY <2>2, <1>4, Zenon DEF Works
    <3>2. Kept(t)
      BY <3>1, <1>3, <1>4, SameData, OtherTransfer, Zenon
    <3>. QED BY <3>2, KeptTransfer, Zenon DEF OrderInv, TransferInv
  <2>. QED BY <2>1, <2>2, Zenon
<1>8. TransferInv'
  BY <1>7, Zenon DEF TransferInv
<1>. QED BY <1>2, <1>6, <1>8, SameData, Zenon DEF OrderInv

\* A step of the task that works for a transfer leaves the others alone.
LEMMA FocusOrder ==
  ASSUME Typed, Typed', OrderInv, NEW s \in Sessions, NEW t \in Transfers, Cmd(s).t = t,
         WorkHome', \A r \in Sessions : r # s => work'[r] = work[r],
         \A u \in Transfers : u # t => ~Works(s, u)',
         UNCHANGED <<call, next, queue>>, replies' \subseteq replies \cup {Cmd(s)},
         \A u, x \in Transfers, i \in Nat : u # t => (Has(x, u, i)' <=> Has(x, u, i)),
         \A u \in Transfers : u # t => uploads'[u] \in {uploads[u], Nil},
         ChunksInOrder', (Tokens(t) /\ Progress(t) /\ OneFile(t))'
  PROVE  OrderInv'
<1>1. ASSUME NEW u \in Transfers, u # t PROVE (Tokens(u) /\ Progress(u) /\ OneFile(u))'
  <2>1. Kept(u)
    BY <1>1, SameQueue, OtherTransfer, Zenon
  <2>. QED BY <2>1, KeptTransfer, Zenon DEF OrderInv, TransferInv
<1>2. TransferInv'
  BY <1>1, Zenon DEF TransferInv
<1>. QED BY <1>2, SameQueue, Zenon DEF OrderInv

\* The steps that insert an entry, write or rename.
LEMMA WorkOrder ==
  ASSUME Typed, Typed', OrderInv, NEW s \in Sessions, UNCHANGED <<call, next>>,
         InsertUpload(s) \/ WriteLast(s) \/ RenameTemp(s) \/ WriteChunk(s)
  PROVE  OrderInv'
<1>. SUFFICES ASSUME NEW cmd, cmd = Cmd(s), NEW t, t = cmd.t, NEW f, f = work[s].file
              PROVE  OrderInv'
  BY Zenon
<1>1. work[s].pc \in {"opened", "final", "rename", "writing"}
  BY Zenon DEF InsertUpload, WriteLast, RenameTemp, WriteChunk, At
<1>2. cmd \in Command /\ t \in Transfers /\ Busy(s) /\ f \in Transfers
  BY <1>1, TypedSplits, CommandAtWork, Zenon DEF Opening, Writing, Busy, Typed, UploadTypeOK
<1>3. SessionOf[t] = s /\ Working(t) /\ FileOf(t) = f /\ work[SessionOf[t]].cmd = cmd
  BY <1>2, Zenon DEF OrderInv, WorkHome, Working, Works, FileOf, Cmd
<1>4. Tokens(t) /\ Progress(t) /\ OneFile(t) /\ next[t] \in Nat
  BY <1>2, Zenon DEF OrderInv, TransferInv, Typed, UploadTypeOK
<1>5. Done(s) => /\ WorkHome'
                 /\ \A r \in Sessions : r # s => work'[r] = work[r]
                 /\ \A u \in Transfers : ~Works(s, u)'
  BY DoneOthers, Zenon DEF OrderInv
<1>6. ASSUME AppendChunk(f, cmd), work[s].pc \in {"final", "writing"}
      PROVE  /\ cmd.op = "chunk" /\ cmd.i = next[t]
             /\ \A x \in Transfers, i \in Nat : Has(x, t, i)' => x = f /\ i <= next[t]
             /\ Written(t, cmd)'
             /\ \A i \in Nat : i < next[t] => \E x \in Transfers : Has(x, t, i)'
             /\ \A u, x \in Transfers, i \in Nat : u # t => (Has(x, u, i)' <=> Has(x, u, i))
             /\ ChunksInOrder'
  <2>1. /\ cmd.op = "chunk" /\ cmd.t = t /\ cmd.i = next[t]
        /\ \A h \in Nat : h < cmd.i => Has(f, t, h)
        /\ \A h \in Nat : Has(f, t, h) => h < cmd.i
        /\ \A x \in Transfers, i \in Nat : Has(x, t, i)' => x = f /\ i <= next[t]
        /\ \A i \in Nat : i <= next[t] => Has(f, t, i)'
    <3>1. /\ f = FileOf(t) /\ cmd = work[SessionOf[t]].cmd
          /\ work[SessionOf[t]].pc \in {"final", "writing"}
      BY <1>3, <1>6, Zenon
    <3>2. Wrote(t, f, cmd)
      BY <3>1, <1>2, <1>3, <1>4, <1>6, WriteOf, Zenon
    <3>. QED BY <3>2, Zenon DEF Wrote
  <2>2. \A u, x \in Transfers, i \in Nat : u # t => (Has(x, u, i)' <=> Has(x, u, i))
    BY <2>1, <1>2, <1>6, AppendHas, Zenon
  <2>3. ChunksInOrder'
    BY <2>1, <1>2, <1>6, AppendInOrder, Zenon DEF OrderInv
  <2>4. \A i \in Nat : i < next[t] \/ i = next[t] => i <= next[t]
    BY <1>4
  <2>5. Has(f, t, cmd.i)' /\ \A i \in Nat : i < next[t] => Has(f, t, i)'
    BY <2>1, <2>4, <1>4, Zenon
  <2>6. Written(t, cmd)'
    BY <2>1, <2>5, <1>2, Zenon DEF Written
  <2>. QED BY <2>1, <2>2, <2>3, <2>5, <2>6, <1>2, Zenon
<1>7. Cmd(s) = cmd /\ cmd.t = t /\ work[s].file = f
  BY Zenon
<1>8. CASE InsertUpload(s)
  <2>1. /\ Done(s) /\ Reply(s) /\ work[s].pc = "opened" /\ uploads' = [uploads EXCEPT ![t] = f]
        /\ UNCHANGED <<queue, data>>
    BY <1>7, <1>8, Zenon DEF InsertUpload, At, fileVars
  <2>2. cmd.op = "start"
    BY <2>1, <1>7, Zenon DEF Cmd, Typed, Shape, Opening
  <2>3. next[t] = 0 /\ NoData(t)
    BY <2>1, <2>2, <1>3, <1>4, Zenon DEF Progress, Unwritten
  <2>4. \A x \in Transfers, i \in Nat : ~Has(x, t, i)'
    BY <2>1, <2>3, Zenon DEF NoData, Has
  <2>5. Written(t, cmd)'
    BY <2>2, <2>3, <2>4, Zenon DEF Written, NoData
  <2>6. uploads'[t] = f /\ \A u \in Transfers : u # t => uploads'[u] = uploads[u]
    BY <2>1, <1>2, Zenon DEF Typed, UploadTypeOK
  <2>10. /\ \A x \in Transfers, i \in Nat : Has(x, t, i)' => x = f /\ i <= next[t]
         /\ \A i \in Nat : i < next[t] => \E x \in Transfers : Has(x, t, i)'
    BY <2>3, <2>4
  <2>7. (Tokens(t) /\ Progress(t) /\ OneFile(t))'
    BY <2>1, <2>5, <2>6, <2>10, <1>2, <1>3, <1>4, <1>7, AnsweredTransfer, Zenon
  <2>8. ChunksInOrder' /\ \A u, x \in Transfers, i \in Nat : Has(x, u, i)' <=> Has(x, u, i)
    BY <2>1, SameData, Zenon DEF OrderInv
  <2>9. replies' \subseteq replies \cup {Cmd(s)}
    BY <2>1, Zenon DEF Reply
  <2>. QED BY <2>1, <2>6, <2>7, <2>8, <2>9, <1>2, <1>5, <1>7, FocusOrder, Zenon
<1>9. CASE RenameTemp(s)
  <2>1. Done(s) /\ Reply(s) /\ work[s].pc = "rename" /\ UNCHANGED <<queue, data, uploads>>
    BY <1>9, Zenon DEF RenameTemp, At
  <2>2. cmd.op = "chunk" /\ cmd.i \in Nat
    BY <2>1, <1>2, <1>7, Commands, Zenon DEF Cmd, Typed, Shape, Writing
  <2>3. Written(t, cmd)'
    BY <2>1, <2>2, <1>3, <1>4, SameData, <1>2, Zenon DEF Progress, Written
  <2>4. InHand(t)
    BY <2>1, <1>3, Zenon DEF InHand
  <2>5. uploads'[t] \in {f, Nil}
    BY <2>1, <2>4, <1>3, <1>4, Zenon DEF OneFile
  <2>6. ChunksInOrder' /\ \A u, x \in Transfers, i \in Nat : Has(x, u, i)' <=> Has(x, u, i)
    BY <2>1, SameData, Zenon DEF OrderInv
  <2>7. /\ \A x \in Transfers, i \in Nat : Has(x, t, i)' => x = f /\ i <= next[t]
        /\ \A i \in Nat : i < next[t] => \E x \in Transfers : Has(x, t, i)'
    BY <2>4, <2>6, <1>2, <1>3, <1>4, Zenon DEF OneFile, Progress
  <2>8. (Tokens(t) /\ Progress(t) /\ OneFile(t))'
    BY <2>1, <2>3, <2>5, <2>7, <1>2, <1>3, <1>4, <1>7, AnsweredTransfer, Zenon
  <2>9. replies' \subseteq replies \cup {Cmd(s)}
    BY <2>1, Zenon DEF Reply
  <2>. QED BY <2>1, <2>6, <2>8, <2>9, <1>2, <1>5, <1>7, FocusOrder, Zenon
<1>10. CASE WriteChunk(s)
  <2>1. /\ Done(s) /\ Reply(s) /\ work[s].pc = "writing" /\ AppendChunk(f, cmd)
        /\ UNCHANGED <<queue, uploads>>
    BY <1>7, <1>10, Zenon DEF WriteChunk, At
  <2>2. InHand(t)
    BY <2>1, <1>3, Zenon DEF InHand
  <2>3. uploads'[t] \in {f, Nil}
    BY <2>1, <2>2, <1>3, <1>4, Zenon DEF OneFile
  <2>4. /\ Written(t, cmd)'
        /\ \A x \in Transfers, i \in Nat : Has(x, t, i)' => x = f /\ i <= next[t]
        /\ \A i \in Nat : i < next[t] => \E x \in Transfers : Has(x, t, i)'
    BY <2>1, <1>6, Zenon
  <2>6. (Tokens(t) /\ Progress(t) /\ OneFile(t))'
    BY <2>1, <2>3, <2>4, <1>2, <1>3, <1>4, <1>7, AnsweredTransfer, Zenon
  <2>7. replies' \subseteq replies \cup {Cmd(s)}
    BY <2>1, Zenon DEF Reply
  <2>. QED BY <2>1, <2>6, <2>7, <1>2, <1>5, <1>6, <1>7, FocusOrder, Zenon
<1>11. CASE WriteLast(s) /\ data' = data /\ Done(s)
  BY <1>11, DoneOrder, Zenon DEF WriteLast
<1>12. CASE WriteLast(s) /\ AppendChunk(f, cmd) /\ Goto(s, "rename", f)
  <2>1. /\ Goto(s, "rename", f) /\ work[s].pc = "final" /\ AppendChunk(f, cmd)
        /\ UNCHANGED <<queue, replies, uploads>>
    BY <1>7, <1>12, Zenon DEF WriteLast, At
  <2>2. /\ WorkHome'
        /\ \A r \in Sessions : r # s => work'[r] = work[r]
        /\ \A u \in Transfers : Works(s, u)' => Works(s, u)
        /\ work'[s].pc = "rename" /\ work'[s].file = f /\ work'[s].cmd = work[s].cmd
    BY <2>1, <1>2, GotoOthers, Zenon DEF OrderInv
  <2>3. InHand(t) /\ uploads[t] \in {f, Nil}
    BY <2>1, <1>3, <1>4, Zenon DEF InHand, OneFile
  <2>4. \A u \in Transfers : u # t => ~Works(s, u)'
    BY <2>2, <1>7, Zenon DEF Works, Cmd
  <2>5. Working(t)' /\ InHand(t)' /\ FileOf(t)' = f
    BY <2>2, <1>3, <1>7, Zenon DEF Working, Works, Busy, InHand, FileOf, Cmd
  <2>6. ~Waiting(t)' /\ ~Answered(t)' /\ call'[t] # "idle"
    BY <2>1, <1>3, <1>4, Zenon DEF Tokens, Waiting, Answered
  <2>7. Tokens(t)'
    BY <2>6, Zenon DEF Tokens, Answered
  <2>8. Written(t, cmd)'
    BY <2>1, <1>6, Zenon
  <2>9. ASSUME NEW c, c = work'[s].cmd PROVE Written(t, c)'
    BY <2>2, <2>8, <2>9, <1>7, Zenon DEF Cmd
  <2>10. /\ \A x \in Transfers, i \in Nat : Has(x, t, i)' => x = f /\ i <= next[t]
         /\ \A i \in Nat : i < next[t] => \E x \in Transfers : Has(x, t, i)'
    BY <2>1, <1>6, Zenon
  <2>11. Progress(t)'
    BY <2>2, <2>6, <2>9, <2>10, <1>3, Zenon DEF Progress, Waiting, Answered
  <2>12. OneFile(t)'
    BY <2>1, <2>3, <2>5, <2>10, Zenon DEF OneFile
  <2>. QED BY <2>1, <2>2, <2>4, <2>7, <2>11, <2>12, <1>2, <1>6, <1>7, FocusOrder, Zenon
<1>. QED BY <1>7, <1>8, <1>9, <1>10, <1>11, <1>12, Zenon DEF WriteLast

\* The steps of a session task.
LEMMA SessionOrder ==
  ASSUME Typed, Typed', OrderInv, NEW s \in Sessions, SessionStep(s)
  PROVE  OrderInv'
<1>1. UNCHANGED <<call, next>>
  BY Zenon DEF SessionStep, clientVars
<1>2. \A T : RemoveEntries(T) => \A t \in Transfers : uploads'[t] \in {uploads[t], Nil}
  BY Zenon DEF RemoveEntries
<1>3. CASE SessionStops(s)
  <2>1. /\ queue' = [queue EXCEPT ![s] = <<>>] /\ UNCHANGED <<replies, uploads, data>>
        /\ work'[s].pc = "closed" /\ \A r \in Sessions : r # s => work'[r] = work[r]
    <3>1. work' = [work EXCEPT ![s].pc = "closed", ![s].file = Nil]
      BY <1>3, Zenon DEF SessionStops, Goto
    <3>2. work'[s].pc = "closed" /\ \A r \in Sessions : r # s => work'[r] = work[r]
      BY <3>1 DEF Typed, UploadTypeOK
    <3>. QED BY <3>2, <1>3, Zenon DEF SessionStops, fileVars
  <2>2. /\ QueuesHome' /\ QueuesUnique'
        /\ \A r \in Sessions : \A j \in 1 .. Len(queue'[r]) :
             \E k \in 1 .. Len(queue[r]) : queue'[r][j] = queue[r][k] /\ (r = s => k # 1)
    BY <2>1, ShorterQueues, Zenon DEF OrderInv
  <2>3. \A t \in Transfers : QueueKept(t)
    <3>. SUFFICES ASSUME NEW t \in Transfers, NEW j \in 1 .. Len(queue'[SessionOf[t]])
                  PROVE  \E k \in 1 .. Len(queue[SessionOf[t]]) :
                           queue[SessionOf[t]][k] = queue'[SessionOf[t]][j]
      BY Zenon DEF QueueKept
    <3>1. SessionOf[t] \in Sessions
      BY UploadAssumption, Zenon
    <3>. QED BY <3>1, <2>2, Zenon
  <2>4. \A t \in Transfers : ~Works(s, t)'
    BY <2>1, Zenon DEF Works, Busy
  <2>5. WorkHome'
    BY <2>1, <2>4, Zenon DEF OrderInv, WorkHome, Works, Busy
  <2>6. \A t \in Transfers : Kept(t)
    BY <2>1, <2>3, <2>4, <1>1, SameData, OtherTransfer, Zenon
  <2>. QED BY <2>1, <2>2, <2>5, <2>6, AllKept, Zenon
<1>4. CASE StartUpload(s) \/ CheckChunk(s) \/ CancelUploads(s)
  <2>1. \E op, pc : /\ pc \in {"start", "last", "more", "notFound", "deleting"} /\ Take(s, op, pc)
                    /\ UNCHANGED <<replies, data>>
    BY <1>4, Zenon DEF StartUpload, CheckChunk, CancelUploads, fileVars
  <2>2. \A t \in Transfers : uploads'[t] \in {uploads[t], Nil}
    BY <1>2, <1>4, Zenon DEF StartUpload, CheckChunk, CancelUploads
  <2>. QED BY <2>1, <2>2, <1>1, TakeOrder, Zenon
<1>5. CASE OpenTemp(s) \/ TakeLast(s) \/ LockEntry(s) \/ WriteFails(s)
  <2>1. Busy(s) /\ work[s].pc # "rename" /\ UNCHANGED <<queue, replies, data>>
    BY <1>5, Zenon DEF OpenTemp, TakeLast, LockEntry, WriteFails, At, Busy, fileVars
  <2>2. \A t \in Transfers : uploads'[t] \in {uploads[t], Nil}
    BY <1>2, <1>5, Zenon DEF OpenTemp, TakeLast, LockEntry, WriteFails
  <2>3. \E pc, file : /\ pc \in {"opened", "final", "writing", "failed"} /\ Goto(s, pc, file)
                      /\ \/ pc = "opened"
                         \/ file = uploads[Cmd(s).t]
                         \/ work[s].pc = "writing" /\ file = work[s].file
    BY <1>5, Zenon DEF OpenTemp, TakeLast, LockEntry, WriteFails, At
  <2>. QED BY <2>1, <2>2, <2>3, <1>1, GotoOrder, Zenon
<1>6. CASE OpenFails(s) \/ NotFound(s) \/ RenameFails(s) \/ DropFailed(s) \/ RemoveFile(s)
  <2>1. \A t \in Transfers : uploads'[t] \in {uploads[t], Nil}
    BY <1>2, <1>6, Zenon DEF OpenFails, NotFound, RenameFails, DropFailed, RemoveFile
  <2>2. Done(s) /\ UNCHANGED <<queue, replies, data>>
    BY <1>6, Zenon DEF OpenFails, NotFound, RenameFails, DropFailed, RemoveFile, fileVars
  <2>. QED BY <2>1, <2>2, <1>1, DoneOrder, Zenon
<1>7. CASE InsertUpload(s) \/ WriteLast(s) \/ RenameTemp(s) \/ WriteChunk(s)
  BY <1>1, <1>7, WorkOrder, Zenon
<1>. QED BY <1>3, <1>4, <1>5, <1>6, <1>7, Zenon DEF SessionStep

\* The first states: nothing is under way and nothing is written.
LEMMA OrderInit == Init => OrderInv
<1>. SUFFICES ASSUME Init PROVE OrderInv
  BY Zenon
<1>1. /\ \A s \in Sessions : queue[s] = <<>> /\ ~Busy(s)
      /\ \A t \in Transfers : next[t] = 0 /\ data[t] = <<>> /\ uploads[t] = Nil
      /\ replies = {}
  BY Zenon DEF Init, Idle, Busy
<1>2. WorkHome /\ QueuesHome /\ QueuesUnique /\ ChunksInOrder
  BY <1>1 DEF WorkHome, Works, QueuesHome, QueuesUnique, ChunksInOrder
<1>3. ASSUME NEW t \in Transfers PROVE Tokens(t) /\ Progress(t) /\ OneFile(t)
  <2>1. SessionOf[t] \in Sessions
    BY UploadAssumption, Zenon
  <2>2. ~Waiting(t) /\ ~Working(t) /\ ~Answered(t) /\ ~InHand(t)
    BY <2>1, <1>1 DEF Waiting, Working, Works, Answered, InHand
  <2>3. \A x \in Transfers, i \in Nat : ~Has(x, t, i)
    BY <1>1 DEF Has
  <2>4. Tokens(t)
    BY <2>2, <2>3, <1>1, Zenon DEF Tokens, NoData
  <2>7. \A i \in Nat : ~(i < next[t])
    BY <1>1
  <2>5. Progress(t)
    BY <2>2, <2>3, <2>7, Zenon DEF Progress, Waiting, Answered
  <2>6. OneFile(t)
    BY <2>2, <2>3, Zenon DEF OneFile
  <2>. QED BY <2>4, <2>5, <2>6, Zenon
<1>. QED BY <1>2, <1>3, Zenon DEF OrderInv, TransferInv

\* Every step of the system keeps OrderInv.
LEMMA OrderNext == Typed /\ Typed' /\ OrderInv /\ [Next]_vars => OrderInv'
<1>. SUFFICES ASSUME Typed, Typed', OrderInv, [Next]_vars PROVE OrderInv'
  BY Zenon
<1>1. CASE UNCHANGED vars
  BY <1>1, MapOrder, Zenon DEF vars, clientVars, fileVars
<1>2. CASE Next
  BY <1>2, ClientOrder, OthersOrder, SessionOrder, Zenon DEF Next
<1>. QED BY <1>1, <1>2, Zenon

\* Whatever timeouts, cancellations, clean-ups, failed writes and other
\* transfers to the same path come between, upload_file_chunk appends the
\* chunks of a transfer to a file in order, without gap or repetition.
THEOREM ChunksOrdered == Spec => []ChunksInOrder
<1>1. Init => Typed /\ OrderInv
  BY TypedInit, OrderInit, Zenon
<1>2. (Typed /\ OrderInv) /\ [Next]_vars => (Typed /\ OrderInv)'
  BY TypedNext, OrderNext, Zenon
<1>3. Typed /\ OrderInv => ChunksInOrder
  BY Zenon DEF OrderInv
<1>. QED BY <1>1, <1>2, <1>3, PTL DEF Spec

-----------------------------------------------------------------------------
(* What is known of a transfer that is alone on its path.                  *)

\* Chunks are sent up to the last, and deletions are known.
Proper(cmd, paths) ==
  /\ cmd.op = "chunk" => cmd.i < ChunksOf[cmd.t]
  /\ cmd.op = "delete" => cmd.path \in paths

CommandInv ==
  /\ \A s \in Sessions : \A j \in 1 .. Len(queue[s]) : Proper(queue[s][j], deleted)
  /\ \A s \in Sessions : Busy(s) => Proper(work[s].cmd, deleted)

\* The last chunk, and no other, is written after its entry was removed.
LastInv ==
  \A s \in Sessions :
    /\ work[s].pc \in {"last", "final", "rename"} => IsLast(work[s].cmd.t, work[s].cmd.i)
    /\ work[s].pc \in {"more", "writing", "failed"} => ~IsLast(work[s].cmd.t, work[s].cmd.i)
    /\ work[s].pc \in {"final", "rename"} => uploads[work[s].cmd.t] = Nil

\* Nothing of a finished call is under way.
Active(t) == Waiting(t) \/ Working(t) \/ Answered(t)
DoneInv == \A t \in Transfers : call[t] = "done" => ~Active(t)

\* A file was created by a transfer to its path.
Of(x, p) == x # Nil => PathOf[x] = p /\ call[x] # "idle"
FilesHome ==
  /\ \A p \in Paths : Of(temp[p], p)
  /\ \A t \in Transfers : Of(uploads[t], PathOf[t])
  /\ \A s \in Sessions : work[s].file # Nil => Of(work[s].file, PathOf[work[s].cmd.t])

\* The only transfer ever started for its path.
Alone(t) == \A u \in Others(t) : call[u] = "idle"
Holds(t) == uploads[t] # Nil \/ (Working(t) /\ FileOf(t) # Nil)
Finished(t) ==
  \/ \E r \in replies : r.t = t /\ r.op = "chunk" /\ IsLast(t, r.i)
  \/ call[t] = "done" /\ ChunksOf[t] > 0

AloneInv ==
  \A t \in Transfers : Alone(t) =>
    /\ Holds(t) => temp[PathOf[t]] = t
    /\ Len(data[t]) <= ChunksOf[t] /\ \A j \in 1 .. Len(data[t]) : data[t][j] = <<t, j - 1>>
    /\ Finished(t) => Len(data[t]) = ChunksOf[t] /\ (PathOf[t] \notin deleted => final[PathOf[t]] = t)
    /\ final[PathOf[t]] # Nil => final[PathOf[t]] = t /\ Len(data[t]) = ChunksOf[t]

\* The inductive strengthening of UploadExact and of FinalIsWhole.
ExactInv == Typed /\ OrderInv /\ CommandInv /\ LastInv /\ DoneInv /\ FilesHome /\ AloneInv

\* What a session task does with its command and its file: it ends it, goes
\* on with it, or takes the next.
Ends(s) == ~Busy(s)' /\ work'[s].file = Nil
GoesOn(s) ==
  /\ Busy(s) /\ work'[s].cmd = work[s].cmd
  /\ \/ work[s].pc = "start" /\ work'[s].pc = "opened" /\ OpenTemp(s) /\ work'[s].file = temp'[PathOf[work[s].cmd.t]]
     \/ /\ work[s].pc = "last" /\ work'[s].pc = "final"
        /\ work'[s].file = uploads[work[s].cmd.t] /\ uploads'[work[s].cmd.t] = Nil
     \/ work[s].pc = "final" /\ work'[s].pc = "rename" /\ work'[s].file = work[s].file
     \/ work[s].pc = "more" /\ work'[s].pc = "writing" /\ work'[s].file = uploads[work[s].cmd.t]
     \/ work[s].pc = "writing" /\ work'[s].pc = "failed" /\ work'[s].file = work[s].file
Takes(s) ==
  /\ queue[s] # <<>> /\ work'[s].cmd = Head(queue[s]) /\ work'[s].file = Nil
  /\ work'[s].pc \in {"start", "last", "more", "notFound", "deleting"}
  /\ work'[s].pc = "last" => IsLast(Head(queue[s]).t, Head(queue[s]).i)
  /\ work'[s].pc = "more" => ~IsLast(Head(queue[s]).t, Head(queue[s]).i)

\* One of these, for the task of the step.
LEMMA SessionMoves ==
  ASSUME Typed, OrderInv, NEW s \in Sessions, SessionStep(s)
  PROVE  /\ \A r \in Sessions : r # s => work'[r] = work[r]
         /\ Ends(s) \/ GoesOn(s) \/ Takes(s)
<1>0. work \in [Sessions -> WorkState] /\ WorkOK /\ WorkHome
  BY TypedSplits, Zenon DEF WorkOK, OrderInv
<1>1. ASSUME Done(s) PROVE (\A r \in Sessions : r # s => work'[r] = work[r]) /\ Ends(s)
  BY <1>0, <1>1, Zenon DEF Done, Idle, Ends, Busy
<1>2. ASSUME NEW pc, NEW file, Goto(s, pc, file), Busy(s)
      PROVE  /\ \A r \in Sessions : r # s => work'[r] = work[r]
             /\ work'[s].pc = pc /\ work'[s].file = file /\ work'[s].cmd = work[s].cmd
  BY <1>0, <1>2, GotoOthers, Zenon
<1>3. CASE SessionStops(s)
  <2>1. work' = [work EXCEPT ![s].pc = "closed", ![s].file = Nil]
    BY <1>3, Zenon DEF SessionStops, Goto
  <2>2. /\ work'[s].pc = "closed" /\ work'[s].file = Nil
        /\ \A r \in Sessions : r # s => work'[r] = work[r]
    BY <1>0, <2>1, Zenon DEF WorkState
  <2>. QED BY <2>2, Zenon DEF Ends, Busy
<1>4. CASE StartUpload(s) \/ CheckChunk(s) \/ CancelUploads(s)
  <2>1. PICK op, pc : /\ pc \in {"start", "last", "more", "notFound", "deleting"} /\ Take(s, op, pc)
                      /\ pc = "last" => IsLast(Head(queue[s]).t, Head(queue[s]).i)
                      /\ pc = "more" => ~IsLast(Head(queue[s]).t, Head(queue[s]).i)
    <3>1. CASE StartUpload(s)
      BY <3>1 DEF StartUpload
    <3>2. CASE CheckChunk(s)
      BY <3>2 DEF CheckChunk
    <3>3. CASE CancelUploads(s)
      BY <3>3 DEF CancelUploads
    <3>. QED BY <1>4, <3>1, <3>2, <3>3, Zenon
  <2>2. queue[s] # <<>> /\ work' = [work EXCEPT ![s] = [pc |-> pc, cmd |-> Head(queue[s]), file |-> Nil]]
    BY <2>1, Zenon DEF Take
  <2>3. /\ work'[s].pc = pc /\ work'[s].cmd = Head(queue[s]) /\ work'[s].file = Nil
        /\ \A r \in Sessions : r # s => work'[r] = work[r]
    BY <1>0, <2>2, Zenon
  <2>. QED BY <2>1, <2>2, <2>3, Zenon DEF Takes
<1>5. CASE OpenTemp(s)
  <2>1. work[s].pc = "start" /\ Busy(s) /\ Goto(s, "opened", temp'[PathOf[work[s].cmd.t]])
    BY <1>5, Zenon DEF OpenTemp, At, Busy, Cmd
  <2>. QED BY <1>2, <1>5, <2>1 DEF GoesOn
<1>6. CASE TakeLast(s)
  <2>1. work[s].pc = "last" /\ Busy(s) /\ Goto(s, "final", uploads[work[s].cmd.t])
    BY <1>6, Zenon DEF TakeLast, At, Busy, Cmd
  <2>2. uploads'[work[s].cmd.t] = Nil
    BY <1>6, Zenon DEF TakeLast, RemoveEntries, Cmd, Entries
  <2>. QED BY <1>2, <2>1, <2>2, Zenon DEF GoesOn
<1>7. CASE LockEntry(s)
  <2>1. work[s].pc = "more" /\ Busy(s) /\ Goto(s, "writing", uploads[work[s].cmd.t])
    BY <1>7, Zenon DEF LockEntry, At, Busy, Cmd
  <2>. QED BY <1>2, <2>1, Zenon DEF GoesOn
<1>8. CASE WriteFails(s)
  <2>1. work[s].pc = "writing" /\ Busy(s) /\ Goto(s, "failed", work[s].file)
    BY <1>8, Zenon DEF WriteFails, At, Busy
  <2>. QED BY <1>2, <2>1, Zenon DEF GoesOn
<1>9. CASE WriteLast(s) /\ ~Done(s)
  <2>1. work[s].pc = "final" /\ Busy(s) /\ Goto(s, "rename", work[s].file)
    BY <1>9, Zenon DEF WriteLast, At, Busy
  <2>. QED BY <1>2, <2>1, Zenon DEF GoesOn
<1>10. CASE Done(s)
  BY <1>1, <1>10, Zenon
<1>11. CASE \/ OpenFails(s) \/ InsertUpload(s) \/ NotFound(s) \/ RenameTemp(s) \/ RenameFails(s)
            \/ WriteChunk(s) \/ DropFailed(s) \/ RemoveFile(s)
  BY <1>10, <1>11, Zenon DEF OpenFails, InsertUpload, NotFound, RenameTemp, RenameFails,
     WriteChunk, DropFailed, RemoveFile
<1>. QED
  BY <1>3, <1>4, <1>5, <1>6, <1>7, <1>8, <1>9, <1>10, <1>11, Zenon DEF SessionStep

\* What it does to everything else.
LEMMA SessionEffects ==
  ASSUME Typed, OrderInv, NEW s \in Sessions, SessionStep(s)
  PROVE  /\ UNCHANGED <<call, next, deleted>>
         /\ \A r \in Sessions : \A j \in 1 .. Len(queue'[r]) :
              \E k \in 1 .. Len(queue[r]) : queue'[r][j] = queue[r][k]
         /\ replies' = replies \/ (Busy(s) /\ replies' = replies \cup {work[s].cmd}
                                   /\ (InsertUpload(s) \/ RenameTemp(s) \/ WriteChunk(s)))
         /\ InsertUpload(s) \/ \A t \in Transfers : uploads'[t] \in {uploads[t], Nil}
         /\ OpenTemp(s) \/ RenameTemp(s) \/ temp' = temp
         /\ RenameTemp(s) \/ RemoveFile(s) \/ final' = final
         /\ data' = data \/ (work[s].pc \in {"final", "writing"} /\ AppendChunk(work[s].file, work[s].cmd))
<1>1. UNCHANGED <<call, next, deleted>>
  BY Zenon DEF SessionStep, clientVars
<1>2. \A r \in Sessions : \A j \in 1 .. Len(queue'[r]) :
        \E k \in 1 .. Len(queue[r]) : queue'[r][j] = queue[r][k]
  <2>1. CASE \/ queue' = [queue EXCEPT ![s] = <<>>]
             \/ queue[s] # <<>> /\ queue' = [queue EXCEPT ![s] = Tail(@)]
    BY <2>1, ShorterQueues DEF OrderInv
  <2>2. CASE queue' = queue
    BY <2>2, Zenon
  <2>3. CASE SessionStops(s)
    BY <2>1, <2>3, Zenon DEF SessionStops
  <2>4. CASE StartUpload(s) \/ CheckChunk(s) \/ CancelUploads(s)
    BY <2>1, <2>4, Zenon DEF StartUpload, CheckChunk, CancelUploads, Take
  <2>5. CASE ~(SessionStops(s) \/ StartUpload(s) \/ CheckChunk(s) \/ CancelUploads(s))
    BY <2>2, <2>5, Zenon DEF SessionStep, OpenTemp, OpenFails, InsertUpload, NotFound,
       TakeLast, WriteLast,
         RenameTemp, RenameFails, LockEntry, WriteChunk, WriteFails, DropFailed, RemoveFile
  <2>. QED BY <2>3, <2>4, <2>5, Zenon
<1>3. CASE InsertUpload(s)
  BY <1>1, <1>2, <1>3, Zenon DEF InsertUpload, Reply, Cmd, At, Busy, fileVars
<1>4. CASE RenameTemp(s)
  BY <1>1, <1>2, <1>4, Zenon DEF RenameTemp, Reply, Cmd, At, Busy
<1>5. CASE WriteChunk(s)
  BY <1>1, <1>2, <1>5, Zenon DEF WriteChunk, Reply, Cmd, At, Busy
<1>6. CASE WriteLast(s)
  BY <1>1, <1>2, <1>6, Zenon DEF WriteLast, Cmd, At
<1>7. ASSUME NEW T, RemoveEntries(T) PROVE \A t \in Transfers : uploads'[t] \in {uploads[t], Nil}
  BY <1>7, Zenon DEF RemoveEntries
<1>8. CASE TakeLast(s) \/ DropFailed(s) \/ CancelUploads(s)
  BY <1>1, <1>2, <1>7, <1>8, Zenon DEF TakeLast, DropFailed, CancelUploads, fileVars
<1>9. CASE RemoveFile(s)
  BY <1>1, <1>2, <1>9, Zenon DEF RemoveFile
<1>10. CASE OpenTemp(s)
  BY <1>1, <1>2, <1>10, Zenon DEF OpenTemp
<1>11. CASE \/ SessionStops(s) \/ StartUpload(s) \/ OpenFails(s) \/ CheckChunk(s) \/ NotFound(s)
            \/ RenameFails(s) \/ LockEntry(s) \/ WriteFails(s)
  <2>1. replies' = replies /\ uploads' = uploads /\ UNCHANGED <<temp, final, data>>
    BY <1>11, Zenon DEF SessionStops, StartUpload, OpenFails, CheckChunk, NotFound,
       RenameFails, LockEntry, WriteFails, fileVars
  <2>. QED BY <1>1, <1>2, <2>1, Zenon
<1>. QED
  BY <1>3, <1>4, <1>5, <1>6, <1>8, <1>9, <1>10, <1>11, Zenon DEF SessionStep

\* A command that is sent is the only one that is new.
LEMMA SubmitAdds ==
  ASSUME Typed, NEW s \in Sessions, NEW cmd \in Command, Submit(s, cmd)
  PROVE  \A r \in Sessions : \A j \in 1 .. Len(queue'[r]) :
           (\E k \in 1 .. Len(queue[r]) : queue'[r][j] = queue[r][k]) \/ queue'[r][j] = cmd
<1>1. /\ queue[s] \in Seq(Command) /\ queue'[s] = Append(queue[s], cmd)
      /\ \A r \in Sessions : r # s => queue'[r] = queue[r]
  BY Zenon DEF Submit, Typed, UploadTypeOK
<1>2. /\ Len(queue[s]) \in Nat /\ Len(queue'[s]) = Len(queue[s]) + 1
      /\ \A j \in 1 .. Len(queue[s]) : queue'[s][j] = queue[s][j]
      /\ queue'[s][Len(queue[s]) + 1] = cmd
  BY <1>1
<1>3. \A j \in 1 .. Len(queue'[s]) :
        (\E k \in 1 .. Len(queue[s]) : queue'[s][j] = queue[s][k]) \/ queue'[s][j] = cmd
  BY <1>2
<1>. QED BY <1>1, <1>3, Zenon

\* What the other steps do: a command is sent by a call that goes on, and a
\* call is done with the answer to its last chunk.
Calls ==
  /\ UNCHANGED <<work, temp, final, data>>
  /\ deleted \subseteq deleted' /\ replies' \subseteq replies
  /\ \A t \in Transfers : uploads'[t] \in {uploads[t], Nil} /\ (call[t] # "idle" => call'[t] # "idle")
  /\ \A s \in Sessions : \A j \in 1 .. Len(queue'[s]) :
       \/ \E k \in 1 .. Len(queue[s]) : queue'[s][j] = queue[s][k]
       \/ /\ Proper(queue'[s][j], deleted')
          /\ \A t \in Transfers : queue'[s][j].t = t => call'[t] # "done"
  /\ \A t \in Transfers : call'[t] = "done" =>
       \/ call[t] = "done"
       \/ /\ queue' = queue
          /\ \E r \in replies : /\ r.t = t /\ replies' = replies \ {r}
                                /\ ChunksOf[t] > 0 => r.op = "chunk" /\ IsLast(t, r.i)

\* Every step that is not one of a session task is such.
LEMMA CallSteps ==
  ASSUME Typed, OrderInv, [Next]_vars, \A s \in Sessions : ~SessionStep(s)
  PROVE  Calls
<1>0. /\ call \in [Transfers -> {"idle", "starting", "sending", "done", "failed"}]
      /\ next \in [Transfers -> Nat] /\ replies \subseteq Command
      /\ \A t \in Transfers : SessionOf[t] \in Sessions /\ next[t] \in Nat /\ ChunksOf[t] \in Nat
  BY UploadAssumption, Zenon DEF Typed, UploadTypeOK
<1>1. ASSUME UNCHANGED <<work, temp, final, data, deleted, replies, queue, call>>,
             \A t \in Transfers : uploads'[t] \in {uploads[t], Nil}
      PROVE  Calls
  BY <1>1, Zenon DEF Calls
<1>2. CASE UNCHANGED vars
  BY <1>1, <1>2, Zenon DEF vars, clientVars, fileVars
<1>3. ASSUME NEW k \in Sweepers, NEW t \in Transfers, SweepOne(k, t) PROVE Calls
  BY <1>1, <1>3, Zenon DEF SweepOne, RemoveEntries, clientVars, fileVars
<1>4. ASSUME NEW c \in Clients, ConnectionDisconnect(c) \/ close_uploads_for_cid(c) PROVE Calls
  BY <1>1, <1>4, Zenon DEF ConnectionDisconnect, close_uploads_for_cid, fileVars
<1>5. CASE cleanup_abandoned_uploads
  BY <1>1, <1>5, Zenon DEF cleanup_abandoned_uploads, clientVars, fileVars
<1>6. ASSUME NEW t \in Transfers, Lapse(t) PROVE Calls
  BY <1>1, <1>6, Zenon DEF Lapse, clientVars, fileVars
<1>7. ASSUME NEW t \in Transfers, GiveUp(t) PROVE Calls
  <2>1. /\ UNCHANGED <<work, temp, final, data, deleted, replies, queue, uploads>>
        /\ call' = [call EXCEPT ![t] = "failed"]
    BY <1>7, Zenon DEF GiveUp, fileVars
  <2>. QED BY <1>0, <2>1, Zenon DEF Calls
<1>8. ASSUME NEW s \in Sessions, NEW p \in Paths, deleteFile(s, p) PROVE Calls
  <2>. DEFINE cmd == Delete(p)
  <2>1. /\ cmd \in Command /\ cmd.t \notin Transfers /\ cmd.op = "delete" /\ cmd.path = p
    BY Commands, Zenon DEF Delete
  <2>2. /\ UNCHANGED <<work, temp, final, data, replies, uploads, call>>
        /\ deleted' = deleted \cup {p} /\ Submit(s, cmd)
    BY <1>8, Zenon DEF deleteFile, fileVars
  <2>3. Proper(cmd, deleted')
    BY <2>1, <2>2, Zenon DEF Proper
  <2>. HIDE DEF cmd
  <2>4. \A r \in Sessions : \A j \in 1 .. Len(queue'[r]) :
          (\E k \in 1 .. Len(queue[r]) : queue'[r][j] = queue[r][k]) \/ queue'[r][j] = cmd
    BY <2>1, <2>2, SubmitAdds, Zenon
  <2>. QED BY <2>1, <2>2, <2>3, <2>4, Zenon DEF Calls
<1>9. ASSUME NEW t \in Transfers, uploadFile(t) PROVE Calls
  <2>. DEFINE cmd == Start(t)
  <2>1. /\ cmd \in Command /\ cmd.t = t /\ cmd.op = "start"
    BY Commands, Zenon
  <2>2. /\ UNCHANGED <<work, temp, final, data, replies, uploads, deleted>>
        /\ call' = [call EXCEPT ![t] = "starting"] /\ Submit(SessionOf[t], cmd)
    BY <1>9, Zenon DEF uploadFile, fileVars
  <2>3. Proper(cmd, deleted')
    BY <2>1, Zenon DEF Proper
  <2>. HIDE DEF cmd
  <2>4. \A r \in Sessions : \A j \in 1 .. Len(queue'[r]) :
          (\E k \in 1 .. Len(queue[r]) : queue'[r][j] = queue[r][k]) \/ queue'[r][j] = cmd
    BY <1>0, <2>1, <2>2, SubmitAdds, Zenon
  <2>5. call'[t] = "starting" /\ \A u \in Transfers : u # t => call'[u] = call[u]
    BY <1>0, <2>2, Zenon
  <2>. QED BY <2>1, <2>2, <2>3, <2>4, <2>5, Zenon DEF Calls
<1>10. ASSUME NEW t \in Transfers, NEW i \in Nat, NEW r \in replies, r.t = t, replies' = replies \ {r},
              SendOrFinish(t, i), UNCHANGED <<work, temp, final, data, uploads, deleted>>,
              i >= ChunksOf[t] /\ ChunksOf[t] > 0 => r.op = "chunk" /\ IsLast(t, r.i),
              call[t] \in {"starting", "sending"}
       PROVE  Calls
  <2>1. CASE i < ChunksOf[t] /\ call' = [call EXCEPT ![t] = "sending"] /\ Submit(SessionOf[t], Chunk(t, i))
    <3>. DEFINE cmd == Chunk(t, i)
    <3>1. /\ cmd \in Command /\ cmd.t = t /\ cmd.op = "chunk" /\ cmd.i = i
      BY Commands
    <3>2. Proper(cmd, deleted') /\ Submit(SessionOf[t], cmd)
      BY <2>1, <3>1, Zenon DEF Proper
    <3>. HIDE DEF cmd
    <3>4. \A q \in Sessions : \A j \in 1 .. Len(queue'[q]) :
            (\E k \in 1 .. Len(queue[q]) : queue'[q][j] = queue[q][k]) \/ queue'[q][j] = cmd
      BY <1>0, <3>1, <3>2, SubmitAdds, Zenon
    <3>5. call'[t] = "sending" /\ \A u \in Transfers : u # t => call'[u] = call[u]
      BY <1>0, <2>1, Zenon
    <3>. QED BY <1>10, <3>1, <3>2, <3>4, <3>5, Zenon DEF Calls
  <2>2. CASE i >= ChunksOf[t] /\ call' = [call EXCEPT ![t] = "done"] /\ queue' = queue
    <3>1. call'[t] = "done" /\ \A u \in Transfers : u # t => call'[u] = call[u]
      BY <1>0, <2>2, Zenon
    <3>. QED BY <1>10, <2>2, <3>1, Zenon DEF Calls
  <2>. QED BY <1>10, <2>1, <2>2, Zenon DEF SendOrFinish
<1>11. ASSUME NEW t \in Transfers, handleUploadStartResponse(t) PROVE Calls
  <2>1. /\ Start(t) \in replies /\ Start(t).t = t /\ replies' = replies \ {Start(t)} /\ SendOrFinish(t, 0)
        /\ UNCHANGED <<work, temp, final, data, uploads, deleted>> /\ call[t] \in {"starting", "sending"}
    BY <1>11, Commands, Zenon DEF handleUploadStartResponse, fileVars
  <2>2. ~(0 >= ChunksOf[t] /\ ChunksOf[t] > 0)
    BY <1>0
  <2>. QED BY <1>10, <2>1, <2>2, Zenon
<1>12. ASSUME NEW t \in Transfers, handleUploadChunkAck(t) PROVE Calls
  <2>. DEFINE r == Chunk(t, next[t])
  <2>1. r \in replies /\ r.t = t /\ r.op = "chunk" /\ r.i = next[t]
    BY <1>0, <1>12, Commands DEF handleUploadChunkAck
  <2>2. /\ replies' = replies \ {r} /\ SendOrFinish(t, next[t] + 1) /\ next[t] + 1 \in Nat
        /\ UNCHANGED <<work, temp, final, data, uploads, deleted>> /\ call[t] \in {"starting", "sending"}
    BY <1>0, <1>12 DEF handleUploadChunkAck, fileVars
  <2>3. next[t] + 1 >= ChunksOf[t] => IsLast(t, r.i)
    BY <2>1, Zenon DEF IsLast
  <2>. HIDE DEF r
  <2>. QED BY <1>10, <2>1, <2>2, <2>3, Zenon
<1>. QED
  BY <1>2, <1>3, <1>4, <1>5, <1>6, <1>7, <1>8, <1>9, <1>11, <1>12, Zenon DEF Next

\* A transfer that a task works for.
LEMMA AtWork ==
  ASSUME Typed, OrderInv, NEW s \in Sessions, Busy(s), work[s].cmd.op # "delete"
  PROVE  /\ work[s].cmd \in Command /\ work[s].cmd.t \in Transfers /\ work[s].cmd.i \in Nat
         /\ SessionOf[work[s].cmd.t] = s /\ Working(work[s].cmd.t)
         /\ call[work[s].cmd.t] # "idle" /\ ~Answered(work[s].cmd.t)
<1>. DEFINE t == work[s].cmd.t
<1>1. work[s].cmd \in Command
  BY Zenon DEF Typed, Shape
<1>2. t \in Transfers /\ work[s].cmd.i \in Nat
  BY <1>1, Commands, Zenon
<1>3. SessionOf[t] = s
  BY <1>2, Zenon DEF OrderInv, WorkHome, Works
<1>4. Working(t)
  BY <1>3, Zenon DEF Working, Works
<1>. QED BY <1>1, <1>2, <1>3, <1>4, Zenon DEF OrderInv, TransferInv, Tokens

\* Such a file is that of the transfer alone on its path.
LEMMA AloneIs ==
  ASSUME NEW t \in Transfers, Alone(t), NEW x \in Transfers, Of(x, PathOf[t])
  PROVE  x = t
BY UploadAssumption, Zenon DEF Alone, Others, Of

\* Calls keep the invariant.
LEMMA CallExact ==
  ASSUME Typed, OrderInv, CommandInv, LastInv, DoneInv, FilesHome, AloneInv, Calls
  PROVE  (CommandInv /\ LastInv /\ DoneInv /\ FilesHome /\ AloneInv)'
<1>0. /\ UNCHANGED <<work, temp, final, data>> /\ deleted \subseteq deleted' /\ replies' \subseteq replies
      /\ \A t \in Transfers : uploads'[t] \in {uploads[t], Nil} /\ (call[t] # "idle" => call'[t] # "idle")
  BY Zenon DEF Calls
<1>1. \A cmd : Proper(cmd, deleted) => Proper(cmd, deleted')
  BY <1>0, Zenon DEF Proper
<1>2. CommandInv'
  <2>1. \A s \in Sessions : Busy(s)' => Proper(work'[s].cmd, deleted')
    BY <1>0, <1>1, Zenon DEF CommandInv, Busy
  <2>2. ASSUME NEW s \in Sessions, NEW j \in 1 .. Len(queue'[s]) PROVE Proper(queue'[s][j], deleted')
    <3>1. CASE \E k \in 1 .. Len(queue[s]) : queue'[s][j] = queue[s][k]
      BY <3>1, <1>1, Zenon DEF CommandInv
    <3>. QED BY <3>1, Zenon DEF Calls
  <2>. QED BY <2>1, <2>2, Zenon DEF CommandInv
<1>3. LastInv'
  <2>1. ASSUME NEW s \in Sessions, work[s].pc \in {"final", "rename"}
        PROVE  uploads'[work[s].cmd.t] = Nil
    <3>1. work[s].cmd.t \in Transfers /\ uploads[work[s].cmd.t] = Nil
      BY <2>1, TypedSplits, CommandAtWork, Zenon DEF LastInv, Writing, Cmd
    <3>. QED BY <3>1, <1>0, Zenon
  <2>. QED BY <2>1, <1>0, Zenon DEF LastInv
<1>4. FilesHome'
  <2>1. \A x \in Transfers \cup {Nil}, p \in Paths : Of(x, p) => Of(x, p)'
    BY <1>0, Zenon DEF Of
  <2>2. /\ \A p \in Paths : temp[p] \in Transfers \cup {Nil}
        /\ \A t \in Transfers : uploads[t] \in Transfers \cup {Nil} /\ PathOf[t] \in Paths
        /\ \A s \in Sessions : work[s].file \in Transfers \cup {Nil}
        /\ \A s \in Sessions : work[s].file # Nil => work[s].cmd.t \in Transfers
    <3>1. \A s \in Sessions : work[s].file # Nil => work[s].cmd.t \in Transfers
      BY TypedSplits, CommandAtWork, Zenon DEF WorkOK, Handing, Writing, Opening, Cmd
    <3>. QED BY <3>1, UploadAssumption, Zenon DEF Typed, UploadTypeOK
  <2>3. \A p \in Paths : Of(temp[p], p)'
    BY <1>0, <2>1, <2>2, Zenon DEF FilesHome, Of
  <2>4. \A t \in Transfers : Of(uploads[t], PathOf[t])'
    BY <1>0, <2>1, <2>2 DEF FilesHome, Of
  <2>5. \A s \in Sessions : work'[s].file # Nil => Of(work[s].file, PathOf[work[s].cmd.t])'
    BY <1>0, <2>1, <2>2, Zenon DEF FilesHome, Of
  <2>. QED BY <2>3, <2>4, <2>5, Zenon DEF FilesHome
<1>5. \A t \in Transfers : Tokens(t) /\ SessionOf[t] \in Sessions
  BY UploadAssumption, Zenon DEF OrderInv, TransferInv
<1>6. DoneInv'
  <2>. SUFFICES ASSUME NEW t \in Transfers, call'[t] = "done" PROVE ~Active(t)'
    BY Zenon DEF DoneInv
  <2>1. CASE call[t] = "done"
    <3>1. ~Waiting(t) /\ ~Working(t) /\ ~Answered(t)
      BY <2>1, Zenon DEF DoneInv, Active
    <3>2. ~Working(t)' /\ ~Answered(t)'
      BY <3>1, <1>0, Zenon DEF Working, Works, Busy, Answered
    <3>3. ASSUME NEW j \in 1 .. Len(queue'[SessionOf[t]]), queue'[SessionOf[t]][j].t = t PROVE FALSE
      <4>1. \E k \in 1 .. Len(queue[SessionOf[t]]) : queue'[SessionOf[t]][j] = queue[SessionOf[t]][k]
        BY <3>3, <1>5, Zenon DEF Calls
      <4>. QED BY <4>1, <3>1, <3>3, Zenon DEF Waiting
    <3>. QED BY <3>2, <3>3, Zenon DEF Active, Waiting
  <2>2. CASE call[t] # "done"
    <3>1. queue' = queue /\ \E r \in replies : r.t = t /\ replies' = replies \ {r}
      BY <2>2, Zenon DEF Calls
    <3>2. Answered(t) /\ ~Answered(t)'
      BY <3>1, <1>5, Zenon DEF Answered, Tokens
    <3>3. ~Waiting(t) /\ ~Working(t)
      BY <3>2, <1>5, Zenon DEF Tokens
    <3>4. ~Waiting(t)' /\ ~Working(t)'
      BY <3>1, <3>3, <1>0, Zenon DEF Waiting, Working, Works, Busy
    <3>. QED BY <3>2, <3>4, Zenon DEF Active
  <2>. QED BY <2>1, <2>2, Zenon
<1>7. AloneInv'
  <2>. SUFFICES ASSUME NEW t \in Transfers, Alone(t)'
                PROVE  (/\ Holds(t) => temp[PathOf[t]] = t
                        /\ Len(data[t]) <= ChunksOf[t] /\ \A j \in 1 .. Len(data[t]) : data[t][j] = <<t, j - 1>>
                        /\ Finished(t) => Len(data[t]) = ChunksOf[t]
                                          /\ (PathOf[t] \notin deleted => final[PathOf[t]] = t)
                        /\ final[PathOf[t]] # Nil => final[PathOf[t]] = t /\ Len(data[t]) = ChunksOf[t])'
    BY Zenon DEF AloneInv
  <2>1. Alone(t)
    BY <1>0, Zenon DEF Alone, Others
  <2>2. Holds(t)' => Holds(t)
    BY <1>0, Zenon DEF Holds, Working, Works, Busy, FileOf
  <2>3. Finished(t)' => Finished(t)
    BY <1>0, Zenon DEF Finished, Calls
  <2>. QED BY <2>1, <2>2, <2>3, <1>0, Zenon DEF AloneInv
<1>. QED BY <1>2, <1>3, <1>4, <1>6, <1>7, Zenon

\* A task that takes a command takes one that was sent.
LEMMA TakesSent ==
  ASSUME Typed, OrderInv, NEW s \in Sessions, queue[s] # <<>>
  PROVE  /\ 1 \in 1 .. Len(queue[s]) /\ Head(queue[s]) = queue[s][1] /\ Head(queue[s]) \in Command
         /\ \A t \in Transfers : Head(queue[s]).t = t => SessionOf[t] = s /\ Waiting(t)
<1>1. queue[s] \in Seq(Command)
  BY Zenon DEF Typed, UploadTypeOK
<1>2. 1 \in 1 .. Len(queue[s]) /\ Head(queue[s]) = queue[s][1] /\ Head(queue[s]) \in Command
  BY <1>1
<1>. QED BY <1>2 DEF OrderInv, QueuesHome, Waiting

\* Session tasks keep what is known of commands, of last chunks, of finished
\* calls ...
LEMMA SessionCommands ==
  ASSUME Typed, OrderInv, CommandInv, LastInv, DoneInv, NEW s \in Sessions, SessionStep(s)
  PROVE  (CommandInv /\ LastInv /\ DoneInv)'
<1>1. /\ UNCHANGED <<call, next, deleted>>
      /\ \A r \in Sessions : \A j \in 1 .. Len(queue'[r]) :
           \E k \in 1 .. Len(queue[r]) : queue'[r][j] = queue[r][k]
      /\ replies' = replies \/ (Busy(s) /\ replies' = replies \cup {work[s].cmd})
      /\ InsertUpload(s) \/ \A t \in Transfers : uploads'[t] \in {uploads[t], Nil}
  BY SessionEffects, Zenon
<1>2. /\ \A r \in Sessions : r # s => work'[r] = work[r]
      /\ Ends(s) \/ GoesOn(s) \/ Takes(s)
  BY SessionMoves, Zenon
<1>3. CommandInv'
  <2>1. \A r \in Sessions : \A j \in 1 .. Len(queue'[r]) : Proper(queue'[r][j], deleted')
    BY <1>1 DEF CommandInv
  <2>2. ASSUME NEW r \in Sessions, Busy(r)' PROVE Proper(work'[r].cmd, deleted')
    <3>1. CASE r # s
      BY <3>1, <2>2, <1>1, <1>2, Zenon DEF CommandInv, Busy
    <3>2. CASE r = s /\ GoesOn(s)
      BY <3>2, <1>1, Zenon DEF CommandInv, GoesOn
    <3>3. CASE r = s /\ Takes(s)
      BY <3>3, <1>1, TakesSent DEF CommandInv, Takes
    <3>. QED BY <3>1, <3>2, <3>3, <2>2, <1>2, Zenon DEF Ends
  <2>. QED BY <2>1, <2>2, Zenon DEF CommandInv
<1>4. LastInv'
  <2>. SUFFICES ASSUME NEW r \in Sessions
                PROVE  /\ work'[r].pc \in {"last", "final", "rename"} => IsLast(work'[r].cmd.t, work'[r].cmd.i)
                       /\ work'[r].pc \in {"more", "writing", "failed"} => ~IsLast(work'[r].cmd.t, work'[r].cmd.i)
                       /\ work'[r].pc \in {"final", "rename"} => uploads'[work'[r].cmd.t] = Nil
    BY Zenon DEF LastInv
  <2>1. ASSUME work[r].pc \in {"final", "rename"}, ~InsertUpload(s)
        PROVE  uploads'[work[r].cmd.t] = Nil
    <3>1. work[r].cmd.t \in Transfers /\ uploads[work[r].cmd.t] = Nil
      BY <2>1, TypedSplits, CommandAtWork, Zenon DEF LastInv, Writing, Cmd
    <3>. QED BY <3>1, <2>1, <1>1, Zenon
  <2>2. ASSUME work[r].pc \in {"final", "rename"}, InsertUpload(s)
        PROVE  uploads'[work[r].cmd.t] = Nil
    <3>1. work[s].pc = "opened" /\ Busy(s) /\ work[s].cmd.op = "start"
      BY <2>2, Zenon DEF InsertUpload, At, Busy, Typed, Shape, Opening
    <3>2. Busy(r) /\ work[r].cmd.op = "chunk"
      BY <2>2, Zenon DEF Busy, Typed, Shape, Writing
    <3>3. SessionOf[work[s].cmd.t] = s /\ SessionOf[work[r].cmd.t] = r /\ work[r].cmd.t \in Transfers
      BY <3>1, <3>2, AtWork, Zenon
    <3>4. work[r].cmd.t # work[s].cmd.t
      BY <3>1, <3>3, <2>2, Zenon
    <3>5. uploads'[work[r].cmd.t] = uploads[work[r].cmd.t]
      BY <2>2, <3>3, <3>4, Zenon DEF InsertUpload, Cmd, Typed, UploadTypeOK
    <3>. QED BY <3>5, <2>2, Zenon DEF LastInv
  <2>3. CASE r # s
    BY <2>1, <2>2, <2>3, <1>2, Zenon DEF LastInv
  <2>4. CASE r = s /\ Ends(s)
    BY <2>4, Zenon DEF Ends, Busy
  <2>5. CASE r = s /\ GoesOn(s)
    <3>1. IsLast(work'[s].cmd.t, work'[s].cmd.i) <=> IsLast(work[s].cmd.t, work[s].cmd.i)
      BY <2>5, Zenon DEF GoesOn
    <3>2. /\ work'[r].pc \in {"last", "final", "rename"} => work[r].pc \in {"last", "final", "rename"}
          /\ work'[r].pc \in {"more", "writing", "failed"} => work[r].pc \in {"more", "writing", "failed"}
      BY <2>5, Zenon DEF GoesOn
    <3>3. work'[r].pc \in {"final", "rename"} => uploads'[work'[r].cmd.t] = Nil
      BY <2>5, <2>1, <2>2, Zenon DEF GoesOn
    <3>. QED BY <3>1, <3>2, <3>3, <2>5, Zenon DEF LastInv
  <2>6. CASE r = s /\ Takes(s)
    BY <2>6, Zenon DEF Takes
  <2>. QED BY <2>3, <2>4, <2>5, <2>6, <1>2, Zenon
<1>5. DoneInv'
  <2>. SUFFICES ASSUME NEW t \in Transfers, call'[t] = "done" PROVE ~Active(t)'
    BY Zenon DEF DoneInv
  <2>1. ~Waiting(t) /\ ~Working(t) /\ ~Answered(t) /\ SessionOf[t] \in Sessions
    BY <1>1, UploadAssumption, Zenon DEF DoneInv, Active
  <2>2. ~Waiting(t)'
    BY <1>1, <2>1, SMTT(20) DEF Waiting
  <2>3. ~Working(t)'
    <3>1. CASE SessionOf[t] # s
      BY <3>1, <2>1, <1>2, Zenon DEF Working, Works, Busy
    <3>2. CASE SessionOf[t] = s /\ Ends(s)
      BY <3>2, Zenon DEF Working, Works, Ends
    <3>3. CASE SessionOf[t] = s /\ GoesOn(s)
      BY <3>3, <2>1, Zenon DEF Working, Works, GoesOn
    <3>4. CASE SessionOf[t] = s /\ Takes(s)
      BY <3>4, <2>1, TakesSent, Zenon DEF Working, Works, Takes
    <3>. QED BY <3>1, <3>2, <3>3, <3>4, <1>2, Zenon
  <2>4. ~Answered(t)'
    <3>1. Busy(s) => work[s].cmd.t # t
      BY <2>1, Zenon DEF OrderInv, WorkHome, Working, Works
    <3>. QED BY <3>1, <2>1, <1>1, Zenon DEF Answered
  <2>. QED BY <2>2, <2>3, <2>4, Zenon DEF Active
<1>. QED BY <1>3, <1>4, <1>5, Zenon

\* ... and of files.
LEMMA SessionFiles ==
  ASSUME Typed, OrderInv, FilesHome, NEW s \in Sessions, SessionStep(s)
  PROVE  FilesHome'
<1>0. /\ call' = call
      /\ InsertUpload(s) \/ \A t \in Transfers : uploads'[t] \in {uploads[t], Nil}
      /\ OpenTemp(s) \/ RenameTemp(s) \/ temp' = temp
  BY SessionEffects, Zenon
<1>1. /\ \A r \in Sessions : r # s => work'[r] = work[r]
      /\ Ends(s) \/ GoesOn(s) \/ Takes(s)
  BY SessionMoves, Zenon
<1>2. temp \in [Paths -> Transfers \cup {Nil}] /\ uploads \in [Transfers -> Transfers \cup {Nil}]
      /\ \A t \in Transfers : PathOf[t] \in Paths
  BY UploadAssumption, Zenon DEF Typed, UploadTypeOK
<1>3. work[s].pc \in Opening \cup Writing =>
        work[s].cmd.t \in Transfers /\ call[work[s].cmd.t] # "idle"
  BY AtWork, Zenon DEF Typed, Shape, Opening, Writing, Busy
<1>4. \A p \in Paths : Of(temp[p], p)'
  <2>1. CASE OpenTemp(s)
    <3>. DEFINE u == work[s].cmd.t
    <3>1. /\ work[s].pc \in Opening
          /\ temp' = [temp EXCEPT ![PathOf[u]] = IF @ = Nil THEN u ELSE @]
      BY <2>1, Zenon DEF OpenTemp, At, Cmd, Opening
    <3>2. u \in Transfers /\ call[u] # "idle" /\ PathOf[u] \in Paths
      BY <3>1, <1>2, <1>3, Zenon
    <3>. HIDE DEF u
    <3>3. \A p \in Paths : temp'[p] = temp[p] \/ (temp'[p] = u /\ p = PathOf[u])
      BY <3>1, <3>2, <1>2, Zenon
    <3>. QED BY <3>2, <3>3, <1>0, Zenon DEF FilesHome, Of
  <2>2. CASE RenameTemp(s)
    <3>1. \A p \in Paths : temp'[p] \in {temp[p], Nil}
      BY <2>2, <1>2, Zenon DEF RenameTemp
    <3>. QED BY <3>1, <1>0, Zenon DEF FilesHome, Of
  <2>3. CASE temp' = temp
    BY <2>3, <1>0, Zenon DEF FilesHome, Of
  <2>. QED BY <2>1, <2>2, <2>3, <1>0, Zenon
<1>5. \A t \in Transfers : Of(uploads[t], PathOf[t])'
  <2>1. CASE InsertUpload(s)
    <3>1. work[s].pc = "opened" /\ uploads' = [uploads EXCEPT ![work[s].cmd.t] = work[s].file]
      BY <2>1, Zenon DEF InsertUpload, At, Cmd
    <3>2. \A t \in Transfers : uploads'[t] = uploads[t] \/ (uploads'[t] = work[s].file /\ t = work[s].cmd.t)
      BY <3>1, <1>2, Zenon
    <3>. QED BY <3>2, <1>0, Zenon DEF FilesHome, Of
  <2>2. CASE \A t \in Transfers : uploads'[t] \in {uploads[t], Nil}
    BY <2>2, <1>0, Zenon DEF FilesHome, Of
  <2>. QED BY <2>1, <2>2, <1>0, Zenon
<1>6. ASSUME NEW r \in Sessions, work'[r].file # Nil
      PROVE  Of(work[r].file, PathOf[work[r].cmd.t])'
  <2>1. CASE r # s
    BY <2>1, <1>0, <1>1, <1>6, Zenon DEF FilesHome, Of
  <2>2. CASE r = s /\ GoesOn(s)
    <3>1. work[s].pc \in Opening \cup Writing /\ work'[s].cmd = work[s].cmd
      BY <2>2, Zenon DEF GoesOn, Opening, Writing
    <3>2. work[s].cmd.t \in Transfers /\ PathOf[work[s].cmd.t] \in Paths
      BY <3>1, <1>2, <1>3, Zenon
    <3>3. \/ work'[s].file = temp'[PathOf[work[s].cmd.t]]
          \/ work'[s].file = uploads[work[s].cmd.t]
          \/ work'[s].file = work[s].file
      BY <2>2, Zenon DEF GoesOn
    <3>. QED BY <3>1, <3>2, <3>3, <2>2, <1>0, <1>4, <1>6 DEF FilesHome, Of
  <2>. QED BY <2>1, <2>2, <1>1, <1>6, Zenon DEF Ends, Takes
<1>. QED BY <1>4, <1>5, <1>6, Zenon DEF FilesHome

\* A session task writes to the file of a transfer that is alone only for it,
\* and then the next chunk.
LEMMA AloneWrites ==
  ASSUME Typed, OrderInv, CommandInv, FilesHome, AloneInv, NEW t \in Transfers, Alone(t),
         NEW s \in Sessions, SessionStep(s), data'[t] # data[t]
  PROVE  /\ Working(t) /\ Len(data'[t]) = Len(data[t]) + 1
         /\ Len(data'[t]) <= ChunksOf[t] /\ \A j \in 1 .. Len(data'[t]) : data'[t][j] = <<t, j - 1>>
<1>. DEFINE cmd == work[s].cmd
            file == work[s].file
<1>1. work[s].pc \in {"final", "writing"} /\ AppendChunk(file, cmd)
  BY SessionEffects, Zenon
<1>2. Busy(s) /\ cmd.op = "chunk" /\ file \in Transfers
  BY <1>1, Zenon DEF Busy, Typed, UploadTypeOK, Shape, Writing
<1>3. cmd \in Command /\ cmd.t \in Transfers /\ cmd.i \in Nat /\ SessionOf[cmd.t] = s /\ Working(cmd.t)
      /\ call[cmd.t] # "idle"
  BY <1>2, AtWork, Zenon
<1>4. data \in [Transfers -> Seq(Chunks)] /\ ChunksOf[t] \in Nat
  BY UploadAssumption, Zenon DEF Typed, UploadTypeOK
<1>5. file = t
  BY <1>1, <1>2, <1>4, Zenon DEF AppendChunk
<1>6. Of(file, PathOf[cmd.t])
  BY <1>2, UploadAssumption, Zenon DEF FilesHome
<1>7. cmd.t = t
  <2>1. Of(cmd.t, PathOf[t])
    BY <1>2, <1>3, <1>5, <1>6, UploadAssumption, Zenon DEF Of
  <2>. QED BY <2>1, <1>3, AloneIs, Zenon
<1>8. Wrote(t, file, cmd)
  <2>1. Tokens(t) /\ Progress(t) /\ OneFile(t) /\ Working(t) /\ file = FileOf(t)
        /\ cmd = work[SessionOf[t]].cmd /\ work[SessionOf[t]].pc \in {"final", "writing"}
    BY <1>1, <1>3, <1>7, Zenon DEF OrderInv, TransferInv, FileOf
  <2>. QED BY <2>1, <1>1, WriteOf, Zenon
<1>9. /\ \A h \in Nat : h < cmd.i => Has(t, t, h)
      /\ \A h \in Nat : Has(t, t, h) => h < cmd.i
  BY <1>5, <1>8, Zenon DEF Wrote
<1>10. cmd.i < ChunksOf[t]
  BY <1>2, <1>7, Zenon DEF CommandInv, Proper
<1>. HIDE DEF cmd, file
<1>11. data[t] \in Seq(Chunks) /\ data'[t] = Append(data[t], <<t, cmd.i>>) /\ Len(data[t]) \in Nat
  BY <1>1, <1>4, <1>5, <1>7 DEF AppendChunk
<1>12. \A j \in 1 .. Len(data[t]) : data[t][j] = <<t, j - 1>>
  BY Zenon DEF AloneInv
<1>13. Len(data[t]) = cmd.i
  <2>1. ~(Len(data[t]) < cmd.i)
    <3>. SUFFICES ASSUME Len(data[t]) < cmd.i PROVE FALSE
      BY Zenon
    <3>1. PICK j \in 1 .. Len(data[t]) : data[t][j] = <<t, Len(data[t])>>
      BY <1>9, <1>11, Zenon DEF Has
    <3>2. <<t, j - 1>> = <<t, Len(data[t])>>
      BY <3>1, <1>12, Zenon
    <3>. QED BY <3>2, <1>11
  <2>2. ~(Len(data[t]) > cmd.i)
    <3>. SUFFICES ASSUME Len(data[t]) > cmd.i PROVE FALSE
      BY Zenon
    <3>0. cmd.i + 1 \in 1 .. Len(data[t]) /\ (cmd.i + 1) - 1 = cmd.i
      BY <1>3, <1>11
    <3>1. PICK k \in 1 .. Len(data[t]) : k - 1 = cmd.i
      BY <3>0, Zenon
    <3>2. data[t][k] = <<t, k - 1>>
      BY <1>12, Zenon
    <3>3. Has(t, t, cmd.i)
      BY <3>1, <3>2, Zenon DEF Has
    <3>. QED BY <3>3, <1>3, <1>9
  <2>. QED BY <2>1, <2>2, <1>3, <1>11
<1>14. Len(data'[t]) = cmd.i + 1
  BY <1>11, <1>13
<1>15. ASSUME NEW j \in 1 .. Len(data'[t]) PROVE data'[t][j] = <<t, j - 1>>
  <2>1. CASE j \in 1 .. Len(data[t])
    <3>1. data'[t][j] = data[t][j]
      BY <2>1, <1>11
    <3>. QED BY <3>1, <2>1, <1>12, Zenon
  <2>2. CASE j = Len(data[t]) + 1
    <3>1. data'[t][j] = <<t, cmd.i>>
      BY <2>2, <1>11
    <3>. QED BY <3>1, <2>2, <1>3, <1>13
  <2>. QED BY <2>1, <2>2, <1>3, <1>13, <1>14
<1>. QED BY <1>3, <1>4, <1>7, <1>10, <1>13, <1>14, <1>15

\* A task that works for the path of a transfer that is alone works for it.
LEMMA AloneWorks ==
  ASSUME Typed, OrderInv, NEW t \in Transfers, Alone(t), NEW s \in Sessions, Busy(s),
         work[s].cmd.op # "delete", PathOf[work[s].cmd.t] = PathOf[t]
  PROVE  work[s].cmd.t = t /\ SessionOf[t] = s /\ Working(t) /\ ~Answered(t)
<1>1. work[s].cmd.t = t
  BY AtWork, AloneIs, Zenon DEF Of
<1>. QED BY <1>1, AtWork, Zenon

\* Session tasks keep what is known of a transfer that is alone.
LEMMA SessionAlone ==
  ASSUME Typed, OrderInv, CommandInv, LastInv, DoneInv, FilesHome, AloneInv,
         NEW s \in Sessions, SessionStep(s), NEW t \in Transfers, Alone(t)
  PROVE  /\ Holds(t)' => temp'[PathOf[t]] = t
         /\ Len(data'[t]) <= ChunksOf[t] /\ \A j \in 1 .. Len(data'[t]) : data'[t][j] = <<t, j - 1>>
         /\ Finished(t)' => Len(data'[t]) = ChunksOf[t] /\ (PathOf[t] \notin deleted => final'[PathOf[t]] = t)
         /\ final'[PathOf[t]] # Nil => final'[PathOf[t]] = t /\ Len(data'[t]) = ChunksOf[t]
<1>. DEFINE p == PathOf[t]
            cmd == work[s].cmd
<1>0. /\ Holds(t) => temp[p] = t
      /\ Len(data[t]) <= ChunksOf[t] /\ \A j \in 1 .. Len(data[t]) : data[t][j] = <<t, j - 1>>
      /\ Finished(t) => Len(data[t]) = ChunksOf[t] /\ (p \notin deleted => final[p] = t)
      /\ final[p] # Nil => final[p] = t /\ Len(data[t]) = ChunksOf[t]
      /\ Tokens(t) /\ Progress(t) /\ OneFile(t)
  BY Zenon DEF AloneInv, OrderInv, TransferInv
<1>1. /\ UNCHANGED <<call, deleted>>
      /\ replies' = replies \/ (Busy(s) /\ replies' = replies \cup {cmd}
                                /\ (InsertUpload(s) \/ RenameTemp(s) \/ WriteChunk(s)))
      /\ InsertUpload(s) \/ uploads'[t] \in {uploads[t], Nil}
      /\ OpenTemp(s) \/ RenameTemp(s) \/ temp' = temp
      /\ RenameTemp(s) \/ RemoveFile(s) \/ final' = final
  BY SessionEffects, Zenon
<1>2. /\ \A r \in Sessions : r # s => work'[r] = work[r]
      /\ Ends(s) \/ GoesOn(s) \/ Takes(s)
  BY SessionMoves, Zenon
<1>3. /\ temp \in [Paths -> Transfers \cup {Nil}] /\ final \in [Paths -> Transfers \cup {Nil}]
      /\ uploads \in [Transfers -> Transfers \cup {Nil}]
      /\ p \in Paths /\ t # Nil /\ SessionOf[t] \in Sessions /\ ChunksOf[t] \in Nat
  BY UploadAssumption, Zenon DEF Typed, UploadTypeOK
<1>4. ASSUME RenameTemp(s), PathOf[cmd.t] = p
      PROVE  /\ cmd.t = t /\ SessionOf[t] = s /\ Working(t) /\ ~Answered(t) /\ work[s].pc = "rename"
             /\ cmd.op = "chunk"
  <2>1. work[s].pc = "rename" /\ Busy(s) /\ cmd.op = "chunk"
    BY <1>4, Zenon DEF RenameTemp, At, Busy, Typed, Shape, Writing
  <2>. QED BY <2>1, <1>4, AloneWorks, Zenon
<1>5. Holds(t)' => temp'[p] = t
  <2>. SUFFICES ASSUME Holds(t)' PROVE temp'[p] = t
    BY Zenon
  <2>1. Holds(t) \/ (OpenTemp(s) /\ cmd.t = t)
    <3>1. CASE uploads'[t] # Nil
      <4>1. CASE InsertUpload(s) /\ cmd.t = t
        <5>1. work[s].pc = "opened" /\ Busy(s) /\ cmd.op = "start" /\ work[s].file # Nil
          BY <4>1, Zenon DEF InsertUpload, At, Busy, Typed, UploadTypeOK, Shape, Opening
        <5>2. SessionOf[t] = s /\ Working(t)
          BY <4>1, <5>1, AtWork, Zenon
        <5>. QED BY <5>1, <5>2, Zenon DEF Holds, FileOf
      <4>2. CASE InsertUpload(s) /\ cmd.t # t
        BY <4>2, <3>1, <1>3, Zenon DEF InsertUpload, Cmd, Holds
      <4>. QED BY <4>1, <4>2, <3>1, <1>1, Zenon DEF Holds
    <3>2. CASE Working(t)' /\ FileOf(t)' # Nil /\ SessionOf[t] # s
      BY <3>2, <1>2, <1>3, Zenon DEF Holds, Working, Works, Busy, FileOf
    <3>3. CASE Working(t)' /\ FileOf(t)' # Nil /\ SessionOf[t] = s
      <4>1. GoesOn(s) /\ work'[s].cmd.t = t
        BY <3>3, <1>2, Zenon DEF Working, Works, FileOf, Ends, Takes
      <4>2. cmd.t = t /\ Working(t) /\ work'[s].file # Nil
        BY <3>3, <4>1, Zenon DEF GoesOn, Working, Works, FileOf
      <4>3. \/ OpenTemp(s)
            \/ work'[s].file = uploads[t]
            \/ work'[s].file = work[s].file
        BY <4>1, <4>2, Zenon DEF GoesOn
      <4>. QED BY <4>2, <4>3, <3>3, Zenon DEF Holds, FileOf
    <3>. QED BY <3>1, <3>2, <3>3, Zenon DEF Holds
  <2>2. CASE OpenTemp(s)
    <3>1. temp' = [temp EXCEPT ![PathOf[cmd.t]] = IF @ = Nil THEN cmd.t ELSE @]
      BY <2>2, Zenon DEF OpenTemp, Cmd
    <3>2. CASE Holds(t)
      BY <3>1, <3>2, <1>0, <1>3, Zenon
    <3>3. CASE cmd.t = t
      <4>1. temp[p] # Nil => temp[p] = t
        BY <1>3, AloneIs DEF FilesHome
      <4>. QED BY <3>1, <3>3, <4>1, <1>3, Zenon
    <3>. QED BY <3>2, <3>3, <2>1, Zenon
  <2>3. CASE RenameTemp(s)
    <3>1. Holds(t) /\ temp[p] = t
      BY <2>1, <2>3, <1>0, Zenon DEF OpenTemp, RenameTemp, At
    <3>2. CASE PathOf[cmd.t] = p
      <4>1. cmd.t = t /\ SessionOf[t] = s /\ work[s].pc = "rename"
        BY <2>3, <3>2, <1>4, Zenon
      <4>2. uploads'[t] = Nil
        BY <4>1, <2>3, Zenon DEF LastInv, RenameTemp
      <4>3. ~Working(t)'
        BY <4>1, <2>3 DEF RenameTemp, Done, Idle, Working, Works, Busy, Typed, UploadTypeOK
      <4>. QED BY <4>2, <4>3, Zenon DEF Holds
    <3>3. CASE PathOf[cmd.t] # p
      BY <3>1, <3>3, <2>3, <1>3, Zenon DEF RenameTemp, Cmd
    <3>. QED BY <3>2, <3>3, Zenon
  <2>4. CASE temp' = temp /\ ~OpenTemp(s)
    BY <2>1, <2>4, <1>0, Zenon
  <2>. QED BY <2>2, <2>3, <2>4, <1>1, Zenon
<1>6. Len(data'[t]) <= ChunksOf[t] /\ \A j \in 1 .. Len(data'[t]) : data'[t][j] = <<t, j - 1>>
  BY <1>0, AloneWrites, Zenon
<1>7. ASSUME Finished(t) PROVE Len(data'[t]) = ChunksOf[t] /\ (p \notin deleted => final'[p] = t)
  <2>1. ~Working(t)
    BY <1>0, <1>7, Zenon DEF Finished, Answered, Tokens, DoneInv, Active
  <2>2. data'[t] = data[t]
    BY <2>1, AloneWrites, Zenon
  <2>3. CASE RenameTemp(s)
    <3>1. PathOf[cmd.t] # p
      BY <2>1, <2>3, <1>4, Zenon
    <3>. QED BY <3>1, <2>2, <2>3, <1>0, <1>3, <1>7, Zenon DEF RenameTemp, Cmd
  <2>4. CASE RemoveFile(s)
    <3>1. work[s].pc = "deleting" /\ final' \in {final, [final EXCEPT ![cmd.path] = Nil]}
      BY <2>4, Zenon DEF RemoveFile, At, Cmd
    <3>2. cmd.path \in deleted
      BY <3>1, Zenon DEF CommandInv, Proper, Busy, Typed, Shape
    <3>3. p \notin deleted => final'[p] = final[p]
      BY <3>1, <3>2, <1>3, Zenon
    <3>. QED BY <3>3, <2>2, <1>0, <1>7, Zenon
  <2>. QED BY <2>2, <2>3, <2>4, <1>0, <1>1, <1>7, Zenon
<1>8. ASSUME RenameTemp(s), PathOf[cmd.t] = p PROVE final'[p] = t /\ Len(data'[t]) = ChunksOf[t]
  <2>1. cmd.t = t /\ cmd.op = "chunk" /\ SessionOf[t] = s /\ Working(t) /\ work[s].pc = "rename"
    BY <1>4, <1>8, Zenon
  <2>2. IsLast(t, cmd.i) /\ Busy(s)
    BY <2>1, Zenon DEF LastInv, Busy
  <2>3. InHand(t) /\ FileOf(t) = work[s].file /\ work[s].file \in Transfers /\ work[s].file # Nil
    BY <2>1, Zenon DEF InHand, FileOf, Typed, UploadTypeOK
  <2>4. FileOf(t) = t
    <3>1. Of(work[s].file, p)
      BY <2>1, <2>3, Zenon DEF FilesHome
    <3>. QED BY <3>1, <2>3, AloneIs, Zenon
  <2>5. temp[p] = t
    BY <2>1, <2>3, <1>0, <1>3, Zenon DEF Holds
  <2>6. Has(t, t, cmd.i) /\ cmd.i \in Nat
    <3>1. Written(t, cmd) /\ cmd.i \in Nat
      BY <2>1, <2>2, <1>0, AtWork, Zenon DEF Progress
    <3>2. PICK x \in Transfers : Has(x, t, cmd.i)
      BY <3>1, <2>1, Zenon DEF Written
    <3>. QED BY <3>1, <3>2, <2>3, <2>4, <1>0, Zenon DEF OneFile
  <2>7. Len(data[t]) = ChunksOf[t]
    <3>1. cmd.i + 1 >= ChunksOf[t] /\ Len(data[t]) \in Nat
      BY <2>2 DEF IsLast, Typed, UploadTypeOK
    <3>2. PICK j \in 1 .. Len(data[t]) : data[t][j] = <<t, cmd.i>>
      BY <2>6, Zenon DEF Has
    <3>3. <<t, j - 1>> = <<t, cmd.i>>
      BY <3>2, <1>0, Zenon
    <3>4. j - 1 = cmd.i
      BY <3>3, Zenon
    <3>. QED BY <3>1, <3>4, <2>6, <1>0, <1>3, SMTT(20)
  <2>8. data' = data /\ final'[p] = temp[p]
    BY <2>1, <1>3, <1>8, Zenon DEF RenameTemp, Cmd
  <2>. QED BY <2>5, <2>7, <2>8, Zenon
<1>9. ASSUME Finished(t)', ~Finished(t) PROVE final'[p] = t /\ Len(data'[t]) = ChunksOf[t]
  <2>1. /\ cmd.t = t /\ cmd.op = "chunk" /\ IsLast(t, cmd.i) /\ Busy(s)
        /\ InsertUpload(s) \/ RenameTemp(s) \/ WriteChunk(s)
    BY <1>1, <1>9, Zenon DEF Finished
  <2>2. ~InsertUpload(s)
    BY <2>1, Zenon DEF InsertUpload, At, Typed, Shape, Opening
  <2>3. ~WriteChunk(s)
    BY <2>1, Zenon DEF WriteChunk, At, LastInv
  <2>. QED BY <2>1, <2>2, <2>3, <1>8, Zenon
<1>10. ASSUME final'[p] # Nil PROVE final'[p] = t /\ Len(data'[t]) = ChunksOf[t]
  <2>1. CASE RenameTemp(s) /\ PathOf[cmd.t] = p
    BY <2>1, <1>8, Zenon
  <2>2. CASE ~ (RenameTemp(s) /\ PathOf[cmd.t] = p)
    <3>1. final'[p] = final[p]
      <4>1. CASE RenameTemp(s)
        BY <2>2, <4>1, <1>3, Zenon DEF RenameTemp, Cmd
      <4>2. CASE RemoveFile(s)
        BY <4>2, <1>3, <1>10, Zenon DEF RemoveFile, Cmd
      <4>. QED BY <4>1, <4>2, <1>1, Zenon
    <3>2. final[p] = t /\ Len(data[t]) = ChunksOf[t]
      BY <3>1, <1>0, <1>10, Zenon
    <3>3. data'[t] = data[t]
      <4>1. data'[t] # data[t] => Len(data'[t]) = Len(data[t]) + 1 /\ Len(data'[t]) <= ChunksOf[t]
        BY AloneWrites, Zenon
      <4>. QED BY <4>1, <3>2, <1>3
    <3>. QED BY <3>1, <3>2, <3>3, Zenon
  <2>. QED BY <2>1, <2>2, Zenon
<1>. QED BY <1>5, <1>6, <1>7, <1>9, <1>10, Zenon

\* The first states: no chunk is written, and no file is open.
LEMMA ExactInit == Init => ExactInv
<1>. SUFFICES ASSUME Init PROVE ExactInv
  BY Zenon
<1>1. Typed /\ OrderInv
  BY TypedInit, OrderInit, Zenon
<1>2. /\ \A s \in Sessions : queue[s] = <<>> /\ ~Busy(s) /\ work[s].pc = "idle" /\ work[s].file = Nil
      /\ \A t \in Transfers : uploads[t] = Nil /\ data[t] = <<>> /\ call[t] = "idle"
      /\ \A p \in Paths : temp[p] = Nil /\ final[p] = Nil
      /\ replies = {}
  BY Zenon DEF Init, Idle, Busy
<1>3. CommandInv /\ LastInv /\ DoneInv /\ FilesHome
  BY <1>2, UploadAssumption DEF CommandInv, LastInv, DoneInv, FilesHome, Of
<1>4. ASSUME NEW t \in Transfers
      PROVE  ~Holds(t) /\ ~Finished(t) /\ Len(data[t]) = 0 /\ ChunksOf[t] \in Nat /\ final[PathOf[t]] = Nil
  BY <1>2, UploadAssumption DEF Holds, Working, Works, Finished
<1>5. AloneInv
  BY <1>4 DEF AloneInv
<1>. QED BY <1>1, <1>3, <1>5, Zenon DEF ExactInv

\* Every step keeps ExactInv.
LEMMA ExactNext == ExactInv /\ [Next]_vars => ExactInv'
<1>. SUFFICES ASSUME ExactInv, [Next]_vars PROVE ExactInv'
  BY Zenon
<1>1. /\ Typed /\ OrderInv /\ CommandInv /\ LastInv /\ DoneInv /\ FilesHome /\ AloneInv
      /\ Typed' /\ OrderInv'
  BY TypedNext, OrderNext, Zenon DEF ExactInv
<1>2. ASSUME NEW s \in Sessions, SessionStep(s) PROVE ExactInv'
  <2>1. (CommandInv /\ LastInv /\ DoneInv /\ FilesHome)'
    BY <1>1, <1>2, SessionCommands, SessionFiles, Zenon
  <2>2. deleted' = deleted /\ \A t \in Transfers : Alone(t)' => Alone(t)
    BY <1>1, <1>2, SessionEffects, Zenon DEF Alone
  <2>3. AloneInv'
    BY <1>1, <1>2, <2>2, SessionAlone, Zenon DEF AloneInv
  <2>. QED BY <1>1, <2>1, <2>3, Zenon DEF ExactInv
<1>3. CASE \A s \in Sessions : ~SessionStep(s)
  BY <1>1, <1>3, CallSteps, CallExact, Zenon DEF ExactInv
<1>. QED BY <1>2, <1>3, Zenon

\* The chunks of a transfer alone on its path are all of its content, in order.
LEMMA WholeContent ==
  ASSUME ExactInv, NEW t \in Transfers, Alone(t), final[PathOf[t]] = t, Len(data[t]) = ChunksOf[t]
  PROVE  UploadedAs(t)
<1>1. data[t] \in Seq(Chunks) /\ t # Nil
  BY UploadAssumption, Zenon DEF ExactInv, Typed, UploadTypeOK
<1>2. \A j \in 1 .. Len(data[t]) : data[t][j] = <<t, j - 1>>
  BY Zenon DEF ExactInv, AloneInv
<1>3. data[t] = [j \in 1 .. Len(data[t]) |-> data[t][j]]
  BY <1>1
<1>4. data[t] = Content(t)
  BY <1>2, <1>3, Zenon DEF Content
<1>. QED BY <1>1, <1>4, Zenon DEF UploadedAs

\* A call of uploadFile that has received its last ACK has left exactly its
\* chunks under the final name, if it was the only one ever started for its
\* path and nobody asked to delete it: upload_file_chunk renames the file
\* before it acknowledges, whatever other transfers, clean-ups, timeouts and
\* disconnections do meanwhile.
THEOREM UploadStored == Spec => []UploadExact
<1>1. ExactInv => UploadExact
  <2>. SUFFICES ASSUME ExactInv, NEW t \in Transfers, Completed(t), \A u \in Others(t) : call[u] = "idle"
                PROVE  UploadedAs(t)
    BY Zenon DEF UploadExact
  <2>1. Alone(t) /\ Finished(t) /\ PathOf[t] \notin deleted
    BY Zenon DEF Completed, Alone, Finished
  <2>2. final[PathOf[t]] = t /\ Len(data[t]) = ChunksOf[t]
    BY <2>1, Zenon DEF ExactInv, AloneInv
  <2>. QED BY <2>1, <2>2, WholeContent, Zenon
<1>. QED BY <1>1, ExactInit, ExactNext, PTL DEF Spec

\* In no state does the final name of a path with a single transfer show part
\* of a file, however the transfer is cut short and whoever deletes the path:
\* only a file that has received its last chunk is renamed, and nothing is
\* written to it afterwards.
THEOREM FinalWhole == Spec => []FinalIsWhole
<1>1. ExactInv => FinalIsWhole
  <2>. SUFFICES ASSUME ExactInv, NEW t \in Transfers, final[PathOf[t]] # Nil,
                       \A u \in Others(t) : call[u] = "idle"
                PROVE  UploadedAs(t)
    BY Zenon DEF FinalIsWhole
  <2>1. Alone(t)
    BY Zenon DEF Alone
  <2>2. final[PathOf[t]] = t /\ Len(data[t]) = ChunksOf[t]
    BY <2>1, Zenon DEF ExactInv, AloneInv
  <2>. QED BY <2>1, <2>2, WholeContent, Zenon
<1>. QED BY <1>1, ExactInit, ExactNext, PTL DEF Spec
=============================================================================
