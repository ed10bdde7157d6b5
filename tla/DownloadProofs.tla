--------------------------- MODULE DownloadProofs ---------------------------
(***************************************************************************)
(* Proofs about Download: one command or answer of a call is under way at  *)
(* a time, and only chunks that were asked for are received, for any       *)
(* number of clients and calls, any file and any size of a chunk.          *)
(***************************************************************************)
EXTENDS Download, FiniteSetTheorems, TLAPS

Command == [op : {"start", "chunk"}, d : Calls, i : Nat]
Answer == [op : {"start", "chunk"}, d : Calls, i : Nat, size : Nat, data : Bytes]
Task == [pc : {"idle", "start", "stat", "reading", "remove", "closed"},
         d : Calls \cup {Nil}, i : Nat, size : Nat]

Works(c) == work[c].pc \notin {"idle", "closed"}

\* What DownloadTypeOK says of everything but the chunks, with what it needs to
\* be kept: commands are sent to the session of their client.
Typed ==
  /\ file \in Bytes /\ truncated \in BOOLEAN
  /\ call \in [Calls -> {"idle", "starting", "fetching", "done", "failed"}]
  /\ total \in [Calls -> Nat] /\ next \in [Calls -> Nat]
  /\ chunks = [d \in Calls |-> chunks[d]]
  /\ queue \in [Clients -> Seq(Command)]
  /\ work \in [Clients -> Task]
  /\ replies \subseteq Answer
  /\ stale \subseteq downloads /\ downloads \subseteq Calls
  /\ sweep \in [Sweepers -> SUBSET Calls]
  /\ gone \subseteq Clients /\ closing \subseteq Clients
  /\ \A c \in Clients : \A j \in 1 .. Len(queue[c]) : ClientOf[queue[c][j].d] = c
  /\ \A c \in Clients : Works(c) => work[c].d \in Calls /\ ClientOf[work[c].d] = c

-----------------------------------------------------------------------------
(* One command or answer of a call at a time, about the chunk asked for    *)
(* last.                                                                   *)

Asked(op, d, i) == next[d] = IF op = "start" THEN 0 ELSE i + 1
Phase(pc) == IF pc \in {"start", "stat"} THEN "start" ELSE "chunk"

Queue(d) == queue[ClientOf[d]]
Job(d) == work[ClientOf[d]]
Waiting(d) == \E j \in 1 .. Len(Queue(d)) : Queue(d)[j].d = d
Working(d) == Works(ClientOf[d]) /\ Job(d).d = d
Answered(d) == \E r \in replies : r.d = d

QueuesUnique ==
  \A c \in Clients : \A j, k \in 1 .. Len(queue[c]) : queue[c][j].d = queue[c][k].d => j = k

Tokens(d) ==
  /\ call[d] \in {"idle", "done"} => ~Waiting(d) /\ ~Working(d) /\ ~Answered(d)
  /\ Waiting(d) => ~Working(d) /\ ~Answered(d)
  /\ Working(d) => ~Answered(d)
  /\ \A r, q \in replies : r.d = d /\ q.d = d => r = q

Current(d) ==
  /\ call[d] \in {"idle", "starting"} => next[d] = 0
  /\ \A j \in 1 .. Len(Queue(d)) : Queue(d)[j].d = d => Asked(Queue(d)[j].op, d, Queue(d)[j].i)
  /\ Working(d) => Asked(Phase(Job(d).pc), d, Job(d).i)
  /\ \A r \in replies : r.d = d => Asked(r.op, d, r.i) /\ (r.op = "chunk" => r.data # <<>>)

\* So the chunks come in order, and the last is the last.
Gathered(d) ==
  /\ \A i \in DOMAIN chunks[d] : i \in Nat /\ i < next[d] /\ chunks[d][i] \in Bytes \ {<<>>}
  /\ call[d] = "fetching" => next[d] > 0 /\ (total[d] # 0 => DOMAIN chunks[d] = 0 .. next[d] - 2)
  /\ call[d] = "done" => /\ total[d] # 0 /\ next[d] = TotalChunks(total[d])
                         /\ DOMAIN chunks[d] = 0 .. next[d] - 1

CallInv(d) == Tokens(d) /\ Current(d) /\ Gathered(d)
OneAtATime == QueuesUnique /\ \A d \in Calls : CallInv(d)

-----------------------------------------------------------------------------
(* Reading.                                                                *)

LEMMA ChunkPositionNat ==
  ASSUME NEW i \in Nat
  PROVE  ChunkPosition(i) \in Nat
BY DownloadAssumption DEF ChunkPosition

\* What is read is part of the file, starts where the chunk does, and ends
\* where the chunk or the file does.
LEMMA ReadBytes ==
  ASSUME file \in Bytes, NEW i \in Nat, InFile(i)
  PROVE  /\ ReadAt(i) \in Bytes
         /\ Len(ReadAt(i)) \in 1 .. CHUNK_SIZE
         /\ ChunkPosition(i) + Len(ReadAt(i)) <= Len(file)
         /\ \A j \in 1 .. Len(ReadAt(i)) : ReadAt(i)[j] = file[ChunkPosition(i) + j]
         /\ Len(ReadAt(i)) = CHUNK_SIZE \/ ChunkPosition(i) + Len(ReadAt(i)) = Len(file)
<1>. DEFINE p == ChunkPosition(i)
            e == Min({p + CHUNK_SIZE, Len(file)})
<1>1. p \in Nat /\ CHUNK_SIZE \in Nat \ {0} /\ Len(file) \in Nat /\ p < Len(file) /\ file \in Seq(Nat)
  BY ChunkPositionNat, DownloadAssumption DEF InFile, Bytes
<1>. HIDE DEF p
<1>2. e = IF p + CHUNK_SIZE <= Len(file) THEN p + CHUNK_SIZE ELSE Len(file)
  BY <1>1 DEF Min
<1>. HIDE DEF e
<1>3. e \in Nat /\ p + 1 <= e /\ e <= Len(file) /\ e <= p + CHUNK_SIZE
  BY <1>1, <1>2
<1>4. ReadAt(i) = SubSeq(file, p + 1, e)
  BY Zenon DEF ReadAt, p, e
<1>5. /\ SubSeq(file, p + 1, e) \in Seq(Nat) /\ Len(SubSeq(file, p + 1, e)) = e - p
      /\ \A j \in 1 .. e - p : SubSeq(file, p + 1, e)[j] = file[p + j]
  BY <1>1, <1>3
<1>. HIDE <1>4
<1>6. Len(ReadAt(i)) = e - p /\ ReadAt(i) \in Bytes
  BY <1>4, <1>5, Zenon DEF Bytes
<1>7. \A j \in 1 .. e - p : ReadAt(i)[j] = file[p + j]
  BY <1>4, <1>5, Zenon
<1>8. /\ Len(ReadAt(i)) \in 1 .. CHUNK_SIZE /\ p + Len(ReadAt(i)) <= Len(file)
      /\ Len(ReadAt(i)) = CHUNK_SIZE \/ p + Len(ReadAt(i)) = Len(file)
  BY <1>1, <1>2, <1>3, <1>6
<1>9. \A j \in 1 .. Len(ReadAt(i)) : ReadAt(i)[j] = file[p + j]
  BY <1>6, <1>7, Zenon
<1>. QED
  BY <1>6, <1>8, <1>9, Zenon DEF p

-----------------------------------------------------------------------------
(* Queues.                                                                 *)

\* A command that is sent goes behind the others.
LEMMA SubmitQueue ==
  ASSUME Typed, NEW d \in Calls, NEW op \in {"start", "chunk"}, NEW i \in Nat, Submit(d, op, i)
  PROVE  /\ queue' \in [Clients -> Seq(Command)]
         /\ \A c \in Clients : \A j \in 1 .. Len(queue'[c]) :
              \/ j \in 1 .. Len(queue[c]) /\ queue'[c][j] = queue[c][j]
              \/ /\ c = ClientOf[d] /\ j = Len(queue[c]) + 1
                 /\ queue'[c][j] = [op |-> op, d |-> d, i |-> i]
<1>. DEFINE cmd == [op |-> op, d |-> d, i |-> i]
            b == ClientOf[d]
<1>1. cmd \in Command /\ b \in Clients /\ queue \in [Clients -> Seq(Command)]
  BY DownloadAssumption, Zenon DEF Command, Typed
<1>2. queue' = [queue EXCEPT ![b] = Append(@, cmd)]
  BY Zenon DEF Submit
<1>. HIDE DEF cmd
<1>3. queue[b] \in Seq(Command) /\ queue'[b] = Append(queue[b], cmd)
  BY <1>1, <1>2, Zenon
<1>4. queue'[b] \in Seq(Command) /\ Len(queue'[b]) = Len(queue[b]) + 1 /\ Len(queue[b]) \in Nat
  BY <1>1, <1>3
<1>5. \A j \in 1 .. Len(queue[b]) : queue'[b][j] = queue[b][j]
  BY <1>1, <1>3
<1>6. queue'[b][Len(queue[b]) + 1] = cmd
  BY <1>1, <1>3
<1>7. queue' \in [Clients -> Seq(Command)] /\ \A c \in Clients : c # b => queue'[c] = queue[c]
  BY <1>1, <1>2, <1>4, Zenon
<1>8. \A j \in 1 .. Len(queue'[b]) : \/ j \in 1 .. Len(queue[b]) /\ queue'[b][j] = queue[b][j]
                                     \/ j = Len(queue[b]) + 1 /\ queue'[b][j] = cmd
  BY <1>4, <1>5, <1>6
<1>. QED
  BY <1>7, <1>8, Zenon DEF cmd

\* A queue whose first command is taken, or which is dropped.
LEMMA ShorterQueue ==
  ASSUME Typed, NEW b \in Clients,
         \/ queue' = [queue EXCEPT ![b] = <<>>]
         \/ queue[b] # <<>> /\ queue' = [queue EXCEPT ![b] = Tail(@)]
  PROVE  /\ queue' \in [Clients -> Seq(Command)]
         /\ \A c \in Clients : \A j \in 1 .. Len(queue'[c]) :
              \E k \in 1 .. Len(queue[c]) : queue'[c][j] = queue[c][k] /\ (c = b => k # 1)
         /\ QueuesUnique => QueuesUnique'
<1>1. queue \in [Clients -> Seq(Command)]
  BY Zenon DEF Typed
<1>2. \A c \in Clients : c # b => queue'[c] = queue[c]
  BY <1>1, Zenon
<1>3. CASE queue' = [queue EXCEPT ![b] = <<>>]
  <2>1. queue'[b] = <<>> /\ <<>> \in Seq(Command)
    BY <1>1, <1>3
  <2>2. queue' \in [Clients -> Seq(Command)]
    BY <1>1, <1>3, <2>1, Zenon
  <2>3. 1 .. Len(queue'[b]) = {}
    BY <2>1
  <2>4. ASSUME NEW c \in Clients, NEW j \in 1 .. Len(queue'[c]) PROVE queue'[c] = queue[c] /\ c # b
    BY <1>2, <2>3, Zenon
  <2>. QED BY <2>2, <2>4, Zenon DEF QueuesUnique
<1>4. CASE queue[b] # <<>> /\ queue' = [queue EXCEPT ![b] = Tail(@)]
  <2>1. queue[b] \in Seq(Command) /\ queue'[b] = Tail(queue[b]) /\ Tail(queue[b]) \in Seq(Command)
    BY <1>1, <1>4
  <2>2. \A j \in 1 .. Len(queue'[b]) : j + 1 \in 1 .. Len(queue[b]) /\ queue'[b][j] = queue[b][j + 1]
    BY <2>1, <1>4
  <2>3. queue' \in [Clients -> Seq(Command)]
    BY <1>1, <1>4, <2>1, Zenon
  <2>4. ASSUME NEW c \in Clients, NEW j \in 1 .. Len(queue'[c])
        PROVE  \E k \in 1 .. Len(queue[c]) : queue'[c][j] = queue[c][k] /\ (c = b => k # 1)
    <3>1. CASE c = b
      BY <3>1, <2>2
    <3>2. CASE c # b
      BY <3>2, <1>2, Zenon
    <3>. QED BY <3>1, <3>2, Zenon
  <2>5. ASSUME QueuesUnique PROVE QueuesUnique'
    <3>. SUFFICES ASSUME NEW c \in Clients, NEW j \in 1 .. Len(queue'[c]), NEW k \in 1 .. Len(queue'[c]),
                         queue'[c][j].d = queue'[c][k].d
                  PROVE  j = k
      BY Zenon DEF QueuesUnique
    <3>1. CASE c # b
      BY <3>1, <1>2, <2>5, Zenon DEF QueuesUnique
    <3>2. CASE c = b
      <4>1. /\ j + 1 \in 1 .. Len(queue[b]) /\ queue'[b][j] = queue[b][j + 1]
            /\ k + 1 \in 1 .. Len(queue[b]) /\ queue'[b][k] = queue[b][k + 1]
        BY <3>2, <2>2, Zenon
      <4>2. j + 1 = k + 1
        BY <4>1, <3>2, <2>5, Zenon DEF QueuesUnique
      <4>. QED BY <4>2
    <3>. QED BY <3>1, <3>2, Zenon
  <2>. QED BY <2>3, <2>4, <2>5, Zenon
<1>. QED BY <1>3, <1>4, Zenon

\* The command taken is the first of the queue, and one of the session's client.
LEMMA TakenFirst ==
  ASSUME Typed, NEW c \in Clients, queue[c] # <<>>
  PROVE  /\ 1 \in 1 .. Len(queue[c]) /\ Head(queue[c]) = queue[c][1]
         /\ queue[c][1] \in Command /\ ClientOf[queue[c][1].d] = c
<1>1. queue[c] \in Seq(Command)
  BY Zenon DEF Typed
<1>2. Len(queue[c]) \in Nat /\ Len(queue[c]) # 0
  BY <1>1
<1>3. 1 \in 1 .. Len(queue[c]) /\ Head(queue[c]) = queue[c][1]
  BY <1>1, <1>2
<1>4. queue[c][1] \in Command
  BY <1>1, <1>3
<1>. QED BY <1>3, <1>4, Zenon DEF Typed

-----------------------------------------------------------------------------
(* Types.                                                                  *)

\* What a step leaves of Typed when it changes queues, tasks and answers.
Homes ==
  /\ queue \in [Clients -> Seq(Command)]
  /\ work \in [Clients -> Task]
  /\ replies \subseteq Answer
  /\ \A c \in Clients : \A j \in 1 .. Len(queue[c]) : ClientOf[queue[c][j].d] = c
  /\ \A c \in Clients : Works(c) => work[c].d \in Calls /\ ClientOf[work[c].d] = c

\* Queues that get shorter keep their commands at home.
LEMMA ShorterHomes ==
  ASSUME Typed, NEW b \in Clients,
         \/ queue' = [queue EXCEPT ![b] = <<>>]
         \/ queue[b] # <<>> /\ queue' = [queue EXCEPT ![b] = Tail(@)]
  PROVE  /\ queue' \in [Clients -> Seq(Command)]
         /\ \A c \in Clients : \A j \in 1 .. Len(queue'[c]) : ClientOf[queue'[c][j].d] = c
<1>1. queue' \in [Clients -> Seq(Command)]
  BY ShorterQueue, Zenon
<1>2. ASSUME NEW c \in Clients, NEW j \in 1 .. Len(queue'[c]) PROVE ClientOf[queue'[c][j].d] = c
  <2>1. PICK k \in 1 .. Len(queue[c]) : queue'[c][j] = queue[c][k]
    BY ShorterQueue
  <2>. QED BY <2>1 DEF Typed
<1>. QED BY <1>1, <1>2, Zenon

\* The steps of a session task.
LEMMA SessionTyped ==
  ASSUME Typed, NEW c \in Clients, SessionStep(c)
  PROVE  Homes' /\ stale' \subseteq downloads' /\ downloads' \subseteq Calls
         /\ sweep' \in [Sweepers -> SUBSET Calls]
<1>0. /\ work \in [Clients -> Task] /\ work[c] \in Task /\ c \in Sweepers /\ Idle \in Task
      /\ queue \in [Clients -> Seq(Command)] /\ replies \subseteq Answer
      /\ stale \subseteq downloads /\ downloads \subseteq Calls
      /\ sweep \in [Sweepers -> SUBSET Calls] /\ file \in Seq(Nat)
      /\ Works(c) => work[c].d \in Calls
  BY Zenon DEF Typed, Sweepers, Idle, Task, Bytes
<1>1. CASE SessionStops(c)
  <2>1. /\ work' \in [Clients -> Task] /\ \A b \in Clients : Works(b)' => work'[b] = work[b] /\ Works(b)
    BY <1>0, <1>1, Zenon DEF SessionStops, Goto, Task, Works
  <2>. QED BY <1>0, <1>1, <2>1, ShorterHomes, Zenon DEF SessionStops, Homes, Typed, mapVars
<1>2. ASSUME NEW op \in {"start", "chunk"}, NEW pc \in {"start", "reading"}, Take(c, op, pc), replies' = replies
      PROVE  Homes'
  <2>1. queue[c][1] \in Command /\ ClientOf[queue[c][1].d] = c /\ Head(queue[c]) = queue[c][1]
    BY <1>2, TakenFirst, Zenon DEF Take
  <2>2. work' = [work EXCEPT ![c] = [pc |-> pc, d |-> queue[c][1].d, i |-> queue[c][1].i, size |-> 0]]
    BY <1>2, <2>1, Zenon DEF Take
  <2>3. work' \in [Clients -> Task]
    BY <1>0, <2>1, <2>2, Zenon DEF Task, Command
  <2>4. \A b \in Clients : Works(b)' => work'[b].d \in Calls /\ ClientOf[work'[b].d] = b
    BY <1>0, <2>1, <2>2, SMTT(20) DEF Task, Command, Works, Typed
  <2>. QED BY <1>0, <1>2, <2>3, <2>4, ShorterHomes, Zenon DEF Take, Homes
<1>3. CASE StartDownload(c)
  BY <1>0, <1>2, <1>3, Zenon DEF StartDownload, Abandoned
<1>4. CASE LockEntry(c)
  BY <1>0, <1>2, <1>4, Zenon DEF LockEntry, mapVars
<1>5. CASE NotFound(c)
  BY <1>0, <1>5, ShorterHomes, Zenon DEF NotFound, mapVars, Homes, Typed, Works
<1>6. ASSUME NEW w \in Task, work' = [work EXCEPT ![c] = w],
             w.pc \in {"idle", "closed"} \/ (Works(c) /\ w.d = work[c].d)
      PROVE  /\ work' \in [Clients -> Task]
             /\ \A b \in Clients : Works(b)' => work'[b].d \in Calls /\ ClientOf[work'[b].d] = b
  BY <1>0, <1>6, Zenon DEF Works, Typed
<1>7. CASE ReadMetadata(c) \/ StartFails(c) \/ ReadEnds(c)
  <2>1. Len(file) \in Nat
    BY <1>0
  <2>2. CASE ReadMetadata(c)
    <3>1. work' = [work EXCEPT ![c] = [@ EXCEPT !.pc = "stat", !.size = Len(file)]]
      BY <1>0, <2>2, Zenon DEF ReadMetadata
    <3>2. [work[c] EXCEPT !.pc = "stat", !.size = Len(file)] \in Task
      BY <1>0, <2>1, Zenon DEF Task
    <3>3. Works(c)
      BY <2>2, Zenon DEF ReadMetadata, At, Works
    <3>. QED BY <1>0, <1>6, <2>2, <3>1, <3>2, <3>3, Zenon DEF ReadMetadata, mapVars, Homes,
                Typed, Task
  <2>3. CASE StartFails(c)
    BY <1>0, <1>6, <2>3, Zenon DEF StartFails, Done, Idle, mapVars, Homes, Typed
  <2>4. CASE ReadEnds(c)
    <3>1. work' = [work EXCEPT ![c] = [@ EXCEPT !.pc = "remove"]]
      BY <1>0, <2>4, Zenon DEF ReadEnds, Goto
    <3>2. [work[c] EXCEPT !.pc = "remove"] \in Task
      BY <1>0, Zenon DEF Task
    <3>3. Works(c)
      BY <2>4, Zenon DEF ReadEnds, At, Works
    <3>. QED BY <1>0, <1>6, <2>4, <3>1, <3>2, <3>3, Zenon DEF ReadEnds, mapVars, Homes, Typed,
                Task
  <2>. QED BY <1>7, <2>2, <2>3, <2>4, Zenon
<1>8. CASE InsertDownload(c) \/ ReadChunk(c) \/ RemoveDownload(c)
  <2>1. /\ work' = [work EXCEPT ![c] = Idle] /\ Works(c)
        /\ work[c].d \in Calls /\ work[c].i \in Nat /\ work[c].size \in Nat
    BY <1>0, <1>8, Zenon DEF InsertDownload, ReadChunk, RemoveDownload, At, Done, Task, Works
  <2>2. <<>> \in Bytes
    BY DEF Bytes
  <2>3. CASE InsertDownload(c)
    <3>1. [op |-> "start", d |-> work[c].d, i |-> 0, size |-> work[c].size, data |-> <<>>] \in Answer
      BY <2>1, <2>2, Zenon DEF Answer
    <3>. QED BY <1>0, <1>6, <2>1, <2>3, <3>1, ZenonT(20) DEF InsertDownload, Reply, Homes, Typed, Idle
  <2>4. CASE ReadChunk(c)
    <3>1. ReadAt(work[c].i) \in Bytes
      BY <2>1, <2>4, ReadBytes, Zenon DEF Typed, ReadChunk
    <3>2. [op |-> "chunk", d |-> work[c].d, i |-> work[c].i, size |-> 0, data |-> ReadAt(work[c].i)] \in Answer
      BY <2>1, <3>1, Zenon DEF Answer
    <3>. QED BY <1>0, <1>6, <2>1, <2>4, <3>2, ZenonT(20) DEF ReadChunk, Reply, Homes, Typed, Idle
  <2>5. CASE RemoveDownload(c)
    BY <1>0, <1>6, <2>1, <2>5, Zenon DEF RemoveDownload, RemoveEntry, Homes, Typed, Idle
  <2>. QED BY <1>8, <2>3, <2>4, <2>5, Zenon
<1>. QED
  BY <1>1, <1>3, <1>4, <1>5, <1>7, <1>8, Zenon DEF SessionStep

\* The type invariant, chunks aside, is kept.
LEMMA TypedStep ==
  ASSUME Typed, [Next]_vars
  PROVE  Typed'
<1>0. /\ file \in Seq(Nat) /\ queue \in [Clients -> Seq(Command)] /\ sweep \in [Sweepers -> SUBSET Calls]
      /\ call \in [Calls -> {"idle", "starting", "fetching", "done", "failed"}]
      /\ total \in [Calls -> Nat] /\ next \in [Calls -> Nat] /\ replies \subseteq Answer
      /\ "cleanup" \in Sweepers /\ "reader" \in Sweepers
  BY Zenon DEF Typed, Bytes, Sweepers
<1>1. CASE FileChanges
  <2>1. Len(file) \in Nat /\ Append(file, Len(file) + 1) \in Seq(Nat)
    BY <1>0
  <2>2. \A n \in 0 .. Len(file) - 1 : SubSeq(file, 1, n) \in Seq(Nat)
    BY <1>0, <2>1
  <2>3. file' \in Bytes /\ truncated' \in BOOLEAN
    BY <1>1, <2>1, <2>2, Zenon DEF FileChanges, Bytes, Typed
  <2>. QED BY <1>1, <2>3, Zenon DEF FileChanges, clientVars, mapVars, readerVars, Typed, Works
<1>2. ASSUME NEW d \in Calls, NEW op \in {"start", "chunk"}, NEW i \in Nat, Submit(d, op, i)
      PROVE  /\ queue' \in [Clients -> Seq(Command)]
             /\ \A c \in Clients : \A j \in 1 .. Len(queue'[c]) : ClientOf[queue'[c][j].d] = c
  <2>1. queue' \in [Clients -> Seq(Command)]
    BY <1>2, SubmitQueue, Zenon
  <2>2. ASSUME NEW c \in Clients, NEW j \in 1 .. Len(queue'[c]) PROVE ClientOf[queue'[c][j].d] = c
    <3>1. \/ j \in 1 .. Len(queue[c]) /\ queue'[c][j] = queue[c][j]
          \/ c = ClientOf[d] /\ queue'[c][j] = [op |-> op, d |-> d, i |-> i]
      BY <1>2, SubmitQueue
    <3>. QED BY <3>1 DEF Typed
  <2>. QED BY <2>1, <2>2, Zenon
<1>3. ASSUME NEW d \in Calls, downloadFile(d) PROVE Typed'
  BY <1>0, <1>2, <1>3, Zenon DEF downloadFile, fileVars, mapVars, readerVars, Typed, Works
<1>4. ASSUME NEW d \in Calls, requestNextDownloadChunk(d)
      PROVE  /\ queue' \in [Clients -> Seq(Command)] /\ next' \in [Calls -> Nat]
             /\ \A c \in Clients : \A j \in 1 .. Len(queue'[c]) : ClientOf[queue'[c][j].d] = c
  BY <1>0, <1>2, <1>4 DEF requestNextDownloadChunk
<1>5. ASSUME NEW d \in Calls, handleDownloadStartResponse(d) PROVE Typed'
  <2>1. replies' \subseteq Answer /\ total' \in [Calls -> Nat] /\ call' \in [Calls -> {"idle", "starting", "fetching", "done", "failed"}]
    BY <1>0, <1>5, Zenon DEF handleDownloadStartResponse, Answer
  <2>. QED BY <1>4, <1>5, <2>1, Zenon DEF handleDownloadStartResponse, fileVars, mapVars,
              readerVars, Typed, Works
<1>6. ASSUME NEW d \in Calls, handleDownloadChunk(d) PROVE Typed'
  <2>1. /\ replies' \subseteq Answer
        /\ UNCHANGED <<clientVars, queue>> \/
             /\ \E x : chunks' = [chunks EXCEPT ![d] = x]
             /\ UNCHANGED total
             /\ \/ call' = [call EXCEPT ![d] = "done"] /\ UNCHANGED <<next, queue>>
                \/ requestNextDownloadChunk(d) /\ UNCHANGED call
    BY <1>0, <1>6, Zenon DEF handleDownloadChunk
  <2>2. /\ queue' \in [Clients -> Seq(Command)] /\ next' \in [Calls -> Nat]
        /\ \A c \in Clients : \A j \in 1 .. Len(queue'[c]) : ClientOf[queue'[c][j].d] = c
    BY <1>0, <1>4, <2>1, Zenon DEF clientVars, Typed
  <2>3. /\ total' \in [Calls -> Nat] /\ chunks' = [e \in Calls |-> chunks'[e]]
        /\ call' \in [Calls -> {"idle", "starting", "fetching", "done", "failed"}]
    BY <1>0, <2>1, Zenon DEF clientVars, Typed
  <2>4. UNCHANGED <<fileVars, work, mapVars, readerVars>>
    BY <1>6, Zenon DEF handleDownloadChunk
  <2>. QED BY <2>1, <2>2, <2>3, <2>4, Zenon DEF fileVars, mapVars, readerVars, Typed, Works
<1>7. ASSUME NEW d \in Calls, GiveUp(d) \/ Lapse(d) PROVE Typed'
  BY <1>0, <1>7, Zenon DEF GiveUp, Lapse, fileVars, clientVars, mapVars, readerVars, Typed,
     Works
<1>8. ASSUME NEW c \in Clients, SessionStep(c) PROVE Typed'
  BY <1>8, SessionTyped, Zenon DEF SessionStep, Homes, fileVars, clientVars, readerVars, Typed
<1>9. ASSUME NEW c \in Clients, ConnectionDisconnect(c) \/ close_downloads_for_cid(c) PROVE Typed'
  <2>1. CASE ConnectionDisconnect(c)
    BY <2>1, Zenon DEF ConnectionDisconnect, fileVars, clientVars, mapVars, Typed, Works
  <2>2. CASE close_downloads_for_cid(c)
    <3>1. closing' = {} /\ sweep' \in [Sweepers -> SUBSET Calls]
      BY <1>0, <2>2, Zenon DEF close_downloads_for_cid, Typed
    <3>. QED BY <2>2, <3>1, Zenon DEF close_downloads_for_cid, fileVars, clientVars, Typed,
                Works
  <2>. QED BY <1>9, <2>1, <2>2, Zenon
<1>10. ASSUME NEW k \in Sweepers, NEW d \in Calls, SweepOne(k, d) PROVE Typed'
  BY <1>0, <1>10, Zenon DEF SweepOne, RemoveEntry, fileVars, clientVars, readerVars, Typed,
     Works
<1>11. CASE cleanup_abandoned_downloads
  BY <1>0, <1>11, Zenon DEF cleanup_abandoned_downloads, Abandoned, fileVars, clientVars,
     readerVars, Typed, Works
<1>12. CASE UNCHANGED vars
  BY <1>12, Zenon DEF vars, fileVars, clientVars, mapVars, readerVars, Typed, Works
<1>. QED
  BY <1>1, <1>3, <1>5, <1>6, <1>7, <1>8, <1>9, <1>10, <1>11, <1>12, Zenon DEF Next

-----------------------------------------------------------------------------
(* One command or answer at a time.                                        *)

\* A step that leaves call d alone, takes something of it away, or gives it up.
Kept(d) ==
  /\ \A j \in 1 .. Len(Queue(d)') : Queue(d)'[j].d = d =>
       \E k \in 1 .. Len(Queue(d)) : Queue(d)[k] = Queue(d)'[j]
  /\ Working(d)' => Working(d) /\ Job(d)'.i = Job(d).i /\ Phase(Job(d).pc)' = Phase(Job(d).pc)
  /\ \A r \in replies' : r.d = d => r \in replies
  /\ call'[d] \in {call[d], "failed"}
  /\ UNCHANGED <<next[d], total[d], chunks[d]>>

LEMMA KeptCall ==
  ASSUME Typed, NEW d \in Calls, CallInv(d), Kept(d)
  PROVE  CallInv(d)'
<1>0. call[d] \in {"idle", "starting", "fetching", "done", "failed"}
  BY Zenon DEF Typed
<1>1. Waiting(d)' => Waiting(d)
  BY Zenon DEF Kept, Waiting
<1>2. Working(d)' => Working(d)
  BY Zenon DEF Kept
<1>3. \A r \in replies' : r.d = d => r \in replies
  BY Zenon DEF Kept
<1>4. Answered(d)' => Answered(d)
  BY <1>3, Zenon DEF Answered
<1>5. next'[d] = next[d] /\ total'[d] = total[d] /\ chunks'[d] = chunks[d] /\ call'[d] \in {call[d], "failed"}
  BY Zenon DEF Kept
<1>6. Tokens(d)'
  BY <1>1, <1>2, <1>3, <1>4, <1>5, Zenon DEF CallInv, Tokens
<1>7. Current(d)'
  <2>1. call'[d] \in {"idle", "starting"} => next'[d] = 0
    BY <1>5, Zenon DEF CallInv, Current
  <2>2. ASSUME NEW j \in 1 .. Len(Queue(d)'), Queue(d)'[j].d = d
        PROVE  next'[d] = IF Queue(d)'[j].op = "start" THEN 0 ELSE Queue(d)'[j].i + 1
    <3>1. PICK k \in 1 .. Len(Queue(d)) : Queue(d)[k] = Queue(d)'[j]
      BY <2>2, Zenon DEF Kept
    <3>. QED BY <1>5, <2>2, <3>1, Zenon DEF CallInv, Current, Asked
  <2>3. Working(d)' => next'[d] = IF Phase(Job(d).pc)' = "start" THEN 0 ELSE Job(d)'.i + 1
    BY <1>5, Zenon DEF CallInv, Current, Asked, Kept
  <2>4. \A r \in replies' : r.d = d =>
           /\ next'[d] = IF r.op = "start" THEN 0 ELSE r.i + 1
           /\ r.op = "chunk" => r.data # <<>>
    BY <1>3, <1>5, Zenon DEF CallInv, Current, Asked
  <2>. QED BY <2>1, <2>2, <2>3, <2>4, Zenon DEF Current, Asked
<1>8. Gathered(d)'
  BY <1>5, Zenon DEF CallInv, Gathered, TotalChunks
<1>. QED BY <1>6, <1>7, <1>8, Zenon DEF CallInv

\* Sending a command of a call that has none on the way.
LEMMA SubmitCall ==
  ASSUME Typed, QueuesUnique, NEW d \in Calls, NEW op \in {"start", "chunk"}, NEW i \in Nat,
         Submit(d, op, i), ~Waiting(d)
  PROVE  /\ QueuesUnique'
         /\ \A j \in 1 .. Len(Queue(d)') : Queue(d)'[j].d = d => Queue(d)'[j] = [op |-> op, d |-> d, i |-> i]
         /\ \A e \in Calls \ {d} : \A j \in 1 .. Len(Queue(e)') : Queue(e)'[j].d = e =>
              \E k \in 1 .. Len(Queue(e)) : Queue(e)[k] = Queue(e)'[j]
<1>. DEFINE cmd == [op |-> op, d |-> d, i |-> i]
<1>0. ClientOf \in [Calls -> Clients] /\ cmd.d = d
  BY DownloadAssumption, Zenon
<1>1. \A c \in Clients : \A j \in 1 .. Len(queue'[c]) :
              \/ j \in 1 .. Len(queue[c]) /\ queue'[c][j] = queue[c][j]
              \/ c = ClientOf[d] /\ j = Len(queue[c]) + 1 /\ queue'[c][j] = cmd
  BY SubmitQueue
<1>. HIDE DEF cmd
<1>2. \A j \in 1 .. Len(queue[ClientOf[d]]) : queue[ClientOf[d]][j].d # d
  BY Zenon DEF Waiting, Queue
<1>3. QueuesUnique'
  <2>. SUFFICES ASSUME NEW c \in Clients, NEW j \in 1 .. Len(queue'[c]), NEW k \in 1 .. Len(queue'[c]),
                       queue'[c][j].d = queue'[c][k].d
                PROVE  j = k
    BY Zenon DEF QueuesUnique
  <2>1. CASE c # ClientOf[d]
    BY <2>1, <1>1, Zenon DEF QueuesUnique
  <2>2. CASE c = ClientOf[d]
    <3>1. \A h \in 1 .. Len(queue'[c]) :
            \/ h \in 1 .. Len(queue[c]) /\ queue'[c][h] = queue[c][h] /\ queue'[c][h].d # d
            \/ h = Len(queue[c]) + 1 /\ queue'[c][h].d = d
      BY <2>2, <1>0, <1>1, <1>2, Zenon
    <3>2. \A x, y \in 1 .. Len(queue[c]) : queue[c][x].d = queue[c][y].d => x = y
      BY Zenon DEF QueuesUnique
    <3>. QED BY <3>1, <3>2, Zenon
  <2>. QED BY <2>1, <2>2, Zenon
<1>4. ASSUME NEW j \in 1 .. Len(Queue(d)'), Queue(d)'[j].d = d PROVE Queue(d)'[j] = cmd
  BY <1>0, <1>1, <1>2, <1>4, Zenon DEF Queue
<1>5. ASSUME NEW e \in Calls \ {d}, NEW j \in 1 .. Len(Queue(e)'), Queue(e)'[j].d = e
      PROVE  \E k \in 1 .. Len(Queue(e)) : Queue(e)[k] = Queue(e)'[j]
  BY <1>0, <1>1, <1>5, Zenon DEF Queue
<1>. QED BY <1>3, <1>4, <1>5, Zenon DEF cmd

\* The calls a step of the browser is not about.
LEMMA OtherCalls ==
  ASSUME Typed, NEW d \in Calls, NEW e \in Calls \ {d}, CallInv(e),
         \A j \in 1 .. Len(Queue(e)') : Queue(e)'[j].d = e =>
              \E k \in 1 .. Len(Queue(e)) : Queue(e)[k] = Queue(e)'[j],
         work' = work, replies' \subseteq replies,
         UNCHANGED <<call[e], next[e], total[e], chunks[e]>>
  PROVE  CallInv(e)'
<1>1. Kept(e)
  BY Zenon DEF Kept, Working, Works, Job, Phase
<1>. QED BY <1>1, KeptCall, Zenon

\* A call with one command, just sent.
LEMMA SentCall ==
  ASSUME NEW d \in Calls, NEW op \in {"start", "chunk"}, NEW i \in Nat,
         \A j \in 1 .. Len(Queue(d)') : Queue(d)'[j].d = d => Queue(d)'[j] = [op |-> op, d |-> d, i |-> i],
         ~Working(d)', ~Answered(d)', call'[d] \notin {"idle", "done"},
         Asked(op, d, i)', call'[d] = "starting" => next'[d] = 0
  PROVE  Tokens(d)' /\ Current(d)'
<1>1. Tokens(d)'
  BY Zenon DEF Tokens, Answered
<1>2. ASSUME NEW j \in 1 .. Len(Queue(d)'), Queue(d)'[j].d = d
      PROVE  next'[d] = IF Queue(d)'[j].op = "start" THEN 0 ELSE Queue(d)'[j].i + 1
  <2>1. Queue(d)'[j] = [op |-> op, d |-> d, i |-> i]
    BY <1>2, Zenon
  <2>. QED BY <2>1 DEF Asked
<1>3. Current(d)'
  BY <1>2, Zenon DEF Current, Answered, Asked
<1>. QED BY <1>1, <1>3, Zenon

\* The start of a download.
LEMMA StartedCall ==
  ASSUME Typed, OneAtATime, NEW d \in Calls, downloadFile(d)
  PROVE  OneAtATime'
<1>0. CallInv(d) /\ QueuesUnique /\ call \in [Calls -> {"idle", "starting", "fetching", "done", "failed"}]
  BY Zenon DEF OneAtATime, Typed
<1>1. /\ call[d] = "idle" /\ call' = [call EXCEPT ![d] = "starting"] /\ Submit(d, "start", 0)
      /\ UNCHANGED <<total, chunks, next, replies, work>>
  BY Zenon DEF downloadFile
<1>2. ~Waiting(d) /\ ~Working(d) /\ ~Answered(d) /\ next[d] = 0
  BY <1>0, <1>1, Zenon DEF CallInv, Tokens, Current
<1>3. ~Working(d)' /\ ~Answered(d)' /\ next'[d] = 0 /\ call'[d] = "starting"
  BY <1>0, <1>1, <1>2, Zenon DEF Working, Works, Job, Answered
<1>s. /\ QueuesUnique'
      /\ \A j \in 1 .. Len(Queue(d)') : Queue(d)'[j].d = d => Queue(d)'[j] = [op |-> "start", d |-> d, i |-> 0]
      /\ \A e \in Calls \ {d} : \A j \in 1 .. Len(Queue(e)') : Queue(e)'[j].d = e =>
           \E k \in 1 .. Len(Queue(e)) : Queue(e)[k] = Queue(e)'[j]
  BY <1>0, <1>1, <1>2, SubmitCall, SMTT(20)
<1>a. Asked("start", d, 0)'
  BY <1>3, Zenon DEF Asked
<1>4. Tokens(d)' /\ Current(d)'
  BY <1>s, <1>a, <1>3, SentCall, SMTT(20)
<1>5. Gathered(d)'
  BY <1>0, <1>1, <1>3, Zenon DEF CallInv, Gathered
<1>6. ASSUME NEW e \in Calls \ {d} PROVE CallInv(e)'
  <2>1. CallInv(e) /\ call'[e] = call[e]
    BY <1>0, <1>1, Zenon DEF OneAtATime
  <2>. QED BY <1>s, <1>1, <2>1, OtherCalls, Zenon
<1>. QED BY <1>s, <1>4, <1>5, <1>6, Zenon DEF OneAtATime, CallInv

\* Its answer, which asks for the first chunk.
LEMMA AnsweredCall ==
  ASSUME Typed, OneAtATime, NEW d \in Calls, handleDownloadStartResponse(d)
  PROVE  OneAtATime'
<1>0. /\ CallInv(d) /\ QueuesUnique /\ call \in [Calls -> {"idle", "starting", "fetching", "done", "failed"}]
      /\ total \in [Calls -> Nat] /\ next \in [Calls -> Nat]
  BY Zenon DEF OneAtATime, Typed
<1>1. PICK r \in replies : /\ r.d = d /\ r.op = "start" /\ replies' = replies \ {r}
                           /\ total' = [total EXCEPT ![d] = r.size]
  BY Zenon DEF handleDownloadStartResponse
<1>2. /\ call[d] = "starting" /\ call' = [call EXCEPT ![d] = "fetching"]
      /\ Submit(d, "chunk", next[d]) /\ next' = [next EXCEPT ![d] = @ + 1]
      /\ UNCHANGED <<chunks, work>>
  BY Zenon DEF handleDownloadStartResponse, requestNextDownloadChunk
<1>3. ~Waiting(d) /\ ~Working(d) /\ next[d] = 0
  BY <1>0, <1>1, <1>2, Zenon DEF CallInv, Tokens, Current, Answered
<1>4. ~Answered(d)'
  BY <1>0, <1>1, Zenon DEF CallInv, Tokens, Answered
<1>5. ~Working(d)' /\ next'[d] = 1 /\ call'[d] = "fetching"
  BY <1>0, <1>2, <1>3, SMTT(20) DEF Working, Works, Job
<1>s. /\ QueuesUnique'
      /\ \A j \in 1 .. Len(Queue(d)') : Queue(d)'[j].d = d => Queue(d)'[j] = [op |-> "chunk", d |-> d, i |-> 0]
      /\ \A e \in Calls \ {d} : \A j \in 1 .. Len(Queue(e)') : Queue(e)'[j].d = e =>
           \E k \in 1 .. Len(Queue(e)) : Queue(e)[k] = Queue(e)'[j]
  BY <1>0, <1>2, <1>3, SubmitCall, ZenonT(40)
<1>a. Asked("chunk", d, 0)'
  BY <1>5 DEF Asked
<1>6. Tokens(d)' /\ Current(d)'
  BY <1>s, <1>a, <1>4, <1>5, SentCall, Zenon
<1>7. Gathered(d)'
  <2>1. DOMAIN chunks[d] = {}
    BY <1>0, <1>3 DEF CallInv, Gathered
  <2>2. 0 .. next'[d] - 2 = {}
    BY <1>5
  <2>. QED BY <1>2, <1>5, <2>1, <2>2, SMTT(20) DEF Gathered
<1>8. ASSUME NEW e \in Calls \ {d} PROVE CallInv(e)'
  <2>1. CallInv(e) /\ call'[e] = call[e] /\ next'[e] = next[e] /\ total'[e] = total[e]
    BY <1>0, <1>1, <1>2, Zenon DEF OneAtATime
  <2>. QED BY <1>s, <1>1, <1>2, <2>1, OtherCalls, Zenon
<1>. QED BY <1>s, <1>6, <1>7, <1>8, Zenon DEF OneAtATime, CallInv

\* A chunk arrives: the chunks are those of the indices below the one asked
\* for next.
LEMMA ChunkCall ==
  ASSUME Typed, OneAtATime, NEW d \in Calls, handleDownloadChunk(d)
  PROVE  OneAtATime'
<1>0. /\ CallInv(d) /\ QueuesUnique /\ call \in [Calls -> {"idle", "starting", "fetching", "done", "failed"}]
      /\ total \in [Calls -> Nat] /\ next \in [Calls -> Nat] /\ replies \subseteq Answer
      /\ chunks = [e \in Calls |-> chunks[e]]
  BY Zenon DEF OneAtATime, Typed
<1>1. PICK r \in replies :
        /\ r.d = d /\ r.op = "chunk" /\ replies' = replies \ {r}
        /\ \/ total[d] = 0 /\ UNCHANGED <<clientVars, queue>>
           \/ /\ total[d] # 0
              /\ chunks' = [chunks EXCEPT ![d] = Put(@, r.i, r.data)]
              /\ UNCHANGED total
              /\ IF Cardinality(DOMAIN chunks'[d]) = TotalChunks(total[d])
                 THEN call' = [call EXCEPT ![d] = "done"] /\ UNCHANGED <<next, queue>>
                 ELSE requestNextDownloadChunk(d) /\ UNCHANGED call
  BY Zenon DEF handleDownloadChunk
<1>2. call[d] = "fetching" /\ work' = work
  BY Zenon DEF handleDownloadChunk
<1>3. ~Waiting(d) /\ ~Working(d) /\ next[d] = r.i + 1 /\ r.data # <<>>
  BY <1>0, <1>1, Zenon DEF CallInv, Tokens, Current, Answered, Asked
<1>4. r.i \in Nat /\ r.data \in Bytes /\ next[d] \in Nat
  BY <1>0, <1>1, Zenon DEF Answer
<1>5. ~Answered(d)'
  BY <1>0, <1>1, Zenon DEF CallInv, Tokens, Answered
<1>6. ~Working(d)'
  BY <1>2, <1>3, Zenon DEF Working, Works, Job
<1>7. ASSUME queue' = queue, NEW e \in Calls, CallInv(e),
             UNCHANGED <<call[e], next[e], total[e], chunks[e]>>
      PROVE  CallInv(e)'
  <2>1. Kept(e)
    BY <1>1, <1>2, <1>7, Zenon DEF Kept, Queue, Working, Works, Job, Phase
  <2>. QED BY <1>7, <2>1, KeptCall, Zenon
<1>8. CASE UNCHANGED <<clientVars, queue>>
  BY <1>7, <1>8, Zenon DEF clientVars, OneAtATime, QueuesUnique
<1>9. CASE /\ total[d] # 0 /\ UNCHANGED total
           /\ chunks' = [chunks EXCEPT ![d] = Put(@, r.i, r.data)]
  <2>1. chunks'[d] = Put(chunks[d], r.i, r.data) /\ \A e \in Calls \ {d} : chunks'[e] = chunks[e]
    BY <1>0, <1>9, Zenon
  <2>2. DOMAIN chunks[d] = 0 .. next[d] - 2
    BY <1>0, <1>2, <1>9, Zenon DEF CallInv, Gathered
  <2>3. DOMAIN chunks'[d] = 0 .. next[d] - 1
    <3>1. DOMAIN chunks'[d] = (0 .. next[d] - 2) \cup {r.i}
      BY <2>1, <2>2, Zenon DEF Put
    <3>. QED BY <1>3, <1>4, <3>1, SMTT(20)
  <2>4. Cardinality(DOMAIN chunks'[d]) = next[d]
    <3>1. 0 \in Int /\ next[d] - 1 \in Int /\ 0 <= next[d] - 1
      BY <1>3, <1>4
    <3>2. Cardinality(0 .. next[d] - 1) = next[d] - 1 - 0 + 1
      BY <3>1, FS_Interval
    <3>. QED BY <1>4, <2>3, <3>2, SMTT(20)
  <2>5. ASSUME NEW i \in DOMAIN chunks'[d]
        PROVE  i \in Nat /\ i < next[d] /\ chunks'[d][i] \in Bytes \ {<<>>}
    <3>1. i \in DOMAIN chunks[d] \cup {r.i} /\ chunks'[d][i] = IF i = r.i THEN r.data ELSE chunks[d][i]
      BY <2>1, Zenon DEF Put
    <3>. QED BY <1>0, <1>3, <1>4, <3>1, SMTT(20) DEF CallInv, Gathered
  <2>6. CASE /\ Cardinality(DOMAIN chunks'[d]) = TotalChunks(total[d])
             /\ call' = [call EXCEPT ![d] = "done"] /\ UNCHANGED <<next, queue>>
    <3>1. call'[d] = "done" /\ \A e \in Calls \ {d} : call'[e] = call[e]
      BY <1>0, <2>6, Zenon
    <3>2. ~Waiting(d)'
      BY <1>3, <2>6, Zenon DEF Waiting, Queue
    <3>3. Tokens(d)'
      BY <1>5, <1>6, <3>2, Zenon DEF Tokens, Answered
    <3>4. Current(d)'
      BY <1>5, <1>6, <3>1, <3>2, Zenon DEF Current, Answered, Waiting
    <3>5. Gathered(d)'
      BY <1>9, <2>3, <2>4, <2>5, <2>6, <3>1, Zenon DEF Gathered
    <3>6. ASSUME NEW e \in Calls \ {d} PROVE CallInv(e)'
      BY <1>7, <1>9, <2>1, <2>6, <3>1, Zenon DEF OneAtATime
    <3>. QED BY <1>0, <2>6, <3>3, <3>4, <3>5, <3>6, Zenon DEF OneAtATime, CallInv, QueuesUnique
  <2>7. CASE requestNextDownloadChunk(d) /\ UNCHANGED call
    <3>1. Submit(d, "chunk", next[d]) /\ next' = [next EXCEPT ![d] = @ + 1]
      BY <2>7, Zenon DEF requestNextDownloadChunk
    <3>2. next'[d] = next[d] + 1 /\ \A e \in Calls \ {d} : next'[e] = next[e]
      BY <1>0, <3>1, Zenon
    <3>3. /\ QueuesUnique'
          /\ \A j \in 1 .. Len(Queue(d)') : Queue(d)'[j].d = d => Queue(d)'[j] = [op |-> "chunk", d |-> d, i |-> next[d]]
          /\ \A e \in Calls \ {d} : \A j \in 1 .. Len(Queue(e)') : Queue(e)'[j].d = e =>
               \E k \in 1 .. Len(Queue(e)) : Queue(e)[k] = Queue(e)'[j]
      BY <1>0, <1>3, <1>4, <3>1, SubmitCall, Zenon
    <3>4. ASSUME NEW i \in Nat, i = next[d] PROVE Tokens(d)' /\ Current(d)'
      <4>1. Asked("chunk", d, i)'
        BY <3>2, <3>4, Zenon DEF Asked
      <4>2. \A j \in 1 .. Len(Queue(d)') : Queue(d)'[j].d = d => Queue(d)'[j] = [op |-> "chunk", d |-> d, i |-> i]
        BY <3>3, <3>4, Zenon
      <4>3. call'[d] = "fetching"
        BY <1>2, <2>7, Zenon
      <4>. QED BY <1>5, <1>6, <4>1, <4>2, <4>3, SentCall, Zenon
    <3>5. Gathered(d)'
      <4>1. \A i \in Nat : i < next[d] => i < next'[d]
        BY <1>4, <3>2, SMTT(20)
      <4>2. next'[d] > 0 /\ next'[d] - 2 = next[d] - 1
        BY <1>4, <3>2, SMTT(20)
      <4>. QED BY <1>2, <2>3, <2>5, <2>7, <4>1, <4>2, Zenon DEF Gathered
    <3>6. ASSUME NEW e \in Calls \ {d} PROVE CallInv(e)'
      <4>1. CallInv(e) /\ UNCHANGED <<call[e], next[e], total[e], chunks[e]>> /\ replies' \subseteq replies
        BY <1>1, <1>9, <2>1, <2>7, <3>2, Zenon DEF OneAtATime
      <4>. QED BY <1>2, <3>3, <4>1, OtherCalls, Zenon
    <3>. QED BY <1>4, <3>3, <3>4, <3>5, <3>6, Zenon DEF OneAtATime, CallInv
  <2>. QED BY <1>1, <1>9, <2>6, <2>7, Zenon
<1>. QED BY <1>1, <1>8, <1>9, Zenon

\* A session takes the command of a call.
LEMMA TakenCall ==
  ASSUME Typed, OneAtATime, NEW c \in Clients, NEW op \in {"start", "chunk"}, NEW pc \in {"start", "reading"},
         Take(c, op, pc), Phase(pc) = op, UNCHANGED <<clientVars, replies>>
  PROVE  OneAtATime'
<1>d. PICK d, i : d = queue[c][1].d /\ i = queue[c][1].i
  BY Zenon
<1>0. /\ work \in [Clients -> Task] /\ ClientOf \in [Calls -> Clients] /\ QueuesUnique
      /\ UNCHANGED <<call, total, chunks, next>>
  BY DownloadAssumption, Zenon DEF Typed, OneAtATime, clientVars
<1>1. /\ 1 \in 1 .. Len(queue[c]) /\ d \in Calls /\ ClientOf[d] = c /\ queue[c][1].op = op
      /\ Head(queue[c]) = queue[c][1]
  BY <1>d, TakenFirst, Zenon DEF Take, Command
<1>2. work' = [work EXCEPT ![c] = [pc |-> pc, d |-> d, i |-> i, size |-> 0]]
  BY <1>d, <1>1, Zenon DEF Take
<1>3. /\ work'[c].pc = pc /\ work'[c].d = d /\ work'[c].i = i
      /\ \A b \in Clients \ {c} : work'[b] = work[b]
  BY <1>0, <1>2, Zenon
<1>4. \A b \in Clients : \A j \in 1 .. Len(queue'[b]) :
        \E k \in 1 .. Len(queue[b]) : queue'[b][j] = queue[b][k] /\ (b = c => k # 1)
  BY ShorterQueue, Zenon DEF Take
<1>5. QueuesUnique'
  BY <1>0, ShorterQueue, Zenon DEF Take
<1>6. CallInv(d)'
  <2>0. CallInv(d)
    BY <1>1, Zenon DEF OneAtATime
  <2>1. Waiting(d)
    BY <1>d, <1>1, Zenon DEF Waiting, Queue
  <2>2. ~Answered(d) /\ call[d] \notin {"idle", "done"}
    BY <2>0, <2>1, Zenon DEF CallInv, Tokens
  <2>3. ASSUME NEW j \in 1 .. Len(queue'[c]), queue'[c][j].d = d PROVE FALSE
    <3>1. PICK k \in 1 .. Len(queue[c]) : queue'[c][j] = queue[c][k] /\ k # 1
      BY <1>4, Zenon
    <3>. QED BY <1>d, <1>0, <1>1, <2>3, <3>1, Zenon DEF QueuesUnique
  <2>4. ~Waiting(d)' /\ ~Answered(d)'
    BY <1>1, <2>2, <2>3, Zenon DEF Waiting, Queue, Answered
  <2>5. Asked(op, d, i)
    BY <1>d, <1>1, <2>0, Zenon DEF CallInv, Current, Queue
  <2>6. Tokens(d)'
    BY <1>0, <2>2, <2>4, Zenon DEF Tokens, Answered
  <2>7. Job(d)'.i = i /\ Phase(Job(d).pc)' = op
    BY <1>1, <1>3, Zenon DEF Job, Phase
  <2>8. Current(d)'
    BY <1>0, <2>0, <2>4, <2>5, <2>7, Zenon DEF CallInv, Current, Waiting, Answered, Asked
  <2>9. Gathered(d)'
    BY <1>0, <2>0, Zenon DEF CallInv, Gathered
  <2>. QED BY <2>6, <2>8, <2>9, Zenon DEF CallInv
<1>7. ASSUME NEW e \in Calls, e # d PROVE CallInv(e)'
  <2>1. ASSUME NEW j \in 1 .. Len(Queue(e)') PROVE \E k \in 1 .. Len(Queue(e)) : Queue(e)[k] = Queue(e)'[j]
    BY <1>0, <1>4, Zenon DEF Queue
  <2>2. Working(e)' => Working(e) /\ Job(e)' = Job(e)
    BY <1>0, <1>3, <1>7, Zenon DEF Working, Works, Job
  <2>3. Kept(e)
    BY <1>0, <2>1, <2>2, Zenon DEF Kept, Phase
  <2>. QED BY <2>3, KeptCall, Zenon DEF OneAtATime
<1>. QED BY <1>5, <1>6, <1>7, Zenon DEF OneAtATime

\* A session answers a call.
LEMMA ReplyCall ==
  ASSUME Typed, OneAtATime, NEW c \in Clients, Works(c), Done(c), NEW a,
         replies' = replies \cup {a}, a.d = work[c].d,
         a.op = Phase(work[c].pc), a.op = "chunk" => a.i = work[c].i /\ a.data # <<>>,
         a.op \in {"start", "chunk"}, UNCHANGED <<clientVars, queue>>
  PROVE  OneAtATime'
<1>d. PICK d : d = work[c].d
  BY Zenon
<1>0. /\ work \in [Clients -> Task] /\ ClientOf \in [Calls -> Clients] /\ QueuesUnique'
      /\ UNCHANGED <<call, total, chunks, next>> /\ d \in Calls /\ ClientOf[d] = c
  BY <1>d, DownloadAssumption, Zenon DEF Typed, OneAtATime, clientVars, QueuesUnique
<1>1. work'[c].pc = "idle" /\ \A b \in Clients \ {c} : work'[b] = work[b]
  BY <1>0, Zenon DEF Done, Idle
<1>2. CallInv(d)'
  <2>0. CallInv(d) /\ Working(d)
    BY <1>d, <1>0, Zenon DEF OneAtATime, Working, Job
  <2>1. ~Waiting(d) /\ ~Answered(d) /\ call[d] \notin {"idle", "done"}
    BY <2>0, Zenon DEF CallInv, Tokens
  <2>2. ~Waiting(d)' /\ ~Working(d)'
    BY <1>0, <1>1, <2>1, Zenon DEF Waiting, Queue, Working, Works
  <2>3. \A r \in replies' : r.d = d => r = a
    BY <1>d, <2>1, Zenon DEF Answered
  <2>4. Asked(a.op, d, a.i)
    BY <1>d, <1>0, <2>0, Zenon DEF CallInv, Current, Job, Asked
  <2>5. Tokens(d)'
    BY <1>0, <2>1, <2>2, <2>3, Zenon DEF Tokens
  <2>6. Current(d)'
    BY <1>0, <2>0, <2>2, <2>3, <2>4, Zenon DEF CallInv, Current, Waiting, Asked
  <2>7. Gathered(d)'
    BY <1>0, <2>0, Zenon DEF CallInv, Gathered
  <2>. QED BY <2>5, <2>6, <2>7, Zenon DEF CallInv
<1>3. ASSUME NEW e \in Calls, e # d PROVE CallInv(e)'
  <2>1. Working(e)' => Working(e) /\ Job(e)' = Job(e)
    BY <1>0, <1>1, Zenon DEF Working, Works, Job
  <2>2. Kept(e)
    BY <1>d, <1>0, <1>3, <2>1, Zenon DEF Kept, Phase, Queue
  <2>. QED BY <2>2, KeptCall, Zenon DEF OneAtATime
<1>. QED BY <1>0, <1>2, <1>3, Zenon DEF OneAtATime

\* The steps that add nothing.
LEMMA LessCalls ==
  ASSUME Typed, OneAtATime, UNCHANGED <<total, chunks, next>>,
         \A e \in Calls : call'[e] \in {call[e], "failed"},
         replies' \subseteq replies,
         QueuesUnique',
         \A b \in Clients : \A j \in 1 .. Len(queue'[b]) : \E k \in 1 .. Len(queue[b]) : queue'[b][j] = queue[b][k],
         \A b \in Clients : Works(b)' =>
           /\ Works(b) /\ work'[b].d = work[b].d /\ work'[b].i = work[b].i
           /\ Phase(work[b].pc)' = Phase(work[b].pc)
  PROVE  OneAtATime'
<1>1. ASSUME NEW e \in Calls PROVE CallInv(e)'
  <2>1. ClientOf[e] \in Clients
    BY DownloadAssumption, Zenon
  <2>2. Kept(e)
    BY <2>1, Zenon DEF Kept, Queue, Job, Working
  <2>. QED BY <2>2, KeptCall, Zenon DEF OneAtATime
<1>. QED BY <1>1, Zenon DEF OneAtATime

\* One command or answer of a call at a time.
LEMMA OneStep ==
  ASSUME Typed, OneAtATime, [Next]_vars
  PROVE  OneAtATime'
<1>0. QueuesUnique /\ work \in [Clients -> Task] /\ call \in [Calls -> {"idle", "starting", "fetching", "done", "failed"}]
  BY Zenon DEF OneAtATime, Typed
<1>1. ASSUME UNCHANGED <<queue, replies, work>>, UNCHANGED <<total, chunks, next>>,
             \A e \in Calls : call'[e] \in {call[e], "failed"}
      PROVE  OneAtATime'
  <2>1. QueuesUnique'
    BY <1>0, <1>1, Zenon DEF QueuesUnique
  <2>. QED BY <1>1, <2>1, LessCalls, Zenon DEF Works, Phase
<1>2. ASSUME NEW d \in Calls, GiveUp(d) PROVE OneAtATime'
  <2>1. \A e \in Calls : call'[e] \in {call[e], "failed"}
    BY <1>0, <1>2, Zenon DEF GiveUp
  <2>. QED BY <1>1, <1>2, <2>1, Zenon DEF GiveUp
<1>3. CASE \/ FileChanges \/ cleanup_abandoned_downloads \/ UNCHANGED vars
           \/ \E d \in Calls : Lapse(d) \/ \E k \in Sweepers : SweepOne(k, d)
           \/ \E c \in Clients : ConnectionDisconnect(c) \/ close_downloads_for_cid(c)
  <2>1. UNCHANGED <<clientVars, queue, replies, work>>
    BY <1>3, Zenon DEF FileChanges, cleanup_abandoned_downloads, vars, Lapse, SweepOne,
       ConnectionDisconnect,
                close_downloads_for_cid
  <2>. QED BY <1>1, <2>1, Zenon DEF clientVars
<1>4. ASSUME NEW c \in Clients, SessionStep(c) PROVE OneAtATime'
  <2>0. UNCHANGED clientVars /\ UNCHANGED <<call, total, chunks, next>>
    BY <1>4, Zenon DEF SessionStep, clientVars
  <2>1. ASSUME UNCHANGED <<queue, replies>>, QueuesUnique',
               \A b \in Clients : Works(b)' =>
                 /\ Works(b) /\ work'[b].d = work[b].d /\ work'[b].i = work[b].i
                 /\ Phase(work[b].pc)' = Phase(work[b].pc)
        PROVE  OneAtATime'
    BY <2>0, <2>1, LessCalls, Zenon
  <2>2. queue' = queue => QueuesUnique'
    BY <1>0, Zenon DEF QueuesUnique
  <2>3. CASE SessionStops(c) \/ NotFound(c)
    <3>1. /\ \/ queue' = [queue EXCEPT ![c] = <<>>]
             \/ queue[c] # <<>> /\ queue' = [queue EXCEPT ![c] = Tail(@)]
          /\ replies' = replies
      BY <2>3, Zenon DEF SessionStops, NotFound
    <3>2. /\ QueuesUnique'
          /\ \A b \in Clients : \A j \in 1 .. Len(queue'[b]) : \E k \in 1 .. Len(queue[b]) : queue'[b][j] = queue[b][k]
      BY <1>0, <3>1, ShorterQueue, SMTT(20)
    <3>3. \A b \in Clients : Works(b)' => work'[b] = work[b] /\ Works(b)
      BY <1>0, <2>3 DEF SessionStops, NotFound, Goto, Works, Task
    <3>. QED BY <2>0, <3>1, <3>2, <3>3, LessCalls, Zenon DEF Phase
  <2>4. CASE StartDownload(c)
    BY <2>0, <2>4, TakenCall, Zenon DEF StartDownload, Phase
  <2>5. CASE LockEntry(c)
    BY <2>0, <2>5, TakenCall, Zenon DEF LockEntry, Phase
  <2>6. CASE ReadMetadata(c) \/ StartFails(c) \/ ReadEnds(c) \/ RemoveDownload(c)
    <3>1. \A b \in Clients \ {c} : work'[b] = work[b]
      BY <1>0, <2>6, Zenon DEF ReadMetadata, StartFails, ReadEnds, RemoveDownload, Goto, Done
    <3>2. CASE ReadMetadata(c)
      <4>1. work[c].pc = "start" /\ work'[c].pc = "stat" /\ work'[c].d = work[c].d /\ work'[c].i = work[c].i
        BY <1>0, <3>2, Zenon DEF ReadMetadata, At, Task
      <4>. QED BY <2>1, <2>2, <3>1, <3>2, <4>1, Zenon DEF ReadMetadata, Works, Phase
    <3>3. CASE ReadEnds(c)
      <4>1. work[c].pc = "reading" /\ work'[c].pc = "remove" /\ work'[c].d = work[c].d /\ work'[c].i = work[c].i
        BY <1>0, <3>3, Zenon DEF ReadEnds, At, Goto, Task
      <4>. QED BY <2>1, <2>2, <3>1, <3>3, <4>1, Zenon DEF ReadEnds, Works, Phase
    <3>4. CASE StartFails(c) \/ RemoveDownload(c)
      <4>1. work'[c].pc = "idle"
        BY <1>0, <3>4 DEF StartFails, RemoveDownload, Done, Idle
      <4>. QED BY <2>1, <2>2, <3>1, <3>4, <4>1, Zenon DEF StartFails, RemoveDownload, Works,
                  Phase
    <3>. QED BY <2>6, <3>2, <3>3, <3>4, Zenon
  <2>7. CASE InsertDownload(c)
    <3>1. PICK a : a = [op |-> "start", d |-> work[c].d, i |-> 0, size |-> work[c].size, data |-> <<>>]
      BY Zenon
    <3>2. a.d = work[c].d /\ a.op = "start" /\ replies' = replies \cup {a}
      BY <2>7, <3>1, Zenon DEF InsertDownload, Reply
    <3>. QED BY <2>0, <2>7, <3>2, ReplyCall, Zenon DEF InsertDownload, At, Works, Phase
  <2>8. CASE ReadChunk(c)
    <3>1. PICK a : a = [op |-> "chunk", d |-> work[c].d, i |-> work[c].i, size |-> 0, data |-> ReadAt(work[c].i)]
      BY Zenon
    <3>2. /\ a.d = work[c].d /\ a.op = "chunk" /\ a.i = work[c].i /\ a.data = ReadAt(work[c].i)
          /\ replies' = replies \cup {a}
      BY <2>8, <3>1, Zenon DEF ReadChunk, Reply
    <3>3. file \in Bytes /\ work[c].i \in Nat /\ InFile(work[c].i)
      BY <1>0, <2>8, Zenon DEF ReadChunk, Typed, Task
    <3>4. ReadAt(work[c].i) # <<>>
      <4>1. Len(ReadAt(work[c].i)) \in 1 .. CHUNK_SIZE
        BY <3>3, ReadBytes, Zenon
      <4>2. Len(ReadAt(work[c].i)) # 0
        BY <4>1
      <4>. QED BY <4>2
    <3>. QED BY <2>0, <2>8, <3>2, <3>4, ReplyCall, Zenon DEF ReadChunk, At, Works, Phase
  <2>. QED BY <1>4, <2>3, <2>4, <2>5, <2>6, <2>7, <2>8, Zenon DEF SessionStep
<1>. QED
  BY <1>2, <1>3, <1>4, StartedCall, AnsweredCall, ChunkCall, Zenon DEF Next

\* Initially there is nothing under way.
LEMMA TypedInit == Init => Typed /\ OneAtATime
<1>. SUFFICES ASSUME Init PROVE Typed /\ OneAtATime
  BY Zenon
<1>1. file \in Bytes
  <2>1. \A n \in Nat : Contents(n) \in Seq(Nat)
    BY DEF Contents
  <2>. QED BY <2>1, DownloadAssumption, Zenon DEF Init, Bytes
<1>2. \A c \in Clients : queue[c] = <<>> /\ work[c] = Idle /\ 1 .. Len(queue[c]) = {}
  BY DEF Init
<1>3. <<>> \in Seq(Command) /\ Idle \in Task /\ ClientOf \in [Calls -> Clients]
  BY DownloadAssumption DEF Idle, Task
<1>4. /\ queue = [c \in Clients |-> <<>>] /\ work = [c \in Clients |-> Idle] /\ replies = {}
      /\ \A d \in Calls : call[d] = "idle" /\ next[d] = 0 /\ DOMAIN chunks[d] = {}
  BY DEF Init
<1>5. queue \in [Clients -> Seq(Command)] /\ work \in [Clients -> Task]
  BY <1>3, <1>4, Zenon
<1>6. Typed
  BY <1>1, <1>2, <1>5, Zenon DEF Init, Typed, Works, Idle
<1>7. QueuesUnique
  BY <1>2, Zenon DEF QueuesUnique
<1>8. ASSUME NEW d \in Calls PROVE CallInv(d)
  <2>1. ClientOf[d] \in Clients
    BY <1>3, Zenon
  <2>2. ~Waiting(d) /\ ~Working(d) /\ ~Answered(d)
    BY <1>2, <1>4, <2>1, Zenon DEF Waiting, Queue, Working, Works, Answered, Idle
  <2>. QED BY <1>4, <2>2, Zenon DEF CallInv, Tokens, Current, Gathered, Waiting, Answered
<1>. QED BY <1>6, <1>7, <1>8, Zenon DEF OneAtATime

\* Call records, queues and maps keep their types, and chunks are received only
\* of indices asked for, which needs that an answer is about the chunk asked
\* for last (requestNextDownloadChunk, handleDownloadChunk).
THEOREM DownloadTypeCorrect == Spec => []DownloadTypeOK
<1>1. ASSUME Typed, OneAtATime PROVE DownloadTypeOK
  <2>1. \A d \in Calls : \A i \in DOMAIN chunks[d] : i < next[d] /\ chunks[d][i] \in Bytes \ {<<>>}
    BY <1>1, Zenon DEF OneAtATime, CallInv, Gathered
  <2>2. \A r \in replies : r.d \in Calls /\ r.size \in Nat /\ r.data \in Bytes
    BY <1>1, Zenon DEF Typed, Answer
  <2>. QED BY <1>1, <2>1, <2>2, Zenon DEF DownloadTypeOK, Typed, Command, Task
<1>2. Typed /\ OneAtATime /\ [Next]_vars => (Typed /\ OneAtATime)'
  BY TypedStep, OneStep, Zenon
<1>. QED
  BY <1>1, <1>2, TypedInit, PTL DEF Spec

=============================================================================
