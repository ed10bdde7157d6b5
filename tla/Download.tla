------------------------------ MODULE Download ------------------------------
(***************************************************************************)
(* SFTP downloads over one agent connection: downloadFile of the browser   *)
(* (channel/public/sftp.js), the session tasks that run start_download and *)
(* download_file_chunk (agent/src/sftp/actions/download.rs), the map       *)
(* `downloads' they share with the reader and the cleanup task, and a      *)
(* remote file that others may be writing.                                 *)
(*                                                                         *)
(* As in Upload, a download is named by the call that draws its fresh id,  *)
(* and Error frames are left out: downloadFile waits for its timeout, and  *)
(* a chunk that does not come is waited for until the user cancels.        *)
(***************************************************************************)
EXTENDS Naturals, Sequences, FiniteSets, FiniteSetsExt, SequencesExt

CONSTANTS
  Calls,        \* calls of downloadFile
  Clients,      \* cids; each has one SFTP session
  ClientOf,     \* the client of a call
  CHUNK_SIZE,   \* bytes of a chunk
  Sizes,        \* sizes the file may have at first
  MaxSize,      \* bound: bytes the file may grow to
  ReadErrors,   \* whether the SFTP server fails reads
  Nil

ASSUME DownloadAssumption ==
  /\ ClientOf \in [Calls -> Clients]
  /\ CHUNK_SIZE \in Nat \ {0}
  /\ Sizes \subseteq Nat /\ MaxSize \in Nat
  /\ ReadErrors \in BOOLEAN
  /\ Nil \notin Calls

VARIABLES
  file,       \* the bytes of the remote file
  truncated,  \* whether somebody has truncated it
  call,       \* call[d]: control state of the download in the browser
  total,      \* total[d]: total_size of its start response
  chunks,     \* chunks[d]: the chunks received, by index
  next,       \* next[d]: nextChunkToRequest
  queue,      \* queue[c]: commands on their way to c's session
  replies,    \* responses on their way
  work,       \* work[c]: what c's session is doing, and for which call
  downloads,  \* calls with an entry
  stale,      \* entries with last_updated older than TIMEOUT
  sweep,      \* sweep[k]: keys_to_remove of the task k
  gone,       \* clients whose ConnectionDisconnect has been received
  closing     \* those whose downloads are still to be collected

fileVars == <<file, truncated>>
clientVars == <<call, total, chunks, next>>
mapVars == <<downloads, stale, sweep>>
readerVars == <<gone, closing>>
vars == <<fileVars, clientVars, queue, replies, work, mapVars, readerVars>>

Sweepers == Clients \cup {"cleanup", "reader"}
Idle == [pc |-> "idle", d |-> Nil, i |-> 0, size |-> 0]
Bytes == Seq(Nat)

\* The type invariant; chunks are received only of indices asked for.
DownloadTypeOK ==
  /\ file \in Bytes /\ truncated \in BOOLEAN
  /\ call \in [Calls -> {"idle", "starting", "fetching", "done", "failed"}]
  /\ total \in [Calls -> Nat]
  /\ next \in [Calls -> Nat]
  /\ \A d \in Calls : \A i \in DOMAIN chunks[d] :
       i < next[d] /\ chunks[d][i] \in Bytes \ {<<>>}
  /\ queue \in [Clients -> Seq([op : {"start", "chunk"}, d : Calls, i : Nat])]
  /\ work \in [Clients -> [pc : {"idle", "start", "stat", "reading", "remove", "closed"},
                           d : Calls \cup {Nil}, i : Nat, size : Nat]]
  /\ \A r \in replies : r.d \in Calls /\ r.size \in Nat /\ r.data \in Bytes
  /\ stale \subseteq downloads /\ downloads \subseteq Calls
  /\ sweep \in [Sweepers -> SUBSET Calls]
  /\ gone \subseteq Clients /\ closing \subseteq Clients

Contents(n) == [j \in 1 .. n |-> j]

Init ==
  /\ \E n \in Sizes : file = Contents(n)
  /\ truncated = FALSE
  /\ call = [d \in Calls |-> "idle"]
  /\ total = [d \in Calls |-> 0]
  /\ chunks = [d \in Calls |-> <<>>]
  /\ next = [d \in Calls |-> 0]
  /\ queue = [c \in Clients |-> <<>>]
  /\ replies = {}
  /\ work = [c \in Clients |-> Idle]
  /\ downloads = {} /\ stale = {}
  /\ sweep = [k \in Sweepers |-> {}]
  /\ gone = {} /\ closing = {}

\* Another program appends to the file, or truncates it (once).
FileChanges ==
  /\ \/ Len(file) < MaxSize /\ file' = Append(file, Len(file) + 1) /\ UNCHANGED truncated
     \/ ~truncated /\ truncated' = TRUE /\ \E n \in 0 .. Len(file) - 1 : file' = SubSeq(file, 1, n)
  /\ UNCHANGED <<clientVars, queue, replies, work, mapVars, readerVars>>

-----------------------------------------------------------------------------
(* The browser.                                                            *)

\* total_chunks: the size in chunks, rounded up.
TotalChunks(size) == (size + CHUNK_SIZE - 1) \div CHUNK_SIZE

Submit(d, op, i) ==
  queue' = [queue EXCEPT ![ClientOf[d]] = Append(@, [op |-> op, d |-> d, i |-> i])]
Connected(d) == ClientOf[d] \notin gone

downloadFile(d) ==
  /\ call[d] = "idle" /\ Connected(d)
  /\ call' = [call EXCEPT ![d] = "starting"]
  /\ Submit(d, "start", 0)
  /\ UNCHANGED <<fileVars, total, chunks, next, replies, work, mapVars, readerVars>>

\* Mutant: nextChunkToRequest is not advanced.
RequestSameChunk(d) ==
  /\ Submit(d, "chunk", next[d])
  /\ UNCHANGED next

requestNextDownloadChunk(d) ==
  /\ Submit(d, "chunk", next[d])
  /\ next' = [next EXCEPT ![d] = @ + 1]

\* The response resolves the promise, whose handler asks for the first chunk.
handleDownloadStartResponse(d) ==
  /\ call[d] = "starting" /\ Connected(d)
  /\ \E r \in replies :
       /\ r.d = d /\ r.op = "start"
       /\ replies' = replies \ {r}
       /\ total' = [total EXCEPT ![d] = r.size]
  /\ call' = [call EXCEPT ![d] = "fetching"]
  /\ requestNextDownloadChunk(d)
  /\ UNCHANGED <<fileVars, chunks, work, mapVars, readerVars>>

\* Map.set
Put(m, i, x) == [j \in DOMAIN m \cup {i} |-> IF j = i THEN x ELSE m[j]]

\* A chunk before the sizes are known is ignored.  Otherwise it is stored, and
\* either finalizeDownload saves the file or the next chunk is requested.
handleDownloadChunk(d) ==
  /\ call[d] = "fetching" /\ Connected(d)
  /\ \E r \in replies :
       /\ r.d = d /\ r.op = "chunk"
       /\ replies' = replies \ {r}
       /\ \/ /\ total[d] = 0
             /\ UNCHANGED <<clientVars, queue>>
          \/ /\ total[d] # 0
             /\ chunks' = [chunks EXCEPT ![d] = Put(@, r.i, r.data)]
             /\ UNCHANGED total
             /\ IF Cardinality(DOMAIN chunks'[d]) = TotalChunks(total[d])
                THEN call' = [call EXCEPT ![d] = "done"] /\ UNCHANGED <<next, queue>>
                ELSE requestNextDownloadChunk(d) /\ UNCHANGED call
  /\ UNCHANGED <<fileVars, work, mapVars, readerVars>>

\* A finite set of numbers in ascending order.
Sorted(S) ==
  CHOOSE q \in [1 .. Cardinality(S) -> S] : \A x, y \in 1 .. Cardinality(S) : x < y => q[x] < q[y]

\* What finalizeDownload saves: the chunks in the order of their indices.
Saved(d) ==
  LET indices == Sorted(DOMAIN chunks[d])
  IN  FlattenSeq([j \in 1 .. Cardinality(DOMAIN chunks[d]) |-> chunks[d][indices[j]]])

\* The 10 s timeout of the start, cancelDownload, or the file's deletion.
GiveUp(d) ==
  /\ call[d] \in {"starting", "fetching"}
  /\ call' = [call EXCEPT ![d] = "failed"]
  /\ UNCHANGED <<fileVars, total, chunks, next, queue, replies, work, mapVars, readerVars>>

-----------------------------------------------------------------------------
(* The map `downloads'; download_file_chunk holds a guard while it reads.  *)

Guarded(d) == \E c \in Clients : work[c].pc = "reading" /\ work[c].d = d
NoGuards == \A d \in Calls : ~Guarded(d)

RemoveEntry(d) == downloads' = downloads \ {d} /\ stale' = stale \ {d}

\* One round of a loop over keys_to_remove.
SweepOne(k, d) ==
  /\ d \in sweep[k] /\ ~Guarded(d)
  /\ sweep' = [sweep EXCEPT ![k] = @ \ {d}]
  /\ RemoveEntry(d)
  /\ UNCHANGED <<fileVars, clientVars, queue, replies, work, readerVars>>

\* An entry goes TIMEOUT (15 minutes) without being read from.
Lapse(d) ==
  /\ d \in downloads \ stale
  /\ stale' = stale \cup {d}
  /\ UNCHANGED <<fileVars, clientVars, queue, replies, work, downloads, sweep, readerVars>>

\* Mutant: only the downloads of clients that have gone.
AbandonedByGone == {d \in stale : ClientOf[d] \in gone}

\* The periodic task collects what has been abandoned.
Abandoned == stale
cleanup_abandoned_downloads ==
  /\ sweep["cleanup"] = {} /\ Abandoned # {} /\ NoGuards
  /\ sweep' = [sweep EXCEPT !["cleanup"] = Abandoned]
  /\ UNCHANGED <<fileVars, clientVars, queue, replies, work, downloads, stale, readerVars>>

\* ConnectionDisconnect: the session is told to stop, then the client's
\* downloads are collected.
ConnectionDisconnect(c) ==
  /\ c \notin gone /\ closing = {} /\ sweep["reader"] = {}
  /\ gone' = gone \cup {c} /\ closing' = {c}
  /\ UNCHANGED <<fileVars, clientVars, queue, replies, work, mapVars>>

close_downloads_for_cid(c) ==
  /\ c \in closing /\ NoGuards
  /\ closing' = {}
  /\ sweep' = [sweep EXCEPT !["reader"] = {d \in downloads : ClientOf[d] = c}]
  /\ UNCHANGED <<fileVars, clientVars, queue, replies, work, downloads, stale, gone>>

-----------------------------------------------------------------------------
(* The session task.                                                       *)

At(c, pc) == work[c].pc = pc
Goto(c, pc) == work' = [work EXCEPT ![c].pc = pc]
Done(c) == work' = [work EXCEPT ![c] = Idle]
Reply(op, d, i, size, data) ==
  replies' = replies \cup {[op |-> op, d |-> d, i |-> i, size |-> size, data |-> data]}

\* The select is biased: a stop signal goes before any command.
Take(c, op, pc) ==
  /\ At(c, "idle") /\ c \notin gone
  /\ queue[c] # <<>> /\ Head(queue[c]).op = op
  /\ queue' = [queue EXCEPT ![c] = Tail(@)]
  /\ work' = [work EXCEPT ![c] = [pc |-> pc, d |-> Head(queue[c]).d, i |-> Head(queue[c]).i, size |-> 0]]

SessionStops(c) ==
  /\ At(c, "idle") /\ c \in gone
  /\ Goto(c, "closed")
  /\ queue' = [queue EXCEPT ![c] = <<>>]
  /\ UNCHANGED <<replies, mapVars>>

\* start_download: clean up, read the size, open, insert, answer.
StartDownload(c) ==
  /\ NoGuards
  /\ Take(c, "start", "start")
  /\ sweep' = [sweep EXCEPT ![c] = Abandoned]
  /\ UNCHANGED <<replies, downloads, stale>>

ReadMetadata(c) ==
  /\ At(c, "start") /\ sweep[c] = {}
  /\ work' = [work EXCEPT ![c].pc = "stat", ![c].size = Len(file)]
  /\ UNCHANGED <<queue, replies, mapVars>>

\* metadata or open fails.
StartFails(c) ==
  /\ (At(c, "start") /\ sweep[c] = {}) \/ At(c, "stat")
  /\ Done(c)
  /\ UNCHANGED <<queue, replies, mapVars>>

InsertDownload(c) ==
  /\ At(c, "stat")
  /\ downloads' = downloads \cup {work[c].d}
  /\ Reply("start", work[c].d, 0, work[c].size, <<>>)
  /\ Done(c)
  /\ UNCHANGED <<queue, stale, sweep>>

\* download_file_chunk: get_mut; an unknown download is an error.
LockEntry(c) ==
  /\ queue[c] # <<>> /\ Head(queue[c]).d \in downloads /\ ~Guarded(Head(queue[c]).d)
  /\ Take(c, "chunk", "reading")
  /\ UNCHANGED <<replies, mapVars>>

NotFound(c) ==
  /\ queue[c] # <<>> /\ Head(queue[c]).d \notin downloads
  /\ At(c, "idle") /\ c \notin gone /\ Head(queue[c]).op = "chunk"
  /\ queue' = [queue EXCEPT ![c] = Tail(@)]
  /\ UNCHANGED <<replies, work, mapVars>>

\* Mutant: chunk indices taken to start from 1.
PositionFromOne(i) == IF i = 0 THEN 0 ELSE (i - 1) * CHUNK_SIZE

\* The position a chunk is read from.
ChunkPosition(i) == i * CHUNK_SIZE
InFile(i) == ChunkPosition(i) < Len(file)
ReadAt(i) == SubSeq(file, ChunkPosition(i) + 1, Min({ChunkPosition(i) + CHUNK_SIZE, Len(file)}))

\* Seek and read.  The server returns a whole chunk, or up to the end.
ReadChunk(c) ==
  LET d == work[c].d
      i == work[c].i
  IN  /\ At(c, "reading") /\ InFile(i)
      /\ Reply("chunk", d, i, 0, ReadAt(i))
      /\ stale' = stale \ {d}
      /\ Done(c)
      /\ UNCHANGED <<queue, downloads, sweep>>

\* The end of the file, which is not reported, or an error: the guard is
\* dropped, and then the entry removed.
ReadEnds(c) ==
  /\ At(c, "reading") /\ (InFile(work[c].i) => ReadErrors)
  /\ Goto(c, "remove")
  /\ UNCHANGED <<queue, replies, mapVars>>

RemoveDownload(c) ==
  /\ At(c, "remove") /\ ~Guarded(work[c].d)
  /\ RemoveEntry(work[c].d)
  /\ Done(c)
  /\ UNCHANGED <<queue, replies, sweep>>

-----------------------------------------------------------------------------
SessionStep(c) ==
  /\ \/ SessionStops(c) \/ StartDownload(c) \/ ReadMetadata(c) \/ StartFails(c)
     \/ InsertDownload(c) \/ LockEntry(c) \/ NotFound(c) \/ ReadChunk(c) \/ ReadEnds(c)
     \/ RemoveDownload(c)
  /\ UNCHANGED <<fileVars, clientVars, readerVars>>

Next ==
  \/ FileChanges
  \/ \E d \in Calls : downloadFile(d) \/ handleDownloadStartResponse(d)
                       \/ handleDownloadChunk(d) \/ GiveUp(d) \/ Lapse(d)
  \/ \E c \in Clients : SessionStep(c) \/ ConnectionDisconnect(c) \/ close_downloads_for_cid(c)
  \/ \E k \in Sweepers, d \in Calls : SweepOne(k, d)
  \/ cleanup_abandoned_downloads

Spec == Init /\ [][Next]_vars

\* Tasks are polled, the SFTP server answers, the interval ticks, and 15
\* minutes pass.  Nothing is assumed of the browser.
Fairness ==
  /\ \A c \in Clients : WF_vars(SessionStep(c)) /\ WF_vars(close_downloads_for_cid(c))
  /\ \A k \in Sweepers, d \in Calls : WF_vars(SweepOne(k, d))
  /\ \A d \in Calls : WF_vars(Lapse(d))
  /\ WF_vars(cleanup_abandoned_downloads)

FairSpec == Spec /\ Fairness

-----------------------------------------------------------------------------
(* Properties.                                                             *)

\* What finalizeDownload saves is a prefix of the file at least as long as the
\* size start_download announced, also while another program appends to the
\* file: chunks are read at different moments, and the last one may have grown
\* since total_chunks was computed.
DownloadExact ==
  \A d \in Calls :
    (call[d] = "done" /\ ~truncated) => IsPrefix(Saved(d), file) /\ Len(Saved(d)) >= total[d]

\* The entry of a download that is done or given up is reclaimed, and so are
\* those of a client that has gone: download_file_chunk does not remove it
\* after the last chunk, and a start may be running when the call is given up.
DownloadsReclaimed ==
  \A d \in Calls :
    (call[d] \in {"done", "failed"} \/ ClientOf[d] \in gone) ~> [](d \notin downloads)
=============================================================================
