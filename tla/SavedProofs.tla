----------------------------- MODULE SavedProofs -----------------------------
(***************************************************************************)
(* Proofs about Download: what is saved is a prefix of the file.           *)
(***************************************************************************)
EXTENDS DownloadProofs, SequenceTheorems

-----------------------------------------------------------------------------
(* What is read is the file's, while nobody truncates it.                  *)

\* x is chunk i of the file f, which had size bytes when the download started.
Piece(f, i, x, size) ==
  /\ Len(x) <= CHUNK_SIZE
  /\ ChunkPosition(i) + Len(x) <= Len(f)
  /\ \A j \in 1 .. Len(x) : x[j] = f[ChunkPosition(i) + j]
  /\ Len(x) = CHUNK_SIZE \/ size <= ChunkPosition(i) + Len(x)

Pieces ==
  ~truncated =>
    /\ \A c \in Clients : work[c].size <= Len(file)
    /\ \A r \in replies : r.size <= Len(file)
    /\ \A d \in Calls : total[d] <= Len(file)
    /\ \A r \in replies : r.op = "chunk" => Piece(file, r.i, r.data, total[r.d])
    /\ \A d \in Calls : \A i \in DOMAIN chunks[d] : Piece(file, i, chunks[d][i], total[d])

\* The inductive strengthening of DownloadExact.
ExactInv == Typed /\ OneAtATime /\ Pieces

-----------------------------------------------------------------------------
(* What is read is the file's.                                             *)

\* Chunks stay pieces of a file that only grows.
LEMMA PieceGrows ==
  ASSUME NEW f \in Bytes, NEW g \in Bytes, Len(f) <= Len(g), \A j \in 1 .. Len(f) : g[j] = f[j],
         NEW i \in Nat, NEW x \in Bytes, NEW size, Piece(f, i, x, size)
  PROVE  Piece(g, i, x, size)
<1>0. ChunkPosition(i) \in Nat
  BY ChunkPositionNat, Zenon
<1>1. ChunkPosition(i) \in Nat /\ Len(f) \in Nat /\ Len(g) \in Nat /\ Len(x) \in Nat
  BY <1>0 DEF Bytes
<1>2. ASSUME NEW j \in 1 .. Len(x) PROVE x[j] = g[ChunkPosition(i) + j]
  <2>1. x[j] = f[ChunkPosition(i) + j] /\ ChunkPosition(i) + Len(x) <= Len(f)
    BY Zenon DEF Piece
  <2>2. ChunkPosition(i) + j \in 1 .. Len(f)
    BY <1>1, <2>1
  <2>. QED BY <2>1, <2>2, Zenon
<1>3. ChunkPosition(i) + Len(x) <= Len(g)
  <2>1. ChunkPosition(i) + Len(x) <= Len(f)
    BY Zenon DEF Piece
  <2>. QED BY <1>1, <2>1
<1>. QED BY <1>2, <1>3, Zenon DEF Piece

\* A file that is not truncated only grows.
LEMMA FileGrows ==
  ASSUME Typed, [Next]_vars, ~truncated'
  PROVE  /\ ~truncated /\ Len(file) <= Len(file') /\ \A j \in 1 .. Len(file) : file'[j] = file[j]
         /\ file' # file => UNCHANGED <<clientVars, queue, replies, work>>
<1>0. file \in Seq(Nat) /\ Len(file) \in Nat
  BY DEF Typed, Bytes
<1>1. CASE FileChanges
  <2>1. ~truncated /\ file' = Append(file, Len(file) + 1) /\ UNCHANGED <<clientVars, queue, replies, work>>
    BY <1>1 DEF FileChanges
  <2>2. Len(file') = Len(file) + 1 /\ \A j \in 1 .. Len(file) : file'[j] = file[j]
    BY <1>0, <2>1, SMTT(20)
  <2>. QED BY <1>0, <2>1, <2>2, SMTT(20)
<1>2. CASE ~FileChanges
  <2>1. UNCHANGED fileVars
    BY <1>2, Zenon DEF Next, vars, downloadFile, handleDownloadStartResponse,
       handleDownloadChunk, GiveUp, Lapse,
       SessionStep, ConnectionDisconnect, close_downloads_for_cid, SweepOne, cleanup_abandoned_downloads
  <2>. QED BY <1>0, <2>1 DEF fileVars
<1>. QED BY <1>1, <1>2, Zenon

\* What a step does to the sizes and chunks under way.
LEMMA DataSteps ==
  ASSUME Typed, [Next]_vars
  PROVE  \/ /\ UNCHANGED <<total, chunks>> /\ replies' \subseteq replies
            /\ \A c \in Clients : work'[c].size \in {work[c].size, 0, Len(file)}
         \/ /\ UNCHANGED <<total, chunks>> /\ UNCHANGED file
            /\ \E c \in Clients :
                 /\ Done(c)
                 /\ \/ replies' = replies \cup {[op |-> "start", d |-> work[c].d, i |-> 0,
                                                size |-> work[c].size, data |-> <<>>]}
                    \/ /\ InFile(work[c].i)
                       /\ replies' = replies \cup {[op |-> "chunk", d |-> work[c].d, i |-> work[c].i,
                                                   size |-> 0, data |-> ReadAt(work[c].i)]}
         \/ \E d \in Calls : handleDownloadStartResponse(d) \/ handleDownloadChunk(d)
<1>0. work \in [Clients -> Task]
  BY Zenon DEF Typed
<1>1. CASE \/ FileChanges \/ cleanup_abandoned_downloads \/ UNCHANGED vars
           \/ \E d \in Calls : downloadFile(d) \/ GiveUp(d) \/ Lapse(d) \/ \E k \in Sweepers : SweepOne(k, d)
           \/ \E c \in Clients : ConnectionDisconnect(c) \/ close_downloads_for_cid(c)
  <2>1. UNCHANGED <<total, chunks, replies, work>>
    BY <1>1, Zenon DEF FileChanges, cleanup_abandoned_downloads, vars, clientVars,
       downloadFile, GiveUp, Lapse,
                SweepOne, ConnectionDisconnect, close_downloads_for_cid
  <2>. QED BY <2>1, Zenon
<1>2. ASSUME NEW c \in Clients, SessionStep(c), ~InsertDownload(c), ~ReadChunk(c)
      PROVE  /\ UNCHANGED <<total, chunks>> /\ replies' \subseteq replies
             /\ \A b \in Clients : work'[b].size \in {work[b].size, 0, Len(file)}
  <2>1. UNCHANGED <<total, chunks, replies>>
    BY <1>2, Zenon DEF SessionStep, clientVars, SessionStops, StartDownload, ReadMetadata,
       StartFails, LockEntry,
                NotFound, ReadEnds, RemoveDownload
  <2>2. \/ work' = work
        \/ \E w : work' = [work EXCEPT ![c] = w] /\ w.size \in {work[c].size, 0, Len(file)}
    <3>0. work[c] \in Task
      BY <1>0, Zenon
    <3>1. CASE ReadMetadata(c)
      <4>1. work' = [work EXCEPT ![c] = [work[c] EXCEPT !.pc = "stat", !.size = Len(file)]]
        BY <1>0, <3>1, Zenon DEF ReadMetadata
      <4>2. [work[c] EXCEPT !.pc = "stat", !.size = Len(file)].size = Len(file)
        BY <3>0, Zenon DEF Task
      <4>. QED BY <4>1, <4>2, Zenon
    <3>2. ASSUME NEW pc, Goto(c, pc) PROVE work' = [work EXCEPT ![c] = [work[c] EXCEPT !.pc = pc]]
      BY <1>0, <3>2, Zenon DEF Goto
    <3>3. \A pc : [work[c] EXCEPT !.pc = pc].size = work[c].size
      BY <3>0, Zenon DEF Task
    <3>4. CASE SessionStops(c) \/ ReadEnds(c)
      BY <3>2, <3>3, <3>4, Zenon DEF SessionStops, ReadEnds
    <3>5. CASE StartFails(c) \/ RemoveDownload(c)
      BY <3>5, Zenon DEF StartFails, RemoveDownload, Done, Idle
    <3>6. CASE StartDownload(c) \/ LockEntry(c)
      BY <3>6, Zenon DEF StartDownload, LockEntry, Take
    <3>7. CASE NotFound(c)
      BY <3>7, Zenon DEF NotFound
    <3>. QED BY <1>2, <3>1, <3>4, <3>5, <3>6, <3>7, Zenon DEF SessionStep
  <2>3. \A b \in Clients : work'[b].size \in {work[b].size, 0, Len(file)}
    BY <1>0, <2>2, Zenon
  <2>. QED BY <2>1, <2>3, Zenon
<1>3. ASSUME NEW c \in Clients, SessionStep(c), InsertDownload(c) \/ ReadChunk(c)
      PROVE  /\ UNCHANGED <<total, chunks>> /\ UNCHANGED file
             /\ Done(c)
             /\ \/ replies' = replies \cup {[op |-> "start", d |-> work[c].d, i |-> 0,
                                            size |-> work[c].size, data |-> <<>>]}
                \/ /\ InFile(work[c].i)
                   /\ replies' = replies \cup {[op |-> "chunk", d |-> work[c].d, i |-> work[c].i,
                                               size |-> 0, data |-> ReadAt(work[c].i)]}
  BY <1>3, Zenon DEF SessionStep, clientVars, fileVars, InsertDownload, ReadChunk, Reply
<1>. QED
  BY <1>1, <1>2, <1>3, Zenon DEF Next

\* What is read, received and announced stays part of the file.
LEMMA PiecesStep ==
  ASSUME Typed, Typed', OneAtATime, Pieces, [Next]_vars
  PROVE  Pieces'
<1>. SUFFICES ASSUME ~truncated'
              PROVE  /\ \A c \in Clients : work'[c].size <= Len(file')
                     /\ \A r \in replies' : r.size <= Len(file')
                     /\ \A d \in Calls : total'[d] <= Len(file')
                     /\ \A r \in replies' : r.op = "chunk" => Piece(file', r.i, r.data, total'[r.d])
                     /\ \A d \in Calls : \A i \in DOMAIN chunks'[d] : Piece(file', i, chunks'[d][i], total'[d])
  BY Zenon DEF Pieces
<1>0. /\ file \in Bytes /\ file' \in Bytes /\ Len(file) \in Nat /\ Len(file') \in Nat
      /\ work \in [Clients -> Task] /\ work' \in [Clients -> Task]
      /\ replies \subseteq Answer /\ replies' \subseteq Answer
      /\ total \in [Calls -> Nat] /\ total' \in [Calls -> Nat]
  BY DEF Typed, Bytes
<1>1. ~truncated /\ Len(file) <= Len(file') /\ \A j \in 1 .. Len(file) : file'[j] = file[j]
  BY FileGrows, Zenon
<1>2. /\ \A c \in Clients : work[c].size <= Len(file)
      /\ \A r \in replies : r.size <= Len(file)
      /\ \A d \in Calls : total[d] <= Len(file)
      /\ \A r \in replies : r.op = "chunk" => Piece(file, r.i, r.data, total[r.d])
      /\ \A d \in Calls : \A i \in DOMAIN chunks[d] : Piece(file, i, chunks[d][i], total[d])
  BY <1>1, Zenon DEF Pieces
<1>3. ASSUME NEW x \in Nat, x <= Len(file) PROVE x <= Len(file')
  BY <1>0, <1>1, <1>3, SMTT(20)
<1>4. ASSUME NEW r \in replies, r.op = "chunk", NEW t, t = total[r.d] PROVE Piece(file', r.i, r.data, t)
  <2>1. r.i \in Nat /\ r.data \in Bytes /\ Piece(file, r.i, r.data, t)
    BY <1>0, <1>2, <1>4, Zenon DEF Answer
  <2>. QED BY <1>0, <1>1, <2>1, PieceGrows, Zenon
<1>5. ASSUME NEW d \in Calls, NEW i \in DOMAIN chunks[d], NEW x, x = chunks[d][i], NEW t, t = total[d]
      PROVE  Piece(file', i, x, t)
  <2>1. i \in Nat /\ x \in Bytes /\ Piece(file, i, x, t)
    BY <1>2, <1>5, Zenon DEF OneAtATime, CallInv, Gathered
  <2>. QED BY <1>0, <1>1, <2>1, PieceGrows, Zenon
<1>6. \A d \in Calls : total[d] <= Len(file')
  BY <1>0, <1>2, <1>3, Zenon
<1>7. \A r \in replies : r.size <= Len(file')
  <2>1. \A r \in replies : r.size \in Nat
    BY <1>0, Zenon DEF Answer
  <2>. QED BY <1>2, <1>3, <2>1, Zenon
<1>8. \A c \in Clients : work[c].size <= Len(file') /\ 0 <= Len(file')
  <2>1. \A c \in Clients : work[c].size \in Nat
    BY <1>0, Zenon DEF Task
  <2>. QED BY <1>0, <1>2, <1>3, <2>1, SMTT(20)
<1>9. ASSUME UNCHANGED <<total, chunks>>
      PROVE  /\ \A d \in Calls : total'[d] <= Len(file')
             /\ \A r \in replies : r.op = "chunk" => Piece(file', r.i, r.data, total'[r.d])
             /\ \A d \in Calls : \A i \in DOMAIN chunks'[d] : Piece(file', i, chunks'[d][i], total'[d])
  BY <1>4, <1>5, <1>6, <1>9, Zenon
<1>10. CASE /\ UNCHANGED <<total, chunks>> /\ replies' \subseteq replies
            /\ \A c \in Clients : work'[c].size \in {work[c].size, 0, Len(file)}
  BY <1>1, <1>7, <1>8, <1>9, <1>10, Zenon
<1>11. ASSUME UNCHANGED <<total, chunks>>, UNCHANGED file, NEW c \in Clients, Done(c), NEW a,
              replies' = replies \cup {a}, a.size \in {work[c].size, 0},
              a.op = "chunk" => a.i \in Nat /\ InFile(a.i) /\ a.data = ReadAt(a.i) /\ a.d \in Calls
       PROVE  /\ \A b \in Clients : work'[b].size <= Len(file')
              /\ \A r \in replies' : r.size <= Len(file')
              /\ \A r \in replies' : r.op = "chunk" => Piece(file', r.i, r.data, total'[r.d])
  <2>1. \A b \in Clients : work'[b].size \in {work[b].size, 0}
    BY <1>0, <1>11, Zenon DEF Done, Idle
  <2>2. ASSUME a.op = "chunk", NEW t, t = total[a.d] PROVE Piece(file', a.i, a.data, t)
    <3>1. a.i \in Nat /\ InFile(a.i) /\ a.data = ReadAt(a.i) /\ t \in Nat /\ t <= Len(file)
      BY <1>0, <1>2, <1>11, <2>2, Zenon
    <3>2. /\ Len(a.data) \in 1 .. CHUNK_SIZE
          /\ ChunkPosition(a.i) + Len(a.data) <= Len(file)
          /\ \A j \in 1 .. Len(a.data) : a.data[j] = file[ChunkPosition(a.i) + j]
          /\ Len(a.data) = CHUNK_SIZE \/ ChunkPosition(a.i) + Len(a.data) = Len(file)
      BY <1>0, <3>1, ReadBytes, Zenon
    <3>3. CHUNK_SIZE \in Nat /\ Len(a.data) <= CHUNK_SIZE
      BY <3>2, DownloadAssumption
    <3>4. Piece(file, a.i, a.data, t)
      BY <3>1, <3>2, <3>3, Zenon DEF Piece
    <3>. QED BY <1>11, <3>4, Zenon
  <2>3. \A r \in replies' : r.op = "chunk" => Piece(file', r.i, r.data, total'[r.d])
    BY <1>9, <1>11, <2>2, Zenon
  <2>. QED BY <1>7, <1>8, <1>11, <2>1, <2>3, Zenon
<1>12. ASSUME UNCHANGED <<total, chunks>>, UNCHANGED file, NEW c \in Clients, Done(c),
              replies' = replies \cup {[op |-> "start", d |-> work[c].d, i |-> 0, size |-> work[c].size, data |-> <<>>]}
       PROVE  /\ \A b \in Clients : work'[b].size <= Len(file')
              /\ \A r \in replies' : r.size <= Len(file')
              /\ \A r \in replies' : r.op = "chunk" => Piece(file', r.i, r.data, total'[r.d])
  <2>1. PICK a : a = [op |-> "start", d |-> work[c].d, i |-> 0, size |-> work[c].size, data |-> <<>>]
    BY Zenon
  <2>2. a.op = "start" /\ a.size = work[c].size /\ replies' = replies \cup {a}
    BY <1>12, <2>1, Zenon
  <2>. QED BY <1>11, <1>12, <2>2, Zenon
<1>13. ASSUME UNCHANGED <<total, chunks>>, UNCHANGED file, NEW c \in Clients, Done(c), InFile(work[c].i),
              replies' = replies \cup {[op |-> "chunk", d |-> work[c].d, i |-> work[c].i, size |-> 0, data |-> ReadAt(work[c].i)]}
       PROVE  /\ \A b \in Clients : work'[b].size <= Len(file')
              /\ \A r \in replies' : r.size <= Len(file')
              /\ \A r \in replies' : r.op = "chunk" => Piece(file', r.i, r.data, total'[r.d])
  <2>1. PICK a : a = [op |-> "chunk", d |-> work[c].d, i |-> work[c].i, size |-> 0, data |-> ReadAt(work[c].i)]
    BY Zenon
  <2>2. /\ a.op = "chunk" /\ a.size = 0 /\ a.i = work[c].i /\ a.d = work[c].d /\ a.data = ReadAt(work[c].i)
        /\ replies' = replies \cup {a}
    BY <1>13, <2>1, Zenon
  <2>3. a \in Answer
    BY <1>0, <2>2, Zenon
  <2>4. a.i \in Nat /\ a.d \in Calls
    BY <2>3, Zenon DEF Answer
  <2>. QED BY <1>11, <1>13, <2>2, <2>4, Zenon
<1>14. ASSUME NEW d \in Calls, handleDownloadStartResponse(d)
       PROVE  /\ \A b \in Clients : work'[b].size <= Len(file')
              /\ \A r \in replies' : r.size <= Len(file')
              /\ \A e \in Calls : total'[e] <= Len(file')
              /\ \A r \in replies' : r.op = "chunk" => Piece(file', r.i, r.data, total'[r.d])
              /\ \A e \in Calls : \A i \in DOMAIN chunks'[e] : Piece(file', i, chunks'[e][i], total'[e])
  <2>1. PICK r \in replies : r.d = d /\ r.op = "start" /\ replies' = replies \ {r} /\ total' = [total EXCEPT ![d] = r.size]
    BY <1>14, Zenon DEF handleDownloadStartResponse
  <2>2. work' = work /\ chunks' = chunks /\ CallInv(d)
    BY <1>14, Zenon DEF handleDownloadStartResponse, OneAtATime
  <2>3. next[d] = 0
    BY <2>1, <2>2, Zenon DEF CallInv, Current, Asked
  <2>4. DOMAIN chunks[d] = {}
    BY <2>2, <2>3, SMTT(20) DEF CallInv, Gathered
  <2>5. \A q \in replies' : q \in replies /\ q.d # d
    BY <2>1, <2>2, Zenon DEF CallInv, Tokens
  <2>6. total'[d] = r.size /\ \A e \in Calls \ {d} : total'[e] = total[e]
    BY <1>0, <2>1, Zenon
  <2>7. \A q \in replies' : q.d \in Calls
    BY <1>0, Zenon DEF Answer
  <2>8. \A q \in replies' : q.op = "chunk" => Piece(file', q.i, q.data, total'[q.d])
    BY <1>4, <2>5, <2>6, <2>7, Zenon
  <2>9. ASSUME NEW e \in Calls, NEW i \in DOMAIN chunks'[e] PROVE Piece(file', i, chunks'[e][i], total'[e])
    BY <1>5, <2>2, <2>4, <2>6, <2>9, Zenon
  <2>. QED BY <1>6, <1>7, <1>8, <2>1, <2>2, <2>5, <2>6, <2>8, <2>9, Zenon
<1>15. ASSUME NEW d \in Calls, handleDownloadChunk(d)
       PROVE  /\ \A b \in Clients : work'[b].size <= Len(file')
              /\ \A r \in replies' : r.size <= Len(file')
              /\ \A e \in Calls : total'[e] <= Len(file')
              /\ \A r \in replies' : r.op = "chunk" => Piece(file', r.i, r.data, total'[r.d])
              /\ \A e \in Calls : \A i \in DOMAIN chunks'[e] : Piece(file', i, chunks'[e][i], total'[e])
  <2>1. PICK r \in replies : /\ r.d = d /\ r.op = "chunk" /\ replies' = replies \ {r}
                             /\ chunks' \in {chunks, [chunks EXCEPT ![d] = Put(@, r.i, r.data)]}
                             /\ total' = total /\ work' = work
    BY <1>15, Zenon DEF handleDownloadChunk, clientVars
  <2>2. chunks = [e \in Calls |-> chunks[e]]
    BY Zenon DEF Typed
  <2>3. ASSUME NEW e \in Calls, NEW i \in DOMAIN chunks'[e]
        PROVE  (i \in DOMAIN chunks[e] /\ chunks'[e][i] = chunks[e][i]) \/ (e = d /\ i = r.i /\ chunks'[e][i] = r.data)
    BY <2>1, <2>2, <2>3, SMTT(20) DEF Put
  <2>4. ASSUME NEW e \in Calls, NEW i \in DOMAIN chunks'[e] PROVE Piece(file', i, chunks'[e][i], total'[e])
    <3>1. CASE i \in DOMAIN chunks[e] /\ chunks'[e][i] = chunks[e][i]
      BY <1>5, <2>1, <3>1, Zenon
    <3>2. CASE e = d /\ i = r.i /\ chunks'[e][i] = r.data
      BY <1>4, <2>1, <3>2, Zenon
    <3>. QED BY <2>3, <3>1, <3>2, Zenon
  <2>. QED BY <1>4, <1>6, <1>7, <1>8, <2>1, <2>4, Zenon
<1>. QED
  BY <1>9, <1>10, <1>12, <1>13, <1>14, <1>15, DataSteps, Zenon

\* Nothing has been read at first.
LEMMA PiecesInit ==
  ASSUME Init
  PROVE  Pieces
<1>1. /\ replies = {} /\ \A d \in Calls : total[d] = 0 /\ DOMAIN chunks[d] = {}
      /\ \A c \in Clients : work[c].size = 0
  BY DEF Init, Idle
<1>2. file \in Bytes /\ Len(file) \in Nat
  BY TypedInit DEF Typed, Bytes
<1>. QED BY <1>1, <1>2 DEF Pieces

-----------------------------------------------------------------------------
(* Numbers, sorting and concatenation.                                     *)

\* A nonempty set of numbers has a least member: what the arguments by a least
\* counterexample rest on.
LEMMA LeastNat ==
  ASSUME NEW T \in SUBSET Nat, T # {}
  PROVE  \E m \in T : \A k \in T : m <= k
<1>. DEFINE R == OpToRel(<, Nat)
<1>1. \E x \in T : \A y \in T : ~ (<<y, x>> \in R)
  BY NatLessThanWellFounded, WFMin, Zenon
<1>2. \A x, y \in Nat : y < x => <<y, x>> \in R
  BY SMT DEF OpToRel
<1>. HIDE DEF R
<1>3. PICK x \in T : \A y \in T : ~ (<<y, x>> \in R)
  BY <1>1, Zenon
<1>4. ASSUME NEW y \in T PROVE x <= y
  <2>1. x \in Nat /\ y \in Nat
    BY Zenon
  <2>2. ~ (y < x)
    BY <1>2, <1>3, <2>1, Zenon
  <2>. QED
    BY <2>1, <2>2
<1>. QED
  BY <1>4, Zenon

\* Multiplication is monotonic.
LEMMA Products ==
  ASSUME NEW a \in Nat, NEW b \in Nat, NEW c \in Nat, a <= b
  PROVE  a * c <= b * c
<1>1. PICK k \in Nat : b = a + k
  <2>1. b - a \in Nat /\ b = a + (b - a)
    OBVIOUS
  <2>. QED BY <2>1, Zenon
<1>2. b * c = a * c + k * c /\ k * c \in Nat /\ a * c \in Nat
  BY <1>1
<1>. QED BY <1>2

\* total_chunks is the size rounded up.
LEMMA RoundUp ==
  ASSUME NEW c \in Nat \ {0}, NEW s \in Nat \ {0}, NEW n, n = (s + c - 1) \div c
  PROVE  n \in Nat \ {0} /\ s <= n * c /\ (n - 1) * c < s
OBVIOUS

\* Sorting 0 .. n - 1 puts j - 1 in place j.
LEMMA SortedInterval ==
  ASSUME NEW n \in Nat
  PROVE  /\ Cardinality(0 .. n - 1) = n
         /\ \A j \in 1 .. n : Sorted(0 .. n - 1)[j] = j - 1
<1>1. Cardinality(0 .. n - 1) = n
  BY FS_Interval
<1>. DEFINE ascending(q) == \A x, y \in 1 .. n : x < y => q[x] < q[y]
<1>2. \E q \in [1 .. n -> 0 .. n - 1] : ascending(q)
  <2>1. [j \in 1 .. n |-> j - 1] \in [1 .. n -> 0 .. n - 1]
    OBVIOUS
  <2>2. ascending([j \in 1 .. n |-> j - 1])
    OBVIOUS
  <2>. QED BY <2>1, <2>2, Zenon
<1>3. PICK q : q = Sorted(0 .. n - 1)
  BY Zenon
<1>4. q \in [1 .. n -> 0 .. n - 1] /\ ascending(q)
  BY <1>1, <1>2, <1>3, Zenon DEF Sorted
<1>5. \A j \in 1 .. n : j - 1 <= q[j]
  <2>1. SUFFICES ASSUME NEW T \in SUBSET Nat, T = {j \in 1 .. n : q[j] < j - 1}, T # {} PROVE FALSE
    <3>1. PICK T : T = {j \in 1 .. n : q[j] < j - 1}
      BY Zenon
    <3>2. T \in SUBSET Nat
      BY <3>1
    <3>3. T = {}
      BY <2>1, <3>1, <3>2, Zenon
    <3>4. ASSUME NEW j \in 1 .. n PROVE j - 1 <= q[j]
      <4>1. q[j] \in 0 .. n - 1 /\ j \notin T
        BY <1>4, <3>3, Zenon
      <4>. QED BY <3>1, <4>1, SMTT(20)
    <3>. QED BY <3>4, Zenon
  <2>2. PICK m \in T : \A k \in T : m <= k
    BY <2>1, LeastNat, Zenon
  <2>3. m \in 1 .. n /\ q[m] \in 0 .. n - 1 /\ q[m] < m - 1
    BY <1>4, <2>1, <2>2, Zenon
  <2>4. m - 1 \in 1 .. n /\ m - 1 \notin T
    BY <2>1, <2>2, <2>3, SMTT(20)
  <2>5. q[m - 1] >= m - 2 /\ q[m - 1] < q[m] /\ q[m - 1] \in 0 .. n - 1
    BY <1>4, <2>1, <2>3, <2>4, SMTT(20)
  <2>. QED BY <2>3, <2>5
<1>6. \A j \in 1 .. n : q[j] <= j - 1
  <2>1. SUFFICES ASSUME NEW T \in SUBSET Nat, T = {k \in 0 .. n - 1 : q[n - k] > n - k - 1}, T # {} PROVE FALSE
    <3>1. PICK T : T = {k \in 0 .. n - 1 : q[n - k] > n - k - 1}
      BY Zenon
    <3>2. T \in SUBSET Nat
      BY <3>1
    <3>3. T = {}
      BY <2>1, <3>1, <3>2, Zenon
    <3>4. ASSUME NEW j \in 1 .. n PROVE q[j] <= j - 1
      <4>1. n - j \in 0 .. n - 1 /\ n - j \notin T /\ n - (n - j) = j
        BY <3>3
      <4>2. q[j] \in 0 .. n - 1
        BY <1>4, Zenon
      <4>. QED BY <3>1, <4>1, <4>2, SMTT(20)
    <3>. QED BY <3>4, Zenon
  <2>2. PICK m \in T : \A k \in T : m <= k
    BY <2>1, LeastNat, Zenon
  <2>3. m \in 0 .. n - 1 /\ q[n - m] \in 0 .. n - 1 /\ q[n - m] > n - m - 1
    BY <1>4, <2>1, <2>2, SMTT(20)
  <2>4. m - 1 \in 0 .. n - 1 /\ m - 1 \notin T
    BY <2>1, <2>2, <2>3, SMTT(20)
  <2>5. PICK u : u = n - m + 1
    BY Zenon
  <2>6. u \in 1 .. n /\ n - m \in 1 .. n /\ n - m < u /\ u = n - (m - 1)
    BY <2>3, <2>4, <2>5, SMTT(20)
  <2>7. q[u] \in 0 .. n - 1 /\ q[n - m] < q[u]
    BY <1>4, <2>6, Zenon
  <2>8. q[u] <= u - 1
    BY <2>1, <2>4, <2>6, <2>7, SMTT(20)
  <2>. QED BY <2>3, <2>5, <2>7, <2>8, SMTT(20)
<1>. QED
  <2>1. ASSUME NEW j \in 1 .. n PROVE q[j] = j - 1
    <3>1. q[j] \in 0 .. n - 1 /\ j - 1 <= q[j] /\ q[j] <= j - 1
      BY <1>4, <1>5, <1>6, Zenon
    <3>. QED BY <3>1
  <2>. QED BY <1>1, <1>3, <2>1, Zenon

\* The function that FlattenSeq chooses satisfies its equation when some
\* function does,
LEMMA FlattenDef ==
  ASSUME NEW s \in Seq(Bytes), Len(s) # 0,
         NEW G, G = [i \in 1 .. Len(s) |-> IF i = 1 THEN s[i] ELSE G[i - 1] \o s[i]]
  PROVE  \E F : /\ F = [i \in 1 .. Len(s) |-> IF i = 1 THEN s[i] ELSE F[i - 1] \o s[i]]
                /\ FlattenSeq(s) = F[Len(s)]
<1>. DEFINE H == CHOOSE F : F = [i \in 1 .. Len(s) |-> IF i = 1 THEN s[i] ELSE F[i - 1] \o s[i]]
<1>1. H = [i \in 1 .. Len(s) |-> IF i = 1 THEN s[i] ELSE H[i - 1] \o s[i]]
  BY Zenon
<1>2. FlattenSeq(s) = H[Len(s)]
  BY Zenon DEF FlattenSeq
<1>. QED BY <1>1, <1>2, Zenon

\* and it is then the only one.
LEMMA FlattenIs ==
  ASSUME NEW s \in Seq(Bytes), Len(s) # 0,
         NEW G, G = [i \in 1 .. Len(s) |-> IF i = 1 THEN s[i] ELSE G[i - 1] \o s[i]]
  PROVE  FlattenSeq(s) = G[Len(s)]
<1>1. PICK F : /\ F = [i \in 1 .. Len(s) |-> IF i = 1 THEN s[i] ELSE F[i - 1] \o s[i]]
               /\ FlattenSeq(s) = F[Len(s)]
  BY FlattenDef, Zenon
<1>2. PICK n : n = Len(s) /\ n \in Nat \ {0}
  OBVIOUS
<1>3. PICK T : T = {i \in 1 .. n : F[i] # G[i]}
  BY Zenon
<1>4. CASE T = {}
  <2>1. n \in 1 .. n /\ n \notin T
    BY <1>2, <1>4
  <2>2. F[n] = G[n]
    BY <1>3, <2>1, Zenon
  <2>. QED BY <1>1, <1>2, <2>2, Zenon
<1>5. CASE T # {}
  <2>0. T \in SUBSET Nat
    BY <1>2, <1>3
  <2>1. PICK m \in T : \A k \in T : m <= k
    BY <1>5, <2>0, LeastNat, Zenon
  <2>2. m \in 1 .. n /\ F[m] # G[m]
    BY <1>3, <2>1, Zenon
  <2>3. F[m] = (IF m = 1 THEN s[m] ELSE F[m - 1] \o s[m]) /\ G[m] = (IF m = 1 THEN s[m] ELSE G[m - 1] \o s[m])
    BY <1>1, <1>2, <2>2, Zenon
  <2>4. m # 1
    BY <2>2, <2>3, Zenon
  <2>5. m - 1 \in 1 .. n /\ m - 1 \notin T
    <3>1. m \in Nat /\ m >= 2 /\ m <= n /\ m - 1 < m
      BY <1>2, <2>2, <2>4, SMTT(20)
    <3>2. m - 1 \in 1 .. n
      BY <1>2, <3>1
    <3>. QED BY <2>1, <3>1, <3>2, SMTT(20)
  <2>6. F[m - 1] = G[m - 1]
    BY <1>3, <2>5, Zenon
  <2>. QED BY <2>2, <2>3, <2>6, Zenon
<1>. QED BY <1>4, <1>5, Zenon

\* The first p bytes of a file followed by the next ones are its first bytes.
LEMMA Extended ==
  ASSUME NEW f \in Bytes, NEW p \in Nat, NEW x \in Bytes, p + Len(x) <= Len(f),
         \A j \in 1 .. Len(x) : x[j] = f[p + j]
  PROVE  SubSeq(f, 1, p) \o x = SubSeq(f, 1, p + Len(x))
<1>1. Len(x) \in Nat /\ Len(f) \in Nat /\ p <= Len(f)
  BY DEF Bytes
<1>2. SubSeq(f, 1, p) \in Seq(Nat) /\ Len(SubSeq(f, 1, p)) = p /\ \A j \in 1 .. p : SubSeq(f, 1, p)[j] = f[j]
  BY <1>1, SMTT(20) DEF Bytes
<1>3. PICK y : y = SubSeq(f, 1, p)
  BY Zenon
<1>4. y \o x \in Seq(Nat) /\ Len(y \o x) = p + Len(x)
  BY <1>2, <1>3, ConcatProperties, Zenon DEF Bytes
<1>5. PICK z : z = SubSeq(f, 1, p + Len(x))
  BY Zenon
<1>6. z \in Seq(Nat) /\ Len(z) = p + Len(x) /\ \A j \in 1 .. p + Len(x) : z[j] = f[j]
  BY <1>1, <1>5, SMTT(20) DEF Bytes
<1>7. ASSUME NEW j \in 1 .. p + Len(x) PROVE (y \o x)[j] = z[j]
  <2>1. CASE j <= p
    <3>1. j \in 1 .. p
      BY <1>1, <2>1, SMTT(20)
    <3>2. (y \o x)[j] = y[j]
      BY <1>2, <1>3, <3>1, ConcatProperties, SMTT(20) DEF Bytes
    <3>. QED BY <1>2, <1>3, <1>6, <3>1, <3>2, Zenon
  <2>2. CASE ~(j <= p)
    <3>1. j - p \in 1 .. Len(x) /\ p + (j - p) = j
      BY <1>1, <2>2, SMTT(20)
    <3>2. x \in Seq(Nat) /\ y \in Seq(Nat) /\ Len(y) = p /\ ~(j <= Len(y)) /\ j \in 1 .. Len(y) + Len(x)
      BY <1>2, <1>3, <2>2, Zenon DEF Bytes
    <3>3. (y \o x)[j] = x[j - Len(y)]
      BY <3>2, ConcatProperties, Zenon
    <3>. QED BY <1>6, <3>1, <3>2, <3>3, Zenon
  <2>. QED BY <2>1, <2>2, Zenon
<1>8. y \o x = z
  BY <1>4, <1>6, <1>7, SeqEqual, Zenon
<1>. QED BY <1>3, <1>5, <1>8, Zenon

\* The pieces of a file, concatenated, are its first bytes, at least as many as
\* the size that the number of pieces was computed from: all but the last piece
\* are whole chunks.
LEMMA Concatenated ==
  ASSUME NEW f \in Bytes, NEW size \in Nat \ {0}, NEW n, n = TotalChunks(size),
         NEW s, s \in [1 .. n -> Bytes], \A j \in 1 .. n : Piece(f, j - 1, s[j], size)
  PROVE  \E l \in Nat : l <= Len(f) /\ size <= l /\ FlattenSeq(s) = SubSeq(f, 1, l)
<1>0. CHUNK_SIZE \in Nat \ {0} /\ Len(f) \in Nat
  BY DownloadAssumption DEF Bytes
<1>1. n \in Nat \ {0} /\ size <= n * CHUNK_SIZE /\ (n - 1) * CHUNK_SIZE < size
  BY DownloadAssumption, RoundUp, Zenon DEF TotalChunks
<1>2. s \in Seq(Bytes) /\ Len(s) = n
  BY <1>1
<1>3. ASSUME NEW k \in 1 .. n
      PROVE  /\ s[k] \in Bytes /\ Len(s[k]) \in Nat /\ (k - 1) * CHUNK_SIZE \in Nat
             /\ (k - 1) * CHUNK_SIZE + Len(s[k]) <= Len(f)
             /\ \A j \in 1 .. Len(s[k]) : s[k][j] = f[(k - 1) * CHUNK_SIZE + j]
             /\ Len(s[k]) = CHUNK_SIZE \/ size <= (k - 1) * CHUNK_SIZE + Len(s[k])
             /\ Len(s[k]) <= CHUNK_SIZE
  <2>1. s[k] \in Bytes /\ Len(s[k]) \in Nat
    BY SMTT(20) DEF Bytes
  <2>2. (k - 1) * CHUNK_SIZE \in Nat
    BY <1>0, <1>1, SMTT(20)
  <2>. QED BY <2>1, <2>2, Zenon DEF Piece, ChunkPosition
<1>4. ASSUME NEW k \in 1 .. n - 1 PROVE Len(s[k]) = CHUNK_SIZE
  <2>1. k * CHUNK_SIZE <= (n - 1) * CHUNK_SIZE
    <3>1. k \in Nat /\ n - 1 \in Nat /\ CHUNK_SIZE \in Nat /\ k <= n - 1
      BY <1>0, <1>1, SMTT(20)
    <3>. QED BY <3>1, Products, Zenon
  <2>2. (k - 1) * CHUNK_SIZE + CHUNK_SIZE = k * CHUNK_SIZE
    BY <1>0, <1>1, SMTT(20)
  <2>3. k \in 1 .. n
    BY <1>1
  <2>4. PICK a, b, c, len : a = (k - 1) * CHUNK_SIZE /\ b = k * CHUNK_SIZE /\ c = (n - 1) * CHUNK_SIZE /\ len = Len(s[k])
    BY Zenon
  <2>5. b \in Nat /\ c \in Nat
    BY <1>0, <1>1, <2>4, SMTT(20)
  <2>6. /\ a \in Nat /\ len \in Nat /\ len <= CHUNK_SIZE /\ (len = CHUNK_SIZE \/ size <= a + len)
        /\ b <= c /\ a + CHUNK_SIZE = b /\ c < size
    BY <1>1, <1>3, <2>1, <2>2, <2>3, <2>4, Zenon
  <2>7. len = CHUNK_SIZE
    BY <1>0, <2>5, <2>6, SMTT(20)
  <2>. QED BY <2>4, <2>7, Zenon
<1>5. PICK G : G = [k \in 1 .. n |-> SubSeq(f, 1, (k - 1) * CHUNK_SIZE + Len(s[k]))]
  BY Zenon
<1>6. ASSUME NEW k \in 1 .. n PROVE G[k] = IF k = 1 THEN s[k] ELSE G[k - 1] \o s[k]
  <2>0. /\ SubSeq(f, 1, (k - 1) * CHUNK_SIZE) \o s[k] = SubSeq(f, 1, (k - 1) * CHUNK_SIZE + Len(s[k]))
        /\ G[k] = SubSeq(f, 1, (k - 1) * CHUNK_SIZE + Len(s[k]))
    BY <1>3, <1>5, Extended, Zenon
  <2>1. CASE k = 1
    <3>1. (k - 1) * CHUNK_SIZE = 0
      BY <1>0, <2>1, SMTT(20)
    <3>2. SubSeq(f, 1, 0) = <<>>
      BY DEF Bytes
    <3>3. <<>> \o s[k] = s[k]
      BY <1>3 DEF Bytes
    <3>. QED BY <2>0, <2>1, <3>1, <3>2, <3>3, Zenon
  <2>2. CASE k # 1
    <3>1. k - 1 \in 1 .. n - 1 /\ k - 1 \in 1 .. n
      BY <1>1, <2>2, SMTT(20)
    <3>2. ((k - 1) - 1) * CHUNK_SIZE + CHUNK_SIZE = (k - 1) * CHUNK_SIZE
      BY <1>0, <1>1, SMTT(20)
    <3>3. Len(s[k - 1]) = CHUNK_SIZE
      BY <1>4, <3>1, Zenon
    <3>4. G[k - 1] = SubSeq(f, 1, (k - 1) * CHUNK_SIZE)
      BY <1>5, <3>1, <3>2, <3>3, Zenon
    <3>. QED BY <2>0, <2>2, <3>4, Zenon
  <2>. QED BY <2>1, <2>2, Zenon
<1>7. G = [k \in 1 .. Len(s) |-> IF k = 1 THEN s[k] ELSE G[k - 1] \o s[k]]
  <2>1. G = [k \in 1 .. n |-> G[k]]
    BY <1>5, Zenon
  <2>2. [k \in 1 .. n |-> G[k]] = [k \in 1 .. n |-> IF k = 1 THEN s[k] ELSE G[k - 1] \o s[k]]
    BY <1>6, Zenon
  <2>. QED BY <1>2, <2>1, <2>2, Zenon
<1>8. FlattenSeq(s) = G[n]
  BY <1>1, <1>2, <1>7, FlattenIs, Zenon
<1>9. n \in 1 .. n
  BY <1>1
<1>10. PICK l : l = (n - 1) * CHUNK_SIZE + Len(s[n])
  BY Zenon
<1>11. l \in Nat /\ l <= Len(f) /\ G[n] = SubSeq(f, 1, l)
  BY <1>3, <1>5, <1>9, <1>10, SMTT(20)
<1>12. size <= l
  <2>1. (n - 1) * CHUNK_SIZE + CHUNK_SIZE = n * CHUNK_SIZE
    BY <1>0, <1>1, SMTT(20)
  <2>. QED BY <1>1, <1>3, <1>9, <1>10, <2>1, Zenon
<1>. QED BY <1>8, <1>11, <1>12, Zenon

\* The first bytes of a file are a prefix of it.
LEMMA IsPrefixOf ==
  ASSUME NEW f \in Bytes, NEW l \in Nat, l <= Len(f)
  PROVE  IsPrefix(SubSeq(f, 1, l), f) /\ Len(SubSeq(f, 1, l)) = l
<1>1. Len(SubSeq(f, 1, l)) = l
  BY DEF Bytes
<1>2. SubSeq(SubSeq(f, 1, l), 1, l) = SubSeq(f, 1, l)
  BY <1>1 DEF Bytes
<1>. QED BY <1>1, <1>2, Zenon DEF IsPrefix, Bytes

-----------------------------------------------------------------------------
(* The file.                                                               *)

\* What is saved when all the chunks are there.
LEMMA SavedExact ==
  ASSUME Typed, OneAtATime, Pieces, NEW d \in Calls, call[d] = "done", ~truncated
  PROVE  IsPrefix(Saved(d), file) /\ Len(Saved(d)) >= total[d]
<1>1. file \in Bytes /\ total[d] \in Nat /\ next[d] \in Nat
  BY Zenon DEF Typed
<1>2. PICK n : n = TotalChunks(total[d])
  BY Zenon
<1>3. total[d] # 0 /\ next[d] = n /\ DOMAIN chunks[d] = 0 .. n - 1
  BY <1>2, Zenon DEF OneAtATime, CallInv, Gathered
<1>4. n \in Nat
  BY <1>1, <1>3, Zenon
<1>5. /\ Cardinality(DOMAIN chunks[d]) = n
      /\ \A j \in 1 .. n : Sorted(DOMAIN chunks[d])[j] = j - 1
  BY <1>3, <1>4, SortedInterval, Zenon
<1>6. PICK s : s = [j \in 1 .. n |-> chunks[d][j - 1]]
  BY Zenon
<1>7. Saved(d) = FlattenSeq(s)
  <2>1. PICK q : q = Sorted(DOMAIN chunks[d])
    BY Zenon
  <2>2. [j \in 1 .. n |-> chunks[d][q[j]]] = s
    BY <1>5, <1>6, <2>1, Zenon
  <2>. QED BY <1>5, <2>1, <2>2, Zenon DEF Saved
<1>8. ASSUME NEW j \in 1 .. n PROVE s[j] \in Bytes /\ Piece(file, j - 1, s[j], total[d])
  <2>1. j - 1 \in DOMAIN chunks[d] /\ s[j] = chunks[d][j - 1]
    BY <1>3, <1>4, <1>6, SMTT(20)
  <2>. QED BY <2>1, Zenon DEF OneAtATime, CallInv, Gathered, Pieces
<1>9. s \in [1 .. n -> Bytes]
  BY <1>6, <1>8, Zenon
<1>10. PICK l \in Nat : l <= Len(file) /\ total[d] <= l /\ FlattenSeq(s) = SubSeq(file, 1, l)
  <2>1. PICK f, size : f = file /\ size = total[d]
    BY Zenon
  <2>2. f \in Bytes /\ size \in Nat \ {0} /\ n = TotalChunks(size)
    BY <1>1, <1>2, <1>3, <2>1, Zenon
  <2>3. \A j \in 1 .. n : Piece(f, j - 1, s[j], size)
    BY <1>8, <2>1, Zenon
  <2>4. \E l \in Nat : l <= Len(f) /\ size <= l /\ FlattenSeq(s) = SubSeq(f, 1, l)
    BY <1>9, <2>2, <2>3, Concatenated, Zenon
  <2>. QED BY <2>1, <2>4, Zenon
<1>. QED BY <1>1, <1>7, <1>10, IsPrefixOf, SMTT(20)

\* What finalizeDownload of sftp.js saves is a prefix of the remote file, at
\* least as long as the size that start_download announced, while others append
\* to the file and as long as nobody truncates it.
THEOREM DownloadSavesFile == Spec => []DownloadExact
<1>1. Init => ExactInv
  BY TypedInit, PiecesInit, Zenon DEF ExactInv
<1>2. ExactInv /\ [Next]_vars => ExactInv'
  BY TypedStep, OneStep, PiecesStep, Zenon DEF ExactInv
<1>3. ExactInv => DownloadExact
  BY SavedExact, Zenon DEF ExactInv, DownloadExact
<1>. QED
  BY <1>1, <1>2, <1>3, PTL DEF Spec
=============================================================================
