------------------------------ MODULE MCUpload ------------------------------
(* Instances of Upload for TLC: two clients with one SFTP session each.     *)
EXTENDS Upload

CONSTANTS t1, t2, t3, s1, s2, a, b, path1, path2

\* Transfers t1 and t2 are client a's and t3 is client b's; t2 and t3 share
\* a path.
MCSessionOf == [t \in Transfers |-> IF t = t3 THEN s2 ELSE s1]
MCClientOf == [s \in Sessions |-> IF s = s2 THEN b ELSE a]
MCPathOf == [t \in Transfers |-> IF t = t1 THEN path2 ELSE path1]
MCChunksOf == [t \in Transfers |-> IF t = t1 THEN 1 ELSE 2]
=============================================================================
