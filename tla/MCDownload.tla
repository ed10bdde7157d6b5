----------------------------- MODULE MCDownload -----------------------------
(* Instances of Download for TLC.                                           *)
EXTENDS Download

CONSTANTS d1, d2, a

\* All calls are those of one client and run over its session.
OneClient == [d \in Calls |-> a]
=============================================================================
