----------------------------- MODULE MCNodeAuth -----------------------------
(* Bounds and constants of NodeAuth's run.                                 *)
EXTENDS NodeAuth, TLC

CONSTANTS alice, bob, l1, l2, c1, c2, c3, c4

MCUsers == {alice, bob}
MCLogins == {l1, l2}
MCIds == {1, 2}
MCRequests == {1, 2}
MCChallenges == {c1, c2, c3, c4}
=============================================================================
