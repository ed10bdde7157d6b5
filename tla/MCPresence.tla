----------------------------- MODULE MCPresence -----------------------------
(* Constants of Presence's run.                                            *)
EXTENDS Presence, TLC

CONSTANTS east, west, first, second, browser

MCServers == {east, west}
MCSockets == {first, second}
MCClients == {browser}
=============================================================================
