--------------------------- MODULE TunnelService ---------------------------
(***************************************************************************)
(* What the relay promises a web client about one tunnel: it is announced  *)
(* once, to one client; output arrives only between the announcement and   *)
(* the closing notice; and after the closing notice nothing more arrives.  *)
(* A tunnel whose announcement was lost may still be reported closed.      *)
(***************************************************************************)
CONSTANTS Clients, Tunnels

VARIABLES
  view,   \* view[c][t]: "none", "open", "closed", as client c sees tunnel t
  got     \* got[c][t]: client c has received output of tunnel t

Init ==
  /\ view = [c \in Clients |-> [t \in Tunnels |-> "none"]]
  /\ got = [c \in Clients |-> [t \in Tunnels |-> FALSE]]

Opened(c, t) ==
  /\ view[c][t] = "none"
  /\ \A d \in Clients \ {c} : view[d][t] = "none"
  /\ view' = [view EXCEPT ![c][t] = "open"]
  /\ UNCHANGED got

Output(c, t) ==
  /\ view[c][t] = "open"
  /\ got' = [got EXCEPT ![c][t] = TRUE]
  /\ UNCHANGED view

Closed(c, t) ==
  /\ \A d \in Clients \ {c} : view[d][t] = "none"
  /\ view' = [view EXCEPT ![c][t] = "closed"]
  /\ UNCHANGED got

Next == \E c \in Clients, t \in Tunnels : Opened(c, t) \/ Output(c, t) \/ Closed(c, t)

Spec == Init /\ [][Next]_<<view, got>>
=============================================================================
