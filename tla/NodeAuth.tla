------------------------------ MODULE NodeAuth ------------------------------
(***************************************************************************)
(* Node identity and authentication: `login' on the agent's host and       *)
(* claim_node on the server; the agent's loop that trades a signed         *)
(* challenge for a JWT and opens its socket with it (start_ws_connection,  *)
(* fetch_session_jwt), against the handlers of server/src/node_auth.rs and *)
(* wait_for_auth.                                                          *)
(*                                                                         *)
(* The handlers share two Postgres tables and use no transactions: every   *)
(* statement is an action of its own, and a handler goes on when the agent *)
(* that asked has given up.                                                *)
(***************************************************************************)
EXTENDS Naturals

CONSTANTS
  Nil,
  Users,
  Logins,       \* login processes on the agent's host, one after or beside another
  Requests,     \* deliveries of verify requests the server handles at a time
  Ids,          \* node ids the database gives out
  Challenges,   \* challenge values; one nobody holds any more is drawn again
  MaxKeys,      \* bound: key pairs generated
  MaxFaults     \* bound: requests lost or repeated, expiries and broken sockets

Keys == 1 .. MaxKeys
NodeRow == [key : Keys, user : Users, revoked : BOOLEAN]
Identity == [id : Ids, key : Keys, by : Users]

ASSUME AuthAssumption ==
  /\ MaxKeys \in Nat /\ MaxFaults \in Nat
  /\ Nil \notin Ids \cup Challenges \cup Users \cup Keys \cup NodeRow \cup Identity

VARIABLES
  nodes,            \* table nodes: nodes[i] is the row with id i, or Nil
  auth_challenges,  \* auth_challenges[i]: the challenge stored for node i, or Nil
  expired,          \* challenges past their expires_at
  state_json,       \* the identity saved on the host (state.json), or Nil
  keys,             \* key pairs generated so far
  login,            \* login[l]: control state of a login process
  loop,             \* control state of start_ws_connection, and what it holds
  late,             \* upserts of challenge handlers whose agent has given up
  verify,           \* verify[r]: a handler of verify_auth_challenge
  spent,            \* history: challenges a verification has deleted
  faults            \* faults so far

tables == <<nodes, auth_challenges, expired>>
host == <<state_json, keys, login>>
vars == <<tables, host, loop, late, verify, spent, faults>>

Registered == {i \in Ids : nodes[i] # Nil}

LoginState == [pc : {"idle", "check", "upsert", "save", "done"},
               key : Keys \cup {Nil}, user : Users \cup {Nil}, id : Ids \cup {Nil}]
LoopState == [pc : {"load", "lookup", "upsert", "sign", "verify", "dial",
                    "jwt", "claim", "connected"},
              id : Ids \cup {Nil}, key : Keys \cup {Nil},
              ch : Challenges \cup {Nil}, fresh : BOOLEAN, revoked : BOOLEAN]
VerifyState == [pc : {"free", "lookup", "read", "consume", "finish", "granted", "denied"},
                id : Ids \cup {Nil}, key : Keys \cup {Nil}, ch : Challenges \cup {Nil},
                late : BOOLEAN, revoked : BOOLEAN]

NoLogin == [pc |-> "idle", key |-> Nil, user |-> Nil, id |-> Nil]
Loading == [pc |-> "load", id |-> Nil, key |-> Nil, ch |-> Nil, fresh |-> FALSE, revoked |-> FALSE]
NoVerify == [pc |-> "free", id |-> Nil, key |-> Nil, ch |-> Nil, late |-> FALSE, revoked |-> FALSE]

\* Tables, identity file, processes and handlers are well formed; an id held
\* anywhere is the id of a row.
AuthTypeOK ==
  /\ nodes \in [Ids -> NodeRow \cup {Nil}]
  /\ auth_challenges \in [Ids -> Challenges \cup {Nil}]
  /\ expired \subseteq Challenges /\ spent \subseteq Challenges
  /\ state_json \in Identity \cup {Nil}
  /\ state_json # Nil => state_json.id \in Registered
  /\ keys \in 0 .. MaxKeys
  /\ login \in [Logins -> LoginState]
  /\ \A l \in Logins : login[l].pc = "save" => login[l].id \in Registered
  /\ loop \in LoopState
  /\ loop.pc # "load" => loop.id \in Registered
  /\ late \subseteq Registered \X Challenges
  /\ verify \in [Requests -> VerifyState]
  /\ \A r \in Requests : verify[r].pc # "free" => verify[r].id \in Registered
  /\ faults \in 0 .. MaxFaults

AuthInit ==
  /\ nodes = [i \in Ids |-> Nil]
  /\ auth_challenges = [i \in Ids |-> Nil]
  /\ expired = {}
  /\ state_json = Nil
  /\ keys = 0
  /\ login = [l \in Logins |-> NoLogin]
  /\ loop = Loading
  /\ late = {}
  /\ verify = [r \in Requests |-> NoVerify]
  /\ spent = {}
  /\ faults = 0

FaultStrikes == faults < MaxFaults /\ faults' = faults + 1

-----------------------------------------------------------------------------
(* Statements on the tables: server/src/db/postgres.rs.                    *)

RowsWith(k) == {i \in Registered : nodes[i].key = k}

\* get_node_claim_by_id finds the row and the caller finds it not revoked.
Usable(i) == ~nodes[i].revoked

upsert_auth_challenge(i, c) ==
  auth_challenges' = [auth_challenges EXCEPT ![i] = c]

\* DELETE ... WHERE node_id = i AND challenge = c: a newer challenge stays.
consume_auth_challenge(i, c) ==
  auth_challenges' = [auth_challenges EXCEPT ![i] = IF @ = c THEN Nil ELSE @]

-----------------------------------------------------------------------------
(* login and logout: agent/src/agent.rs, creds.rs; claim_node: node.rs.    *)

\* bootstrap_identity up to its request: the saved key pair is used again.
bootstrap_identity(l, u) ==
  /\ login[l].pc = "idle"
  /\ \/ /\ state_json # Nil
        /\ login' = [login EXCEPT ![l] = [pc |-> "check", key |-> state_json.key, user |-> u, id |-> Nil]]
        /\ keys' = keys
     \/ /\ state_json = Nil
        /\ keys < MaxKeys
        /\ keys' = keys + 1
        /\ login' = [login EXCEPT ![l] = [pc |-> "check", key |-> keys + 1, user |-> u, id |-> Nil]]
  /\ UNCHANGED <<tables, state_json, loop, late, verify, spent, faults>>

\* The login ends without saving: the token is refused, a statement or the
\* answer fails, or the process is stopped at any point.
LoginFails(l) ==
  /\ login[l].pc \notin {"idle", "done"}
  /\ login' = [login EXCEPT ![l] = [NoLogin EXCEPT !.pc = "done"]]
  /\ UNCHANGED <<tables, state_json, keys, loop, late, verify, spent, faults>>

\* Mutant: the owner of an existing row is not compared.
ClaimUnchecked(l) ==
  /\ login[l].pc = "check"
  /\ login' = [login EXCEPT ![l].pc = "upsert"]
  /\ UNCHANGED <<tables, state_json, keys, loop, late, verify, spent, faults>>

\* claim_node: the token is valid, and the key is unknown or the same user's.
claim_node(l) ==
  /\ login[l].pc = "check"
  /\ \A i \in RowsWith(login[l].key) : nodes[i].user = login[l].user
  /\ login' = [login EXCEPT ![l].pc = "upsert"]
  /\ UNCHANGED <<tables, state_json, keys, loop, late, verify, spent, faults>>

InsertNode(l) ==
  /\ RowsWith(login[l].key) = {}
  /\ Registered # Ids
  /\ LET i == CHOOSE j \in Ids \ Registered : TRUE IN
     /\ nodes' = [nodes EXCEPT ![i] = [key |-> login[l].key, user |-> login[l].user, revoked |-> FALSE]]
     /\ login' = [login EXCEPT ![l] = [@ EXCEPT !.pc = "save", !.id = i]]

\* Mutant: ON CONFLICT (public_key) DO NOTHING returns no id.
ClaimDoNothing(l) ==
  /\ login[l].pc = "upsert"
  /\ \/ InsertNode(l)
     \/ /\ RowsWith(login[l].key) # {}
        /\ nodes' = nodes
        /\ login' = [login EXCEPT ![l].pc = "save"]
  /\ UNCHANGED <<auth_challenges, expired, state_json, keys, loop, late, verify, spent, faults>>

\* INSERT ... ON CONFLICT (public_key) DO UPDATE: an existing row keeps its
\* owner and its id, which is what is returned.
claim_node_by_public_key(l) ==
  /\ login[l].pc = "upsert"
  /\ \/ InsertNode(l)
     \/ \E i \in RowsWith(login[l].key) :
        /\ nodes' = nodes
        /\ login' = [login EXCEPT ![l] = [@ EXCEPT !.pc = "save", !.id = i]]
  /\ UNCHANGED <<auth_challenges, expired, state_json, keys, loop, late, verify, spent, faults>>

save_identity(l) ==
  /\ login[l].pc = "save"
  /\ state_json' = [id |-> login[l].id, key |-> login[l].key, by |-> login[l].user]
  /\ login' = [login EXCEPT ![l] = [NoLogin EXCEPT !.pc = "done"]]
  /\ UNCHANGED <<tables, keys, loop, late, verify, spent, faults>>

logout ==
  /\ state_json # Nil
  /\ state_json' = Nil
  /\ UNCHANGED <<tables, keys, login, loop, late, verify, spent, faults>>

\* Somebody revokes a node (outside this repository); it is not undone.
Revoke(i) ==
  /\ Usable(i)
  /\ nodes' = [nodes EXCEPT ![i].revoked = TRUE]
  /\ UNCHANGED <<auth_challenges, expired, host, loop, late, verify, spent, faults>>

-----------------------------------------------------------------------------
(* The agent's loop, and the requests it makes.                            *)

\* load_creds_for_server; without an identity the loop tries again later.
load_creds_for_server ==
  /\ loop.pc = "load" /\ state_json # Nil
  /\ loop' = [Loading EXCEPT !.pc = "lookup", !.id = state_json.id, !.key = state_json.key]
  /\ UNCHANGED <<tables, host, late, verify, spent, faults>>

Held == {auth_challenges[i] : i \in Ids} \cup {loop.ch} \cup {p[2] : p \in late}
          \cup {verify[r].ch : r \in Requests}

\* create_auth_challenge: a fresh value; a revoked node gets one as well, but
\* it is not stored.
create_auth_challenge ==
  /\ loop.pc = "lookup"
  /\ Challenges \ Held # {}
  /\ LET c == CHOOSE d \in Challenges \ Held : TRUE IN
     /\ loop' = [loop EXCEPT !.ch = c, !.pc = IF Usable(loop.id) THEN "upsert" ELSE "sign"]
     /\ spent' = spent \ {c}
     /\ expired' = expired \ {c}
  /\ UNCHANGED <<nodes, auth_challenges, host, late, verify, faults>>

\* Mutant: ON CONFLICT (node_id) DO NOTHING.
StoreIfAbsent ==
  /\ loop.pc = "upsert"
  /\ IF auth_challenges[loop.id] = Nil THEN upsert_auth_challenge(loop.id, loop.ch)
     ELSE UNCHANGED auth_challenges
  /\ loop' = [loop EXCEPT !.pc = "sign"]
  /\ UNCHANGED <<nodes, expired, host, late, verify, spent, faults>>

StoreChallenge ==
  /\ loop.pc = "upsert"
  /\ upsert_auth_challenge(loop.id, loop.ch)
  /\ loop' = [loop EXCEPT !.pc = "sign"]
  /\ UNCHANGED <<nodes, expired, host, late, verify, spent, faults>>

\* The agent gave up; the handler writes all the same, now or much later.
LateStore(p) ==
  /\ upsert_auth_challenge(p[1], p[2])
  /\ late' = late \ {p}
  /\ UNCHANGED <<nodes, expired, host, loop, verify, spent, faults>>

\* fetch_session_jwt signs the challenge and sends it back.
SendVerify(r) ==
  /\ loop.pc = "sign" /\ verify[r].pc = "free"
  /\ verify' = [verify EXCEPT ![r] = [pc |-> "lookup", id |-> loop.id, key |-> loop.key, ch |-> loop.ch,
                                      late |-> loop.ch \in spent, revoked |-> ~Usable(loop.id)]]
  /\ loop' = [loop EXCEPT !.pc = "verify"]
  /\ UNCHANGED <<tables, host, late, spent, faults>>

Awaited(r) == loop.pc = "verify" /\ verify[r].ch = loop.ch

\* The network delivers the request once more, before or after its answer.
RepeatVerify(r, q) ==
  /\ verify[r].pc # "free" /\ verify[q].pc = "free"
  /\ FaultStrikes
  /\ verify' = [verify EXCEPT ![q] = [verify[r] EXCEPT !.pc = "lookup", !.late = verify[r].ch \in spent,
                                                       !.revoked = ~Usable(verify[r].id)]]
  /\ UNCHANGED <<tables, host, loop, late, spent>>

\* A request fails: the agent goes back to its loop.  The statement of a
\* challenge handler may be on its way to the database.
LoopFails ==
  /\ loop.pc \notin {"load", "connected"}
  /\ FaultStrikes
  /\ loop' = Loading
  /\ \/ late' = late
     \/ loop.pc = "upsert" /\ late' = late \cup {<<loop.id, loop.ch>>}
  /\ UNCHANGED <<tables, host, verify, spent>>

\* The socket opens and the agent sends its Auth frame.
Dial ==
  /\ loop.pc = "dial"
  /\ loop' = [loop EXCEPT !.pc = "jwt", !.revoked = ~Usable(loop.id)]
  /\ UNCHANGED <<tables, host, late, verify, spent, faults>>

\* wait_for_auth, authenticate_node_jwt: the token holds and so does its node.
\* The check by id that follows reads the row once more before the node is in.
authenticate_node_jwt ==
  /\ loop.pc = "jwt"
  /\ loop' = IF loop.fresh /\ Usable(loop.id) THEN [loop EXCEPT !.pc = "claim"] ELSE Loading
  /\ UNCHANGED <<tables, host, late, verify, spent, faults>>

wait_for_auth ==
  /\ loop.pc = "claim"
  /\ loop' = IF Usable(loop.id) THEN [loop EXCEPT !.pc = "connected"] ELSE Loading
  /\ UNCHANGED <<tables, host, late, verify, spent, faults>>

ConnectionEnds ==
  /\ loop.pc = "connected"
  /\ FaultStrikes
  /\ loop' = Loading
  /\ UNCHANGED <<tables, host, late, verify, spent>>

TokenExpires ==
  /\ loop.fresh /\ loop.pc \in {"dial", "jwt"}
  /\ FaultStrikes
  /\ loop' = [loop EXCEPT !.fresh = FALSE]
  /\ UNCHANGED <<tables, host, late, verify, spent>>

-----------------------------------------------------------------------------
(* verify_auth_challenge, one statement at a time.                         *)

VerifyGoes(r, pc) == verify' = [verify EXCEPT ![r].pc = pc]

\* Mutant: a revoked node is not refused.
VerifyLookupAny(r) ==
  /\ verify[r].pc = "lookup"
  /\ VerifyGoes(r, "read")
  /\ UNCHANGED <<tables, host, loop, late, spent, faults>>

VerifyLookup(r) ==
  /\ verify[r].pc = "lookup"
  /\ VerifyGoes(r, IF Usable(verify[r].id) THEN "read" ELSE "denied")
  /\ UNCHANGED <<tables, host, loop, late, spent, faults>>

get_auth_challenge(r) ==
  /\ verify[r].pc = "read"
  /\ VerifyGoes(r, IF auth_challenges[verify[r].id] = verify[r].ch THEN "consume" ELSE "denied")
  /\ UNCHANGED <<tables, host, loop, late, spent, faults>>

\* Mutant: the challenge is left in the table.
ConsumeNothing(r) ==
  /\ verify[r].pc = "consume"
  /\ spent' = spent \cup {verify[r].ch}
  /\ VerifyGoes(r, "finish")
  /\ UNCHANGED <<tables, host, loop, late, faults>>

Consume(r) ==
  /\ verify[r].pc = "consume"
  /\ consume_auth_challenge(verify[r].id, verify[r].ch)
  /\ spent' = spent \cup {verify[r].ch}
  /\ VerifyGoes(r, "finish")
  /\ UNCHANGED <<nodes, expired, host, loop, late, faults>>

\* The expiry date read before, then verify_signature under the row's key.
IssueJwt(r) ==
  /\ verify[r].pc = "finish"
  /\ VerifyGoes(r, IF verify[r].ch \notin expired /\ nodes[verify[r].id].key = verify[r].key
                   THEN "granted" ELSE "denied")
  /\ UNCHANGED <<tables, host, loop, late, spent, faults>>

\* A statement fails and the request with it.
VerifyFails(r) ==
  /\ verify[r].pc \in {"lookup", "read", "consume"}
  /\ FaultStrikes
  /\ VerifyGoes(r, "denied")
  /\ UNCHANGED <<tables, host, loop, late, spent>>

\* The agent gets the answer it is waiting for.
Answered(r) ==
  /\ verify[r].pc \in {"granted", "denied"} /\ Awaited(r)
  /\ loop' = IF verify[r].pc = "granted" THEN [loop EXCEPT !.pc = "dial", !.fresh = TRUE] ELSE Loading
  /\ verify' = [verify EXCEPT ![r] = NoVerify]
  /\ UNCHANGED <<tables, host, late, spent, faults>>

\* Nobody waits: the answer is dropped, or the handler with its connection.
Abandoned(r) ==
  /\ verify[r].pc # "free" /\ ~Awaited(r)
  /\ verify' = [verify EXCEPT ![r] = NoVerify]
  /\ UNCHANGED <<tables, host, loop, late, spent, faults>>

ChallengeExpires(c) ==
  /\ c \in Held \ (expired \cup {Nil})
  /\ FaultStrikes
  /\ expired' = expired \cup {c}
  /\ UNCHANGED <<nodes, auth_challenges, host, loop, late, verify, spent>>

\* The database's own clean-up job (README.md, pg_cron).
DeleteExpired(i) ==
  /\ auth_challenges[i] \in expired
  /\ auth_challenges' = [auth_challenges EXCEPT ![i] = Nil]
  /\ UNCHANGED <<nodes, expired, host, loop, late, verify, spent, faults>>

-----------------------------------------------------------------------------
LoginStep ==
  \/ \E l \in Logins : \/ \E u \in Users : bootstrap_identity(l, u)
                       \/ claim_node(l) \/ claim_node_by_public_key(l)
                       \/ save_identity(l) \/ LoginFails(l)
  \/ logout

\* What the agent's loop, its handlers and the runtime do by themselves.
LoopStep ==
  \/ load_creds_for_server \/ create_auth_challenge \/ StoreChallenge
  \/ \E r \in Requests : SendVerify(r) \/ Answered(r)
  \/ Dial \/ authenticate_node_jwt \/ wait_for_auth

HandlerStep(r) ==
  VerifyLookup(r) \/ get_auth_challenge(r) \/ Consume(r) \/ IssueJwt(r) \/ Abandoned(r)

AuthFault ==
  \/ LoopFails \/ ConnectionEnds \/ TokenExpires
  \/ \E r \in Requests : VerifyFails(r) \/ \E q \in Requests : RepeatVerify(r, q)
  \/ \E c \in Challenges : ChallengeExpires(c)

AuthNext ==
  \/ LoginStep \/ LoopStep \/ AuthFault
  \/ \E r \in Requests : HandlerStep(r)
  \/ \E p \in late : LateStore(p)
  \/ \E i \in Registered : Revoke(i)
  \/ \E i \in Ids : DeleteExpired(i)

AuthSpec == AuthInit /\ [][AuthNext]_vars

\* The loop retries for ever and the runtime runs every task and handler; late
\* statements reach the database.  Logins, revocations, faults and the
\* clean-up job need not happen.
FairAuthSpec ==
  /\ AuthSpec
  /\ WF_vars(LoopStep)
  /\ \A r \in Requests : WF_vars(HandlerStep(r))
  /\ WF_vars(\E p \in late : LateStore(p))

-----------------------------------------------------------------------------
(* Properties.                                                             *)

\* The saved identity is a node of the user who logged in last, under the key
\* saved with it: however logins of several users interleave with each other's
\* check and upsert, claim_node never hands out somebody else's row.
LoginOwned ==
  state_json # Nil =>
    /\ nodes[state_json.id].key = state_json.key
    /\ nodes[state_json.id].user = state_json.by

\* A challenge is good for one sign-in (README.md: "one-time challenge"): a
\* verification that arrives after one that deleted it is never granted, not
\* even when a late upsert of an older handler reaches the table in between.
OneTime == \A r \in Requests : verify[r].pc = "granted" => ~verify[r].late

\* After a node is revoked no verification that arrives is granted, and no
\* socket opened with a token from before gets past wait_for_auth.
RevokedStaysOut ==
  /\ \A r \in Requests : verify[r].pc = "granted" => ~verify[r].revoked
  /\ loop.pc = "connected" => ~loop.revoked

SavedAs(i) == state_json # Nil /\ state_json.id = i

\* An agent with a saved identity gets in, whatever was lost, repeated or
\* expired on the way (an abandoned challenge row, a late upsert over a newer
\* one), unless its node is revoked or the identity replaced.
AgentGetsIn ==
  \A i \in Ids : SavedAs(i) ~> (~SavedAs(i) \/ nodes[i].revoked \/ loop.pc = "connected")
=============================================================================
