----------------------------- MODULE AuthProofs -----------------------------
(***************************************************************************)
(* Proofs about NodeAuth: the tables and processes stay well formed, a     *)
(* login never saves another user's node, a spent challenge is never       *)
(* accepted again, and a revoked node stays out, for any number of users,  *)
(* logins, nodes, challenges, overlapping requests and faults.             *)
(***************************************************************************)
EXTENDS NodeAuth, TLAPS

\* What AuthTypeOK needs beyond itself to be inductive: a process past its
\* first step holds a key, a user or a challenge.
Holding ==
  /\ \A l \in Logins : login[l].pc \notin {"idle", "done"} => login[l].key \in Keys /\ login[l].user \in Users
  /\ loop.pc \notin {"load", "lookup"} => loop.ch \in Challenges
  /\ loop.pc # "load" => loop.key \in Keys
  /\ \A r \in Requests : verify[r].pc # "free" => verify[r].ch \in Challenges

Typed == AuthTypeOK /\ Holding

\* Updates of the loop's record give records of the loop.
LEMMA LoopMoves ==
  ASSUME NEW x \in LoopState, NEW pc \in {"dial", "claim", "connected", "jwt", "sign", "verify"}, NEW b \in BOOLEAN
  PROVE  /\ [x EXCEPT !.pc = pc] \in LoopState
         /\ [x EXCEPT !.pc = pc, !.fresh = TRUE] \in LoopState
         /\ [x EXCEPT !.pc = pc, !.revoked = b] \in LoopState
         /\ [x EXCEPT !.fresh = FALSE] \in LoopState
BY Zenon DEF LoopState

\* The same for a verification, and for its second delivery.
LEMMA VerifyMoves ==
  ASSUME NEW x \in VerifyState, NEW pc \in {"lookup", "read", "consume", "finish", "granted", "denied"},
         NEW a \in BOOLEAN, NEW b \in BOOLEAN
  PROVE  /\ [x EXCEPT !.pc = pc] \in VerifyState
         /\ [x EXCEPT !.pc = pc, !.late = a, !.revoked = b] \in VerifyState
BY Zenon DEF VerifyState

\* What the second delivery of a request is known by.
LEMMA RepeatedFlags ==
  ASSUME NEW x \in VerifyState, NEW a \in BOOLEAN, NEW b \in BOOLEAN
  PROVE  /\ [x EXCEPT !.pc = "lookup", !.late = a, !.revoked = b].late = a
         /\ [x EXCEPT !.pc = "lookup", !.late = a, !.revoked = b].revoked = b
BY Zenon DEF VerifyState

\* AuthInit makes everything empty.
LEMMA InitTyped == AuthInit => Typed
BY AuthAssumption DEF AuthInit, Typed, AuthTypeOK, Holding, Registered, NoLogin, Loading,
   NoVerify,
   LoginState, LoopState, VerifyState

\* Rows are never deleted, so an id that is registered stays so: what every
\* action but claim_node_by_public_key and Revoke does by leaving nodes alone.
LEMMA RegisteredStays ==
  ASSUME Typed, AuthNext \/ UNCHANGED vars
  PROVE  nodes' \in [Ids -> NodeRow \cup {Nil}] /\ Registered \subseteq Registered'
<1> USE AuthAssumption DEF Typed, AuthTypeOK, Registered
<1>1. CASE UNCHANGED nodes
  BY <1>1, Zenon
<1>2. ASSUME NEW l \in Logins, claim_node_by_public_key(l) PROVE nodes' \in [Ids -> NodeRow \cup {Nil}] /\ Registered \subseteq Registered'
  <2>1. CASE InsertNode(l)
    <3> DEFINE i == CHOOSE j \in Ids \ Registered : TRUE
    <3>1. i \in Ids \ Registered
      BY <2>1, Zenon DEF InsertNode
    <3>2. [key |-> login[l].key, user |-> login[l].user, revoked |-> FALSE] \in NodeRow
      BY <1>2, Zenon DEF claim_node_by_public_key, Holding, NodeRow
    <3>3. nodes' = [nodes EXCEPT ![i] = [key |-> login[l].key, user |-> login[l].user, revoked |-> FALSE]]
      BY <2>1, Zenon DEF InsertNode
    <3> HIDE DEF i
    <3> QED BY <3>1, <3>2, <3>3, Zenon
  <2>2. CASE nodes' = nodes
    BY <2>2, Zenon
  <2> QED BY <1>2, <2>1, <2>2, Zenon DEF claim_node_by_public_key
<1>3. ASSUME NEW i \in Registered, Revoke(i) PROVE nodes' \in [Ids -> NodeRow \cup {Nil}] /\ Registered \subseteq Registered'
  <2>1. nodes[i] \in NodeRow
    BY <1>3, Zenon
  <2> DEFINE row == [nodes[i] EXCEPT !.revoked = TRUE]
  <2>2. row \in NodeRow
    BY <2>1, Zenon DEF NodeRow
  <2>3. nodes' = [nodes EXCEPT ![i] = row]
    BY <1>3, Zenon DEF Revoke
  <2>4. row # Nil
    BY <2>2, Zenon
  <2> HIDE DEF row
  <2> QED BY <1>3, <2>2, <2>3, <2>4, Zenon
<1>4. CASE AuthNext
  <2>1. CASE LoginStep
    BY <2>1, <1>1, <1>2, Zenon DEF LoginStep, bootstrap_identity, claim_node, save_identity,
       LoginFails, logout, tables
  <2>2. CASE LoopStep
    BY <2>2, <1>1, Zenon DEF LoopStep, load_creds_for_server, create_auth_challenge,
       StoreChallenge, SendVerify, Answered,
       Dial, authenticate_node_jwt, wait_for_auth, tables
  <2>3. CASE AuthFault
    BY <2>3, <1>1, Zenon DEF AuthFault, LoopFails, ConnectionEnds, TokenExpires, VerifyFails,
       RepeatVerify, ChallengeExpires, tables
  <2>4. CASE \E r \in Requests : HandlerStep(r)
    BY <2>4, <1>1, Zenon DEF HandlerStep, VerifyLookup, get_auth_challenge, Consume, IssueJwt,
       Abandoned, tables
  <2>5. CASE \/ \E p \in late : LateStore(p)
             \/ \E i \in Ids : DeleteExpired(i)
    BY <2>5, <1>1, Zenon DEF LateStore, DeleteExpired
  <2> QED BY <1>3, <1>4, <2>1, <2>2, <2>3, <2>4, <2>5, Zenon DEF AuthNext
<1> QED BY <1>1, <1>4, Zenon DEF vars, tables

\* Every action keeps tables, processes and handlers well formed.
LEMMA NextTyped == Typed /\ (AuthNext \/ UNCHANGED vars) => Typed'
<1> SUFFICES ASSUME Typed, AuthNext \/ UNCHANGED vars PROVE Typed'
  BY Zenon
<1> USE AuthAssumption
<1>n. nodes' \in [Ids -> NodeRow \cup {Nil}] /\ Registered \subseteq Registered'
  BY RegisteredStays, Zenon
<1>u. CASE UNCHANGED vars
  BY <1>u, <1>n, Zenon DEF Typed, AuthTypeOK, Holding, vars, tables, host
<1>1. CASE LoginStep
  <2> USE DEF Typed, AuthTypeOK, Holding, tables
  <2>1. ASSUME NEW l \in Logins, NEW u \in Users, bootstrap_identity(l, u) PROVE Typed'
    <3>1. keys' \in 0 .. MaxKeys
      BY <2>1 DEF bootstrap_identity, Keys
    <3>2. PICK k \in Keys : login' = [login EXCEPT ![l] = [pc |-> "check", key |-> k, user |-> u, id |-> Nil]]
      BY <2>1 DEF bootstrap_identity, Keys, Identity
    <3> QED BY <1>n, <2>1, <3>1, <3>2, Zenon DEF bootstrap_identity, LoginState
  <2>2. ASSUME NEW l \in Logins, claim_node(l) PROVE Typed'
    BY <1>n, <2>2 DEF claim_node, LoginState
  <2>3. ASSUME NEW l \in Logins, claim_node_by_public_key(l) PROVE Typed'
    <3>1. PICK i \in Registered' : login' = [login EXCEPT ![l] = [@ EXCEPT !.pc = "save", !.id = i]]
      <4>1. CASE InsertNode(l)
        <5> DEFINE i == CHOOSE j \in Ids \ Registered : TRUE
        <5>1. i \in Ids \ Registered
          BY <4>1, Zenon DEF InsertNode, Registered
        <5>2. nodes' = [nodes EXCEPT ![i] = [key |-> login[l].key, user |-> login[l].user, revoked |-> FALSE]]
          BY <4>1, Zenon DEF InsertNode
        <5>3. login' = [login EXCEPT ![l] = [@ EXCEPT !.pc = "save", !.id = i]]
          BY <4>1, Zenon DEF InsertNode
        <5>4. [key |-> login[l].key, user |-> login[l].user, revoked |-> FALSE] \in NodeRow
          BY <2>3, Zenon DEF claim_node_by_public_key, NodeRow
        <5> HIDE DEF i
        <5>5. i \in Registered'
          BY <5>1, <5>2, <5>4, Zenon DEF Registered
        <5> QED BY <5>3, <5>5, Zenon
      <4>2. ASSUME NEW i \in RowsWith(login[l].key), nodes' = nodes, login' = [login EXCEPT ![l] = [@ EXCEPT !.pc = "save", !.id = i]]
            PROVE  i \in Registered'
        BY <4>2, Zenon DEF RowsWith, Registered
      <4> QED BY <2>3, <4>1, <4>2, Zenon DEF claim_node_by_public_key, RowsWith
    <3>2. Registered' \subseteq Ids
      BY Zenon DEF Registered
    <3>3. login' \in [Logins -> LoginState]
      <4>1. login[l] \in LoginState /\ i \in Ids
        BY <3>1, <3>2, Zenon
      <4>2. [login[l] EXCEPT !.pc = "save", !.id = i] \in LoginState
        BY <4>1, Zenon DEF LoginState
      <4> QED BY <3>1, <4>2, Zenon
    <3>4. UNCHANGED <<auth_challenges, expired, state_json, keys, loop, late, verify, spent, faults>> /\ login[l].pc = "upsert"
      BY <2>3, Zenon DEF claim_node_by_public_key
    <3> QED BY <1>n, <3>1, <3>3, <3>4
  <2>4. ASSUME NEW l \in Logins, save_identity(l) PROVE Typed'
    <3>1. state_json' \in Identity /\ state_json'.id \in Registered
      BY <2>4, Zenon DEF save_identity, Identity, Registered
    <3>2. login' = [login EXCEPT ![l] = [NoLogin EXCEPT !.pc = "done"]]
      BY <2>4, Zenon DEF save_identity
    <3>3. login' \in [Logins -> LoginState]
      BY <3>2, Zenon DEF NoLogin, LoginState
    <3> QED BY <1>n, <2>4, <3>1, <3>2, <3>3 DEF save_identity, NoLogin
  <2>5. ASSUME NEW l \in Logins, LoginFails(l) PROVE Typed'
    BY <1>n, <2>5, Zenon DEF LoginFails, NoLogin, LoginState
  <2>6. CASE logout
    BY <1>n, <2>6, Zenon DEF logout
  <2> QED BY <1>1, <2>1, <2>2, <2>3, <2>4, <2>5, <2>6, Zenon DEF LoginStep
<1>2. CASE LoopStep
  <2> USE DEF Typed, AuthTypeOK, Holding, tables, host
  <2>1. CASE load_creds_for_server
    BY <1>n, <2>1, Zenon DEF load_creds_for_server, Loading, LoopState, Identity
  <2>2. CASE create_auth_challenge
    <3> DEFINE c == CHOOSE d \in Challenges \ Held : TRUE
    <3>1. c \in Challenges
      BY <2>2, Zenon DEF create_auth_challenge
    <3>2. /\ loop' = [loop EXCEPT !.ch = c, !.pc = IF Usable(loop.id) THEN "upsert" ELSE "sign"]
          /\ spent' = spent \ {c} /\ expired' = expired \ {c}
      BY <2>2, Zenon DEF create_auth_challenge
    <3> HIDE DEF c
    <3>3. /\ loop' \in LoopState /\ loop'.id = loop.id /\ loop'.key = loop.key
          /\ loop'.ch = c /\ loop.pc = "lookup"
      BY <2>2, <3>1, <3>2, ZenonT(20) DEF create_auth_challenge, LoopState
    <3>4. Registered' = Registered
      BY <2>2, Zenon DEF create_auth_challenge, Registered
    <3> QED BY <2>2, <3>1, <3>2, <3>3, <3>4, Zenon DEF create_auth_challenge
  <2>3. CASE StoreChallenge
    BY <1>n, <2>3, ZenonT(20) DEF StoreChallenge, upsert_auth_challenge, LoopState
  <2>4. ASSUME NEW r \in Requests, SendVerify(r) PROVE Typed'
    BY <1>n, <2>4 DEF SendVerify, LoopState, VerifyState, Usable
  <2>5. ASSUME NEW r \in Requests, Answered(r) PROVE Typed'
    <3>1. verify' \in [Requests -> VerifyState] /\ verify' = [verify EXCEPT ![r] = NoVerify]
      BY <2>5, Zenon DEF Answered, NoVerify, VerifyState
    <3>2. CASE verify[r].pc = "granted"
      <4>1. loop' = [loop EXCEPT !.pc = "dial", !.fresh = TRUE] /\ loop.pc = "verify"
        BY <2>5, <3>2, Zenon DEF Answered, Awaited
      <4>2. loop' \in LoopState
        BY <4>1, LoopMoves, Zenon
      <4>3. loop'.id = loop.id /\ loop'.ch = loop.ch /\ loop'.key = loop.key /\ loop'.pc = "dial"
        BY <4>1, Zenon DEF LoopState
      <4> QED BY <1>n, <2>5, <3>1, <4>1, <4>2, <4>3 DEF Answered, NoVerify
    <3>3. CASE verify[r].pc # "granted"
      BY <1>n, <2>5, <3>1, <3>3 DEF Answered, NoVerify, Loading, LoopState
    <3> QED BY <3>2, <3>3, Zenon
  <2>6. CASE Dial
    BY <1>n, <2>6, ZenonT(20) DEF Dial, LoopState, Usable
  <2>7. CASE authenticate_node_jwt \/ wait_for_auth
    <3>1. loop' = Loading \/ \E pc \in {"claim", "connected"} : loop' = [loop EXCEPT !.pc = pc]
      BY <2>7, Zenon DEF authenticate_node_jwt, wait_for_auth
    <3>2. loop.pc \in {"jwt", "claim"} /\ UNCHANGED <<tables, host, late, verify, spent, faults>>
      BY <2>7, Zenon DEF authenticate_node_jwt, wait_for_auth
    <3>3. loop' \in LoopState
      <4>1. Loading \in LoopState
        BY Zenon DEF Loading, LoopState
      <4> QED BY <3>1, <4>1, LoopMoves, Zenon
    <3>4. loop' = Loading \/ (loop'.id = loop.id /\ loop'.ch = loop.ch /\ loop'.key = loop.key)
      BY <3>1, Zenon DEF LoopState
    <3> QED BY <1>n, <3>2, <3>3, <3>4 DEF Loading
  <2> QED BY <1>2, <2>1, <2>2, <2>3, <2>4, <2>5, <2>6, <2>7, Zenon DEF LoopStep
<1>3. CASE AuthFault
  <2> USE DEF Typed, AuthTypeOK, Holding, tables, host, FaultStrikes
  <2>1. CASE LoopFails
    BY <1>n, <2>1 DEF LoopFails, Loading, LoopState
  <2>2. CASE ConnectionEnds
    BY <1>n, <2>2 DEF ConnectionEnds, Loading, LoopState
  <2>6. CASE TokenExpires
    <3>1. loop' = [loop EXCEPT !.fresh = FALSE]
      BY <2>6, Zenon DEF TokenExpires
    <3>2. loop' \in LoopState
      BY <3>1, LoopMoves, Zenon
    <3>3. loop'.id = loop.id /\ loop'.ch = loop.ch /\ loop'.key = loop.key /\ loop'.pc = loop.pc
      BY <3>1, Zenon DEF LoopState
    <3> QED BY <1>n, <2>6, <3>2, <3>3 DEF TokenExpires
  <2>3. ASSUME NEW r \in Requests, VerifyFails(r) PROVE Typed'
    BY <1>n, <2>3 DEF VerifyFails, VerifyGoes, VerifyState
  <2>4. ASSUME NEW r \in Requests, NEW q \in Requests, RepeatVerify(r, q) PROVE Typed'
    <3> DEFINE v == [verify[r] EXCEPT !.pc = "lookup", !.late = verify[r].ch \in spent, !.revoked = ~Usable(verify[r].id)]
    <3>1. v \in VerifyState /\ v.id = verify[r].id /\ v.ch = verify[r].ch
      <4>1. (verify[r].ch \in spent) \in BOOLEAN /\ (~Usable(verify[r].id)) \in BOOLEAN
        BY DEF Usable
      <4>2. v \in VerifyState
        BY <4>1, VerifyMoves, Zenon
      <4> QED BY <4>2, Zenon DEF VerifyState
    <3>2. verify' = [verify EXCEPT ![q] = v] /\ verify[r].pc # "free"
      BY <2>4, Zenon DEF RepeatVerify
    <3> HIDE DEF v
    <3>3. verify' \in [Requests -> VerifyState]
      BY <3>1, <3>2, Zenon
    <3> QED BY <1>n, <2>4, <3>1, <3>2, <3>3 DEF RepeatVerify
  <2>5. ASSUME NEW c \in Challenges, ChallengeExpires(c) PROVE Typed'
    BY <1>n, <2>5 DEF ChallengeExpires
  <2> QED BY <1>3, <2>1, <2>2, <2>3, <2>4, <2>5, <2>6, Zenon DEF AuthFault
<1>4. ASSUME NEW r \in Requests, HandlerStep(r) PROVE Typed'
  <2> USE DEF Typed, AuthTypeOK, Holding, tables, host, VerifyGoes
  <2>1. CASE VerifyLookup(r) \/ get_auth_challenge(r) \/ IssueJwt(r)
    <3>1. \E pc \in {"read", "consume", "granted", "denied"} : verify' = [verify EXCEPT ![r].pc = pc]
      BY <2>1, Zenon DEF VerifyLookup, get_auth_challenge, IssueJwt
    <3>2. verify[r].pc # "free" /\ UNCHANGED <<tables, host, loop, late, spent, faults>>
      BY <2>1, Zenon DEF VerifyLookup, get_auth_challenge, IssueJwt
    <3>3. verify' \in [Requests -> VerifyState]
      BY <3>1 DEF VerifyState
    <3> QED BY <1>n, <3>1, <3>2, <3>3
  <2>2. CASE Consume(r)
    <3>1. verify' = [verify EXCEPT ![r].pc = "finish"] /\ verify[r].pc # "free"
      BY <2>2, Zenon DEF Consume
    <3>2. verify' \in [Requests -> VerifyState]
      BY <3>1 DEF VerifyState
    <3>3. auth_challenges' \in [Ids -> Challenges \cup {Nil}] /\ spent' \subseteq Challenges
      BY <2>2, Zenon DEF Consume, consume_auth_challenge, Registered
    <3> QED BY <1>n, <2>2, <3>1, <3>2, <3>3 DEF Consume
  <2>3. CASE Abandoned(r)
    BY <1>n, <2>3, Zenon DEF Abandoned, NoVerify, VerifyState
  <2> QED BY <1>4, <2>1, <2>2, <2>3, Zenon DEF HandlerStep
<1>5. ASSUME NEW p \in late, LateStore(p) PROVE Typed'
  BY <1>n, <1>5, Zenon DEF Typed, AuthTypeOK, Holding, host, LateStore, upsert_auth_challenge,
     Registered
<1>6. ASSUME NEW i \in Registered, Revoke(i) PROVE Typed'
  BY <1>n, <1>6, Zenon DEF Typed, AuthTypeOK, Holding, host, Revoke
<1>7. ASSUME NEW i \in Ids, DeleteExpired(i) PROVE Typed'
  BY <1>n, <1>7, Zenon DEF Typed, AuthTypeOK, Holding, host, DeleteExpired
<1> QED BY <1>u, <1>1, <1>2, <1>3, <1>4, <1>5, <1>6, <1>7, Zenon DEF AuthNext

\* Tables, identity file, processes and handlers stay well formed: NodeAuth's
\* type invariant, for every instance.
THEOREM AuthTypeCorrect == AuthSpec => []AuthTypeOK
<1>1. AuthInit => Typed
  BY InitTyped, Zenon
<1>2. Typed /\ [AuthNext]_vars => Typed'
  BY NextTyped, Zenon
<1>3. Typed => AuthTypeOK
  BY Zenon DEF Typed
<1> QED BY <1>1, <1>2, <1>3, PTL DEF AuthSpec

-----------------------------------------------------------------------------
(* Ownership.                                                              *)

Active(l) == login[l].pc \notin {"idle", "done"}

\* Why LoginOwned is kept although claim_node checks and writes in two steps:
\* a key without a row is in the hands of one login only (it has just made
\* it), so nobody else can insert a row for it between the two.
OwnerInv ==
  /\ LoginOwned
  /\ \A i \in Registered : nodes[i].key <= keys
  /\ \A l \in Logins : Active(l) => login[l].key <= keys
  /\ \A l, m \in Logins : l # m /\ Active(l) /\ Active(m) /\ login[l].key = login[m].key
                            => RowsWith(login[l].key) # {}
  /\ \A l \in Logins : login[l].pc = "upsert" =>
       \A i \in RowsWith(login[l].key) : nodes[i].user = login[l].user
  /\ \A l \in Logins : login[l].pc = "save" =>
       nodes[login[l].id].key = login[l].key /\ nodes[login[l].id].user = login[l].user

\* At the start nobody owns anything.
LEMMA InitOwner == AuthInit => OwnerInv
BY AuthAssumption DEF AuthInit, OwnerInv, LoginOwned, Registered, Active, NoLogin

\* A step that leaves the host alone and keeps every row's key and owner, and
\* adds no row, keeps OwnerInv: the loop, the handlers, faults, revocation.
LEMMA OwnerKept ==
  ASSUME Typed, OwnerInv, UNCHANGED host, Registered' = Registered,
         \A i \in Registered : nodes'[i].key = nodes[i].key /\ nodes'[i].user = nodes[i].user
  PROVE  OwnerInv'
<1>1. \A k : RowsWith(k)' = RowsWith(k)
  BY Zenon DEF RowsWith
<1>2. state_json # Nil => state_json.id \in Registered
  BY Zenon DEF Typed, AuthTypeOK
<1>3. \A l \in Logins : login[l].pc = "save" => login[l].id \in Registered
  BY Zenon DEF Typed, AuthTypeOK
<1>4. \A k : RowsWith(k) \subseteq Registered
  BY Zenon DEF RowsWith
<1>5. UNCHANGED <<state_json, keys, login>>
  BY Zenon DEF host
<1> QED BY <1>1, <1>2, <1>3, <1>4, <1>5, Zenon DEF OwnerInv, LoginOwned, Active

\* The steps of the logins keep OwnerInv.
LEMMA LoginOwner == Typed /\ OwnerInv /\ LoginStep => OwnerInv'
<1> SUFFICES ASSUME Typed, OwnerInv, LoginStep PROVE OwnerInv'
  BY Zenon
<1> USE AuthAssumption
<1>t. /\ \A l \in Logins : login[l].pc = "save" => login[l].id \in Registered
      /\ state_json # Nil => state_json.id \in Registered
      /\ login \in [Logins -> LoginState] /\ keys \in Nat
      /\ \A l \in Logins : Active(l) => login[l].key \in Keys
      /\ nodes \in [Ids -> NodeRow \cup {Nil}]
  BY DEF Typed, AuthTypeOK, Holding, Active
<1>1. ASSUME NEW l \in Logins, NEW u \in Users, bootstrap_identity(l, u) PROVE OwnerInv'
  <2>1. UNCHANGED nodes /\ \A k : RowsWith(k)' = RowsWith(k)
    BY <1>1, Zenon DEF bootstrap_identity, tables, RowsWith, Registered
  <2>2. CASE state_json # Nil /\ keys' = keys /\ login' = [login EXCEPT ![l] = [pc |-> "check", key |-> state_json.key, user |-> u, id |-> Nil]]
    <3>1. state_json.id \in RowsWith(state_json.key) /\ state_json.key <= keys
      BY <1>t, <2>2, Zenon DEF OwnerInv, LoginOwned, RowsWith
    <3>2. \A m \in Logins : m # l => login'[m] = login[m]
      BY <1>t, <2>2, Zenon
    <3>3. login'[l].key = state_json.key /\ login'[l].pc = "check"
      BY <1>t, <2>2, Zenon
    <3> QED BY <1>1, <2>1, <2>2, <3>1, <3>2, <3>3 DEF OwnerInv, LoginOwned, Active,
               bootstrap_identity, Registered
  <2>3. CASE state_json = Nil /\ keys' = keys + 1 /\ login' = [login EXCEPT ![l] = [pc |-> "check", key |-> keys + 1, user |-> u, id |-> Nil]]
    <3>2. \A m \in Logins : m # l => login'[m] = login[m]
      BY <1>t, <2>3, Zenon
    <3>3. login'[l].key = keys + 1 /\ login'[l].pc = "check"
      BY <1>t, <2>3, Zenon
    <3>4. \A m \in Logins : Active(m) => login[m].key \in Nat /\ login[m].key <= keys
      BY <1>t DEF OwnerInv, Keys
    <3>5. \A i \in Registered : nodes[i].key \in Nat /\ nodes[i].key <= keys
      BY <1>t DEF OwnerInv, Keys, NodeRow, Registered
    <3>6. \A i \in Registered' : nodes'[i].key <= keys'
      BY <1>t, <2>1, <2>3, <3>5 DEF Registered
    <3>7. \A m \in Logins : Active(m)' => login'[m].key <= keys'
      BY <1>t, <2>3, <3>2, <3>3, <3>4 DEF Active
    <3>8. \A m \in Logins : m # l /\ Active(m)' => login'[m].key # login'[l].key
      BY <1>t, <3>2, <3>3, <3>4 DEF Active
    <3>9. \A m, n \in Logins : m # n /\ Active(m)' /\ Active(n)' /\ login'[m].key = login'[n].key => RowsWith(login[m].key)' # {}
      BY <2>1, <3>2, <3>8, Zenon DEF OwnerInv, Active
    <3> QED BY <1>1, <2>1, <2>3, <3>2, <3>3, <3>6, <3>7, <3>9 DEF OwnerInv, LoginOwned,
               bootstrap_identity
  <2> QED BY <1>1, <2>2, <2>3, Zenon DEF bootstrap_identity
<1>2. ASSUME NEW l \in Logins, claim_node(l) PROVE OwnerInv'
  <2>1. UNCHANGED <<nodes, state_json, keys>> /\ Registered' = Registered /\ \A k : RowsWith(k)' = RowsWith(k)
    BY <1>2, Zenon DEF claim_node, tables, RowsWith, Registered
  <2>2. /\ \A m \in Logins : m # l => login'[m] = login[m]
        /\ login'[l].key = login[l].key /\ login'[l].user = login[l].user /\ login'[l].pc = "upsert"
    BY <1>2, <1>t, Zenon DEF claim_node, LoginState
  <2>3. Active(l) /\ \A i \in RowsWith(login[l].key) : nodes[i].user = login[l].user
    BY <1>2, Zenon DEF claim_node, Active
  <2> QED BY <2>1, <2>2, <2>3 DEF OwnerInv, LoginOwned, Active
<1>3. ASSUME NEW l \in Logins, claim_node_by_public_key(l) PROVE OwnerInv'
  <2> USE DEF OwnerInv
  <2>0. UNCHANGED <<state_json, keys>> /\ login[l].pc = "upsert" /\ Active(l)
    BY <1>3, Zenon DEF claim_node_by_public_key, Active
  <2>1. CASE InsertNode(l)
    <3> DEFINE n == CHOOSE j \in Ids \ Registered : TRUE
    <3> DEFINE row == [key |-> login[l].key, user |-> login[l].user, revoked |-> FALSE]
    <3>1. n \in Ids /\ n \notin Registered
      BY <2>1, Zenon DEF InsertNode, Registered
    <3>2. nodes' = [nodes EXCEPT ![n] = row] /\ login' = [login EXCEPT ![l] = [@ EXCEPT !.pc = "save", !.id = n]] /\ RowsWith(login[l].key) = {}
      BY <2>1, Zenon DEF InsertNode
    <3>3. row \in NodeRow /\ row.key = login[l].key /\ row.user = login[l].user
      BY <2>0, <1>t, Zenon DEF NodeRow, Typed, Holding
    <3> HIDE DEF n, row
    <3>4. /\ \A m \in Logins : m # l => login'[m] = login[m]
          /\ login'[l].key = login[l].key /\ login'[l].user = login[l].user /\ login'[l].pc = "save" /\ login'[l].id = n
      BY <1>t, <3>2 DEF LoginState
    <3>5. /\ Registered' = Registered \cup {n}
          /\ \A i \in Registered : nodes'[i] = nodes[i]
          /\ nodes'[n] = row
      BY <1>t, <3>1, <3>2, <3>3, Zenon DEF Registered
    <3>6. \A k : RowsWith(k)' = RowsWith(k) \cup (IF k = login[l].key THEN {n} ELSE {})
      BY <3>1, <3>3, <3>5, Zenon DEF RowsWith
    <3>7. \A m \in Logins : m # l /\ Active(m) => login[m].key # login[l].key
      BY <2>0, <3>2, Zenon
    <3>8. LoginOwned'
      BY <1>t, <2>0, <3>5, Zenon DEF LoginOwned
    <3>9. \A i \in Registered' : nodes'[i].key <= keys'
      BY <2>0, <3>3, <3>5, Zenon
    <3>10. \A m \in Logins : Active(m)' => login'[m].key <= keys'
      BY <2>0, <3>4, Zenon DEF Active
    <3>11. \A m, q \in Logins : m # q /\ Active(m)' /\ Active(q)' /\ login'[m].key = login'[q].key => RowsWith(login[m].key)' # {}
      BY <2>0, <3>4, <3>6, <3>7 DEF Active
    <3>12. \A m \in Logins : login'[m].pc = "upsert" => \A i \in RowsWith(login[m].key)' : nodes'[i].user = login'[m].user
      <4> SUFFICES ASSUME NEW m \in Logins, login'[m].pc = "upsert", NEW i \in RowsWith(login[m].key)'
                   PROVE  nodes'[i].user = login'[m].user
        BY Zenon
      <4>1. m # l /\ login'[m] = login[m] /\ login[m].key # login[l].key
        BY <3>4, <3>7, Zenon DEF Active
      <4>2. i \in RowsWith(login[m].key) /\ i \in Registered
        BY <3>6, <4>1 DEF RowsWith
      <4> QED BY <3>5, <4>1, <4>2
    <3>13. \A m \in Logins : login'[m].pc = "save" => nodes'[login'[m].id].key = login'[m].key /\ nodes'[login'[m].id].user = login'[m].user
      BY <1>t, <3>3, <3>4, <3>5
    <3> QED BY <3>8, <3>9, <3>10, <3>11, <3>12, <3>13, Zenon
  <2>2. ASSUME NEW i \in RowsWith(login[l].key), nodes' = nodes, login' = [login EXCEPT ![l] = [@ EXCEPT !.pc = "save", !.id = i]]
        PROVE  OwnerInv'
    <3>1. Registered' = Registered /\ \A k : RowsWith(k)' = RowsWith(k)
      BY <2>2, Zenon DEF RowsWith, Registered
    <3>2. /\ \A m \in Logins : m # l => login'[m] = login[m]
          /\ login'[l].key = login[l].key /\ login'[l].user = login[l].user /\ login'[l].pc = "save" /\ login'[l].id = i
      BY <1>t, <2>2 DEF LoginState
    <3>3. nodes[i].key = login[l].key /\ nodes[i].user = login[l].user
      BY <2>0, Zenon DEF RowsWith
    <3> QED BY <2>0, <2>2, <3>1, <3>2, <3>3 DEF LoginOwned, Active
  <2> QED BY <1>3, <2>1, <2>2, Zenon DEF claim_node_by_public_key
<1>4. ASSUME NEW l \in Logins, save_identity(l) PROVE OwnerInv'
  <2>1. UNCHANGED <<nodes, keys>> /\ Registered' = Registered /\ \A k : RowsWith(k)' = RowsWith(k)
    BY <1>4, Zenon DEF save_identity, tables, RowsWith, Registered
  <2>2. (\A m \in Logins : m # l => login'[m] = login[m]) /\ login'[l].pc = "done"
    BY <1>4, <1>t, Zenon DEF save_identity, NoLogin
  <2>3. LoginOwned'
    BY <1>4, <2>1, Zenon DEF save_identity, LoginOwned, OwnerInv
  <2> QED BY <2>1, <2>2, <2>3 DEF OwnerInv, Active
<1>5. ASSUME NEW l \in Logins, LoginFails(l) PROVE OwnerInv'
  <2>1. UNCHANGED <<nodes, keys, state_json>> /\ Registered' = Registered /\ \A k : RowsWith(k)' = RowsWith(k)
    BY <1>5, Zenon DEF LoginFails, tables, RowsWith, Registered
  <2>2. (\A m \in Logins : m # l => login'[m] = login[m]) /\ login'[l].pc = "done"
    BY <1>5, <1>t, Zenon DEF LoginFails, NoLogin
  <2> QED BY <2>1, <2>2 DEF OwnerInv, LoginOwned, Active
<1>6. CASE logout
  <2>1. UNCHANGED <<nodes, keys, login>> /\ state_json' = Nil /\ Registered' = Registered /\ \A k : RowsWith(k)' = RowsWith(k)
    BY <1>6, Zenon DEF logout, tables, RowsWith, Registered
  <2> QED BY <2>1, Zenon DEF OwnerInv, LoginOwned, Active
<1> QED BY <1>1, <1>2, <1>3, <1>4, <1>5, <1>6, Zenon DEF LoginStep

\* Every step keeps OwnerInv.
LEMMA NextOwner == Typed /\ OwnerInv /\ (AuthNext \/ UNCHANGED vars) => OwnerInv'
<1> SUFFICES ASSUME Typed, OwnerInv, AuthNext \/ UNCHANGED vars PROVE OwnerInv'
  BY Zenon
<1>1. CASE UNCHANGED <<nodes, host>>
  BY <1>1, OwnerKept, Zenon DEF Registered
<1>2. CASE LoginStep
  BY <1>2, LoginOwner, Zenon
<1>3. ASSUME NEW i \in Registered, Revoke(i) PROVE OwnerInv'
  <2>1. UNCHANGED host /\ nodes' = [nodes EXCEPT ![i].revoked = TRUE]
    BY <1>3, Zenon DEF Revoke
  <2>2. nodes[i] \in NodeRow /\ [nodes[i] EXCEPT !.revoked = TRUE] \in NodeRow
    <3>1. nodes[i] \in NodeRow
      BY Zenon DEF Typed, AuthTypeOK, Registered
    <3> QED BY <3>1, Zenon DEF NodeRow
  <2>3. Registered' = Registered
    BY AuthAssumption, <2>1, <2>2, Zenon DEF Typed, AuthTypeOK, Registered
  <2>4. \A j \in Registered : nodes'[j].key = nodes[j].key /\ nodes'[j].user = nodes[j].user
    BY <2>1, <2>2, Zenon DEF Typed, AuthTypeOK, Registered, NodeRow
  <2> QED BY <2>1, <2>3, <2>4, OwnerKept, Zenon
<1>4. CASE LoopStep
  BY <1>4, <1>1, Zenon DEF LoopStep, load_creds_for_server, create_auth_challenge,
     StoreChallenge, SendVerify, Answered,
     Dial, authenticate_node_jwt, wait_for_auth, tables
<1>5. CASE AuthFault
  BY <1>5, <1>1, Zenon DEF AuthFault, LoopFails, ConnectionEnds, TokenExpires, VerifyFails,
     RepeatVerify, ChallengeExpires, tables
<1>6. CASE \E r \in Requests : HandlerStep(r)
  BY <1>6, <1>1, Zenon DEF HandlerStep, VerifyLookup, get_auth_challenge, Consume, IssueJwt,
     Abandoned, tables
<1>7. CASE (\E p \in late : LateStore(p)) \/ (\E i \in Ids : DeleteExpired(i))
  BY <1>7, <1>1, Zenon DEF LateStore, DeleteExpired
<1>8. CASE UNCHANGED vars
  BY <1>8, <1>1, Zenon DEF vars, tables, host
<1> QED BY <1>2, <1>3, <1>4, <1>5, <1>6, <1>7, <1>8, Zenon DEF AuthNext

\* claim_node never lets a login save somebody else's node: LoginOwned holds
\* for any number of users and of logins that overlap, fail and are repeated.
THEOREM LoginsOwn == AuthSpec => []LoginOwned
<1>1. AuthInit => Typed /\ OwnerInv
  BY InitTyped, InitOwner, Zenon
<1>2. Typed /\ OwnerInv /\ [AuthNext]_vars => (Typed /\ OwnerInv)'
  BY NextTyped, NextOwner, Zenon
<1>3. OwnerInv => LoginOwned
  BY Zenon DEF OwnerInv
<1> QED BY <1>1, <1>2, <1>3, PTL DEF AuthSpec

-----------------------------------------------------------------------------
(* One-time challenges.                                                    *)

Stored(c) == \E i \in Ids : auth_challenges[i] = c
Late(c) == \E p \in late : p[2] = c
Storing(c) == loop.pc = "upsert" /\ loop.ch = c

\* Why a deleted challenge does not come back: the agent gets to see a
\* challenge only after it was stored, so no upsert of it, in time or late,
\* can follow the verification that deletes it; and it is stored for one node.
ChallengeInv ==
  /\ \A c \in spent : ~Stored(c) /\ ~Late(c) /\ ~Storing(c)
  /\ \A r \in Requests : verify[r].pc # "free" =>
       /\ ~Late(verify[r].ch) /\ ~Storing(verify[r].ch)
       /\ \A i \in Ids : auth_challenges[i] = verify[r].ch => i = verify[r].id
  /\ loop.pc = "upsert" => ~Stored(loop.ch) /\ ~Late(loop.ch)
  /\ loop.pc = "sign" =>
       /\ ~Late(loop.ch)
       /\ \A i \in Ids : auth_challenges[i] = loop.ch => i = loop.id
  /\ \A r \in Requests : verify[r].late => verify[r].ch \in spent
  /\ \A r \in Requests : verify[r].pc \in {"consume", "finish", "granted"} => ~verify[r].late

\* No challenge is out at the start.
LEMMA InitChallenge == AuthInit => ChallengeInv
<1> SUFFICES ASSUME AuthInit PROVE ChallengeInv
  BY Zenon
<1>1. loop.pc = "load" /\ spent = {} /\ \A r \in Requests : verify[r].pc = "free"
  BY Zenon DEF AuthInit, Loading, NoVerify
<1>2. \A r \in Requests : ~verify[r].late
  BY Zenon DEF AuthInit, NoVerify
<1> QED BY <1>1, <1>2, Zenon DEF ChallengeInv

\* The agent's loop keeps ChallengeInv.
LEMMA LoopChallenge == Typed /\ ChallengeInv /\ LoopStep => ChallengeInv'
<1> SUFFICES ASSUME Typed, ChallengeInv, LoopStep PROVE ChallengeInv'
  BY Zenon
<1> USE AuthAssumption DEF Stored, Late, Storing, tables
<1>t. /\ loop \in LoopState /\ verify \in [Requests -> VerifyState]
      /\ auth_challenges \in [Ids -> Challenges \cup {Nil}]
      /\ loop.pc # "load" => loop.id \in Ids
      /\ \A r \in Requests : verify[r].pc # "free" => verify[r].ch \in Challenges
      /\ loop.pc \notin {"load", "lookup"} => loop.ch \in Challenges
  BY Zenon DEF Typed, AuthTypeOK, Holding, Registered
<1>1. CASE load_creds_for_server
  <2>1. UNCHANGED <<auth_challenges, late, verify, spent>> /\ loop'.pc = "lookup"
    BY <1>1, Zenon DEF load_creds_for_server, Loading
  <2> QED BY <2>1, Zenon DEF ChallengeInv
<1>2. CASE create_auth_challenge
  <2> DEFINE c == CHOOSE d \in Challenges \ Held : TRUE
  <2>1. c \in Challenges /\ c \notin Held
    BY <1>2, Zenon DEF create_auth_challenge
  <2>2. /\ UNCHANGED <<auth_challenges, late, verify>>
        /\ spent' = spent \ {c}
        /\ loop' = [loop EXCEPT !.ch = c, !.pc = IF Usable(loop.id) THEN "upsert" ELSE "sign"]
    BY <1>2, Zenon DEF create_auth_challenge
  <2> HIDE DEF c
  <2>3. loop'.ch = c
    BY <1>t, <2>2, Zenon DEF LoopState
  <2>4. ~Stored(c) /\ ~Late(c) /\ \A r \in Requests : verify[r].ch # c
    BY <2>1, Zenon DEF Held
  <2> QED BY <2>2, <2>3, <2>4, Zenon DEF ChallengeInv
<1>3. CASE StoreChallenge
  <2>1. /\ loop.pc = "upsert" /\ UNCHANGED <<late, verify, spent>>
        /\ auth_challenges' = [auth_challenges EXCEPT ![loop.id] = loop.ch]
        /\ loop'.pc = "sign" /\ loop'.id = loop.id /\ loop'.ch = loop.ch
    BY <1>3, <1>t, Zenon DEF StoreChallenge, upsert_auth_challenge, LoopState
  <2>2. \A i \in Ids : auth_challenges'[i] = IF i = loop.id THEN loop.ch ELSE auth_challenges[i]
    BY <1>t, <2>1, Zenon
  <2> QED BY <2>1, <2>2 DEF ChallengeInv
<1>4. ASSUME NEW r \in Requests, SendVerify(r) PROVE ChallengeInv'
  <2>1. /\ loop.pc = "sign" /\ UNCHANGED <<auth_challenges, late, spent>> /\ loop'.pc = "verify"
        /\ \A q \in Requests : q # r => verify'[q] = verify[q]
        /\ verify'[r].pc = "lookup" /\ verify'[r].id = loop.id /\ verify'[r].ch = loop.ch
    BY <1>4, <1>t, Zenon DEF SendVerify, LoopState
  <2>2. verify'[r].late => loop.ch \in spent
    BY <1>4, <1>t, Zenon DEF SendVerify
  <2> QED BY <2>1, <2>2 DEF ChallengeInv
<1>5. ASSUME NEW r \in Requests, Answered(r) PROVE ChallengeInv'
  <2>1. /\ UNCHANGED <<auth_challenges, late, spent>> /\ loop'.pc \in {"dial", "load"}
        /\ \A q \in Requests : q # r => verify'[q] = verify[q]
        /\ verify'[r].pc = "free" /\ verify'[r].late = FALSE
    BY <1>5, <1>t, Zenon DEF Answered, Loading, NoVerify, LoopState
  <2> QED BY <2>1 DEF ChallengeInv
<1>6. CASE Dial \/ authenticate_node_jwt \/ wait_for_auth
  <2>1. UNCHANGED <<auth_challenges, late, verify, spent>>
    BY <1>6, Zenon DEF Dial, authenticate_node_jwt, wait_for_auth
  <2>2. loop'.pc \notin {"upsert", "sign"}
    <3>1. CASE Dial
      BY <3>1, <1>t, Zenon DEF Dial, LoopState
    <3>2. CASE authenticate_node_jwt
      BY <3>2, <1>t, Zenon DEF authenticate_node_jwt, Loading, LoopState
    <3>3. CASE wait_for_auth
      BY <3>3, <1>t, Zenon DEF wait_for_auth, Loading, LoopState
    <3> QED BY <1>6, <3>1, <3>2, <3>3, Zenon
  <2> QED BY <2>1, <2>2, Zenon DEF ChallengeInv
<1> QED BY <1>1, <1>2, <1>3, <1>4, <1>5, <1>6, Zenon DEF LoopStep

\* Faults keep ChallengeInv: a lost request, also one whose upsert comes late,
\* a repeated one, and expiry.
LEMMA FaultChallenge == Typed /\ ChallengeInv /\ AuthFault => ChallengeInv'
<1> SUFFICES ASSUME Typed, ChallengeInv, AuthFault PROVE ChallengeInv'
  BY Zenon
<1> USE DEF Stored, Late, Storing, tables
<1>t. loop \in LoopState /\ verify \in [Requests -> VerifyState]
  BY Zenon DEF Typed, AuthTypeOK
<1>1. CASE LoopFails
  <2>1. UNCHANGED <<auth_challenges, verify, spent>> /\ loop'.pc = "load"
    BY <1>1, Zenon DEF LoopFails, Loading
  <2>2. late' = late \/ (loop.pc = "upsert" /\ late' = late \cup {<<loop.id, loop.ch>>})
    BY <1>1, Zenon DEF LoopFails
  <2> QED BY <2>1, <2>2 DEF ChallengeInv
<1>2. CASE ConnectionEnds \/ TokenExpires
  <2>1. UNCHANGED <<auth_challenges, late, verify, spent>> /\ loop'.pc \notin {"upsert", "sign"}
    BY <1>2, <1>t DEF ConnectionEnds, TokenExpires, Loading, LoopState
  <2> QED BY <2>1, Zenon DEF ChallengeInv
<1>3. ASSUME NEW r \in Requests, VerifyFails(r) PROVE ChallengeInv'
  <2>1. /\ UNCHANGED <<auth_challenges, late, loop, spent>> /\ verify[r].pc # "free"
        /\ \A q \in Requests : q # r => verify'[q] = verify[q]
        /\ verify'[r].pc = "denied" /\ verify'[r].ch = verify[r].ch
        /\ verify'[r].id = verify[r].id /\ verify'[r].late = verify[r].late
    BY <1>3, <1>t, Zenon DEF VerifyFails, VerifyGoes, VerifyState
  <2> QED BY <2>1 DEF ChallengeInv
<1>4. ASSUME NEW r \in Requests, NEW q \in Requests, RepeatVerify(r, q) PROVE ChallengeInv'
  <2>1. /\ UNCHANGED <<auth_challenges, late, loop, spent>> /\ verify[r].pc # "free"
        /\ \A x \in Requests : x # q => verify'[x] = verify[x]
        /\ verify'[q].pc = "lookup" /\ verify'[q].ch = verify[r].ch
        /\ verify'[q].id = verify[r].id
    BY <1>4, <1>t DEF RepeatVerify, VerifyState
  <2>2. verify'[q].late => verify[r].ch \in spent
    <3>1. verify'[q] = [verify[r] EXCEPT !.pc = "lookup", !.late = verify[r].ch \in spent, !.revoked = ~Usable(verify[r].id)]
      BY <1>4, <1>t, Zenon DEF RepeatVerify
    <3>2. (verify[r].ch \in spent) \in BOOLEAN /\ (~Usable(verify[r].id)) \in BOOLEAN /\ verify[r] \in VerifyState
      BY <1>t DEF Usable
    <3>3. verify'[q].late = (verify[r].ch \in spent)
      BY <3>1, <3>2, RepeatedFlags
    <3> QED BY <3>3, Zenon
  <2> QED BY <2>1, <2>2 DEF ChallengeInv
<1>5. ASSUME NEW c \in Challenges, ChallengeExpires(c) PROVE ChallengeInv'
  BY <1>5, Zenon DEF ChallengeExpires, ChallengeInv
<1> QED BY <1>1, <1>2, <1>3, <1>4, <1>5, Zenon DEF AuthFault

\* The handlers of verify_auth_challenge keep ChallengeInv.
LEMMA HandlerChallenge ==
  ASSUME Typed, ChallengeInv, NEW r \in Requests, HandlerStep(r)
  PROVE  ChallengeInv'
<1> USE DEF Stored, Late, Storing, tables
<1>t. /\ verify \in [Requests -> VerifyState]
      /\ auth_challenges \in [Ids -> Challenges \cup {Nil}]
      /\ verify[r].pc # "free" => verify[r].id \in Ids /\ verify[r].ch \in Challenges
  BY Zenon DEF Typed, AuthTypeOK, Holding, Registered
<1>1. ASSUME NEW pc, VerifyGoes(r, pc)
      PROVE  /\ \A q \in Requests : q # r => verify'[q] = verify[q]
             /\ verify'[r].pc = pc /\ verify'[r].ch = verify[r].ch
             /\ verify'[r].id = verify[r].id /\ verify'[r].late = verify[r].late
  BY <1>1, <1>t, Zenon DEF VerifyGoes, VerifyState
<1>2. CASE VerifyLookup(r)
  <2>1. PICK pc \in {"read", "denied"} : VerifyGoes(r, pc)
    BY <1>2, Zenon DEF VerifyLookup
  <2>2. UNCHANGED <<auth_challenges, loop, late, spent>> /\ verify[r].pc = "lookup"
    BY <1>2, Zenon DEF VerifyLookup
  <2> QED BY <1>1, <2>1, <2>2 DEF ChallengeInv
<1>3. CASE get_auth_challenge(r)
  <2>1. PICK pc \in {"consume", "denied"} : VerifyGoes(r, pc) /\ (pc = "consume" => auth_challenges[verify[r].id] = verify[r].ch)
    BY <1>3, Zenon DEF get_auth_challenge
  <2>2. UNCHANGED <<auth_challenges, loop, late, spent>> /\ verify[r].pc = "read"
    BY <1>3, Zenon DEF get_auth_challenge
  <2>3. pc = "consume" => ~verify[r].late
    BY <1>t, <2>1, <2>2, Zenon DEF ChallengeInv
  <2> QED BY <1>1, <2>1, <2>2, <2>3 DEF ChallengeInv
<1>4. CASE Consume(r)
  <2>1. /\ UNCHANGED <<loop, late>> /\ verify[r].pc = "consume"
        /\ spent' = spent \cup {verify[r].ch}
        /\ VerifyGoes(r, "finish")
    BY <1>4, Zenon DEF Consume
  <2>2. \A i \in Ids : auth_challenges'[i] \in {auth_challenges[i], Nil} /\ auth_challenges'[i] # verify[r].ch
    BY <1>4, <1>t, <2>1, AuthAssumption, Zenon DEF Consume, consume_auth_challenge, ChallengeInv
  <2>3. \A q \in Requests : q # r => verify'[q] = verify[q]
    BY <1>1, <2>1, Zenon
  <2>4. verify'[r].pc = "finish" /\ verify'[r].ch = verify[r].ch /\ verify'[r].id = verify[r].id /\ verify'[r].late = verify[r].late
    BY <1>1, <2>1, Zenon
  <2>5. \A c \in spent' : ~Stored(c)' /\ ~Late(c)' /\ ~Storing(c)'
    <3>1. Nil \notin spent'
      BY AuthAssumption, <1>t, <2>1, Zenon DEF Typed, AuthTypeOK
    <3> QED BY <2>1, <2>2, <3>1 DEF ChallengeInv
  <2>6. \A q \in Requests : verify'[q].pc # "free" =>
          /\ ~Late(verify[q].ch)' /\ ~Storing(verify[q].ch)'
          /\ \A i \in Ids : auth_challenges'[i] = verify'[q].ch => i = verify'[q].id
    <3>1. \A q \in Requests : verify[q].pc # "free" => verify[q].ch # Nil
      BY AuthAssumption, Zenon DEF Typed, Holding
    <3> QED BY <2>1, <2>2, <2>3, <2>4, <3>1 DEF ChallengeInv
  <2>7. (loop.pc = "upsert" => ~Stored(loop.ch) /\ ~Late(loop.ch))'
    <3>1. loop.pc = "upsert" => loop.ch # Nil
      BY AuthAssumption, Zenon DEF Typed, Holding
    <3> QED BY <2>1, <2>2, <3>1, Zenon DEF ChallengeInv
  <2>8. (loop.pc = "sign" => ~Late(loop.ch) /\ \A i \in Ids : auth_challenges[i] = loop.ch => i = loop.id)'
    <3>1. loop.pc = "sign" => loop.ch # Nil
      BY AuthAssumption, Zenon DEF Typed, Holding
    <3> QED BY <2>1, <2>2, <3>1, Zenon DEF ChallengeInv
  <2>9. \A q \in Requests : verify'[q].late => verify'[q].ch \in spent'
    BY <2>1, <2>3, <2>4, Zenon DEF ChallengeInv
  <2>10. \A q \in Requests : verify'[q].pc \in {"consume", "finish", "granted"} => ~verify'[q].late
    BY <2>1, <2>3, <2>4, Zenon DEF ChallengeInv
  <2> QED BY <2>5, <2>6, <2>7, <2>8, <2>9, <2>10, Zenon DEF ChallengeInv
<1>5. CASE IssueJwt(r)
  <2>1. PICK pc \in {"granted", "denied"} : VerifyGoes(r, pc)
    BY <1>5, Zenon DEF IssueJwt
  <2>2. UNCHANGED <<auth_challenges, loop, late, spent>> /\ verify[r].pc = "finish"
    BY <1>5, Zenon DEF IssueJwt
  <2> QED BY <1>1, <2>1, <2>2 DEF ChallengeInv
<1>6. CASE Abandoned(r)
  <2>1. /\ UNCHANGED <<auth_challenges, loop, late, spent>>
        /\ \A q \in Requests : q # r => verify'[q] = verify[q]
        /\ verify'[r].pc = "free" /\ verify'[r].late = FALSE
    BY <1>6, <1>t, Zenon DEF Abandoned, NoVerify
  <2> QED BY <2>1 DEF ChallengeInv
<1> QED BY <1>2, <1>3, <1>4, <1>5, <1>6, Zenon DEF HandlerStep

\* Every step keeps ChallengeInv.
LEMMA NextChallenge == Typed /\ ChallengeInv /\ (AuthNext \/ UNCHANGED vars) => ChallengeInv'
<1> SUFFICES ASSUME Typed, ChallengeInv, AuthNext \/ UNCHANGED vars PROVE ChallengeInv'
  BY Zenon
<1>1. CASE UNCHANGED <<auth_challenges, loop, late, verify, spent>>
  BY <1>1, Zenon DEF ChallengeInv, Stored, Late, Storing
<1>2. CASE LoginStep
  BY <1>1, <1>2, Zenon DEF LoginStep, bootstrap_identity, claim_node, claim_node_by_public_key,
     save_identity, LoginFails, logout, tables
<1>3. ASSUME NEW i \in Registered, Revoke(i) PROVE ChallengeInv'
  BY <1>1, <1>3, Zenon DEF Revoke
<1>4. ASSUME NEW p \in late, LateStore(p) PROVE ChallengeInv'
  <2>1. /\ late' \subseteq late /\ UNCHANGED <<loop, verify, spent>> /\ p[1] \in Ids
        /\ auth_challenges' = [auth_challenges EXCEPT ![p[1]] = p[2]]
    BY <1>4, Zenon DEF LateStore, upsert_auth_challenge, Typed, AuthTypeOK, Registered
  <2>2. \A i \in Ids : auth_challenges'[i] \in {auth_challenges[i], p[2]}
    BY <2>1, Zenon DEF Typed, AuthTypeOK
  <2>3. Late(p[2])
    BY Zenon DEF Late
  <2> QED BY <2>1, <2>2, <2>3 DEF ChallengeInv, Stored, Late, Storing
<1>5. ASSUME NEW j \in Ids, DeleteExpired(j) PROVE ChallengeInv'
  <2>1. /\ UNCHANGED <<loop, late, verify, spent>>
        /\ auth_challenges' = [auth_challenges EXCEPT ![j] = Nil]
    BY <1>5, Zenon DEF DeleteExpired
  <2>2. \A i \in Ids : auth_challenges'[i] \in {auth_challenges[i], Nil}
    BY <2>1, Zenon DEF Typed, AuthTypeOK
  <2>3. /\ Nil \notin spent
        /\ \A r \in Requests : verify[r].pc # "free" => verify[r].ch # Nil
        /\ loop.pc \in {"upsert", "sign"} => loop.ch # Nil
    BY AuthAssumption, Zenon DEF Typed, AuthTypeOK, Holding
  <2> QED BY <2>1, <2>2, <2>3 DEF ChallengeInv, Stored, Late, Storing
<1>6. CASE UNCHANGED vars
  BY <1>1, <1>6, Zenon DEF vars, tables
<1> QED BY <1>2, <1>3, <1>4, <1>5, <1>6, LoopChallenge, FaultChallenge, HandlerChallenge, Zenon
           DEF AuthNext

\* A verification that arrives after the challenge was deleted is never
\* granted, however requests are lost, repeated, abandoned or overtaken.
THEOREM ChallengeOneTime == AuthSpec => []OneTime
<1>1. AuthInit => Typed /\ ChallengeInv
  BY InitTyped, InitChallenge, Zenon
<1>2. Typed /\ ChallengeInv /\ [AuthNext]_vars => (Typed /\ ChallengeInv)'
  BY NextTyped, NextChallenge, Zenon
<1>3. ChallengeInv => OneTime
  BY Zenon DEF ChallengeInv, OneTime
<1> QED BY <1>1, <1>2, <1>3, PTL DEF AuthSpec

-----------------------------------------------------------------------------
(* Revocation.                                                             *)

\* A request or socket that began after the revocation finds the row revoked
\* whenever it looks, since nothing takes the mark back, and each looks once
\* between its beginning and its success.
RevokedInv ==
  /\ \A r \in Requests : verify[r].pc # "free" /\ verify[r].revoked => ~Usable(verify[r].id)
  /\ \A r \in Requests : verify[r].pc \in {"read", "consume", "finish", "granted"} => ~verify[r].revoked
  /\ loop.pc # "load" /\ loop.revoked => ~Usable(loop.id)
  /\ loop.pc \in {"claim", "connected"} => ~loop.revoked

\* Nothing has begun at the start.
LEMMA InitRevoked == AuthInit => RevokedInv
<1> SUFFICES ASSUME AuthInit PROVE RevokedInv
  BY Zenon
<1>1. loop.pc = "load" /\ \A r \in Requests : verify[r].pc = "free"
  BY Zenon DEF AuthInit, Loading, NoVerify
<1> QED BY <1>1, Zenon DEF RevokedInv

\* A revoked row stays revoked: claims update only name and metadata.
LEMMA RevocationStays ==
  ASSUME Typed, AuthNext \/ UNCHANGED vars, NEW i \in Registered
  PROVE  ~Usable(i) => ~Usable(i)'
<1> USE DEF Usable
<1>1. CASE UNCHANGED nodes
  BY <1>1, Zenon
<1>2. ASSUME NEW l \in Logins, claim_node_by_public_key(l) PROVE ~Usable(i) => ~Usable(i)'
  <2>1. CASE InsertNode(l)
    <3> DEFINE n == CHOOSE j \in Ids \ Registered : TRUE
    <3>1. n \notin Registered
      BY <2>1, Zenon DEF InsertNode, Registered
    <3>2. nodes' = [nodes EXCEPT ![n] = [key |-> login[l].key, user |-> login[l].user, revoked |-> FALSE]]
      BY <2>1, Zenon DEF InsertNode
    <3> HIDE DEF n
    <3> QED BY <3>1, <3>2, Zenon DEF Typed, AuthTypeOK, Registered
  <2>2. CASE nodes' = nodes
    BY <2>2, Zenon
  <2> QED BY <1>2, <2>1, <2>2, Zenon DEF claim_node_by_public_key
<1>3. ASSUME NEW j \in Registered, Revoke(j) PROVE ~Usable(i) => ~Usable(i)'
  <2>1. nodes' = [nodes EXCEPT ![j] = [nodes[j] EXCEPT !.revoked = TRUE]] /\ Usable(j)
    BY <1>3, Zenon DEF Revoke
  <2>2. ~Usable(i) => i # j
    BY <2>1, Zenon
  <2>3. i # j => nodes'[i] = nodes[i]
    BY <2>1, Zenon DEF Typed, AuthTypeOK, Registered
  <2> QED BY <2>2, <2>3, Zenon
<1>4. CASE LoginStep
  BY <1>4, <1>1, <1>2, Zenon DEF LoginStep, bootstrap_identity, claim_node, save_identity,
     LoginFails, logout, tables
<1>5. CASE LoopStep
  BY <1>5, <1>1, Zenon DEF LoopStep, load_creds_for_server, create_auth_challenge,
     StoreChallenge, SendVerify, Answered,
     Dial, authenticate_node_jwt, wait_for_auth, tables
<1>6. CASE AuthFault
  BY <1>6, <1>1, Zenon DEF AuthFault, LoopFails, ConnectionEnds, TokenExpires, VerifyFails,
     RepeatVerify, ChallengeExpires, tables
<1>7. CASE \E r \in Requests : HandlerStep(r)
  BY <1>7, <1>1, Zenon DEF HandlerStep, VerifyLookup, get_auth_challenge, Consume, IssueJwt,
     Abandoned, tables
<1>8. CASE (\E p \in late : LateStore(p)) \/ (\E j \in Ids : DeleteExpired(j))
  BY <1>8, <1>1, Zenon DEF LateStore, DeleteExpired
<1>9. CASE UNCHANGED vars
  BY <1>9, <1>1, Zenon DEF vars, tables
<1> QED BY <1>3, <1>4, <1>5, <1>6, <1>7, <1>8, <1>9, Zenon DEF AuthNext

\* A step that leaves the loop and the handlers alone keeps RevokedInv.
LEMMA RevokedKept ==
  ASSUME Typed, RevokedInv, AuthNext \/ UNCHANGED vars, UNCHANGED <<loop, verify>>
  PROVE  RevokedInv'
<1>1. \A r \in Requests : verify[r].pc # "free" => verify[r].id \in Registered
  BY Zenon DEF Typed, AuthTypeOK
<1>2. loop.pc # "load" => loop.id \in Registered
  BY Zenon DEF Typed, AuthTypeOK
<1>3. \A i \in Registered : ~Usable(i) => ~Usable(i)'
  BY RevocationStays, Zenon
<1> QED BY <1>1, <1>2, <1>3, Zenon DEF RevokedInv, Usable

\* The agent's loop keeps RevokedInv.
LEMMA LoopRevoked == Typed /\ RevokedInv /\ LoopStep => RevokedInv'
<1> SUFFICES ASSUME Typed, RevokedInv, LoopStep PROVE RevokedInv'
  BY Zenon
<1> USE DEF tables
<1>t. loop \in LoopState /\ verify \in [Requests -> VerifyState]
  BY Zenon DEF Typed, AuthTypeOK
<1>1. CASE load_creds_for_server
  <2>1. UNCHANGED <<nodes, verify>> /\ loop'.pc = "lookup"
    BY <1>1, Zenon DEF load_creds_for_server, Loading
  <2>2. ~loop'.revoked
    BY <1>1, Zenon DEF load_creds_for_server, Loading
  <2> QED BY <2>1, <2>2, Zenon DEF RevokedInv, Usable
<1>2. CASE create_auth_challenge \/ StoreChallenge
  <2>1. /\ UNCHANGED <<nodes, verify>> /\ loop.pc # "load"
        /\ loop'.pc \in {"upsert", "sign"} /\ loop'.id = loop.id /\ loop'.revoked = loop.revoked
    BY <1>2, <1>t, Zenon DEF create_auth_challenge, StoreChallenge, LoopState
  <2> QED BY <2>1, Zenon DEF RevokedInv, Usable
<1>4. ASSUME NEW r \in Requests, SendVerify(r) PROVE RevokedInv'
  <2>1. /\ UNCHANGED nodes /\ loop.pc # "load"
        /\ loop'.pc = "verify" /\ loop'.id = loop.id /\ loop'.revoked = loop.revoked
        /\ \A q \in Requests : q # r => verify'[q] = verify[q]
        /\ verify'[r].pc = "lookup" /\ verify'[r].id = loop.id
    BY <1>4, <1>t, Zenon DEF SendVerify, LoopState
  <2>2. verify'[r].revoked => ~Usable(loop.id)
    BY <1>4, <1>t, Zenon DEF SendVerify
  <2> QED BY <2>1, <2>2, Zenon DEF RevokedInv, Usable
<1>5. ASSUME NEW r \in Requests, Answered(r) PROVE RevokedInv'
  <2>1. /\ UNCHANGED nodes
        /\ \A q \in Requests : q # r => verify'[q] = verify[q]
        /\ verify'[r].pc = "free"
    BY <1>5, <1>t, Zenon DEF Answered, NoVerify
  <2>2. loop'.pc = "load" \/ (loop.pc # "load" /\ loop'.pc = "dial" /\ loop'.id = loop.id /\ loop'.revoked = loop.revoked)
    BY <1>5, <1>t, Zenon DEF Answered, Awaited, Loading, LoopState
  <2> QED BY <2>1, <2>2, Zenon DEF RevokedInv, Usable
<1>6. CASE Dial
  <2>1. UNCHANGED <<nodes, verify>> /\ loop'.pc = "jwt" /\ loop'.id = loop.id
    BY <1>6, <1>t, Zenon DEF Dial, LoopState
  <2>2. loop'.revoked => ~Usable(loop.id)
    BY <1>6, <1>t, Zenon DEF Dial, LoopState, Usable
  <2> QED BY <2>1, <2>2, Zenon DEF RevokedInv, Usable
<1>7. CASE authenticate_node_jwt \/ wait_for_auth
  <2>1. UNCHANGED <<nodes, verify>> /\ loop.pc \in {"jwt", "claim"}
    BY <1>7, Zenon DEF authenticate_node_jwt, wait_for_auth
  <2>2. loop' = Loading \/ (Usable(loop.id) /\ \E pc \in {"claim", "connected"} : loop' = [loop EXCEPT !.pc = pc])
    BY <1>7, Zenon DEF authenticate_node_jwt, wait_for_auth
  <2>3. CASE loop' = Loading
    BY <2>1, <2>3, Zenon DEF RevokedInv, Usable, Loading
  <2>4. CASE Usable(loop.id) /\ \E pc \in {"claim", "connected"} : loop' = [loop EXCEPT !.pc = pc]
    <3>1. loop'.id = loop.id /\ loop'.revoked = loop.revoked
      BY <1>t, <2>4, Zenon DEF LoopState
    <3>2. ~loop.revoked
      BY <2>1, <2>4, Zenon DEF RevokedInv
    <3> QED BY <2>1, <3>1, <3>2, Zenon DEF RevokedInv, Usable
  <2> QED BY <2>2, <2>3, <2>4, Zenon
<1> QED BY <1>1, <1>2, <1>4, <1>5, <1>6, <1>7, Zenon DEF LoopStep

\* Every step keeps RevokedInv.
LEMMA NextRevoked == Typed /\ RevokedInv /\ (AuthNext \/ UNCHANGED vars) => RevokedInv'
<1> SUFFICES ASSUME Typed, RevokedInv, AuthNext \/ UNCHANGED vars PROVE RevokedInv'
  BY Zenon
<1> USE DEF tables
<1>t. loop \in LoopState /\ verify \in [Requests -> VerifyState]
  BY Zenon DEF Typed, AuthTypeOK
<1>1. CASE UNCHANGED <<loop, verify>>
  BY <1>1, RevokedKept, Zenon
<1>2. CASE LoginStep \/ \E i \in Registered : Revoke(i)
  BY <1>1, <1>2, Zenon DEF LoginStep, bootstrap_identity, claim_node, claim_node_by_public_key,
     save_identity, LoginFails, logout, Revoke
<1>3. CASE (\E p \in late : LateStore(p)) \/ (\E j \in Ids : DeleteExpired(j)) \/ (\E c \in Challenges : ChallengeExpires(c)) \/ UNCHANGED vars
  BY <1>1, <1>3, Zenon DEF LateStore, DeleteExpired, ChallengeExpires, vars
<1>4. CASE LoopFails \/ ConnectionEnds
  <2>1. UNCHANGED <<nodes, verify>> /\ loop'.pc = "load"
    BY <1>4 DEF LoopFails, ConnectionEnds, Loading
  <2> QED BY <2>1, Zenon DEF RevokedInv, Usable
<1>5. CASE TokenExpires
  <2>1. UNCHANGED <<nodes, verify>> /\ loop'.pc = loop.pc /\ loop'.id = loop.id /\ loop'.revoked = loop.revoked
    BY <1>5, <1>t, Zenon DEF TokenExpires, LoopState
  <2> QED BY <2>1, Zenon DEF RevokedInv, Usable
<1>6. ASSUME NEW r \in Requests, NEW q \in Requests, RepeatVerify(r, q) PROVE RevokedInv'
  <2>1. /\ UNCHANGED <<nodes, loop>>
        /\ \A x \in Requests : x # q => verify'[x] = verify[x]
        /\ verify'[q].pc = "lookup" /\ verify'[q].id = verify[r].id
    BY <1>6, <1>t DEF RepeatVerify, VerifyState
  <2>2. verify'[q] = [verify[r] EXCEPT !.pc = "lookup", !.late = verify[r].ch \in spent, !.revoked = ~Usable(verify[r].id)]
    BY <1>6, <1>t, Zenon DEF RepeatVerify
  <2>3. (verify[r].ch \in spent) \in BOOLEAN /\ (~Usable(verify[r].id)) \in BOOLEAN /\ verify[r] \in VerifyState
    BY <1>t DEF Usable
  <2>4. verify'[q].revoked = ~Usable(verify[r].id)
    BY <2>2, <2>3, RepeatedFlags
  <2> QED BY <2>1, <2>4, Zenon DEF RevokedInv, Usable
<1>7. ASSUME NEW r \in Requests, HandlerStep(r) \/ VerifyFails(r) PROVE RevokedInv'
  <2>1. CASE Abandoned(r)
    <3>1. UNCHANGED <<nodes, loop>> /\ (\A q \in Requests : q # r => verify'[q] = verify[q]) /\ verify'[r].pc = "free"
      BY <2>1, <1>t, Zenon DEF Abandoned, NoVerify
    <3> QED BY <3>1, Zenon DEF RevokedInv, Usable
  <2>2. CASE ~Abandoned(r)
    <3>1. PICK pc : VerifyGoes(r, pc) /\ (pc = "denied" \/ verify[r].pc # "lookup" \/ Usable(verify[r].id))
      BY <1>7, <2>2, Zenon DEF HandlerStep, VerifyLookup, get_auth_challenge, Consume,
         IssueJwt, VerifyFails
    <3>2. UNCHANGED <<nodes, loop>> /\ verify[r].pc # "free" /\ verify[r].pc \notin {"granted", "denied"}
      BY <1>7, <2>2, Zenon DEF HandlerStep, VerifyLookup, get_auth_challenge, Consume,
         IssueJwt, VerifyFails
    <3>3. /\ \A q \in Requests : q # r => verify'[q] = verify[q]
          /\ verify'[r].pc = pc /\ verify'[r].id = verify[r].id /\ verify'[r].revoked = verify[r].revoked
      BY <1>t, <3>1, Zenon DEF VerifyGoes, VerifyState
    <3>4. pc = "denied" \/ ~verify[r].revoked
      BY <1>t, <3>1, <3>2, Zenon DEF RevokedInv, VerifyState
    <3> QED BY <3>2, <3>3, <3>4, Zenon DEF RevokedInv, Usable
  <2> QED BY <2>1, <2>2, Zenon
<1> QED BY <1>2, <1>3, <1>4, <1>5, <1>6, <1>7, LoopRevoked, Zenon DEF AuthNext, AuthFault

\* A revoked node stays out: no verification that arrives after the revocation
\* is granted, and no socket opened after it gets past wait_for_auth.
THEOREM RevokedOut == AuthSpec => []RevokedStaysOut
<1>1. AuthInit => Typed /\ RevokedInv
  BY InitTyped, InitRevoked, Zenon
<1>2. Typed /\ RevokedInv /\ [AuthNext]_vars => (Typed /\ RevokedInv)'
  BY NextTyped, NextRevoked, Zenon
<1>3. RevokedInv => RevokedStaysOut
  BY Zenon DEF RevokedInv, RevokedStaysOut
<1> QED BY <1>1, <1>2, <1>3, PTL DEF AuthSpec
=============================================================================
