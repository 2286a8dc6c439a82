----------------------------- MODULE AuthServer -----------------------------
(***************************************************************************)
(* The login server (services/auth/src/authserver.rs) composed with the    *)
(* account tables: the listener that serves one connection at a time, the  *)
(* RequestState machine of connect_loop with its handlers, and the account *)
(* service calls they make. Each await on the database is a step of its    *)
(* own, so operators and clients interleave with a login in progress.      *)
(*                                                                         *)
(* A proof is represented by what its check depends on: the challenge it   *)
(* was computed from and whether the password (or key) was right. The SRP  *)
(* session key of a login is represented by the challenge's nonce.         *)
(***************************************************************************)
EXTENDS Accounts, Sequences

CONSTANTS Clients,     \* clients, each with at most one connection
          MaxNonce,    \* bound: challenges drawn
          MaxCrashes   \* bound: ends of the server process

ASSUME ServerBounds == MaxNonce \in Nat /\ MaxCrashes \in Nat

NoUser == ""
NoReply == <<"", "">>

VARIABLES
    backlog,  \* connections the kernel holds, oldest first
    pc,       \* where the server is with the client's connection
    state,    \* RequestState of the connection
    req,      \* username the request in progress is about
    reply,    \* last <<AuthCommand, ReturnCode>> sent on the connection
    fresh,    \* last nonce drawn
    ckey,     \* the session key the client derived last (client side)
    listening, \* authentication() has not returned
    crashes,
    issued,   \* history: nonce of the last challenge sent on the connection
    spent,    \* history: nonces whose proof was accepted
    grant     \* history: the user admitted to the realm list

connVars == <<backlog, pc, state, req, reply>>
procVars == <<listening, crashes>>
histVars == <<issued, spent, grant>>
vars == <<accountVars, connVars, fresh, ckey, procVars, histVars>>

\* RequestState. Rejected lasts until the end of one iteration of the loop
\* and is part of Reject below.
Start == [tag |-> "Start", user |-> NoUser, nonce |-> 0, key |-> NoKey]
ConnectChallenge(u, n) == [tag |-> "ConnectChallenge", user |-> u, nonce |-> n, key |-> NoKey]
ReconnectChallenge(u, n, k) == [tag |-> "ReconnectChallenge", user |-> u, nonce |-> n, key |-> k]
Realmlist == [tag |-> "Realmlist", user |-> NoUser, nonce |-> 0, key |-> NoKey]

AuthCommand == {"Connect", "Proof", "ReConnect", "ReProof", "RealmList"}
ReturnCode == {"Success", "Failed", "Banned", "UnknownAccount", "IncorrectPassword",
               "VersionInvalid", "Suspended"}

Replies == (AuthCommand \X ReturnCode) \cup {NoReply}
PCs == {"idle", "queued", "read", "account", "bans", "relogin", "store", "realms"}

\* The token of a reconnect has a session key: [u8; 40], not an Option.
RequestStates ==
    {s \in [tag : {"Start", "ConnectChallenge", "ReconnectChallenge", "Realmlist"},
            user : Usernames \cup {NoUser}, nonce : Nat, key : Nat] :
        s.tag = "ReconnectChallenge" => s.key # NoKey}

\* Of the connections alone.
ConnTypeOK ==
    /\ backlog \in Seq(Clients)
    /\ pc \in [Clients -> PCs]
    /\ state \in [Clients -> RequestStates]
    /\ req \in [Clients -> Usernames \cup {NoUser}]
    /\ issued \in [Clients -> Nat]
    /\ grant \in [Clients -> Usernames \cup {NoUser}]

TypeOK ==
    /\ AccountsTypeOK
    /\ ConnTypeOK
    /\ reply \in [Clients -> Replies]
    /\ fresh \in Nat
    /\ ckey \in [Clients -> Nat]
    /\ listening \in BOOLEAN
    /\ crashes \in Nat
    /\ spent \in SUBSET Nat

Init ==
    /\ AccountsInit
    /\ backlog = <<>>
    /\ pc = [c \in Clients |-> "idle"]
    /\ state = [c \in Clients |-> Start]
    /\ req = [c \in Clients |-> NoUser]
    /\ reply = [c \in Clients |-> NoReply]
    /\ fresh = 0
    /\ ckey = [c \in Clients |-> NoKey]
    /\ listening = TRUE
    /\ crashes = 0
    /\ issued = [c \in Clients |-> 0]
    /\ spent = {}
    /\ grant = [c \in Clients |-> NoUser]

Served(c) == pc[c] \notin {"idle", "queued"}

-----------------------------------------------------------------------------
(* The listener.                                                           *)

Arrive(c) ==
    /\ listening /\ pc[c] = "idle"
    /\ pc' = [pc EXCEPT ![c] = "queued"]
    /\ backlog' = Append(backlog, c)
    /\ reply' = [reply EXCEPT ![c] = NoReply]
    /\ UNCHANGED <<accountVars, state, req, fresh, ckey, procVars, histVars>>

\* Mutants: connections are served concurrently; nobody else may be waiting.
AcceptM ==
    /\ backlog # <<>>
    /\ pc' = [pc EXCEPT ![Head(backlog)] = "read"]
    /\ backlog' = Tail(backlog)
    /\ UNCHANGED <<accountVars, state, req, reply, fresh, ckey, procVars, histVars>>

AcceptM2 ==
    /\ backlog # <<>>
    /\ \A c \in Clients : pc[c] = "idle"
    /\ pc' = [pc EXCEPT ![Head(backlog)] = "read"]
    /\ backlog' = Tail(backlog)
    /\ UNCHANGED <<accountVars, state, req, reply, fresh, ckey, procVars, histVars>>

\* authentication() awaits connect_loop before it takes the next connection.
Accept ==
    /\ backlog # <<>>
    /\ \A c \in Clients : ~Served(c)
    /\ pc' = [pc EXCEPT ![Head(backlog)] = "read"]
    /\ backlog' = Tail(backlog)
    /\ UNCHANGED <<accountVars, state, req, reply, fresh, ckey, procVars, histVars>>

\* accept() fails, which `while let Some(Ok(..))` takes for the end: the listener
\* is dropped with its backlog. The other two tasks keep the process going.
AcceptFails ==
    /\ listening
    /\ \A c \in Clients : ~Served(c)
    /\ listening' = FALSE
    /\ backlog' = <<>>
    /\ pc' = [c \in Clients |-> "idle"]
    /\ UNCHANGED <<accountVars, state, req, reply, fresh, ckey, crashes, histVars>>

\* connect_loop returns: the stream is dropped with everything it held.
Close(c) ==
    /\ pc' = [pc EXCEPT ![c] = "idle"]
    /\ state' = [state EXCEPT ![c] = Start]
    /\ req' = [req EXCEPT ![c] = NoUser]
    /\ issued' = [issued EXCEPT ![c] = 0]
    /\ grant' = [grant EXCEPT ![c] = NoUser]
    /\ UNCHANGED backlog

\* The loop goes on with the next message, in the state the handler returns.
Continue(c, s, cmd) ==
    /\ pc' = [pc EXCEPT ![c] = "read"]
    /\ state' = [state EXCEPT ![c] = s]
    /\ req' = [req EXCEPT ![c] = NoUser]
    /\ reply' = [reply EXCEPT ![c] = <<cmd, "Success">>]
    /\ UNCHANGED backlog

\* RequestState::Rejected: its reply is written, or the write fails; either
\* way the loop ends.
Reject(c, cmd, code) ==
    /\ Close(c)
    /\ reply' \in {reply, [reply EXCEPT ![c] = <<cmd, code>>]}
    /\ UNCHANGED <<accountVars, fresh, ckey, procVars, spent>>

\* A `?` of connect_loop or of a handler, or one of its bail!s, ends the loop
\* with no reply.
Bail(c) == Close(c) /\ UNCHANGED <<accountVars, reply, fresh, ckey, procVars, spent>>

\* read_packet fails: the client has hung up, the command byte is unknown, or
\* the one read() after it returned fewer bytes than the command has.
ReadFails(c) == pc[c] = "read" /\ Bail(c)

-----------------------------------------------------------------------------
(* Connect and ReConnect requests. Both are handled in every state.        *)

\* Build check, then the name: read_exact may fail, the bytes may not be
\* UTF-8, otherwise the account service is asked (lookup is its first step).
Identify(c, cmd, lookup) ==
    /\ pc[c] = "read"
    /\ \/ Reject(c, cmd, "VersionInvalid")
       \/ Bail(c)
       \/ Reject(c, cmd, "Failed")
       \/ \E u \in Usernames :
             /\ pc' = [pc EXCEPT ![c] = lookup]
             /\ req' = [req EXCEPT ![c] = u]
             /\ UNCHANGED <<accountVars, backlog, state, reply, fresh, ckey, procVars, histVars>>

RecvConnect(c) == Identify(c, "Connect", "account")
RecvReConnect(c) == Identify(c, "ReConnect", "relogin")

\* First SELECT of get_by_username.
GetAccount(c) ==
    /\ pc[c] = "account"
    /\ \/ Reject(c, "Connect", "Failed")
       \/ req[c] \notin account /\ Reject(c, "Connect", "UnknownAccount")
       \/ /\ req[c] \in account
          /\ pc' = [pc EXCEPT ![c] = "bans"]
          /\ UNCHANGED <<accountVars, backlog, state, req, reply, fresh, ckey, procVars, histVars>>

\* A token with a new nonce is made and its challenge written to the client;
\* if the write fails the connection is dropped and the nonce is lost.
Challenge(c, s, cmd) ==
    /\ fresh < MaxNonce
    /\ fresh' = fresh + 1
    /\ UNCHANGED <<accountVars, ckey, procVars, spent>>
    /\ \/ /\ Continue(c, s, cmd)
          /\ issued' = [issued EXCEPT ![c] = fresh + 1]
          /\ grant' = [grant EXCEPT ![c] = NoUser]
       \/ Close(c) /\ UNCHANGED reply

\* Second SELECT of get_by_username, and initiate_login's match on it.
GetBan(c) ==
    /\ pc[c] = "bans"
    /\ \/ Reject(c, "Connect", "Failed")
       \/ "Permanent" \in FetchedBan(req[c]) /\ Reject(c, "Connect", "Banned")
       \/ "Temporary" \in FetchedBan(req[c]) /\ Reject(c, "Connect", "Suspended")
       \/ /\ "None" \in FetchedBan(req[c])
          /\ Challenge(c, ConnectChallenge(req[c], fresh + 1), "Connect")

\* initiate_relogin: SELECT ... AND session_key_auth IS NOT NULL. The ban
\* columns it fetches are not looked at; no row is reported as a database error.
\* Mutants: the failure is not answered; the column may be NULL.
InitiateReloginM(c) ==
    /\ pc[c] = "relogin"
    /\ req[c] \in account
    /\ session_key_auth[req[c]] # NoKey
    /\ Challenge(c, ReconnectChallenge(req[c], fresh + 1, session_key_auth[req[c]]),
                 "ReConnect")

InitiateReloginM2(c) ==
    /\ pc[c] = "relogin"
    /\ \/ Reject(c, "ReConnect", "Failed")
       \/ /\ req[c] \in account
          /\ Challenge(c, ReconnectChallenge(req[c], fresh + 1, session_key_auth[req[c]]),
                       "ReConnect")

InitiateRelogin(c) ==
    /\ pc[c] = "relogin"
    /\ \/ Reject(c, "ReConnect", "Failed")
       \/ /\ req[c] \in account
          /\ session_key_auth[req[c]] # NoKey
          /\ Challenge(c, ReconnectChallenge(req[c], fresh + 1, session_key_auth[req[c]]),
                       "ReConnect")

-----------------------------------------------------------------------------
(* Proofs.                                                                 *)

\* ConnectToken::accept and ReconnectToken::accept. A proof is computed from a
\* challenge's nonce; the one for a reconnect also from the client's key.
\* Mutant: the challenge is not part of the check.
AcceptsM(s, nonce, right) == right
Accepts(s, nonce, right) == right /\ nonce = s.nonce

\* complete_login first checks the proof. Computing a right one has given the
\* client the session key of that challenge.
RecvProof(c) == \E n \in 0..fresh, right \in BOOLEAN :
    /\ pc[c] = "read"
    /\ \/ state[c].tag # "ConnectChallenge" /\ Bail(c)
       \/ /\ state[c].tag = "ConnectChallenge"
          /\ ~Accepts(state[c], n, right)
          /\ Reject(c, "Proof", "IncorrectPassword")
       \/ /\ state[c].tag = "ConnectChallenge"
          /\ Accepts(state[c], n, right)
          /\ pc' = [pc EXCEPT ![c] = "store"]
          /\ ckey' = [ckey EXCEPT ![c] = n]
          /\ UNCHANGED <<accountVars, backlog, state, req, reply, fresh, procVars, histVars>>

\* The history of an accepted proof: its user is admitted, its nonce used up.
Admit(c, u) ==
    /\ spent' = spent \cup {state[c].nonce}
    /\ grant' = [grant EXCEPT ![c] = u]
    /\ UNCHANGED issued

TablesButSession == UNCHANGED <<creation, realmVars, account_banned, now>>

\* The UPDATE that ends complete_login, and the answer to the proof.
StoreKey(c) ==
    /\ pc[c] = "store"
    /\ TablesButSession /\ UNCHANGED <<fresh, ckey, procVars>>
    /\ \/ /\ UpdateSession(state[c].nonce)
          /\ Continue(c, Realmlist, "Proof")
          /\ Admit(c, state[c].user)
       \/ /\ UpdateSession(state[c].nonce)   \* the answer cannot be written
          /\ Close(c)
          /\ spent' = spent \cup {state[c].nonce}
          /\ UNCHANGED reply
       \/ /\ \/ UpdateSession(state[c].nonce) \* executed, its result lost
             \/ UNCHANGED session_key_auth
          /\ Close(c)
          /\ reply' \in {reply, [reply EXCEPT ![c] = <<"Proof", "Failed">>]}
          /\ UNCHANGED spent

\* complete_relogin is a comparison; a wrong proof is answered under ReConnect.
RecvReProof(c) == \E n \in 0..fresh, k \in {NoKey, ckey[c]} :
    /\ pc[c] = "read"
    /\ UNCHANGED <<accountVars, fresh, ckey, procVars>>
    /\ \/ state[c].tag # "ReconnectChallenge" /\ Bail(c)
       \/ /\ state[c].tag = "ReconnectChallenge"
          /\ ~Accepts(state[c], n, k = state[c].key)
          /\ Reject(c, "ReConnect", "IncorrectPassword")
       \/ /\ state[c].tag = "ReconnectChallenge"
          /\ Accepts(state[c], n, k = state[c].key)
          /\ \/ Continue(c, Realmlist, "ReProof") /\ Admit(c, state[c].user)
             \/ /\ Close(c)
                /\ spent' = spent \cup {state[c].nonce}
                /\ UNCHANGED reply

\* A request for the realm list, which has to be in turn. handle_realmlist then
\* awaits realms() (RealmCache). Mutant: the state is not looked at.
RecvRealmListM(c) ==
    /\ pc[c] = "read"
    /\ pc' = [pc EXCEPT ![c] = "realms"]
    /\ UNCHANGED <<accountVars, backlog, state, req, reply, fresh, ckey, procVars, histVars>>

RecvRealmList(c) ==
    /\ pc[c] = "read"
    /\ \/ state[c].tag # "Realmlist" /\ Bail(c)
       \/ /\ state[c].tag = "Realmlist"
          /\ pc' = [pc EXCEPT ![c] = "realms"]
          /\ UNCHANGED <<accountVars, backlog, state, req, reply, fresh, ckey, procVars,
                         histVars>>

\* realms() has returned a list, new or old, and the answer is written or fails.
ListRealms(c) ==
    /\ pc[c] = "realms"
    /\ \/ Bail(c)
       \/ /\ Continue(c, Realmlist, "RealmList")
          /\ UNCHANGED <<accountVars, fresh, ckey, procVars, histVars>>

-----------------------------------------------------------------------------
\* A panic of the serving task (a name length above 16, an SRP number of fewer
\* than 32 bytes), an error of a sibling task, or a kill: start() returns, the
\* process ends and is started again. Sockets are gone, tables stay.
Crash ==
    /\ crashes < MaxCrashes
    /\ crashes' = crashes + 1
    /\ listening' = TRUE
    /\ backlog' = <<>>
    /\ pc' = [c \in Clients |-> "idle"]
    /\ state' = [c \in Clients |-> Start]
    /\ req' = [c \in Clients |-> NoUser]
    /\ issued' = [c \in Clients |-> 0]
    /\ grant' = [c \in Clients |-> NoUser]
    /\ UNCHANGED <<accountVars, reply, fresh, ckey, spent>>

Operators ==
    OperatorNext /\ UNCHANGED <<connVars, fresh, ckey, procVars, histVars>>

\* The steps the server takes once the database has answered; the others await a
\* client or, ListRealms, the locks of realms(), which may never be free
\* (RealmCacheTwoCallers.cfg).
Handle(c) == GetAccount(c) \/ GetBan(c) \/ InitiateRelogin(c) \/ StoreKey(c)

Next ==
    \/ \E c \in Clients : Arrive(c)
    \/ Accept
    \/ AcceptFails
    \/ \E c \in Clients : ReadFails(c)
    \/ \E c \in Clients : RecvConnect(c)
    \/ \E c \in Clients : RecvReConnect(c)
    \/ \E c \in Clients : Handle(c)
    \/ \E c \in Clients : RecvProof(c)
    \/ \E c \in Clients : RecvReProof(c)
    \/ \E c \in Clients : RecvRealmList(c)
    \/ \E c \in Clients : ListRealms(c)
    \/ Crash
    \/ Operators

\* The runtime polls a ready task and the database answers or fails. A handler's
\* step ends with a write of at most some hundred bytes, which the socket's
\* buffer takes or which fails: a client that reads nothing, and fills that buffer
\* with requests of its own, is left out. Nothing makes a client send.
Fairness == WF_vars(Accept) /\ \A c \in Clients : WF_vars(Handle(c))

Spec == Init /\ [][Next]_vars
FairSpec == Spec /\ Fairness

-----------------------------------------------------------------------------
(* Properties.                                                             *)

\* The session key a reconnect challenge was issued with (initiate_relogin) is
\* still the account's key when its proof is checked (complete_relogin): no
\* login stores another one in between, because connections are served one
\* after the other.
ReloginKeyFresh ==
    \A c \in Clients : state[c].tag = "ReconnectChallenge" =>
        session_key_auth[state[c].user] = state[c].key

\* While a client is in the realm list as u, the key column of u is the key
\* that client holds: the key the world server will check it against.
KeyStored(u) ==
    \A c \in Clients : state[c].tag = "Realmlist" /\ grant[c] = u =>
        session_key_auth[u] = ckey[c]

\* KeyStored for the one account whose name complete_login's UPDATE spells.
ArlyonKeyStored == KeyStored(Arlyon)

\* KeyStored for every account: what complete_login is for.
LoginStoresKey == \A u \in Usernames : KeyStored(u)

\* The inductive invariant behind the properties above and the refinement
\* below: at most one connection is served, and only that one holds a token.
OneServed == \A c, d \in Clients : Served(c) /\ Served(d) => c = d
UnservedIsBlank == \A c \in Clients : ~Served(c) => state[c] = Start
ChallengedExists ==
    /\ \A c \in Clients : state[c].tag = "ConnectChallenge" => state[c].user \in account
    /\ \A c \in Clients : pc[c] = "bans" => req[c] \in account
StoringIsChallenged ==
    \A c \in Clients : pc[c] = "store" =>
        state[c].tag = "ConnectChallenge" /\ ckey[c] = state[c].nonce
ListingIsAdmitted == \A c \in Clients : pc[c] = "realms" => state[c].tag = "Realmlist"
TokenOutstanding ==
    /\ \A c \in Clients : state[c].tag \in {"ConnectChallenge", "ReconnectChallenge"} =>
          state[c].nonce = issued[c] /\ issued[c] # 0 /\ issued[c] \notin spent
    /\ \A n \in spent : n <= fresh
KeyInv == /\ TypeOK /\ OneServed /\ UnservedIsBlank /\ ChallengedExists
          /\ StoringIsChallenged /\ ListingIsAdmitted /\ ReloginKeyFresh /\ ArlyonKeyStored
HandshakeInv == KeyInv /\ TokenOutstanding
NonceBound == \A c \in Clients : issued[c] <= fresh
Inv == HandshakeInv /\ NonceBound

\* The handshake as a whole keeps the promise of ChallengeResponse: only the
\* answer to the last challenge sent on the connection admits, and only once,
\* whatever is lost, repeated, sent out of turn or cut short by a crash.
CR == INSTANCE ChallengeResponse WITH
        last <- fresh,
        admitted <- {c \in Clients : state[c].tag = "Realmlist"}
ImplementsChallengeResponse == CR!Spec

\* Steps in which get_by_username's answer about bans leads to a challenge, or
\* to a refusal.
LetIn(c) == pc[c] = "bans" /\ state'[c].tag = "ConnectChallenge"
                           /\ state'[c] # state[c]
Refused(c) == pc[c] = "bans" /\ reply'[c] # reply[c]
                             /\ reply'[c][2] \in {"Banned", "Suspended"}

\* A user all of whose bans are in force gets no login challenge, however the
\* clock and the operators move between the two queries of get_by_username.
AllBansRefuse ==
    [][\A c \in Clients : LetIn(c) =>
        BansOf(req[c]) = {} \/ \E r \in BansOf(req[c]) : ~InForce(r)]_vars

\* A user with a ban in force gets no login challenge.
BanInForceRefused ==
    [][\A c \in Clients : LetIn(c) => \A r \in BansOf(req[c]) : ~InForce(r)]_vars

\* Nobody is refused for a ban once every ban it was given has run its term.
TermHonoured ==
    [][\A c \in Clients : Refused(c) => \E r \in BansOf(req[c]) : InForce(r)]_vars

\* A request whose name has been read is answered or its connection closed,
\* whatever the database does. (Not so the one for the realm list: "realms".)
RequestAnswered ==
    \A c \in Clients : pc[c] \in {"account", "bans", "relogin", "store"}
                         ~> pc[c] \in {"read", "idle", "queued"}

\* If every client that is served is at some time done (nothing in the code
\* makes it so: connect_loop has no timeout) and accept() never fails, which
\* would drop everyone waiting, then a waiting client is served, unless the
\* process ends first.
QueuedServed ==
    (\A d \in Clients : []<>~Served(d)) /\ []listening
        => \A c \in Clients, n \in 0..MaxCrashes :
              pc[c] = "queued" /\ crashes = n ~> Served(c) \/ crashes # n
=============================================================================
