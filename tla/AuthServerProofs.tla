-------------------------- MODULE AuthServerProofs --------------------------
(***************************************************************************)
(* Proofs about AuthServer, for every set of names and clients and every   *)
(* bound.                                                                  *)
(***************************************************************************)
EXTENDS AuthServer, TLAPS

USE DEF procVars, realmVars

(***************************************************************************)
(* Type correctness, one lemma for the tables, then one step per action.   *)
(***************************************************************************)

\* A step of an operator (create_account, set_ban, the clock) keeps the types
\* of the tables.
LEMMA OperatorTypes ==
    ASSUME AccountsTypeOK, OperatorNext
    PROVE  AccountsTypeOK'
<1> USE NamesAssumption, BoundsAssumption DEF AccountsTypeOK
<1>1. ASSUME NEW n \in Typed, CreateAccount(n) PROVE AccountsTypeOK'
  <2>1. Upper[n] \in Usernames
    BY <1>1 DEF CreateAccount, Usernames
  <2>2. QED BY <1>1, <2>1 DEF CreateAccount
<1>2. ASSUME NEW u \in Usernames, CreateRealmCharacters(u) PROVE AccountsTypeOK'
  BY <1>2 DEF CreateRealmCharacters, WithRealmCharacters
<1>3. ASSUME NEW u \in Usernames, CreateFails(u) PROVE AccountsTypeOK'
  BY <1>3 DEF CreateFails, WithRealmCharacters
<1>4. ASSUME NEW u \in Usernames, NEW d \in Nat, NEW p \in BOOLEAN, SetBan(u, d, p)
      PROVE  AccountsTypeOK'
  <2>1. [id |-> u, bandate |-> now,
         unbandate |-> IF p THEN now ELSE now + d,
         ends |-> IF p THEN Never ELSE now + d] \in BanRow
    BY DEF BanRow, Never
  <2>2. account_banned' \in SUBSET BanRow
    BY <1>4, <2>1 DEF SetBan
  <2>3. QED BY <1>4, <2>2 DEF SetBan
<1>5. CASE Tick
  BY <1>5 DEF Tick
<1>6. ASSUME NEW r \in Listable, AddRealm(r) PROVE AccountsTypeOK'
  BY <1>6 DEF AddRealm
<1>7. QED
  BY <1>1, <1>2, <1>3, <1>4, <1>5, <1>6 DEF OperatorNext, Never

\* The four constructors of RequestState yield request states.
LEMMA RequestStateTypes ==
    /\ Start \in RequestStates
    /\ Realmlist \in RequestStates
    /\ \A u \in Usernames, n \in Nat : ConnectChallenge(u, n) \in RequestStates
    /\ \A u \in Usernames, n, k \in Nat :
          k # NoKey => ReconnectChallenge(u, n, k) \in RequestStates
BY DEF RequestStates, Start, Realmlist, ConnectChallenge, ReconnectChallenge, NoKey

\* A command and a return code make a reply.
LEMMA ReplyTypes ==
    ASSUME NEW cmd \in AuthCommand, NEW code \in ReturnCode
    PROVE  <<cmd, code>> \in Replies
BY DEF Replies

\* Unchanged tables are typed.
LEMMA SameTables ==
    ASSUME AccountsTypeOK, UNCHANGED accountVars
    PROVE  AccountsTypeOK'
BY DEF AccountsTypeOK, accountVars

\* The end of a connection keeps the types of what it touches.
LEMMA CloseTypes ==
    ASSUME ConnTypeOK, NEW c \in Clients, Close(c)
    PROVE  ConnTypeOK'
BY RequestStateTypes DEF ConnTypeOK, Close, PCs

\* A refusal keeps the types.
LEMMA RejectTypes ==
    ASSUME TypeOK, NEW c \in Clients, NEW cmd \in AuthCommand, NEW code \in ReturnCode,
           Reject(c, cmd, code)
    PROVE  TypeOK'
<1>1. ConnTypeOK' /\ AccountsTypeOK'
  BY CloseTypes, SameTables DEF Reject, TypeOK
<1>2. reply' \in [Clients -> Replies]
  BY ReplyTypes DEF Reject, TypeOK
<1>3. QED
  BY <1>1, <1>2 DEF Reject, TypeOK

\* So does a connection that ends without an answer.
LEMMA BailTypes ==
    ASSUME TypeOK, NEW c \in Clients, Bail(c)
    PROVE  TypeOK'
BY CloseTypes, SameTables DEF Bail, TypeOK

\* Going on to the next message does, too.
LEMMA ContinueTypes ==
    ASSUME TypeOK, NEW c \in Clients, NEW s \in RequestStates, NEW cmd \in AuthCommand,
           Continue(c, s, cmd),
           issued' \in [Clients -> Nat], grant' \in [Clients -> Usernames \cup {NoUser}]
    PROVE  ConnTypeOK' /\ reply' \in [Clients -> Replies]
<1>1. <<cmd, "Success">> \in Replies
  BY ReplyTypes DEF ReturnCode
<1>2. QED
  BY <1>1 DEF TypeOK, ConnTypeOK, Continue, PCs

\* Sending a challenge keeps the types if its state is a request state.
LEMMA ChallengeTypes ==
    ASSUME TypeOK, NEW c \in Clients, NEW s \in RequestStates, NEW cmd \in AuthCommand,
           Challenge(c, s, cmd)
    PROVE  TypeOK'
<1>1. AccountsTypeOK' /\ fresh' \in Nat /\ ckey' \in [Clients -> Nat]
      /\ listening' \in BOOLEAN /\ crashes' \in Nat /\ spent' \in SUBSET Nat
  BY SameTables DEF Challenge, TypeOK
<1>2. CASE Close(c) /\ UNCHANGED reply
  BY <1>1, <1>2, CloseTypes DEF TypeOK
<1>3. CASE /\ Continue(c, s, cmd)
           /\ issued' = [issued EXCEPT ![c] = fresh + 1]
           /\ grant' = [grant EXCEPT ![c] = NoUser]
  <2>1. issued' \in [Clients -> Nat] /\ grant' \in [Clients -> Usernames \cup {NoUser}]
    BY <1>3 DEF TypeOK, ConnTypeOK
  <2>2. QED BY <1>1, <1>3, <2>1, ContinueTypes DEF TypeOK
<1>4. QED
  BY <1>2, <1>3 DEF Challenge

\* Both requests, up to the first query, keep the types.
LEMMA IdentifyTypes ==
    ASSUME TypeOK, NEW c \in Clients, NEW cmd \in AuthCommand, NEW l \in PCs,
           Identify(c, cmd, l)
    PROVE  TypeOK'
<1>1. CASE Reject(c, cmd, "VersionInvalid") \/ Reject(c, cmd, "Failed")
  BY <1>1, RejectTypes DEF ReturnCode
<1>2. CASE Bail(c)
  BY <1>2, BailTypes
<1>3. ASSUME NEW u \in Usernames,
             pc' = [pc EXCEPT ![c] = l], req' = [req EXCEPT ![c] = u],
             UNCHANGED <<accountVars, backlog, state, reply, fresh, ckey, procVars, histVars>>
      PROVE  TypeOK'
  BY <1>3, SameTables DEF TypeOK, ConnTypeOK, histVars
<1>4. QED
  BY <1>1, <1>2, <1>3 DEF Identify

\* The UPDATE of complete_login keeps the key column typed.
LEMMA UpdateTypes ==
    ASSUME AccountsTypeOK, NEW k \in Nat, TablesButSession,
           UpdateSession(k) \/ UNCHANGED session_key_auth
    PROVE  AccountsTypeOK'
BY DEF AccountsTypeOK, TablesButSession, UpdateSession

\* The steps that await the database keep the types.
LEMMA HandleTypes ==
    ASSUME TypeOK, NEW c \in Clients, Handle(c)
    PROVE  TypeOK'
<1>1. CASE GetAccount(c)
  <2>1. CASE Reject(c, "Connect", "Failed") \/ Reject(c, "Connect", "UnknownAccount")
    BY <2>1, RejectTypes DEF AuthCommand, ReturnCode
  <2>2. CASE /\ pc' = [pc EXCEPT ![c] = "bans"]
             /\ UNCHANGED <<accountVars, backlog, state, req, reply, fresh, ckey, procVars, histVars>>
    BY <2>2, SameTables DEF TypeOK, ConnTypeOK, histVars, PCs
  <2>3. QED BY <1>1, <2>1, <2>2 DEF GetAccount
<1>2. CASE GetBan(c)
  <2>1. CASE \/ Reject(c, "Connect", "Failed") \/ Reject(c, "Connect", "Banned")
             \/ Reject(c, "Connect", "Suspended")
    BY <2>1, RejectTypes DEF AuthCommand, ReturnCode
  <2>2. CASE Challenge(c, ConnectChallenge(req[c], fresh + 1), "Connect")
    <3>1. ConnectChallenge(req[c], fresh + 1) \in RequestStates
      BY DEF TypeOK, ConnTypeOK, ConnectChallenge, RequestStates, NoKey
    <3>2. QED BY <2>2, <3>1, ChallengeTypes DEF AuthCommand
  <2>3. QED BY <1>2, <2>1, <2>2 DEF GetBan
<1>3. CASE InitiateRelogin(c)
  <2>1. CASE Reject(c, "ReConnect", "Failed")
    BY <2>1, RejectTypes DEF AuthCommand, ReturnCode
  <2>2. CASE /\ req[c] \in account
             /\ session_key_auth[req[c]] # NoKey
             /\ Challenge(c, ReconnectChallenge(req[c], fresh + 1, session_key_auth[req[c]]),
                          "ReConnect")
    <3>1. req[c] \in Usernames /\ session_key_auth[req[c]] \in Nat /\ fresh + 1 \in Nat
      BY <2>2 DEF account, TypeOK, AccountsTypeOK
    <3>2. ReconnectChallenge(req[c], fresh + 1, session_key_auth[req[c]]) \in RequestStates
      BY <2>2, <3>1, RequestStateTypes
    <3>3. QED BY <2>2, <3>2, ChallengeTypes DEF AuthCommand
  <2>3. QED BY <1>3, <2>1, <2>2 DEF InitiateRelogin
<1>4. CASE StoreKey(c)
  <2>1. state[c].nonce \in Nat /\ state[c].user \in Usernames \cup {NoUser}
    BY DEF TypeOK, ConnTypeOK, RequestStates
  <2>2. AccountsTypeOK'
    BY <1>4, <2>1, UpdateTypes DEF StoreKey, TypeOK
  <2>3. CASE Close(c) /\ UNCHANGED reply /\ spent' = spent \cup {state[c].nonce}
    BY <1>4, <2>1, <2>2, <2>3, CloseTypes DEF StoreKey, TypeOK
  <2>4. CASE /\ Close(c) /\ UNCHANGED spent
             /\ reply' \in {reply, [reply EXCEPT ![c] = <<"Proof", "Failed">>]}
    <3>1. <<"Proof", "Failed">> \in Replies
      BY ReplyTypes DEF AuthCommand, ReturnCode
    <3>2. QED BY <1>4, <2>2, <2>4, <3>1, CloseTypes DEF StoreKey, TypeOK
  <2>5. CASE Continue(c, Realmlist, "Proof") /\ Admit(c, state[c].user)
    <3>1. issued' \in [Clients -> Nat] /\ grant' \in [Clients -> Usernames \cup {NoUser}]
          /\ spent' \in SUBSET Nat
      BY <2>1, <2>5 DEF Admit, TypeOK, ConnTypeOK
    <3>2. ConnTypeOK' /\ reply' \in [Clients -> Replies]
      BY <2>5, <3>1, ContinueTypes, RequestStateTypes DEF AuthCommand
    <3>3. QED BY <1>4, <2>2, <3>1, <3>2 DEF StoreKey, TypeOK
  <2>6. QED BY <1>4, <2>3, <2>4, <2>5 DEF StoreKey
<1>5. QED
  BY <1>1, <1>2, <1>3, <1>4 DEF Handle

\* The steps that await a message, or the realm list, keep the types.
LEMMA RecvTypes ==
    ASSUME TypeOK, NEW c \in Clients,
           RecvProof(c) \/ RecvReProof(c) \/ RecvRealmList(c) \/ ListRealms(c)
    PROVE  TypeOK'
<1>1. CASE RecvProof(c)
  <2>1. PICK n \in 0..fresh, right \in BOOLEAN :
           \/ Bail(c)
           \/ Reject(c, "Proof", "IncorrectPassword")
           \/ /\ pc' = [pc EXCEPT ![c] = "store"]
              /\ ckey' = [ckey EXCEPT ![c] = n]
              /\ UNCHANGED <<accountVars, backlog, state, req, reply, fresh, procVars, histVars>>
    BY <1>1 DEF RecvProof
  <2>2. CASE Bail(c) BY <2>2, BailTypes
  <2>3. CASE Reject(c, "Proof", "IncorrectPassword")
    BY <2>3, RejectTypes DEF AuthCommand, ReturnCode
  <2>4. CASE /\ pc' = [pc EXCEPT ![c] = "store"]
             /\ ckey' = [ckey EXCEPT ![c] = n]
             /\ UNCHANGED <<accountVars, backlog, state, req, reply, fresh, procVars, histVars>>
    <3>1. n \in Nat BY DEF TypeOK
    <3>2. QED BY <2>4, <3>1, SameTables DEF TypeOK, ConnTypeOK, histVars, PCs
  <2>5. QED BY <2>1, <2>2, <2>3, <2>4
<1>2. CASE RecvReProof(c)
  <2>0. state[c].nonce \in Nat /\ state[c].user \in Usernames \cup {NoUser}
    BY DEF TypeOK, ConnTypeOK, RequestStates
  <2>1. CASE Bail(c) BY <2>1, BailTypes
  <2>2. CASE Reject(c, "ReConnect", "IncorrectPassword")
    BY <2>2, RejectTypes DEF AuthCommand, ReturnCode
  <2>3. CASE Continue(c, Realmlist, "ReProof") /\ Admit(c, state[c].user)
    <3>1. issued' \in [Clients -> Nat] /\ grant' \in [Clients -> Usernames \cup {NoUser}]
          /\ spent' \in SUBSET Nat
      BY <2>0, <2>3 DEF Admit, TypeOK, ConnTypeOK
    <3>2. ConnTypeOK' /\ reply' \in [Clients -> Replies]
      BY <2>3, <3>1, ContinueTypes, RequestStateTypes DEF AuthCommand
    <3>3. QED BY <1>2, <3>1, <3>2, SameTables DEF RecvReProof, TypeOK
  <2>4. CASE Close(c) /\ spent' = spent \cup {state[c].nonce} /\ UNCHANGED reply
    BY <1>2, <2>0, <2>4, CloseTypes, SameTables DEF RecvReProof, TypeOK
  <2>5. QED BY <1>2, <2>1, <2>2, <2>3, <2>4 DEF RecvReProof
<1>3. CASE RecvRealmList(c)
  <2>1. CASE Bail(c) BY <2>1, BailTypes
  <2>2. CASE /\ pc' = [pc EXCEPT ![c] = "realms"]
             /\ UNCHANGED <<accountVars, backlog, state, req, reply, fresh, ckey, procVars, histVars>>
    BY <2>2, SameTables DEF TypeOK, ConnTypeOK, histVars, PCs
  <2>3. QED BY <1>3, <2>1, <2>2 DEF RecvRealmList
<1>4. CASE ListRealms(c)
  <2>1. CASE Bail(c) BY <2>1, BailTypes
  <2>2. CASE /\ Continue(c, Realmlist, "RealmList")
             /\ UNCHANGED <<accountVars, fresh, ckey, procVars, histVars>>
    <3>1. issued' \in [Clients -> Nat] /\ grant' \in [Clients -> Usernames \cup {NoUser}]
      BY <2>2 DEF histVars, TypeOK, ConnTypeOK
    <3>2. ConnTypeOK' /\ reply' \in [Clients -> Replies]
      BY <2>2, <3>1, ContinueTypes, RequestStateTypes DEF AuthCommand
    <3>3. QED BY <2>2, <3>2, SameTables DEF TypeOK, histVars
  <2>3. QED BY <1>4, <2>1, <2>2 DEF ListRealms
<1>5. QED BY <1>1, <1>2, <1>3, <1>4

\* Every step keeps the types.
LEMMA TypeStep ==
    ASSUME TypeOK, [Next]_vars
    PROVE  TypeOK'
<1>1. ASSUME NEW c \in Clients, Arrive(c) PROVE TypeOK'
  <2>1. reply' \in [Clients -> Replies]
    BY <1>1 DEF Arrive, TypeOK, Replies
  <2>2. ConnTypeOK'
    BY <1>1 DEF Arrive, TypeOK, ConnTypeOK, PCs, histVars
  <2>3. QED BY <1>1, <2>1, <2>2, SameTables DEF Arrive, TypeOK, histVars
<1>2. CASE Accept
  <2>1. ConnTypeOK'
    BY <1>2 DEF Accept, TypeOK, ConnTypeOK, PCs, histVars
  <2>2. QED BY <1>2, <2>1, SameTables DEF Accept, TypeOK, histVars
<1>3. ASSUME NEW c \in Clients, ReadFails(c) PROVE TypeOK'
  BY <1>3, BailTypes DEF ReadFails
<1>4. ASSUME NEW c \in Clients, RecvConnect(c) PROVE TypeOK'
  BY <1>4, IdentifyTypes DEF RecvConnect, AuthCommand, PCs
<1>5. ASSUME NEW c \in Clients, RecvReConnect(c) PROVE TypeOK'
  BY <1>5, IdentifyTypes DEF RecvReConnect, AuthCommand, PCs
<1>6. ASSUME NEW c \in Clients, Handle(c) PROVE TypeOK'
  BY <1>6, HandleTypes
<1>7. ASSUME NEW c \in Clients,
             RecvProof(c) \/ RecvReProof(c) \/ RecvRealmList(c) \/ ListRealms(c)
      PROVE  TypeOK'
  BY <1>7, RecvTypes
<1>8. CASE Crash
  <2>1. ConnTypeOK'
    BY <1>8, RequestStateTypes DEF Crash, TypeOK, ConnTypeOK, PCs
  <2>2. QED BY <1>8, <2>1, SameTables DEF Crash, TypeOK
<1>9. CASE Operators
  BY <1>9, OperatorTypes DEF Operators, TypeOK, ConnTypeOK, connVars, histVars
<1>10. CASE AcceptFails
  <2>1. ConnTypeOK'
    BY <1>10 DEF AcceptFails, TypeOK, ConnTypeOK, PCs, histVars
  <2>2. QED BY <1>10, <2>1, SameTables DEF AcceptFails, TypeOK, histVars
<1>11. CASE UNCHANGED vars
  BY <1>11, SameTables DEF TypeOK, ConnTypeOK, vars, connVars, histVars
<1>12. QED
  BY <1>1, <1>2, <1>3, <1>4, <1>5, <1>6, <1>7, <1>8, <1>9, <1>10, <1>11 DEF Next

\* The server starts with the types.
LEMMA TypeInit == Init => TypeOK
<1> SUFFICES ASSUME Init PROVE TypeOK
  OBVIOUS
<1>1. AccountsTypeOK
  BY DEF Init, AccountsInit, AccountsTypeOK, NoKey
<1>2. ConnTypeOK
  BY RequestStateTypes DEF Init, ConnTypeOK, PCs
<1>3. QED
  BY <1>1, <1>2 DEF Init, TypeOK, Replies, NoKey

\* Every variable of the login server and of the tables keeps its type; in
\* particular a ReconnectToken always has a session key.
THEOREM TypeCorrect == Spec => []TypeOK
BY TypeInit, TypeStep, PTL DEF Spec

(***************************************************************************)
(* The inductive invariant. What it says of one connection is LocalInv; of *)
(* a connection that is not served that is immediate, so a step of the one *)
(* served connection only has to re-establish LocalInv of that connection. *)
(***************************************************************************)
LocalInv(c) ==
    /\ ~Served(c) => state[c] = Start
    /\ state[c].tag = "ConnectChallenge" => state[c].user \in account
    /\ pc[c] = "bans" => req[c] \in account
    /\ pc[c] = "store" => state[c].tag = "ConnectChallenge" /\ ckey[c] = state[c].nonce
    /\ pc[c] = "realms" => state[c].tag = "Realmlist"
    /\ state[c].tag = "ReconnectChallenge" => session_key_auth[state[c].user] = state[c].key
    /\ state[c].tag = "Realmlist" /\ grant[c] = Arlyon => session_key_auth[Arlyon] = ckey[c]
    /\ state[c].tag \in {"ConnectChallenge", "ReconnectChallenge"} =>
          state[c].nonce = issued[c] /\ issued[c] # 0 /\ issued[c] \notin spent

SpentBound == \A n \in spent : n <= fresh

\* The handshake invariant, read as a fact about each connection.
LEMMA InvIsLocal ==
    ASSUME HandshakeInv, NEW c \in Clients
    PROVE  LocalInv(c)
BY DEF HandshakeInv, KeyInv, LocalInv, UnservedIsBlank, ChallengedExists, StoringIsChallenged,
       ListingIsAdmitted, ReloginKeyFresh, ArlyonKeyStored, KeyStored, TokenOutstanding

\* And back: the facts about each connection make the invariant.
LEMMA LocalIsInv ==
    ASSUME TypeOK', OneServed', SpentBound', \A c \in Clients : LocalInv(c)'
    PROVE  HandshakeInv'
BY DEF HandshakeInv, KeyInv, LocalInv, SpentBound, UnservedIsBlank, ChallengedExists,
       StoringIsChallenged, ListingIsAdmitted, ReloginKeyFresh, ArlyonKeyStored, KeyStored,
       TokenOutstanding

\* The served connection is the only one that holds anything.
LEMMA ServedAlone ==
    ASSUME HandshakeInv, NEW c \in Clients, Served(c), NEW d \in Clients, d # c
    PROVE  ~Served(d) /\ state[d] = Start
BY DEF HandshakeInv, KeyInv, OneServed, UnservedIsBlank

\* A step of the served connection c that leaves the others alone.
LEMMA ServedStep ==
    ASSUME HandshakeInv, TypeOK', NEW c \in Clients, Served(c),
           \A d \in Clients : d # c => pc'[d] = pc[d] /\ state'[d] = state[d],
           LocalInv(c)', SpentBound'
    PROVE  HandshakeInv'
<1>1. ASSUME NEW d \in Clients, d # c PROVE ~Served(d)' /\ state'[d] = Start
  BY <1>1, ServedAlone DEF Served
<1>2. OneServed'
  BY <1>1 DEF OneServed
<1>3. \A d \in Clients : LocalInv(d)'
  BY <1>1 DEF LocalInv, Served, Start
<1>4. QED
  BY <1>2, <1>3, LocalIsInv

\* The end of the served connection, whatever it does to the tables.
LEMMA CloseStep ==
    ASSUME HandshakeInv, TypeOK', NEW c \in Clients, Served(c), Close(c), SpentBound'
    PROVE  HandshakeInv'
<1>1. ~Served(c)' /\ state'[c] = Start
  BY DEF Close, Served, HandshakeInv, KeyInv, TypeOK, ConnTypeOK
<1>2. LocalInv(c)'
  BY <1>1 DEF LocalInv, Served, Start
<1>3. \A d \in Clients : d # c => pc'[d] = pc[d] /\ state'[d] = state[d]
  BY DEF Close, HandshakeInv, KeyInv, TypeOK, ConnTypeOK
<1>4. QED
  BY <1>2, <1>3, ServedStep

\* The served connection ends with or without an answer.
LEMMA BailStep ==
    ASSUME HandshakeInv, TypeOK', NEW c \in Clients, Served(c),
           \/ Bail(c)
           \/ \E cmd \in AuthCommand, code \in ReturnCode : Reject(c, cmd, code)
    PROVE  HandshakeInv'
<1>1. Close(c) /\ UNCHANGED <<fresh, spent>>
  BY DEF Bail, Reject
<1>2. SpentBound'
  BY <1>1 DEF SpentBound, HandshakeInv, TokenOutstanding
<1>3. QED
  BY <1>1, <1>2, CloseStep

\* The served connection is sent a challenge: its nonce is new.
LEMMA ChallengeStep ==
    ASSUME HandshakeInv, TypeOK', NEW c \in Clients, Served(c), NEW s \in RequestStates,
           NEW cmd \in AuthCommand, Challenge(c, s, cmd),
           s.nonce = fresh + 1,
           s.tag \in {"ConnectChallenge", "ReconnectChallenge"},
           s.tag = "ConnectChallenge" => s.user \in account,
           s.tag = "ReconnectChallenge" => session_key_auth[s.user] = s.key
    PROVE  HandshakeInv'
<1>1. fresh \in Nat /\ spent \in SUBSET Nat /\ \A n \in spent : n <= fresh
  BY DEF HandshakeInv, KeyInv, TypeOK, TokenOutstanding
<1>2. SpentBound'
  BY <1>1 DEF Challenge, SpentBound
<1>3. CASE Close(c)
  BY <1>2, <1>3, CloseStep
<1>4. CASE /\ Continue(c, s, cmd)
           /\ issued' = [issued EXCEPT ![c] = fresh + 1]
  <2>1. pc'[c] = "read" /\ state'[c] = s /\ issued'[c] = fresh + 1
    BY <1>4 DEF Continue, HandshakeInv, KeyInv, TypeOK, ConnTypeOK
  <2>2. UNCHANGED <<creation, session_key_auth, spent>>
    BY DEF Challenge, accountVars
  <2>3. LocalInv(c)'
    BY <1>1, <2>1, <2>2 DEF LocalInv, Served, account
  <2>4. \A d \in Clients : d # c => pc'[d] = pc[d] /\ state'[d] = state[d]
    BY <1>4 DEF Continue, HandshakeInv, KeyInv, TypeOK, ConnTypeOK
  <2>5. QED BY <1>2, <2>3, <2>4, ServedStep
<1>5. QED
  BY <1>3, <1>4 DEF Challenge

\* An accepted proof: the connection goes to the realm list, or is lost.
LEMMA AdmitStep ==
    ASSUME HandshakeInv, TypeOK', NEW c \in Clients, Served(c),
           NEW cmd \in AuthCommand, Continue(c, Realmlist, cmd), Admit(c, state[c].user),
           state[c].nonce <= fresh, fresh' = fresh, ckey' = ckey,
           state[c].user = Arlyon => session_key_auth'[Arlyon] = ckey[c]
    PROVE  HandshakeInv'
<1>1. pc'[c] = "read" /\ state'[c] = Realmlist /\ grant'[c] = state[c].user
  BY DEF Continue, Admit, HandshakeInv, KeyInv, TypeOK, ConnTypeOK
<1>2. SpentBound'
  BY DEF Admit, SpentBound, HandshakeInv, TokenOutstanding
<1>3. LocalInv(c)'
  BY <1>1 DEF LocalInv, Served, Realmlist
<1>4. \A d \in Clients : d # c => pc'[d] = pc[d] /\ state'[d] = state[d]
  BY DEF Continue, HandshakeInv, KeyInv, TypeOK, ConnTypeOK
<1>5. QED
  BY <1>2, <1>3, <1>4, ServedStep

\* The steps that await the database keep the handshake invariant.
LEMMA HandleStep ==
    ASSUME HandshakeInv, TypeOK', NEW c \in Clients, Handle(c), NonceBound
    PROVE  HandshakeInv'
<1>0. Served(c)
  BY DEF Handle, GetAccount, GetBan, InitiateRelogin, StoreKey, Served
<1>1. CASE GetAccount(c)
  <2>1. CASE Reject(c, "Connect", "Failed") \/ Reject(c, "Connect", "UnknownAccount")
    BY <1>0, <2>1, BailStep DEF AuthCommand, ReturnCode
  <2>2. CASE /\ req[c] \in account
             /\ pc' = [pc EXCEPT ![c] = "bans"]
             /\ UNCHANGED <<accountVars, backlog, state, req, reply, fresh, ckey, procVars, histVars>>
    <3>1. pc'[c] = "bans" /\ \A d \in Clients : d # c => pc'[d] = pc[d]
      BY <2>2 DEF HandshakeInv, KeyInv, TypeOK, ConnTypeOK
    <3>2. LocalInv(c)'
      BY <1>0, <2>2, <3>1, InvIsLocal DEF LocalInv, Served, account, accountVars, histVars
    <3>3. SpentBound'
      BY <2>2 DEF SpentBound, HandshakeInv, TokenOutstanding, histVars
    <3>4. QED BY <1>0, <2>2, <3>1, <3>2, <3>3, ServedStep
  <2>3. QED BY <1>1, <2>1, <2>2 DEF GetAccount
<1>2. CASE GetBan(c)
  <2>1. CASE \/ Reject(c, "Connect", "Failed") \/ Reject(c, "Connect", "Banned")
             \/ Reject(c, "Connect", "Suspended")
    BY <1>0, <2>1, BailStep DEF AuthCommand, ReturnCode
  <2>2. CASE Challenge(c, ConnectChallenge(req[c], fresh + 1), "Connect")
    <3>1. req[c] \in account /\ fresh + 1 \in Nat
      BY <1>2 DEF GetBan, HandshakeInv, KeyInv, ChallengedExists, TypeOK
    <3>2. ConnectChallenge(req[c], fresh + 1) \in RequestStates
      BY <3>1, RequestStateTypes DEF account
    <3>3. QED BY <1>0, <2>2, <3>1, <3>2, ChallengeStep DEF AuthCommand, ConnectChallenge
  <2>3. QED BY <1>2, <2>1, <2>2 DEF GetBan
<1>3. CASE InitiateRelogin(c)
  <2>1. CASE Reject(c, "ReConnect", "Failed")
    BY <1>0, <2>1, BailStep DEF AuthCommand, ReturnCode
  <2>2. CASE /\ req[c] \in account
             /\ session_key_auth[req[c]] # NoKey
             /\ Challenge(c, ReconnectChallenge(req[c], fresh + 1, session_key_auth[req[c]]),
                          "ReConnect")
    <3>1. req[c] \in Usernames /\ session_key_auth[req[c]] \in Nat /\ fresh + 1 \in Nat
      BY <2>2 DEF account, HandshakeInv, KeyInv, TypeOK, AccountsTypeOK
    <3>2. ReconnectChallenge(req[c], fresh + 1, session_key_auth[req[c]]) \in RequestStates
      BY <2>2, <3>1, RequestStateTypes
    <3>3. QED BY <1>0, <2>2, <3>1, <3>2, ChallengeStep DEF AuthCommand, ReconnectChallenge
  <2>3. QED BY <1>3, <2>1, <2>2 DEF InitiateRelogin
<1>4. CASE StoreKey(c)
  <2>1. /\ state[c].tag = "ConnectChallenge" /\ state[c].user \in account
        /\ ckey[c] = state[c].nonce /\ state[c].nonce = issued[c] /\ issued[c] <= fresh
    BY <1>4 DEF StoreKey, HandshakeInv, KeyInv, StoringIsChallenged, ChallengedExists,
                TokenOutstanding, NonceBound
  <2>2. fresh' = fresh /\ ckey' = ckey /\ (spent' = spent \/ spent' = spent \cup {state[c].nonce})
    BY <1>4 DEF StoreKey, Admit
  <2>3. SpentBound'
    BY <2>1, <2>2 DEF SpentBound, HandshakeInv, TokenOutstanding
  <2>4. CASE Close(c)
    BY <1>0, <2>3, <2>4, CloseStep
  <2>5. CASE /\ UpdateSession(state[c].nonce)
             /\ Continue(c, Realmlist, "Proof")
             /\ Admit(c, state[c].user)
    <3>1. state[c].user = Arlyon => session_key_auth'[Arlyon] = ckey[c]
      BY <2>1, <2>5 DEF UpdateSession, account
    <3>2. QED BY <1>0, <2>1, <2>2, <2>5, <3>1, AdmitStep DEF AuthCommand
  <2>6. QED BY <1>4, <2>4, <2>5 DEF StoreKey
<1>5. QED
  BY <1>1, <1>2, <1>3, <1>4 DEF Handle

\* The steps that await a message, or the realm list, keep the handshake invariant.
LEMMA RecvStep ==
    ASSUME HandshakeInv, TypeOK', NEW c \in Clients, NonceBound,
           RecvProof(c) \/ RecvReProof(c) \/ RecvRealmList(c) \/ ListRealms(c)
    PROVE  HandshakeInv'
<1>0. pc[c] \in {"read", "realms"} /\ Served(c)
  BY DEF RecvProof, RecvReProof, RecvRealmList, ListRealms, Served
<1>1. CASE RecvProof(c)
  <2>1. CASE Bail(c) \/ Reject(c, "Proof", "IncorrectPassword")
    BY <1>0, <2>1, BailStep DEF AuthCommand, ReturnCode
  <2>2. ASSUME NEW n \in 0..fresh, NEW right \in BOOLEAN,
               state[c].tag = "ConnectChallenge",
               Accepts(state[c], n, right),
               pc' = [pc EXCEPT ![c] = "store"],
               ckey' = [ckey EXCEPT ![c] = n],
               UNCHANGED <<accountVars, backlog, state, req, reply, fresh, procVars, histVars>>
        PROVE  HandshakeInv'
    <3>1. /\ pc'[c] = "store" /\ ckey'[c] = n
          /\ \A d \in Clients : d # c => pc'[d] = pc[d]
      BY <2>2 DEF HandshakeInv, KeyInv, TypeOK, ConnTypeOK
    <3>2. LocalInv(c)'
      BY <1>0, <2>2, <3>1, InvIsLocal
      DEF Accepts, LocalInv, Served, account, accountVars, histVars
    <3>3. SpentBound'
      BY <2>2 DEF SpentBound, HandshakeInv, TokenOutstanding, histVars
    <3>4. QED BY <1>0, <2>2, <3>1, <3>2, <3>3, ServedStep
  <2>3. QED BY <1>1, <2>1, <2>2 DEF RecvProof
<1>2. CASE RecvReProof(c)
  <2>1. CASE Bail(c) \/ Reject(c, "ReConnect", "IncorrectPassword")
    BY <1>0, <2>1, BailStep DEF AuthCommand, ReturnCode
  <2>2. ASSUME NEW n \in 0..fresh, NEW k \in {NoKey, ckey[c]},
               state[c].tag = "ReconnectChallenge",
               Accepts(state[c], n, k = state[c].key),
               UNCHANGED <<accountVars, fresh, ckey, procVars>>,
               \/ Continue(c, Realmlist, "ReProof") /\ Admit(c, state[c].user)
               \/ Close(c) /\ spent' = spent \cup {state[c].nonce}
        PROVE  HandshakeInv'
    <3>1. /\ state[c].nonce <= fresh
          /\ session_key_auth[state[c].user] = state[c].key
      BY <2>2 DEF HandshakeInv, KeyInv, ReloginKeyFresh, TokenOutstanding, NonceBound
    <3>2. state[c].key = ckey[c]
      BY <2>2 DEF Accepts, HandshakeInv, KeyInv, TypeOK, ConnTypeOK, RequestStates
    <3>3. CASE Continue(c, Realmlist, "ReProof") /\ Admit(c, state[c].user)
      BY <1>0, <2>2, <3>1, <3>2, <3>3, AdmitStep DEF AuthCommand, accountVars
    <3>4. CASE Close(c) /\ spent' = spent \cup {state[c].nonce}
      <4>1. SpentBound'
        BY <2>2, <3>1, <3>4 DEF SpentBound, HandshakeInv, TokenOutstanding
      <4>2. QED BY <1>0, <3>4, <4>1, CloseStep
    <3>5. QED BY <2>2, <3>3, <3>4
  <2>3. QED BY <1>2, <2>1, <2>2 DEF RecvReProof
<1>3. CASE RecvRealmList(c)
  <2>1. CASE Bail(c)
    BY <1>0, <2>1, BailStep
  <2>2. CASE /\ state[c].tag = "Realmlist"
             /\ pc' = [pc EXCEPT ![c] = "realms"]
             /\ UNCHANGED <<accountVars, backlog, state, req, reply, fresh, ckey, procVars, histVars>>
    <3>1. pc'[c] = "realms" /\ \A d \in Clients : d # c => pc'[d] = pc[d]
      BY <2>2 DEF HandshakeInv, KeyInv, TypeOK, ConnTypeOK
    <3>2. LocalInv(c)'
      BY <1>0, <2>2, <3>1, InvIsLocal DEF LocalInv, Served, account, accountVars, histVars
    <3>3. SpentBound'
      BY <2>2 DEF SpentBound, HandshakeInv, TokenOutstanding, histVars
    <3>4. QED BY <1>0, <2>2, <3>1, <3>2, <3>3, ServedStep
  <2>3. QED BY <1>3, <2>1, <2>2 DEF RecvRealmList
<1>4. CASE ListRealms(c)
  <2>1. CASE Bail(c)
    BY <1>0, <2>1, BailStep
  <2>2. CASE /\ Continue(c, Realmlist, "RealmList")
             /\ UNCHANGED <<accountVars, fresh, ckey, procVars, histVars>>
    <3>0. state[c].tag = "Realmlist"
      BY <1>4, InvIsLocal DEF ListRealms, LocalInv
    <3>1. /\ pc'[c] = "read" /\ state'[c] = Realmlist
          /\ \A d \in Clients : d # c => pc'[d] = pc[d] /\ state'[d] = state[d]
      BY <2>2 DEF Continue, HandshakeInv, KeyInv, TypeOK, ConnTypeOK
    <3>2. LocalInv(c)'
      BY <2>2, <3>0, <3>1, InvIsLocal DEF LocalInv, Served, Realmlist, accountVars, histVars
    <3>3. SpentBound'
      BY <2>2 DEF SpentBound, HandshakeInv, TokenOutstanding, histVars
    <3>4. QED BY <1>0, <3>1, <3>2, <3>3, ServedStep
  <2>3. QED BY <1>4, <2>1, <2>2 DEF ListRealms
<1>5. QED BY <1>1, <1>2, <1>3, <1>4

\* A step that leaves every connection's state, the keys, the tokens and the
\* existing accounts alone, and serves nobody new but at most one client when
\* nobody was served.
LEMMA QuietStep ==
    ASSUME HandshakeInv, TypeOK', OneServed',
           UNCHANGED <<state, req, ckey, session_key_auth, fresh, issued, spent, grant>>,
           account \subseteq account',
           \A d \in Clients : pc'[d] # pc[d] => pc'[d] \in {"queued", "read"} /\ state[d] = Start
    PROVE  HandshakeInv'
<1>1. SpentBound'
  BY DEF SpentBound, HandshakeInv, TokenOutstanding
<1>2. ASSUME NEW d \in Clients PROVE LocalInv(d)'
  <2>1. CASE pc'[d] = pc[d]
    BY <2>1, InvIsLocal DEF LocalInv, Served
  <2>2. CASE pc'[d] # pc[d]
    BY <2>2 DEF LocalInv, Served, Start
  <2>3. QED BY <2>1, <2>2
<1>3. QED
  BY <1>1, <1>2, LocalIsInv

\* Every step keeps the handshake invariant.
LEMMA HandshakeStep ==
    ASSUME HandshakeInv, NonceBound, [Next]_vars
    PROVE  HandshakeInv'
<1>0. TypeOK /\ TypeOK'
  BY TypeStep DEF HandshakeInv, KeyInv
<1>1. ASSUME NEW c \in Clients, Arrive(c) PROVE HandshakeInv'
  <2>1. state[c] = Start /\ pc'[c] = "queued" /\ \A d \in Clients : d # c => pc'[d] = pc[d]
    BY <1>0, <1>1 DEF Arrive, HandshakeInv, KeyInv, UnservedIsBlank, Served, TypeOK, ConnTypeOK
  <2>2. OneServed'
    BY <2>1 DEF OneServed, Served, HandshakeInv, KeyInv
  <2>3. QED
    BY <1>0, <1>1, <2>1, <2>2, QuietStep DEF Arrive, accountVars, histVars, account
<1>2. CASE Accept
  <2>1. Head(backlog) \in Clients
    BY <1>0, <1>2 DEF Accept, TypeOK, ConnTypeOK
  <2>2. \A d \in Clients : d # Head(backlog) => pc'[d] = pc[d]
    BY <1>0, <1>2, <2>1 DEF Accept, TypeOK, ConnTypeOK
  <2>3. pc'[Head(backlog)] = "read" /\ \A d \in Clients : ~Served(d) /\ state[d] = Start
    BY <1>0, <1>2, <2>1 DEF Accept, HandshakeInv, KeyInv, UnservedIsBlank, TypeOK, ConnTypeOK
  <2>4. OneServed'
    BY <2>2, <2>3 DEF OneServed, Served
  <2>5. QED
    BY <1>0, <1>2, <2>2, <2>3, <2>4, QuietStep DEF Accept, accountVars, histVars, account
<1>3. ASSUME NEW c \in Clients, ReadFails(c) PROVE HandshakeInv'
  BY <1>0, <1>3, BailStep DEF ReadFails, Served
<1>4. ASSUME NEW c \in Clients, NEW cmd \in {"Connect", "ReConnect"},
             NEW l \in {"account", "relogin"}, Identify(c, cmd, l)
      PROVE  HandshakeInv'
  <2>0. pc[c] = "read" /\ Served(c)
    BY <1>4 DEF Identify, Served
  <2>1. CASE Bail(c) \/ Reject(c, cmd, "VersionInvalid") \/ Reject(c, cmd, "Failed")
    BY <1>0, <2>0, <2>1, BailStep DEF AuthCommand, ReturnCode
  <2>2. ASSUME NEW u \in Usernames,
               pc' = [pc EXCEPT ![c] = l], req' = [req EXCEPT ![c] = u],
               UNCHANGED <<accountVars, backlog, state, reply, fresh, ckey, procVars, histVars>>
        PROVE  HandshakeInv'
    <3>1. pc'[c] = l /\ \A d \in Clients : d # c => pc'[d] = pc[d]
      BY <1>0, <2>2 DEF TypeOK, ConnTypeOK
    <3>2. LocalInv(c)'
      BY <2>0, <2>2, <3>1, InvIsLocal DEF LocalInv, Served, account, accountVars, histVars
    <3>3. SpentBound'
      BY <2>2 DEF SpentBound, HandshakeInv, TokenOutstanding, histVars
    <3>4. QED BY <1>0, <2>0, <2>2, <3>1, <3>2, <3>3, ServedStep
  <2>3. QED BY <1>4, <2>1, <2>2 DEF Identify
<1>5. ASSUME NEW c \in Clients, Handle(c) PROVE HandshakeInv'
  BY <1>0, <1>5, HandleStep
<1>6. ASSUME NEW c \in Clients,
             RecvProof(c) \/ RecvReProof(c) \/ RecvRealmList(c) \/ ListRealms(c)
      PROVE  HandshakeInv'
  BY <1>0, <1>6, RecvStep
<1>7. CASE Crash
  <2>1. \A d \in Clients : ~Served(d)' /\ state'[d] = Start
    BY <1>7 DEF Crash, Served
  <2>2. OneServed' /\ \A d \in Clients : LocalInv(d)'
    BY <2>1 DEF OneServed, LocalInv, Served, Start
  <2>3. SpentBound'
    BY <1>7 DEF Crash, SpentBound, HandshakeInv, TokenOutstanding
  <2>4. QED BY <1>0, <2>2, <2>3, LocalIsInv
<1>8. CASE Operators
  <2>1. account \subseteq account' /\ UNCHANGED session_key_auth
    <3>1. ASSUME NEW n \in Typed, CreateAccount(n) PROVE account \subseteq account'
      BY <1>0, <3>1 DEF CreateAccount, account, TypeOK, AccountsTypeOK
    <3>2. ASSUME NEW u \in Usernames, CreateRealmCharacters(u) \/ CreateFails(u)
          PROVE  account \subseteq account'
      BY <1>0, <3>2 DEF CreateRealmCharacters, CreateFails, account, TypeOK, AccountsTypeOK
    <3>3. QED
      BY <1>8, <3>1, <3>2 DEF Operators, OperatorNext, SetBan, Tick, AddRealm, CreateAccount,
         CreateRealmCharacters, CreateFails, account
  <2>2. UNCHANGED <<pc, state, req, ckey, fresh, issued, spent, grant>>
    BY <1>8 DEF Operators, connVars, histVars
  <2>3. OneServed'
    BY <2>2 DEF OneServed, Served, HandshakeInv, KeyInv
  <2>4. QED BY <1>0, <2>1, <2>2, <2>3, QuietStep
<1>9. CASE UNCHANGED vars
  BY <1>9 DEF vars, accountVars, connVars, histVars, HandshakeInv, KeyInv, TypeOK,
     AccountsTypeOK, ConnTypeOK, OneServed, Served, UnservedIsBlank, ChallengedExists, account,
     StoringIsChallenged, ListingIsAdmitted, ReloginKeyFresh, ArlyonKeyStored, KeyStored,
     TokenOutstanding
<1>10. CASE AcceptFails
  <2>1. \A d \in Clients : ~Served(d)' /\ state'[d] = Start
    BY <1>10 DEF AcceptFails, Served, HandshakeInv, KeyInv, UnservedIsBlank
  <2>2. OneServed' /\ \A d \in Clients : LocalInv(d)'
    BY <2>1 DEF OneServed, LocalInv, Served, Start
  <2>3. SpentBound'
    BY <1>10 DEF AcceptFails, histVars, SpentBound, HandshakeInv, TokenOutstanding
  <2>4. QED BY <1>0, <2>2, <2>3, LocalIsInv
<1>11. QED
  BY <1>1, <1>2, <1>3, <1>4, <1>5, <1>6, <1>7, <1>8, <1>9, <1>10
  DEF Next, RecvConnect, RecvReConnect

\* No step hands out a nonce that was not drawn.
LEMMA NonceStep ==
    ASSUME TypeOK, NonceBound, [Next]_vars
    PROVE  NonceBound'
<1> USE DEF TypeOK, ConnTypeOK, NonceBound
<1>1. ASSUME NEW c \in Clients, Close(c), fresh' \in {fresh, fresh + 1} PROVE NonceBound'
  BY <1>1 DEF Close
<1>2. ASSUME NEW c \in Clients, NEW s, NEW cmd, Challenge(c, s, cmd) PROVE NonceBound'
  <2>1. CASE Close(c)
    BY <1>1, <1>2, <2>1 DEF Challenge
  <2>2. CASE issued' = [issued EXCEPT ![c] = fresh + 1]
    <3>1. fresh \in Nat /\ fresh' = fresh + 1
      BY <1>2 DEF Challenge
    <3>2. ASSUME NEW d \in Clients PROVE issued'[d] <= fresh'
      <4>1. issued[d] \in Nat /\ issued[d] <= fresh
        OBVIOUS
      <4>2. issued'[d] = issued[d] \/ issued'[d] = fresh + 1
        BY <2>2
      <4>3. QED BY <3>1, <4>1, <4>2
    <3>3. QED BY <3>2
  <2>3. QED BY <1>2, <2>1, <2>2 DEF Challenge
<1>3. ASSUME NEW c \in Clients, Bail(c) \/ \E cmd, code : Reject(c, cmd, code) PROVE NonceBound'
  BY <1>1, <1>3 DEF Bail, Reject
<1>4. ASSUME NEW c \in Clients, Handle(c) PROVE NonceBound'
  <2>1. CASE GetAccount(c) BY <1>3, <2>1 DEF GetAccount, histVars
  <2>2. CASE GetBan(c) BY <1>2, <1>3, <2>2 DEF GetBan
  <2>3. CASE InitiateRelogin(c) BY <1>2, <1>3, <2>3 DEF InitiateRelogin
  <2>4. CASE StoreKey(c) BY <1>1, <2>4 DEF StoreKey, Admit
  <2>5. QED BY <1>4, <2>1, <2>2, <2>3, <2>4 DEF Handle
<1>5. ASSUME NEW c \in Clients,
             \/ RecvProof(c) \/ RecvReProof(c) \/ RecvRealmList(c) \/ ListRealms(c)
             \/ ReadFails(c)
      PROVE  NonceBound'
  <2>1. CASE RecvProof(c) BY <1>3, <2>1 DEF RecvProof, histVars
  <2>2. CASE RecvReProof(c) BY <1>1, <1>3, <2>2 DEF RecvReProof, Admit
  <2>3. CASE RecvRealmList(c) BY <1>3, <2>3 DEF RecvRealmList, histVars
  <2>4. CASE ReadFails(c) BY <1>3, <2>4 DEF ReadFails
  <2>5. CASE ListRealms(c) BY <1>3, <2>5 DEF ListRealms, histVars
  <2>6. QED BY <1>5, <2>1, <2>2, <2>3, <2>4, <2>5
<1>6. ASSUME NEW c \in Clients, Arrive(c) \/ RecvConnect(c) \/ RecvReConnect(c) PROVE NonceBound'
  BY <1>3, <1>6 DEF Arrive, RecvConnect, RecvReConnect, Identify, histVars
<1>7. CASE Accept \/ AcceptFails BY <1>7 DEF Accept, AcceptFails, histVars
<1>8. CASE Crash BY <1>8 DEF Crash
<1>9. CASE Operators \/ UNCHANGED vars BY <1>9 DEF Operators, vars, histVars
<1>10. QED
  BY <1>4, <1>5, <1>6, <1>7, <1>8, <1>9 DEF Next

\* The server starts with the invariant.
LEMMA InvInit == Init => Inv
<1> SUFFICES ASSUME Init PROVE Inv
  OBVIOUS
<1>1. TypeOK
  BY TypeInit
<1>2. QED
  BY <1>1 DEF Init, Inv, HandshakeInv, KeyInv, OneServed, Served, UnservedIsBlank, Start,
     ChallengedExists, StoringIsChallenged, ListingIsAdmitted, ReloginKeyFresh, ArlyonKeyStored,
     KeyStored, TokenOutstanding, NonceBound

\* At most one connection is served, only that one holds a token, a token's
\* nonce is fresh, and the key invariants hold: the inductive invariant.
THEOREM Invariance == Spec => []Inv
<1>1. Inv /\ [Next]_vars => Inv'
  BY HandshakeStep, NonceStep DEF Inv, HandshakeInv, KeyInv
<1>2. QED
  BY InvInit, <1>1, PTL DEF Spec

\* The key a reconnect proof is checked against is the account's key at that
\* moment, for any number of clients and accounts.
THEOREM ReloginKeyIsFresh == Spec => []ReloginKeyFresh
<1>1. Inv => ReloginKeyFresh
  BY DEF Inv, HandshakeInv, KeyInv
<1>2. QED
  BY Invariance, <1>1, PTL

\* A client in the realm list as ARLYON holds the key stored for ARLYON.
THEOREM ArlyonKeyIsStored == Spec => []ArlyonKeyStored
<1>1. Inv => ArlyonKeyStored
  BY DEF Inv, HandshakeInv, KeyInv
<1>2. QED
  BY Invariance, <1>1, PTL

(***************************************************************************)
(* The refinement: every step of the server is a step of ChallengeResponse *)
(* or leaves its variables alone.                                          *)
(***************************************************************************)
Admitted == {c \in Clients : state[c].tag = "Realmlist"}

\* The end of a connection is a Drop.
LEMMA CloseRefines ==
    ASSUME TypeOK, NEW c \in Clients, Close(c)
    PROVE  /\ issued' = [issued EXCEPT ![c] = 0]
           /\ Admitted' = Admitted \ {c}
BY DEF Close, Admitted, TypeOK, ConnTypeOK, Start

\* So is a refusal, or an end without an answer.
LEMMA BailRefines ==
    ASSUME TypeOK, NEW c \in Clients, Bail(c) \/ \E cmd, code : Reject(c, cmd, code)
    PROVE  CR!Drop(c)
BY CloseRefines DEF Bail, Reject, CR!Drop, Admitted

\* Sending a challenge is an Issue, or a Lose if it cannot be written.
LEMMA ChallengeRefines ==
    ASSUME TypeOK, NEW c \in Clients, NEW s, s.tag # "Realmlist", NEW cmd, Challenge(c, s, cmd)
    PROVE  CR!Issue(c) \/ CR!Lose(c)
<1>1. CASE Close(c)
  BY <1>1, CloseRefines DEF Challenge, CR!Lose, Admitted
<1>2. CASE Continue(c, s, cmd) /\ issued' = [issued EXCEPT ![c] = fresh + 1]
  <2>1. Admitted' = Admitted \ {c}
    BY <1>2 DEF Continue, Admitted, TypeOK, ConnTypeOK
  <2>2. QED BY <1>2, <2>1 DEF Challenge, CR!Issue, Admitted
<1>3. QED BY <1>1, <1>2 DEF Challenge

\* An accepted proof is an Admit, or an AdmitGone if the client is gone.
LEMMA AdmitRefines ==
    ASSUME TypeOK, TokenOutstanding, NEW c \in Clients, fresh' = fresh,
           state[c].tag \in {"ConnectChallenge", "ReconnectChallenge"},
           \/ \E cmd, u : Continue(c, Realmlist, cmd) /\ Admit(c, u)
           \/ Close(c) /\ spent' = spent \cup {state[c].nonce}
    PROVE  CR!Admit(c) \/ CR!AdmitGone(c)
<1>1. issued[c] \notin spent \cup {0} /\ state[c].nonce = issued[c]
  BY DEF TokenOutstanding
<1>2. CASE Close(c) /\ spent' = spent \cup {state[c].nonce}
  BY <1>1, <1>2, CloseRefines DEF CR!AdmitGone, Admitted
<1>3. CASE \E cmd, u : Continue(c, Realmlist, cmd) /\ Admit(c, u)
  <2>1. Admitted' = Admitted \cup {c}
    BY <1>3 DEF Continue, Realmlist, Admitted, TypeOK, ConnTypeOK
  <2>2. QED BY <1>1, <1>3, <2>1 DEF Admit, CR!Admit, Admitted
<1>4. QED BY <1>2, <1>3

\* Every step of the server is a step of ChallengeResponse or a stutter.
LEMMA StepRefines ==
    ASSUME Inv, [Next]_vars
    PROVE  [CR!Next]_(CR!vars)
<1>0. TypeOK /\ TokenOutstanding
  BY DEF Inv, HandshakeInv, KeyInv
<1>1. ASSUME NEW c \in Clients, Handle(c) PROVE CR!Next \/ UNCHANGED CR!vars
  <2>1. CASE GetAccount(c)
    BY <1>0, <2>1, BailRefines DEF GetAccount, histVars, CR!Next, CR!vars
  <2>2. CASE GetBan(c)
    BY <1>0, <2>2, BailRefines, ChallengeRefines DEF GetBan, ConnectChallenge, CR!Next
  <2>3. CASE InitiateRelogin(c)
    BY <1>0, <2>3, BailRefines, ChallengeRefines DEF InitiateRelogin, ReconnectChallenge, CR!Next
  <2>4. CASE StoreKey(c)
    <3>1. state[c].tag = "ConnectChallenge" /\ fresh' = fresh
      BY <2>4 DEF StoreKey, Inv, HandshakeInv, KeyInv, StoringIsChallenged
    <3>2. CASE Close(c) /\ UNCHANGED spent
      BY <1>0, <3>1, <3>2, CloseRefines DEF CR!Drop, CR!Next, Admitted
    <3>3. CASE \/ Continue(c, Realmlist, "Proof") /\ Admit(c, state[c].user)
               \/ Close(c) /\ spent' = spent \cup {state[c].nonce}
      BY <1>0, <3>1, <3>3, AdmitRefines DEF CR!Next
    <3>4. QED BY <2>4, <3>2, <3>3 DEF StoreKey
  <2>5. QED BY <1>1, <2>1, <2>2, <2>3, <2>4 DEF Handle
<1>2. ASSUME NEW c \in Clients,
             \/ RecvProof(c) \/ RecvReProof(c) \/ RecvRealmList(c) \/ ListRealms(c)
             \/ ReadFails(c)
      PROVE  CR!Next \/ UNCHANGED CR!vars
  <2>1. CASE RecvProof(c)
    BY <1>0, <2>1, BailRefines DEF RecvProof, histVars, CR!Next, CR!vars
  <2>2. CASE RecvReProof(c)
    <3>1. CASE Bail(c) \/ Reject(c, "ReConnect", "IncorrectPassword")
      BY <1>0, <3>1, BailRefines DEF CR!Next
    <3>2. CASE /\ state[c].tag = "ReconnectChallenge"
               /\ \/ Continue(c, Realmlist, "ReProof") /\ Admit(c, state[c].user)
                  \/ Close(c) /\ spent' = spent \cup {state[c].nonce}
      BY <1>0, <2>2, <3>2, AdmitRefines DEF RecvReProof, CR!Next
    <3>3. QED BY <2>2, <3>1, <3>2 DEF RecvReProof
  <2>3. CASE RecvRealmList(c)
    BY <1>0, <2>3, BailRefines DEF RecvRealmList, histVars, CR!Next, CR!vars
  <2>4. CASE ReadFails(c)
    BY <1>0, <2>4, BailRefines DEF ReadFails, CR!Next
  <2>5. CASE ListRealms(c)
    <3>1. CASE Bail(c) BY <1>0, <3>1, BailRefines DEF CR!Next
    <3>2. CASE /\ Continue(c, Realmlist, "RealmList")
               /\ UNCHANGED <<accountVars, fresh, ckey, procVars, histVars>>
      <4>1. state[c].tag = "Realmlist"
        BY <2>5 DEF ListRealms, Inv, HandshakeInv, KeyInv, ListingIsAdmitted
      <4>2. Admitted' = Admitted
        BY <1>0, <3>2, <4>1 DEF Continue, Realmlist, Admitted, TypeOK, ConnTypeOK
      <4>3. QED BY <3>2, <4>2 DEF histVars, CR!vars, Admitted
    <3>3. QED BY <2>5, <3>1, <3>2 DEF ListRealms
  <2>6. QED BY <1>2, <2>1, <2>2, <2>3, <2>4, <2>5
<1>3. ASSUME NEW c \in Clients, Arrive(c) \/ RecvConnect(c) \/ RecvReConnect(c)
      PROVE  CR!Next \/ UNCHANGED CR!vars
  BY <1>0, <1>3, BailRefines
  DEF Arrive, RecvConnect, RecvReConnect, Identify, histVars, CR!Next, CR!vars
<1>4. CASE Accept \/ AcceptFails \/ Operators \/ UNCHANGED vars
  BY <1>4 DEF Accept, AcceptFails, Operators, vars, connVars, histVars, CR!vars
<1>5. CASE Crash
  <2>1. Admitted' = {}
    BY <1>5 DEF Crash, Admitted, Start
  <2>2. QED BY <1>5, <2>1 DEF Crash, CR!DropAll, CR!Next, Admitted
<1>6. QED
  BY <1>1, <1>2, <1>3, <1>4, <1>5 DEF Next

\* The login server implements ChallengeResponse: a client gets to the realm
\* list only by answering the last challenge of its present connection, and
\* every challenge admits at most once, across reconnects, errors and crashes.
THEOREM Refinement == Spec => ImplementsChallengeResponse
<1>1. Init => CR!Init
  BY DEF Init, CR!Init, Start
<1>2. Inv /\ [Next]_vars => [CR!Next]_(CR!vars)
  BY StepRefines
<1>3. QED
  BY <1>1, <1>2, Invariance, PTL DEF Spec, CR!Spec, ImplementsChallengeResponse

(***************************************************************************)
(* The account tables: only operators change accounts and bans, and of the *)
(* steps that follow the question about bans only GetBan answers it.       *)
(***************************************************************************)

\* No step of the login server changes anything but the key column.
LEMMA OnlyOperators ==
    ASSUME [Next]_vars, ~OperatorNext
    PROVE  UNCHANGED <<creation, realmVars, account_banned, now>>
<1> USE DEF accountVars
<1>1. ASSUME NEW c \in Clients, Bail(c) \/ \E cmd, code : Reject(c, cmd, code)
      PROVE  UNCHANGED <<creation, realmVars, account_banned, now>>
  BY <1>1 DEF Bail, Reject
<1>2. ASSUME NEW c \in Clients, NEW cmd, NEW l, Identify(c, cmd, l)
      PROVE  UNCHANGED <<creation, realmVars, account_banned, now>>
  BY <1>1, <1>2 DEF Identify
<1>3. ASSUME NEW c \in Clients,
             \/ Arrive(c) \/ ReadFails(c) \/ RecvConnect(c) \/ RecvReConnect(c)
             \/ RecvProof(c) \/ RecvReProof(c) \/ RecvRealmList(c) \/ ListRealms(c)
      PROVE  UNCHANGED <<creation, realmVars, account_banned, now>>
  BY <1>1, <1>2, <1>3 DEF Arrive, ReadFails, RecvConnect, RecvReConnect, RecvProof, RecvReProof,
     RecvRealmList, ListRealms
<1>4. ASSUME NEW c \in Clients, Handle(c)
      PROVE  UNCHANGED <<creation, realmVars, account_banned, now>>
  BY <1>1, <1>4 DEF Handle, GetAccount, GetBan, InitiateRelogin, StoreKey, Challenge,
     TablesButSession
<1>5. CASE Accept \/ AcceptFails \/ Crash
  BY <1>5 DEF Accept, AcceptFails, Crash
<1>6. CASE UNCHANGED vars
  BY <1>6 DEF vars
<1>7. QED BY <1>3, <1>4, <1>5, <1>6 DEF Next, Operators

\* Rows keep meaning what was asked for.
LEMMA BansStep ==
    ASSUME TypeOK, BansAsAsked, [Next]_vars
    PROVE  BansAsAsked' /\ (0 \notin Durations /\ TermsHaveLength => TermsHaveLength')
<1> USE BoundsAssumption DEF BansAsAsked, TermsHaveLength
<1>0. now \in Nat /\ account_banned \in SUBSET BanRow
  BY DEF TypeOK, AccountsTypeOK
<1>1. ASSUME NEW u \in Usernames, NEW d \in Durations, SetBan(u, d, FALSE)
      PROVE  BansAsAsked' /\ (0 \notin Durations /\ TermsHaveLength => TermsHaveLength')
  BY <1>0, <1>1 DEF SetBan, Never
<1>2. ASSUME NEW u \in Usernames, SetBan(u, Never, TRUE)
      PROVE  BansAsAsked' /\ (TermsHaveLength => TermsHaveLength')
  BY <1>0, <1>2 DEF SetBan, Never
<1>3. CASE Tick
  BY <1>0, <1>3 DEF Tick
<1>4. CASE UNCHANGED <<account_banned, now>>
  BY <1>4
<1>5. QED
  BY <1>1, <1>2, <1>3, <1>4, OnlyOperators
     DEF OperatorNext, CreateAccount, CreateRealmCharacters, CreateFails, AddRealm

\* What the tables start with.
LEMMA BansInit == Init => BansAsAsked /\ TermsHaveLength
BY DEF Init, AccountsInit, BansAsAsked, TermsHaveLength

\* While the server waits for the answer about c's bans, only that answer
\* challenges c or replies to it.
LEMMA OnlyGetBan ==
    ASSUME TypeOK, [Next]_vars, NEW c \in Clients, pc[c] = "bans",
           LetIn(c) \/ Refused(c)
    PROVE  GetBan(c)
<1> USE DEF TypeOK, ConnTypeOK
<1>1. /\ state'[c] # state[c] \/ reply'[c] # reply[c]
      /\ state'[c].tag = "ConnectChallenge" \/ reply'[c] # reply[c]
  BY DEF LetIn, Refused
<1>2. ASSUME NEW d \in Clients, d # c, Bail(d) \/ \E cmd, code : Reject(d, cmd, code)
      PROVE  state'[c] = state[c] /\ reply'[c] = reply[c]
  BY <1>2 DEF Bail, Reject, Close
<1>3. ASSUME NEW d \in Clients, d # c, NEW s, NEW cmd, Continue(d, s, cmd) \/ Challenge(d, s, cmd)
      PROVE  state'[c] = state[c] /\ reply'[c] = reply[c]
  BY <1>3 DEF Challenge, Continue, Close
<1>4. ASSUME NEW d \in Clients, NEW cmd, NEW l, Identify(d, cmd, l) PROVE FALSE
  BY <1>1, <1>2, <1>4 DEF Identify
<1>5. ASSUME NEW d \in Clients, Arrive(d) PROVE FALSE
  BY <1>1, <1>5 DEF Arrive
<1>6. ASSUME NEW d \in Clients,
             \/ ReadFails(d) \/ RecvProof(d) \/ RecvReProof(d) \/ RecvRealmList(d)
             \/ ListRealms(d)
      PROVE  FALSE
  <2>1. d # c
    BY <1>6 DEF ReadFails, RecvProof, RecvReProof, RecvRealmList, ListRealms
  <2>2. QED
    BY <1>1, <1>2, <1>3, <1>6, <2>1 DEF ReadFails, RecvProof, RecvReProof, RecvRealmList,
       ListRealms, Close
<1>7. ASSUME NEW d \in Clients, GetAccount(d) \/ InitiateRelogin(d) \/ StoreKey(d)
      PROVE  FALSE
  <2>1. d # c
    BY <1>7 DEF GetAccount, InitiateRelogin, StoreKey
  <2>2. QED
    BY <1>1, <1>2, <1>3, <1>7, <2>1 DEF GetAccount, InitiateRelogin, StoreKey, Close
<1>8. ASSUME NEW d \in Clients, GetBan(d) PROVE d = c
  BY <1>1, <1>2, <1>3, <1>8 DEF GetBan
<1>9. CASE Accept \/ AcceptFails \/ Operators \/ UNCHANGED vars
  BY <1>1, <1>9 DEF Accept, AcceptFails, Operators, connVars, vars
<1>10. CASE Crash
  BY <1>1, <1>10 DEF Crash, Start
<1>11. QED
  BY <1>4, <1>5, <1>6, <1>7, <1>8, <1>9, <1>10 DEF Next, RecvConnect, RecvReConnect, Handle

\* A challenge is an answer "None" about some row, or about no row at all.
LEMMA LetInByNone ==
    ASSUME TypeOK, BansAsAsked, NEW c \in Clients, LetIn(c), GetBan(c)
    PROVE  BansOf(req[c]) = {} \/ \E r \in BansOf(req[c]) : ~InForce(r)
<1>1. "None" \in FetchedBan(req[c])
  <2>1. ASSUME NEW cmd, NEW code, Reject(c, cmd, code) PROVE FALSE
    BY <2>1 DEF LetIn, Reject, Close, Start, TypeOK, ConnTypeOK
  <2>2. QED BY <2>1 DEF GetBan
<1>2. CASE BansOf(req[c]) # {}
  <2>1. PICK r \in BansOf(req[c]) : BanStatus(r) = "None"
    BY <1>1, <1>2 DEF FetchedBan
  <2>2. r \in account_banned /\ r \in BanRow /\ now \in Nat
    BY DEF BansOf, TypeOK, AccountsTypeOK
  <2>3. r.unbandate # r.bandate /\ ~(r.unbandate > now)
    BY <2>1 DEF BanStatus
  <2>4. QED BY <2>2, <2>3 DEF BansAsAsked, InForce
<1>3. QED BY <1>2

\* A refusal is an answer "Permanent" or "Temporary" about some row.
LEMMA RefusedByBan ==
    ASSUME TypeOK, BansAsAsked, TermsHaveLength, NEW c \in Clients, Refused(c), GetBan(c)
    PROVE  \E r \in BansOf(req[c]) : InForce(r)
<1>1. "Permanent" \in FetchedBan(req[c]) \/ "Temporary" \in FetchedBan(req[c])
  <2>1. ASSUME Reject(c, "Connect", "Failed") PROVE FALSE
    BY <2>1 DEF Refused, Reject, TypeOK
  <2>2. ASSUME NEW s, Challenge(c, s, "Connect") PROVE FALSE
    BY <2>2 DEF Refused, Challenge, Continue, TypeOK
  <2>3. QED BY <2>1, <2>2 DEF GetBan
<1>2. PICK r \in BansOf(req[c]) : BanStatus(r) \in {"Permanent", "Temporary"}
  BY <1>1 DEF FetchedBan
<1>3. r \in account_banned
  BY DEF BansOf
<1>4. r.unbandate = r.bandate \/ r.unbandate > now
  BY <1>2 DEF BanStatus
<1>5. QED BY <1>3, <1>4 DEF BansAsAsked, TermsHaveLength, InForce

\* A user all of whose bans are in force is never challenged, whatever operators
\* and the clock do while its login is in progress.
THEOREM BannedUserIsRefused == Spec => AllBansRefuse
<1>1. TypeOK /\ BansAsAsked /\ [Next]_vars => BansAsAsked'
  BY BansStep
<1>2. TypeOK /\ BansAsAsked /\ [Next]_vars =>
        [\A c \in Clients : LetIn(c) =>
            BansOf(req[c]) = {} \/ \E r \in BansOf(req[c]) : ~InForce(r)]_vars
  BY OnlyGetBan, LetInByNone DEF LetIn
<1>3. QED BY TypeCorrect, BansInit, <1>1, <1>2, PTL DEF Spec, AllBansRefuse

\* If no ban of zero length is ever asked for, nobody is refused for bans that
\* have all run their term. (A zero length is stored as a ban without end.)
THEOREM BanTermIsHonoured ==
    ASSUME 0 \notin Durations
    PROVE  Spec => TermHonoured
<1>1. TypeOK /\ BansAsAsked /\ TermsHaveLength /\ [Next]_vars => BansAsAsked' /\ TermsHaveLength'
  BY BansStep
<1>2. TypeOK /\ BansAsAsked /\ TermsHaveLength /\ [Next]_vars =>
        [\A c \in Clients : Refused(c) => \E r \in BansOf(req[c]) : InForce(r)]_vars
  BY OnlyGetBan, RefusedByBan DEF Refused
<1>3. QED BY TypeCorrect, BansInit, <1>1, <1>2, PTL DEF Spec, TermHonoured

\* Every step keeps it that an account has no realmcharacters rows, or all those
\* of the realms that were there when it was inserted.
LEMMA RowsStep ==
    ASSUME TypeOK, RowsAllOrNone, [Next]_vars
    PROVE  RowsAllOrNone'
<1> USE NamesAssumption DEF TypeOK, AccountsTypeOK, RowsAllOrNone, account
<1>1. ASSUME NEW n \in Typed, CreateAccount(n) PROVE RowsAllOrNone'
  <2>1. Upper[n] \in Usernames
    BY <1>1 DEF CreateAccount, Usernames
  <2>2. QED BY <1>1, <2>1 DEF CreateAccount
<1>2. ASSUME NEW u \in Usernames, CreateRealmCharacters(u) PROVE RowsAllOrNone'
  BY <1>2 DEF CreateRealmCharacters, WithRealmCharacters
<1>3. ASSUME NEW u \in Usernames, CreateFails(u) PROVE RowsAllOrNone'
  BY <1>3 DEF CreateFails, WithRealmCharacters
<1>4. ASSUME NEW r \in Listable, AddRealm(r) PROVE RowsAllOrNone'
  BY <1>4 DEF AddRealm
<1>5. CASE UNCHANGED <<creation, realmVars>>
  BY <1>5
<1>6. QED
  BY <1>1, <1>2, <1>3, <1>4, <1>5, OnlyOperators DEF OperatorNext, SetBan, Tick

\* After a create_account that returns an id every account has rows for the
\* realms that were in realmlist when it was inserted, whoever's second
\* statement failed, was lost or ran early, and whatever realms were added.
THEOREM CreateRepairsAll == Spec => SuccessRepairsAll
<1>1. ASSUME TypeOK, RowsAllOrNone, [Next]_vars,
             NEW u \in Usernames, creation[u] = "inserted", creation'[u] = "ok",
             NEW w \in account'
      PROVE  known'[w] \subseteq realmcharacters'[w]
  <2> USE DEF TypeOK, AccountsTypeOK
  <2>1. ASSUME NEW n \in Typed, CreateAccount(n) PROVE FALSE
    BY <1>1, <2>1 DEF CreateAccount
  <2>2. ASSUME NEW v \in Usernames, CreateFails(v) PROVE FALSE
    BY <1>1, <2>2 DEF CreateFails
  <2>3. ASSUME UNCHANGED creation PROVE FALSE
    BY <1>1, <2>3
  <2>4. ASSUME NEW v \in Usernames, CreateRealmCharacters(v)
        PROVE  known'[w] \subseteq realmcharacters'[w]
    <3>1. w \in account
      BY <1>1, <2>4 DEF CreateRealmCharacters, account
    <3>2. QED
      BY <1>1, <2>4, <3>1 DEF CreateRealmCharacters, WithRealmCharacters, RowsAllOrNone, account
  <2>5. QED
    BY <1>1, <2>1, <2>2, <2>3, <2>4, OnlyOperators DEF OperatorNext, SetBan, Tick, AddRealm
<1>2. TypeOK /\ RowsAllOrNone /\ [Next]_vars =>
        [(\E u \in Usernames : creation[u] = "inserted" /\ creation'[u] = "ok")
            => \A v \in account' : known'[v] \subseteq realmcharacters'[v]]_accountVars
  BY <1>1
<1>3. Init => RowsAllOrNone
  BY DEF Init, AccountsInit, RowsAllOrNone, account
<1>4. TypeOK /\ RowsAllOrNone /\ [Next]_vars => RowsAllOrNone'
  BY RowsStep
<1>5. QED BY TypeCorrect, <1>2, <1>3, <1>4, PTL DEF Spec, SuccessRepairsAll
=============================================================================
