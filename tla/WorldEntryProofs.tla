-------------------------- MODULE WorldEntryProofs --------------------------
(***************************************************************************)
(* Proofs about WorldEntry: what the login server's invariant is worth to  *)
(* a client that goes on to a realm.                                       *)
(***************************************************************************)
EXTENDS WorldEntry, AuthServerProofs

\* What a step of connection c may do to the client d: end with d out of the
\* realm list, leave d as it was, or let d into the realm list with a key.
Harmless(d) ==
    state'[d].tag = "Realmlist" =>
        \/ /\ state[d].tag = "Realmlist"
           /\ grant'[d] = grant[d] /\ ckey'[d] = ckey[d]
        \/ state[d].tag # "Realmlist" /\ ckey'[d] # NoKey

\* The end of a connection is harmless.
LEMMA CloseHarmless ==
    ASSUME TypeOK, NEW c \in Clients, Close(c), UNCHANGED ckey, NEW d \in Clients
    PROVE  Harmless(d)
BY DEF Close, Harmless, TypeOK, ConnTypeOK, Start

\* So are a refusal and an end without answer.
LEMMA RejectHarmless ==
    ASSUME TypeOK, NEW c \in Clients, NEW d \in Clients,
           Bail(c) \/ \E cmd, code : Reject(c, cmd, code)
    PROVE  Harmless(d)
BY CloseHarmless DEF Bail, Reject

\* So is a challenge of either kind.
LEMMA ChallengeHarmless ==
    ASSUME TypeOK, NEW c \in Clients, NEW d \in Clients, NEW s, NEW cmd,
           Challenge(c, s, cmd), s.tag # "Realmlist"
    PROVE  Harmless(d)
<1>1. CASE Close(c)
  BY <1>1, CloseHarmless DEF Challenge
<1>2. CASE /\ Continue(c, s, cmd)
           /\ grant' = [grant EXCEPT ![c] = NoUser]
  BY <1>2 DEF Challenge, Continue, Harmless, TypeOK, ConnTypeOK
<1>3. QED BY <1>1, <1>2 DEF Challenge

\* Admitting the client of c with a key is harmless.
LEMMA AdmitHarmless ==
    ASSUME TypeOK, NEW c \in Clients, NEW d \in Clients, NEW u, NEW cmd,
           Continue(c, Realmlist, cmd), Admit(c, u), UNCHANGED ckey,
           state[c].tag # "Realmlist", ckey[c] # NoKey
    PROVE  Harmless(d)
BY DEF Continue, Admit, Harmless, TypeOK, ConnTypeOK, Realmlist

\* A database answer is harmless.
LEMMA HandleHarmless ==
    ASSUME Inv, NEW c \in Clients, NEW d \in Clients, Handle(c)
    PROVE  Harmless(d)
<1>0. TypeOK
  BY DEF Inv, HandshakeInv, KeyInv
<1>1. CASE GetAccount(c)
  BY <1>0, <1>1, RejectHarmless DEF GetAccount, Harmless, histVars
<1>2. CASE GetBan(c)
  BY <1>0, <1>2, RejectHarmless, ChallengeHarmless DEF GetBan, ConnectChallenge
<1>3. CASE InitiateRelogin(c)
  BY <1>0, <1>3, RejectHarmless, ChallengeHarmless DEF InitiateRelogin, ReconnectChallenge
<1>4. CASE StoreKey(c)
  <2>1. state[c].tag = "ConnectChallenge" /\ ckey[c] = state[c].nonce /\ ckey[c] # NoKey
    BY <1>4 DEF StoreKey, Inv, HandshakeInv, KeyInv, StoringIsChallenged, TokenOutstanding, NoKey
  <2>2. QED
    BY <1>0, <1>4, <2>1, CloseHarmless, AdmitHarmless DEF StoreKey
<1>5. QED
  BY <1>1, <1>2, <1>3, <1>4 DEF Handle

\* A message is harmless, and so is the realm list.
LEMMA RecvHarmless ==
    ASSUME Inv, NEW c \in Clients, NEW d \in Clients,
           RecvProof(c) \/ RecvReProof(c) \/ RecvRealmList(c) \/ ListRealms(c)
    PROVE  Harmless(d)
<1>0. TypeOK
  BY DEF Inv, HandshakeInv, KeyInv
<1>1. CASE RecvProof(c)
  <2>1. CASE Bail(c) \/ \E cmd, code : Reject(c, cmd, code)
    BY <1>0, <2>1, RejectHarmless
  <2>2. ASSUME state[c].tag = "ConnectChallenge", NEW n, ckey' = [ckey EXCEPT ![c] = n],
               UNCHANGED <<state, grant>>
        PROVE  Harmless(d)
    BY <1>0, <2>2 DEF Harmless, TypeOK
  <2>3. QED BY <1>1, <2>1, <2>2 DEF RecvProof, histVars
<1>2. CASE RecvReProof(c)
  <2>1. CASE Bail(c) \/ \E cmd, code : Reject(c, cmd, code)
    BY <1>0, <2>1, RejectHarmless
  <2>2. CASE Close(c)
    BY <1>0, <1>2, <2>2, CloseHarmless DEF RecvReProof
  <2>3. ASSUME state[c].tag = "ReconnectChallenge", NEW n, NEW k \in {NoKey, ckey[c]},
               Accepts(state[c], n, k = state[c].key), UNCHANGED ckey,
               Continue(c, Realmlist, "ReProof"), Admit(c, state[c].user)
        PROVE  Harmless(d)
    <3>1. state[c].key # NoKey
      BY <1>0, <2>3 DEF TypeOK, ConnTypeOK, RequestStates
    <3>2. ckey[c] # NoKey
      BY <2>3, <3>1 DEF Accepts
    <3>3. QED BY <1>0, <2>3, <3>2, AdmitHarmless
  <2>4. QED BY <1>2, <2>1, <2>2, <2>3 DEF RecvReProof
<1>3. CASE RecvRealmList(c)
  BY <1>0, <1>3, RejectHarmless DEF RecvRealmList, Harmless, histVars
<1>4. CASE ListRealms(c)
  <2>1. CASE Bail(c)
    BY <1>0, <2>1, RejectHarmless
  <2>2. CASE Continue(c, Realmlist, "RealmList") /\ UNCHANGED <<ckey, grant>>
    <3>1. state[c].tag = "Realmlist"
      BY <1>4 DEF ListRealms, Inv, HandshakeInv, KeyInv, ListingIsAdmitted
    <3>2. QED BY <1>0, <2>2, <3>1 DEF Continue, Harmless, TypeOK, ConnTypeOK, Realmlist
  <2>3. QED BY <1>4, <2>1, <2>2 DEF ListRealms, histVars
<1>5. QED BY <1>1, <1>2, <1>3, <1>4

\* Every step of the login server is harmless to every client.
LEMMA LoginHarmless ==
    ASSUME Inv, Next, NEW d \in Clients
    PROVE  Harmless(d)
<1>0. TypeOK
  BY DEF Inv, HandshakeInv, KeyInv
<1>1. ASSUME NEW c \in Clients, RecvConnect(c) \/ RecvReConnect(c) PROVE Harmless(d)
  BY <1>0, <1>1, RejectHarmless DEF RecvConnect, RecvReConnect, Identify, Harmless, histVars
<1>2. ASSUME NEW c \in Clients, Arrive(c) \/ ReadFails(c) PROVE Harmless(d)
  BY <1>0, <1>2, RejectHarmless DEF Arrive, ReadFails, Harmless, histVars
<1>3. CASE Accept \/ AcceptFails \/ Operators
  BY <1>3 DEF Accept, AcceptFails, Operators, Harmless, histVars, connVars
<1>4. CASE Crash
  BY <1>4 DEF Crash, Harmless, Start
<1>5. QED
  BY <1>1, <1>2, <1>3, <1>4, HandleHarmless, RecvHarmless DEF Next

(***************************************************************************)
(* The invariant of the request in progress.                               *)
(***************************************************************************)

\* A response code with its place in the loop keeps the types.
LEMMA AnswerTypes ==
    ASSUME EntryTypeOK, NEW p \in {"none", "in", "refused"},
           NEW code \in ResponseCode \cup {NoCode}, Answer(p, code)
    PROVE  EntryTypeOK'
BY DEF EntryTypeOK, Answer, InQueries

\* An answer that the key fetched and the proof justify keeps the invariant.
LEMMA AnswerStep ==
    ASSUME Inv, EntryInv, NEW p \in {"none", "in", "refused"},
           NEW code \in ResponseCode \cup {NoCode}, Answer(p, code),
           code = "RealmListRealmNotFound" => FALSE,
           code = "AuthOk" => entry.pc = "bans" /\ entry.key = entry.proof,
           code = "AuthReject" => entry.pc = "bans" /\ entry.key # entry.proof,
           code = "AuthSessionExpired" => entry.pc = "bans" /\ entry.key = NoKey
    PROVE  EntryInv'
<1>1. EntryTypeOK'
  BY AnswerTypes DEF EntryInv
<1>2. /\ entry'.pc = p /\ entry'.code = code
      /\ entry'.client = entry.client /\ entry'.user = entry.user
      /\ entry'.realm = entry.realm
      /\ entry'.proof = entry.proof /\ entry'.key = entry.key
      /\ UNCHANGED <<seen, stayed, state, ckey, grant, session_key_auth>>
  BY DEF Answer, EntryInv, EntryTypeOK, vars, accountVars, connVars, histVars
<1>3. KeySeen' /\ KeyHeld' /\ StayedMeans' /\ StayedKey'
  BY <1>2 DEF EntryInv, KeySeen, KeyHeld, StayedMeans, StayedKey, InQueries, InRealmList
<1>4. EntryLinearizable'
  BY <1>2 DEF EntryInv, EntryLinearizable, KeySeen, NoCode
<1>5. StayingClientEnters'
  <2>1. stayed /\ entry.user = Arlyon => code \notin {"AuthReject", "AuthSessionExpired"}
    <3> SUFFICES ASSUME stayed, entry.user = Arlyon,
                        code \in {"AuthReject", "AuthSessionExpired"}
                 PROVE  FALSE
      OBVIOUS
    <3>1. entry.pc = "bans" /\ entry.key = entry.proof
      BY DEF EntryInv, StayedKey
    <3>2. entry.proof # NoKey
      BY DEF EntryInv, EntryTypeOK, StayedMeans, KeyHeld, InRealmList
    <3>3. QED BY <3>1, <3>2
  <2>2. QED
    BY <1>2, <2>1 DEF StayingClientEnters, ResponseCode
<1>6. QED
  BY <1>1, <1>3, <1>4, <1>5 DEF EntryInv

\* A client that connects is where the invariant wants it.
LEMMA EnterStep ==
    ASSUME Inv, EntryInv, NEW c \in Clients, NEW r \in RealmIds, EnterWorld(c, r)
    PROVE  EntryInv'
<1>0. UNCHANGED <<login, state, ckey, grant, session_key_auth>> /\ login[c] \in Usernames
      /\ session_key_auth \in [Usernames -> Nat] /\ ckey \in [Clients -> Nat]
  BY DEF EnterWorld, EntryInv, EntryTypeOK, Inv, HandshakeInv, KeyInv, TypeOK, AccountsTypeOK,
         vars, accountVars, connVars, histVars
<1>1. /\ entry'.pc \in {"account", "refused"}
      /\ entry'.client = c /\ entry'.user = login[c] /\ entry'.realm = r
      /\ entry'.proof = ckey[c] /\ entry'.key = NoKey
      /\ entry'.code \in {NoCode, "RealmListRealmNotFound"}
      /\ entry'.pc = "account" => entry'.code = NoCode
      /\ seen' = {session_key_auth[login[c]]}
      /\ stayed' = InRealmList(c, login[c])
  BY DEF EnterWorld
<1>2. EntryTypeOK'
  <2>1. stayed' \in BOOLEAN
    BY <1>1 DEF InRealmList
  <2>2. entry' \in [pc : {"none", "account", "bans", "in", "refused"},
                    client : Clients, user : Usernames \cup {NoUser},
                    realm : RealmIds \cup {0}, proof : Nat, key : Nat,
                    code : ResponseCode \cup {NoCode}]
    BY <1>0 DEF EnterWorld, ResponseCode, NoKey
  <2>3. QED
    BY <1>0, <1>1, <2>1, <2>2 DEF EntryTypeOK, EntryInv, InQueries, EnterWorld
<1>3. KeySeen' /\ KeyHeld' /\ StayedMeans' /\ StayedKey'
  BY <1>0, <1>1 DEF EntryInv, KeySeen, KeyHeld, StayedMeans, StayedKey, InQueries, InRealmList
<1>4. EntryLinearizable'
  BY <1>1 DEF EntryLinearizable, NoCode
<1>5. StayingClientEnters'
  <2>1. r < 256 => RealmFound(r)
    BY EntryAssumption DEF RealmFound, ListedId
  <2>2. r < 256 => entry'.code = NoCode
    BY <2>1 DEF EnterWorld
  <2>3. QED BY <1>1, <2>2 DEF StayingClientEnters
<1>6. QED
  BY <1>2, <1>3, <1>4, <1>5 DEF EntryInv

\* The first query of the world server.
LEMMA FetchStep ==
    ASSUME Inv, EntryInv, FetchAccount
    PROVE  EntryInv'
<1>0. /\ session_key_auth \in [Usernames -> Nat] /\ entry.user \in Usernames
      /\ UNCHANGED <<login, seen, stayed, state, ckey, grant, session_key_auth>>
  BY DEF FetchAccount, account, Inv, HandshakeInv, KeyInv, TypeOK, AccountsTypeOK,
         vars, accountVars, connVars, histVars
<1>1. /\ entry'.pc = "bans" /\ entry'.key = session_key_auth[entry.user]
      /\ entry'.client = entry.client /\ entry'.user = entry.user
      /\ entry'.realm = entry.realm
      /\ entry'.proof = entry.proof /\ entry'.code = entry.code /\ entry.pc = "account"
  BY DEF FetchAccount, EntryInv, EntryTypeOK
<1>2. EntryTypeOK'
  BY <1>0, <1>1 DEF FetchAccount, EntryInv, EntryTypeOK, InQueries
<1>3. KeySeen' /\ KeyHeld' /\ StayedMeans'
  BY <1>0, <1>1 DEF EntryInv, KeySeen, KeyHeld, StayedMeans, InQueries, InRealmList
<1>4. StayedKey'
  BY <1>0, <1>1 DEF EntryInv, EntryTypeOK, StayedKey, StayedMeans, InRealmList, Inv,
     HandshakeInv, KeyInv, ArlyonKeyStored, KeyStored
<1>5. EntryLinearizable' /\ StayingClientEnters'
  BY <1>0, <1>1 DEF EntryInv, EntryLinearizable, StayingClientEnters
<1>6. QED
  BY <1>2, <1>3, <1>4, <1>5 DEF EntryInv

\* A step of the login server, whatever the world server is doing.
LEMMA LoginStep ==
    ASSUME Inv, Inv', EntryInv, Login
    PROVE  EntryInv'
<1>0. /\ TypeOK' /\ UNCHANGED entry /\ Next /\ entry.client \in Clients
      /\ \A d \in Clients : Harmless(d)
  BY LoginHarmless DEF Login, Inv, HandshakeInv, KeyInv, EntryInv, EntryTypeOK
<1>1. InQueries => entry.user \in Usernames
  BY DEF EntryInv, EntryTypeOK
<1>2. EntryTypeOK'
  <2>1. login' \in [Clients -> Usernames \cup {NoUser}]
    BY <1>0 DEF Login, TypeOK, ConnTypeOK, EntryInv, EntryTypeOK
  <2>2. seen' \in SUBSET Nat
    <3>1. session_key_auth' \in [Usernames -> Nat] /\ seen \in SUBSET Nat
      BY <1>0 DEF TypeOK, AccountsTypeOK, EntryInv, EntryTypeOK
    <3>2. CASE InQueries
      BY <1>1, <3>1, <3>2 DEF Login
    <3>3. CASE ~InQueries
      BY <3>1, <3>3 DEF Login
    <3>4. QED BY <3>2, <3>3
  <2>3. stayed' \in BOOLEAN
    BY DEF Login, EntryInv, EntryTypeOK
  <2>4. QED
    BY <1>0, <2>1, <2>2, <2>3 DEF EntryInv, EntryTypeOK, InQueries
<1>3. KeySeen'
  BY <1>0 DEF Login, EntryInv, KeySeen, InQueries
<1>4. KeyHeld'
  BY <1>0 DEF EntryInv, KeyHeld, Harmless
<1>5. StayedMeans'
  BY <1>0 DEF Login, EntryInv, EntryTypeOK, StayedMeans, InRealmList, Harmless
<1>6. StayedKey' /\ StayingClientEnters'
  BY <1>0 DEF Login, EntryInv, StayedKey, StayingClientEnters
<1>7. EntryLinearizable'
  <2>1. CASE InQueries
    BY <1>0, <2>1 DEF EntryInv, EntryTypeOK, EntryLinearizable, NoCode
  <2>2. CASE ~InQueries
    BY <1>0, <2>2 DEF Login, EntryInv, EntryLinearizable
  <2>3. QED BY <2>1, <2>2
<1>8. QED
  BY <1>2, <1>3, <1>4, <1>5, <1>6, <1>7 DEF EntryInv

\* A step of the world server.
LEMMA WorldStep ==
    ASSUME Inv, EntryInv, World
    PROVE  EntryInv'
<1>1. CASE UnknownAccount
  BY <1>1, AnswerStep DEF UnknownAccount, ResponseCode
<1>2. CASE FetchBan
  BY <1>2, AnswerStep DEF FetchBan, ProofMatches, ResponseCode
<1>3. CASE EntryEnds
  BY <1>3, AnswerStep DEF EntryEnds, NoCode
<1>4. QED
  BY <1>1, <1>2, <1>3, EnterStep, FetchStep DEF World

\* The composed system starts with the invariant.
LEMMA EntryInitInv == EntryInit => EntryInv
<1> SUFFICES ASSUME EntryInit PROVE EntryInv
  OBVIOUS
<1>1. NoEntry.client \in Clients
  BY EntryAssumption DEF NoEntry
<1>2. EntryTypeOK
  BY <1>1 DEF EntryInit, EntryTypeOK, NoEntry, InQueries, NoKey
<1>3. QED
  BY <1>2 DEF EntryInit, Init, Start, EntryInv, KeySeen, KeyHeld, StayedMeans, StayedKey,
     EntryLinearizable, StayingClientEnters, NoEntry, InQueries, NoCode

\* The composition keeps the login server's invariant and that of the request:
\* the world server's steps change nothing of the login server's, and a login in
\* progress cannot take a client in the realm list by surprise.
THEOREM EntryInvariance == EntrySpec => [](Inv /\ EntryInv)
<1>1. EntryInit => Inv /\ EntryInv
  BY InvInit, EntryInitInv DEF EntryInit
<1>2. Inv /\ EntryInv /\ [EntryNext]_allVars => (Inv /\ EntryInv)'
  <2> SUFFICES ASSUME Inv, EntryInv, [EntryNext]_allVars PROVE Inv' /\ EntryInv'
    OBVIOUS
  <2>1. [Next]_vars
    BY DEF EntryNext, World, Login, EnterWorld, UnknownAccount, FetchAccount, FetchBan,
           EntryEnds, Answer, allVars
  <2>2. Inv'
    BY <2>1, HandshakeStep, NonceStep DEF Inv, HandshakeInv, KeyInv
  <2>3. CASE UNCHANGED allVars
    BY <2>2, <2>3 DEF allVars, vars, accountVars, connVars, histVars, entryVars, EntryInv,
       EntryTypeOK, KeySeen, KeyHeld, StayedMeans, StayedKey, EntryLinearizable,
       StayingClientEnters, InQueries, InRealmList
  <2>4. QED
    BY <2>2, <2>3, LoginStep, WorldStep DEF EntryNext
<1>3. QED
  BY <1>1, <1>2, PTL DEF EntrySpec

\* The variables of the request keep their types.
THEOREM EntryTypeCorrect == EntrySpec => []EntryTypeOK
<1>1. EntryInv => EntryTypeOK
  BY DEF EntryInv
<1>2. QED BY EntryInvariance, <1>1, PTL

\* Every answer of handle_auth_session is one the key column justified while the
\* request was handled, in spite of its two queries.
THEOREM EntryIsLinearizable == EntrySpec => []EntryLinearizable
<1>1. EntryInv => EntryLinearizable
  BY DEF EntryInv
<1>2. QED BY EntryInvariance, <1>1, PTL

\* A client that stays in the realm list as ARLYON is not turned away for its key
\* or its realm, for any number of clients, logins and restarts.
THEOREM StayingClientIsLetIn == EntrySpec => []StayingClientEnters
<1>1. EntryInv => StayingClientEnters
  BY DEF EntryInv
<1>2. QED BY EntryInvariance, <1>1, PTL
=============================================================================
