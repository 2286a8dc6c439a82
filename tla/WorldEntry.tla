----------------------------- MODULE WorldEntry -----------------------------
(***************************************************************************)
(* The login server and the account tables (AuthServer) composed with what *)
(* they are for: handle_auth_session (services/world/src/worldserver.rs),  *)
(* which lets a client into the world if it holds the session key of its   *)
(* account. The world server takes one connection at a time. It asks       *)
(* get_by_username, two queries, and checks the proof after the second     *)
(* against the key the first one read; logins go on meanwhile.             *)
(***************************************************************************)
EXTENDS AuthServer

CONSTANT RealmIds   \* realmlist.id of the realms: u32

ASSUME EntryAssumption == RealmIds \subseteq Nat /\ Clients # {}

VARIABLES
    login,   \* the user the client was last admitted as (client side)
    entry,   \* the connection the world server is with, and its AuthSession
    seen,    \* history: the user's key column since the AuthSession arrived
    stayed   \* history: the client has kept to the realm list since then

entryVars == <<entry, seen, stayed>>
allVars == <<vars, login, entryVars>>

NoCode == ""
ResponseCode == {"AuthOk", "RealmListRealmNotFound", "AuthUnknownAccount",
                 "AuthSessionExpired", "AuthReject", "AuthSystemError"}

\* No request has been made yet.
NoEntry == [pc |-> "none", client |-> CHOOSE c \in Clients : TRUE, user |-> NoUser,
            realm |-> 0, proof |-> NoKey, key |-> NoKey, code |-> NoCode]

InQueries == entry.pc \in {"account", "bans"}

EntryTypeOK ==
    /\ login \in [Clients -> Usernames \cup {NoUser}]
    /\ entry \in [pc : {"none", "account", "bans", "in", "refused"},
                  client : Clients, user : Usernames \cup {NoUser},
                  realm : RealmIds \cup {0}, proof : Nat, key : Nat,
                  code : ResponseCode \cup {NoCode}]
    /\ InQueries => entry.user # NoUser /\ entry.code = NoCode
    /\ seen \in SUBSET Nat
    /\ stayed \in BOOLEAN

EntryInit ==
    /\ Init
    /\ login = [c \in Clients |-> NoUser]
    /\ entry = NoEntry
    /\ seen = {} /\ stayed = FALSE

-----------------------------------------------------------------------------
\* Realm::from_realm shows the client `id as u8`; handle_auth_session compares
\* what the client sends back with the id it was started with.
ListedId(r) == r % 256
RealmFound(r) == ListedId(r) = r

InRealmList(c, u) == state[c].tag = "Realmlist" /\ grant[c] = u

\* A client that was admitted (external) connects to the realm it picked. Its
\* AuthSession carries the realm's id and a proof made with its session key.
\* Mutant: the answer to the last request is still there.
EnterWorldM(c, r) ==
    /\ entry.pc \in {"none", "refused"} /\ login[c] # NoUser
    /\ entry' = [pc |-> IF RealmFound(r) THEN "account" ELSE "refused",
                 client |-> c, user |-> login[c], realm |-> r,
                 proof |-> ckey[c], key |-> NoKey,
                 code |-> IF RealmFound(r) THEN entry.code ELSE "RealmListRealmNotFound"]
    /\ seen' = {session_key_auth[login[c]]}
    /\ stayed' = InRealmList(c, login[c])
    /\ UNCHANGED <<vars, login>>

EnterWorld(c, r) ==
    /\ entry.pc \in {"none", "refused"} /\ login[c] # NoUser
    /\ entry' = [pc |-> IF RealmFound(r) THEN "account" ELSE "refused",
                 client |-> c, user |-> login[c], realm |-> r,
                 proof |-> ckey[c], key |-> NoKey,
                 code |-> IF RealmFound(r) THEN NoCode ELSE "RealmListRealmNotFound"]
    /\ seen' = {session_key_auth[login[c]]}
    /\ stayed' = InRealmList(c, login[c])
    /\ UNCHANGED <<vars, login>>

Answer(p, code) ==
    /\ entry' = [entry EXCEPT !.pc = p, !.code = code]
    /\ UNCHANGED <<vars, login, seen, stayed>>

\* get_by_username fails, or finds no row.
UnknownAccount == InQueries /\ Answer("refused", "AuthUnknownAccount")

\* The first SELECT has the key column.
FetchAccount ==
    /\ entry.pc = "account"
    /\ entry.user \in account
    /\ entry' = [entry EXCEPT !.pc = "bans", !.key = session_key_auth[entry.user]]
    /\ UNCHANGED <<vars, login, seen, stayed>>

\* server_proof against client_proof. Mutant: any key will do.
ProofMatchesM(e) == e.key # NoKey
ProofMatches(e) == e.proof = e.key

\* The second SELECT has the ban, which nothing here looks at; then the checks.
FetchBan ==
    /\ entry.pc = "bans"
    /\ \/ entry.key = NoKey /\ Answer("refused", "AuthSessionExpired")
       \/ entry.key # NoKey /\ ~ProofMatches(entry) /\ Answer("refused", "AuthReject")
       \/ /\ entry.key # NoKey /\ ProofMatches(entry)
          /\ \/ Answer("in", "AuthOk")
             \/ Answer("refused", "AuthSystemError")   \* finalize cannot write

\* The connection or the world server ends.
EntryEnds == entry.pc # "none" /\ Answer("none", NoCode)

World ==
    \/ \E c \in Clients, r \in RealmIds : EnterWorld(c, r)
    \/ UnknownAccount
    \/ FetchAccount
    \/ FetchBan
    \/ EntryEnds

\* A step of the login server, of an operator or of the clock. The client notes
\* whom it was admitted as; the history variables watch a request in progress.
Login ==
    /\ Next
    /\ login' = [c \in Clients |-> IF grant'[c] # NoUser THEN grant'[c] ELSE login[c]]
    /\ seen' = IF InQueries THEN seen \cup {session_key_auth'[entry.user]} ELSE seen
    /\ stayed' = (stayed /\ state'[entry.client].tag = "Realmlist")
    /\ UNCHANGED entry

EntryNext == World \/ Login

EntrySpec == EntryInit /\ [][EntryNext]_allVars

-----------------------------------------------------------------------------
(* Properties.                                                             *)

\* The answer is one the key column justified at some moment of the request, in
\* spite of the two queries and of logins in between: a client let in held the
\* account's key then, one that is rejected did not hold it all the time.
EntryLinearizable ==
    /\ entry.code = "AuthOk" => entry.proof \in seen
    /\ entry.code = "AuthReject" => seen # {entry.proof}
    /\ entry.code = "AuthSessionExpired" => NoKey \in seen

\* A client that is in the realm list as ARLYON (the account complete_login
\* stores keys for), picks a realm whose id fits the byte it is shown, and stays
\* in the list while it enters the world, is only turned away by a failing query
\* or connection: nobody else's login can replace its key meanwhile.
StayingClientEnters ==
    stayed /\ entry.user = Arlyon /\ entry.realm < 256 =>
        entry.code \in {NoCode, "AuthOk", "AuthUnknownAccount", "AuthSystemError"}

\* The strengthening for the proofs: what the history variables stand for while
\* a request is in progress, and that a client in the realm list has a key.
KeySeen == /\ InQueries => session_key_auth[entry.user] \in seen
           /\ entry.pc = "bans" => entry.key \in seen
KeyHeld == \A c \in Clients : state[c].tag = "Realmlist" => ckey[c] # NoKey
StayedMeans == stayed => /\ InRealmList(entry.client, entry.user)
                         /\ entry.proof = ckey[entry.client]
StayedKey == stayed /\ entry.user = Arlyon /\ entry.pc = "bans" => entry.key = entry.proof
EntryInv == /\ EntryTypeOK /\ KeySeen /\ KeyHeld /\ StayedMeans /\ StayedKey
            /\ EntryLinearizable /\ StayingClientEnters
=============================================================================
