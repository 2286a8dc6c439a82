------------------------------ MODULE Accounts ------------------------------
(***************************************************************************)
(* The account tables of the auth database and the statements that         *)
(* MySQLAccountService (crates/mysql-auth/src/accounts.rs) runs on them.   *)
(* An account id is represented by the username of its row: the column is  *)
(* UNIQUE and no statement of the repository changes or deletes a row.     *)
(* Salts, verifiers, e-mail addresses and dates are left out; a session    *)
(* key is represented by the nonce of the login that derived it.           *)
(***************************************************************************)
EXTENDS Naturals, FiniteSets

CONSTANTS Typed,      \* usernames as an operator types them
          Upper,      \* to_ascii_uppercase, on Typed
          TooLong,    \* the members of Typed longer than 16 bytes
          Listable,   \* ids realmlist may get rows for (the u8 of a heartbeat)
          Durations,  \* lengths a temporary ban may be given
          MaxTime,    \* bound: the clock stops here
          MaxBans     \* bound: rows of account_banned

Arlyon == "ARLYON"
NoKey == 0                         \* session_key_auth IS NULL
Never == 0                         \* the end an operator asks of a permanent ban

Usernames == {Upper[n] : n \in Typed \ TooLong}

ASSUME NamesAssumption == Upper \in [Typed -> STRING] /\ TooLong \subseteq Typed
ASSUME BoundsAssumption == /\ Durations \subseteq Nat
                           /\ MaxTime \in Nat
                           /\ MaxBans \in Nat

VARIABLES creation,         \* per username: how far its create_account got
          realmlist,        \* ids of the rows of the table
          realmcharacters,  \* per username: the realms it has a row for
          known,            \* history, per username: realmlist at its INSERT
          session_key_auth, \* column of account, per username
          account_banned,   \* rows of the table; `ends` is a history field: the
                            \* end the operator asked for
          now               \* UNIX_TIMESTAMP()

realmVars == <<realmlist, realmcharacters, known>>
accountVars == <<creation, realmVars, session_key_auth, account_banned, now>>

\* Rows of the table account: the first INSERT has been executed.
account == {u \in Usernames : creation[u] # "none"}

BanRow == [id : Usernames, bandate : Nat, unbandate : Nat, ends : Nat]

AccountsTypeOK ==
    /\ creation \in [Usernames -> {"none", "inserted", "ok", "failed"}]
    /\ realmlist \in SUBSET Listable
    /\ realmcharacters \in [Usernames -> SUBSET Listable]
    /\ known \in [Usernames -> SUBSET Listable]
    /\ session_key_auth \in [Usernames -> Nat]
    /\ account_banned \in SUBSET BanRow
    /\ now \in Nat

AccountsInit ==
    /\ creation = [u \in Usernames |-> "none"]
    /\ realmlist = {}
    /\ realmcharacters = [u \in Usernames |-> {}]
    /\ known = [u \in Usernames |-> {}]
    /\ session_key_auth = [u \in Usernames |-> NoKey]
    /\ account_banned = {}
    /\ now = 1

-----------------------------------------------------------------------------
(* create_account, as its two statements, which no transaction joins.      *)

\* INSERT INTO account. A name that is too long or taken is refused with no
\* change of state.
CreateAccount(n) ==
    /\ n \notin TooLong
    /\ creation[Upper[n]] = "none"
    /\ creation' = [creation EXCEPT ![Upper[n]] = "inserted"]
    /\ known' = [known EXCEPT ![Upper[n]] = realmlist]
    /\ UNCHANGED <<realmlist, realmcharacters, session_key_auth, account_banned, now>>

\* INSERT INTO realmcharacters SELECT ... FROM realmlist, account LEFT JOIN
\* realmcharacters ... WHERE acctid IS NULL: every account with no row at all,
\* whoever inserted it, gets one for every realm. That is none while realmlist
\* is empty, and an account with rows gets none for a realm added since.
\* Mutant: the new account only.
WithRealmCharactersM(u) ==
    [realmcharacters EXCEPT ![u] = IF @ = {} THEN realmlist ELSE @]

WithRealmCharacters(u) ==
    [v \in Usernames |-> IF v \in account /\ realmcharacters[v] = {} THEN realmlist
                         ELSE realmcharacters[v]]

\* It succeeds and create_account returns the id.
CreateRealmCharacters(u) ==
    /\ creation[u] = "inserted"
    /\ realmcharacters' = WithRealmCharacters(u)
    /\ creation' = [creation EXCEPT ![u] = "ok"]
    /\ UNCHANGED <<realmlist, known, session_key_auth, account_banned, now>>

\* It fails, or is executed and its result lost, or the process ends before it:
\* the row of account stays.
CreateFails(u) ==
    /\ creation[u] = "inserted"
    /\ creation' = [creation EXCEPT ![u] = "failed"]
    /\ realmcharacters' \in {realmcharacters, WithRealmCharacters(u)}
    /\ UNCHANGED <<realmlist, known, session_key_auth, account_banned, now>>

\* update_status' `insert ... on duplicate key update` for an id that has no
\* row yet: how a world server gets into realmlist (its flag: RealmStatus).
AddRealm(r) ==
    /\ r \notin realmlist
    /\ realmlist' = realmlist \cup {r}
    /\ UNCHANGED <<creation, realmcharacters, known, session_key_auth, account_banned, now>>

-----------------------------------------------------------------------------
(* Bans.                                                                   *)

\* set_ban with duration Some(d) or, for d = Never and permanent, None. The
\* primary key (id, bandate) refuses a second row within one second.
SetBan(u, d, permanent) ==
    /\ Cardinality(account_banned) < MaxBans
    /\ \A r \in account_banned : r.id = u => r.bandate # now
    /\ account_banned' = account_banned \cup
         {[id |-> u, bandate |-> now,
           unbandate |-> IF permanent THEN now ELSE now + d,
           ends |-> IF permanent THEN Never ELSE now + d]}
    /\ UNCHANGED <<creation, realmVars, session_key_auth, now>>

BansOf(u) == {r \in account_banned : r.id = u}

\* The two columns the SELECT of get_by_username computes, and their match.
\* Mutants: a ban ends a second late; permanent bans are not told apart.
BanStatusM(r) == IF r.unbandate = r.bandate THEN "Permanent"
                 ELSE IF r.unbandate >= now THEN "Temporary" ELSE "None"
BanStatusM2(r) == IF r.unbandate > now THEN "Temporary" ELSE "None"
BanStatus(r) == IF r.unbandate = r.bandate THEN "Permanent"
                ELSE IF r.unbandate > now THEN "Temporary" ELSE "None"

\* fetch_optional on a SELECT with no ORDER BY: any one row of the account.
FetchedBan(u) == IF BansOf(u) = {} THEN {"None"}
                 ELSE {BanStatus(r) : r \in BansOf(u)}

\* What the operator asked for still holds.
InForce(r) == r.ends = Never \/ r.ends > now

-----------------------------------------------------------------------------
(* complete_login's UPDATE account SET session_key_auth ... WHERE username *)
(* = ?, the parameter being the constant "ARLYON".                         *)
UpdateSession(key) ==
    session_key_auth' = [u \in Usernames |->
        IF u = Arlyon /\ u \in account THEN key ELSE session_key_auth[u]]

Tick ==
    /\ now < MaxTime
    /\ now' = now + 1
    /\ UNCHANGED <<creation, realmVars, session_key_auth, account_banned>>

\* What operators do, through the command line and the GraphQL API, what
\* realmlist_updater does to realmlist, and the clock.
OperatorNext ==
    \/ \E n \in Typed : CreateAccount(n)
    \/ \E u \in Usernames : CreateRealmCharacters(u)
    \/ \E u \in Usernames : CreateFails(u)
    \/ \E r \in Listable : AddRealm(r)
    \/ \E u \in Usernames, d \in Durations : SetBan(u, d, FALSE)
    \/ \E u \in Usernames : SetBan(u, Never, TRUE)
    \/ Tick

-----------------------------------------------------------------------------
(* Properties of the tables alone.                                         *)

\* A create_account that returns an id leaves every account, also those whose own
\* second statement failed or has not run yet, with rows for at least the realms
\* that were in realmlist when that account was inserted: however creations and
\* new realms interleave, having some rows never means having lost one of these.
SuccessRepairsAll ==
    [][(\E u \in Usernames : creation[u] = "inserted" /\ creation'[u] = "ok")
        => \A v \in account' : known'[v] \subseteq realmcharacters'[v]]_accountVars

\* What makes it so: an account has no rows yet, or all of these.
RowsAllOrNone ==
    \A u \in Usernames :
        /\ known[u] \subseteq realmlist
        /\ realmcharacters[u] = {} \/ known[u] \subseteq realmcharacters[u]
        /\ u \notin account => known[u] = {} /\ realmcharacters[u] = {}

\* Why the answers about bans are right (AuthServerProofs): a row means what the
\* operator asked for. unbandate = bandate stands for a ban without end ...
BansAsAsked ==
    /\ now > 0
    /\ \A r \in account_banned :
          \/ r.ends = Never /\ r.unbandate = r.bandate
          \/ r.ends # Never /\ r.unbandate = r.ends

\* ... and, unless a ban of no length is asked for, for nothing else.
TermsHaveLength == \A r \in account_banned : r.ends # Never => r.unbandate # r.bandate
=============================================================================
