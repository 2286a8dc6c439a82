# A verification project for azerust

azerust is a World of Warcraft (3.3.5a) server in Rust: a login server, a world
server, and the MySQL-backed services they share. This directory holds TLA+
models of its concurrent and stateful parts, TLC configurations that check
them on small instances, and TLAPS proofs for every instance.

## The system

| Part | State | Operations | Talks to |
|---|---|---|---|
| Login server (`services/auth/src/authserver.rs`) | one `RequestState` for the connection served, the heartbeat map | listener, `connect_loop` with five handlers, heartbeat receiver, `realmlist_updater` | clients (TCP), account service, realm list, world servers (UDP) |
| Account service (`crates/mysql-auth/src/accounts.rs`) | tables `account`, `realmcharacters`, `account_banned` | `create_account`, `set_ban`, `get_by_username`, `initiate_`/`complete_login`, `initiate_`/`complete_relogin` | called by both servers, the command line and the GraphQL API |
| Realm list (`crates/mysql-auth/src/realms.rs`) | cached list, expiry time, table `realmlist` | `realms`, `update_status`, `set_uptime` | called by the login server and the GraphQL API |
| World server (`services/world/src/worldserver.rs`) | `clients`, one connection in `connect_loop` | `accept_clients`, `connect_loop`, `handle_auth_session`, heartbeat sender | clients (TCP), account service, login server (UDP) |
| World (`services/world/src/world/`) | `sessions`, a packet channel, per session an RC4 state and a stream | `handle_packets`, `create_session`, `send_packet` | characters service |
| Characters service (`crates/mysql-characters`) | table `characters` | `name_available`, `create_character`, `delete_character`, reads | called by the world |
| SRP6 (`crates/wow-srp`) | none | verifier, challenge, proof check | account service |

What is hard here: every `await` on the database lets other tasks, operators
and time move on; connections break at any step; each server is a `try_join!`
of tasks, so that a panic or an error of one ends the process; heartbeats are
datagrams; two caches of state (a token's session key, the realm list) can go
stale; several operations are two statements without a transaction. PROJECT.json
lists these hazards with their lines.

What makes the parts correct:

* login: nobody is admitted except by answering the last challenge on the
  connection, once; the key the world server will check is the one the client
  derived; bans are enforced for their term; requests are answered;
* account creation: a creation that succeeds leaves no account without
  `realmcharacters` rows for the realms there were;
* realm status: a running realm is shown as available in spite of lost
  datagrams, a stopped one is not;
* realm cache: the expiry time belongs to the list it stands beside, so that a
  list past its time is asked for again (the old one is served as long as the
  query fails, `realms.rs:38`); calls return;
* SRP6: both sides derive the same key from the right password;
* login and world together: whoever is in the realm list can enter the world,
  nobody else can;
* the world's byte streams: packets are cut where they end, both ends stay at
  the same place of the key streams, replies say how long they are;
* world: packets leave in the order in which their headers were encrypted,
  queued packets find their session, names stay unique, every queued packet is
  handled, a client's failure stays its own.

## Modules

**Accounts** has the account tables and one action per SQL statement:
`CreateAccount` and `CreateRealmCharacters` (or `CreateFails`, where the second
statement may have been executed), `SetBan`, and `AddRealm`, the upsert with which
a heartbeat gets a realm into `realmlist`. The second statement is the
INSERT..SELECT over `realmlist` and the accounts without any row: with an empty
`realmlist` it inserts nothing, and an account with rows gets none for a realm
added later. `known` is a history variable, the realms listed when an account was
inserted. The answers of the ban query are the set `FetchedBan`: the query has no ORDER BY and
one row is fetched. The row's `ends` is a history field, what the operator asked
for. Session keys are represented by the nonce of the login that derived them.

**AuthServer** extends it with the login server. `pc` is where the server is
with a client's connection: waiting in the backlog, awaiting a message (`read`)
one of the four database awaits, or `realms()`, which may never return
(`RealmCacheTwoCallers.cfg`). `state` is `RequestState`, with the token's
user, nonce and key. A message is one of five actions (`RecvConnect`, ...), a
database answer one of four (`GetAccount`, `GetBan`, `InitiateRelogin`,
`StoreKey`), the realm list `ListRealms`. A `?` is `Bail`, a `Rejected` state `Reject`, and every write may
fail. `AcceptFails` ends the listener and `Crash` the process. A proof is the
challenge it was computed from and whether the secret was right: `Accepts` is
what the SHA1 comparisons of `ConnectToken::accept` and `ReconnectToken::accept`
decide, collisions aside.

**ChallengeResponse** is the abstract specification of the handshake: challenges
are issued with ever new numbers, and only the outstanding one admits, once.
AuthServer implements it with `admitted` mapped to the connections in state
`Realmlist`.

**RealmStatus** has the world servers' heartbeat timers, the map of the login
server (as ages), the updater's rounds and each upsert of a round. Time is
discrete, due timers fire before it goes on, and a datagram arrives at once or
never. The id is truncated to a byte, as in the code. Ages are not measured at a
round: `zip` takes its `Instant` when the wait for the tick begins, once the last
batch is written, and the variable `now` is the age of that `Instant`. With a quick
database it is a whole period, and an entry is drained at a true age of over 20 s,
not 15 s.

**RealmCache** has `realms()` step by step: each lock is the queue of its
waiters (tokio's RwLock is fair), and the two requests of `join!` are two steps,
because on tokio's multi-threaded runtime another thread can run between two
polls.

**WorldServer** has the accept loop, session set-up, the channel and the packet
handlers. Sending a packet is two steps, encrypting the header and writing,
since the code takes two locks. Packets sent before a hang-up are still received,
and the result of an INSERT may be lost after the row is there. `inOrder` is a history variable: the sessions
whose packets have all been written in the order of encryption.

**WorldStream** has the two byte streams of one world connection below that.
`read_packets` is modelled from `read()`, which returns any part of what was
sent, through the turns of its loop to the delivery into the channel. A stream
is not a list of bytes: a packet knows the offset where it begins, and a header
is understood only when it is read at a packet's first byte with the RC4 state
at that packet's place; anything else is garbage that may decode to any size and
opcode. Towards the client, `write` takes what fits into the socket, and what the
client makes of the stream is `seen`; the history variable `cut` is the first
packet that was written short. What `read_packet` makes of a packet (takes
it, refuses it, meets a `todo!()`) is its `fate`.

**WorldEntry** extends AuthServer, and so composes the login server, the account
tables and `handle_auth_session` of the world server through the column
`session_key_auth`. The request is at its first or second query (`entry.pc`)
while the login server goes on. Two history variables watch it: `seen`, the
values the user's key column had since the request arrived, and `stayed`, whether
the client has kept to the realm list.

**Srp6** is the arithmetic of `crates/wow-srp` over a small group: `Register`,
`NewServer`, `Accept` beside a client that follows the protocol. A number has
`Width` digits of base `Base` (32 bytes in the code), and `CorrectSize` is when
the conversion of a number to an array does not panic. SHA1 is a tuple of its
inputs where it is compared, and a constant operator where it is used as a number.

**ListReplies** has the two replies whose length depends on a table, the realm
list and the character list, with their u16 sizes and counts. The longest texts are
a parameter; the run has the widths of the columns in `sqlx-data.json`.

**AuthServerProofs**, **RealmStatusProofs**, **RealmCacheProofs**,
**WorldEntryProofs**, **WorldServerProofs**, **WorldStreamProofs**, **Srp6Proofs**
and **ListRepliesProofs** hold the proofs; the **MC** modules the definitions the
configurations need. The named parts of the inductive invariants stand at the end
of the modules they are about, so that TLC can check them. Definitions
whose name ends in `M` or `M2` are mutants: they change the definition after
them the way a plausible bug would, and each property is known to fail with one.

## Runs

| Run | Shows |
|---|---|
| `AuthLogin.cfg` | Two clients, two users, three challenges, one process restart. `ReloginKeyFresh`: a reconnect token's key is still the account's; `ArlyonKeyStored`; `ImplementsChallengeResponse`. Three challenges are a login, a reconnect and a login in between. |
| `AuthBans.cfg` | Two users, two bans of a second or permanent, two seconds (the one in which a ban ends included), two realms that get into `realmlist` at any time (interchangeable, so a symmetry). `AllBansRefuse`, `TermHonoured`: what the one-row query does guarantee; `SuccessRepairsAll`: a `create_account` that returns an id leaves every account, also a half-done one, with rows for the realms listed when it was inserted. |
| `AuthLive.cfg` | `RequestAnswered`; `QueuedServed`: a waiting client is served, if served clients come to an end and `accept()` never fails (one failure ends the listener and drops the backlog), unless the process ends. |
| `RealmStatus.cfg` | Two realms, four lost datagrams (as many as it takes to be drained by a `now` that is a period old), a stop, a failed update, a restart. Period 2 and timeout 6 keep the code's ratio of 5 s to 15 s. `LossesTolerated`, `RecommendedIsTracked`, `RunningRecommended`, `StoppedOfflineIfNoFault`. |
| `RealmCache.cfg` | Two callers, five time units with an interval of one: several refreshes, successful or not, in every interleaving. `ExpiryMatchesList` says that list and expiry stay in step, not how old a list may be. |
| `WorldServer.cfg` | Two connections, two packets of any kind, a proper and an improper name, one end of the process. `HeadersInOrder`, `NamesUnique`, `QueuedHasSession`, `PacketsHandled`: each packet, by its number, is handled to its last step. |
| `WorldEntry.cfg` | Two clients of one user that log in, reconnect and enter one of two realms, one with an id over 255, with two challenges and a restart of the login server. `EntryLinearizable`: an answer is one the key column justified at some moment of the request; `StayingClientEnters`. Two challenges are what it takes to replace a key between the two queries. |
| `WorldStream.cfg` | Packets with and without a body, taken, refused or panicked on, in reads of any length; replies of five bytes into a socket that holds thirteen, so that any packet from the third on may be cut short. `DeliveredAsSent`, `PanicExplained`, `SentIsDelivered`; `SeenUntilCut`: the client decodes everything before the first cut and nothing after it. |
| `Srp6.cfg` | Two passwords, four salts and private numbers up to 30 modulo 137, with a wrong password and a public number of zero. The group is large enough for secrets that begin with one and with two zero digits. `BothSidesAgree`, `RightPasswordAccepted`. |
| `ListReplies.cfg` | Up to 62 realms and 212 characters, with ordinary texts and with the longest: a name of 128 bytes and an address of 1020 with ":" and the port, a character's name of 48. `RealmListFits` (56 realms are sure to fit, 57 need not), `CharEnumFits` (206 characters). |

Ten configurations end in a counterexample: they show where the code departs from
what its documentation or its own `expect` says. The first two are listed as
runs in PROJECT.json, the others are run by hand (`tlc -config X.cfg M`).

| Configuration | Module | Property | Behaviour |
|---|---|---|---|
| `RealmCacheTwoCallers.cfg` | MCRealmCache | `RealmsReturns` | Two overlapping refreshes deadlock on the two locks (`realms.rs:44`). |
| `WorldResetClient.cfg` | MCWorldServer | `ServerKeepsRunning` | A client that hangs up before its challenge ends the world server: the `?` on the write (`worldserver.rs:150`). Reads do not panic in this run (`MaxPanics` is 0). |
| `AuthOtherUser.cfg` | MCAuthServer | `LoginStoresKey` | `complete_login` stores the key for the constant username ARLYON (`accounts.rs:215`). |
| `AuthTwoBans.cfg` | MCAuthServer | `BanInForceRefused` | An expired ban's row can hide a ban in force (`accounts.rs:134`). |
| `AuthZeroDays.cfg` | MCAuthServer | `TermHonoured` | A ban of zero length is permanent (`accounts.rs:259`). |
| `RealmStatusFault.cfg` | MCRealmStatus | `StoppedOffline` | The Offline flag of a drained realm is lost with one failed update (`authserver.rs:133`). |
| `RealmStatusSameByte.cfg` | MCRealmStatus | `StoppedOffline` | Realms whose ids are equal modulo 256 share a status (`worldserver.rs:115`). |
| `WorldCutFrame.cfg` | MCWorldStream | `GoodClientServed` | A read that ends inside a good packet panics (`protocol/mod.rs:34`). |
| `WorldShortWrite.cfg` | MCWorldStream | `SeenAsWritten` | The rest of a packet that was written in part is never sent (`session.rs:260`). |
| `Srp6Sizes.cfg` | MCSrp6 | `SizesCorrect` | A verifier or public number with a zero top byte is too short for its array (`wow-srp/src/lib.rs:86`). |

The passing runs check what does hold beside each of them: `ReturnsIfRefreshesApart`,
`ArlyonKeyStored`, `AllBansRefuse`, `StoppedOfflineIfNoFault`, `PanicExplained`,
`SeenUntilCut`, `RightPasswordAccepted`.

Bounds are named constants (`MaxNonce`, `MaxLost`, ...) that only guard the
actions they count. Deadlock checking is off where the system really stops: the
listener has ended, every connection has been used, two refreshes wait for each
other, or a table is full.

## Fairness

Weak fairness is assumed of steps the runtime takes by itself: accepting a
waiting connection, going on after a database answer (or error), timers, and
polling a task that can run. No fairness is assumed of clients, operators or
faults, nor of `realms()` (its locks may never be free), nor of the world server's
writes (a write waits for the client to read). In AuthServer the fair step after a
database answer includes the write of the challenge or the answer: it has at most
some hundred bytes, which the socket's buffer takes or which fail. A client that
reads nothing and fills that buffer with its own requests is left out. What the
code does not guarantee the liveness properties say as premises: `QueuedServed`
(served connections come to an end, which nothing in `connect_loop` makes them do,
and `accept()` does not fail), `PacketsHandled` (no write blocks for ever) and
`SentIsDelivered` (the client takes off the stream what it is sent). In `RealmStatus`, datagrams sent are fairly not lost, which the
bound on losses makes exact. In `WorldStream`, the reading and the writing task
are polled while they can go on: a read with nothing to read and a write with no
room cannot.

## Proofs

The constants are arbitrary: any sets of names, clients, realms and callers, any
bounds, any group for SRP6. Every invariant, every action property and the
refinement that a passing run checks is also a theorem, one of them
(`BanTermIsHonoured`) with a hypothesis.

* `AuthServerProofs`: `TypeCorrect`; `Invariance`, of the inductive invariant
  `Inv`; from it `ReloginKeyIsFresh`, `ArlyonKeyIsStored` and `Refinement`
  (AuthServer implements ChallengeResponse). `ReloginKeyFresh` is not inductive:
  a login that stores a key while another connection holds a reconnect token
  would break it. What excludes this is that one connection is served at a time
  (`OneServed`) and that only a served one holds a token (`UnservedIsBlank`).
  `ArlyonKeyStored` also needs that the account exists when its key is stored
  (`ChallengedExists`) and that the client holds the key about to be stored
  (`StoringIsChallenged`); the refinement needs that a token's nonce is the last
  one issued and not spent (`TokenOutstanding`, with `NonceBound`). Because
  unserved connections are blank, a step of the served one only has to
  re-establish `LocalInv` of that connection.

  `BannedUserIsRefused` and `BanTermIsHonoured` are about the step that fetches a
  ban, and need to know what a row means: `BansAsAsked` says that its dates are
  what the operator asked for, with equal dates for a ban without end, and
  `TermsHaveLength` that no other ban has equal dates. The second holds only if
  nobody asks for a ban of zero length, which is the hypothesis of
  `BanTermIsHonoured`; without it the property fails (`AuthZeroDays.cfg`).
  `CreateRepairsAll` rests on `RowsAllOrNone`: an account has no rows, or at least
  those of the realms listed when it was inserted. It is inductive because
  `realmlist` only grows and rows are inserted for the whole of it at once; what
  the INSERT..SELECT skips, an account with some rows, therefore has all of these.
* `RealmStatusProofs`: `StatusInvariance`, `StatusTypeCorrect`,
  `RecommendedAreTracked`, `ToleratesLosses`, from the assumption that the
  timeout is at least three periods. The strengthening is `AgeAccounted`: with k
  heartbeats missed, the age of the entry plus the time to the next heartbeat is
  at most k + 1 periods; and `NowInRound`: `now` was not taken before the last round.
  The proof allows realm ids that collide modulo 256.
* `RealmCacheProofs`: `CacheInvariance`, `CacheTypeCorrect` and `ExpiryIsSafe`, from
  `StoringIsTimely` (a refresh took its `now` before it queried).
* `WorldEntryProofs`: `EntryTypeCorrect`, `EntryIsLinearizable` and
  `StayingClientIsLetIn`, on top of AuthServer's `Inv`. Neither property is
  inductive. `KeySeen` says what `seen` is for: while a request is in progress it
  has the column's value, and the key the first query read. `StayedMeans` and
  `StayedKey` say that a client that stayed is still in the realm list, sent the
  key it holds, and was compared with it; `KeyHeld` that it has one. A step of the
  login server keeps them because it is `Harmless` to every other client: only the
  served connection moves, and `ArlyonKeyStored` ties the column to the client.
* `WorldServerProofs`: `WorldInductive`, of `WorldInv`, and from it
  `WorldTypeCorrect`, `WorldHeadersInOrder`, `WorldNamesUnique` and
  `WorldQueuedHasSession`. The code has no lock around encrypting and writing, nor
  a transaction around checking a name and inserting it; both are safe only because
  few tasks take part. `OneHandler`: `handle_packets` has one packet in hand.
  `FinalizedFirst`: a session is finalized before it is published, so that the
  accept loop and the handler never write to one session at a time. Hence
  `OneInFlight`: on a stream that works, the key stream is ahead of the packets
  written by at most the one packet between its two locks. `InsertChecked`: the
  name is still free at the INSERT.
* `WorldStreamProofs`: `StreamInvariance`, `StreamTypeCorrect`,
  `StreamDeliversAsSent`, `StreamPanicsExplained` and `StreamSeenUntilCut`. The heart
  of `ReadInv` is `CursorAtPacket`: until the connection ends, the place up to which
  the bytes are used up is where the packet after the parsed ones begins, and the
  key stream is at that packet; with `EndToEnd`, a header is never read anywhere
  else. `NoneSkipped` says that the channel and the vector together have every packet
  decrypted so far. The bytes in the socket are as many as its packets have
  (`UnreadIsLength`, by a function of partial sums that TLC could not enumerate).
  The strengthening of `SeenUntilCut` is `NoneLost`: while the client listens, what
  it has decoded, the socket and the writer together have every packet, whole up to
  the first one cut short. Without the cut the client sees all that was written,
  which is what `WorldShortWrite.cfg` refutes in general.
* `Srp6Proofs`: `SrpInvariance`, `SrpTypeCorrect`, `SrpSidesAgree` and
  `RightPasswordIsAccepted`, which is the identity SRP6 rests on, for every modulus
  in which `g` has an inverse (the code's is prime), every width, base and hash. The
  invariant records what the row, the challenge and the client's message were made
  from. The identity needs the laws of powers modulo N (`PowAdd`, `PowMul`,
  `PowOfProduct`, `PowMod`), and these need induction over the square-and-multiply
  recursion of `ModPow` (`PowSucc`). An induction is written as the remark that the
  set of its counterexamples has no least element (`LeastElement`, from the
  library's `WFMin`); that the recursive functions `ModPow` and `Place` exist is
  shown once for all recursions that refer to one earlier value (`RecursionExists`).
  `KeysMeet` shows that the code's `start` is that of the protocol's interleave
  whatever the number of leading zeros, and `GeneratorPower` that an honest public
  number is never refused as a multiple of N.
* `ListRepliesProofs`: `ListTypeCorrect`, `RealmListIsExact`, `CharEnumIsExact`,
  for columns of any width, by bounding the bytes of a list by its rows. With
  the widths of `sqlx-data.json`, 56 realms and 206 characters are sure to fit.

Only model-checked: the liveness properties, `RequestAnswered`, `QueuedServed`,
`RunningRecommended`, `StoppedOfflineIfNoFault`, `ReturnsIfRefreshesApart`,
`PacketsHandled` and `SentIsDelivered` (the prover has neither fairness nor ENABLED).

## Not modelled

* `set_uptime`: one upsert a minute of a number nothing in the repository reads.
* `delete_account`: a stub without callers. `World::update`: empty. State that is
  set and never read: a session's latency, timeout and character.
* RC4, SHA1 and HMAC (library code, taken to be injective), and packet layouts
  except for the sizes in ListReplies. `AuthAlreadyOnline` cannot be answered: a
  connection's `Client` is always new.
* A client that sends encrypted packets before it has seen AuthResponse, and one
  that never reads what the login server answers.
* Sessions are never timed out or removed by the code; so neither by the model.
* The GraphQL schema and transport, with the overflow of `days * 86400` in
  `set_ban_status`; configuration files; the opcode table.
* The case-insensitivity of MySQL's string comparison.

## Plan

Done: the login server with its refinement; realm status and cache; the
world server, its streams and its composition with the login; SRP6; the replies;
proofs of all their safety properties.

Left, in this order:

1. The safety half of the liveness properties: that the two locks of the realm
   cache are held by whoever their queues say, and that a refresh that is alone
   always has a step it can take.
2. Proofs of the facts behind `SentIsDelivered` and `PacketsHandled` that need no
   fairness: a turn of the loop makes the rest of the buffer, or the channel,
   shorter.
