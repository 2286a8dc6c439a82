----------------------------- MODULE WorldServer -----------------------------
(***************************************************************************)
(* The world server (services/world/src/worldserver.rs, world/world.rs,    *)
(* world/session.rs): a task that accepts clients one after the other,     *)
(* authenticates each and pipes its packets into one unbounded channel,    *)
(* and a task that takes the packets out and handles them one at a time    *)
(* against the characters database.                                        *)
(*                                                                         *)
(* A connection is known by the ClientId drawn for it. A packet is its     *)
(* opcode and the argument the handler decides on. Sending a packet is two *)
(* steps, under two locks: its header is encrypted (which moves the RC4    *)
(* key stream on) and then it is written.                                  *)
(***************************************************************************)
EXTENDS Naturals, Sequences, FiniteSets

CONSTANTS Conns,        \* connections, each used once
          Accounts,
          Names,        \* character names, well-formed or not
          Proper,       \* the names that are capitalised and long enough
          NoAccount,
          MaxPackets,   \* bound: packets received
          MaxChars,     \* bound: characters created
          MaxStops,     \* bound: ends of the process
          MaxPanics     \* bound: of these, how many before a read panics no more

ASSUME WorldAssumption == /\ Proper \subseteq Names
                          /\ NoAccount \notin Accounts
                          /\ MaxPackets \in Nat /\ MaxChars \in Nat
                          /\ MaxStops \in Nat /\ MaxPanics \in Nat

VARIABLES
    running,     \* the process runs: none of its tasks has returned or panicked
    backlog,     \* connections the kernel holds, oldest first
    pc,          \* per connection: where accept_clients is with it
    gone,        \* connections whose client has hung up
    clients,     \* keys of WorldServer.clients
    account,     \* Client.account, per connection
    sessions,    \* keys of World.sessions
    final,       \* per connection: packets Session::finalize has yet to send
    encrypted,   \* per session: headers encrypted so far
    written,     \* per session: packets written so far
    inOrder,     \* history: sessions all of whose packets were written in the
                 \* order of their headers' encryption
    broken,      \* connections on which a write has failed
    queue,       \* the channel into handle_packets
    active,      \* the packet being handled (a set of at most one)
    characters,  \* rows of the characters table
    received, guids, stops

connVars == <<backlog, pc, gone, clients, account, sessions, final>>
cryptVars == <<encrypted, written, inOrder, broken>>
vars == <<running, connVars, cryptVars, queue, active, characters, received, guids, stops>>

FinalPackets == 4   \* AuthResponse, AddonInfo, ClientCacheVersion, TutorialData

\* By what handle_packet does with them. Nothing is read as a KeepAlive.
Silent == {"AuthSession", "PlayerLogin"}
Echoed == {"Ping", "RealmSplit"}
NotPlayer == 0     \* a guid whose entity type is not Player
Looked == {"ReadyForAccountDataTimes", "CharEnum"}
Packets == [op : Silent \cup Echoed \cup Looked, arg : {0}]
           \cup [op : {"CharacterCreate"}, arg : Names]
           \cup [op : {"CharacterDelete"}, arg : 1..MaxChars \cup {NotPlayer}]

Handlers == [conn : Conns, packet : Packets, at : {"start", "insert", "encrypt", "write"},
             pos : Nat]
Characters == [guid : Nat, account : Accounts, name : Names]

TypeOK ==
    /\ running \in BOOLEAN
    /\ backlog \in Seq(Conns)
    /\ pc \in [Conns -> {"new", "queued", "auth", "encrypt", "write", "loop", "closed"}]
    /\ gone \in SUBSET Conns
    /\ clients \in SUBSET Conns
    /\ account \in [Conns -> Accounts \cup {NoAccount}]
    /\ sessions \in SUBSET Conns
    /\ \A i \in sessions : account[i] \in Accounts   \* what CharEnum relies on
    /\ final \in [Conns -> 0..FinalPackets]
    /\ encrypted \in [Conns -> Nat]
    /\ written \in [Conns -> Nat]
    /\ inOrder \in SUBSET Conns
    /\ broken \in SUBSET Conns
    /\ queue \in Seq(Conns \X Packets)
    /\ active \in SUBSET Handlers
    /\ characters \in SUBSET Characters
    /\ received \in Nat /\ guids \in Nat /\ stops \in Nat

Init ==
    /\ running = TRUE
    /\ backlog = <<>>
    /\ pc = [i \in Conns |-> "new"]
    /\ gone = {}
    /\ clients = {}
    /\ account = [i \in Conns |-> NoAccount]
    /\ sessions = {}
    /\ final = [i \in Conns |-> FinalPackets]
    /\ encrypted = [i \in Conns |-> 0]
    /\ written = [i \in Conns |-> 0]
    /\ inOrder = Conns
    /\ broken = {}
    /\ queue = <<>>
    /\ active = {}
    /\ characters = {}
    /\ received = 0 /\ guids = 0 /\ stops = 0

Served(i) == pc[i] \in {"auth", "encrypt", "write", "loop"}

-----------------------------------------------------------------------------
(* Clients, and the end of the process.                                    *)

Arrive(i) ==
    /\ pc[i] = "new" /\ running
    /\ pc' = [pc EXCEPT ![i] = "queued"]
    /\ backlog' = Append(backlog, i)
    /\ UNCHANGED <<running, gone, clients, account, sessions, final, cryptVars, queue, active,
                   characters, received, guids, stops>>

HangUp(i) ==
    /\ pc[i] # "new" /\ i \notin gone
    /\ gone' = gone \cup {i}
    /\ UNCHANGED <<running, backlog, pc, clients, account, sessions, final, cryptVars, queue,
                   active, characters, received, guids, stops>>

\* A task of start()'s try_join! fails: the process ends, with every connection,
\* session and queued packet. The characters stay.
Down ==
    /\ stops < MaxStops
    /\ stops' = stops + 1
    /\ running' = FALSE
    /\ backlog' = <<>>
    /\ pc' = [i \in Conns |-> IF pc[i] = "new" THEN "new" ELSE "closed"]
    /\ clients' = {} /\ sessions' = {}
    /\ queue' = <<>> /\ active' = {}
    /\ UNCHANGED <<gone, account, final, cryptVars, characters, received, guids>>

Restart ==
    /\ ~running
    /\ running' = TRUE
    /\ UNCHANGED <<connVars, cryptVars, queue, active, characters, received, guids, stops>>

-----------------------------------------------------------------------------
(* accept_clients and connect_loop.                                        *)

\* The next connection is taken when the last one's connect_loop has returned:
\* it gets an entry in clients and the challenge is written to it.
Accept ==
    /\ backlog # <<>>
    /\ \A i \in Conns : ~Served(i)
    /\ backlog' = Tail(backlog)
    /\ pc' = [pc EXCEPT ![Head(backlog)] = "auth"]
    /\ clients' = clients \cup {Head(backlog)}
    /\ UNCHANGED <<running, gone, account, sessions, final, cryptVars, queue, active, characters,
                   received, guids, stops>>

\* The `?` on that write is accept_clients' own: it ends the task.
AcceptFails ==
    /\ backlog # <<>>
    /\ \A i \in Conns : ~Served(i)
    /\ Head(backlog) \in gone
    /\ Down

\* connect_loop has returned: the error is logged and the client forgotten. Its
\* session stays in World.sessions.
\* Mutant: the session goes with the client.
CloseM(i) ==
    /\ pc' = [pc EXCEPT ![i] = "closed"]
    /\ clients' = clients \ {i}
    /\ sessions' = sessions \ {i}
    /\ UNCHANGED <<running, backlog, gone, account, final, queue, active, characters, received,
                   guids, stops>>

Close(i) ==
    /\ pc' = [pc EXCEPT ![i] = "closed"]
    /\ clients' = clients \ {i}
    /\ UNCHANGED <<running, backlog, gone, account, sessions, final, queue, active, characters,
                   received, guids, stops>>

\* read_packets or an error reply ends the connection: closed, an unknown
\* opcode, a packet that does not parse, or a client that is not let in.
ConnectEnds(i) == pc[i] \in {"auth", "loop"} /\ Close(i) /\ UNCHANGED cryptVars

\* read() returned a piece of a frame, or the opcode is one left as todo!(): the
\* task panics.
ReadPanics(i) == pc[i] \in {"auth", "loop"} /\ stops < MaxPanics /\ Down

\* handle_auth_session lets the client in: realm, account, key and proof check.
\* Mutant: the account is not kept in the Client.
AuthSessionM(i, a) ==
    /\ pc[i] = "auth"
    /\ pc' = [pc EXCEPT ![i] = "encrypt"]
    /\ UNCHANGED <<running, backlog, gone, clients, account, sessions, final, cryptVars, queue,
                   active, characters, received, guids, stops>>

AuthSession(i, a) ==
    /\ pc[i] = "auth"
    /\ account' = [account EXCEPT ![i] = a]
    /\ pc' = [pc EXCEPT ![i] = "encrypt"]
    /\ UNCHANGED <<running, backlog, gone, clients, sessions, final, cryptVars, queue, active,
                   characters, received, guids, stops>>

\* Session::finalize, run by Session::new: a packet's header is encrypted ...
FinalEncrypt(i) ==
    /\ pc[i] = "encrypt"
    /\ encrypted' = [encrypted EXCEPT ![i] = @ + 1]
    /\ pc' = [pc EXCEPT ![i] = "write"]
    /\ UNCHANGED <<running, backlog, gone, clients, account, sessions, final, written, inOrder,
                   broken, queue, active, characters, received, guids, stops>>

\* A write of the packet whose header was encrypted as number pos. Once a write
\* on a connection has failed, the later ones fail too.
WriteOn(i, pos) ==
    /\ i \notin broken
    /\ written' = [written EXCEPT ![i] = @ + 1]
    /\ inOrder' = IF pos = written[i] + 1 THEN inOrder ELSE inOrder \ {i}
    /\ UNCHANGED <<encrypted, broken>>

WriteFails(i) ==
    /\ i \in gone
    /\ broken' = broken \cup {i}
    /\ UNCHANGED <<encrypted, written, inOrder>>

\* ... and it is written; after the last one create_session enters the session.
FinalWrite(i) ==
    /\ pc[i] = "write"
    /\ \/ /\ WriteOn(i, encrypted[i])
          /\ final' = [final EXCEPT ![i] = @ - 1]
          /\ pc' = [pc EXCEPT ![i] = IF final[i] = 1 THEN "loop" ELSE "encrypt"]
          /\ sessions' = IF final[i] = 1 THEN sessions \cup {i} ELSE sessions
          /\ UNCHANGED <<running, backlog, gone, clients, account, queue, active, characters,
                         received, guids, stops>>
       \/ WriteFails(i) /\ Close(i)

\* A packet of a frame goes into the channel; the client may have hung up since
\* it sent it.
Receive(i, p) ==
    /\ pc[i] = "loop"
    /\ received < MaxPackets
    /\ received' = received + 1
    /\ queue' = Append(queue, <<i, p>>)
    /\ UNCHANGED <<running, connVars, cryptVars, active, characters, guids, stops>>

-----------------------------------------------------------------------------
(* handle_packets.                                                         *)

\* The next packet is taken when the last one is done; one whose session is not
\* found is dropped.
\* Mutants: packets are handled concurrently; a packet waits for its client.
DequeueM ==
    /\ queue # <<>>
    /\ queue' = Tail(queue)
    /\ active' = active \cup {[conn |-> Head(queue)[1], packet |-> Head(queue)[2],
                               at |-> "start", pos |-> 0]}
    /\ UNCHANGED <<running, connVars, cryptVars, characters, received, guids, stops>>

DequeueM2 ==
    /\ active = {} /\ queue # <<>>
    /\ Head(queue)[1] \in clients
    /\ queue' = Tail(queue)
    /\ active' = {[conn |-> Head(queue)[1], packet |-> Head(queue)[2],
                   at |-> "start", pos |-> 0]}
    /\ UNCHANGED <<running, connVars, cryptVars, characters, received, guids, stops>>

Dequeue ==
    /\ active = {} /\ queue # <<>>
    /\ queue' = Tail(queue)
    /\ active' = {[conn |-> i, packet |-> Head(queue)[2], at |-> "start", pos |-> 0] :
                    i \in {Head(queue)[1]} \cap sessions}
    /\ UNCHANGED <<running, connVars, cryptVars, characters, received, guids, stops>>

\* The handler returns, with or without an error.
Done(h) == active' = active \ {h}
GoOn(h, at, pos) == active' = (active \ {h}) \cup {[h EXCEPT !.at = at, !.pos = pos]}
Reply(h) == GoOn(h, "encrypt", 0)

\* SELECT COUNT(*) = 0. Mutant: the answer is not looked at.
NameAvailableM(n) == TRUE
NameAvailable(n) == \A c \in characters : c.name # n

\* CharacterCreate up to the INSERT: a name in use, a failed query or a malformed
\* name is answered; a good one goes on to create_character.
StartCreate(h) ==
    /\ h.packet.op = "CharacterCreate"
    /\ \/ Reply(h)
       \/ NameAvailable(h.packet.arg) /\ h.packet.arg \in Proper /\ GoOn(h, "insert", 0)
    /\ UNCHANGED characters

\* CharacterDelete: a guid that is not a player's ends the handler; else the row
\* goes (any account's) or the DELETE fails, and either is answered.
Delete(h) ==
    /\ h.packet.op = "CharacterDelete"
    /\ \/ h.packet.arg = NotPlayer /\ Done(h) /\ UNCHANGED characters
       \/ /\ h.packet.arg # NotPlayer /\ Reply(h)
          /\ \/ characters' = {c \in characters : c.guid # h.packet.arg}
             \/ UNCHANGED characters

\* The first step of handle_packet: everything up to its reply or its INSERT. A
\* failed query of a list is logged and not answered; PlayerLogin never answers.
Handle(h) ==
    /\ h.at = "start"
    /\ \/ h.packet.op \in Silent /\ Done(h) /\ UNCHANGED characters
       \/ h.packet.op \in Echoed /\ Reply(h) /\ UNCHANGED characters
       \/ h.packet.op \in Looked /\ (Reply(h) \/ Done(h)) /\ UNCHANGED characters
       \/ StartCreate(h)
       \/ Delete(h)
    /\ UNCHANGED <<running, connVars, cryptVars, queue, received, guids, stops>>

\* create_character: the INSERT, or an error, which is not answered; the row may
\* have been inserted and only the result been lost.
Insert(h) ==
    /\ h.at = "insert"
    /\ \/ /\ guids < MaxChars
          /\ guids' = guids + 1
          /\ characters' = characters \cup
               {[guid |-> guids + 1, account |-> account[h.conn], name |-> h.packet.arg]}
          /\ Reply(h) \/ Done(h)
       \/ Done(h) /\ UNCHANGED <<characters, guids>>
    /\ UNCHANGED <<running, connVars, cryptVars, queue, received, stops>>

\* write_packet: the header is encrypted ...
Encrypt(h) ==
    /\ h.at = "encrypt"
    /\ encrypted' = [encrypted EXCEPT ![h.conn] = @ + 1]
    /\ GoOn(h, "write", encrypted[h.conn] + 1)
    /\ UNCHANGED <<running, connVars, written, inOrder, broken, queue, characters, received, guids,
                   stops>>

\* ... and the packet written, unless the connection is broken.
Write(h) ==
    /\ h.at = "write"
    /\ \/ WriteOn(h.conn, h.pos)
       \/ WriteFails(h.conn)
    /\ Done(h)
    /\ UNCHANGED <<running, connVars, queue, characters, received, guids, stops>>

-----------------------------------------------------------------------------
(* start(): the tasks together.                                            *)

HandleStep == Dequeue \/ \E h \in active : Handle(h) \/ Insert(h) \/ Encrypt(h)

Next ==
    \/ \E i \in Conns : Arrive(i)
    \/ \E i \in Conns : HangUp(i)
    \/ Restart
    \/ Accept
    \/ AcceptFails
    \/ \E i \in Conns : ConnectEnds(i)
    \/ \E i \in Conns : ReadPanics(i)
    \/ \E i \in Conns, a \in Accounts : AuthSession(i, a)
    \/ \E i \in Conns : FinalEncrypt(i)
    \/ \E i \in Conns : FinalWrite(i)
    \/ \E i \in Conns, p \in Packets : Receive(i, p)
    \/ HandleStep
    \/ \E h \in active : Write(h)

Spec == Init /\ [][Next]_vars

\* The runtime schedules handle_packets, and a query is answered or fails. A
\* write waits for a client that does not read, so it has no fairness.
FairSpec == Spec /\ WF_vars(HandleStep)

-----------------------------------------------------------------------------
(* Properties.                                                             *)

\* The packets of a session reach the stream in the order in which its RC4 state
\* encrypted their headers, although write_packet takes the encryption lock and
\* the stream lock one after the other: only one task writes to a session at a
\* time, finalize before create_session publishes it and handle_packets after.
HeadersInOrder == inOrder = Conns

\* No two characters have the same name: handle_packet checks it and inserts in
\* two queries, and nothing else inserts in between.
NamesUnique == \A c, d \in characters : c.name = d.name => c = d

\* A packet in the channel always has a session, also when its connection has
\* ended since: handle_packets' `None => continue` never drops one.
QueuedHasSession == \A k \in 1..Len(queue) : queue[k][1] \in sessions

\* The number of the last packet that has been taken out of the channel.
Taken == received - Len(queue)

\* Every packet that goes into the channel is in the end handled to its last step,
\* however many more arrive and whatever has become of its connection, unless the
\* process ends first or a write blocks for ever.
PacketsHandled ==
    []<>(\A h \in active : h.at # "write")
        => \A k \in 1..MaxPackets, n \in 0..MaxStops :
              received >= k /\ stops = n
                ~> (Taken >= k /\ (Taken = k => active = {})) \/ stops # n

\* accept_clients goes on accepting: a client that resets its connection before
\* the challenge is written does not end the process.
ServerKeepsRunning == running
-----------------------------------------------------------------------------
(* Why the invariants hold, whatever the constants (WorldServerProofs).    *)

\* The kernel's backlog has each waiting connection once.
BacklogWaits ==
    /\ \A k \in 1..Len(backlog) : pc[backlog[k]] = "queued"
    /\ \A k, l \in 1..Len(backlog) : backlog[k] = backlog[l] => k = l

\* Session::new finalizes an account's session before anybody can find it.
FinalizedFirst ==
    /\ \A i \in Conns :
          /\ pc[i] \in {"new", "queued", "auth"} => final[i] = FinalPackets
          /\ pc[i] \in {"encrypt", "write"} => final[i] > 0 /\ account[i] \in Accounts
          /\ pc[i] = "loop" => i \in sessions
    /\ \A i \in sessions : pc[i] \in {"loop", "closed"}

\* handle_packets has one packet in hand, and its session.
OneHandler ==
    /\ \A h, k \in active : h = k
    /\ \A h \in active : h.conn \in sessions

\* On a stream that still works, the key stream is ahead of the packets written
\* by the one packet between its two locks, if there is one.
OneInFlight ==
    /\ \A i \in Conns :
          /\ pc[i] \in {"new", "queued", "auth", "encrypt"} => encrypted[i] = written[i]
          /\ pc[i] = "write" => encrypted[i] = written[i] + 1
    /\ \A i \in sessions \ broken :
          \/ encrypted[i] = written[i]
          \/ \E h \in active : h.conn = i /\ h.at = "write"
    /\ \A h \in active : h.at = "write" /\ h.conn \notin broken =>
          h.pos = written[h.conn] + 1 /\ encrypted[h.conn] = h.pos

\* What handle_packet found out about a name still holds at its INSERT.
InsertChecked ==
    \A h \in active : h.at = "insert" =>
        h.packet.op = "CharacterCreate" /\ NameAvailable(h.packet.arg)

WorldInv ==
    /\ TypeOK
    /\ BacklogWaits
    /\ FinalizedFirst
    /\ OneHandler
    /\ QueuedHasSession
    /\ OneInFlight /\ HeadersInOrder
    /\ InsertChecked /\ NamesUnique
=============================================================================
