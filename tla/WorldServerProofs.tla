-------------------------- MODULE WorldServerProofs --------------------------
(***************************************************************************)
(* Proofs about WorldServer, for any connections, accounts, names and      *)
(* bounds: WorldInv is inductive. One lemma for each step of the two       *)
(* tasks; a part of the invariant is argued where a step can disturb it.   *)
(***************************************************************************)
EXTENDS WorldServer, TLAPS

\* The initial state satisfies the invariant.
LEMMA InitWorld == Init => WorldInv
BY WorldAssumption DEF Init, WorldInv, TypeOK, BacklogWaits, FinalizedFirst, OneHandler,
   QueuedHasSession, OneInFlight, HeadersInOrder, InsertChecked, NamesUnique, FinalPackets

\* A step that changes nothing keeps it.
LEMMA StutterWorld == WorldInv /\ UNCHANGED vars => WorldInv'
BY DEF vars, connVars, cryptVars, WorldInv, TypeOK, BacklogWaits, FinalizedFirst, OneHandler,
   QueuedHasSession, OneInFlight, HeadersInOrder, InsertChecked, NamesUnique, NameAvailable

\* The backlog is not concerned when a connection that is not in it moves on.
LEMMA BacklogKept ==
    ASSUME TypeOK, BacklogWaits, NEW i \in Conns, pc[i] # "queued", NEW x,
           pc' = [pc EXCEPT ![i] = x], UNCHANGED backlog
    PROVE  BacklogWaits'
<1>1. ASSUME NEW k \in 1..Len(backlog) PROVE pc'[backlog[k]] = "queued"
  <2>1. backlog[k] \in Conns /\ pc[backlog[k]] = "queued"
    BY DEF TypeOK, BacklogWaits
  <2>2. QED BY <2>1 DEF TypeOK
<1>2. QED BY <1>1 DEF BacklogWaits

-----------------------------------------------------------------------------
(* Clients, and the end of the process.                                    *)

\* The kernel takes a connection that has not been used.
LEMMA ArriveWorld ==
    ASSUME WorldInv, NEW i \in Conns, Arrive(i)
    PROVE  WorldInv'
<1> USE DEF WorldInv, Arrive, cryptVars
<1>1. TypeOK'
  BY DEF TypeOK
<1>2. BacklogWaits'
  <2>0. /\ Len(backlog) \in Nat /\ Len(backlog') = Len(backlog) + 1
        /\ \A k \in 1..Len(backlog) : backlog'[k] = backlog[k] /\ backlog[k] \in Conns
        /\ backlog'[Len(backlog) + 1] = i
    BY DEF TypeOK
  <2>1. \A k \in 1..Len(backlog) : backlog[k] # i
    BY DEF BacklogWaits, TypeOK
  <2>2. \A k \in 1..Len(backlog') : pc'[backlog'[k]] = "queued"
    <3> TAKE k \in 1..Len(backlog')
    <3>1. CASE k = Len(backlog) + 1
      BY <2>0, <3>1 DEF TypeOK
    <3>2. CASE k \in 1..Len(backlog)
      <4>1. backlog'[k] = backlog[k] /\ backlog[k] \in Conns /\ backlog[k] # i
            /\ pc[backlog[k]] = "queued"
        BY <2>0, <2>1, <3>2 DEF BacklogWaits
      <4>2. QED BY <4>1 DEF TypeOK
    <3>3. QED BY <2>0, <3>1, <3>2
  <2>3. \A k, l \in 1..Len(backlog') : backlog'[k] = backlog'[l] => k = l
    BY <2>0, <2>1 DEF BacklogWaits
  <2>4. QED BY <2>2, <2>3 DEF BacklogWaits
<1>3. FinalizedFirst' /\ OneHandler' /\ QueuedHasSession'
  BY DEF FinalizedFirst, OneHandler, QueuedHasSession, TypeOK
<1>4. OneInFlight' /\ HeadersInOrder'
  BY DEF OneInFlight, HeadersInOrder, TypeOK
<1>5. InsertChecked' /\ NamesUnique'
  BY DEF InsertChecked, NamesUnique, NameAvailable
<1>6. QED BY <1>1, <1>2, <1>3, <1>4, <1>5

\* A client hangs up.
LEMMA HangUpWorld ==
    ASSUME WorldInv, NEW i \in Conns, HangUp(i)
    PROVE  WorldInv'
BY DEF HangUp, cryptVars, WorldInv, TypeOK, BacklogWaits, FinalizedFirst, OneHandler,
   QueuedHasSession, OneInFlight, HeadersInOrder, InsertChecked, NamesUnique, NameAvailable

\* The process ends: connections, sessions, channel and handler go with it.
LEMMA DownWorld == WorldInv /\ Down => WorldInv'
<1> SUFFICES ASSUME WorldInv, Down PROVE WorldInv'
  OBVIOUS
<1> USE DEF WorldInv, Down, cryptVars
<1>1. TypeOK'
  <2>1. /\ pc' \in [Conns -> {"new", "queued", "auth", "encrypt", "write", "loop", "closed"}]
        /\ backlog' \in Seq(Conns) /\ queue' \in Seq(Conns \X Packets)
        /\ stops' \in Nat
    BY DEF TypeOK
  <2>2. QED BY <2>1 DEF TypeOK
<1>2. BacklogWaits' /\ OneHandler' /\ QueuedHasSession'
  BY DEF BacklogWaits, OneHandler, QueuedHasSession
<1>3. FinalizedFirst'
  BY DEF FinalizedFirst, TypeOK
<1>4. OneInFlight' /\ HeadersInOrder'
  BY DEF OneInFlight, HeadersInOrder, TypeOK
<1>5. InsertChecked' /\ NamesUnique'
  BY DEF InsertChecked, NamesUnique
<1>6. QED BY <1>1, <1>2, <1>3, <1>4, <1>5

\* It is started again.
LEMMA RestartWorld == WorldInv /\ Restart => WorldInv'
BY DEF Restart, connVars, cryptVars, WorldInv, TypeOK, BacklogWaits, FinalizedFirst, OneHandler,
   QueuedHasSession, OneInFlight, HeadersInOrder, InsertChecked, NamesUnique, NameAvailable

-----------------------------------------------------------------------------
(* accept_clients and connect_loop.                                        *)

\* The connection taken off the backlog waited there, and only once.
LEMMA AcceptWorld == WorldInv /\ Accept => WorldInv'
<1> SUFFICES ASSUME WorldInv, Accept PROVE WorldInv'
  OBVIOUS
<1> USE DEF WorldInv, Accept, cryptVars
<1>0. /\ Head(backlog) \in Conns /\ pc[Head(backlog)] = "queued"
      /\ Len(backlog) \in Nat /\ Len(backlog) > 0
      /\ Len(backlog') = Len(backlog) - 1
      /\ \A k \in 1..Len(backlog') : backlog'[k] = backlog[k + 1]
      /\ backlog' \in Seq(Conns)
  BY DEF TypeOK, BacklogWaits
<1>1. TypeOK'
  BY <1>0 DEF TypeOK
<1>2. BacklogWaits'
  <2>1. ASSUME NEW k \in 1..Len(backlog') PROVE pc'[backlog'[k]] = "queued"
    <3>1. backlog[k + 1] # backlog[1] /\ pc[backlog[k + 1]] = "queued" /\ backlog[k + 1] \in Conns
      BY <1>0, SMTT(30) DEF BacklogWaits, TypeOK
    <3>2. QED BY <1>0, <3>1 DEF TypeOK
  <2>2. ASSUME NEW k \in 1..Len(backlog'), NEW l \in 1..Len(backlog'),
               backlog'[k] = backlog'[l]
        PROVE  k = l
    BY <1>0, <2>2 DEF BacklogWaits
  <2>3. QED BY <2>1, <2>2 DEF BacklogWaits
<1>3. FinalizedFirst' /\ OneHandler' /\ QueuedHasSession'
  BY <1>0 DEF FinalizedFirst, OneHandler, QueuedHasSession, TypeOK
<1>4. OneInFlight' /\ HeadersInOrder'
  BY <1>0 DEF OneInFlight, HeadersInOrder, TypeOK
<1>5. InsertChecked' /\ NamesUnique'
  BY DEF InsertChecked, NamesUnique, NameAvailable
<1>6. QED BY <1>1, <1>2, <1>3, <1>4, <1>5

\* A connection that is being served is closed, its stream as it is or broken.
LEMMA CloseWorld ==
    ASSUME WorldInv, NEW i \in Conns, Served(i), Close(i),
           UNCHANGED cryptVars \/ WriteFails(i)
    PROVE  WorldInv'
<1> USE DEF WorldInv, Close, cryptVars, WriteFails
<1>1. TypeOK'
  BY DEF TypeOK
<1>2. BacklogWaits'
  BY BacklogKept DEF Served
<1>3. FinalizedFirst' /\ OneHandler' /\ QueuedHasSession'
  BY DEF FinalizedFirst, OneHandler, QueuedHasSession, TypeOK, Served
<1>4. OneInFlight' /\ HeadersInOrder'
  BY DEF OneInFlight, HeadersInOrder, TypeOK
<1>5. InsertChecked' /\ NamesUnique'
  BY DEF InsertChecked, NamesUnique, NameAvailable
<1>6. QED BY <1>1, <1>2, <1>3, <1>4, <1>5

\* A client is let in.
LEMMA AuthSessionWorld ==
    ASSUME WorldInv, NEW i \in Conns, NEW a \in Accounts, AuthSession(i, a)
    PROVE  WorldInv'
<1> USE DEF WorldInv, AuthSession, cryptVars
<1>1. TypeOK'
  BY DEF TypeOK
<1>2. BacklogWaits'
  BY BacklogKept
<1>3. FinalizedFirst' /\ OneHandler' /\ QueuedHasSession'
  BY DEF FinalizedFirst, OneHandler, QueuedHasSession, TypeOK, FinalPackets
<1>4. OneInFlight' /\ HeadersInOrder'
  BY DEF OneInFlight, HeadersInOrder, TypeOK
<1>5. InsertChecked' /\ NamesUnique'
  BY DEF InsertChecked, NamesUnique, NameAvailable
<1>6. QED BY <1>1, <1>2, <1>3, <1>4, <1>5

\* finalize encrypts a header of a session nobody else has.
LEMMA FinalEncryptWorld ==
    ASSUME WorldInv, NEW i \in Conns, FinalEncrypt(i)
    PROVE  WorldInv'
<1> USE DEF WorldInv, FinalEncrypt
<1>1. TypeOK'
  BY DEF TypeOK
<1>2. BacklogWaits'
  BY BacklogKept
<1>3. FinalizedFirst' /\ OneHandler' /\ QueuedHasSession'
  BY DEF FinalizedFirst, OneHandler, QueuedHasSession, TypeOK
<1>4. OneInFlight' /\ HeadersInOrder'
  <2>1. /\ pc[i] = "encrypt" /\ pc' = [pc EXCEPT ![i] = "write"]
        /\ encrypted' = [encrypted EXCEPT ![i] = @ + 1]
        /\ UNCHANGED <<written, inOrder, broken, sessions, active>>
        /\ pc \in [Conns -> {"new", "queued", "auth", "encrypt", "write", "loop", "closed"}]
        /\ encrypted \in [Conns -> Nat] /\ sessions \in SUBSET Conns
    BY DEF TypeOK
  <2>2. encrypted[i] = written[i]
    BY <2>1 DEF OneInFlight
  <2>3. i \notin sessions /\ \A h \in active : h.conn \in sessions
    BY <2>1 DEF FinalizedFirst, OneHandler
  <2>4. \A j \in Conns \ {i} : encrypted'[j] = encrypted[j] /\ pc'[j] = pc[j]
    BY <2>1
  <2>5. encrypted'[i] = written[i] + 1 /\ pc'[i] = "write"
    BY <2>1, <2>2
  <2> HIDE DEF WorldInv, FinalEncrypt
  <2>6. OneInFlight
    BY DEF WorldInv
  <2>7. \A j \in Conns :
              /\ pc'[j] \in {"new", "queued", "auth", "encrypt"} => encrypted'[j] = written[j]
              /\ pc'[j] = "write" => encrypted'[j] = written[j] + 1
    BY <2>4, <2>5, <2>6 DEF OneInFlight
  <2>8. \A j \in sessions : j \in Conns \ {i} /\ encrypted'[j] = encrypted[j]
    BY <2>1, <2>3, <2>4
  <2>9. OneInFlight'
    BY <2>1, <2>3, <2>6, <2>7, <2>8 DEF OneInFlight
  <2>10. HeadersInOrder'
    BY <2>1 DEF WorldInv, HeadersInOrder
  <2>11. QED BY <2>9, <2>10
<1>5. InsertChecked' /\ NamesUnique'
  BY DEF InsertChecked, NamesUnique, NameAvailable
<1>6. QED BY <1>1, <1>2, <1>3, <1>4, <1>5

\* finalize writes the packet; the last one publishes the session.
LEMMA FinalWriteWorld ==
    ASSUME WorldInv, NEW i \in Conns, FinalWrite(i)
    PROVE  WorldInv'
<1> USE DEF WorldInv
<1>1. CASE WriteFails(i) /\ Close(i)
  BY <1>1, CloseWorld DEF FinalWrite, Served
<1>2. ASSUME WriteOn(i, encrypted[i]),
             final' = [final EXCEPT ![i] = @ - 1],
             pc' = [pc EXCEPT ![i] = IF final[i] = 1 THEN "loop" ELSE "encrypt"],
             sessions' = IF final[i] = 1 THEN sessions \cup {i} ELSE sessions,
             UNCHANGED <<running, backlog, gone, clients, account, queue, active, characters,
                         received, guids, stops>>
      PROVE  WorldInv'
  <2> USE <1>2 DEF WriteOn, FinalPackets
  <2>0. /\ pc[i] = "write" /\ i \notin sessions /\ account[i] \in Accounts
        /\ final[i] \in 1..FinalPackets /\ encrypted[i] = written[i] + 1
    <3>1. pc[i] = "write"
      BY DEF FinalWrite
    <3>2. i \notin sessions /\ account[i] \in Accounts /\ final[i] > 0
      BY <3>1 DEF FinalizedFirst
    <3>3. encrypted[i] = written[i] + 1
      BY <3>1 DEF OneInFlight
    <3>4. final[i] \in 0..FinalPackets
      BY DEF TypeOK
    <3>5. QED BY <3>1, <3>2, <3>3, <3>4
  <2>1. TypeOK'
    BY <2>0 DEF TypeOK
  <2>2. BacklogWaits'
    BY <2>0, BacklogKept
  <2>3. FinalizedFirst' /\ OneHandler' /\ QueuedHasSession'
    BY <2>0 DEF FinalizedFirst, OneHandler, QueuedHasSession, TypeOK
  <2>4. OneInFlight' /\ HeadersInOrder'
    <3>1. HeadersInOrder'
      BY <2>0 DEF HeadersInOrder
    <3>2. \A h \in active : h.conn # i
      BY <2>0 DEF OneHandler
    <3>3. /\ written'[i] = encrypted'[i]
          /\ \A j \in Conns : j # i => written'[j] = written[j] /\ encrypted'[j] = encrypted[j]
      BY <2>0 DEF TypeOK
    <3>4. QED BY <2>0, <3>1, <3>2, <3>3 DEF OneInFlight, TypeOK, OneHandler
  <2>5. InsertChecked' /\ NamesUnique'
    BY DEF InsertChecked, NamesUnique, NameAvailable
  <2>6. QED BY <2>1, <2>2, <2>3, <2>4, <2>5
<1>3. QED BY <1>1, <1>2 DEF FinalWrite

\* A packet that goes into the channel comes from a session.
LEMMA ReceiveWorld ==
    ASSUME WorldInv, NEW i \in Conns, NEW p \in Packets, Receive(i, p)
    PROVE  WorldInv'
<1> USE DEF WorldInv, Receive, connVars, cryptVars
<1>1. TypeOK'
  BY DEF TypeOK
<1>2. BacklogWaits' /\ FinalizedFirst' /\ OneHandler'
  BY DEF BacklogWaits, FinalizedFirst, OneHandler
<1>3. QueuedHasSession'
  <2>1. queue \in Seq(Conns \X Packets) /\ i \in sessions
    BY DEF TypeOK, FinalizedFirst
  <2>2. /\ Len(queue) \in Nat /\ Len(queue') = Len(queue) + 1
        /\ \A k \in 1..Len(queue) : queue'[k] = queue[k]
        /\ queue'[Len(queue) + 1] = <<i, p>>
    BY <2>1
  <2>3. ASSUME NEW k \in 1..Len(queue') PROVE queue'[k][1] \in sessions
    <3>1. k \in 1..Len(queue) \/ k = Len(queue) + 1
      BY <2>2
    <3>2. QED BY <2>1, <2>2, <3>1 DEF QueuedHasSession
  <2>4. QED BY <2>3 DEF QueuedHasSession
<1>4. OneInFlight' /\ HeadersInOrder'
  BY DEF OneInFlight, HeadersInOrder
<1>5. InsertChecked' /\ NamesUnique'
  BY DEF InsertChecked, NamesUnique, NameAvailable
<1>6. QED BY <1>1, <1>2, <1>3, <1>4, <1>5

-----------------------------------------------------------------------------
(* handle_packets.                                                         *)

\* The handler in hand is the only one: when it returns there is none.
LEMMA DoneNone ==
    ASSUME WorldInv, NEW h \in active, Done(h)
    PROVE  active' = {}
BY DEF WorldInv, OneHandler, Done

\* When it goes on it stays the only one, with its connection and its packet.
LEMMA GoOnOne ==
    ASSUME WorldInv, NEW h \in active, NEW at \in {"start", "insert", "encrypt", "write"},
           NEW pos \in Nat, GoOn(h, at, pos)
    PROVE  \E k \in Handlers : /\ active' = {k}
                               /\ k.conn = h.conn /\ k.packet = h.packet
                               /\ k.at = at /\ k.pos = pos
<1>1. h \in Handlers
  BY DEF WorldInv, TypeOK
<1>2. active' = {[h EXCEPT !.at = at, !.pos = pos]}
  BY DEF WorldInv, OneHandler, GoOn
<1>3. /\ [h EXCEPT !.at = at, !.pos = pos] \in Handlers
      /\ [h EXCEPT !.at = at, !.pos = pos].conn = h.conn
      /\ [h EXCEPT !.at = at, !.pos = pos].packet = h.packet
      /\ [h EXCEPT !.at = at, !.pos = pos].at = at
      /\ [h EXCEPT !.at = at, !.pos = pos].pos = pos
  BY <1>1 DEF Handlers
<1>4. QED BY <1>2, <1>3

\* The argument of a CharacterCreate is a name.
LEMMA CreateArg ==
    ASSUME NEW p \in Packets, p.op = "CharacterCreate"
    PROVE  p.arg \in Names
BY DEF Packets, Silent, Echoed, Looked

\* The channel's next packet is taken, with its session.
LEMMA DequeueWorld == WorldInv /\ Dequeue => WorldInv'
<1> SUFFICES ASSUME WorldInv, Dequeue PROVE WorldInv'
  OBVIOUS
<1> USE DEF WorldInv, Dequeue, connVars, cryptVars
<1>0. /\ Head(queue) \in Conns \X Packets
      /\ Len(queue) \in Nat /\ Len(queue') = Len(queue) - 1
      /\ \A k \in 1..Len(queue') : queue'[k] = queue[k + 1]
      /\ queue' \in Seq(Conns \X Packets)
  BY DEF TypeOK
<1>1. \A h \in active' : /\ h \in Handlers /\ h.at = "start"
                         /\ h.conn = Head(queue)[1] /\ h.conn \in sessions
                         /\ h.packet = Head(queue)[2] /\ h.pos = 0
  BY <1>0 DEF Handlers
<1>2. TypeOK'
  BY <1>0, <1>1 DEF TypeOK
<1>3. BacklogWaits' /\ FinalizedFirst' /\ HeadersInOrder' /\ NamesUnique'
  BY DEF BacklogWaits, FinalizedFirst, HeadersInOrder, NamesUnique
<1>4. OneHandler'
  BY <1>1 DEF OneHandler
<1>5. QueuedHasSession'
  BY <1>0 DEF QueuedHasSession
<1>6. OneInFlight' /\ InsertChecked'
  BY <1>1 DEF OneInFlight, InsertChecked
<1>7. QED BY <1>2, <1>3, <1>4, <1>5, <1>6

\* A handler between its first step and its reply's write: whatever it does to
\* the characters is right if the names stay unique.
LEMMA HandlerMoves ==
    ASSUME WorldInv, NEW h \in active, h.at # "write",
           \/ active' = {}
           \/ \E k \in Handlers : active' = {k} /\ k.conn = h.conn /\ k.at # "write",
           UNCHANGED <<running, connVars, cryptVars, queue, received, stops>>,
           characters' \in SUBSET Characters, guids' \in Nat,
           InsertChecked', NamesUnique'
    PROVE  WorldInv'
<1> USE DEF WorldInv, connVars, cryptVars
<1>1. active' \in SUBSET Handlers /\ OneHandler'
  BY DEF OneHandler
<1>2. TypeOK'
  BY <1>1 DEF TypeOK
<1>3. BacklogWaits' /\ FinalizedFirst' /\ QueuedHasSession' /\ HeadersInOrder'
  BY DEF BacklogWaits, FinalizedFirst, QueuedHasSession, HeadersInOrder
<1>4. OneInFlight'
  <2>1. \A j \in active' : j.at # "write"
    OBVIOUS
  <2>2. \A i \in sessions \ broken : encrypted[i] = written[i]
    BY DEF OneInFlight, OneHandler
  <2>3. QED BY <2>1, <2>2 DEF OneInFlight
<1>5. QED BY <1>1, <1>2, <1>3, <1>4

\* The first step of handle_packet.
LEMMA HandleWorld ==
    ASSUME WorldInv, NEW h \in active, Handle(h)
    PROVE  WorldInv'
<1>1. /\ characters' \in SUBSET Characters /\ characters' \subseteq characters /\ guids' \in Nat
      /\ \A n : NameAvailable(n) => NameAvailable(n)'
      /\ NamesUnique'
  BY DEF Handle, StartCreate, Delete, WorldInv, TypeOK, NamesUnique, NameAvailable
<1>2. CASE Done(h)
  <2>1. active' = {}
    BY <1>2, DoneNone
  <2>2. QED BY <1>1, <2>1, HandlerMoves DEF Handle, InsertChecked
<1>3. CASE Reply(h)
  <2>1. \E k \in Handlers : active' = {k} /\ k.conn = h.conn /\ k.at = "encrypt"
    BY <1>3, GoOnOne DEF Reply
  <2>2. InsertChecked'
    BY <2>1 DEF InsertChecked
  <2>3. QED BY <1>1, <2>1, <2>2, HandlerMoves DEF Handle
<1>4. CASE /\ h.packet.op = "CharacterCreate" /\ NameAvailable(h.packet.arg)
           /\ GoOn(h, "insert", 0) /\ UNCHANGED characters
  <2>1. PICK k \in Handlers : /\ active' = {k} /\ k.conn = h.conn
                              /\ k.packet = h.packet /\ k.at = "insert"
    BY <1>4, GoOnOne
  <2>2. InsertChecked'
    BY <1>4, <2>1 DEF InsertChecked, NameAvailable
  <2>3. QED BY <1>1, <2>1, <2>2, HandlerMoves DEF Handle
<1>5. QED BY <1>2, <1>3, <1>4 DEF Handle, StartCreate, Delete

\* The INSERT: the name that was free still is.
LEMMA InsertWorld ==
    ASSUME WorldInv, NEW h \in active, Insert(h)
    PROVE  WorldInv'
<1>1. CASE Done(h) /\ UNCHANGED <<characters, guids>>
  <2>1. active' = {}
    BY <1>1, DoneNone
  <2>2. NamesUnique' /\ InsertChecked' /\ characters' \in SUBSET Characters /\ guids' \in Nat
    BY <1>1, <2>1 DEF WorldInv, TypeOK, NamesUnique, InsertChecked
  <2>3. QED BY <2>1, <2>2, HandlerMoves DEF Insert
<1>2. CASE /\ guids' = guids + 1
           /\ characters' = characters \cup
                 {[guid |-> guids + 1, account |-> account[h.conn], name |-> h.packet.arg]}
           /\ Reply(h) \/ Done(h)
  <2>1. \/ active' = {}
        \/ \E k \in Handlers : active' = {k} /\ k.conn = h.conn /\ k.at = "encrypt"
    BY <1>2, GoOnOne, DoneNone DEF Reply
  <2>2. InsertChecked'
    BY <2>1 DEF InsertChecked
  <2>3. h.packet.op = "CharacterCreate" /\ \A c \in characters : c.name # h.packet.arg
    BY DEF Insert, WorldInv, InsertChecked, NameAvailable
  <2>4. NamesUnique'
    BY <1>2, <2>3 DEF WorldInv, NamesUnique
  <2>5. h.packet \in Packets
    BY DEF WorldInv, TypeOK, Handlers
  <2>6. account[h.conn] \in Accounts /\ guids \in Nat
    BY DEF WorldInv, TypeOK, OneHandler
  <2>7. characters' \in SUBSET Characters /\ guids' \in Nat
    BY <1>2, <2>3, <2>5, <2>6, CreateArg DEF WorldInv, TypeOK, Characters
  <2>8. QED BY <2>1, <2>2, <2>4, <2>7, HandlerMoves DEF Insert
<1>3. QED BY <1>1, <1>2 DEF Insert

\* write_packet encrypts a header: nothing else of this session is on its way.
LEMMA EncryptWorld ==
    ASSUME WorldInv, NEW h \in active, Encrypt(h)
    PROVE  WorldInv'
<1>1. h.conn \in sessions /\ h.conn \in Conns /\ encrypted[h.conn] \in Nat
  BY DEF WorldInv, TypeOK, OneHandler
<1>2. PICK k \in Handlers : /\ active' = {k} /\ k.conn = h.conn /\ k.packet = h.packet
                            /\ k.at = "write" /\ k.pos = encrypted[h.conn] + 1
  BY <1>1, GoOnOne DEF Encrypt
<1>3. pc[h.conn] \in {"loop", "closed"}
  BY <1>1 DEF WorldInv, FinalizedFirst
<1> USE DEF WorldInv, Encrypt, connVars
<1>4. TypeOK'
  BY <1>1, <1>2 DEF TypeOK
<1>5. BacklogWaits' /\ FinalizedFirst' /\ QueuedHasSession' /\ HeadersInOrder' /\ NamesUnique'
  BY DEF BacklogWaits, FinalizedFirst, QueuedHasSession, HeadersInOrder, NamesUnique
<1>6. OneHandler' /\ InsertChecked'
  BY <1>1, <1>2 DEF OneHandler, InsertChecked
<1>7. OneInFlight'
  <2>1. \A i \in sessions \ broken : encrypted[i] = written[i]
    BY DEF OneInFlight, OneHandler
  <2>2. /\ encrypted'[h.conn] = encrypted[h.conn] + 1
        /\ \A i \in Conns : i # h.conn => encrypted'[i] = encrypted[i]
    BY <1>1 DEF TypeOK
  <2>3. \A i \in Conns :
          /\ pc'[i] \in {"new", "queued", "auth", "encrypt"} => encrypted'[i] = written'[i]
          /\ pc'[i] = "write" => encrypted'[i] = written'[i] + 1
    BY <1>3, <2>2 DEF OneInFlight
  <2>4. \A i \in sessions' \ broken' :
          \/ encrypted'[i] = written'[i]
          \/ \E j \in active' : j.conn = i /\ j.at = "write"
    BY <1>2, <2>1, <2>2 DEF TypeOK
  <2>5. \A j \in active' : j.at = "write" /\ j.conn \notin broken' =>
          j.pos = written'[j.conn] + 1 /\ encrypted'[j.conn] = j.pos
    BY <1>1, <1>2, <2>1, <2>2
  <2>6. QED BY <2>3, <2>4, <2>5 DEF OneInFlight
<1>8. QED BY <1>4, <1>5, <1>6, <1>7

\* write_packet writes the packet whose header was the last to be encrypted.
LEMMA WriteWorld ==
    ASSUME WorldInv, NEW h \in active, Write(h)
    PROVE  WorldInv'
<1>1. active' = {} /\ active = {h}
  BY DoneNone DEF Write, WorldInv, OneHandler
<1>2. h.conn \in sessions /\ h.conn \in Conns /\ pc[h.conn] \in {"loop", "closed"}
  BY DEF WorldInv, TypeOK, OneHandler, FinalizedFirst
<1> USE DEF WorldInv, Write, connVars
<1>3. /\ TypeOK'
      /\ BacklogWaits' /\ FinalizedFirst' /\ QueuedHasSession' /\ NamesUnique'
      /\ OneHandler' /\ InsertChecked'
  <2>1. /\ written' \in [Conns -> Nat] /\ encrypted' = encrypted
        /\ inOrder' \in SUBSET Conns /\ broken' \in SUBSET Conns
    BY <1>2 DEF WriteOn, WriteFails, TypeOK
  <2>2. TypeOK'
    BY <1>1, <2>1 DEF TypeOK
  <2>3. QED
    BY <1>1, <2>2 DEF BacklogWaits, FinalizedFirst, QueuedHasSession, NamesUnique, OneHandler,
       InsertChecked
<1>4. CASE WriteOn(h.conn, h.pos)
  <2>1. h.pos = written[h.conn] + 1 /\ encrypted[h.conn] = h.pos
    BY <1>4 DEF OneInFlight, WriteOn
  <2>2. HeadersInOrder'
    BY <1>4, <2>1 DEF HeadersInOrder, WriteOn
  <2>3. /\ written'[h.conn] = encrypted'[h.conn] /\ broken' = broken /\ encrypted' = encrypted
        /\ \A i \in Conns : i # h.conn => written'[i] = written[i]
    BY <1>2, <1>4, <2>1 DEF WriteOn, TypeOK
  <2>4. OneInFlight'
    <3>1. \A i \in sessions' \ broken' : encrypted'[i] = written'[i]
      <4> SUFFICES ASSUME NEW i \in sessions, i \notin broken, i # h.conn
                   PROVE  encrypted[i] = written[i]
        BY <2>3 DEF TypeOK
      <4>1. \A k \in active : k.conn # i
        BY <1>1
      <4>2. QED BY <4>1 DEF OneInFlight
    <3>2. \A i \in Conns :
            /\ pc'[i] \in {"new", "queued", "auth", "encrypt"} => encrypted'[i] = written'[i]
            /\ pc'[i] = "write" => encrypted'[i] = written'[i] + 1
      BY <1>2, <2>3 DEF OneInFlight
    <3>3. QED BY <1>1, <3>1, <3>2 DEF OneInFlight
  <2>5. QED BY <1>3, <2>2, <2>4
<1>5. CASE WriteFails(h.conn)
  <2>1. OneInFlight' /\ HeadersInOrder'
    BY <1>1, <1>5 DEF OneInFlight, HeadersInOrder, WriteFails
  <2>2. QED BY <1>3, <2>1
<1>6. QED BY <1>4, <1>5

-----------------------------------------------------------------------------
(* The theorems.                                                           *)

\* The parts of the invariant belong together: no step of either task, of a
\* client or of the process breaks any of them.
THEOREM WorldInductive == Spec => []WorldInv
<1>1. WorldInv /\ [Next]_vars => WorldInv'
  <2> SUFFICES ASSUME WorldInv, [Next]_vars PROVE WorldInv'
    OBVIOUS
  <2>1. ASSUME NEW i \in Conns, Arrive(i) \/ HangUp(i) PROVE WorldInv'
    BY <2>1, ArriveWorld, HangUpWorld
  <2>2. CASE Restart \/ Accept \/ AcceptFails
    BY <2>2, RestartWorld, AcceptWorld, DownWorld DEF AcceptFails
  <2>3. ASSUME NEW i \in Conns, ConnectEnds(i) \/ ReadPanics(i) PROVE WorldInv'
    BY <2>3, CloseWorld, DownWorld DEF ConnectEnds, ReadPanics, Served
  <2>4. ASSUME NEW i \in Conns, NEW a \in Accounts, AuthSession(i, a) PROVE WorldInv'
    BY <2>4, AuthSessionWorld
  <2>5. ASSUME NEW i \in Conns, FinalEncrypt(i) \/ FinalWrite(i) PROVE WorldInv'
    BY <2>5, FinalEncryptWorld, FinalWriteWorld
  <2>6. ASSUME NEW i \in Conns, NEW p \in Packets, Receive(i, p) PROVE WorldInv'
    BY <2>6, ReceiveWorld
  <2>7. CASE HandleStep
    BY <2>7, DequeueWorld, HandleWorld, InsertWorld, EncryptWorld DEF HandleStep
  <2>8. ASSUME NEW h \in active, Write(h) PROVE WorldInv'
    BY <2>8, WriteWorld
  <2>9. CASE UNCHANGED vars
    BY <2>9, StutterWorld
  <2>10. QED
    BY <2>1, <2>2, <2>3, <2>4, <2>5, <2>6, <2>7, <2>8, <2>9 DEF Next
<1>2. QED BY <1>1, InitWorld, PTL DEF Spec

\* Every variable keeps its type; a session always has an account, which is what
\* the handlers of CharEnum and CharacterCreate take for granted.
THEOREM WorldTypeCorrect == Spec => []TypeOK
<1>1. WorldInv => TypeOK
  BY DEF WorldInv
<1>2. QED BY <1>1, WorldInductive, PTL

\* write_packet takes the lock of the RC4 state and the lock of the stream one
\* after the other, and still no session's packets are written in another order
\* than their headers were encrypted.
THEOREM WorldHeadersInOrder == Spec => []HeadersInOrder
<1>1. WorldInv => HeadersInOrder
  BY DEF WorldInv
<1>2. QED BY <1>1, WorldInductive, PTL

\* The name check and the INSERT are two queries, and still no two characters
\* get the same name.
THEOREM WorldNamesUnique == Spec => []NamesUnique
<1>1. WorldInv => NamesUnique
  BY DEF WorldInv
<1>2. QED BY <1>1, WorldInductive, PTL

\* handle_packets finds the session of every packet in the channel, also when
\* the connection it came from has ended.
THEOREM WorldQueuedHasSession == Spec => []QueuedHasSession
<1>1. WorldInv => QueuedHasSession
  BY DEF WorldInv
<1>2. QED BY <1>1, WorldInductive, PTL
=============================================================================
