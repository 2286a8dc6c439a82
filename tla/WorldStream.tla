----------------------------- MODULE WorldStream -----------------------------
(***************************************************************************)
(* The two byte streams of one world connection: how read_packets          *)
(* (services/world/src/protocol/mod.rs) cuts what one read() returns into  *)
(* packets, how write_packet (world/session.rs) puts packets on the        *)
(* stream, and how the RC4 states of both ends (HeaderCrypto) keep step.   *)
(*                                                                         *)
(* A stream is not a list of bytes: a client packet knows the offset `at`  *)
(* where it begins, the server counts the bytes it has read, and a header  *)
(* is understood when it is read at a packet's first byte with the key     *)
(* stream at that packet's place. Any other six bytes are garbage: they    *)
(* may decode to anything.                                                 *)
(***************************************************************************)
EXTENDS Naturals, Sequences, FiniteSets, SequencesExt

CONSTANTS Bodies,      \* lengths a client's packet may have beyond its header
          Replies,     \* the same, of a server's packet
          Fates,       \* what read_packet may make of a packet
          BufferSize,  \* the array read() fills: 2048 bytes
          SendBuffer,  \* what the socket holds of what the client has not read
          MaxSent      \* bound: packets the client sends

HeaderSize == 6        \* of a client's packet: size and a four-byte opcode
ReplyHeader == 4       \* of a server's packet: size and a two-byte opcode
FinalPackets == 4      \* what Session::finalize sends

ASSUME StreamAssumption ==
    /\ Bodies \subseteq Nat /\ Bodies # {}
    /\ Replies \subseteq Nat /\ Replies # {}
    /\ Fates \subseteq {"ok", "unknown", "rejected", "panics"} /\ "ok" \in Fates
    /\ BufferSize \in Nat /\ BufferSize > 0
    /\ SendBuffer \in Nat
    /\ MaxSent \in Nat

VARIABLES
    sent,       \* packets the client has sent, each with its offset
    gone,       \* the client has closed the connection
    taken,      \* bytes read() has returned so far
    chunk,      \* bytes of the buffer not parsed yet
    session,    \* read_packets is given a session, whose RC4 state it uses
    decrypted,  \* headers HeaderCrypto::decrypt has been applied to
    packets,    \* the vector read_packets fills (0: garbage)
    delivered,  \* what has been put into the channel
    pc,         \* where connect_loop is
    out,        \* lengths of the packets whose headers were encrypted
    writing,    \* the number of the packet about to be written, or 0
    stream,     \* written and unread: <<packet number, bytes written of it>>
    unread,     \* bytes in stream
    cut,        \* history: the first packet written short, or 0
    seen        \* what the client has made of the stream (0: garbage)

inVars == <<taken, chunk, session, decrypted, packets, delivered>>
outVars == <<out, writing, stream, unread, cut>>
clientVars == <<sent, gone, seen>>
vars == <<inVars, outVars, clientVars, pc>>

Total == IF sent = <<>> THEN 0
         ELSE sent[Len(sent)].at + HeaderSize + sent[Len(sent)].body

SentPacket == [at : Nat, body : Bodies, fate : Fates]

TypeOK ==
    /\ sent \in Seq(SentPacket)
    /\ gone \in BOOLEAN /\ session \in BOOLEAN
    /\ taken \in Nat /\ chunk \in 0..BufferSize
    /\ decrypted \in Nat
    /\ packets \in Seq(Nat) /\ delivered \in Seq(Nat)
    /\ pc \in {"read", "parse", "auth", "finalize", "deliver", "closed", "panicked"}
    /\ out \in Seq(Nat)
    /\ writing \in {0, Len(out)}
    /\ stream \in Seq(Nat \X Nat)
    /\ unread \in 0..SendBuffer
    /\ cut \in Nat
    /\ seen \in Seq(Nat)

Init ==
    /\ sent = <<>> /\ gone = FALSE /\ seen = <<>>
    /\ taken = 0 /\ chunk = 0
    /\ session = FALSE /\ decrypted = 0
    /\ packets = <<>> /\ delivered = <<>>
    /\ pc = "read"
    /\ out = <<>> /\ writing = 0 /\ stream = <<>> /\ unread = 0 /\ cut = 0

-----------------------------------------------------------------------------
(* The client (external): AuthSession first, with a plain header; the rest *)
(* encrypted, and only after AuthResponse.                                 *)

ClientSend(b, f) ==
    /\ ~gone /\ Len(sent) < MaxSent
    /\ sent # <<>> => seen # <<>> /\ Head(seen) = 1
    /\ sent' = Append(sent, [at |-> Total, body |-> b, fate |-> f])
    /\ UNCHANGED <<gone, seen, inVars, outVars, pc>>

ClientCloses ==
    /\ ~gone
    /\ gone' = TRUE
    /\ UNCHANGED <<sent, seen, inVars, outVars, pc>>

Whole(p) == p[2] = ReplyHeader + out[p[1]]

\* The client takes the next packet off the stream. One that was cut short is
\* completed with the bytes of the next one, and from there on nothing decodes.
ClientReads ==
    /\ ~gone /\ stream # <<>>
    /\ Whole(Head(stream)) \/ Len(stream) > 1
    /\ seen' = Append(seen, IF Whole(Head(stream)) /\ 0 \notin ToSet(seen)
                            THEN Head(stream)[1] ELSE 0)
    /\ stream' = Tail(stream)
    /\ unread' = unread - Head(stream)[2]
    /\ UNCHANGED <<sent, gone, inVars, out, writing, cut, pc>>

-----------------------------------------------------------------------------
(* read_packets.                                                           *)

ReadStep(n) ==
    /\ pc = "read" /\ n > 0 /\ n <= BufferSize /\ taken + n <= Total
    /\ taken' = taken + n
    /\ chunk' = n
    /\ packets' = <<>>
    /\ pc' = "parse"
    /\ UNCHANGED <<session, decrypted, delivered, outVars, clientVars>>

\* One read() returns any part of what has been sent, up to the buffer's size.
Read == \E n \in 1..BufferSize : ReadStep(n)

\* read() returns 0.
Closed ==
    /\ pc = "read" /\ gone /\ taken = Total
    /\ pc' = "closed"
    /\ UNCHANGED <<inVars, outVars, clientVars>>

\* The header at the cursor: the packet that begins there, if its header comes
\* out right, else garbage.
InStep(k) == IF session THEN k >= 2 /\ decrypted = k - 2 ELSE k = 1
AtCursor == {k \in 1..Len(sent) : sent[k].at = taken - chunk /\ InStep(k)}
Headers ==
    {[id |-> k, body |-> sent[k].body, fate |-> sent[k].fate] : k \in AtCursor}
    \cup (IF AtCursor = {} THEN [id : {0}, body : Bodies, fate : Fates] ELSE {})

\* s.decrypt_headers moves the session's key stream on.
Decrypt == decrypted' = IF session THEN decrypted + 1 ELSE decrypted

\* buffer[..6] is out of range.
HeaderCut ==
    /\ pc = "parse" /\ chunk > 0 /\ chunk < HeaderSize
    /\ pc' = "panicked"
    /\ UNCHANGED <<inVars, outVars, clientVars>>

\* buffer[6..size + 2] is out of range, the size is less than the opcode's, or
\* read_packet meets a todo!().
\* Mutant: the size is taken not to include the opcode.
BodyPanicsM(h) == h.fate # "unknown" /\ (chunk < HeaderSize + h.body + 4 \/ h.fate = "panics")
BodyPanics(h) == h.fate # "unknown" /\ (chunk < HeaderSize + h.body \/ h.fate = "panics")

Panic(h) ==
    /\ BodyPanics(h)
    /\ pc' = "panicked"
    /\ UNCHANGED <<taken, chunk, session, packets, delivered>>

\* The opcode is not one, is not supported, or the body does not deserialise: the
\* packets before it in the same read are lost with it.
Refuse(h) ==
    /\ h.fate = "unknown" \/ (h.fate = "rejected" /\ ~BodyPanics(h))
    /\ pc' = "closed"
    /\ packets' = <<>>
    /\ UNCHANGED <<taken, chunk, session, delivered>>

Take(h) ==
    /\ h.fate = "ok" /\ ~BodyPanics(h)
    /\ chunk' = chunk - (HeaderSize + h.body)
    /\ packets' = Append(packets, h.id)
    /\ UNCHANGED <<taken, session, delivered, pc>>

\* One turn of the loop.
Parse ==
    /\ pc = "parse" /\ chunk >= HeaderSize
    /\ \E h \in Headers : Panic(h) \/ Refuse(h) \/ Take(h)
    /\ Decrypt
    /\ UNCHANGED <<outVars, clientVars>>

\* The buffer is empty and read_packets returns.
ReadReturns ==
    /\ pc = "parse" /\ chunk = 0
    /\ pc' = IF session THEN "deliver" ELSE "auth"
    /\ UNCHANGED <<inVars, outVars, clientVars>>

-----------------------------------------------------------------------------
(* connect_loop around it.                                                 *)

\* The first packet is drained: an AuthSession that is let in makes a session,
\* anything else ends the connection.
Authenticate ==
    /\ pc = "auth"
    /\ \/ /\ pc' = "finalize"
          /\ session' = TRUE
          /\ packets' = Tail(packets)
       \/ pc' = "closed" /\ UNCHANGED <<session, packets>>
    /\ UNCHANGED <<taken, chunk, decrypted, delivered, outVars, clientVars>>

\* receive_packet, one packet after the other, then the next read.
\* Mutant: the last packet of a read is left behind.
DeliverM ==
    /\ pc = "deliver"
    /\ IF Len(packets) <= 1
       THEN pc' = "read" /\ UNCHANGED <<delivered, packets>>
       ELSE /\ delivered' = Append(delivered, Head(packets))
            /\ packets' = Tail(packets)
            /\ UNCHANGED pc
    /\ UNCHANGED <<taken, chunk, session, decrypted, outVars, clientVars>>

\* Mutant: the packets of a read are popped off the vector's end.
DeliverM2 ==
    /\ pc = "deliver"
    /\ IF packets = <<>>
       THEN pc' = "read" /\ UNCHANGED <<delivered, packets>>
       ELSE /\ delivered' = Append(delivered, Last(packets))
            /\ packets' = Front(packets)
            /\ UNCHANGED pc
    /\ UNCHANGED <<taken, chunk, session, decrypted, outVars, clientVars>>

Deliver ==
    /\ pc = "deliver"
    /\ IF packets = <<>>
       THEN pc' = "read" /\ UNCHANGED <<delivered, packets>>
       ELSE /\ delivered' = Append(delivered, Head(packets))
            /\ packets' = Tail(packets)
            /\ UNCHANGED pc
    /\ UNCHANGED <<taken, chunk, session, decrypted, outVars, clientVars>>

-----------------------------------------------------------------------------
(* write_packet: finalize's four packets, then at most one reply for every *)
(* packet delivered (WorldServer has the two writers apart in time).       *)

Finalizing == pc = "finalize" /\ Len(out) < FinalPackets
Replying == pc # "finalize" /\ Len(out) >= FinalPackets
                            /\ Len(out) - FinalPackets < Len(delivered)

\* Mutant: the packet's number is taken before it is counted.
EncryptM(b) ==
    /\ writing = 0
    /\ Finalizing \/ Replying
    /\ out' = Append(out, b)
    /\ writing' = Len(out)
    /\ UNCHANGED <<stream, unread, cut, inVars, clientVars, pc>>

\* The header is made and encrypted.
Encrypt(b) ==
    /\ writing = 0
    /\ Finalizing \/ Replying
    /\ out' = Append(out, b)
    /\ writing' = Len(out) + 1
    /\ UNCHANGED <<stream, unread, cut, inVars, clientVars, pc>>

Least(m, n) == IF m <= n THEN m ELSE n

\* There is no room for the packet about to be written.
NoRoom == SendBuffer - unread < ReplyHeader + out[writing]

\* write() waits for room and takes what fits; the count it returns is returned
\* by write_packet and looked at by nobody.
\* Mutant: the header is left out.
WriteM ==
    /\ writing # 0 /\ ~gone /\ unread < SendBuffer
    /\ LET n == Least(out[writing], SendBuffer - unread) IN
          /\ stream' = Append(stream, <<writing, n>>)
          /\ unread' = unread + n
    /\ cut' = IF cut = 0 /\ NoRoom THEN writing ELSE cut
    /\ writing' = 0
    /\ UNCHANGED <<out, inVars, clientVars, pc>>

Write ==
    /\ writing # 0 /\ ~gone /\ unread < SendBuffer
    /\ LET n == Least(ReplyHeader + out[writing], SendBuffer - unread) IN
          /\ stream' = Append(stream, <<writing, n>>)
          /\ unread' = unread + n
    /\ cut' = IF cut = 0 /\ NoRoom THEN writing ELSE cut
    /\ writing' = 0
    /\ UNCHANGED <<out, inVars, clientVars, pc>>

\* The write fails: finalize gives up, a handler's error is logged.
WriteFails ==
    /\ writing # 0 /\ gone
    /\ writing' = 0
    /\ pc' = IF pc = "finalize" THEN "closed" ELSE pc
    /\ UNCHANGED <<out, stream, unread, cut, inVars, clientVars>>

\* create_session returns the session.
Finalized ==
    /\ pc = "finalize" /\ Len(out) = FinalPackets /\ writing = 0
    /\ pc' = "deliver"
    /\ UNCHANGED <<inVars, outVars, clientVars>>

-----------------------------------------------------------------------------
Reader == Read \/ Closed \/ HeaderCut \/ Parse \/ ReadReturns \/ Authenticate \/ Deliver
Writer == (\E b \in Replies : Encrypt(b)) \/ Write \/ WriteFails \/ Finalized

Next ==
    \/ \E b \in Bodies, f \in Fates : ClientSend(b, f)
    \/ ClientCloses
    \/ ClientReads
    \/ Reader
    \/ Writer

Spec == Init /\ [][Next]_vars

\* The runtime polls both tasks while they can run. A read with nothing to read
\* and a write with no room cannot.
FairSpec == Spec /\ WF_vars(Reader) /\ WF_vars(Writer)

-----------------------------------------------------------------------------
(* Properties.                                                             *)

\* Packets after the first, as they would arrive on a perfect channel.
Expected == [k \in 1..(Len(sent) - 1) |-> k + 1]

\* What connect_loop puts into the channel is what the client sent, in order,
\* nothing twice and nothing made up, wherever read() cuts the stream: a cut is
\* fatal, so the cursor and the key stream never go on from a wrong place.
DeliveredAsSent == sent # <<>> => IsPrefix(delivered, Expected)

\* The slices of read_packets panic for a reason: the read ended inside a packet,
\* or the packet has a size or an opcode that is not provided for.
PanicExplained ==
    pc = "panicked" => \E k \in 1..Len(sent) :
        /\ sent[k].at = taken - chunk
        /\ chunk < HeaderSize + sent[k].body \/ sent[k].fate = "panics"

\* Every packet the client sends is delivered, unless the connection ends: none
\* stays behind in the buffer or the vector. The client takes off the stream what
\* it is sent: create_session waits in finalize for a socket with no room.
SentIsDelivered ==
    []<>(unread < SendBuffer \/ gone) =>
        \A k \in 2..MaxSent :
            Len(sent) >= k ~> (Len(delivered) >= k - 1 \/ pc \in {"closed", "panicked"})

\* What the client makes of the k-th packet.
Decoded(k) == IF cut = 0 \/ k < cut THEN k ELSE 0

\* write_packet drops the count write() returns, so one short write puts the client
\* out of step for good: it decodes every packet before the first one cut short as
\* send_packet was given it, in order, and none from there on. Nothing else loses,
\* repeats or swaps a packet.
SeenUntilCut ==
    /\ Len(seen) <= Len(out)
    /\ \A k \in 1..Len(seen) : seen[k] = Decoded(k)

\* What the client decodes is what send_packet was given, in order, whatever room
\* the socket has (false: WorldShortWrite.cfg).
SeenAsWritten == IsPrefix(seen, [k \in 1..Len(out) |-> k])

\* The task that serves a client whose packets are all good does not panic.
GoodClientServed == pc # "panicked"
-----------------------------------------------------------------------------
(* Why the invariants hold, whatever the constants (WorldStreamProofs).    *)

\* The client's packets lie end to end.
EndToEnd ==
    \A k \in 1..Len(sent) :
        sent[k].at = IF k = 1 THEN 0 ELSE sent[k - 1].at + HeaderSize + sent[k - 1].body

\* The connection is not at its end.
Alive == pc \notin {"closed", "panicked"}

\* How many of the client's packets read_packets has cut out of the stream.
Parsed == IF session THEN decrypted + 1 ELSE Len(packets)

\* Between two packets the cursor stands where the next one begins.
CursorAtPacket ==
    /\ taken <= Total
    /\ Alive => /\ Parsed <= Len(sent)
                /\ taken - chunk = IF Parsed = Len(sent) THEN Total ELSE sent[Parsed + 1].at
    /\ pc \in {"read", "auth", "finalize", "deliver"} => chunk = 0

\* Before there is a session there is one packet to be read, and no answer.
LoginFirst ==
    /\ ~session => decrypted = 0 /\ delivered = <<>> /\ out = <<>> /\ Len(sent) <= 1
    /\ out = <<>> => stream = <<>> /\ seen = <<>>
    /\ pc \in {"finalize", "deliver"} => session
    /\ pc = "auth" => ~session /\ Len(packets) = 1
    /\ pc = "parse" => taken > 0

\* The channel and the vector together have every packet decrypted so far.
NoneSkipped ==
    /\ \A k \in 1..Len(delivered) : delivered[k] = k + 1
    /\ delivered # <<>> => Len(delivered) < Len(sent)
    /\ Alive /\ session => /\ decrypted = Len(delivered) + Len(packets)
                           /\ \A k \in 1..Len(packets) : packets[k] = Len(delivered) + k + 1
    /\ pc \in {"read", "finalize"} => packets = <<>>

ReadInv == TypeOK /\ EndToEnd /\ CursorAtPacket /\ LoginFirst /\ NoneSkipped /\ PanicExplained

\* Packets are whole up to the first one cut short, and that one is not.
WholeUntilCut(k) ==
    /\ cut = 0 \/ Len(seen) + k < cut => Whole(stream[k])
    /\ cut = Len(seen) + k => ~Whole(stream[k])

\* While the client listens, what it has decoded, the socket's buffer and the writer
\* together have every packet, in order.
NoneLost ==
    /\ \A k \in 1..Len(seen) : seen[k] = Decoded(k)
    /\ Len(seen) <= Len(out)
    /\ ~gone => /\ Len(out) = Len(seen) + Len(stream) + (IF writing = 0 THEN 0 ELSE 1)
                /\ cut <= Len(seen) + Len(stream)
                /\ \A k \in 1..Len(stream) : stream[k][1] = Len(seen) + k /\ WholeUntilCut(k)
=============================================================================
