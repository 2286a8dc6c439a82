-------------------------- MODULE WorldStreamProofs --------------------------
(***************************************************************************)
(* Proofs about WorldStream, for any lengths of packets and any sizes of   *)
(* the two buffers: the cursor of read_packets and the key stream never go *)
(* on from a wrong place, and on the way out nothing is lost or reordered  *)
(* before the first write that is cut short.                               *)
(***************************************************************************)
EXTENDS WorldStream, TLAPS

-----------------------------------------------------------------------------
(* Types, and the bytes in the socket.                                     *)

\* `unread` is the length of what `stream` holds: f[k] bytes lie before the end
\* of its k-th packet.
UnreadIsLength ==
    \E f \in [0..Len(stream) -> Nat] :
        /\ f[0] = 0 /\ f[Len(stream)] = unread
        /\ \A k \in 1..Len(stream) : f[k] = f[k - 1] + stream[k][2]
        /\ \A k, l \in 0..Len(stream) : k <= l => f[k] <= f[l]

\* The first packet in the socket is not longer than what the socket holds.
LEMMA HeadFits ==
    ASSUME TypeOK, UnreadIsLength, stream # <<>>
    PROVE  Head(stream) \in Nat \X Nat /\ Head(stream)[2] <= unread
<1>1. Len(stream) \in Nat /\ Len(stream) >= 1 /\ Head(stream) = stream[1] /\ stream[1] \in Nat \X Nat
  BY SMTT(30) DEF TypeOK
<1>2. PICK f \in [0..Len(stream) -> Nat] :
        /\ f[0] = 0 /\ f[Len(stream)] = unread
        /\ \A k \in 1..Len(stream) : f[k] = f[k - 1] + stream[k][2]
        /\ \A k, l \in 0..Len(stream) : k <= l => f[k] <= f[l]
  BY DEF UnreadIsLength
<1>3. f[1] = f[0] + stream[1][2] /\ f[1] <= f[Len(stream)]
  BY <1>1, <1>2
<1>4. QED BY <1>1, <1>2, <1>3

\* The client takes the first packet out of the socket.
LEMMA ReadsUnread ==
    ASSUME TypeOK, UnreadIsLength, ClientReads
    PROVE  UnreadIsLength'
<1>1. /\ Len(stream) \in Nat /\ Len(stream) >= 1
      /\ Len(stream') = Len(stream) - 1
      /\ \A k \in 1..Len(stream') : stream'[k] = stream[k + 1]
      /\ unread' = unread - stream[1][2]
      /\ \A k \in 1..Len(stream) : stream[k][2] \in Nat
  <2>1. stream # <<>> /\ stream' = Tail(stream) /\ unread' = unread - Head(stream)[2]
    BY DEF ClientReads
  <2>2. stream \in Seq(Nat \X Nat)
    BY DEF TypeOK
  <2>3. \A k \in 1..Len(stream) : stream[k] \in Nat \X Nat
    BY <2>2
  <2>4. QED BY <2>1, <2>2, <2>3
<1>2. PICK f \in [0..Len(stream) -> Nat] :
        /\ f[0] = 0 /\ f[Len(stream)] = unread
        /\ \A k \in 1..Len(stream) : f[k] = f[k - 1] + stream[k][2]
        /\ \A k, l \in 0..Len(stream) : k <= l => f[k] <= f[l]
  BY DEF UnreadIsLength
<1> DEFINE g == [k \in 0..Len(stream') |-> f[k + 1] - f[1]]
<1>3. f[1] = stream[1][2]
  BY <1>1, <1>2, SMTT(30)
<1>4. g \in [0..Len(stream') -> Nat] /\ \A k \in 0..Len(stream') : g[k] = f[k + 1] - f[1]
  BY <1>1, <1>2
<1> HIDE DEF g
<1>5. g[0] = 0 /\ g[Len(stream')] = unread'
  BY <1>1, <1>2, <1>3, <1>4
<1>6. ASSUME NEW k \in 1..Len(stream') PROVE g[k] = g[k - 1] + stream'[k][2]
  <2>1. g[k] = f[k + 1] - f[1] /\ g[k - 1] = f[k] - f[1] /\ f[k + 1] = f[k] + stream[k + 1][2]
    BY <1>1, <1>2, <1>4
  <2>0. {1, k, k + 1} \subseteq 0..Len(stream) /\ k + 1 \in 1..Len(stream)
    BY <1>1
  <2>2. f[k] \in Nat /\ f[1] \in Nat /\ f[k + 1] \in Nat /\ stream[k + 1][2] \in Nat
    BY <1>1, <1>2, <2>0
  <2>3. stream'[k][2] = stream[k + 1][2]
    BY <1>1
  <2>4. QED BY <2>1, <2>2, <2>3, SMTT(30)
<1>7. ASSUME NEW k \in 0..Len(stream'), NEW l \in 0..Len(stream'), k <= l
      PROVE  g[k] <= g[l]
  <2>1. f[k + 1] <= f[l + 1] /\ f[k + 1] \in Nat /\ f[l + 1] \in Nat /\ f[1] \in Nat
    BY <1>1, <1>2, <1>7
  <2>2. QED BY <1>4, <2>1
<1>8. QED BY <1>4, <1>5, <1>6, <1>7 DEF UnreadIsLength

\* A write puts a packet behind the others.
LEMMA WriteUnread ==
    ASSUME TypeOK, UnreadIsLength, NEW m \in Nat, NEW n \in Nat,
           stream' = Append(stream, <<m, n>>), unread' = unread + n
    PROVE  UnreadIsLength'
<1>1. /\ Len(stream) \in Nat
      /\ Len(stream') = Len(stream) + 1
      /\ \A k \in 1..Len(stream) : stream'[k] = stream[k]
      /\ stream'[Len(stream) + 1][2] = n
  BY DEF TypeOK
<1>2. PICK f \in [0..Len(stream) -> Nat] :
        /\ f[0] = 0 /\ f[Len(stream)] = unread
        /\ \A k \in 1..Len(stream) : f[k] = f[k - 1] + stream[k][2]
        /\ \A k, l \in 0..Len(stream) : k <= l => f[k] <= f[l]
  BY DEF UnreadIsLength
<1> DEFINE g == [k \in 0..Len(stream') |-> IF k = Len(stream') THEN unread + n ELSE f[k]]
<1>3. unread \in Nat
  BY <1>1, <1>2
<1>4. /\ g \in [0..Len(stream') -> Nat]
      /\ \A k \in 0..Len(stream) : g[k] = f[k]
      /\ g[Len(stream')] = unread'
  BY <1>1, <1>2, <1>3
<1> HIDE DEF g
<1>5. \A k \in 1..Len(stream') : g[k] = g[k - 1] + stream'[k][2]
  BY <1>1, <1>2, <1>4, SMTT(30)
<1>6. \A k, l \in 0..Len(stream') : k <= l => g[k] <= g[l]
  <2>1. \A k \in 0..Len(stream) : f[k] <= unread /\ f[k] \in Nat
    BY <1>1, <1>2
  <2> SUFFICES ASSUME NEW k \in 0..Len(stream'), NEW l \in 0..Len(stream'), k <= l
               PROVE  g[k] <= g[l]
    OBVIOUS
  <2>2. CASE l \in 0..Len(stream)
    <3>1. k \in 0..Len(stream)
      BY <1>1, <2>2
    <3>2. QED BY <1>2, <1>4, <2>2, <3>1
  <2>3. CASE l = Len(stream') /\ k \in 0..Len(stream)
    BY <1>3, <1>4, <2>1, <2>3
  <2>4. CASE l = Len(stream') /\ k = Len(stream')
    BY <1>4, <2>4
  <2>5. QED BY <1>1, <2>2, <2>3, <2>4
<1>7. g[0] = 0
  BY <1>1, <1>2, <1>4
<1>8. QED BY <1>4, <1>5, <1>6, <1>7 DEF UnreadIsLength

\* The length of a write.
LEMMA LeastBounds ==
    ASSUME NEW m \in Nat, NEW n \in Nat
    PROVE  Least(m, n) \in Nat /\ Least(m, n) <= m /\ Least(m, n) <= n
BY DEF Least

\* `Total` is a number of bytes.
LEMMA TotalNat == TypeOK => Total \in Nat
<1> SUFFICES ASSUME TypeOK PROVE Total \in Nat
  OBVIOUS
<1>1. CASE sent = <<>>
  BY <1>1 DEF Total
<1>2. CASE sent # <<>>
  <2>1. sent[Len(sent)] \in SentPacket
    BY <1>2 DEF TypeOK
  <2>2. sent[Len(sent)].at \in Nat /\ sent[Len(sent)].body \in Nat
    BY <2>1, StreamAssumption DEF SentPacket
  <2>3. QED BY <1>2, <2>2 DEF Total, HeaderSize
<1>3. QED BY <1>1, <1>2

-----------------------------------------------------------------------------
(* The client.                                                             *)

StreamInv == ReadInv /\ UnreadIsLength

\* The initial state satisfies the invariant.
LEMMA StreamInit == Init => StreamInv
<1> SUFFICES ASSUME Init PROVE StreamInv
  OBVIOUS
<1>1. TypeOK
  <2>1. gone \in BOOLEAN /\ session \in BOOLEAN
    BY DEF Init
  <2>2. QED BY <2>1, StreamAssumption DEF Init, TypeOK
<1>2. UnreadIsLength
  <2>1. Len(stream) = 0 /\ unread = 0
    BY DEF Init
  <2> DEFINE f == [k \in 0..0 |-> 0]
  <2>2. f \in [0..Len(stream) -> Nat] /\ f[0] = 0
    BY <2>1
  <2> HIDE DEF f
  <2>3. /\ f[Len(stream)] = unread
        /\ \A k \in 1..Len(stream) : f[k] = f[k - 1] + stream[k][2]
        /\ \A k, l \in 0..Len(stream) : k <= l => f[k] <= f[l]
    BY <2>1, <2>2
  <2>4. QED BY <2>2, <2>3 DEF UnreadIsLength
<1>3. EndToEnd /\ CursorAtPacket
  BY DEF Init, EndToEnd, CursorAtPacket, Parsed, Total
<1>4. LoginFirst /\ NoneSkipped /\ PanicExplained
  BY DEF Init, LoginFirst, NoneSkipped, PanicExplained
<1>5. QED BY <1>1, <1>2, <1>3, <1>4 DEF StreamInv, ReadInv

\* A step that changes nothing keeps it.
LEMMA StreamStutter == StreamInv /\ UNCHANGED vars => StreamInv'
<1> SUFFICES ASSUME StreamInv, UNCHANGED vars PROVE StreamInv'
  OBVIOUS
<1> USE DEF StreamInv, ReadInv, vars, inVars, outVars, clientVars
<1>1. TypeOK' /\ UnreadIsLength'
  BY DEF TypeOK, UnreadIsLength
<1>2. EndToEnd' /\ CursorAtPacket'
  BY DEF EndToEnd, CursorAtPacket, Parsed, Alive, Total
<1>3. LoginFirst' /\ NoneSkipped' /\ PanicExplained'
  BY DEF LoginFirst, NoneSkipped, Alive, PanicExplained
<1>4. QED BY <1>1, <1>2, <1>3

\* The packets sent so far, and the next one behind them.
LEMMA SentGrows ==
    ASSUME TypeOK, EndToEnd, NEW b \in Bodies, NEW f \in Fates, ClientSend(b, f)
    PROVE  /\ sent' \in Seq(SentPacket)
           /\ Len(sent) \in Nat /\ Len(sent') = Len(sent) + 1
           /\ \A k \in 1..Len(sent) : sent'[k] = sent[k]
           /\ sent'[Len(sent) + 1].at = Total
           /\ Total' = Total + HeaderSize + b
           /\ EndToEnd'
<1> DEFINE p == [at |-> Total, body |-> b, fate |-> f]
<1>1. p \in SentPacket /\ p.at = Total /\ p.body = b
  BY TotalNat DEF SentPacket
<1> HIDE DEF p
<1>2. sent' = Append(sent, p) /\ sent \in Seq(SentPacket)
  BY DEF ClientSend, TypeOK, p
<1>3. /\ sent' \in Seq(SentPacket) /\ Len(sent) \in Nat /\ Len(sent') = Len(sent) + 1
      /\ \A k \in 1..Len(sent) : sent'[k] = sent[k]
      /\ sent'[Len(sent) + 1] = p
  BY <1>1, <1>2
<1>4. Total' = Total + HeaderSize + b
  BY <1>1, <1>3 DEF Total
<1>5. EndToEnd'
  <2> SUFFICES ASSUME NEW k \in 1..Len(sent')
               PROVE  sent'[k].at = IF k = 1 THEN 0
                                    ELSE sent'[k - 1].at + HeaderSize + sent'[k - 1].body
    BY DEF EndToEnd
  <2>1. CASE k \in 1..Len(sent)
    BY <1>3, <2>1 DEF EndToEnd
  <2>2. CASE k = Len(sent) + 1
    BY <1>1, <1>3, <2>2 DEF Total
  <2>3. QED BY <1>3, <2>1, <2>2
<1>6. QED BY <1>1, <1>3, <1>4, <1>5

\* The client sends a packet.
LEMMA ClientSendStream ==
    ASSUME StreamInv, NEW b \in Bodies, NEW f \in Fates, ClientSend(b, f)
    PROVE  StreamInv'
<1> USE DEF StreamInv, ReadInv
<1>0. /\ UNCHANGED <<gone, seen, inVars, outVars, pc>>
      /\ sent # <<>> => seen # <<>>
  BY DEF ClientSend
<1> USE DEF inVars, outVars
<1>1. /\ sent' \in Seq(SentPacket)
      /\ Len(sent) \in Nat /\ Len(sent') = Len(sent) + 1
      /\ \A k \in 1..Len(sent) : sent'[k] = sent[k]
      /\ sent'[Len(sent) + 1].at = Total
      /\ Total' = Total + HeaderSize + b
      /\ EndToEnd'
  BY SentGrows
<1>2. b \in Nat /\ Total \in Nat
  BY TotalNat, StreamAssumption
<1>3. TypeOK' /\ UnreadIsLength'
  BY <1>0, <1>1 DEF TypeOK, UnreadIsLength
<1>4. CursorAtPacket'
  <2>1. taken' <= Total'
    BY <1>0, <1>1, <1>2 DEF CursorAtPacket, TypeOK, HeaderSize
  <2>2. Parsed' = Parsed /\ Parsed \in Nat /\ Alive' = Alive
    BY <1>0 DEF Parsed, Alive, TypeOK
  <2>3. ASSUME Alive
        PROVE  /\ Parsed <= Len(sent')
               /\ taken - chunk = IF Parsed = Len(sent') THEN Total' ELSE sent'[Parsed + 1].at
    BY <1>1, <2>2, <2>3 DEF CursorAtPacket
  <2>4. QED BY <1>0, <2>1, <2>2, <2>3 DEF CursorAtPacket
<1>5. LoginFirst'
  <2>1. ~session => sent = <<>>
    BY <1>0 DEF LoginFirst
  <2>2. sent = <<>> => Len(sent') <= 1
    BY <1>1
  <2>3. QED BY <1>0, <2>1, <2>2 DEF LoginFirst
<1>6. NoneSkipped'
  BY <1>0, <1>1 DEF NoneSkipped, Alive, TypeOK
<1>7. PanicExplained'
  BY <1>0, <1>1 DEF PanicExplained
<1>8. QED BY <1>1, <1>3, <1>4, <1>5, <1>6, <1>7

\* The client closes its end.
LEMMA ClientClosesStream == StreamInv /\ ClientCloses => StreamInv'
<1> SUFFICES ASSUME StreamInv, ClientCloses PROVE StreamInv'
  OBVIOUS
<1> USE DEF StreamInv, ReadInv, ClientCloses, inVars, outVars
<1>1. gone' \in BOOLEAN
  OBVIOUS
<1>2. TypeOK' /\ UnreadIsLength'
  BY <1>1 DEF TypeOK, UnreadIsLength
<1>3. EndToEnd' /\ CursorAtPacket'
  BY DEF EndToEnd, CursorAtPacket, Parsed, Alive, Total
<1>4. LoginFirst' /\ NoneSkipped' /\ PanicExplained'
  BY DEF LoginFirst, NoneSkipped, Alive, PanicExplained
<1>5. QED BY <1>2, <1>3, <1>4

\* The client takes a packet off the stream: there was one, so there is a session.
LEMMA ClientReadsStream == StreamInv /\ ClientReads => StreamInv'
<1> SUFFICES ASSUME StreamInv, ClientReads PROVE StreamInv'
  OBVIOUS
<1> USE DEF StreamInv, ReadInv
<1>0. /\ UNCHANGED <<sent, gone, inVars, out, writing, cut, pc>>
      /\ stream # <<>> /\ stream' = Tail(stream)
      /\ unread' = unread - Head(stream)[2]
      /\ seen' = Append(seen, Head(stream)[1]) \/ seen' = Append(seen, 0)
  BY DEF ClientReads
<1> USE DEF inVars
<1>1. UnreadIsLength'
  BY ReadsUnread
<1>2. TypeOK'
  <2>1. unread' \in 0..SendBuffer /\ seen' \in Seq(Nat)
    <3>1. Head(stream)[1] \in Nat /\ Head(stream)[2] \in Nat /\ Head(stream)[2] <= unread
      BY <1>0, HeadFits
    <3>2. unread \in 0..SendBuffer /\ seen \in Seq(Nat) /\ SendBuffer \in Nat
      BY StreamAssumption DEF TypeOK
    <3>3. unread' \in 0..SendBuffer
      BY <1>0, <3>1, <3>2
    <3>4. seen' \in Seq(Nat)
      <4>1. PICK x \in Nat : seen' = Append(seen, x)
        BY <1>0, <3>1
      <4>2. QED BY <3>2, <4>1
    <3>5. QED BY <3>3, <3>4
  <2>2. stream' \in Seq(Nat \X Nat)
    BY <1>0 DEF TypeOK
  <2>3. QED BY <1>0, <2>1, <2>2 DEF TypeOK
<1>3. EndToEnd' /\ CursorAtPacket'
  BY <1>0 DEF EndToEnd, CursorAtPacket, Parsed, Alive, Total
<1>4. LoginFirst' /\ NoneSkipped' /\ PanicExplained'
  BY <1>0 DEF LoginFirst, NoneSkipped, Alive, PanicExplained
<1>5. QED BY <1>1, <1>2, <1>3, <1>4

-----------------------------------------------------------------------------
(* read_packets.                                                           *)

\* What the reader leaves alone.
LEMMA ReaderFrame ==
    ASSUME StreamInv, UNCHANGED <<outVars, clientVars>>
    PROVE  /\ UnreadIsLength' /\ EndToEnd'
           /\ Total' = Total /\ Total \in Nat /\ Len(sent) \in Nat
<1> USE DEF StreamInv, ReadInv, outVars, clientVars
<1>1. UnreadIsLength' /\ EndToEnd'
  BY DEF UnreadIsLength, EndToEnd
<1>2. Total' = Total
  BY DEF Total
<1>3. Total \in Nat /\ Len(sent) \in Nat
  BY TotalNat DEF TypeOK
<1>4. QED BY <1>1, <1>2, <1>3

\* While there is something in the buffer, the header at the cursor is that of
\* the next packet, and the key stream is at its place: it is never garbage.
LEMMA NextHeader ==
    ASSUME StreamInv, pc = "parse", chunk > 0
    PROVE  /\ Parsed + 1 \in 1..Len(sent) /\ Parsed \in Nat
           /\ sent[Parsed + 1].at = taken - chunk
           /\ sent[Parsed + 1] \in SentPacket
           /\ ~session => Parsed = 0 /\ packets = <<>>
           /\ \A h \in Headers : /\ h.id = Parsed + 1
                                /\ h.body = sent[Parsed + 1].body
                                /\ h.fate = sent[Parsed + 1].fate
                                /\ h.body \in Nat
<1> USE DEF StreamInv, ReadInv
<1>0. /\ Len(sent) \in Nat /\ taken \in Nat /\ chunk \in Nat /\ decrypted \in Nat
      /\ packets \in Seq(Nat) /\ sent \in Seq(SentPacket) /\ session \in BOOLEAN
      /\ Parsed \in Nat
  BY StreamAssumption DEF TypeOK, Parsed
<1>1. Parsed < Len(sent) /\ sent[Parsed + 1].at = taken - chunk
  <2>1. /\ taken <= Total /\ Total \in Nat
        /\ Parsed <= Len(sent)
        /\ taken - chunk = IF Parsed = Len(sent) THEN Total ELSE sent[Parsed + 1].at
    BY TotalNat DEF CursorAtPacket, Alive
  <2>2. QED BY <1>0, <2>1
<1>2. Parsed + 1 \in 1..Len(sent) /\ sent[Parsed + 1] \in SentPacket
  BY <1>0, <1>1
<1>3. ~session => Parsed = 0 /\ packets = <<>>
  BY <1>0, <1>1 DEF LoginFirst, Parsed
<1>4. InStep(Parsed + 1) /\ \A k \in 1..Len(sent) : InStep(k) => k = Parsed + 1
  <2>1. CASE session
    BY <1>0, <2>1 DEF InStep, Parsed
  <2>2. CASE ~session
    BY <1>3, <2>2 DEF InStep
  <2>3. QED BY <2>1, <2>2
<1>5. AtCursor = {Parsed + 1}
  BY <1>1, <1>2, <1>4 DEF AtCursor
<1>6. Headers = {[id |-> Parsed + 1, body |-> sent[Parsed + 1].body,
                  fate |-> sent[Parsed + 1].fate]}
  BY <1>5 DEF Headers
<1>7. sent[Parsed + 1].body \in Nat
  BY <1>2, StreamAssumption DEF SentPacket
<1>8. QED BY <1>0, <1>1, <1>2, <1>3, <1>6, <1>7

\* A read puts its bytes behind the cursor.
LEMMA ReadStream == StreamInv /\ Read => StreamInv'
<1> SUFFICES ASSUME StreamInv, NEW n \in 1..BufferSize, ReadStep(n) PROVE StreamInv'
  BY DEF Read
<1> USE DEF StreamInv, ReadInv, ReadStep
<1>1. /\ UnreadIsLength' /\ EndToEnd' /\ Total' = Total /\ Total \in Nat /\ Len(sent) \in Nat
  BY ReaderFrame
<1>2. TypeOK'
  BY StreamAssumption DEF TypeOK, outVars, clientVars
<1>3. packets = <<>> /\ chunk = 0 /\ Alive /\ Alive'
  BY DEF NoneSkipped, CursorAtPacket, Alive
<1>4. Parsed' = Parsed
  BY <1>3 DEF Parsed
<1>5. CursorAtPacket'
  <2>1. taken \in Nat /\ taken' - chunk' = taken - chunk
    BY <1>3 DEF TypeOK
  <2>2. QED BY <1>1, <1>3, <1>4, <2>1 DEF CursorAtPacket, clientVars
<1>6. LoginFirst' /\ NoneSkipped'
  <2>1. taken' > 0
    BY DEF TypeOK
  <2>2. QED BY <1>3, <2>1 DEF LoginFirst, NoneSkipped, outVars, clientVars
<1>7. PanicExplained'
  BY DEF PanicExplained
<1>8. QED BY <1>1, <1>2, <1>5, <1>6, <1>7

\* read() returns 0 and the connection ends.
LEMMA ClosedStream == StreamInv /\ Closed => StreamInv'
<1> SUFFICES ASSUME StreamInv, Closed PROVE StreamInv'
  OBVIOUS
<1> USE DEF StreamInv, ReadInv, Closed
<1>1. UnreadIsLength' /\ EndToEnd' /\ Total' = Total
  BY ReaderFrame
<1> USE DEF inVars, outVars, clientVars
<1>2. TypeOK'
  BY DEF TypeOK
<1>3. CursorAtPacket' /\ LoginFirst' /\ NoneSkipped' /\ PanicExplained'
  BY <1>1 DEF CursorAtPacket, LoginFirst, NoneSkipped, PanicExplained, Alive
<1>4. QED BY <1>1, <1>2, <1>3

\* The slice of the header panics: the read ended inside the next packet.
LEMMA HeaderCutStream == StreamInv /\ HeaderCut => StreamInv'
<1> SUFFICES ASSUME StreamInv, HeaderCut PROVE StreamInv'
  OBVIOUS
<1> USE DEF StreamInv, ReadInv, HeaderCut
<1>1. UnreadIsLength' /\ EndToEnd' /\ Total' = Total
  BY ReaderFrame
<1>2. /\ Parsed + 1 \in 1..Len(sent) /\ sent[Parsed + 1].at = taken - chunk
      /\ sent[Parsed + 1] \in SentPacket
  BY NextHeader
<1> USE DEF inVars, outVars, clientVars
<1>3. TypeOK'
  BY DEF TypeOK
<1>4. CursorAtPacket' /\ LoginFirst' /\ NoneSkipped'
  BY <1>1 DEF CursorAtPacket, LoginFirst, NoneSkipped, Alive
<1>5. PanicExplained'
  <2>1. sent[Parsed + 1].body \in Nat
    BY <1>2, StreamAssumption DEF SentPacket
  <2>2. chunk < HeaderSize + sent[Parsed + 1].body
    BY <2>1, StreamAssumption, SMTT(30) DEF TypeOK, HeaderSize
  <2>3. QED BY <1>2, <2>2 DEF PanicExplained
<1>6. QED BY <1>1, <1>3, <1>4, <1>5

\* The slice of the body, or a todo!(), panics: for a reason.
LEMMA PanicStream ==
    ASSUME StreamInv, pc = "parse", chunk >= HeaderSize, NEW h \in Headers, Panic(h), Decrypt,
           UNCHANGED <<outVars, clientVars>>
    PROVE  StreamInv'
<1> USE DEF StreamInv, ReadInv
<1>0. chunk > 0
  BY StreamAssumption DEF HeaderSize, TypeOK
<1>1. UnreadIsLength' /\ EndToEnd' /\ Total' = Total
  BY ReaderFrame
<1>2. /\ Parsed + 1 \in 1..Len(sent) /\ sent[Parsed + 1].at = taken - chunk
      /\ h.body = sent[Parsed + 1].body /\ h.fate = sent[Parsed + 1].fate
  BY <1>0, NextHeader
<1> USE DEF Panic, outVars, clientVars
<1>3. decrypted' \in Nat /\ (~session => decrypted' = decrypted)
  BY DEF Decrypt, TypeOK
<1>4. TypeOK'
  BY <1>3 DEF TypeOK
<1>5. CursorAtPacket' /\ LoginFirst' /\ NoneSkipped'
  BY <1>1, <1>3 DEF CursorAtPacket, LoginFirst, NoneSkipped, Alive
<1>6. PanicExplained'
  BY <1>2 DEF PanicExplained, BodyPanics
<1>7. QED BY <1>1, <1>4, <1>5, <1>6

\* An opcode or a body that is refused ends the connection.
LEMMA RefuseStream ==
    ASSUME StreamInv, pc = "parse", NEW h \in Headers, Refuse(h), Decrypt,
           UNCHANGED <<outVars, clientVars>>
    PROVE  StreamInv'
<1> USE DEF StreamInv, ReadInv
<1>1. UnreadIsLength' /\ EndToEnd' /\ Total' = Total
  BY ReaderFrame
<1> USE DEF Refuse, outVars, clientVars
<1>2. decrypted' \in Nat /\ (~session => decrypted' = decrypted)
  BY DEF Decrypt, TypeOK
<1>3. TypeOK'
  BY <1>2 DEF TypeOK
<1>4. CursorAtPacket' /\ LoginFirst' /\ NoneSkipped' /\ PanicExplained'
  BY <1>1, <1>2 DEF CursorAtPacket, LoginFirst, NoneSkipped, PanicExplained, Alive
<1>5. QED BY <1>1, <1>3, <1>4

\* A packet that is all there is taken: the cursor goes to the next one's first
\* byte and the key stream to its place.
LEMMA TakeStream ==
    ASSUME StreamInv, pc = "parse", chunk >= HeaderSize, NEW h \in Headers, Take(h), Decrypt,
           UNCHANGED <<outVars, clientVars>>
    PROVE  StreamInv'
<1> USE DEF StreamInv, ReadInv
<1>0. chunk > 0
  BY StreamAssumption DEF HeaderSize, TypeOK
<1>1. /\ UnreadIsLength' /\ EndToEnd' /\ Total' = Total /\ Total \in Nat /\ Len(sent) \in Nat
  BY ReaderFrame
<1>2. /\ Parsed + 1 \in 1..Len(sent) /\ Parsed \in Nat /\ sent[Parsed + 1].at = taken - chunk
      /\ ~session => Parsed = 0 /\ packets = <<>>
      /\ h.id = Parsed + 1 /\ h.body = sent[Parsed + 1].body /\ h.body \in Nat
  BY <1>0, NextHeader
<1>3. /\ chunk >= HeaderSize + h.body /\ chunk' = chunk - (HeaderSize + h.body)
      /\ packets' = Append(packets, Parsed + 1)
      /\ UNCHANGED <<sent, gone, seen, out, writing, stream, unread, cut, taken,
                    session, delivered, pc>>
      /\ decrypted' = IF session THEN decrypted + 1 ELSE decrypted
  <2>1. h.fate = "ok" /\ ~BodyPanics(h) /\ chunk \in Nat
    BY StreamAssumption DEF Take, TypeOK
  <2>2. ~(chunk < HeaderSize + h.body)
    BY <2>1 DEF BodyPanics
  <2>3. chunk >= HeaderSize + h.body
    BY <1>2, <2>1, <2>2 DEF HeaderSize
  <2>4. QED BY <1>2, <2>3 DEF Take, Decrypt, outVars, clientVars
<1>4. /\ packets \in Seq(Nat) /\ Len(packets) \in Nat /\ decrypted \in Nat /\ taken \in Nat
      /\ chunk \in Nat /\ Len(delivered) \in Nat /\ session \in BOOLEAN
  BY StreamAssumption DEF TypeOK
<1>5. /\ Len(packets') = Len(packets) + 1
      /\ \A k \in 1..Len(packets) : packets'[k] = packets[k]
      /\ packets'[Len(packets) + 1] = Parsed + 1
      /\ packets' \in Seq(Nat)
  BY <1>2, <1>3, <1>4
<1>6. TypeOK'
  <2>1. decrypted' \in Nat
    BY <1>3, <1>4
  <2>2. chunk' \in 0..BufferSize
    <3>1. chunk \in 0..BufferSize /\ BufferSize \in Nat
      BY StreamAssumption DEF TypeOK
    <3>2. QED BY <1>2, <1>3, <3>1 DEF HeaderSize
  <2>3. QED BY <1>3, <1>5, <2>1, <2>2 DEF TypeOK
<1>7. Parsed' = Parsed + 1
  BY <1>3, <1>4, <1>5 DEF Parsed
<1>8. CursorAtPacket'
  <2>1. Parsed + 1 <= Len(sent) /\ Parsed + 1 \in Nat
    BY <1>1, <1>2
  <2>2. taken' - chunk' = sent[Parsed + 1].at + HeaderSize + sent[Parsed + 1].body
    <3>1. /\ taken' = taken /\ chunk' = chunk - (HeaderSize + h.body)
          /\ sent[Parsed + 1].at = taken - chunk /\ sent[Parsed + 1].body = h.body
      BY <1>2, <1>3
    <3>2. taken \in Nat /\ chunk \in Nat /\ h.body \in Nat /\ HeaderSize \in Nat
      BY <1>2, <1>4 DEF HeaderSize
    <3>3. QED BY <3>1, <3>2
  <2>3. CASE Parsed + 1 = Len(sent)
    <3>1. Total = sent[Parsed + 1].at + HeaderSize + sent[Parsed + 1].body
      BY <2>3, <1>2 DEF Total
    <3>2. QED BY <1>1, <1>3, <1>7, <2>1, <2>2, <2>3, <3>1 DEF CursorAtPacket, Alive
  <2>4. CASE Parsed + 1 # Len(sent)
    <3>1. sent[Parsed + 2].at = sent[Parsed + 1].at + HeaderSize + sent[Parsed + 1].body
      <4>1. Parsed + 2 \in 1..Len(sent) /\ Parsed + 2 # 1 /\ (Parsed + 2) - 1 = Parsed + 1
        BY <1>1, <1>2, <2>1, <2>4
      <4>2. QED BY <4>1 DEF EndToEnd
    <3>2. Parsed' + 1 = Parsed + 2
      BY <1>2, <1>7
    <3>3. QED BY <1>1, <1>3, <1>7, <2>1, <2>2, <2>4, <3>1, <3>2 DEF CursorAtPacket, Alive
  <2>5. QED BY <2>3, <2>4
<1>9. LoginFirst' /\ PanicExplained'
  BY <1>3 DEF LoginFirst, PanicExplained
<1>10. NoneSkipped'
  <2>1. ASSUME session
        PROVE  /\ decrypted' = Len(delivered) + Len(packets')
               /\ \A k \in 1..Len(packets') : packets'[k] = Len(delivered) + k + 1
    <3>1. /\ decrypted = Len(delivered) + Len(packets) /\ Parsed = decrypted + 1
          /\ \A k \in 1..Len(packets) : packets[k] = Len(delivered) + k + 1
      BY <2>1 DEF NoneSkipped, Alive, Parsed
    <3>2. decrypted' = Len(delivered) + Len(packets')
      BY <1>3, <1>4, <1>5, <2>1, <3>1
    <3>3. ASSUME NEW k \in 1..Len(packets') PROVE packets'[k] = Len(delivered) + k + 1
      <4>1. k \in 1..Len(packets) \/ k = Len(packets) + 1
        BY <1>4, <1>5
      <4>2. QED BY <1>4, <1>5, <3>1, <4>1
    <3>4. QED BY <3>2, <3>3
  <2>2. QED BY <1>3, <2>1 DEF NoneSkipped, Alive
<1>11. QED BY <1>1, <1>6, <1>8, <1>9, <1>10

\* Arithmetic the next lemma needs.
LEMMA ZeroOrOne == \A n \in Nat : n <= 1 => n = 0 \/ n = 1
OBVIOUS

\* The buffer is empty: before there is a session, the one packet is AuthSession's.
LEMMA ReadReturnsStream == StreamInv /\ ReadReturns => StreamInv'
<1> SUFFICES ASSUME StreamInv, ReadReturns PROVE StreamInv'
  OBVIOUS
<1> USE DEF StreamInv, ReadInv, ReadReturns
<1>1. UnreadIsLength' /\ EndToEnd' /\ Total' = Total /\ Len(sent) \in Nat
  BY ReaderFrame
<1> USE DEF inVars, outVars, clientVars
<1>2. TypeOK'
  BY DEF TypeOK
<1>3. Parsed' = Parsed /\ Alive /\ Alive'
  BY DEF Parsed, Alive
<1>4. CursorAtPacket' /\ NoneSkipped' /\ PanicExplained'
  BY <1>1, <1>3 DEF CursorAtPacket, NoneSkipped, PanicExplained
<1>5. ~session => Len(packets) = 1
  <2> SUFFICES ASSUME ~session PROVE Len(packets) = 1
    OBVIOUS
  <2>1. /\ Parsed = Len(packets) /\ Len(packets) \in Nat /\ Len(sent) <= 1
        /\ Parsed <= Len(sent)
    BY <1>3 DEF Parsed, LoginFirst, CursorAtPacket, TypeOK
  <2>2. ASSUME Len(packets) = 0 PROVE FALSE
    <3>1. taken - chunk = 0
      <4>1. CASE Len(sent) = 0
        BY <1>3, <2>1, <2>2, <4>1 DEF CursorAtPacket, Total, TypeOK
      <4>2. CASE Len(sent) = 1
        <5>1. sent[1].at = 0
          BY <4>2 DEF EndToEnd
        <5>2. taken - chunk = sent[Parsed + 1].at /\ Parsed + 1 = 1
          BY <1>3, <2>1, <2>2, <4>2 DEF CursorAtPacket
        <5>3. QED BY <5>1, <5>2
      <4>3. Len(sent) = 0 \/ Len(sent) = 1
        BY <1>1, <2>1, ZeroOrOne
      <4>4. QED BY <4>1, <4>2, <4>3
    <3>2. QED BY <3>1 DEF LoginFirst, TypeOK
  <2>3. QED BY <1>1, <2>1, <2>2
<1>6. LoginFirst'
  BY <1>5 DEF LoginFirst
<1>7. QED BY <1>1, <1>2, <1>4, <1>6

-----------------------------------------------------------------------------
(* connect_loop.                                                           *)

\* The AuthSession is taken out of the vector and the session begins with its key
\* stream at the second packet.
LEMMA AuthenticateStream == StreamInv /\ Authenticate => StreamInv'
<1> SUFFICES ASSUME StreamInv, Authenticate PROVE StreamInv'
  OBVIOUS
<1> USE DEF StreamInv, ReadInv
<1>1. UnreadIsLength' /\ EndToEnd' /\ Total' = Total
  BY ReaderFrame DEF Authenticate
<1>2. /\ pc = "auth" /\ ~session /\ Len(packets) = 1 /\ decrypted = 0 /\ delivered = <<>>
      /\ Len(sent) <= 1 /\ packets \in Seq(Nat)
  BY DEF Authenticate, LoginFirst, TypeOK
<1>3. UNCHANGED <<sent, gone, seen, taken, chunk, decrypted, delivered, out, writing, stream, unread, cut>>
  BY DEF Authenticate, outVars, clientVars
<1>4. CASE pc' = "finalize" /\ session' = TRUE /\ packets' = Tail(packets)
  <2>0. packets # <<>>
    BY <1>2
  <2>1. packets' = <<>> /\ packets' \in Seq(Nat) /\ Len(packets') = 0
    <3>1. packets' \in Seq(Nat) /\ Len(packets') = 0
      BY <1>2, <1>4, <2>0
    <3>2. QED BY <3>1
  <2>2. session' \in BOOLEAN
    BY <1>4
  <2>3. TypeOK'
    BY <1>3, <1>4, <2>1, <2>2 DEF TypeOK
  <2>4. Parsed = 1 /\ Parsed' = 1 /\ Alive /\ Alive'
    BY <1>2, <1>3, <1>4 DEF Parsed, Alive
  <2>5. CursorAtPacket'
    BY <1>1, <1>2, <1>3, <1>4, <2>4 DEF CursorAtPacket
  <2>6. LoginFirst' /\ PanicExplained'
    BY <1>3, <1>4 DEF LoginFirst, PanicExplained
  <2>7. NoneSkipped'
    <3>1. delivered' = <<>> /\ decrypted' = 0 /\ Len(delivered') = 0
      BY <1>2, <1>3
    <3>2. 1..Len(packets') = {} /\ 1..Len(delivered') = {}
      BY <2>1, <3>1
    <3>3. decrypted' = Len(delivered') + Len(packets')
      BY <2>1, <3>1
    <3>4. QED BY <1>4, <2>1, <3>1, <3>2, <3>3 DEF NoneSkipped
  <2>8. QED BY <1>1, <2>3, <2>5, <2>6, <2>7
<1>5. CASE pc' = "closed" /\ UNCHANGED <<session, packets>>
  <2>1. TypeOK'
    BY <1>3, <1>5 DEF TypeOK
  <2>2. CursorAtPacket' /\ LoginFirst' /\ NoneSkipped' /\ PanicExplained'
    BY <1>1, <1>3, <1>5 DEF CursorAtPacket, LoginFirst, NoneSkipped, PanicExplained, Alive
  <2>3. QED BY <1>1, <2>1, <2>2
<1>6. QED BY <1>4, <1>5 DEF Authenticate

\* A packet goes from the vector into the channel, or the vector is empty.
LEMMA DeliverStream == StreamInv /\ Deliver => StreamInv'
<1> SUFFICES ASSUME StreamInv, Deliver PROVE StreamInv'
  OBVIOUS
<1> USE DEF StreamInv, ReadInv
<1>1. UnreadIsLength' /\ EndToEnd' /\ Total' = Total /\ Len(sent) \in Nat
  BY ReaderFrame DEF Deliver
<1>2. UNCHANGED <<sent, gone, seen, taken, chunk, session, decrypted, out, writing, stream, unread, cut>>
  BY DEF Deliver, outVars, clientVars
<1>3. /\ pc = "deliver" /\ session /\ Alive
      /\ packets \in Seq(Nat) /\ delivered \in Seq(Nat) /\ decrypted \in Nat
      /\ decrypted = Len(delivered) + Len(packets)
      /\ \A k \in 1..Len(packets) : packets[k] = Len(delivered) + k + 1
  BY DEF Deliver, LoginFirst, NoneSkipped, Alive, TypeOK
<1>4. CASE packets = <<>> /\ pc' = "read" /\ UNCHANGED <<delivered, packets>>
  <2>1. TypeOK'
    BY <1>2, <1>4 DEF TypeOK
  <2>2. Parsed' = Parsed /\ Alive'
    BY <1>2, <1>4 DEF Parsed, Alive
  <2>3. CursorAtPacket'
    BY <1>1, <1>2, <1>3, <1>4, <2>2 DEF CursorAtPacket
  <2>4. LoginFirst' /\ NoneSkipped' /\ PanicExplained'
    BY <1>2, <1>3, <1>4, <2>2 DEF LoginFirst, NoneSkipped, PanicExplained
  <2>5. QED BY <1>1, <2>1, <2>3, <2>4
<1>5. CASE /\ packets # <<>> /\ delivered' = Append(delivered, Head(packets))
           /\ packets' = Tail(packets) /\ UNCHANGED pc
  <2>0. Len(packets) \in Nat /\ Len(packets) >= 1 /\ Len(delivered) \in Nat
    BY <1>3, <1>5
  <2>1. /\ packets' \in Seq(Nat) /\ Len(packets') = Len(packets) - 1
        /\ \A k \in 1..Len(packets') : packets'[k] = packets[k + 1]
        /\ Head(packets) = packets[1] /\ packets[1] \in Nat
    BY <1>3, <1>5
  <2>2. /\ delivered' \in Seq(Nat) /\ Len(delivered') = Len(delivered) + 1
        /\ \A k \in 1..Len(delivered) : delivered'[k] = delivered[k]
        /\ delivered'[Len(delivered) + 1] = packets[1]
    BY <1>3, <1>5, <2>1
  <2>3. TypeOK'
    BY <1>2, <1>5, <2>1, <2>2 DEF TypeOK
  <2>4. Parsed' = Parsed /\ Parsed = decrypted + 1 /\ Alive'
    BY <1>2, <1>3, <1>5 DEF Parsed, Alive
  <2>5. CursorAtPacket'
    BY <1>1, <1>2, <1>3, <1>5, <2>4 DEF CursorAtPacket
  <2>6. LoginFirst' /\ PanicExplained'
    BY <1>2, <1>3, <1>5 DEF LoginFirst, PanicExplained
  <2>7. NoneSkipped'
    <3>1. decrypted' = Len(delivered') + Len(packets')
      BY <1>2, <1>3, <2>0, <2>1, <2>2
    <3>2. ASSUME NEW k \in 1..Len(packets') PROVE packets'[k] = Len(delivered') + k + 1
      <4>1. packets'[k] = packets[k + 1] /\ k + 1 \in 1..Len(packets)
        BY <2>0, <2>1
      <4>2. packets[k + 1] = Len(delivered) + (k + 1) + 1
        BY <1>3, <4>1
      <4>3. QED BY <2>0, <2>2, <4>1, <4>2
    <3>3. ASSUME NEW k \in 1..Len(delivered') PROVE delivered'[k] = k + 1
      <4>1. k \in 1..Len(delivered) \/ k = Len(delivered) + 1
        BY <2>0, <2>2
      <4>2. packets[1] = Len(delivered) + 1 + 1
        BY <1>3, <2>0
      <4>3. \A j \in 1..Len(delivered) : delivered[j] = j + 1
        BY DEF NoneSkipped
      <4>4. QED BY <2>0, <2>2, <4>1, <4>2, <4>3
    <3>4. Len(delivered') < Len(sent')
      <4>1. decrypted + 1 <= Len(sent)
        BY <1>3, <2>4 DEF CursorAtPacket
      <4>2. QED BY <1>1, <1>2, <1>3, <2>0, <2>2, <4>1
    <3>5. QED BY <1>3, <1>5, <3>1, <3>2, <3>3, <3>4 DEF NoneSkipped
  <2>8. QED BY <1>1, <2>3, <2>5, <2>6, <2>7
<1>6. QED BY <1>4, <1>5 DEF Deliver

-----------------------------------------------------------------------------
(* write_packet.                                                           *)

\* What the writer leaves alone while it does not move connect_loop.
LEMMA WriterFrame ==
    ASSUME StreamInv, UNCHANGED <<inVars, clientVars, pc>>
    PROVE  EndToEnd' /\ CursorAtPacket' /\ NoneSkipped' /\ PanicExplained'
<1> USE DEF StreamInv, ReadInv, inVars, clientVars
<1>1. EndToEnd' /\ CursorAtPacket'
  BY DEF EndToEnd, CursorAtPacket, Parsed, Alive, Total
<1>2. NoneSkipped' /\ PanicExplained'
  BY DEF NoneSkipped, PanicExplained, Alive
<1>3. QED BY <1>1, <1>2

\* A header is encrypted: only for a session.
LEMMA EncryptStream ==
    ASSUME StreamInv, NEW b \in Replies, Encrypt(b)
    PROVE  StreamInv'
<1> USE DEF StreamInv, ReadInv, Encrypt
<1>0. b \in Nat /\ out \in Seq(Nat)
  BY StreamAssumption DEF TypeOK
<1>1. out' \in Seq(Nat) /\ out' # <<>> /\ writing' = Len(out')
  BY <1>0
<1>2. session
  <2>1. CASE Finalizing
    BY <2>1 DEF Finalizing, LoginFirst
  <2>2. CASE Replying
    <3>1. out # <<>>
      BY <2>2 DEF Replying, FinalPackets
    <3>2. QED BY <3>1 DEF LoginFirst
  <2>3. QED BY <2>1, <2>2
<1>3. EndToEnd' /\ CursorAtPacket' /\ NoneSkipped' /\ PanicExplained'
  BY WriterFrame
<1> USE DEF inVars, clientVars
<1>4. TypeOK'
  BY <1>1 DEF TypeOK
<1>5. LoginFirst' /\ UnreadIsLength'
  BY <1>1, <1>2 DEF LoginFirst, UnreadIsLength
<1>6. QED BY <1>3, <1>4, <1>5

\* What a write puts on the stream: a part of the packet that fits.
LEMMA WriteTakes ==
    ASSUME TypeOK, Write
    PROVE  /\ writing = Len(out) /\ Len(out) \in Nat /\ out # <<>>
           /\ \E n \in Nat : /\ stream' = Append(stream, <<writing, n>>)
                             /\ unread' = unread + n /\ unread' \in 0..SendBuffer
<1>1. /\ writing = Len(out) /\ Len(out) \in Nat /\ writing \in 1..Len(out)
      /\ out[writing] \in Nat
      /\ unread \in Nat /\ SendBuffer \in Nat /\ SendBuffer - unread \in Nat
  <2>1. writing = Len(out) /\ writing # 0 /\ out \in Seq(Nat) /\ unread \in 0..SendBuffer
    BY DEF TypeOK, Write
  <2>2. Len(out) \in Nat /\ writing \in 1..Len(out)
    BY <2>1
  <2>3. QED BY <2>1, <2>2, StreamAssumption
<1> DEFINE n == Least(ReplyHeader + out[writing], SendBuffer - unread)
<1>2. n \in Nat /\ n <= SendBuffer - unread
  <2>1. ReplyHeader + out[writing] \in Nat
    BY <1>1 DEF ReplyHeader
  <2>2. QED BY <1>1, <2>1, LeastBounds
<1>3. stream' = Append(stream, <<writing, n>>) /\ unread' = unread + n
  BY DEF Write
<1> HIDE DEF n
<1>4. unread' \in 0..SendBuffer
  BY <1>1, <1>2, <1>3
<1>5. out # <<>>
  BY <1>1
<1>6. QED BY <1>1, <1>2, <1>3, <1>4, <1>5

\* A packet, or the part of it there is room for, is written.
LEMMA WriteStream == StreamInv /\ Write => StreamInv'
<1> SUFFICES ASSUME StreamInv, Write PROVE StreamInv'
  OBVIOUS
<1> USE DEF StreamInv, ReadInv
<1>1. /\ writing = Len(out) /\ Len(out) \in Nat /\ out # <<>>
      /\ writing' = 0 /\ UNCHANGED <<out, inVars, clientVars, pc>>
      /\ cut' = cut \/ cut' = writing
  BY WriteTakes DEF Write
<1>2. PICK n \in Nat : /\ stream' = Append(stream, <<writing, n>>)
                       /\ unread' = unread + n /\ unread' \in 0..SendBuffer
  BY WriteTakes
<1>3. EndToEnd' /\ CursorAtPacket' /\ NoneSkipped' /\ PanicExplained'
  BY <1>1, WriterFrame
<1>4. UnreadIsLength'
  BY <1>1, <1>2, WriteUnread
<1>5. TypeOK'
  <2>1. stream' \in Seq(Nat \X Nat)
    BY <1>1, <1>2, SMTT(30) DEF TypeOK
  <2>2. QED BY <1>1, <1>2, <2>1 DEF TypeOK, inVars, clientVars
<1>6. LoginFirst'
  BY <1>1 DEF LoginFirst, inVars, clientVars
<1>7. QED BY <1>3, <1>4, <1>5, <1>6

\* A write fails; in finalize that ends the connection.
LEMMA WriteFailsStream == StreamInv /\ WriteFails => StreamInv'
<1> SUFFICES ASSUME StreamInv, WriteFails PROVE StreamInv'
  OBVIOUS
<1> USE DEF StreamInv, ReadInv, WriteFails, inVars, clientVars
<1>1. TypeOK' /\ UnreadIsLength'
  BY DEF TypeOK, UnreadIsLength
<1>2. EndToEnd' /\ CursorAtPacket'
  BY DEF EndToEnd, CursorAtPacket, Parsed, Alive, Total
<1>3. LoginFirst' /\ NoneSkipped' /\ PanicExplained'
  BY DEF LoginFirst, NoneSkipped, PanicExplained, Alive
<1>4. QED BY <1>1, <1>2, <1>3

\* finalize is done.
LEMMA FinalizedStream == StreamInv /\ Finalized => StreamInv'
<1> SUFFICES ASSUME StreamInv, Finalized PROVE StreamInv'
  OBVIOUS
<1> USE DEF StreamInv, ReadInv, Finalized, inVars, outVars, clientVars
<1>1. TypeOK' /\ UnreadIsLength'
  BY DEF TypeOK, UnreadIsLength
<1>2. EndToEnd' /\ CursorAtPacket'
  BY DEF EndToEnd, CursorAtPacket, Parsed, Alive, Total
<1>3. LoginFirst' /\ NoneSkipped' /\ PanicExplained'
  BY DEF LoginFirst, NoneSkipped, PanicExplained, Alive
<1>4. QED BY <1>1, <1>2, <1>3

-----------------------------------------------------------------------------
(* The theorems.                                                           *)

\* Every step of the client, the reader and the writer keeps the invariant.
LEMMA StreamStep == StreamInv /\ [Next]_vars => StreamInv'
<1> SUFFICES ASSUME StreamInv, [Next]_vars PROVE StreamInv'
  OBVIOUS
<1>1. ASSUME NEW b \in Bodies, NEW f \in Fates, ClientSend(b, f) PROVE StreamInv'
  BY <1>1, ClientSendStream
<1>2. CASE ClientCloses \/ ClientReads
  BY <1>2, ClientClosesStream, ClientReadsStream
<1>3. CASE Parse
  <2>1. PICK h \in Headers : Panic(h) \/ Refuse(h) \/ Take(h)
    BY <1>3 DEF Parse
  <2>2. /\ pc = "parse" /\ chunk >= HeaderSize /\ Decrypt
        /\ UNCHANGED <<outVars, clientVars>>
    BY <1>3 DEF Parse
  <2>3. QED BY <2>1, <2>2, PanicStream, RefuseStream, TakeStream
<1>4. CASE Read \/ Closed \/ HeaderCut \/ ReadReturns \/ Authenticate \/ Deliver
  BY <1>4, ReadStream, ClosedStream, HeaderCutStream, ReadReturnsStream, AuthenticateStream,
     DeliverStream
<1>5. ASSUME NEW b \in Replies, Encrypt(b) PROVE StreamInv'
  BY <1>5, EncryptStream
<1>6. CASE Write \/ WriteFails \/ Finalized
  BY <1>6, WriteStream, WriteFailsStream, FinalizedStream
<1>7. CASE UNCHANGED vars
  BY <1>7, StreamStutter
<1>8. QED BY <1>1, <1>2, <1>3, <1>4, <1>5, <1>6, <1>7 DEF Next, Reader, Writer

\* Wherever read() cuts the client's packets, the cursor, the vector, the channel
\* and the key stream stay in step.
THEOREM StreamInvariance == Spec => []StreamInv
BY StreamInit, StreamStep, PTL DEF Spec

\* Every variable keeps its type: the slices of the buffer and the room in the
\* socket never become negative.
THEOREM StreamTypeCorrect == Spec => []TypeOK
<1>1. StreamInv => TypeOK
  BY DEF StreamInv, ReadInv
<1>2. QED BY StreamInvariance, <1>1, PTL

\* A sequence that counts up from m + 1 is a prefix of the numbers up to n.
LEMMA CountIsPrefix ==
    ASSUME NEW s \in Seq(Nat), NEW n \in Nat, NEW m \in Nat, Len(s) <= n,
           \A k \in 1..Len(s) : s[k] = k + m
    PROVE  IsPrefix(s, [k \in 1..n |-> k + m])
<1> DEFINE t == [k \in 1..n |-> k + m]
<1>1. t \in Seq(Nat) /\ Len(t) = n /\ \A k \in 1..n : t[k] = k + m
  OBVIOUS
<1> HIDE DEF t
<1>2. SubSeq(s, 1, Len(s)) = SubSeq(t, 1, Len(s))
  BY <1>1
<1>3. QED BY <1>1, <1>2 DEF IsPrefix, t

\* What connect_loop hands to the world is what the client sent, in order, for
\* any packet lengths, any buffer size and any way read() cuts the stream.
THEOREM StreamDeliversAsSent == Spec => []DeliveredAsSent
<1>1. ASSUME StreamInv PROVE DeliveredAsSent
  <2> SUFFICES ASSUME sent # <<>> PROVE IsPrefix(delivered, Expected)
    BY DEF DeliveredAsSent
  <2>1. /\ delivered \in Seq(Nat) /\ sent \in Seq(SentPacket)
        /\ \A k \in 1..Len(delivered) : delivered[k] = k + 1
        /\ delivered # <<>> => Len(delivered) < Len(sent)
    BY <1>1 DEF StreamInv, ReadInv, TypeOK, NoneSkipped
  <2>2. Len(sent) - 1 \in Nat /\ Len(delivered) <= Len(sent) - 1
    BY <2>1
  <2>3. QED BY <2>1, <2>2, CountIsPrefix DEF Expected
<1>2. QED BY StreamInvariance, <1>1, PTL

\* read_packets panics only on a read that ends inside a packet or on a packet
\* whose size or opcode is not provided for.
THEOREM StreamPanicsExplained == Spec => []PanicExplained
<1>1. StreamInv => PanicExplained
  BY DEF StreamInv, ReadInv
<1>2. QED BY StreamInvariance, <1>1, PTL

\* A position of a sequence that has grown by one.
LEMMA LastOrBefore == \A n \in Nat : \A k \in 1..(n + 1) : k \in 1..n \/ k = n + 1
OBVIOUS

\* The client is out of step exactly when it has passed the first packet cut short.
LEMMA OutOfStep ==
    ASSUME seen \in Seq(Nat), cut \in Nat, \A k \in 1..Len(seen) : seen[k] = Decoded(k)
    PROVE  0 \in ToSet(seen) <=> cut # 0 /\ cut <= Len(seen)
<1>0. Len(seen) \in Nat
  OBVIOUS
<1>1. 0 \in ToSet(seen) <=> \E k \in 1..Len(seen) : seen[k] = 0
  BY DEF ToSet
<1>2. \A k \in 1..Len(seen) : seen[k] = 0 <=> cut # 0 /\ cut <= k
  BY <1>0 DEF Decoded
<1>3. ASSUME cut # 0, cut <= Len(seen) PROVE \E k \in 1..Len(seen) : seen[k] = 0
  <2>1. cut \in 1..Len(seen)
    BY <1>0, <1>3
  <2>2. QED BY <1>2, <1>3, <2>1
<1>4. ASSUME NEW k \in 1..Len(seen), seen[k] = 0 PROVE cut # 0 /\ cut <= Len(seen)
  BY <1>0, <1>2, <1>4
<1>5. QED BY <1>1, <1>3, <1>4

\* The client takes the next packet: it decodes it if it is still in step and the
\* packet is whole.
LEMMA NoneLostReads ==
    ASSUME TypeOK, NoneLost, ClientReads
    PROVE  NoneLost'
<1>0. /\ seen \in Seq(Nat) /\ Len(seen) \in Nat /\ out \in Seq(Nat) /\ Len(out) \in Nat
      /\ stream \in Seq(Nat \X Nat) /\ Len(stream) \in Nat /\ cut \in Nat
      /\ writing \in {0, Len(out)}
  BY DEF TypeOK
<1>n. Len(seen) \in Nat /\ Len(stream) \in Nat /\ Len(out) \in Nat /\ cut \in Nat
  BY <1>0
<1>1. /\ ~gone /\ gone' = gone /\ stream # <<>> /\ stream' = Tail(stream)
      /\ UNCHANGED <<out, writing, cut>>
  BY DEF ClientReads
<1>2. /\ Len(stream) >= 1 /\ Head(stream) = stream[1]
      /\ Len(stream') = Len(stream) - 1
      /\ \A k \in 1..Len(stream') : stream'[k] = stream[k + 1]
  BY <1>0, <1>1
<1>a. (\A k \in 1..Len(seen) : seen[k] = Decoded(k)) /\ Len(seen) <= Len(out)
  BY DEF NoneLost
<1>b. /\ Len(out) = Len(seen) + Len(stream) + (IF writing = 0 THEN 0 ELSE 1)
      /\ cut <= Len(seen) + Len(stream)
      /\ \A k \in 1..Len(stream) : stream[k][1] = Len(seen) + k /\ WholeUntilCut(k)
  BY <1>1 DEF NoneLost
<1>3. seen' = Append(seen, Decoded(Len(seen) + 1))
  <2>1. seen' = Append(seen, IF Whole(stream[1]) /\ 0 \notin ToSet(seen) THEN stream[1][1] ELSE 0)
    BY <1>2 DEF ClientReads
  <2>2. 1 \in 1..Len(stream)
    BY <1>n, <1>2
  <2>3. stream[1][1] = Len(seen) + 1 /\ WholeUntilCut(1)
    BY <1>b, <2>2
  <2>4. 0 \in ToSet(seen) <=> cut # 0 /\ cut <= Len(seen)
    BY <1>0, <1>a, OutOfStep
  <2>5. Whole(stream[1]) /\ 0 \notin ToSet(seen) <=> cut = 0 \/ Len(seen) + 1 < cut
    <3>1. CASE cut = 0 \/ Len(seen) + 1 < cut
      BY <1>n, <2>3, <2>4, <3>1 DEF WholeUntilCut
    <3>2. CASE cut # 0 /\ cut = Len(seen) + 1
      BY <1>n, <2>3, <3>2 DEF WholeUntilCut
    <3>3. CASE cut # 0 /\ cut <= Len(seen)
      BY <1>n, <2>4, <3>3
    <3>4. QED BY <1>n, <3>1, <3>2, <3>3
  <2>6. QED BY <2>1, <2>3, <2>5 DEF Decoded
<1> DEFINE d == Decoded(Len(seen) + 1)
<1>d. \A k : Decoded(k)' = Decoded(k)
  BY <1>1 DEF Decoded
<1>4. /\ Len(seen') = Len(seen) + 1
      /\ \A k \in 1..Len(seen) : seen'[k] = seen[k]
      /\ seen'[Len(seen) + 1] = d
  <2>1. d \in Nat
    BY <1>n DEF Decoded
  <2> HIDE DEF d
  <2>2. seen' = Append(seen, d)
    BY <1>3 DEF d
  <2>3. QED BY <1>0, <2>1, <2>2
<1>5. ASSUME NEW k \in 1..Len(seen') PROVE seen'[k] = Decoded(k)
  <2>1. k \in 1..Len(seen) \/ k = Len(seen) + 1
    BY <1>n, <1>4, LastOrBefore
  <2>2. QED BY <1>a, <1>4, <2>1
<1>6. /\ Len(out) = Len(seen') + Len(stream') + (IF writing = 0 THEN 0 ELSE 1)
      /\ cut <= Len(seen') + Len(stream')
  <2>1. Len(seen') = Len(seen) + 1 /\ Len(stream') = Len(stream) - 1
    BY <1>2, <1>4
  <2>2. QED BY <1>n, <1>b, <2>1
<1>7. Len(seen') <= Len(out')
  <2>1. Len(stream') \in Nat /\ Len(seen') \in Nat
    BY <1>n, <1>2, <1>4
  <2>2. QED BY <1>n, <1>1, <1>6, <2>1
<1>8. ASSUME NEW k \in 1..Len(stream') PROVE stream'[k][1] = Len(seen') + k /\ WholeUntilCut(k)'
  <2>1. stream'[k] = stream[k + 1] /\ k + 1 \in 1..Len(stream) /\ k \in Nat
    BY <1>0, <1>2
  <2>2. stream[k + 1][1] = Len(seen) + (k + 1) /\ WholeUntilCut(k + 1)
    BY <1>b, <2>1
  <2>3. Len(seen') + k = Len(seen) + (k + 1)
    BY <1>n, <1>4, <2>1
  <2>4. Whole(stream[k])' <=> Whole(stream[k + 1])
    BY <1>1, <2>1 DEF Whole
  <2>5. WholeUntilCut(k)'
    BY <1>1, <2>2, <2>3, <2>4 DEF WholeUntilCut
  <2>6. QED BY <2>1, <2>2, <2>3, <2>5
<1>9. QED BY <1>1, <1>5, <1>6, <1>7, <1>8, <1>d DEF NoneLost

\* A header is encrypted: the packets in the socket keep their lengths.
LEMMA NoneLostEncrypt ==
    ASSUME TypeOK, NoneLost, NEW b \in Replies, Encrypt(b)
    PROVE  NoneLost'
<1>0. /\ Len(seen) \in Nat /\ out \in Seq(Nat) /\ Len(out) \in Nat
      /\ Len(stream) \in Nat /\ cut \in Nat /\ b \in Nat
  BY StreamAssumption DEF TypeOK
<1>1. /\ writing = 0 /\ writing' = Len(out) + 1 /\ out' = Append(out, b)
      /\ UNCHANGED <<stream, seen, gone, cut>>
  BY DEF Encrypt, clientVars
<1>2. Len(out') = Len(out) + 1 /\ \A j \in 1..Len(out) : out'[j] = out[j]
  BY <1>0, <1>1
<1>3. (\A k \in 1..Len(seen') : seen'[k] = Decoded(k)') /\ Len(seen') <= Len(out')
  BY <1>0, <1>1, <1>2 DEF NoneLost, Decoded
<1>4. ASSUME ~gone
      PROVE  /\ Len(out') = Len(seen') + Len(stream') + (IF writing' = 0 THEN 0 ELSE 1)
             /\ cut' <= Len(seen') + Len(stream')
             /\ \A k \in 1..Len(stream') : stream'[k][1] = Len(seen') + k /\ WholeUntilCut(k)'
  <2>1. /\ Len(out) = Len(seen) + Len(stream)
        /\ cut <= Len(seen) + Len(stream)
        /\ \A k \in 1..Len(stream) : stream[k][1] = Len(seen) + k /\ WholeUntilCut(k)
    BY <1>0, <1>1, <1>4 DEF NoneLost
  <2>2. ASSUME NEW k \in 1..Len(stream) PROVE WholeUntilCut(k)'
    <3>1. stream[k][1] = Len(seen) + k /\ WholeUntilCut(k)
      BY <2>1
    <3>2. stream[k][1] \in 1..Len(out)
      BY <1>0, <2>1, <3>1
    <3>3. Whole(stream[k])' <=> Whole(stream[k])
      BY <1>1, <1>2, <3>2 DEF Whole
    <3>4. QED BY <1>1, <3>1, <3>3 DEF WholeUntilCut
  <2>3. QED BY <1>0, <1>1, <1>2, <2>1, <2>2
<1>5. QED BY <1>1, <1>3, <1>4 DEF NoneLost

\* A packet is written: the first one that does not fit is the first one cut.
LEMMA NoneLostWrite ==
    ASSUME TypeOK, NoneLost, Write
    PROVE  NoneLost'
<1>0. /\ Len(seen) \in Nat /\ out \in Seq(Nat) /\ Len(out) \in Nat
      /\ stream \in Seq(Nat \X Nat) /\ Len(stream) \in Nat /\ cut \in Nat
      /\ unread \in Nat /\ SendBuffer \in Nat
  BY StreamAssumption DEF TypeOK
<1>n. Len(seen) \in Nat /\ Len(stream) \in Nat /\ Len(out) \in Nat /\ cut \in Nat
  BY <1>0
<1>1. /\ writing # 0 /\ writing = Len(out) /\ writing' = 0 /\ ~gone
      /\ UNCHANGED <<out, seen, gone>>
      /\ cut' = IF cut = 0 /\ NoRoom THEN writing ELSE cut
  BY DEF TypeOK, Write, clientVars
<1> DEFINE n == Least(ReplyHeader + out[writing], SendBuffer - unread)
<1>2. stream' = Append(stream, <<writing, n>>) /\ writing \in Nat /\ n \in Nat
  <2>1. out[writing] \in Nat /\ ReplyHeader + out[writing] \in Nat
    BY <1>0, <1>1 DEF ReplyHeader
  <2>2. SendBuffer - unread \in Nat
    BY StreamAssumption DEF TypeOK
  <2>3. n \in Nat
    BY <2>1, <2>2, LeastBounds
  <2>4. QED BY <1>0, <1>1, <2>3 DEF Write
<1>3. NoRoom <=> n # ReplyHeader + out[writing]
  <2>1. out[writing] \in Nat /\ ReplyHeader + out[writing] \in Nat
    BY <1>0, <1>1 DEF ReplyHeader
  <2>2. QED BY <1>0, <2>1 DEF NoRoom, Least
<1> HIDE DEF n
<1>4. /\ Len(stream') = Len(stream) + 1
      /\ \A k \in 1..Len(stream) : stream'[k] = stream[k]
      /\ stream'[Len(stream) + 1] = <<writing, n>>
  BY <1>0, <1>2
<1>a. (\A k \in 1..Len(seen) : seen[k] = Decoded(k)) /\ Len(seen) <= Len(out)
  BY DEF NoneLost
<1>b. /\ Len(out) = Len(seen) + Len(stream) + 1
      /\ cut <= Len(seen) + Len(stream)
      /\ \A k \in 1..Len(stream) : stream[k][1] = Len(seen) + k /\ WholeUntilCut(k)
  BY <1>1 DEF NoneLost
<1>5. writing = Len(seen) + (Len(stream) + 1)
  BY <1>n, <1>1, <1>b
<1>6. cut' \in Nat /\ cut' <= Len(seen) + (Len(stream) + 1)
  BY <1>n, <1>1, <1>5, <1>b
<1>7. ASSUME NEW k \in 1..Len(seen) PROVE seen[k] = Decoded(k)'
  <2>1. seen[k] = Decoded(k)
    BY <1>a
  <2>2. CASE cut' = cut
    BY <2>1, <2>2 DEF Decoded
  <2>3. CASE cut = 0 /\ cut' = writing
    <3>1. k < writing
      BY <1>n, <1>5
    <3>2. QED BY <2>1, <2>3, <3>1 DEF Decoded
  <2>4. QED BY <1>1, <2>2, <2>3
<1>8. ASSUME NEW k \in 1..Len(stream')
      PROVE  stream'[k][1] = Len(seen) + k /\ WholeUntilCut(k)'
  <2>1. k \in 1..Len(stream) \/ k = Len(stream) + 1
    BY <1>n, <1>4, LastOrBefore
  <2>2. CASE k \in 1..Len(stream)
    <3>1. stream'[k] = stream[k] /\ stream[k][1] = Len(seen) + k /\ WholeUntilCut(k)
      BY <1>4, <1>b, <2>2
    <3>2. Whole(stream[k])' <=> Whole(stream[k])
      BY <1>1, <3>1 DEF Whole
    <3>3. CASE cut' = cut
      BY <1>1, <3>1, <3>2, <3>3 DEF WholeUntilCut
    <3>4. CASE cut = 0 /\ cut' = writing
      <4>1. Len(seen) + k < writing
        BY <1>n, <1>5, <2>2
      <4>2. Len(seen) + k # writing
        BY <1>n, <2>2, <4>1, <1>5
      <4>3. QED BY <1>1, <3>1, <3>2, <3>4, <4>2 DEF WholeUntilCut
    <3>5. QED BY <1>1, <3>1, <3>3, <3>4
  <2>3. CASE k = Len(stream) + 1
    <3>1. stream'[k] = <<writing, n>> /\ Len(seen) + k = writing
      BY <1>4, <1>5, <2>3
    <3>2. Whole(stream[k])' <=> ~NoRoom
      BY <1>1, <1>3, <3>1 DEF Whole
    <3>3. /\ cut' = 0 \/ writing < cut' => ~NoRoom
          /\ cut' = writing => NoRoom
      BY <1>n, <1>1, <1>5, <1>b
    <3>4. QED BY <1>1, <3>1, <3>2, <3>3 DEF WholeUntilCut
  <2>4. QED BY <2>1, <2>2, <2>3
<1>9. /\ Len(out') = Len(seen') + Len(stream') + 0
      /\ cut' <= Len(seen') + Len(stream')
  BY <1>n, <1>1, <1>4, <1>6, <1>b
<1>10. QED BY <1>1, <1>7, <1>8, <1>9, <1>a DEF NoneLost

\* Every step keeps what the client has decoded, the socket and the writer in line.
LEMMA NoneLostStep == TypeOK /\ NoneLost /\ [Next]_vars => NoneLost'
<1> SUFFICES ASSUME TypeOK, NoneLost, [Next]_vars PROVE NoneLost'
  OBVIOUS
<1>1. CASE UNCHANGED <<outVars, seen>> /\ (gone' = gone \/ gone')
  BY <1>1 DEF NoneLost, outVars, Decoded, WholeUntilCut, Whole
<1>2. CASE ClientReads \/ Write
  BY <1>2, NoneLostReads, NoneLostWrite
<1>3. ASSUME NEW b \in Replies, Encrypt(b) PROVE NoneLost'
  BY <1>3, NoneLostEncrypt
<1>4. CASE WriteFails
  BY <1>4 DEF WriteFails, clientVars, NoneLost, Decoded
<1>5. ASSUME ~ClientReads, ~Write, ~WriteFails, ~\E b \in Replies : Encrypt(b)
      PROVE  UNCHANGED <<outVars, seen>> /\ (gone' = gone \/ gone')
  <2>1. ASSUME NEW b \in Bodies, NEW f \in Fates, ClientSend(b, f)
        PROVE  UNCHANGED <<outVars, seen>> /\ (gone' = gone \/ gone')
    BY <2>1 DEF ClientSend
  <2>2. CASE ClientCloses
    BY <2>2 DEF ClientCloses
  <2>3. CASE Reader
    BY <2>3 DEF Reader, Read, ReadStep, Closed, HeaderCut, Parse, ReadReturns, Authenticate,
                Deliver, clientVars
  <2>4. CASE Finalized
    BY <2>4 DEF Finalized, clientVars
  <2>5. CASE UNCHANGED vars
    BY <2>5 DEF vars, clientVars
  <2>6. QED BY <1>5, <2>1, <2>2, <2>3, <2>4, <2>5 DEF Next, Writer
<1>6. QED BY <1>1, <1>2, <1>3, <1>4, <1>5

\* Whatever the lengths of the replies and the room of the socket, the client
\* decodes what send_packet was given, in order, up to the first packet that
\* write() cuts short, and nothing from there on.
THEOREM StreamSeenUntilCut == Spec => []SeenUntilCut
<1>1. Init => NoneLost
  BY DEF Init, NoneLost
<1>2. NoneLost => SeenUntilCut
  BY DEF NoneLost, SeenUntilCut
<1>3. QED BY <1>1, <1>2, NoneLostStep, StreamTypeCorrect, PTL DEF Spec
=============================================================================
