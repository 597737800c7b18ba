---------------------------- MODULE Framing_proofs ----------------------------
(***************************************************************************)
(* The decoder is right for messages that fit, whatever the size of a byte,*)
(* the messages and the way TCP cuts the stream.                           *)
(***************************************************************************)
EXTENDS Framing, SequenceTheorems, TLAPS

(* The first byte after message i. *)
End(i) == start[i] + 1 + Len(sent[i])

(* Where message i begins, or will begin if it is the next to be sent. *)
Begin(i) == IF i <= Len(sent) THEN start[i] ELSE Len(stream)

(* The stream is the messages one after the other, each after its length. *)
Layout ==
  /\ Begin(1) = 0
  /\ \A i \in 1..Len(sent) :
       /\ End(i) <= Len(stream) /\ Begin(i + 1) = End(i)
       /\ stream[start[i] + 1] = LengthByte(Len(sent[i]))
       /\ \A j \in 1..Len(sent[i]) : stream[start[i] + 1 + j] = sent[i][j]

(* Until a message that does not fit comes up, the decoder stands at the
   beginning of a message. *)
InStep ==
  Clean(Len(received) + 1)
    => Len(received) <= Len(sent) /\ read = Begin(Len(received) + 1)

FrameInv == TypeOK /\ Layout /\ InStep /\ FramesAreMessages

-----------------------------------------------------------------------------
LEMMA HalfNat == Half \in Nat /\ Half > 0
  BY FramingAssumption

(* A length that fits is read back as it was written. *)
LEMMA FittingLength ==
  ASSUME NEW n \in Nat, n < Half
  PROVE  LengthByte(n) = n /\ Signed(LengthByte(n)) = n
  <1>1. n \in 0..(2 * Half - 1) /\ 2 * Half \in Nat \ {0}
    BY HalfNat
  <1>2. n % (2 * Half) = n
    BY <1>1
  <1>3. QED BY <1>2 DEF LengthByte, Signed

LEMMA LengthByteType ==
  ASSUME NEW n \in Nat
  PROVE  LengthByte(n) \in Byte
  BY HalfNat DEF LengthByte, Byte

LEMMA MessageType == \A m \in Messages : m \in Seq(Byte) /\ Len(m) \in Nat
  BY FramingAssumption

(* The stream after a message was written, byte by byte. *)
LEMMA WrittenBytes ==
  ASSUME NEW s \in Seq(Byte), NEW b \in Byte, NEW m \in Seq(Byte),
         NEW t, t = s \o <<b>> \o m
  PROVE  /\ t \in Seq(Byte) /\ Len(t) = Len(s) + 1 + Len(m)
         /\ \A k \in 1..Len(s) : t[k] = s[k]
         /\ t[Len(s) + 1] = b
         /\ \A j \in 1..Len(m) : t[Len(s) + 1 + j] = m[j]
  <1>1. PICK h : h = s \o <<b>>
    OBVIOUS
  <1>2. <<b>> \in Seq(Byte) /\ Len(<<b>>) = 1 /\ <<b>>[1] = b
    OBVIOUS
  <1>3. /\ h \in Seq(Byte) /\ Len(h) = Len(s) + 1 /\ h[Len(s) + 1] = b
        /\ \A k \in 1..Len(s) : h[k] = s[k]
    BY <1>1, <1>2
  <1>4. t = h \o m
    BY <1>1
  <1>5. /\ t \in Seq(Byte) /\ Len(t) = Len(h) + Len(m)
        /\ \A k \in 1..Len(h) : t[k] = h[k]
        /\ \A j \in 1..Len(m) : t[Len(h) + j] = m[j]
    BY <1>3, <1>4
  <1>6. QED BY <1>3, <1>5

(* What the decoder meets when it stands at the beginning of a message that
   fits: the length of that message. *)
LEMMA MeetsMessage ==
  ASSUME TypeOK, Layout, InStep, HasHeader, Clean(Len(received) + 1)
  PROVE  /\ Len(received) + 1 \in 1..Len(sent)
         /\ read = start[Len(received) + 1]
         /\ Len(sent[Len(received) + 1]) \in Nat
         /\ Length = Len(sent[Len(received) + 1])
  <1>1. PICK n : n = Len(received) + 1
    OBVIOUS
  <1>2. /\ n \in Nat \ {0} /\ Len(sent) \in Nat /\ Len(stream) \in Nat
        /\ read \in Nat /\ arrived \in Nat /\ arrived <= Len(stream)
    BY <1>1 DEF TypeOK
  <1>3. n - 1 <= Len(sent) /\ read = Begin(n)
    BY <1>1, <1>2 DEF InStep
  <1>4. n <= Len(sent)
    <2>1. arrived - read >= 1
      BY DEF HasHeader, Readable
    <2>2. QED BY <1>2, <1>3, <2>1 DEF Begin
  <1>5. n \in 1..Len(sent) /\ read = start[n]
    BY <1>2, <1>3, <1>4 DEF Begin
  <1>6. sent[n] \in Messages
    BY <1>5 DEF TypeOK
  <1>7. Len(sent[n]) \in Nat
    BY <1>6, MessageType
  <1>8. Len(sent[n]) < Half
    BY <1>1, <1>2, <1>5 DEF Clean, Fits
  <1>9. stream[read + 1] = LengthByte(Len(sent[n]))
    BY <1>5 DEF Layout
  <1>10. Length = Len(sent[n])
    BY <1>7, <1>8, <1>9, FittingLength DEF Length
  <1>11. QED BY <1>1, <1>5, <1>7, <1>10

(* The bytes of a message, cut out of the stream. *)
LEMMA CutBytes ==
  ASSUME NEW s \in Seq(Byte), NEW r \in Nat, NEW m \in Seq(Byte),
         r + 1 + Len(m) <= Len(s),
         \A j \in 1..Len(m) : s[r + 1 + j] = m[j]
  PROVE  SubSeq(s, r + 2, r + 1 + Len(m)) = m
  <1>1. PICK f, a, b : f = SubSeq(s, a, b) /\ a = r + 2 /\ b = r + 1 + Len(m)
    OBVIOUS
  <1>2. Len(m) \in Nat /\ Len(s) \in Nat
    OBVIOUS
  <1>3. a \in 1..Len(s) + 1 /\ b \in a - 1..Len(s) /\ b - a + 1 = Len(m)
    BY <1>1, <1>2
  <1>4. f \in Seq(Byte) /\ Len(f) = Len(m)
    BY <1>1, <1>2, <1>3, SubSeqProperties
  <1>5. \A j \in 1..Len(m) : f[j] = s[a + j - 1]
    BY <1>1, <1>2, <1>3, SubSeqProperties
  <1>6. \A j \in 1..Len(m) : f[j] = m[j]
    BY <1>1, <1>2, <1>5
  <1>7. f = m
    BY <1>4, <1>6, SeqEqual
  <1>8. QED BY <1>1, <1>7

(* The frame it then returns is that message. *)
LEMMA ReturnsMessage ==
  ASSUME TypeOK, Layout, InStep, HasHeader, Clean(Len(received) + 1)
  PROVE  /\ SubSeq(stream, read + 2, read + 1 + Length) = sent[Len(received) + 1]
         /\ read + 1 + Length = Begin(Len(received) + 2)
  <1>1. PICK n : n = Len(received) + 1
    OBVIOUS
  <1>2. n \in 1..Len(sent) /\ read = start[n] /\ Length = Len(sent[n]) /\ Length \in Nat
    BY <1>1, MeetsMessage
  <1>3. /\ n \in Nat /\ read \in Nat /\ stream \in Seq(Byte) /\ Len(stream) \in Nat
        /\ Len(received) \in Nat
    BY <1>1 DEF TypeOK
  <1>4. /\ read + 1 + Length <= Len(stream) /\ Begin(n + 1) = read + 1 + Length
        /\ \A j \in 1..Length : stream[read + 1 + j] = sent[n][j]
    BY <1>2 DEF Layout, End
  <1>5. sent[n] \in Seq(Byte)
    BY <1>2, MessageType DEF TypeOK
  <1>6. SubSeq(stream, read + 2, read + 1 + Length) = sent[n]
    BY <1>2, <1>3, <1>4, <1>5, CutBytes
  <1>7. Len(received) + 2 = n + 1
    BY <1>1, <1>3
  <1>8. QED BY <1>1, <1>4, <1>6, <1>7

-----------------------------------------------------------------------------
LEMMA FrameInit == Init => FrameInv
  <1> SUFFICES ASSUME Init PROVE FrameInv
    OBVIOUS
  <1>1. TypeOK
    BY DEF Init, TypeOK
  <1>2. Layout
    BY DEF Init, Layout, Begin
  <1>3. InStep
    BY DEF Init, InStep, Begin
  <1>4. FramesAreMessages
    BY DEF Init, FramesAreMessages
  <1>5. QED BY <1>1, <1>2, <1>3, <1>4 DEF FrameInv

(* What sending a message does to the stream and to the history. *)
LEMMA SendEffect ==
  ASSUME TypeOK, NEW m \in Messages, Send(m)
  PROVE  /\ stream' \in Seq(Byte) /\ Len(stream)' = Len(stream) + 1 + Len(m)
         /\ \A k \in 1..Len(stream) : stream'[k] = stream[k]
         /\ stream'[Len(stream) + 1] = LengthByte(Len(m))
         /\ \A j \in 1..Len(m) : stream'[Len(stream) + 1 + j] = m[j]
         /\ sent' \in Seq(Messages) /\ Len(sent)' = Len(sent) + 1
         /\ \A i \in 1..Len(sent) : sent'[i] = sent[i]
         /\ sent'[Len(sent) + 1] = m
         /\ start' \in Seq(Nat) /\ Len(start)' = Len(sent) + 1
         /\ \A i \in 1..Len(sent) : start'[i] = start[i]
         /\ start'[Len(sent) + 1] = Len(stream)
  <1>1. m \in Seq(Byte) /\ Len(m) \in Nat /\ LengthByte(Len(m)) \in Byte
    BY MessageType, LengthByteType
  <1>2. stream \in Seq(Byte) /\ stream' = stream \o <<LengthByte(Len(m))>> \o m
    BY DEF Send, TypeOK
  <1>3. /\ stream' \in Seq(Byte) /\ Len(stream') = Len(stream) + 1 + Len(m)
        /\ \A k \in 1..Len(stream) : stream'[k] = stream[k]
        /\ stream'[Len(stream) + 1] = LengthByte(Len(m))
        /\ \A j \in 1..Len(m) : stream'[Len(stream) + 1 + j] = m[j]
    BY <1>1, <1>2, WrittenBytes
  <1>4. sent \in Seq(Messages) /\ sent' = Append(sent, m)
    BY DEF Send, TypeOK
  <1>5. /\ sent' \in Seq(Messages) /\ Len(sent') = Len(sent) + 1
        /\ \A i \in 1..Len(sent) : sent'[i] = sent[i]
        /\ sent'[Len(sent) + 1] = m
    BY <1>4
  <1>6. /\ start \in Seq(Nat) /\ Len(start) = Len(sent)
        /\ Len(stream) \in Nat /\ start' = Append(start, Len(stream))
    BY DEF Send, TypeOK
  <1>7. /\ start' \in Seq(Nat) /\ Len(start') = Len(sent) + 1
        /\ \A i \in 1..Len(sent) : start'[i] = start[i]
        /\ start'[Len(sent) + 1] = Len(stream)
    BY <1>6
  <1>8. QED BY <1>3, <1>5, <1>7

LEMMA TypeStep == TypeOK /\ [Next]_vars => TypeOK'
  <1> SUFFICES ASSUME TypeOK, [Next]_vars PROVE TypeOK'
    OBVIOUS
  <1>1. ASSUME NEW m \in Messages, Send(m) PROVE TypeOK'
    <2>1. /\ stream' \in Seq(Byte) /\ Len(stream') = Len(stream) + 1 + Len(m)
          /\ sent' \in Seq(Messages) /\ start' \in Seq(Nat) /\ Len(start') = Len(sent')
      BY <1>1, SendEffect
    <2>2. Len(m) \in Nat /\ Len(stream) \in Nat
      BY MessageType DEF TypeOK
    <2>3. arrived' \in read'..Len(stream')
      BY <1>1, <2>1, <2>2 DEF Send, TypeOK
    <2>4. QED BY <1>1, <2>1, <2>3 DEF Send, TypeOK
  <1>2. ASSUME NEW n \in 1..Len(stream), Arrive(n) PROVE TypeOK'
    BY <1>2 DEF Arrive, TypeOK
  <1>3. CASE Decode
    <2>1. PICK k : k = Length
      OBVIOUS
    <2>2. /\ arrived - read >= 1 /\ arrived - read - 1 >= k /\ k >= 0
          /\ received' = Append(received, SubSeq(stream, read + 2, read + 1 + k))
          /\ read' = read + 1 + k /\ arrived' = arrived /\ stream' = stream
      BY <1>3, <2>1 DEF Decode, CanDecode, HasHeader, Enough, Readable
    <2>3. read \in Nat /\ Len(stream) \in Nat /\ arrived \in read..Len(stream)
      BY DEF TypeOK
    <2>4. stream[read + 1] \in Byte
      BY <2>2, <2>3 DEF TypeOK
    <2>5. k \in Int
      BY <2>1, <2>4, HalfNat DEF Length, Signed, Byte
    <2>6. \A i \in read + 2..read + 1 + k : stream[i] \in Byte
      BY <2>2, <2>3, <2>5 DEF TypeOK
    <2>7. SubSeq(stream, read + 2, read + 1 + k) \in Seq(Byte)
      <3>1. read + 2 \in Int /\ read + 1 + k \in Int
        BY <2>3, <2>5
      <3>2. QED BY <2>6, <3>1, SubSeqProperties
    <2>8. received' \in Seq(Seq(Byte))
      BY <2>2, <2>7 DEF TypeOK
    <2>9. read' \in Nat /\ arrived' \in read'..Len(stream')
      BY <2>2, <2>3, <2>5
    <2>10. QED BY <1>3, <2>8, <2>9 DEF Decode, TypeOK
  <1>4. CASE DecodeFails
    BY <1>4 DEF DecodeFails, CanDecode, HasHeader, Readable, TypeOK
  <1>5. CASE Disconnect
    BY <1>5 DEF Disconnect, TypeOK
  <1>6. CASE Close
    BY <1>6 DEF Close, TypeOK
  <1>7. CASE UNCHANGED vars
    BY <1>7 DEF vars, TypeOK
  <1>8. QED BY <1>1, <1>2, <1>3, <1>4, <1>5, <1>6, <1>7 DEF Next

-----------------------------------------------------------------------------
(* Sending adds a message at the end: what was there stays where it was, and a
   decoder that waited for the next message is now at its beginning. *)
LEMMA SendStep ==
  ASSUME FrameInv, NEW m \in Messages, Send(m)
  PROVE  Layout' /\ InStep' /\ FramesAreMessages'
  <1>0. PICK n, L : n = Len(sent) /\ L = Len(stream)
    OBVIOUS
  <1>1. /\ n \in Nat /\ L \in Nat /\ Len(m) \in Nat /\ Len(received) \in Nat
        /\ Len(start) = n
    BY <1>0, MessageType DEF FrameInv, TypeOK
  <1>2. /\ Len(stream)' = L + 1 + Len(m)
        /\ \A k \in 1..L : stream'[k] = stream[k]
        /\ stream'[L + 1] = LengthByte(Len(m))
        /\ \A j \in 1..Len(m) : stream'[L + 1 + j] = m[j]
        /\ Len(sent)' = n + 1
        /\ \A i \in 1..n : sent'[i] = sent[i]
        /\ sent'[n + 1] = m
        /\ \A i \in 1..n : start'[i] = start[i]
        /\ start'[n + 1] = L
        /\ received' = received /\ read' = read
    BY <1>0, SendEffect DEF FrameInv, Send
  <1>3. \A i \in 1..n : /\ start[i] \in Nat /\ Len(sent[i]) \in Nat
                        /\ start[i] + 1 + Len(sent[i]) <= L
    BY <1>0, <1>1, MessageType DEF FrameInv, TypeOK, Layout, End
  <1>4. \A i \in 1..n + 1 : Begin(i)' = Begin(i)
    BY <1>0, <1>1, <1>2 DEF Begin
  <1>5. Layout'
    <2>1. Begin(1)' = 0
      BY <1>0, <1>1, <1>4 DEF FrameInv, Layout
    <2>2. ASSUME NEW i \in 1..n
          PROVE  /\ End(i)' = End(i) /\ End(i)' <= Len(stream)' /\ Begin(i + 1)' = End(i)'
                 /\ stream'[start'[i] + 1] = LengthByte(Len(sent'[i]))
                 /\ \A j \in 1..Len(sent'[i]) : stream'[start'[i] + 1 + j] = sent'[i][j]
      <3>1. End(i)' = End(i) /\ sent'[i] = sent[i] /\ start'[i] = start[i]
        BY <1>2 DEF End
      <3>2. End(i) <= L /\ Begin(i + 1) = End(i)
        BY <1>0 DEF FrameInv, Layout
      <3>3. Begin(i + 1)' = Begin(i + 1)
        BY <1>0, <1>1, <1>4
      <3>4. End(i)' <= Len(stream)'
        BY <1>0, <1>1, <1>2, <1>3, <3>1, <3>2 DEF End
      <3>5. start[i] + 1 \in 1..L /\ stream[start[i] + 1] = LengthByte(Len(sent[i]))
        BY <1>0, <1>1, <1>3 DEF FrameInv, Layout
      <3>6. ASSUME NEW j \in 1..Len(sent[i])
            PROVE  start[i] + 1 + j \in 1..L /\ stream[start[i] + 1 + j] = sent[i][j]
        BY <1>0, <1>1, <1>3 DEF FrameInv, Layout
      <3>7. stream'[start[i] + 1] = LengthByte(Len(sent[i]))
        BY <1>2, <3>5
      <3>8. \A j \in 1..Len(sent[i]) : stream'[start[i] + 1 + j] = sent[i][j]
        BY <1>2, <3>6
      <3>9. QED BY <3>1, <3>2, <3>3, <3>4, <3>7, <3>8
    <2>3. /\ End(n + 1)' = Len(stream)' /\ Begin(n + 2)' = Len(stream)'
          /\ stream'[start'[n + 1] + 1] = LengthByte(Len(sent'[n + 1]))
          /\ \A j \in 1..Len(sent'[n + 1]) :
               stream'[start'[n + 1] + 1 + j] = sent'[n + 1][j]
      BY <1>0, <1>1, <1>2 DEF End, Begin
    <2>4. Len(stream)' <= Len(stream)' /\ n + 1 + 1 = n + 2
      BY <1>0, <1>1, <1>2
    <2>5. \A i \in 1..Len(sent)' : i \in 1..n \/ i = n + 1
      BY <1>0, <1>1, <1>2
    <2>6. ASSUME NEW i \in 1..Len(sent)'
          PROVE  /\ End(i)' <= Len(stream)' /\ Begin(i + 1)' = End(i)'
                 /\ stream'[start'[i] + 1] = LengthByte(Len(sent'[i]))
                 /\ \A j \in 1..Len(sent'[i]) : stream'[start'[i] + 1 + j] = sent'[i][j]
      <3>1. CASE i \in 1..n
        BY <2>2, <3>1
      <3>2. CASE i = n + 1
        BY <2>3, <2>4, <3>2
      <3>3. QED BY <2>5, <3>1, <3>2
    <2>7. QED BY <2>1, <2>6 DEF Layout
  <1>6. InStep'
    <2> SUFFICES ASSUME Clean(Len(received) + 1)'
                 PROVE  Len(received) <= Len(sent)' /\ read = Begin(Len(received) + 1)'
      BY <1>2 DEF InStep
    <2>1. Clean(Len(received) + 1)
      BY <1>0, <1>1, <1>2 DEF Clean, Fits
    <2>2. Len(received) <= n /\ read = Begin(Len(received) + 1)
      BY <1>0, <2>1 DEF FrameInv, InStep
    <2>3. QED BY <1>0, <1>1, <1>2, <1>4, <2>2
  <1>7. FramesAreMessages'
    <2> SUFFICES ASSUME NEW i \in 1..Len(received),
                        \A j \in 1..i : j <= Len(sent)' => Fits(sent'[j])
                 PROVE  i <= Len(sent)' /\ received[i] = sent'[i]
      BY <1>2 DEF FramesAreMessages, Clean
    <2>1. \A j \in 1..i : j <= n => Fits(sent[j])
      BY <1>0, <1>1, <1>2 DEF Fits
    <2>2. i <= n /\ received[i] = sent[i]
      BY <1>0, <2>1 DEF FrameInv, FramesAreMessages, Clean
    <2>3. QED BY <1>0, <1>1, <1>2, <2>2
  <1>8. QED BY <1>5, <1>6, <1>7

(* Decoding hands over the message the decoder is at, and leaves it at the
   beginning of the next. *)
LEMMA DecodeStep ==
  ASSUME FrameInv, Decode
  PROVE  Layout' /\ InStep' /\ FramesAreMessages'
  <1>0. PICK n : n = Len(received)
    OBVIOUS
  <1>1. n \in Nat /\ Len(sent) \in Nat
    BY <1>0 DEF FrameInv, TypeOK
  <1>2. PICK f : f = SubSeq(stream, read + 2, read + 1 + Length)
    OBVIOUS
  <1>3. received' = Append(received, f) /\ read' = read + 1 + Length /\ HasHeader
    BY <1>2 DEF Decode, CanDecode
  <1>4. UNCHANGED <<stream, sent, start>>
    BY DEF Decode
  <1>5. /\ Len(received)' = n + 1 /\ received'[n + 1] = f
        /\ \A i \in 1..n : received'[i] = received[i]
    BY <1>0, <1>3 DEF FrameInv, TypeOK
  <1>6. Layout'
    BY <1>4 DEF FrameInv, Layout, Begin, End
  <1>7. ASSUME Clean(n + 1)
        PROVE  n + 1 <= Len(sent) /\ f = sent[n + 1] /\ read' = Begin(n + 2)
    <2>1. n + 1 \in 1..Len(sent)
      BY <1>0, <1>1, <1>3, <1>7, MeetsMessage DEF FrameInv
    <2>2. f = sent[n + 1] /\ read' = Begin(n + 2)
      BY <1>0, <1>1, <1>2, <1>3, <1>7, ReturnsMessage DEF FrameInv
    <2>3. QED BY <2>1, <2>2
  <1>8. InStep'
    <2> SUFFICES ASSUME Clean(n + 2)
                 PROVE  n + 1 <= Len(sent) /\ read' = Begin(n + 2)
      BY <1>0, <1>1, <1>4, <1>5 DEF InStep, Clean, Begin
    <2>1. Clean(n + 1)
      BY <1>1 DEF Clean
    <2>2. QED BY <1>7, <2>1
  <1>9. FramesAreMessages'
    <2> SUFFICES ASSUME NEW i \in 1..n + 1,
                        \A j \in 1..i : j <= Len(sent) => Fits(sent[j])
                 PROVE  i <= Len(sent) /\ received'[i] = sent[i]
      BY <1>0, <1>4, <1>5 DEF FramesAreMessages, Clean
    <2>1. CASE i \in 1..n
      BY <1>0, <1>5, <2>1 DEF FrameInv, FramesAreMessages, Clean
    <2>2. CASE i = n + 1
      BY <1>5, <1>7, <2>2 DEF Clean
    <2>3. QED BY <1>1, <2>1, <2>2
  <1>10. QED BY <1>6, <1>8, <1>9

(* A decoder at the beginning of a message that fits does not meet a negative
   length, so only one that is out of step already can fail. *)
LEMMA DecodeFailsStep ==
  ASSUME FrameInv, DecodeFails
  PROVE  Layout' /\ InStep' /\ FramesAreMessages'
  <1>1. UNCHANGED <<stream, sent, start, received>> /\ HasHeader /\ Length < 0
    BY DEF DecodeFails, CanDecode
  <1>2. Layout'
    BY <1>1 DEF FrameInv, Layout, Begin, End
  <1>3. ~Clean(Len(received) + 1)
    <2> SUFFICES ASSUME Clean(Len(received) + 1) PROVE FALSE
      OBVIOUS
    <2>1. Length \in Nat
      BY <1>1, MeetsMessage DEF FrameInv
    <2>2. QED BY <1>1, <2>1
  <1>4. InStep'
    BY <1>1, <1>3 DEF InStep, Clean
  <1>5. FramesAreMessages'
    BY <1>1 DEF FrameInv, FramesAreMessages, Clean
  <1>6. QED BY <1>2, <1>4, <1>5

LEMMA FrameStep == FrameInv /\ [Next]_vars => FrameInv'
  <1> SUFFICES ASSUME FrameInv, [Next]_vars PROVE FrameInv'
    OBVIOUS
  <1>1. TypeOK'
    BY TypeStep DEF FrameInv
  <1>2. ASSUME NEW m \in Messages, Send(m)
        PROVE  Layout' /\ InStep' /\ FramesAreMessages'
    BY <1>2, SendStep
  <1>3. ASSUME Decode
        PROVE  Layout' /\ InStep' /\ FramesAreMessages'
    BY <1>3, DecodeStep
  <1>4. ASSUME DecodeFails
        PROVE  Layout' /\ InStep' /\ FramesAreMessages'
    BY <1>4, DecodeFailsStep
  <1>5. ASSUME UNCHANGED <<stream, read, sent, start, received>>
        PROVE  Layout' /\ InStep' /\ FramesAreMessages'
    BY <1>5 DEF FrameInv, Layout, InStep, FramesAreMessages, Begin, End, Clean
  <1>6. Layout' /\ InStep' /\ FramesAreMessages'
    BY <1>2, <1>3, <1>4, <1>5 DEF Next, Arrive, Disconnect, Close, vars
  <1>7. QED BY <1>1, <1>6 DEF FrameInv

(* The invariant all the results about the decoder follow from. *)
THEOREM FrameInvariant == Spec => []FrameInv
  BY FrameInit, FrameStep, PTL DEF Spec

(* The stream, the counters and the frames keep their types, and the decoder is
   never ahead of the bytes that have arrived. *)
THEOREM FramingTypeCorrect == Spec => []TypeOK
  <1>1. FrameInv => TypeOK
    BY DEF FrameInv
  <1>2. QED BY FrameInvariant, <1>1, PTL

(* Every frame up to the first message that does not fit is the message sent,
   for every size of the byte, every set of messages and every way the stream
   is cut and ended: decode neither splits nor merges nor reorders. *)
THEOREM FramesAreWhole == Spec => []FramesAreMessages
  <1>1. FrameInv => FramesAreMessages
    BY DEF FrameInv
  <1>2. QED BY FrameInvariant, <1>1, PTL

(* The decoder never waits, with all bytes there, for a message to be complete
   that is complete: returning null is always right. *)
THEOREM NothingIsStuck == Spec => []NothingStuck
  <1>1. FrameInv => NothingStuck
    <2> SUFFICES ASSUME FrameInv, AllFit, arrived = Len(stream), ~CanDecode,
                        Len(received) # Len(sent)
                 PROVE  FALSE
      BY DEF NothingStuck
    <2>1. PICK n : n = Len(received) + 1
      OBVIOUS
    <2>2. n \in Nat \ {0} /\ Len(sent) \in Nat /\ Len(received) \in Nat
      BY <2>1 DEF FrameInv, TypeOK
    <2>3. Clean(n)
      BY <2>1, <2>2 DEF AllFit, Clean
    <2>4. n - 1 <= Len(sent) /\ read = Begin(n)
      BY <2>1, <2>2, <2>3 DEF FrameInv, InStep
    <2>5. n \in 1..Len(sent) /\ read = start[n]
      BY <2>1, <2>2, <2>4 DEF Begin
    <2>6. /\ start[n] \in Nat /\ Len(sent[n]) \in Nat /\ Len(stream) \in Nat
          /\ start[n] + 1 + Len(sent[n]) <= Len(stream)
      <3>1. start[n] \in Nat /\ sent[n] \in Messages /\ Len(stream) \in Nat
        BY <2>5 DEF FrameInv, TypeOK
      <3>2. End(n) <= Len(stream)
        BY <2>5 DEF FrameInv, Layout
      <3>3. QED BY <3>1, <3>2, MessageType DEF End
    <2>7. HasHeader
      BY <2>5, <2>6 DEF HasHeader, Readable
    <2>8. Length = Len(sent[n])
      BY <2>1, <2>3, <2>7, MeetsMessage DEF FrameInv
    <2>9. Enough
      BY <2>5, <2>6, <2>8 DEF Enough, Readable
    <2>10. QED BY <2>7, <2>9 DEF CanDecode
  <1>2. QED BY FrameInvariant, <1>1, PTL

-----------------------------------------------------------------------------
(* If all frames there are come before the first misfit, they are all sound. *)
LEMMA AllSound ==
  ASSUME received \in Seq(Seq(Byte)), Clean(Len(received))
  PROVE  Sound = received
  <1>1. Len(received) \in Nat
    OBVIOUS
  <1>2. {i \in 1..Len(received) : Clean(i)} = 1..Len(received)
    BY <1>1 DEF Clean
  <1>3. Sound = [i \in 1..Len(received) |-> received[i]]
    BY <1>2 DEF Sound
  <1>4. QED BY <1>3

(* A step that leaves the frames up to the first misfit alone. *)
LEMMA SameSound ==
  ASSUME {i \in 1..Len(received') : Clean(i)'} = {i \in 1..Len(received) : Clean(i)},
         \A i \in 1..Len(received) : Clean(i) => received'[i] = received[i]
  PROVE  Sound' = Sound
  <1>1. PICK D : D = {i \in 1..Len(received) : Clean(i)}
    OBVIOUS
  <1>2. Sound = [i \in D |-> received[i]]
    BY <1>1 DEF Sound
  <1>3. Sound' = [i \in D |-> received'[i]]
    BY <1>1 DEF Sound
  <1>4. \A i \in D : received'[i] = received[i]
    BY <1>1
  <1>5. [i \in D |-> received'[i]] = [i \in D |-> received[i]]
    BY <1>4
  <1>6. QED BY <1>2, <1>3, <1>5

(* A message sent later does not make a frame sound, or unsound: a sound one
   came from a message sent before. *)
LEMMA SendKeepsSound ==
  ASSUME FrameInv, NEW m \in Messages, Send(m)
  PROVE  Sound' = Sound
  <1>1. /\ received' = received /\ sent' = Append(sent, m)
        /\ sent \in Seq(Messages) /\ Len(sent) \in Nat /\ Len(received) \in Nat
    BY DEF Send, FrameInv, TypeOK
  <1>2. Len(sent') = Len(sent) + 1 /\ \A j \in 1..Len(sent) : sent'[j] = sent[j]
    BY <1>1
  <1>3. ASSUME NEW i \in 1..Len(received) PROVE Clean(i)' <=> Clean(i)
    <2>1. ASSUME Clean(i) PROVE Clean(i)'
      <3>1. i <= Len(sent)
        BY <2>1 DEF FrameInv, FramesAreMessages
      <3>2. ASSUME NEW j \in 1..i PROVE Fits(sent'[j])
        <4>1. j \in 1..Len(sent) /\ Fits(sent[j])
          BY <1>1, <2>1, <3>1 DEF Clean
        <4>2. sent'[j] = sent[j]
          BY <1>2, <4>1
        <4>3. QED BY <4>1, <4>2
      <3>3. QED BY <3>2 DEF Clean, Fits
    <2>2. ASSUME Clean(i)' PROVE Clean(i)
      <3>1. ASSUME NEW j \in 1..i, j <= Len(sent) PROVE Fits(sent[j])
        <4>1. j \in 1..Len(sent) /\ j <= Len(sent')
          BY <1>1, <1>2, <3>1
        <4>2. sent'[j] = sent[j] /\ Len(sent'[j]) < Half
          BY <1>2, <2>2, <4>1 DEF Clean, Fits
        <4>3. QED BY <4>2 DEF Fits
      <3>2. QED BY <3>1 DEF Clean
    <2>3. QED BY <2>1, <2>2
  <1>4. {i \in 1..Len(received') : Clean(i)'} = {i \in 1..Len(received) : Clean(i)}
    BY <1>1, <1>3
  <1>5. QED BY <1>1, <1>4, SameSound

(* A frame decoded at or after a message that does not fit is not sound. *)
LEMMA DecodeKeepsSound ==
  ASSUME FrameInv, Decode, ~Clean(Len(received) + 1)
  PROVE  Sound' = Sound
  <1>1. PICK f, n : f = SubSeq(stream, read + 2, read + 1 + Length) /\ n = Len(received)
    OBVIOUS
  <1>2. /\ received' = Append(received, f) /\ sent' = sent
        /\ received \in Seq(Seq(Byte)) /\ n \in Nat
    BY <1>1 DEF Decode, FrameInv, TypeOK
  <1>3. Len(received') = n + 1 /\ \A i \in 1..n : received'[i] = received[i]
    BY <1>1, <1>2
  <1>4. \A i : Clean(i)' <=> Clean(i)
    BY <1>2 DEF Clean, Fits
  <1>5. {i \in 1..n + 1 : Clean(i)} = {i \in 1..n : Clean(i)}
    BY <1>1, <1>2
  <1>6. {i \in 1..Len(received') : Clean(i)'} = {i \in 1..Len(received) : Clean(i)}
    BY <1>1, <1>3, <1>4, <1>5
  <1>7. QED BY <1>1, <1>3, <1>6, SameSound

(* The frame decoded at a message that fits is the next of the stream. *)
LEMMA DecodeTakes ==
  ASSUME FrameInv, Decode, Clean(Len(received) + 1)
  PROVE  Stream!Take
  <1>1. PICK n : n = Len(received) + 1
    OBVIOUS
  <1>2. /\ Len(received) \in Nat /\ Len(sent) \in Nat /\ received \in Seq(Seq(Byte))
        /\ sent \in Seq(Messages)
    BY DEF FrameInv, TypeOK
  <1>3. HasHeader
    BY DEF Decode, CanDecode
  <1>4. n \in 1..Len(sent)
    BY <1>1, <1>3, MeetsMessage DEF FrameInv
  <1>5. SubSeq(stream, read + 2, read + 1 + Length) = sent[n]
    BY <1>1, <1>3, ReturnsMessage DEF FrameInv
  <1>6. received' = Append(received, sent[n]) /\ sent' = sent
    BY <1>5 DEF Decode
  <1>7. sent[n] \in Seq(Byte)
    BY <1>2, <1>4, MessageType
  <1>8. received' \in Seq(Seq(Byte)) /\ Len(received') = n
    BY <1>1, <1>2, <1>6, <1>7
  <1>9. Clean(Len(received))
    BY <1>2 DEF Clean
  <1>10. Clean(Len(received))'
    BY <1>1, <1>6, <1>8 DEF Clean, Fits
  <1>11. Sound = received
    BY <1>2, <1>9, AllSound
  <1>12. Sound' = received'
    <2>1. Len(received') \in Nat
      BY <1>8
    <2>2. {i \in 1..Len(received') : Clean(i)'} = 1..Len(received')
      BY <1>10, <2>1 DEF Clean
    <2>3. Sound' = [i \in 1..Len(received') |-> received'[i]]
      BY <2>2 DEF Sound
    <2>4. QED BY <1>8, <2>3
  <1>13. QED BY <1>1, <1>2, <1>4, <1>6, <1>11, <1>12 DEF Stream!Take

(* Sender and decoder implement the stream of messages, up to the first message
   too long for the length byte: each step hands over the next message, adds
   one at the end, or changes nothing a user of the stream can see. *)
THEOREM StreamIsImplemented == Spec => StreamImplemented
  <1>1. Init => Stream!Init
    <2> SUFFICES ASSUME Init PROVE Stream!Init
      OBVIOUS
    <2>1. received \in Seq(Seq(Byte)) /\ Len(received) = 0 /\ sent = << >>
      BY DEF Init
    <2>2. Clean(Len(received))
      BY <2>1 DEF Clean
    <2>3. Sound = received
      BY <2>1, <2>2, AllSound
    <2>4. QED BY <2>3 DEF Init, Stream!Init
  <1>2. FrameInv /\ [Next]_vars => [Stream!Next]_Stream!vars
    <2> SUFFICES ASSUME FrameInv, [Next]_vars PROVE [Stream!Next]_Stream!vars
      OBVIOUS
    <2>1. ASSUME NEW m \in Messages, Send(m) PROVE Stream!Next
      BY <2>1, SendKeepsSound DEF Send, Stream!Next, Stream!Put
    <2>2. CASE Decode /\ Clean(Len(received) + 1)
      BY <2>2, DecodeTakes DEF Stream!Next
    <2>3. CASE Decode /\ ~Clean(Len(received) + 1)
      <3>1. sent' = sent
        BY <2>3 DEF Decode
      <3>2. QED BY <2>3, <3>1, DecodeKeepsSound DEF Stream!vars
    <2>4. CASE UNCHANGED <<sent, received>>
      <3>1. Sound' = Sound
        BY <2>4 DEF Sound, Clean, Fits
      <3>2. QED BY <2>4, <3>1 DEF Stream!vars
    <2>5. QED
      BY <2>1, <2>2, <2>3, <2>4 DEF Next, Arrive, DecodeFails, Disconnect, Close, vars
  <1>3. QED
    BY <1>1, <1>2, FrameInvariant, PTL DEF Spec, StreamImplemented, Stream!Spec

=============================================================================
