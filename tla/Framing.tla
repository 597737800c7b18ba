------------------------------- MODULE Framing -------------------------------
(***************************************************************************)
(* One direction of the TCP connection between terminal server and         *)
(* connector: a sender that puts one byte with the length in front of each *)
(* message, and ByteHeaderFrameDecoder at the other end, which is handed   *)
(* the bytes in whatever pieces TCP delivers.  Both ends send in this way  *)
(* and both decode with this class.                                        *)
(*                                                                         *)
(* A byte has 2 * Half values.  The sender keeps the length modulo that    *)
(* number, the decoder reads it as a signed one, from -Half to Half - 1.   *)
(***************************************************************************)
EXTENDS Integers, Sequences

CONSTANTS
  Half,      \* half the number of values of a byte (128 in the code)
  Messages,  \* the messages a run may send
  MaxSent    \* bound: messages sent on the connection

Byte == 0..(2 * Half - 1)

ASSUME FramingAssumption ==
  /\ Half \in Nat \ {0}
  /\ Messages \subseteq Seq(Byte)
  /\ MaxSent \in Nat

VARIABLES
  stream,   \* every byte written so far
  arrived,  \* how many of them have reached the decoder
  read,     \* how many of them the decoder has consumed
  status,   \* "open", "closing" (the decoder empties its buffer) or "closed"
  sent,     \* history: the messages written
  start,    \* history: how many bytes were written before each of them
  received  \* the frames handed to the next handler

vars == <<stream, arrived, read, status, sent, start, received>>

Init ==
  /\ stream = << >>
  /\ arrived = 0
  /\ read = 0
  /\ status = "open"
  /\ sent = << >>
  /\ start = << >>
  /\ received = << >>

-----------------------------------------------------------------------------
(* Mutant: the length counts the header too. *)
LengthWithHeader(n) == (n + 1) % (2 * Half)

(* writeByte drops all but the low bits. *)
LengthByte(n) == n % (2 * Half)

(* Send one message: the byte with its length, then its bytes. *)
Send(m) ==
  /\ status = "open" /\ Len(sent) < MaxSent
  /\ stream' = stream \o <<LengthByte(Len(m))>> \o m
  /\ sent' = Append(sent, m)
  /\ start' = Append(start, Len(stream))
  /\ UNCHANGED <<arrived, read, status, received>>

(* readByte is signed. *)
Signed(b) == IF b < Half THEN b ELSE b - 2 * Half

Readable == arrived - read

HasHeader == Readable >= 1

Length == Signed(stream[read + 1])

(* Mutant: the header is counted among the bytes of the frame. *)
EnoughWithHeader == Readable >= Length

(* Mutant: one byte more has to be there than the frame has. *)
EnoughAndMore == Readable - 1 > Length

(* The length is compared with what is left after it: a negative length is
   always met. *)
Enough == Readable - 1 >= Length

CanDecode == HasHeader /\ Enough

(* TCP delivers n more bytes.  Until then the decoder waits: it has been called
   again and again until it returned null. *)
Arrive(n) ==
  /\ status = "open" /\ ~CanDecode
  /\ n <= Len(stream) - arrived
  /\ arrived' = arrived + n
  /\ UNCHANGED <<stream, read, status, sent, start, received>>

(* Mutant: the length is left in the buffer. *)
DecodeKeepingHeader ==
  /\ status # "closed" /\ CanDecode /\ Length >= 0
  /\ received' = Append(received, SubSeq(stream, read + 2, read + 1 + Length))
  /\ read' = read + Length
  /\ UNCHANGED <<stream, arrived, status, sent, start>>

(* decode returns a frame. *)
Decode ==
  /\ status # "closed" /\ CanDecode /\ Length >= 0
  /\ received' = Append(received, SubSeq(stream, read + 2, read + 1 + Length))
  /\ read' = read + 1 + Length
  /\ UNCHANGED <<stream, arrived, status, sent, start>>

(* readBytes of a negative length raises after the header was consumed, and
   exceptionCaught closes the channel. *)
DecodeFails ==
  /\ status # "closed" /\ CanDecode /\ Length < 0
  /\ read' = read + 1
  /\ status' = "closing"
  /\ UNCHANGED <<stream, arrived, sent, start, received>>

(* The connection ends.  What is buffered may still be decoded, what has not
   arrived is lost. *)
Disconnect ==
  /\ status = "open"
  /\ status' = "closing"
  /\ UNCHANGED <<stream, arrived, read, sent, start, received>>

(* The decoder drops the rest of its buffer. *)
Close ==
  /\ status = "closing"
  /\ status' = "closed"
  /\ UNCHANGED <<stream, arrived, read, sent, start, received>>

Next ==
  \/ \E m \in Messages : Send(m)
  \/ \E n \in 1..Len(stream) : Arrive(n)
  \/ Decode \/ DecodeFails \/ Disconnect \/ Close

Spec == Init /\ [][Next]_vars

(* TCP delivers what was written and the worker decodes what it was handed. *)
Fairness ==
  /\ WF_vars(\E n \in 1..Len(stream) : Arrive(n))
  /\ WF_vars(Decode) /\ WF_vars(DecodeFails)

FairSpec == Spec /\ Fairness
-----------------------------------------------------------------------------
(* Every variable has its type, and the decoder is never ahead of the bytes. *)
TypeOK ==
  /\ stream \in Seq(Byte)
  /\ read \in Nat /\ arrived \in read..Len(stream)
  /\ status \in {"open", "closing", "closed"}
  /\ sent \in Seq(Messages)
  /\ start \in Seq(Nat) /\ Len(start) = Len(sent)
  /\ received \in Seq(Seq(Byte))

(* Messages whose length a signed byte can hold. *)
Fits(m) == Len(m) < Half
AllFit == \A i \in 1..Len(sent) : Fits(sent[i])

(* The first n messages fit. *)
Clean(n) == \A j \in 1..n : j <= Len(sent) => Fits(sent[j])

(* Up to the first message that does not fit, the frames are the messages sent,
   whole and in order, however TCP cut the stream and whenever it ended. *)
FramesAreMessages ==
  \A i \in 1..Len(received) :
    Clean(i) => i <= Len(sent) /\ received[i] = sent[i]

(* Every message sent has been handed over once all bytes have arrived and the
   decoder waits: it never waits for bytes that nobody will send. *)
NothingStuck ==
  AllFit /\ arrived = Len(stream) /\ ~CanDecode => Len(received) = Len(sent)

(* What the last comment in decode says, "There's enough bytes in the buffer.
   Read it. Return the decoded frame.": once the test for missing bytes is
   passed there is a frame to return.  It does not hold: a length of half the
   range of the byte or more reads as negative and passes the test. *)
EnoughMeansFrame == CanDecode => Length >= 0

(* Unless the connection ends, each message that fits is handed over. *)
MessagesArrive ==
  \A k \in 1..MaxSent :
    Len(sent) >= k /\ AllFit ~> Len(received) >= k \/ status # "open" \/ ~AllFit

(* The frames before the first message that does not fit. *)
Sound == [i \in {i \in 1..Len(received) : Clean(i)} |-> received[i]]

Stream == INSTANCE MessageStream WITH received <- Sound

(* Up to that message the two ends implement a stream of messages; from then on
   nothing more comes out of it. *)
StreamImplemented == Stream!Spec
=============================================================================
