------------------------- MODULE HttpFrontend_proofs -------------------------
(***************************************************************************)
(* Theorems about one HTTP connection, for every number of requests and    *)
(* every mix of them: each request is answered once, in step, and files    *)
(* are released.  They follow from what can be said of the line of parts   *)
(* that were queued, those on the socket before those still in the outbox. *)
(***************************************************************************)
EXTENDS HttpFrontend, SequenceTheorems, FiniteSetTheorems, TLAPS

USE FrontendAssumption

PartType == [of : 0..MaxRequests, part : Parts, listeners : SUBSET Listeners]

Line == socket \o outbox

Pages == {"page", "lastPage"}
Refusals == LastKinds \ {"lastPage"}

(* What the worker is at, and whom the other variables speak of. *)
WorkerInv ==
  /\ Len(requests) <= MaxRequests
  /\ failure => ~connected
  /\ worker # "idle" => handled > 0
  /\ worker = "region" => requests[handled] \in Pages
  /\ worker = "caught" => requests[handled] = "malformed"
  /\ worker = "listen" => requests[handled] \in Pages \cup Refusals
  /\ \A i \in awaiting : requests[i] = "command"
  /\ \A i \in files : requests[i] \in Pages

TypeInv == TypeOK /\ WorkerInv

-----------------------------------------------------------------------------
(* Sequences. *)
LEMMA MoveHead ==
  ASSUME NEW S, NEW s \in Seq(S), NEW t \in Seq(S), t # << >>
  PROVE  Append(s, Head(t)) \o Tail(t) = s \o t
  <1>1. t = <<Head(t)>> \o Tail(t) /\ <<Head(t)>> \in Seq(S) /\ Tail(t) \in Seq(S)
    OBVIOUS
  <1>2. Append(s, Head(t)) = s \o <<Head(t)>>
    BY <1>1
  <1>3. QED BY <1>1, <1>2, ConcatAssociative

LEMMA AppendToSecond ==
  ASSUME NEW S, NEW s \in Seq(S), NEW t \in Seq(S), NEW e \in S
  PROVE  s \o Append(t, e) = Append(s \o t, e)
  <1>1. Append(t, e) = t \o <<e>> /\ Append(s \o t, e) = (s \o t) \o <<e>>
    BY ConcatProperties, AppendIsConcat
  <1>2. QED BY <1>1, ConcatAssociative

(* Where the elements of two sequences are when one is put after the other. *)
LEMMA Joined ==
  ASSUME NEW S, NEW s \in Seq(S), NEW t \in Seq(S), NEW u \in Seq(S), u = s \o t
  PROVE  /\ Len(u) \in Nat /\ DOMAIN u = 1..Len(u)
         /\ Len(s) \in Nat /\ DOMAIN s = 1..Len(s)
         /\ Len(t) \in Nat /\ DOMAIN t = 1..Len(t)
         /\ Len(u) = Len(s) + Len(t)
         /\ \A k \in DOMAIN s : k \in DOMAIN u /\ u[k] = s[k]
         /\ \A k \in DOMAIN t : Len(s) + k \in DOMAIN u /\ u[Len(s) + k] = t[k]
         /\ \A k \in DOMAIN u : k \notin DOMAIN s =>
              k - Len(s) \in DOMAIN t /\ u[k] = t[k - Len(s)]
  <1>1. /\ Len(s) \in Nat /\ DOMAIN s = 1..Len(s)
        /\ Len(t) \in Nat /\ DOMAIN t = 1..Len(t)
        /\ Len(u) \in Nat /\ DOMAIN u = 1..Len(u)
    BY LenProperties
  <1>2. /\ Len(u) = Len(s) + Len(t)
        /\ \A k \in 1..(Len(s) + Len(t)) : u[k] = IF k <= Len(s) THEN s[k] ELSE t[k - Len(s)]
    BY ConcatProperties
  <1>3. \A a, b \in Nat : \A k \in 1..b : a + k \in 1..(a + b) /\ ~(a + k <= a) /\ a + k - a = k
    OBVIOUS
  <1>4. \A k \in 1..Len(t) : Len(s) + k \in DOMAIN u /\ u[Len(s) + k] = t[k]
    <2> TAKE k \in 1..Len(t)
    <2>1. /\ Len(s) + k \in 1..(Len(s) + Len(t))
          /\ ~(Len(s) + k <= Len(s)) /\ Len(s) + k - Len(s) = k
      BY <1>1, <1>3
    <2>2. QED BY <1>1, <1>2, <2>1
  <1>5. \A k \in 1..Len(s) : k \in DOMAIN u /\ u[k] = s[k]
    BY <1>1, <1>2
  <1>6. \A k \in DOMAIN u : k \notin 1..Len(s) => k - Len(s) \in 1..Len(t) /\ u[k] = t[k - Len(s)]
    BY <1>1, <1>2
  <1>7. QED BY <1>1, <1>2, <1>4, <1>5, <1>6

(* Where the parts of the line are. *)
LEMMA LineParts ==
  ASSUME TypeOK
  PROVE  /\ Line \in Seq(PartType) /\ Len(Line) \in Nat /\ DOMAIN Line = 1..Len(Line)
         /\ socket \in Seq(PartType) /\ Len(socket) \in Nat /\ DOMAIN socket = 1..Len(socket)
         /\ outbox \in Seq(PartType) /\ Len(outbox) \in Nat /\ DOMAIN outbox = 1..Len(outbox)
         /\ Len(Line) = Len(socket) + Len(outbox)
         /\ \A k \in DOMAIN socket : k \in DOMAIN Line /\ Line[k] = socket[k]
         /\ \A k \in DOMAIN outbox : Len(socket) + k \in DOMAIN Line /\ Line[Len(socket) + k] = outbox[k]
         /\ \A k \in DOMAIN Line : k \notin DOMAIN socket =>
              k - Len(socket) \in DOMAIN outbox /\ Line[k] = outbox[k - Len(socket)]
  <1>1. socket \in Seq(PartType) /\ outbox \in Seq(PartType)
    BY DEF TypeOK, PartType
  <1>2. Line \in Seq(PartType)
    BY <1>1, ConcatProperties DEF Line
  <1>3. QED BY <1>1, <1>2, Joined DEF Line

-----------------------------------------------------------------------------
LEMMA TypeInit == Init => TypeInv
  <1> SUFFICES ASSUME Init PROVE TypeInv
    OBVIOUS
  <1>1. Len(<< >>) = 0 /\ 0 \in 0..0 /\ \A S : << >> \in Seq(S)
    OBVIOUS
  <1>2. TypeOK
    BY <1>1 DEF Init, TypeOK
  <1>3. WorkerInv
    BY <1>1 DEF Init, WorkerInv
  <1>4. QED BY <1>2, <1>3 DEF TypeInv

LEMMA WriteType ==
  ASSUME TypeInv, NEW x \in PartType, Write(x), UNCHANGED connected
  PROVE  /\ outbox' \in Seq(PartType) /\ failure' \in BOOLEAN
         /\ (connected' \/ outbox' = << >>)
         /\ failure' => ~connected'
  <1>1. outbox \in Seq(PartType) /\ failure \in BOOLEAN /\ (connected \/ outbox = << >>)
        /\ (failure => ~connected)
    BY DEF TypeInv, TypeOK, WorkerInv, PartType
  <1>2. CASE connected
    <2>1. outbox' = Append(outbox, x) /\ failure' = failure /\ connected' = connected
      BY <1>2 DEF Write
    <2>2. Append(outbox, x) \in Seq(PartType)
      BY <1>1
    <2>3. QED BY <1>1, <1>2, <2>1, <2>2
  <1>3. CASE ~connected
    <2>1. outbox' = outbox /\ failure' = TRUE /\ connected' = connected
      BY <1>3 DEF Write
    <2>2. QED BY <1>1, <1>3, <2>1
  <1>4. QED BY <1>2, <1>3

LEMMA PartIsTyped ==
  ASSUME NEW i \in 0..MaxRequests, NEW p \in Parts
  PROVE  Part(i, p) \in PartType
  BY DEF Part, PartType

(* The worker takes a request. *)
LEMMA TakeNext ==
  ASSUME TypeInv, NEW kinds, Take(kinds)
  PROVE  /\ worker = "idle" /\ handled' = handled + 1 /\ requests[handled + 1] \in kinds
         /\ handled \in Nat /\ handled + 1 \in 1..Len(requests) /\ handled + 1 \in 1..MaxRequests
         /\ This = handled + 1 /\ Len(requests) \in Nat
  <1>1. handled \in 0..Len(requests) /\ Len(requests) \in Nat /\ Len(requests) <= MaxRequests
    BY LenProperties DEF TypeInv, TypeOK, WorkerInv
  <1>2. QED BY <1>1 DEF Take, This

LEMMA HandleType == TypeInv /\ Handle => TypeInv'
  <1> SUFFICES ASSUME TypeInv, Handle PROVE TypeInv'
    OBVIOUS
  <1> DEFINE n == handled + 1
  <1>0. PICK kinds : Take(kinds)
    BY DEF Handle, Refuse, Fault, AnswerQuery, RelayCommand, OpenFile
  <1>1. /\ UNCHANGED <<connected, requests, socket, pipelined>>
        /\ worker = "idle" /\ handled' = n /\ This = n
        /\ handled \in Nat /\ n \in 1..Len(requests) /\ n \in 1..MaxRequests /\ Len(requests) \in Nat
    BY <1>0, TakeNext DEF Handle, Refuse, Fault, AnswerQuery, RelayCommand, OpenFile
  <1>2. /\ outbox' \in Seq(PartType) /\ failure' \in BOOLEAN
        /\ (connected' \/ outbox' = << >>)
        /\ failure' => ~connected'
    <2>1. CASE UNCHANGED <<outbox, failure>>
      BY <1>1, <2>1 DEF TypeInv, TypeOK, WorkerInv, PartType
    <2>2. CASE \E p \in Parts : Write(Part(n, p))
      BY <1>1, <2>2, PartIsTyped, WriteType
    <2>3. QED
      BY <1>1, <2>1, <2>2 DEF Handle, Refuse, Fault, AnswerQuery, RelayCommand, OpenFile, Parts
  <1>3. /\ worker' \in {"idle", "listen", "region", "caught"}
        /\ worker' = "region" => requests[n] \in Pages
        /\ worker' = "caught" => requests[n] = "malformed"
        /\ worker' = "listen" => requests[n] \in Pages \cup Refusals
    BY <1>1, TakeNext DEF Handle, Refuse, Fault, AnswerQuery, RelayCommand, OpenFile, Pages, Refusals, LastKinds
  <1>4. /\ awaiting' \subseteq awaiting \cup {n} /\ (n \in awaiting' => n \in awaiting \/ requests[n] = "command")
        /\ files' \subseteq files \cup {n} /\ (n \in files' => n \in files \/ requests[n] \in Pages)
    BY <1>1, TakeNext DEF Handle, Refuse, Fault, AnswerQuery, RelayCommand, OpenFile, Pages
  <1>5. awaiting \subseteq 1..handled /\ files \subseteq 1..handled
    BY DEF TypeInv, TypeOK
  <1>6. awaiting' \subseteq 1..n /\ files' \subseteq 1..n
    BY <1>1, <1>4, <1>5
  <1> HIDE DEF n
  <1>7. TypeOK'
    BY <1>1, <1>2, <1>3, <1>6 DEF TypeInv, TypeOK, PartType
  <1>8. WorkerInv'
    BY <1>1, <1>2, <1>3, <1>4 DEF TypeInv, WorkerInv
  <1>9. QED BY <1>7, <1>8 DEF TypeInv

LEMMA CloseType ==
  ASSUME NEW rest, CloseWith(rest), failure \in BOOLEAN
  PROVE  /\ outbox' \in Seq(PartType) /\ (connected' \/ outbox' = << >>)
         /\ connected' \in BOOLEAN /\ failure' \in BOOLEAN /\ (failure' => ~connected')
  <1>1. connected' = FALSE /\ outbox' = << >> /\ failure' = (failure \/ rest # << >>)
    BY DEF CloseWith
  <1>2. failure' \in BOOLEAN
    BY <1>1
  <1>3. << >> \in Seq(PartType)
    OBVIOUS
  <1>4. connected' \in BOOLEAN /\ ~connected'
    BY <1>1
  <1>5. QED BY <1>1, <1>2, <1>3, <1>4

LEMMA TypeStep == TypeInv /\ [Next]_vars => TypeInv'
  <1> SUFFICES ASSUME TypeInv, [Next]_vars PROVE TypeInv'
    OBVIOUS
  <1>0. /\ connected \in BOOLEAN /\ failure \in BOOLEAN /\ pipelined \in BOOLEAN
        /\ requests \in Seq(RequestKinds) /\ handled \in 0..Len(requests)
        /\ worker \in {"idle", "listen", "region", "caught"}
        /\ awaiting \subseteq 1..handled /\ files \subseteq 1..handled
        /\ outbox \in Seq(PartType) /\ socket \in Seq(PartType)
        /\ connected \/ outbox = << >>
        /\ Len(requests) \in Nat /\ Len(requests) <= MaxRequests /\ handled \in 0..MaxRequests
    BY LenProperties DEF TypeInv, TypeOK, WorkerInv, PartType
  <1>1. ASSUME connected' \in BOOLEAN, failure' \in BOOLEAN, UNCHANGED <<pipelined, requests, handled>>,
               worker' \in {worker, "idle"}, awaiting' \subseteq awaiting, files' \subseteq files,
               outbox' \in Seq(PartType), socket' \in Seq(PartType),
               connected' \/ outbox' = << >>, failure' => ~connected'
        PROVE  TypeInv'
    <2>1. TypeOK'
      BY <1>0, <1>1 DEF TypeOK, PartType
    <2>2. WorkerInv'
      BY <1>0, <1>1 DEF TypeInv, WorkerInv
    <2>3. QED BY <2>1, <2>2 DEF TypeInv
  <1>2. ASSUME NEW kind \in Kinds, Request(kind) PROVE TypeInv'
    <2>1. /\ requests' = Append(requests, kind) /\ kind \in RequestKinds
          /\ Len(requests) < MaxRequests
          /\ UNCHANGED <<connected, handled, worker, awaiting, files, outbox, socket, failure>>
      BY <1>2 DEF Request
    <2>2. /\ requests' \in Seq(RequestKinds) /\ Len(requests') = Len(requests) + 1
          /\ \A i \in 1..Len(requests) : requests'[i] = requests[i]
      BY <1>0, <2>1, AppendProperties
    <2>3. pipelined' \in BOOLEAN
      BY <1>0, <1>2 DEF Request
    <2>4. TypeOK'
      BY <1>0, <2>1, <2>2, <2>3 DEF TypeOK, PartType
    <2>5. WorkerInv'
      BY <1>0, <2>1, <2>2 DEF TypeInv, WorkerInv
    <2>6. QED BY <2>4, <2>5 DEF TypeInv
  <1>3. CASE Handle
    BY <1>3, HandleType
  <1>4. CASE WriteRegion
    <2>1. /\ Part(handled, "region") \in PartType /\ Write(Part(handled, "region"))
          /\ UNCHANGED <<connected, requests, handled, awaiting, files, socket, pipelined>>
          /\ worker = "region" /\ worker' = "listen"
      BY <1>0, <1>4, PartIsTyped DEF WriteRegion, Parts
    <2>2. /\ outbox' \in Seq(PartType) /\ failure' \in BOOLEAN
          /\ (connected' \/ outbox' = << >>)
          /\ failure' => ~connected'
      BY <2>1, WriteType
    <2>3. TypeOK'
      BY <1>0, <2>1, <2>2 DEF TypeOK, PartType
    <2>4. WorkerInv'
      BY <2>1, <2>2 DEF TypeInv, WorkerInv
    <2>5. QED BY <2>3, <2>4 DEF TypeInv
  <1>5. CASE AddListeners
    <2>1. /\ UNCHANGED <<requests, handled, awaiting, socket, pipelined>>
          /\ worker' = "idle" /\ files' \subseteq files
      BY <1>5 DEF AddListeners
    <2>2. /\ outbox' \in Seq(PartType) /\ (connected' \/ outbox' = << >>)
          /\ connected' \in BOOLEAN /\ failure' \in BOOLEAN /\ (failure' => ~connected')
      <3>1. CASE UNCHANGED <<connected, outbox, failure>>
        BY <1>0, <3>1 DEF TypeInv, WorkerInv
      <3>2. CASE CloseWith(outbox)
        BY <1>0, <3>2, CloseType
      <3>3. ASSUME NEW D, outbox' = [k \in DOMAIN outbox |->
                                      IF k \in D THEN [outbox[k] EXCEPT !.listeners = ListenersAdded]
                                                 ELSE outbox[k]],
                   UNCHANGED <<connected, failure>>
            PROVE  /\ outbox' \in Seq(PartType) /\ (connected' \/ outbox' = << >>)
                   /\ connected' \in BOOLEAN /\ failure' \in BOOLEAN /\ (failure' => ~connected')
        <4>1. ListenersAdded \subseteq Listeners
          BY DEF ListenersAdded, Listeners
        <4>2. \A y \in PartType : [y EXCEPT !.listeners = ListenersAdded] \in PartType
          BY <4>1 DEF PartType
        <4>3. DOMAIN outbox = 1..Len(outbox) /\ Len(outbox) \in Nat /\ \A k \in 1..Len(outbox) : outbox[k] \in PartType
          BY <1>0, LenProperties, ElementOfSeq
        <4>4. outbox' \in [1..Len(outbox) -> PartType]
          BY <3>3, <4>2, <4>3
        <4>5. outbox' \in Seq(PartType) /\ DOMAIN outbox' = DOMAIN outbox
          BY <4>3, <4>4
        <4>6. connected' \/ outbox' = << >>
          BY <1>0, <3>3, <4>5
        <4>7. QED BY <1>0, <3>3, <4>5, <4>6 DEF TypeInv, WorkerInv
      <3>4. QED BY <1>5, <3>1, <3>2, <3>3 DEF AddListeners
    <2>3. QED BY <1>0, <1>1, <2>1, <2>2
  <1>6. CASE HandlerFaultCaught
    <2>1. CASE connected
      <3>1. /\ Part(handled, "error") \in PartType /\ Write(Part(handled, "error"))
            /\ UNCHANGED <<connected, requests, handled, awaiting, files, socket, pipelined>>
            /\ worker = "caught" /\ worker' = "listen"
        BY <1>0, <1>6, <2>1, PartIsTyped DEF HandlerFaultCaught, MayAnswer, Parts
      <3>2. /\ outbox' \in Seq(PartType) /\ failure' \in BOOLEAN
            /\ (connected' \/ outbox' = << >>)
            /\ failure' => ~connected'
        BY <3>1, WriteType
      <3>3. TypeOK'
        BY <1>0, <3>1, <3>2 DEF TypeOK, PartType
      <3>4. WorkerInv'
        BY <3>1, <3>2 DEF TypeInv, WorkerInv, Refusals, LastKinds
      <3>5. QED BY <3>3, <3>4 DEF TypeInv
    <2>2. CASE ~connected
      <3>1. UNCHANGED <<connected, requests, handled, awaiting, files, socket, pipelined, outbox, failure>>
            /\ worker' = "idle"
        BY <1>6, <2>2 DEF HandlerFaultCaught, MayAnswer
      <3>2. QED BY <1>0, <1>1, <3>1 DEF TypeInv, WorkerInv
    <2>3. QED BY <2>1, <2>2
  <1>7. CASE WriteFailureCaught
    <2>1. ~connected
      BY <1>7 DEF WriteFailureCaught, TypeInv, WorkerInv
    <2>2. /\ UNCHANGED <<connected, requests, handled, worker, awaiting, files, socket, pipelined, outbox>>
          /\ failure' = FALSE
      BY <1>7, <2>1 DEF WriteFailureCaught, MayAnswer
    <2>3. QED BY <1>0, <1>1, <2>2
  <1>8. ASSUME NEW i \in 1..MaxRequests, CommandComplete(i) PROVE TypeInv'
    <2>1. /\ Part(i, "json") \in PartType /\ Write(Part(i, "json"))
          /\ UNCHANGED <<connected, requests, handled, worker, files, socket, pipelined>>
          /\ awaiting' \subseteq awaiting
      BY <1>8, PartIsTyped DEF CommandComplete, Parts
    <2>2. QED BY <1>0, <1>1, <2>1, WriteType
  <1>9. CASE Flush
    <2>1. /\ Head(outbox) \in PartType /\ Tail(outbox) \in Seq(PartType)
      BY <1>0, <1>9, HeadTailProperties DEF Flush
    <2>2. /\ socket' = Append(socket, Head(outbox))
          /\ UNCHANGED <<requests, handled, worker, awaiting, pipelined>>
          /\ files' \subseteq files /\ connected
      BY <1>9 DEF Flush
    <2>3. socket' \in Seq(PartType)
      BY <1>0, <2>1, <2>2, AppendProperties
    <2>4. /\ outbox' \in Seq(PartType) /\ (connected' \/ outbox' = << >>)
          /\ connected' \in BOOLEAN /\ failure' \in BOOLEAN /\ (failure' => ~connected')
      <3>1. CASE "close" \in Head(outbox).listeners
        <4>1. CloseWith(Tail(outbox))
          BY <1>9, <3>1 DEF Flush
        <4>2. QED BY <1>0, <4>1, CloseType
      <3>2. CASE "close" \notin Head(outbox).listeners
        <4>1. outbox' = Tail(outbox) /\ UNCHANGED <<connected, failure>>
          BY <1>9, <3>2 DEF Flush
        <4>2. QED BY <1>0, <2>1, <2>2, <4>1 DEF TypeInv, WorkerInv
      <3>3. QED BY <3>1, <3>2
    <2>5. QED BY <1>0, <1>1, <2>2, <2>3, <2>4
  <1>10. CASE Disconnect
    <2>1. /\ CloseWith(outbox) /\ files' \subseteq files
          /\ UNCHANGED <<requests, handled, worker, awaiting, socket, pipelined>>
      BY <1>10 DEF Disconnect
    <2>2. /\ outbox' \in Seq(PartType) /\ (connected' \/ outbox' = << >>)
          /\ connected' \in BOOLEAN /\ failure' \in BOOLEAN /\ (failure' => ~connected')
      BY <1>0, <2>1, CloseType
    <2>3. QED BY <1>0, <1>1, <2>1, <2>2
  <1>11. CASE UNCHANGED vars
    BY <1>0, <1>1, <1>11 DEF vars, TypeInv, WorkerInv
  <1>12. QED
    BY <1>2, <1>3, <1>4, <1>5, <1>6, <1>7, <1>8, <1>9, <1>10, <1>11 DEF Next

-----------------------------------------------------------------------------
(* The four things a step does to the line. *)

(* No part is added: the listeners change, or the end of the line is lost with
   the connection. *)
Kept ==
  /\ Len(Line') <= Len(Line) /\ (connected' => Len(Line') = Len(Line))
  /\ \A k \in 1..Len(Line') : Line'[k].of = Line[k].of /\ Line'[k].part = Line[k].part

Rests ==
  /\ Kept /\ handled' = handled
  /\ awaiting' \subseteq awaiting /\ worker' \in {worker, "idle", "listen"}
  /\ connected' => awaiting' = awaiting /\ (worker' = worker \/ worker = "listen")

Takes ==
  /\ Kept /\ handled' = handled + 1 /\ worker = "idle"
  /\ awaiting' \subseteq awaiting \cup {handled'} /\ awaiting \subseteq awaiting'
  /\ connected' => handled' \in awaiting' \/ worker' = "caught"

Matches(kind, p) ==
  /\ p = "json" => kind \in {"query", "command"}
  /\ p = "error" => kind \in Refusals
  /\ p \in {"header", "region"} => kind \in Pages

Starts(p) ==
  /\ Line' = Append(Line, Part(handled', p)) /\ handled' = handled + 1 /\ worker = "idle"
  /\ awaiting' = awaiting /\ Matches(requests'[handled'], p)
  /\ worker' = "region" <=> p = "header"
  /\ worker' # "caught"

Adds(i, p) ==
  /\ Line' = Append(Line, Part(i, p)) /\ handled' = handled
  /\ \/ /\ i = handled /\ awaiting' = awaiting /\ worker' = "listen"
        /\ (worker = "caught" /\ p = "error") \/ (worker = "region" /\ p = "region")
     \/ i \in awaiting /\ p = "json" /\ awaiting' = awaiting \ {i} /\ worker' = worker

LineMoves ==
  /\ connected' => connected
  /\ Len(requests) <= Len(requests') /\ \A i \in 1..Len(requests) : requests'[i] = requests[i]
  /\ \/ Rests \/ Takes \/ \E p \in Parts : Starts(p)
     \/ \E i \in 1..handled, p \in Parts : Adds(i, p)

LEMMA WriteLine ==
  ASSUME TypeInv, NEW x \in PartType, Write(x), UNCHANGED <<socket, connected>>
  PROVE  IF connected THEN Line' = Append(Line, x) ELSE Line' = Line
  <1>1. CASE connected
    <2>1. outbox' = Append(outbox, x)
      BY <1>1 DEF Write
    <2>2. socket \o Append(outbox, x) = Append(socket \o outbox, x)
      BY AppendToSecond DEF TypeInv, TypeOK, PartType
    <2>3. QED BY <1>1, <2>1, <2>2 DEF Line
  <1>2. CASE ~connected
    BY <1>2 DEF Write, Line
  <1>3. QED BY <1>1, <1>2

LEMMA SameLine ==
  ASSUME TypeOK, Line' = Line PROVE Kept
  BY LineParts DEF Kept

(* The end of the line is lost. *)
LEMMA LineCut ==
  ASSUME ~connected', NEW n \in Nat, n <= Len(Line), Len(Line') = n,
         \A k \in 1..n : Line'[k] = Line[k]
  PROVE  Kept
  BY DEF Kept

LEMMA HandleMoves == TypeInv /\ Handle => LineMoves
  <1> SUFFICES ASSUME TypeInv, Handle PROVE LineMoves
    OBVIOUS
  <1>0. PICK n : n = handled + 1
    OBVIOUS
  <1>1. /\ UNCHANGED <<connected, requests, socket>> /\ TypeOK
        /\ worker = "idle" /\ handled' = n /\ This = n /\ n \in 0..MaxRequests
        /\ \E kinds : Take(kinds)
    BY <1>0, TakeNext DEF Handle, Refuse, Fault, AnswerQuery, RelayCommand, OpenFile, TypeInv
  <1>2. Len(requests) \in Nat
    BY <1>1, TakeNext
  <1>3. ASSUME Takes \/ \E p \in Parts : Starts(p) PROVE LineMoves
    BY <1>1, <1>2, <1>3 DEF LineMoves
  <1>4. CASE Fault \/ RelayCommand
    <2>1. Line' = Line
      BY <1>4 DEF Fault, RelayCommand, Line
    <2>2. /\ awaiting' \subseteq awaiting \cup {n} /\ awaiting \subseteq awaiting'
          /\ n \in awaiting' \/ worker' = "caught"
      BY <1>1, <1>4 DEF Fault, RelayCommand
    <2>3. QED BY <1>0, <1>1, <1>3, <2>1, <2>2, SameLine DEF Takes
  <1>5. ASSUME NEW p \in Parts, Write(Part(n, p)), awaiting' = awaiting, Matches(requests[n], p),
               worker' = "region" <=> p = "header", worker' # "caught"
        PROVE  LineMoves
    <2>1. IF connected THEN Line' = Append(Line, Part(n, p)) ELSE Line' = Line
      BY <1>1, <1>5, PartIsTyped, WriteLine
    <2>2. CASE connected
      BY <1>0, <1>1, <1>3, <1>5, <2>1, <2>2 DEF Starts
    <2>3. CASE ~connected
      <3>1. Takes
        BY <1>0, <1>1, <1>5, <2>1, <2>3, SameLine DEF Takes
      <3>2. QED BY <1>3, <3>1
    <2>4. QED BY <2>2, <2>3
  <1>6. CASE Refuse
    <2>1. Write(Part(n, "error")) /\ awaiting' = awaiting /\ worker' = "listen"
          /\ requests[n] \in {"missing", "folder", "incomplete", "unknown"}
      BY <1>0, <1>1, <1>6 DEF Refuse, Take
    <2>2. QED BY <1>5, <2>1 DEF Parts, Matches, Refusals, LastKinds
  <1>7. CASE AnswerQuery
    <2>1. /\ Write(Part(n, "json")) /\ awaiting' = awaiting /\ worker' = worker
          /\ requests[n] = "query"
      BY <1>0, <1>1, <1>7 DEF AnswerQuery, Take
    <2>2. QED BY <1>1, <1>5, <2>1 DEF Parts, Matches
  <1>8. CASE OpenFile
    <2>1. /\ Write(Part(n, "header")) /\ awaiting' = awaiting /\ worker' = "region"
          /\ requests[n] \in Pages
      BY <1>0, <1>1, <1>8 DEF OpenFile, Take, Pages
    <2>2. QED BY <1>5, <2>1 DEF Parts, Matches
  <1>9. QED BY <1>4, <1>6, <1>7, <1>8 DEF Handle

LEMMA LineStep == TypeInv /\ [Next]_vars => LineMoves
  <1> SUFFICES ASSUME TypeInv, [Next]_vars PROVE LineMoves
    OBVIOUS
  <1>0. /\ requests \in Seq(RequestKinds) /\ Len(requests) \in Nat /\ TypeOK
        /\ handled \in 0..MaxRequests
    BY LenProperties DEF TypeInv, TypeOK, WorkerInv
  <1>1. ASSUME Rests, connected' => connected, UNCHANGED requests PROVE LineMoves
    BY <1>0, <1>1 DEF LineMoves
  <1>2. ASSUME NEW kind \in Kinds, Request(kind) PROVE LineMoves
    <2>1. /\ Line' = Line /\ UNCHANGED <<connected, handled, awaiting, worker>>
          /\ requests' = Append(requests, kind) /\ kind \in RequestKinds
      BY <1>2 DEF Request, Line
    <2>2. Len(requests') = Len(requests) + 1 /\ \A i \in 1..Len(requests) : requests'[i] = requests[i]
      BY <1>0, <2>1, AppendProperties
    <2>3. Rests
      BY <1>0, <2>1, SameLine DEF Rests
    <2>4. QED BY <1>0, <2>1, <2>2, <2>3 DEF LineMoves
  <1>3. CASE Handle
    BY <1>3, HandleMoves
  <1>4. ASSUME NEW i \in 1..handled, NEW p \in Parts, Write(Part(i, p)),
               UNCHANGED <<connected, requests, handled, socket>>,
               \/ /\ i = handled /\ awaiting' = awaiting /\ worker' = "listen"
                  /\ (worker = "caught" /\ p = "error") \/ (worker = "region" /\ p = "region")
               \/ i \in awaiting /\ p = "json" /\ awaiting' = awaiting \ {i} /\ worker' = worker
        PROVE  LineMoves
    <2>1. IF connected THEN Line' = Append(Line, Part(i, p)) ELSE Line' = Line
      <3>1. i \in 0..MaxRequests
        BY <1>0
      <3>2. QED BY <1>4, <3>1, PartIsTyped, WriteLine
    <2>2. CASE connected
      <3>1. Adds(i, p)
        BY <1>4, <2>1, <2>2 DEF Adds
      <3>2. QED BY <1>0, <1>4, <3>1 DEF LineMoves
    <2>3. CASE ~connected
      <3>1. Rests
        BY <1>0, <1>4, <2>1, <2>3, SameLine DEF Rests
      <3>2. QED BY <1>1, <1>4, <3>1
    <2>4. QED BY <2>2, <2>3
  <1>5. CASE WriteRegion
    <2>1. handled \in 1..handled
      BY <1>0, <1>5 DEF WriteRegion, TypeInv, WorkerInv
    <2>2. QED BY <1>4, <1>5, <2>1 DEF WriteRegion, Parts
  <1>6. CASE HandlerFaultCaught
    <2>1. handled \in 1..handled
      BY <1>0, <1>6 DEF HandlerFaultCaught, TypeInv, WorkerInv
    <2>2. CASE connected
      BY <1>4, <1>6, <2>1, <2>2 DEF HandlerFaultCaught, MayAnswer, Parts
    <2>3. CASE ~connected
      <3>1. /\ Line' = Line /\ UNCHANGED <<connected, requests, handled, awaiting>>
            /\ worker' = "idle"
        BY <1>6, <2>3 DEF HandlerFaultCaught, MayAnswer, Line
      <3>2. Rests
        BY <1>0, <2>3, <3>1, SameLine DEF Rests
      <3>3. QED BY <1>1, <3>1, <3>2
    <2>4. QED BY <2>2, <2>3
  <1>7. ASSUME NEW i \in 1..MaxRequests, CommandComplete(i) PROVE LineMoves
    <2>1. i \in 1..handled
      BY <1>7 DEF CommandComplete, TypeInv, TypeOK
    <2>2. QED BY <1>4, <1>7, <2>1 DEF CommandComplete, Parts
  <1>8. CASE WriteFailureCaught
    <2>1. ~connected
      BY <1>8 DEF WriteFailureCaught, TypeInv, WorkerInv
    <2>2. /\ Line' = Line
          /\ UNCHANGED <<connected, requests, handled, worker, awaiting>>
      BY <1>8, <2>1 DEF WriteFailureCaught, MayAnswer, Line
    <2>3. QED BY <1>0, <1>1, <2>2, SameLine DEF Rests
  <1>9. ASSUME ~connected', socket' = socket, outbox' = << >>,
               UNCHANGED <<requests, handled, awaiting>>, worker' \in {worker, "idle"}
        PROVE  LineMoves
    <2>1. Line' = socket
      BY <1>0, <1>9 DEF Line, TypeOK, PartType
    <2>2. /\ Len(socket) \in Nat /\ Len(socket) <= Len(Line)
          /\ \A k \in 1..Len(socket) : Line[k] = socket[k]
      BY <1>0, LineParts
    <2>3. Kept
      BY <1>9, <2>1, <2>2, LineCut
    <2>4. QED BY <1>1, <1>9, <2>3 DEF Rests
  <1>10. CASE Disconnect
    BY <1>9, <1>10 DEF Disconnect, CloseWith
  <1>11. CASE AddListeners
    <2>1. /\ UNCHANGED <<requests, handled, awaiting, socket>> /\ worker = "listen" /\ worker' = "idle"
      BY <1>11 DEF AddListeners
    <2>2. CASE CloseWith(outbox)
      BY <1>9, <2>1, <2>2 DEF CloseWith
    <2>3. CASE UNCHANGED <<connected, outbox>>
      <3>1. Line' = Line
        BY <2>1, <2>3 DEF Line
      <3>2. QED BY <1>0, <1>1, <2>1, <2>3, <3>1, SameLine DEF Rests
    <2>4. ASSUME NEW D, outbox' = [k \in DOMAIN outbox |->
                                    IF k \in D THEN [outbox[k] EXCEPT !.listeners = ListenersAdded]
                                               ELSE outbox[k]],
                 UNCHANGED connected
          PROVE  LineMoves
      <3>1. /\ DOMAIN outbox' = DOMAIN outbox
            /\ \A k \in DOMAIN outbox : outbox'[k].of = outbox[k].of /\ outbox'[k].part = outbox[k].part
        BY <1>0, <2>4, LineParts, ElementOfSeq DEF PartType
      <3>2. outbox' \in Seq(PartType)
        BY TypeStep DEF TypeInv, TypeOK, PartType
      <3>3. PICK s, t, u : /\ s \in Seq(PartType) /\ t \in Seq(PartType) /\ u \in Seq(PartType)
                           /\ s = socket /\ t = outbox' /\ u = Line'
        BY <1>0, <2>1, <3>2, LineParts, ConcatProperties DEF Line
      <3>4. u = s \o t
        BY <2>1, <3>3 DEF Line
      <3>5. Len(t) = Len(outbox) /\ Len(u) = Len(Line)
        <4>1. \A a, b \in Nat : 1..a = 1..b => a = b
          OBVIOUS
        <4>2. /\ Len(t) \in Nat /\ Len(outbox) \in Nat
              /\ DOMAIN t = 1..Len(t) /\ DOMAIN outbox = 1..Len(outbox)
              /\ Len(u) = Len(s) + Len(t) /\ Len(Line) = Len(socket) + Len(outbox)
          <5>1. Len(t) \in Nat /\ DOMAIN t = 1..Len(t) /\ Len(u) = Len(s) + Len(t)
            BY <3>3, <3>4, Joined
          <5>2. QED BY <1>0, <5>1, LineParts
        <4>3. Len(t) = Len(outbox)
          BY <3>1, <3>3, <4>1, <4>2
        <4>4. QED BY <3>3, <4>2, <4>3
      <3>6. \A k \in 1..Len(Line) : u[k].of = Line[k].of /\ u[k].part = Line[k].part
        <4> TAKE k \in 1..Len(Line)
        <4>1. CASE k \in DOMAIN socket
          <5>1. u[k] = s[k] /\ Line[k] = socket[k]
            BY <1>0, <3>3, <3>4, <4>1, LineParts, Joined
          <5>2. QED BY <3>3, <5>1
        <4>2. CASE k \notin DOMAIN socket
          <5>1. PICK j \in DOMAIN outbox : j = k - Len(socket) /\ Line[k] = outbox[j]
            BY <1>0, <4>2, LineParts
          <5>2. u[k] = t[j]
            BY <1>0, <3>3, <3>4, <3>5, <4>2, <5>1, LineParts, Joined
          <5>3. QED BY <3>1, <3>3, <5>1, <5>2
        <4>3. QED BY <4>1, <4>2
      <3>7. Rests
        BY <1>0, <2>1, <2>4, <3>3, <3>5, <3>6, LineParts DEF Rests, Kept
      <3>8. QED BY <1>1, <2>1, <2>4, <3>7
    <2>5. QED BY <1>11, <2>2, <2>3, <2>4 DEF AddListeners
  <1>12. CASE Flush
    <2>1. /\ socket' = Append(socket, Head(outbox)) /\ connected /\ outbox # << >>
          /\ UNCHANGED <<requests, handled, worker, awaiting>>
      BY <1>12 DEF Flush
    <2>2. /\ outbox = <<Head(outbox)>> \o Tail(outbox) /\ Len(outbox) > 0
          /\ Head(outbox) = outbox[1] /\ Head(outbox) \in PartType
          /\ Tail(outbox) \in Seq(PartType)
      BY <1>0, <2>1, LineParts, HeadTailProperties
    <2>3. CASE "close" \in Head(outbox).listeners
      <3>1. connected' = FALSE /\ outbox' = << >>
        BY <1>12, <2>3 DEF Flush, CloseWith
      <3>2. Line' = Append(socket, Head(outbox))
        BY <1>0, <2>1, <2>2, <3>1, LineParts DEF Line
      <3>3. /\ Len(Line') = Len(socket) + 1 /\ Line'[Len(socket) + 1] = outbox[1]
            /\ \A k \in 1..Len(socket) : Line'[k] = socket[k]
        BY <1>0, <2>2, <3>2, LineParts, AppendProperties
      <3>4. Kept
        <4>1. /\ Len(socket) + 1 \in Nat /\ Len(socket) + 1 <= Len(Line)
              /\ Line[Len(socket) + 1] = outbox[1]
              /\ \A k \in 1..Len(socket) : Line[k] = socket[k]
          <5>1. Len(outbox) > 0
            BY <2>2
          <5>2. 1 \in DOMAIN outbox
            BY <1>0, <5>1, LineParts
          <5>3. Line[Len(socket) + 1] = outbox[1]
            BY <1>0, <5>2, LineParts
          <5>4. \A k \in 1..Len(socket) : Line[k] = socket[k]
            BY <1>0, LineParts
          <5>5. /\ Len(socket) \in Nat /\ Len(outbox) \in Nat
                /\ Len(Line) = Len(socket) + Len(outbox)
            BY <1>0, LineParts
          <5>6. QED BY <5>1, <5>3, <5>4, <5>5
        <4>2. \A k \in 1..Len(socket) + 1 : Line'[k] = Line[k]
          BY <1>0, <3>3, <4>1, LineParts
        <4>3. QED BY <3>1, <3>3, <4>1, <4>2, LineCut
      <3>5. QED BY <1>1, <2>1, <3>1, <3>4 DEF Rests
    <2>4. CASE "close" \notin Head(outbox).listeners
      <3>1. connected' = connected /\ outbox' = Tail(outbox)
        BY <1>12, <2>4 DEF Flush
      <3>2. Line' = Line
        BY <1>0, <2>1, <3>1, LineParts, MoveHead DEF Line
      <3>3. QED BY <1>0, <1>1, <2>1, <3>1, <3>2, SameLine DEF Rests
    <2>5. QED BY <2>3, <2>4
  <1>13. CASE UNCHANGED vars
    <2>1. Line' = Line /\ UNCHANGED <<connected, requests, handled, awaiting, worker>>
      BY <1>13 DEF vars, Line
    <2>2. QED BY <1>0, <1>1, <2>1, SameLine DEF Rests
  <1>14. QED
    BY <1>2, <1>3, <1>5, <1>6, <1>7, <1>8, <1>10, <1>11, <1>12, <1>13 DEF Next

(* The same, part by part. *)
Carried ==
  /\ \A k \in DOMAIN Line' :
       k \in DOMAIN Line /\ Line'[k].of = Line[k].of /\ Line'[k].part = Line[k].part
  /\ connected' => DOMAIN Line' = DOMAIN Line

Grown(n, i, p) ==
  /\ DOMAIN Line' = DOMAIN Line \cup {n}
  /\ \A k \in DOMAIN Line :
       k < n /\ Line'[k].of = Line[k].of /\ Line'[k].part = Line[k].part
  /\ Line'[n].of = i /\ Line'[n].part = p

LineGrows(n, i, p) ==
  Grown(n, i, p) /\ ((Starts(p) /\ i = handled') \/ Adds(i, p))

LEMMA LineNext ==
  ASSUME TypeInv, [Next]_vars
  PROVE  /\ \/ (Rests \/ Takes) /\ Carried
            \/ \E n \in Nat \ {0}, i \in 1..handled', p \in Parts : LineGrows(n, i, p)
         /\ handled \in Nat /\ handled' \in {handled, handled + 1} /\ (connected' => connected)
         /\ \A i \in 1..handled : requests'[i] = requests[i]
  <1>0. /\ TypeOK /\ Len(Line) \in Nat /\ DOMAIN Line = 1..Len(Line) /\ Line \in Seq(PartType)
        /\ handled \in Nat /\ Len(requests) \in Nat /\ handled <= Len(requests)
        /\ handled \in 0..MaxRequests
    BY LineParts, LenProperties DEF TypeInv, TypeOK, WorkerInv
  <1>1. LineMoves
    BY LineStep
  <1>2. Line' \in Seq(PartType) /\ handled' \in 0..MaxRequests
    <2>1. TypeInv'
      BY TypeStep
    <2>2. socket' \in Seq(PartType) /\ outbox' \in Seq(PartType)
      BY <2>1 DEF TypeInv, TypeOK, PartType
    <2>3. handled' \in Nat /\ Len(requests') \in Nat /\ handled' <= Len(requests') /\ Len(requests') <= MaxRequests
      BY <2>1, LenProperties DEF TypeInv, TypeOK, WorkerInv
    <2>4. QED BY <2>2, <2>3, ConcatProperties DEF Line
  <1>3. ASSUME Kept PROVE Carried
    <2>1. Len(Line') \in Nat /\ DOMAIN Line' = 1..Len(Line')
      BY <1>2, LenProperties
    <2>2. connected' => DOMAIN Line' = DOMAIN Line
      BY <1>0, <1>3, <2>1 DEF Kept
    <2>3. /\ Len(Line') <= Len(Line)
          /\ \A k \in 1..Len(Line') : Line'[k].of = Line[k].of /\ Line'[k].part = Line[k].part
      BY <1>3 DEF Kept
    <2>4. \A k \in DOMAIN Line' : k \in DOMAIN Line
      BY <1>0, <2>1, <2>3
    <2>5. QED BY <2>1, <2>2, <2>3, <2>4 DEF Carried
  <1>4. ASSUME NEW i \in 1..handled', NEW p \in Parts, Line' = Append(Line, Part(i, p))
        PROVE  Grown(Len(Line) + 1, i, p)
    <2>1. Part(i, p) \in PartType /\ Part(i, p).of = i /\ Part(i, p).part = p
      <3>1. i \in 0..MaxRequests
        BY <1>2
      <3>2. QED BY <3>1, PartIsTyped DEF Part
    <2>2. /\ Len(Line') = Len(Line) + 1 /\ Line'[Len(Line) + 1] = Part(i, p)
          /\ \A k \in 1..Len(Line) : Line'[k] = Line[k]
      BY <1>0, <1>4, <2>1, AppendProperties
    <2>3. DOMAIN Line' = 1..(Len(Line) + 1)
      BY <1>2, <2>2, LenProperties
    <2>4. \A n \in Nat : 1..(n + 1) = 1..n \cup {n + 1} /\ \A k \in 1..n : k < n + 1
      OBVIOUS
    <2>5. QED BY <1>0, <2>1, <2>2, <2>3, <2>4 DEF Grown
  <1>5. handled' \in {handled, handled + 1} /\ (connected' => connected)
    BY <1>1 DEF LineMoves, Rests, Takes, Starts, Adds
  <1>6. \A i \in 1..handled : requests'[i] = requests[i]
    BY <1>0, <1>1 DEF LineMoves
  <1>7. CASE Rests \/ Takes
    BY <1>0, <1>3, <1>5, <1>6, <1>7 DEF Rests, Takes
  <1>8. ASSUME NEW p \in Parts, Starts(p)
        PROVE  \E n \in Nat \ {0}, i \in 1..handled', q \in Parts : LineGrows(n, i, q)
    <2>1. handled' \in 1..handled'
      BY <1>0, <1>8 DEF Starts
    <2>2. LineGrows(Len(Line) + 1, handled', p)
      BY <1>4, <1>8, <2>1 DEF Starts, LineGrows
    <2>3. QED BY <1>0, <2>1, <2>2
  <1>9. ASSUME NEW i \in 1..handled, NEW p \in Parts, Adds(i, p)
        PROVE  \E n \in Nat \ {0}, j \in 1..handled', q \in Parts : LineGrows(n, j, q)
    <2>1. i \in 1..handled'
      BY <1>0, <1>9 DEF Adds
    <2>2. LineGrows(Len(Line) + 1, i, p)
      BY <1>4, <1>9, <2>1 DEF Adds, LineGrows
    <2>3. QED BY <1>0, <2>1, <2>2
  <1>10. QED BY <1>0, <1>1, <1>5, <1>6, <1>7, <1>8, <1>9 DEF LineMoves

-----------------------------------------------------------------------------
(* What is on the line fits the request it is for. *)
PartsFit ==
  \A k \in DOMAIN Line : Line[k].of \in 1..handled /\ Matches(requests[Line[k].of], Line[k].part)

(* A request has one part, or two if it is for a file. *)
PartsOnce ==
  /\ \A j, k \in DOMAIN Line :
       j < k /\ Line[j].of = Line[k].of => Line[j].part = "header" /\ Line[k].part = "region"
  /\ \A k \in DOMAIN Line :
       /\ Line[k].of \notin awaiting
       /\ worker = "caught" => Line[k].of # handled
       /\ worker = "region" /\ Line[k].of = handled => Line[k].part = "header"

(* Only the answer to a command is queued after that to a later request. *)
PartsInOrder ==
  \A j, k \in DOMAIN Line :
    j < k /\ Line[k].of < Line[j].of => requests[Line[k].of] = "command"

(* What was handled is answered, or somebody is going to. *)
Owed ==
  connected => \A i \in 1..handled :
    \/ i \in awaiting
    \/ i = handled /\ worker \in {"caught", "region"}
    \/ \E k \in DOMAIN Line : Line[k].of = i /\ Line[k].part # "header"

LEMMA FitStep ==
  ASSUME TypeInv, [Next]_vars, PartsFit
  PROVE  PartsFit'
  <1>0. \A i \in 1..handled : i \in 1..handled' /\ requests'[i] = requests[i]
    BY LineNext
  <1>1. CASE Carried
    BY <1>0, <1>1 DEF Carried, PartsFit, Matches
  <1>2. ASSUME NEW n \in Nat \ {0}, NEW i \in 1..handled', NEW p \in Parts, LineGrows(n, i, p)
        PROVE  PartsFit'
    <2>1. Matches(requests'[i], p)
      <3>1. CASE Starts(p) /\ i = handled'
        BY <3>1 DEF Starts
      <3>2. CASE Adds(i, p)
        <4>1. i \in 1..handled /\ Matches(requests[i], p)
          BY <3>2 DEF Adds, Matches, TypeInv, WorkerInv, Refusals, LastKinds
        <4>2. QED BY <1>0, <4>1
      <3>3. QED BY <1>2, <3>1, <3>2 DEF LineGrows
    <2>2. QED BY <1>0, <1>2, <2>1 DEF LineGrows, Grown, PartsFit, Matches
  <1>3. QED BY <1>1, <1>2, LineNext

LEMMA OnceStep ==
  ASSUME TypeInv, [Next]_vars, PartsFit, PartsOnce
  PROVE  PartsOnce'
  <1>0. /\ handled \in Nat /\ awaiting \subseteq 1..handled
        /\ \A k \in DOMAIN Line : Line[k].of \in 1..handled
    BY LineNext DEF TypeInv, TypeOK, PartsFit
  <1>1. CASE Rests /\ Carried
    BY <1>1 DEF Rests, Carried, PartsOnce
  <1>2. CASE Takes /\ Carried
    <2>1. \A k \in DOMAIN Line : Line[k].of # handled' /\ Line[k].of \notin awaiting'
      BY <1>0, <1>2 DEF Takes, PartsOnce
    <2>2. QED BY <1>2, <2>1 DEF Carried, PartsOnce
  <1>3. ASSUME NEW n \in Nat \ {0}, NEW i \in 1..handled', NEW p \in Parts, LineGrows(n, i, p)
        PROVE  PartsOnce'
    <2>1. Grown(n, i, p) /\ DOMAIN Line \subseteq Nat
      BY <1>3, LineParts DEF LineGrows, TypeInv
    <2>2. \A k \in DOMAIN Line : Line[k].of = i => Line[k].part = "header" /\ p = "region"
      <3>1. CASE Starts(p) /\ i = handled'
        BY <1>0, <3>1 DEF Starts
      <3>2. CASE Adds(i, p)
        BY <3>2 DEF Adds, PartsOnce
      <3>3. QED BY <1>3, <3>1, <3>2 DEF LineGrows
    <2>3. \A k \in DOMAIN Line : Line[k].of \notin awaiting'
      BY <1>3 DEF LineGrows, Starts, Adds, PartsOnce
    <2>4. i \notin awaiting'
      <3>1. CASE Starts(p) /\ i = handled'
        BY <1>0, <3>1 DEF Starts
      <3>2. CASE Adds(i, p)
        BY <3>2 DEF Adds, TypeInv, WorkerInv, Pages
      <3>3. QED BY <1>3, <3>1, <3>2 DEF LineGrows
    <2>5. \A k \in DOMAIN Line' :
            /\ worker' = "caught" => Line'[k].of # handled'
            /\ worker' = "region" /\ Line'[k].of = handled' => Line'[k].part = "header"
      <3>1. CASE Starts(p) /\ i = handled'
        BY <1>0, <2>1, <3>1 DEF Starts, Grown
      <3>2. CASE Adds(i, p)
        BY <2>1, <3>2 DEF Adds, Grown, PartsOnce, TypeInv, WorkerInv, Pages
      <3>3. QED BY <1>3, <3>1, <3>2 DEF LineGrows
    <2>6. \A j, k \in DOMAIN Line' :
            j < k /\ Line'[j].of = Line'[k].of => Line'[j].part = "header" /\ Line'[k].part = "region"
      <3> SUFFICES ASSUME NEW j \in DOMAIN Line', NEW k \in DOMAIN Line', j < k, Line'[j].of = Line'[k].of
                   PROVE  Line'[j].part = "header" /\ Line'[k].part = "region"
        OBVIOUS
      <3>1. j \in DOMAIN Line
        BY <2>1 DEF Grown
      <3>2. CASE k \in DOMAIN Line
        BY <2>1, <3>1, <3>2 DEF Grown, PartsOnce
      <3>3. CASE k = n
        BY <2>1, <2>2, <3>1, <3>3 DEF Grown
      <3>4. QED BY <2>1, <3>2, <3>3 DEF Grown
    <2>7. \A k \in DOMAIN Line' : Line'[k].of \notin awaiting'
      BY <2>1, <2>3, <2>4 DEF Grown
    <2>8. QED BY <2>5, <2>6, <2>7 DEF PartsOnce
  <1>4. QED BY <1>1, <1>2, <1>3, LineNext

LEMMA OrderStep ==
  ASSUME TypeInv, [Next]_vars, PartsFit, PartsInOrder
  PROVE  PartsInOrder'
  <1>0. /\ \A k \in DOMAIN Line : Line[k].of \in 1..handled
        /\ \A i \in 1..handled : requests'[i] = requests[i]
        /\ handled \in Nat /\ DOMAIN Line \subseteq Nat
    BY LineNext, LineParts DEF PartsFit, TypeInv
  <1>1. CASE Carried
    BY <1>0, <1>1 DEF Carried, PartsInOrder
  <1>2. ASSUME NEW n \in Nat \ {0}, NEW i \in 1..handled', NEW p \in Parts, LineGrows(n, i, p)
        PROVE  PartsInOrder'
    <2>1. Grown(n, i, p)
      BY <1>2 DEF LineGrows
    <2>2. \A k \in DOMAIN Line : i < Line[k].of => requests'[i] = "command"
      <3>1. CASE Starts(p) /\ i = handled'
        BY <1>0, <3>1 DEF Starts
      <3>2. CASE Adds(i, p)
        BY <1>0, <3>2 DEF Adds, TypeInv, WorkerInv
      <3>3. QED BY <1>2, <3>1, <3>2 DEF LineGrows
    <2>3. SUFFICES ASSUME NEW j \in DOMAIN Line', NEW k \in DOMAIN Line', j < k, Line'[k].of < Line'[j].of
                   PROVE  requests'[Line'[k].of] = "command"
      BY DEF PartsInOrder
    <2>4. j \in DOMAIN Line
      BY <1>0, <2>1, <2>3 DEF Grown
    <2>5. CASE k \in DOMAIN Line
      BY <1>0, <2>1, <2>3, <2>4, <2>5 DEF Grown, PartsInOrder
    <2>6. CASE k = n
      BY <2>1, <2>2, <2>3, <2>4, <2>6 DEF Grown
    <2>7. QED BY <2>1, <2>5, <2>6 DEF Grown
  <1>3. QED BY <1>1, <1>2, LineNext

LEMMA OwedStep ==
  ASSUME TypeInv, [Next]_vars, Owed
  PROVE  Owed'
  <1> SUFFICES ASSUME connected', NEW i \in 1..handled'
               PROVE  \/ i \in awaiting'
                      \/ i = handled' /\ worker' \in {"caught", "region"}
                      \/ \E k \in DOMAIN Line' : Line'[k].of = i /\ Line'[k].part # "header"
    BY DEF Owed
  <1>0. handled \in Nat /\ connected
    BY LineNext
  <1>1. i \in 1..handled =>
          \/ i \in awaiting
          \/ i = handled /\ worker \in {"caught", "region"}
          \/ \E k \in DOMAIN Line : Line[k].of = i /\ Line[k].part # "header"
    BY <1>0 DEF Owed
  <1>2. CASE Rests /\ Carried
    BY <1>1, <1>2 DEF Rests, Carried
  <1>3. CASE Takes /\ Carried
    BY <1>0, <1>1, <1>3 DEF Takes, Carried
  <1>4. ASSUME NEW n \in Nat \ {0}, NEW j \in 1..handled', NEW p \in Parts, LineGrows(n, j, p)
        PROVE  \/ i \in awaiting'
               \/ i = handled' /\ worker' \in {"caught", "region"}
               \/ \E k \in DOMAIN Line' : Line'[k].of = i /\ Line'[k].part # "header"
    <2>1. Grown(n, j, p)
      BY <1>4 DEF LineGrows
    <2>2. (\E k \in DOMAIN Line : Line[k].of = i /\ Line[k].part # "header") \/ (i = j /\ p # "header")
            => \E k \in DOMAIN Line' : Line'[k].of = i /\ Line'[k].part # "header"
      BY <2>1 DEF Grown
    <2>3. CASE Starts(p) /\ j = handled'
      BY <1>0, <1>1, <2>2, <2>3 DEF Starts
    <2>4. CASE Adds(j, p)
      BY <1>1, <2>2, <2>4 DEF Adds
    <2>5. QED BY <1>4, <2>3, <2>4 DEF LineGrows
  <1>5. QED BY <1>2, <1>3, <1>4, LineNext

-----------------------------------------------------------------------------
(* A part after which the connection is closed. *)
Final(x) == x.part = "error" \/ (x.part = "region" /\ requests[x.of] = "lastPage")

(* The worker is in the middle of such a part, or has seen to the close. *)
CloseInv ==
  /\ \A k \in DOMAIN outbox :
       Final(outbox[k]) /\ ~Busy(outbox[k].of) => "close" \in outbox[k].listeners
  /\ connected => \A k \in DOMAIN socket : Final(socket[k]) => Busy(socket[k].of)

(* An open file has its worker at it, or a region that will release it. *)
FilesInv ==
  /\ \A i \in files : Busy(i) \/ i \in Released(outbox)
  /\ \A k \in DOMAIN outbox : "release" \in outbox[k].listeners => outbox[k].part = "region"

(* A client that waits has the answer to all requests but the last. *)
WaitInv == ~pipelined => \A i \in 1..(Len(requests) - 1) : Answered(i)

(* What the steps do to the two ends of the line. *)
LEMMA WriteEnds ==
  ASSUME TypeOK, NEW i \in 0..MaxRequests, NEW p \in Parts, Write(Part(i, p))
  PROVE  /\ \A k \in DOMAIN outbox' :
              (k \in DOMAIN outbox /\ outbox'[k] = outbox[k]) \/ (connected /\ outbox'[k] = Part(i, p))
         /\ \A k \in DOMAIN outbox : k \in DOMAIN outbox' /\ outbox'[k] = outbox[k]
  <1>1. /\ outbox \in Seq(PartType) /\ Len(outbox) \in Nat /\ DOMAIN outbox = 1..Len(outbox)
        /\ Part(i, p) \in PartType
    BY LineParts, PartIsTyped
  <1>2. CASE connected
    <2>1. outbox' = Append(outbox, Part(i, p))
      BY <1>2 DEF Write
    <2>2. /\ DOMAIN outbox' = 1..(Len(outbox) + 1) /\ outbox'[Len(outbox) + 1] = Part(i, p)
          /\ \A k \in 1..Len(outbox) : outbox'[k] = outbox[k]
      <3>1. PICK s \in Seq(PartType), x \in PartType : s = outbox /\ x = Part(i, p)
        BY <1>1
      <3>2. QED BY <2>1, <3>1, AppendProperties, LenProperties
    <2>3. QED BY <1>1, <1>2, <2>2
  <1>3. CASE ~connected
    BY <1>3 DEF Write
  <1>4. QED BY <1>2, <1>3

EndsInv == CloseInv /\ FilesInv

(* A step that adds at most a part to the outbox, and leaves the worker at what
   it is at. *)
LEMMA EndsKept ==
  ASSUME TypeInv, PartsFit, EndsInv, UNCHANGED <<connected, socket>>,
         \A i \in 1..handled : requests'[i] = requests[i],
         worker # "idle" => worker' # "idle" /\ handled' = handled,
         \A i \in files' : i \in files \/ (i = handled' /\ worker' # "idle"),
         \A k \in DOMAIN outbox : k \in DOMAIN outbox' /\ outbox'[k] = outbox[k],
         \A k \in DOMAIN outbox' :
           \/ k \in DOMAIN outbox /\ outbox'[k] = outbox[k]
           \/ /\ outbox'[k].listeners = {}
              /\ \/ outbox'[k].part \in {"json", "header"}
                 \/ outbox'[k].of = handled' /\ worker' # "idle"
  PROVE  EndsInv'
  <1>0. /\ \A k \in DOMAIN outbox : outbox[k].of \in 1..handled
        /\ \A k \in DOMAIN socket : socket[k].of \in 1..handled
    BY LineParts DEF PartsFit, TypeInv
  <1>1. \A i : Busy(i) => Busy(i)'
    BY DEF Busy
  <1>2. ASSUME NEW k \in DOMAIN outbox', Final(outbox[k])', ~Busy(outbox[k].of)'
        PROVE  "close" \in outbox'[k].listeners
    <2>1. CASE k \in DOMAIN outbox /\ outbox'[k] = outbox[k]
      <3>1. PICK x : x = outbox[k] /\ x = outbox'[k]
        BY <2>1
      <3>2. Final(x) /\ ~Busy(x.of)
        BY <1>0, <1>1, <1>2, <2>1, <3>1 DEF Final
      <3>3. QED BY <2>1, <3>1, <3>2 DEF EndsInv, CloseInv
    <2>2. CASE outbox'[k].part \in {"json", "header"}
      BY <1>2, <2>2 DEF Final
    <2>3. CASE outbox'[k].of = handled' /\ worker' # "idle"
      BY <1>2, <2>3 DEF Busy
    <2>4. QED BY <2>1, <2>2, <2>3
  <1>3. ASSUME connected', NEW k \in DOMAIN socket', Final(socket[k])'
        PROVE  Busy(socket[k].of)'
    <2>1. k \in DOMAIN socket /\ connected /\ socket'[k] = socket[k]
      BY <1>3
    <2>2. Final(socket[k])
      BY <1>0, <1>3, <2>1 DEF Final
    <2>3. Busy(socket[k].of)
      BY <2>1, <2>2 DEF EndsInv, CloseInv
    <2>4. QED BY <1>1, <2>1, <2>3 DEF Busy
  <1>4. ASSUME NEW i \in files' PROVE Busy(i)' \/ i \in Released(outbox)'
    <2>1. i \in Released(outbox) => i \in Released(outbox)'
      BY DEF Released
    <2>2. CASE i \in files
      BY <1>1, <2>1, <2>2 DEF EndsInv, FilesInv
    <2>3. CASE i = handled' /\ worker' # "idle"
      BY <2>3 DEF Busy
    <2>4. QED BY <2>2, <2>3
  <1>5. \A k \in DOMAIN outbox' : "release" \in outbox'[k].listeners => outbox'[k].part = "region"
    BY DEF EndsInv, FilesInv
  <1>6. CloseInv'
    BY <1>2, <1>3 DEF CloseInv
  <1>7. FilesInv'
    BY <1>4, <1>5 DEF FilesInv
  <1>8. QED BY <1>6, <1>7 DEF EndsInv

(* The end of the connection. *)
LEMMA EndsClosed ==
  ASSUME ~connected', outbox' = << >>, \A i \in files' : Busy(i)'
  PROVE  EndsInv'
  BY DEF EndsInv, CloseInv, FilesInv

LEMMA FinalCloses ==
  ASSUME NEW x, Final(x), x.of = handled, Matches(requests[handled], x.part)
  PROVE  "close" \in ListenersAdded
  BY DEF Final, Matches, ListenersAdded, Refusals, LastKinds

LEMMA EndsListen ==
  ASSUME TypeInv, PartsFit, PartsOnce, EndsInv, AddListeners
  PROVE  EndsInv'
  <1>0. /\ TypeOK /\ worker = "listen" /\ worker' = "idle"
        /\ UNCHANGED <<requests, handled, socket>>
        /\ \A i : ~Busy(i)'
    BY DEF AddListeners, TypeInv, Busy
  <1>1. /\ \A k \in DOMAIN outbox : outbox[k].of \in 1..handled /\ Matches(requests[outbox[k].of], outbox[k].part)
        /\ \A k \in DOMAIN socket : socket[k].of \in 1..handled /\ Matches(requests[socket[k].of], socket[k].part)
    BY <1>0, LineParts DEF PartsFit
  <1>2. PICK due : due = {k \in DOMAIN outbox : outbox[k].of = handled /\ outbox[k].part # "header"}
    OBVIOUS
  <1>3. \A k \in DOMAIN outbox : Final(outbox[k]) /\ k \notin due => "close" \in outbox[k].listeners
    BY <1>2 DEF EndsInv, CloseInv, Final, Busy
  <1>4. CASE due # {}
    <2>1. /\ outbox' = [k \in DOMAIN outbox |->
                          IF k \in due THEN [outbox[k] EXCEPT !.listeners = ListenersAdded]
                                       ELSE outbox[k]]
          /\ UNCHANGED <<connected, files>>
      BY <1>2, <1>4 DEF AddListeners
    <2>2. DOMAIN outbox' = DOMAIN outbox /\ \A k \in DOMAIN outbox : outbox[k] \in PartType
      BY <1>0, <2>1, LineParts, ElementOfSeq
    <2>3. \A k \in DOMAIN outbox :
            /\ outbox'[k].of = outbox[k].of /\ outbox'[k].part = outbox[k].part
            /\ outbox'[k].listeners = IF k \in due THEN ListenersAdded ELSE outbox[k].listeners
      BY <2>1, <2>2 DEF PartType
    <2>4. ASSUME NEW k \in DOMAIN outbox, Final(outbox[k])' PROVE "close" \in outbox'[k].listeners
      <3>1. Final(outbox[k])
        BY <1>0, <2>3, <2>4 DEF Final
      <3>2. k \in due => "close" \in ListenersAdded
        BY <1>1, <1>2, <3>1, FinalCloses
      <3>3. QED BY <1>3, <2>3, <3>1, <3>2
    <2>5. ASSUME connected, NEW k \in DOMAIN socket, Final(socket[k]) PROVE FALSE
      <3>1. socket[k].of = handled /\ socket[k].part # "header"
        BY <2>5 DEF EndsInv, CloseInv, Busy, Final
      <3>2. PICK j \in due : TRUE
        BY <1>4
      <3>3. /\ k \in DOMAIN Line /\ Line[k] = socket[k]
            /\ Len(socket) + j \in DOMAIN Line /\ Line[Len(socket) + j] = outbox[j]
            /\ k < Len(socket) + j
        BY <1>0, <1>2, <2>5, <3>2, LineParts
      <3>4. QED BY <1>2, <3>1, <3>2, <3>3 DEF PartsOnce
    <2>6. CloseInv'
      <3>1. \A k \in DOMAIN outbox' :
              Final(outbox[k])' /\ ~Busy(outbox[k].of)' => "close" \in outbox'[k].listeners
        BY <2>2, <2>4
      <3>2. connected' => \A k \in DOMAIN socket' : ~Final(socket[k])'
        BY <1>0, <2>1, <2>5 DEF Final
      <3>3. QED BY <3>1, <3>2 DEF CloseInv
    <2>7. ASSUME NEW i \in files PROVE i \in Released(outbox)'
      <3>1. CASE i \in Released(outbox)
        <4>1. PICK k \in DOMAIN outbox : i = outbox[k].of /\ "release" \in outbox[k].listeners
          BY <3>1 DEF Released
        <4>2. CASE k \in due
          <5>1. i = handled /\ requests[i] \in Pages
            BY <1>2, <2>7, <4>1, <4>2 DEF TypeInv, WorkerInv
          <5>2. "release" \in ListenersAdded
            BY <5>1 DEF ListenersAdded, Pages
          <5>3. QED BY <2>2, <2>3, <4>1, <4>2, <5>2 DEF Released
        <4>3. QED BY <2>2, <2>3, <4>1, <4>2 DEF Released
      <3>2. CASE i = handled
        <4>1. requests[handled] \in Pages
          BY <2>7, <3>2 DEF TypeInv, WorkerInv
        <4>2. "release" \in ListenersAdded
          BY <4>1 DEF ListenersAdded, Pages
        <4>3. PICK k \in due : TRUE
          BY <1>4
        <4>4. k \in DOMAIN outbox' /\ "release" \in outbox'[k].listeners /\ outbox'[k].of = i
          BY <1>2, <2>2, <2>3, <3>2, <4>2, <4>3
        <4>5. QED BY <4>4 DEF Released
      <3>3. QED BY <2>7, <3>1, <3>2 DEF EndsInv, FilesInv, Busy
    <2>8. ASSUME NEW k \in DOMAIN outbox, "release" \in outbox'[k].listeners
          PROVE  outbox'[k].part = "region"
      <3>1. CASE k \in due
        <4>1. requests[handled] \in Pages
          BY <1>0, <2>3, <2>8, <3>1 DEF ListenersAdded, Pages
        <4>2. outbox[k].part \in Parts /\ outbox[k].part # "header" /\ Matches(requests[handled], outbox[k].part)
          BY <1>1, <1>2, <2>2, <3>1 DEF PartType
        <4>3. QED BY <2>3, <4>1, <4>2 DEF Matches, Parts, Pages, Refusals, LastKinds
      <3>2. CASE k \notin due
        BY <2>3, <2>8, <3>2 DEF EndsInv, FilesInv
      <3>3. QED BY <3>1, <3>2
    <2>9. FilesInv'
      BY <2>1, <2>2, <2>7, <2>8 DEF FilesInv
    <2>10. QED BY <2>6, <2>9 DEF EndsInv
  <1>5. CASE due = {} /\ connected /\ "close" \in ListenersAdded
    <2>1. CloseWith(outbox) /\ files' = files \ ({handled} \cup Released(outbox))
      BY <1>2, <1>5 DEF AddListeners
    <2>2. files' = {}
      BY <2>1 DEF EndsInv, FilesInv, Busy
    <2>3. QED BY <2>1, <2>2, EndsClosed DEF CloseWith
  <1>6. CASE due = {} /\ ~(connected /\ "close" \in ListenersAdded)
    <2>1. files' = files \ {handled} /\ UNCHANGED <<connected, outbox>>
      BY <1>2, <1>6 DEF AddListeners
    <2>2. \A k \in DOMAIN outbox : Final(outbox[k]) => "close" \in outbox[k].listeners
      BY <1>3, <1>6
    <2>3. connected => \A k \in DOMAIN socket : ~Final(socket[k])
      <3> SUFFICES ASSUME connected, NEW k \in DOMAIN socket, Final(socket[k]) PROVE FALSE
        OBVIOUS
      <3>1. socket[k].of = handled
        BY DEF EndsInv, CloseInv, Busy
      <3>2. "close" \in ListenersAdded
        BY <1>1, <3>1, FinalCloses
      <3>3. QED BY <1>6, <3>2
    <2>4. CloseInv'
      BY <1>0, <2>1, <2>2, <2>3 DEF CloseInv, Final
    <2>5. FilesInv'
      BY <1>0, <2>1 DEF EndsInv, FilesInv, Busy, Released
    <2>6. QED BY <2>4, <2>5 DEF EndsInv
  <1>7. QED BY <1>4, <1>5, <1>6

(* The worker puts the head of the outbox on the socket. *)
LEMMA FlushEnds ==
  ASSUME TypeInv, Flush
  PROVE  /\ outbox # << >> /\ 1 \in DOMAIN outbox /\ connected /\ Head(outbox) = outbox[1]
         /\ UNCHANGED <<requests, handled, worker, awaiting, pipelined>>
         /\ \A k \in DOMAIN socket : k \in DOMAIN socket' /\ socket'[k] = socket[k]
         /\ Len(socket) + 1 \in DOMAIN socket' /\ socket'[Len(socket) + 1] = outbox[1]
         /\ \A k \in DOMAIN socket' : k \in DOMAIN socket \/ k = Len(socket) + 1
         /\ Len(socket) \in Nat /\ DOMAIN socket = 1..Len(socket)
         /\ \A k \in DOMAIN Tail(outbox) : k + 1 \in DOMAIN outbox /\ Tail(outbox)[k] = outbox[k + 1]
         /\ \A k \in DOMAIN outbox : k = 1 \/ (k - 1 \in DOMAIN Tail(outbox) /\ Tail(outbox)[k - 1] = outbox[k])
  <1>0. /\ TypeOK /\ outbox # << >> /\ connected /\ socket' = Append(socket, Head(outbox))
        /\ UNCHANGED <<requests, handled, worker, awaiting, pipelined>>
    BY DEF Flush, TypeInv
  <1>1. /\ socket \in Seq(PartType) /\ Len(socket) \in Nat /\ DOMAIN socket = 1..Len(socket)
        /\ outbox \in Seq(PartType) /\ Len(outbox) \in Nat /\ DOMAIN outbox = 1..Len(outbox)
    BY <1>0, LineParts
  <1>2. /\ Head(outbox) = outbox[1] /\ Head(outbox) \in PartType
        /\ Tail(outbox) \in Seq(PartType) /\ Len(Tail(outbox)) = Len(outbox) - 1
        /\ \A k \in 1..Len(Tail(outbox)) : Tail(outbox)[k] = outbox[k + 1]
    BY <1>0, <1>1, HeadTailProperties
  <1>3. Len(outbox) > 0 /\ DOMAIN Tail(outbox) = 1..(Len(outbox) - 1)
    BY <1>0, <1>1, <1>2, LenProperties, EmptySeq
  <1>4. /\ DOMAIN socket' = 1..(Len(socket) + 1) /\ socket'[Len(socket) + 1] = outbox[1]
        /\ \A k \in 1..Len(socket) : socket'[k] = socket[k]
    <2>1. PICK s \in Seq(PartType), x \in PartType : s = socket /\ x = Head(outbox)
      BY <1>1, <1>2
    <2>2. QED BY <1>0, <1>2, <2>1, AppendProperties, LenProperties
  <1>5. \A n \in Nat : n + 1 \in 1..(n + 1) /\ \A k \in 1..(n + 1) : k \in 1..n \/ k = n + 1
    OBVIOUS
  <1>6. \A n \in Nat \ {0} :
          /\ 1 \in 1..n /\ \A k \in 1..(n - 1) : k + 1 \in 1..n
          /\ \A k \in 1..n : k = 1 \/ (k - 1 \in 1..(n - 1) /\ k - 1 + 1 = k)
    OBVIOUS
  <1>7. /\ \A k \in DOMAIN Tail(outbox) : k + 1 \in DOMAIN outbox /\ Tail(outbox)[k] = outbox[k + 1]
        /\ \A k \in DOMAIN outbox : k = 1 \/ (k - 1 \in DOMAIN Tail(outbox) /\ Tail(outbox)[k - 1] = outbox[k])
        /\ 1 \in DOMAIN outbox
    <2>1. PICK t : t = Tail(outbox)
      OBVIOUS
    <2>2. DOMAIN t = 1..(Len(outbox) - 1) /\ Len(t) = Len(outbox) - 1 /\ Len(outbox) \in Nat \ {0}
          /\ \A k \in 1..(Len(outbox) - 1) : t[k] = outbox[k + 1]
      BY <1>1, <1>2, <1>3, <2>1
    <2>3. /\ \A k \in DOMAIN t : k + 1 \in DOMAIN outbox /\ t[k] = outbox[k + 1]
          /\ 1 \in DOMAIN outbox
      BY <1>1, <1>6, <2>2
    <2>4. \A k \in DOMAIN outbox : k = 1 \/ (k - 1 \in DOMAIN t /\ t[k - 1] = outbox[k])
      <3> SUFFICES ASSUME NEW k \in DOMAIN outbox, k # 1
                   PROVE  k - 1 \in DOMAIN t /\ t[k - 1] = outbox[k]
        OBVIOUS
      <3>1. k - 1 \in 1..(Len(outbox) - 1) /\ k - 1 + 1 = k
        BY <1>1, <1>6, <2>2
      <3>2. t[k - 1] = outbox[k - 1 + 1]
        BY <2>2, <3>1
      <3>3. QED BY <2>2, <3>1, <3>2
    <2>5. QED BY <2>1, <2>3, <2>4
  <1>8. /\ \A k \in DOMAIN socket : k \in DOMAIN socket'
        /\ Len(socket) + 1 \in DOMAIN socket'
        /\ \A k \in DOMAIN socket' : k \in DOMAIN socket \/ k = Len(socket) + 1
    BY <1>1, <1>4, <1>5
  <1>9. QED BY <1>0, <1>1, <1>2, <1>4, <1>7, <1>8

LEMMA EndsFlush ==
  ASSUME TypeInv, PartsFit, EndsInv, Flush
  PROVE  EndsInv'
  <1>0. PICK x, rest : x = outbox[1] /\ x = Head(outbox) /\ rest = Tail(outbox)
    BY FlushEnds
  <1>1. /\ \A i : Busy(i)' <=> Busy(i)
        /\ \A y : Final(y)' <=> Final(y)
    BY FlushEnds DEF Busy, Final
  <1>2. \A i \in files : Busy(i) \/ ("release" \in x.listeners /\ i = x.of) \/ i \in Released(rest)
    <2> SUFFICES ASSUME NEW i \in files, ~Busy(i)
                 PROVE  ("release" \in x.listeners /\ i = x.of) \/ i \in Released(rest)
      OBVIOUS
    <2>1. PICK k \in DOMAIN outbox : i = outbox[k].of /\ "release" \in outbox[k].listeners
      BY DEF EndsInv, FilesInv, Released
    <2>2. CASE k = 1
      BY <1>0, <2>1, <2>2
    <2>3. CASE k # 1
      <3>1. PICK j \in DOMAIN rest : rest[j] = outbox[k]
        BY <1>0, <2>3, FlushEnds
      <3>2. QED BY <2>1, <3>1 DEF Released
    <2>4. QED BY <2>2, <2>3
  <1>3. CASE "close" \in x.listeners
    <2>1. ~connected' /\ outbox' = << >>
      BY <1>0, <1>3 DEF Flush, CloseWith
    <2>2. files' = files \ ((IF "release" \in x.listeners THEN {x.of} ELSE {}) \cup Released(rest))
      BY <1>0, <1>3 DEF Flush
    <2>3. \A i \in files' : Busy(i)'
      BY <1>1, <1>2, <2>2
    <2>4. QED BY <2>1, <2>3, EndsClosed
  <1>4. CASE "close" \notin x.listeners
    <2>1. /\ outbox' = rest /\ connected' = connected
          /\ files' = IF "release" \in x.listeners THEN files \ {x.of} ELSE files
      BY <1>0, <1>4 DEF Flush
    <2>2. \A k \in DOMAIN rest : k + 1 \in DOMAIN outbox /\ rest[k] = outbox[k + 1]
      BY <1>0, FlushEnds
    <2>3. ASSUME NEW k \in DOMAIN outbox', Final(outbox[k])', ~Busy(outbox[k].of)'
          PROVE  "close" \in outbox'[k].listeners
      <3>1. PICK y : y = outbox'[k]
        OBVIOUS
      <3>2. k + 1 \in DOMAIN outbox /\ y = outbox[k + 1]
        BY <2>1, <2>2, <2>3, <3>1
      <3>3. Final(y) /\ ~Busy(y.of)
        BY <1>1, <2>3, <3>1 DEF Final, Busy
      <3>4. QED BY <3>1, <3>2, <3>3 DEF EndsInv, CloseInv
    <2>4. ASSUME NEW k \in DOMAIN socket', Final(socket[k])'
          PROVE  Busy(socket[k].of)'
      <3>1. PICK y : y = socket'[k]
        OBVIOUS
      <3>2. Final(y)
        BY <1>1, <2>4, <3>1 DEF Final
      <3>3. CASE k \in DOMAIN socket
        <4>1. Busy(y.of)
          BY <3>1, <3>2, <3>3, FlushEnds DEF EndsInv, CloseInv
        <4>2. QED BY <1>1, <3>1, <4>1 DEF Busy
      <3>4. CASE k = Len(socket) + 1
        <4>1. y = x
          BY <1>0, <3>1, <3>4, FlushEnds
        <4>2. Busy(x.of)
          BY <1>0, <1>4, <3>2, <4>1, FlushEnds DEF EndsInv, CloseInv
        <4>3. QED BY <1>1, <3>1, <4>1, <4>2 DEF Busy
      <3>5. QED BY <3>3, <3>4, FlushEnds
    <2>5. CloseInv'
      BY <2>3, <2>4 DEF CloseInv
    <2>6. \A i \in files' : Busy(i)' \/ i \in Released(outbox)'
      <3>1. Released(outbox)' = Released(rest)
        BY <2>1 DEF Released
      <3>2. QED BY <1>1, <1>2, <2>1, <3>1
    <2>7. \A k \in DOMAIN outbox' : "release" \in outbox'[k].listeners => outbox'[k].part = "region"
      BY <2>1, <2>2 DEF EndsInv, FilesInv
    <2>8. FilesInv'
      BY <2>6, <2>7 DEF FilesInv
    <2>9. QED BY <2>5, <2>8 DEF EndsInv
  <1>5. QED BY <1>3, <1>4

LEMMA EndsHandle ==
  ASSUME TypeInv, PartsFit, EndsInv, Handle
  PROVE  EndsInv'
  <1>0. PICK n : n = handled + 1
    OBVIOUS
  <1>1. /\ UNCHANGED <<connected, requests, socket>> /\ TypeOK
        /\ worker = "idle" /\ handled' = n /\ This = n /\ n \in 0..MaxRequests
        /\ \E kinds : Take(kinds)
    BY <1>0, TakeNext DEF Handle, Refuse, Fault, AnswerQuery, RelayCommand, OpenFile, TypeInv
  <1>2. \A i \in files' : i \in files \/ (i = handled' /\ worker' # "idle")
    BY <1>1 DEF Handle, Refuse, Fault, AnswerQuery, RelayCommand, OpenFile
  <1>3. CASE outbox' = outbox
    BY <1>1, <1>2, <1>3, EndsKept
  <1>4. ASSUME NEW p \in Parts, Write(Part(n, p)), p \in {"json", "header"} \/ worker' # "idle"
        PROVE  EndsInv'
    <2>1. /\ \A k \in DOMAIN outbox' :
                (k \in DOMAIN outbox /\ outbox'[k] = outbox[k]) \/ outbox'[k] = Part(n, p)
          /\ \A k \in DOMAIN outbox : k \in DOMAIN outbox' /\ outbox'[k] = outbox[k]
      BY <1>1, <1>4, WriteEnds
    <2>2. Part(n, p).listeners = {} /\ Part(n, p).part = p /\ Part(n, p).of = n
      BY DEF Part
    <2>3. \A k \in DOMAIN outbox' :
            \/ k \in DOMAIN outbox /\ outbox'[k] = outbox[k]
            \/ /\ outbox'[k].listeners = {}
               /\ \/ outbox'[k].part \in {"json", "header"}
                  \/ outbox'[k].of = handled' /\ worker' # "idle"
      BY <1>1, <1>4, <2>1, <2>2
    <2>4. QED BY <1>1, <1>2, <2>1, <2>3, EndsKept
  <1>5. CASE Refuse
    BY <1>1, <1>4, <1>5 DEF Refuse, Parts
  <1>6. CASE AnswerQuery
    BY <1>1, <1>4, <1>6 DEF AnswerQuery, Parts
  <1>7. CASE OpenFile
    BY <1>1, <1>4, <1>7 DEF OpenFile, Parts
  <1>8. QED BY <1>3, <1>5, <1>6, <1>7 DEF Handle, Fault, RelayCommand

LEMMA EndsStep ==
  ASSUME TypeInv, [Next]_vars, PartsFit, PartsOnce, EndsInv
  PROVE  EndsInv'
  <1>0. /\ TypeOK /\ handled \in 0..MaxRequests
        /\ \A i \in 1..handled : requests'[i] = requests[i]
    BY LineNext, LenProperties DEF TypeInv, TypeOK, WorkerInv
  <1>1. ASSUME UNCHANGED <<connected, handled, worker, files, outbox, socket>> PROVE EndsInv'
    BY <1>0, <1>1, EndsKept
  <1>2. ASSUME NEW i \in 0..MaxRequests, NEW p \in Parts, Write(Part(i, p)),
               UNCHANGED <<connected, socket, handled, files>>,
               worker # "idle" => worker' # "idle",
               p = "json" \/ (i = handled /\ worker' # "idle")
        PROVE  EndsInv'
    <2>1. /\ \A k \in DOMAIN outbox' :
                (k \in DOMAIN outbox /\ outbox'[k] = outbox[k]) \/ outbox'[k] = Part(i, p)
          /\ \A k \in DOMAIN outbox : k \in DOMAIN outbox' /\ outbox'[k] = outbox[k]
      BY <1>0, <1>2, WriteEnds
    <2>2. Part(i, p).listeners = {} /\ Part(i, p).part = p /\ Part(i, p).of = i
      BY DEF Part
    <2>3. \A k \in DOMAIN outbox' :
            \/ k \in DOMAIN outbox /\ outbox'[k] = outbox[k]
            \/ /\ outbox'[k].listeners = {}
               /\ \/ outbox'[k].part \in {"json", "header"}
                  \/ outbox'[k].of = handled' /\ worker' # "idle"
      BY <1>2, <2>1, <2>2
    <2>4. QED BY <1>0, <1>2, <2>1, <2>3, EndsKept
  <1>3. ASSUME NEW kind \in Kinds, Request(kind) PROVE EndsInv'
    BY <1>1, <1>3 DEF Request
  <1>4. CASE Handle
    BY <1>4, EndsHandle
  <1>5. CASE WriteRegion
    BY <1>0, <1>2, <1>5 DEF WriteRegion, Parts
  <1>6. CASE AddListeners
    BY <1>6, EndsListen
  <1>7. CASE HandlerFaultCaught
    <2>1. CASE connected
      BY <1>0, <1>2, <1>7, <2>1 DEF HandlerFaultCaught, MayAnswer, Parts
    <2>2. CASE ~connected
      <3>1. /\ ~connected' /\ outbox' = outbox /\ outbox = << >> /\ files' = files
            /\ worker = "caught"
        BY <1>0, <1>7, <2>2 DEF HandlerFaultCaught, MayAnswer, TypeOK
      <3>2. \A i \in files : Busy(i)
        BY <3>1 DEF EndsInv, FilesInv, Released
      <3>3. \A i \in files : FALSE
        BY <3>1, <3>2 DEF Busy, TypeInv, WorkerInv, Pages
      <3>4. QED BY <3>1, <3>3, EndsClosed
    <2>3. QED BY <2>1, <2>2
  <1>8. CASE WriteFailureCaught
    BY <1>1, <1>8 DEF WriteFailureCaught, MayAnswer, TypeInv, WorkerInv
  <1>9. ASSUME NEW i \in 1..MaxRequests, CommandComplete(i) PROVE EndsInv'
    BY <1>0, <1>2, <1>9 DEF CommandComplete, Parts
  <1>10. CASE Flush
    BY <1>10, EndsFlush
  <1>11. CASE Disconnect
    <2>1. /\ ~connected' /\ outbox' = << >> /\ files' = files \ Released(outbox)
          /\ UNCHANGED <<handled, worker>>
      BY <1>11 DEF Disconnect, CloseWith
    <2>2. \A i \in files' : Busy(i)'
      BY <2>1 DEF EndsInv, FilesInv, Busy
    <2>3. QED BY <2>1, <2>2, EndsClosed
  <1>12. CASE UNCHANGED vars
    BY <1>1, <1>12 DEF vars
  <1>13. QED
    BY <1>3, <1>4, <1>5, <1>6, <1>7, <1>8, <1>9, <1>10, <1>11, <1>12 DEF Next

-----------------------------------------------------------------------------
(* What is on the socket stays there, and only the worker adds to it. *)
LEMMA SocketNext ==
  ASSUME TypeInv, [Next]_vars
  PROVE  /\ socket' = socket \/ Flush
         /\ \A k \in DOMAIN socket : k \in DOMAIN socket' /\ socket'[k] = socket[k]
         /\ \A i : Answered(i) => Answered(i)'
  <1>1. socket' = socket \/ Flush
    BY DEF Next, vars, Request, Handle, Refuse, Fault, AnswerQuery, RelayCommand, OpenFile, WriteRegion,
           AddListeners, HandlerFaultCaught, WriteFailureCaught, CommandComplete, Disconnect
  <1>2. \A k \in DOMAIN socket : k \in DOMAIN socket' /\ socket'[k] = socket[k]
    BY <1>1, FlushEnds
  <1>3. \A i : Answered(i) => Answered(i)'
    BY <1>2 DEF Answered
  <1>4. QED BY <1>1, <1>2, <1>3

(* The part that is written next comes behind all that is on the socket. *)
LEMMA NextPart ==
  ASSUME TypeInv, PartsFit, Flush
  PROVE  /\ Len(socket) + 1 \in DOMAIN Line /\ Line[Len(socket) + 1] = outbox[1]
         /\ outbox[1].of \in 1..handled /\ handled \in Nat
         /\ \A j \in DOMAIN socket : /\ j \in DOMAIN Line /\ Line[j] = socket[j] /\ j < Len(socket) + 1
                                     /\ socket[j].of \in 1..handled
  <1>1. TypeOK /\ 1 \in DOMAIN outbox /\ Len(socket) \in Nat /\ DOMAIN socket = 1..Len(socket)
    BY FlushEnds DEF TypeInv
  <1>2. Len(socket) + 1 \in DOMAIN Line /\ Line[Len(socket) + 1] = outbox[1]
    BY <1>1, LineParts
  <1>3. \A j \in DOMAIN socket : j \in DOMAIN Line /\ Line[j] = socket[j] /\ j < Len(socket) + 1
    BY <1>1, LineParts
  <1>4. handled \in Nat
    BY LenProperties DEF TypeInv, TypeOK
  <1>5. QED BY <1>2, <1>3, <1>4 DEF PartsFit

LEMMA LastStep ==
  ASSUME TypeInv, [Next]_vars, PartsFit, PartsOnce, PartsInOrder, EndsInv, NothingAfterTheLast
  PROVE  NothingAfterTheLast'
  <1>0. /\ \A k \in DOMAIN socket : socket[k].of \in 1..handled
        /\ \A i \in 1..handled : requests'[i] = requests[i]
    BY LineParts, LineNext DEF PartsFit, TypeInv
  <1>1. CASE socket' = socket
    BY <1>0, <1>1 DEF NothingAfterTheLast
  <1>2. CASE Flush
    <2>1. PICK x : x = outbox[1]
      OBVIOUS
    <2>2. \A j \in DOMAIN socket : Final(socket[j]) => requests[x.of] = "command" /\ x.of < socket[j].of
      <3> SUFFICES ASSUME NEW j \in DOMAIN socket, Final(socket[j])
                   PROVE  requests[x.of] = "command" /\ x.of < socket[j].of
        OBVIOUS
      <3>1. socket[j].of = handled
        BY <1>2, FlushEnds DEF EndsInv, CloseInv, Busy
      <3>2. socket[j].part # "header"
        BY DEF Final
      <3>3. x.of # handled
        BY <1>2, <2>1, <3>1, <3>2, NextPart DEF PartsOnce
      <3>4. x.of < handled
        BY <1>2, <2>1, <3>3, NextPart
      <3>5. QED BY <1>2, <2>1, <3>1, <3>4, NextPart DEF PartsInOrder
    <2>3. SUFFICES ASSUME NEW j \in DOMAIN socket', NEW k \in DOMAIN socket', j < k,
                          socket'[j].part = "error"
                            \/ (socket'[j].part = "region" /\ requests'[socket'[j].of] = "lastPage")
                   PROVE  requests'[socket'[k].of] = "command" /\ socket'[k].of < socket'[j].of
      BY DEF NothingAfterTheLast
    <2>4. requests' = requests
      BY <1>2, FlushEnds
    <2>5. j \in DOMAIN socket
      BY <1>2, <2>3, FlushEnds
    <2>6. socket'[j] = socket[j] /\ Final(socket[j])
      BY <1>2, <2>3, <2>4, <2>5, FlushEnds DEF Final
    <2>7. CASE k \in DOMAIN socket
      <3>1. socket'[k] = socket[k]
        BY <1>2, <2>7, FlushEnds
      <3>2. QED BY <2>3, <2>4, <2>5, <2>6, <2>7, <3>1 DEF NothingAfterTheLast, Final
    <2>8. CASE k = Len(socket) + 1
      <3>1. socket'[k] = x
        BY <1>2, <2>1, <2>8, FlushEnds
      <3>2. QED BY <2>2, <2>4, <2>5, <2>6, <3>1
    <2>9. QED BY <1>2, <2>3, <2>7, <2>8, FlushEnds
  <1>3. QED BY <1>1, <1>2, SocketNext

LEMMA WaitStep ==
  ASSUME TypeInv, [Next]_vars, WaitInv
  PROVE  WaitInv'
  <1>0. requests \in Seq(RequestKinds) /\ Len(requests) \in Nat /\ DOMAIN requests = 1..Len(requests)
    BY LenProperties DEF TypeInv, TypeOK
  <1>1. CASE UNCHANGED <<requests, pipelined>>
    BY <1>1, SocketNext DEF WaitInv
  <1>2. ASSUME NEW kind \in Kinds, Request(kind) PROVE WaitInv'
    <2>1. Len(requests') = Len(requests) + 1
      BY <1>0, <1>2, AppendProperties DEF Request
    <2>2. ~pipelined' => \A i \in 1..Len(requests) : Answered(i)
      BY <1>0, <1>2 DEF Request
    <2>3. ASSUME ~pipelined', NEW i \in 1..(Len(requests') - 1) PROVE Answered(i)'
      <3>1. i \in 1..Len(requests)
        BY <1>0, <2>1
      <3>2. QED BY <2>2, <2>3, <3>1, SocketNext
    <2>4. QED BY <2>3 DEF WaitInv
  <1>3. QED
    BY <1>1, <1>2 DEF Next, vars, Handle, Refuse, Fault, AnswerQuery, RelayCommand, OpenFile, WriteRegion,
       AddListeners, HandlerFaultCaught, WriteFailureCaught, CommandComplete, Disconnect, Flush

(* A client that waits is sent parts for its last request only. *)
LEMMA InStepStep ==
  ASSUME TypeInv, [Next]_vars, PartsFit, PartsOnce, WaitInv, InStep
  PROVE  InStep'
  <1>0. Len(requests) \in Nat /\ handled \in Nat /\ handled <= Len(requests)
    BY LenProperties DEF TypeInv, TypeOK
  <1>1. CASE socket' = socket
    <2>1. ~pipelined' => ~pipelined
      BY DEF Next, vars, Request, Handle, Refuse, Fault, AnswerQuery, RelayCommand, OpenFile, WriteRegion,
             AddListeners, HandlerFaultCaught, WriteFailureCaught, CommandComplete, Disconnect, Flush
    <2>2. QED BY <1>1, <2>1 DEF InStep
  <1>2. ASSUME Flush, ~pipelined PROVE InStep'
    <2>0. PICK x, n : x = outbox[1] /\ n = Len(socket)
      OBVIOUS
    <2>1. \A j \in DOMAIN socket : socket[j].of = x.of => socket[j].part = "header" /\ x.part = "region"
      BY <1>2, <2>0, NextPart DEF PartsOnce
    <2>2. x.of = Len(requests)
      <3>1. x.of \in 1..Len(requests)
        BY <1>0, <1>2, <2>0, NextPart
      <3>2. ASSUME x.of # Len(requests) PROVE FALSE
        <4>1. x.of \in 1..(Len(requests) - 1)
          BY <1>0, <3>1, <3>2
        <4>2. Answered(x.of)
          BY <1>2, <4>1 DEF WaitInv
        <4>3. QED BY <2>1, <4>2 DEF Answered
      <3>3. QED BY <3>2
    <2>3. ASSUME n \in DOMAIN socket
          PROVE  IF socket[n].part = "header"
                 THEN x.of = socket[n].of /\ x.part = "region"
                 ELSE x.of > socket[n].of
      <3>1. socket[n].of \in 1..Len(requests)
        BY <1>0, <1>2, <2>3, NextPart
      <3>2. CASE socket[n].of = Len(requests)
        BY <2>1, <2>2, <2>3, <3>2
      <3>3. CASE socket[n].of # Len(requests)
        <4>1. socket[n].of \in 1..(Len(requests) - 1)
          BY <1>0, <3>1, <3>3
        <4>2. PICK k \in DOMAIN socket : socket[k].of = socket[n].of /\ socket[k].part # "header"
          BY <1>2, <4>1 DEF WaitInv, Answered
        <4>3. k \in Nat /\ n \in Nat /\ k <= n
          BY <1>2, <2>0, FlushEnds
        <4>4. k = n
          <5>1. k < n => socket[k].part = "header"
            BY <1>2, <2>3, <4>2, NextPart DEF PartsOnce
          <5>2. QED BY <4>2, <4>3, <5>1
        <4>5. QED BY <1>0, <2>2, <4>1, <4>2, <4>4
      <3>4. QED BY <3>2, <3>3
    <2>4. /\ n \in Nat /\ DOMAIN socket = 1..n
          /\ \A k \in 1..n : socket'[k] = socket[k]
          /\ socket'[n + 1] = x
      BY <1>2, <2>0, FlushEnds
    <2>5. Len(socket') = n + 1
      BY <1>2, <2>0, LineParts, HeadTailProperties, AppendProperties DEF Flush, TypeInv
    <2>6. \A k \in 1..(n - 1) :
            IF socket[k].part = "header"
            THEN socket[k + 1].of = socket[k].of /\ socket[k + 1].part = "region"
            ELSE socket[k + 1].of > socket[k].of
      BY <1>2, <2>0 DEF InStep
    <2>7. ASSUME NEW k \in 1..n
          PROVE  IF socket'[k].part = "header"
                 THEN socket'[k + 1].of = socket'[k].of /\ socket'[k + 1].part = "region"
                 ELSE socket'[k + 1].of > socket'[k].of
      <3>1. CASE k = n
        BY <2>3, <2>4, <3>1
      <3>2. CASE k # n
        <4>1. k \in 1..(n - 1) /\ k + 1 \in 1..n
          BY <2>4, <3>2
        <4>2. socket'[k] = socket[k] /\ socket'[k + 1] = socket[k + 1]
          BY <2>4, <4>1
        <4>3. QED BY <2>6, <4>1, <4>2
      <3>3. QED BY <3>1, <3>2
    <2>8. \A k \in 1..Len(socket') - 1 : k \in 1..n
      BY <2>4, <2>5
    <2>9. QED BY <2>7, <2>8 DEF InStep
  <1>3. CASE Flush /\ pipelined
    BY <1>3 DEF Flush, InStep
  <1>4. QED BY <1>1, <1>2, <1>3, SocketNext

-----------------------------------------------------------------------------
FrontInv ==
  /\ TypeInv
  /\ PartsFit /\ PartsOnce /\ PartsInOrder /\ Owed
  /\ EndsInv /\ WaitInv
  /\ NothingAfterTheLast /\ InStep

LEMMA FrontInit == Init => FrontInv
  <1> SUFFICES ASSUME Init PROVE FrontInv
    OBVIOUS
  <1>1. /\ socket = << >> /\ outbox = << >> /\ handled = 0 /\ requests = << >>
        /\ files = {} /\ ~pipelined
    BY DEF Init
  <1>2. DOMAIN Line = {} /\ DOMAIN socket = {} /\ DOMAIN outbox = {} /\ Len(requests) = 0
    <2>1. << >> \o << >> = << >> /\ DOMAIN << >> = {} /\ Len(<< >>) = 0
      BY ConcatEmptySeq
    <2>2. QED BY <1>1, <2>1 DEF Line
  <1>3. TypeInv
    BY TypeInit
  <1>4. PartsFit /\ PartsOnce /\ PartsInOrder
    BY <1>2 DEF PartsFit, PartsOnce, PartsInOrder
  <1>5. Owed
    BY <1>1 DEF Owed
  <1>6. EndsInv
    BY <1>1, <1>2 DEF EndsInv, CloseInv, FilesInv
  <1>7. WaitInv
    BY <1>2 DEF WaitInv
  <1>8. NothingAfterTheLast
    BY <1>2 DEF NothingAfterTheLast
  <1>9. InStep
    BY <1>1 DEF InStep
  <1>10. QED BY <1>3, <1>4, <1>5, <1>6, <1>7, <1>8, <1>9 DEF FrontInv

LEMMA FrontStep == FrontInv /\ [Next]_vars => FrontInv'
  <1> SUFFICES ASSUME FrontInv, [Next]_vars PROVE FrontInv'
    OBVIOUS
  <1>1. TypeInv /\ PartsFit /\ PartsOnce /\ PartsInOrder /\ Owed /\ EndsInv /\ WaitInv
        /\ NothingAfterTheLast /\ InStep
    BY DEF FrontInv
  <1>2. TypeInv'
    BY <1>1, TypeStep
  <1>3. PartsFit'
    BY <1>1, FitStep
  <1>4. PartsOnce'
    BY <1>1, OnceStep
  <1>5. PartsInOrder'
    BY <1>1, OrderStep
  <1>6. Owed'
    BY <1>1, OwedStep
  <1>7. EndsInv'
    BY <1>1, EndsStep
  <1>8. WaitInv'
    BY <1>1, WaitStep
  <1>9. NothingAfterTheLast'
    BY <1>1, LastStep
  <1>10. InStep'
    BY <1>1, InStepStep
  <1>11. QED BY <1>2, <1>3, <1>4, <1>5, <1>6, <1>7, <1>8, <1>9, <1>10 DEF FrontInv

(* All that the theorems below rest on, of a connection with any number of
   requests of any kind: what is queued fits its request, once and in order
   but for commands, and what is owed, open or last is accounted for
   (HttpFileHandler, RestApiHandler, HttpUtils). *)
THEOREM FrontInvariant == Spec => []FrontInv
  <1>1. Init => FrontInv
    BY FrontInit
  <1>2. FrontInv /\ [Next]_vars => FrontInv'
    BY FrontStep
  <1>3. QED BY <1>1, <1>2, PTL DEF Spec

(* Every variable has its type, and a closed channel has nothing queued. *)
THEOREM FrontendTypes == Spec => []TypeOK
  <1>1. FrontInv => TypeOK
    BY DEF FrontInv, TypeInv
  <1>2. QED BY <1>1, FrontInvariant, PTL

(* While the connection stands a request that was handled has one answer, sent
   or owed; it never has two (the early returns of the handlers). *)
THEOREM OneAnswerEach == Spec => []AnsweredOnce
  <1>1. FrontInv => AnsweredOnce
    <2> SUFFICES ASSUME FrontInv, NEW i \in 1..handled
                 PROVE  LET n == Cardinality(AnswersTo(i)) + (IF i \in awaiting THEN 1 ELSE 0) IN
                        n <= 1 /\ (connected /\ ~Busy(i) => n = 1)
      BY DEF AnsweredOnce
    <2>0. TypeInv /\ TypeOK /\ PartsOnce /\ Owed
      BY DEF FrontInv, TypeInv
    <2>1. AnswersTo(i) = {k \in DOMAIN Line : Line[k].of = i /\ Line[k].part # "header"}
      BY DEF AnswersTo, Line
    <2>2. \A k \in AnswersTo(i) : k \in Nat /\ i \notin awaiting
      BY <2>0, <2>1, LineParts DEF PartsOnce
    <2>3. \A j, k \in AnswersTo(i) : ~(j < k)
      BY <2>0, <2>1 DEF PartsOnce
    <2>4. \A j, k \in AnswersTo(i) : j = k
      BY <2>2, <2>3
    <2>5. connected /\ ~Busy(i) => i \in awaiting \/ AnswersTo(i) # {}
      BY <2>0, <2>1 DEF Owed, Busy
    <2>6. CASE AnswersTo(i) = {}
      <3>1. Cardinality(AnswersTo(i)) = 0
        BY <2>6, FS_EmptySet
      <3>2. QED BY <2>5, <2>6, <3>1
    <2>7. CASE AnswersTo(i) # {}
      <3>1. PICK k : k \in AnswersTo(i)
        BY <2>7
      <3>2. AnswersTo(i) = {k}
        BY <2>4, <3>1
      <3>3. Cardinality(AnswersTo(i)) = 1
        BY <3>2, FS_Singleton
      <3>4. QED BY <2>2, <3>1, <3>3
    <2>8. QED BY <2>6, <2>7
  <1>2. QED BY <1>1, FrontInvariant, PTL

(* Only the answer to a command comes after that to a later request, or between
   the header and the body of a file, whatever the client sends and when. *)
THEOREM OrderIsKept == Spec => []OnlyCommandsAreLate
  <1>1. FrontInv => OnlyCommandsAreLate
    <2> SUFFICES ASSUME FrontInv PROVE OnlyCommandsAreLate
      OBVIOUS
    <2>1. TypeOK /\ PartsInOrder
      BY DEF FrontInv, TypeInv
    <2>2. \A k \in DOMAIN socket : k \in DOMAIN Line /\ Line[k] = socket[k]
      BY <2>1, LineParts
    <2>3. QED BY <2>1, <2>2 DEF PartsInOrder, OnlyCommandsAreLate
  <1>2. QED BY <1>1, FrontInvariant, PTL

(* A client that waits for each answer gets header and body of a file together,
   and each answer after those to its earlier requests. *)
THEOREM WaitingClientsAreInStep == Spec => []InStep
  <1>1. FrontInv => InStep
    BY DEF FrontInv
  <1>2. QED BY <1>1, FrontInvariant, PTL

(* After an error or a last file only the answers to earlier commands follow,
   although the listener that closes is added after the write. *)
THEOREM LastMeansLast == Spec => []NothingAfterTheLast
  <1>1. FrontInv => NothingAfterTheLast
    BY DEF FrontInv
  <1>2. QED BY <1>1, FrontInvariant, PTL

(* An open file has its worker at it or its region queued, and the region has
   the listener that releases the file as soon as the worker leaves it. *)
THEOREM NoFileIsForgotten == Spec => []FilesAreReleased
  <1>1. FrontInv => FilesAreReleased
    BY DEF FrontInv, EndsInv, FilesInv, FilesAreReleased, Released
  <1>2. QED BY <1>1, FrontInvariant, PTL

=============================================================================
