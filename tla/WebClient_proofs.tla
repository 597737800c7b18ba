--------------------------- MODULE WebClient_proofs ---------------------------
(***************************************************************************)
(* Theorems about the page, for any readers and any number of clicks and   *)
(* calls under way: what it reports of the commands it sends.  They follow *)
(* from what is known of every call that was ever made, of the state it is *)
(* in and of the call that started it.                                     *)
(***************************************************************************)
EXTENDS WebClient, SequenceTheorems, TLAPS

Marks == {"none", "ok", "error", "failed", "empty"}

CallType ==
  [kind : {"list", "read", "send"}, reader : Selections, text : Texts, after : Nat,
   state : {"asked", "served", "done"}, answer : Readers \cup Marks, data : Seq(Nat)]

(* A transcript that has all the other has, at the same places. *)
Within(s, t) == Len(s) <= Len(t) /\ \A i \in 1..Len(s) : s[i] = t[i]

(* What is in a call, and what the server may have answered to it. *)
FieldsInv ==
  \A k \in Ids :
    /\ calls[k].kind # "list" => calls[k].reader # "undefined"
    /\ calls[k].kind = "send" => calls[k].text # "undefined"
    /\ calls[k].after \in 0..k - 1
    /\ calls[k].data = Refusal \/ ToSet(calls[k].data) \subseteq Ids
    /\ calls[k].kind = "list" /\ calls[k].state = "served"
         => calls[k].answer \in Readers \cup {"empty", "failed"}

RecordInv ==
  recorded \in [Readers -> Seq(Nat)] /\ \A r \in Readers : ToSet(recorded[r]) \subseteq Ids

(* A transcript that was read is a part of what is recorded. *)
ReadInv ==
  \A k \in Ids : calls[k].kind = "read" /\ calls[k].answer = "ok" =>
    calls[k].reader \in Readers /\ Within(calls[k].data, recorded[calls[k].reader])

(* A command that was sent is recorded. *)
SendInv ==
  \A k \in Ids : calls[k].kind = "send" /\ calls[k].answer = "ok" =>
    calls[k].reader \in Readers /\ k \in ToSet(recorded[calls[k].reader])

(* Only the success of a send starts a call, and it starts a read. *)
AfterInv ==
  \A k \in Ids : calls[k].after # 0 =>
    LET s == calls[k].after IN
    /\ calls[k].kind = "read" /\ s \in Ids
    /\ calls[s].kind = "send" /\ calls[s].answer = "ok" /\ calls[s].state = "done"

ShownInv ==
  shown # Nothing =>
    /\ shown.reader \in Readers /\ shown.commands \in Seq(Nat)
    /\ Within(shown.commands, recorded[shown.reader])

ViewInv ==
  /\ readerList \in Readers \cup {"nothing", "empty"}
  /\ chosenReader \in Selections
  /\ commandSendingActive \in BOOLEAN /\ showReaderArea \in BOOLEAN
  /\ alert \in {"none", "error", "Command sent", "Connected to reader"}
  /\ command \in Texts
  /\ standing \in [Readers -> {"absent", "online", "gone"}]
  /\ successes \in Nat /\ sentAlerts \in Nat /\ lastSent \in 0..Len(calls)

CallsInv ==
  calls \in Seq(CallType) /\ FieldsInv /\ RecordInv /\ ReadInv /\ SendInv /\ AfterInv

-----------------------------------------------------------------------------
(* Sequences. *)
LEMMA Changed ==
  ASSUME NEW S, NEW s \in Seq(S), NEW k \in DOMAIN s, NEW c \in S, NEW t, t = [s EXCEPT ![k] = c]
  PROVE  /\ t \in Seq(S) /\ Len(t) = Len(s) /\ DOMAIN t = DOMAIN s
         /\ t[k] = c /\ \A j \in DOMAIN s : j # k => t[j] = s[j]
  <1>1. DOMAIN s = 1..Len(s)
    BY LenProperties
  <1>2. /\ t \in Seq(S) /\ Len(t) = Len(s)
        /\ \A j \in 1..Len(s) : t[j] = IF j = k THEN c ELSE s[j]
    BY <1>1, ExceptSeq
  <1>3. DOMAIN t = 1..Len(t)
    BY <1>2, LenProperties
  <1>4. QED BY <1>1, <1>2, <1>3

LEMMA Added ==
  ASSUME NEW S, NEW s \in Seq(S), NEW c \in S, NEW t, t = Append(s, c)
  PROVE  /\ t \in Seq(S) /\ Len(s) \in Nat /\ Len(t) = Len(s) + 1
         /\ DOMAIN s = 1..Len(s) /\ DOMAIN t = DOMAIN s \cup {Len(s) + 1}
         /\ t[Len(s) + 1] = c /\ \A j \in DOMAIN s : t[j] = s[j] /\ j # Len(s) + 1
  <1>1. DOMAIN s = 1..Len(s) /\ Len(s) \in Nat
    BY LenProperties
  <1>2. /\ t \in Seq(S) /\ Len(t) = Len(s) + 1 /\ t[Len(s) + 1] = c
        /\ \A j \in 1..Len(s) : t[j] = s[j]
    BY AppendProperties
  <1>3. DOMAIN t = 1..(Len(s) + 1)
    BY <1>2, LenProperties
  <1>4. \A n \in Nat : 1..(n + 1) = 1..n \cup {n + 1} /\ \A j \in 1..n : j # n + 1
    OBVIOUS
  <1>5. DOMAIN t = DOMAIN s \cup {Len(s) + 1} /\ \A j \in DOMAIN s : j # Len(s) + 1
    BY <1>1, <1>3, <1>4
  <1>6. \A j \in DOMAIN s : t[j] = s[j]
    BY <1>1, <1>2
  <1>7. QED BY <1>1, <1>2, <1>5, <1>6

LEMMA AddedSet ==
  ASSUME NEW S, NEW s \in Seq(S), NEW c \in S
  PROVE  ToSet(Append(s, c)) = ToSet(s) \cup {c}
  <1>1. PICK t : t = Append(s, c)
    OBVIOUS
  <1>2. /\ DOMAIN t = DOMAIN s \cup {Len(s) + 1}
        /\ t[Len(s) + 1] = c /\ \A j \in DOMAIN s : t[j] = s[j]
    BY <1>1, Added
  <1>3. ToSet(t) = ToSet(s) \cup {c}
    BY <1>2 DEF ToSet
  <1>4. QED BY <1>1, <1>3

LEMMA WithinIsPrefix ==
  ASSUME NEW S, NEW s \in Seq(S), NEW t \in Seq(S), Within(s, t)
  PROVE  IsPrefix(s, t)
  <1>1. Len(s) <= Len(t) /\ \A i \in 1..Len(s) : s[i] = t[i]
    BY DEF Within
  <1>2. SubSeq(s, 1, Len(s)) = SubSeq(t, 1, Len(s))
    BY <1>1
  <1>3. QED BY <1>1, <1>2 DEF IsPrefix

(* A transcript only grows at its end. *)
LEMMA WithinGrows ==
  ASSUME NEW s \in Seq(Nat), NEW t \in Seq(Nat), NEW u \in Seq(Nat), Within(s, t), Within(t, u)
  PROVE  Within(s, u)
  <1>1. /\ Len(s) \in Nat /\ Len(t) \in Nat /\ Len(u) \in Nat
        /\ Len(s) <= Len(t) /\ Len(t) <= Len(u)
        /\ \A i \in 1..Len(s) : s[i] = t[i]
        /\ \A i \in 1..Len(t) : t[i] = u[i]
    BY LenProperties DEF Within
  <1>2. \A i \in 1..Len(s) : i \in 1..Len(t)
    BY <1>1
  <1>3. QED BY <1>1, <1>2 DEF Within

-----------------------------------------------------------------------------
(* What a step does to a call. *)
SameCall(k) ==
  /\ calls'[k].kind = calls[k].kind /\ calls'[k].reader = calls[k].reader
  /\ calls'[k].text = calls[k].text /\ calls'[k].after = calls[k].after

SameAnswer(k) == calls'[k].answer = calls[k].answer /\ calls'[k].data = calls[k].data

IsServed(k) ==
  LET r == calls[k].reader
      a == calls'[k].answer IN
  /\ calls[k].state = "asked" /\ calls'[k].state = "served"
  /\ calls'[k].data = Refusal \/ ToSet(calls'[k].data) \subseteq Ids
  /\ calls[k].kind = "list" => a \in Readers \cup {"empty", "failed"}
  /\ calls[k].kind = "read" /\ a = "ok" => r \in Readers /\ calls'[k].data = recorded[r]
  /\ calls[k].kind = "send" /\ a = "ok" => r \in Readers /\ k \in ToSet(recorded'[r])

IsDone(k) == calls[k].state = "served" /\ calls'[k].state = "done" /\ SameAnswer(k)

IsFresh(k) ==
  LET s == calls'[k].after IN
  /\ k = Len(calls) + 1
  /\ calls'[k].state = "asked" /\ calls'[k].answer = "none" /\ calls'[k].data = << >>
  /\ calls'[k].kind \in {"read", "send"} /\ calls'[k].reader # "undefined"
  /\ calls'[k].kind = "send" => calls'[k].text # "undefined"
  /\ \/ s = 0
     \/ /\ calls'[k].kind = "read" /\ s \in Ids
        /\ calls[s].kind = "send" /\ calls[s].answer = "ok" /\ IsDone(s)

CallsMove ==
  /\ calls' \in Seq(CallType)
  /\ \A k \in Ids : /\ k \in Ids' /\ SameCall(k)
                    /\ (calls'[k].state = calls[k].state /\ SameAnswer(k)) \/ IsServed(k) \/ IsDone(k)
  /\ \A k \in Ids' : k \in Ids \/ IsFresh(k)

RecordMoves ==
  /\ recorded' \in [Readers -> Seq(Nat)]
  /\ \A r \in Readers :
       Within(recorded[r], recorded'[r]) /\ ToSet(recorded'[r]) \subseteq ToSet(recorded[r]) \cup Ids

LEMMA ServeEffect ==
  ASSUME calls \in Seq(CallType), NEW k \in Ids, NEW a \in Readers \cup Marks, NEW d \in Seq(Nat),
         Serve(k, a, d)
  PROVE  /\ calls' \in Seq(CallType) /\ Ids' = Ids /\ Len(calls') = Len(calls)
         /\ SameCall(k) /\ calls'[k].state = "served"
         /\ calls'[k].answer = a /\ calls'[k].data = d
         /\ \A j \in Ids : j # k => calls'[j] = calls[j]
  <1>1. calls[k] \in CallType /\ DOMAIN calls = 1..Len(calls)
    BY LenProperties, ElementOfSeq DEF Ids
  <1>2. PICK c : c = [calls[k] EXCEPT !.state = "served", !.answer = a, !.data = d]
    OBVIOUS
  <1>3. /\ c \in CallType /\ c.state = "served" /\ c.answer = a /\ c.data = d
        /\ c.kind = calls[k].kind /\ c.reader = calls[k].reader
        /\ c.text = calls[k].text /\ c.after = calls[k].after
    BY <1>1, <1>2 DEF CallType
  <1>4. calls' = [calls EXCEPT ![k] = c]
    BY <1>1, <1>2 DEF Serve, Ids, CallType
  <1>5. QED BY <1>3, <1>4, Changed DEF Ids, SameCall

LEMMA DoneEffect ==
  ASSUME calls \in Seq(CallType), NEW k \in Ids, NEW t, t = Done(k)
  PROVE  /\ t \in Seq(CallType) /\ DOMAIN t = Ids /\ Len(t) = Len(calls)
         /\ t[k].kind = calls[k].kind /\ t[k].reader = calls[k].reader
         /\ t[k].text = calls[k].text /\ t[k].after = calls[k].after
         /\ t[k].answer = calls[k].answer /\ t[k].data = calls[k].data
         /\ t[k].state = "done"
         /\ \A j \in Ids : j # k => t[j] = calls[j]
  <1>1. calls[k] \in CallType /\ DOMAIN calls = 1..Len(calls)
    BY LenProperties, ElementOfSeq DEF Ids
  <1>2. PICK c : c = [calls[k] EXCEPT !.state = "done"]
    OBVIOUS
  <1>3. /\ c \in CallType /\ c.state = "done" /\ c.answer = calls[k].answer /\ c.data = calls[k].data
        /\ c.kind = calls[k].kind /\ c.reader = calls[k].reader
        /\ c.text = calls[k].text /\ c.after = calls[k].after
    BY <1>1, <1>2 DEF CallType
  <1>4. t = [calls EXCEPT ![k] = c]
    BY <1>2 DEF Done
  <1>5. QED BY <1>3, <1>4, Changed DEF Ids

LEMMA CallTyped ==
  ASSUME NEW kind \in {"list", "read", "send"}, NEW reader \in Selections, NEW text \in Texts, NEW after \in Nat
  PROVE  LET c == Call(kind, reader, text, after) IN
         /\ c \in CallType /\ c.kind = kind /\ c.reader = reader /\ c.text = text /\ c.after = after
         /\ c.state = "asked" /\ c.answer = "none" /\ c.data = << >>
  <1>1. << >> \in Seq(Nat) /\ "none" \in Readers \cup Marks
    BY DEF Marks
  <1>2. QED BY <1>1 DEF Call, CallType

LEMMA ServedMoves ==
  ASSUME calls \in Seq(CallType), NEW k \in Ids, NEW a \in Readers \cup Marks, NEW d \in Seq(Nat),
         Serve(k, a, d), calls[k].state = "asked",
         d = Refusal \/ ToSet(d) \subseteq Ids,
         calls[k].kind = "list" => a \in Readers \cup {"empty", "failed"},
         calls[k].kind = "read" /\ a = "ok" =>
           calls[k].reader \in Readers /\ d = recorded[calls[k].reader],
         calls[k].kind = "send" /\ a = "ok" =>
           calls[k].reader \in Readers /\ k \in ToSet(recorded'[calls[k].reader])
  PROVE  CallsMove
  <1>1. /\ calls' \in Seq(CallType) /\ Ids' = Ids
        /\ SameCall(k) /\ calls'[k].state = "served"
        /\ calls'[k].answer = a /\ calls'[k].data = d
        /\ \A j \in Ids : j # k => calls'[j] = calls[j]
    BY ServeEffect
  <1>2. IsServed(k)
    BY <1>1 DEF IsServed
  <1>3. \A j \in Ids : j # k => SameCall(j) /\ calls'[j].state = calls[j].state /\ SameAnswer(j)
    BY <1>1 DEF SameCall, SameAnswer
  <1>4. QED BY <1>1, <1>2, <1>3 DEF CallsMove

LEMMA DoneMoves ==
  ASSUME calls \in Seq(CallType), NEW k \in Ids, calls' = Done(k), calls[k].state = "served"
  PROVE  CallsMove
  <1>1. PICK t : t = Done(k) /\ t = calls'
    OBVIOUS
  <1>2. /\ t \in Seq(CallType) /\ DOMAIN t = Ids
        /\ t[k].kind = calls[k].kind /\ t[k].reader = calls[k].reader
        /\ t[k].text = calls[k].text /\ t[k].after = calls[k].after
        /\ t[k].answer = calls[k].answer /\ t[k].data = calls[k].data
        /\ t[k].state = "done"
        /\ \A j \in Ids : j # k => t[j] = calls[j]
    BY <1>1, DoneEffect
  <1>3. SameCall(k) /\ IsDone(k)
    BY <1>1, <1>2 DEF SameCall, IsDone, SameAnswer
  <1>4. \A j \in Ids : j # k => SameCall(j) /\ calls'[j].state = calls[j].state /\ SameAnswer(j)
    BY <1>1, <1>2 DEF SameCall, SameAnswer
  <1>5. Ids' = Ids
    BY <1>1, <1>2 DEF Ids
  <1>6. QED BY <1>1, <1>2, <1>3, <1>4, <1>5 DEF CallsMove

LEMMA SameMoves ==
  ASSUME calls \in Seq(CallType), calls' = calls
  PROVE  CallsMove
  BY DEF CallsMove, SameCall, SameAnswer, Ids

(* A click starts a call. *)
LEMMA ClickMoves ==
  ASSUME calls \in Seq(CallType), NEW kind \in {"read", "send"}, NEW text \in Texts,
         chosenReader \in Selections, chosenReader # "undefined", kind = "send" => text # "undefined",
         calls' = Append(calls, Call(kind, chosenReader, text, 0))
  PROVE  CallsMove
  <1>1. PICK c : c = Call(kind, chosenReader, text, 0)
    OBVIOUS
  <1>2. /\ c \in CallType /\ c.kind = kind /\ c.reader = chosenReader /\ c.text = text /\ c.after = 0
        /\ c.state = "asked" /\ c.answer = "none" /\ c.data = << >>
    BY <1>1, CallTyped
  <1>3. PICK t : t = calls' /\ t = Append(calls, c)
    BY <1>1
  <1>4. /\ t \in Seq(CallType) /\ Len(calls) \in Nat
        /\ DOMAIN t = Ids \cup {Len(calls) + 1} /\ t[Len(calls) + 1] = c
        /\ \A j \in Ids : t[j] = calls[j]
    BY <1>2, <1>3, Added DEF Ids
  <1>5. \A j \in Ids : SameCall(j) /\ calls'[j].state = calls[j].state /\ SameAnswer(j)
    BY <1>3, <1>4 DEF SameCall, SameAnswer
  <1>6. IsFresh(Len(calls) + 1)
    BY <1>2, <1>3, <1>4 DEF IsFresh
  <1>7. Ids' = Ids \cup {Len(calls) + 1}
    BY <1>3, <1>4 DEF Ids
  <1>8. QED BY <1>3, <1>4, <1>5, <1>6, <1>7 DEF CallsMove

(* The success of a send starts a read. *)
LEMMA FollowMoves ==
  ASSUME calls \in Seq(CallType), NEW k \in Ids, chosenReader \in Selections, chosenReader # "undefined",
         calls[k].kind = "send", calls[k].answer = "ok", calls[k].state = "served",
         calls' = Append(Done(k), Call("read", chosenReader, "undefined", k))
  PROVE  CallsMove /\ \E j \in Ids' : j \notin Ids /\ calls'[j].state = "asked"
  <1>1. PICK c, s, t : /\ c = Call("read", chosenReader, "undefined", k)
                       /\ s = Done(k) /\ t = calls' /\ t = Append(s, c)
    OBVIOUS
  <1>2. k \in Nat /\ k # 0
    BY LenProperties DEF Ids
  <1>3. /\ c \in CallType /\ c.kind = "read" /\ c.reader = chosenReader /\ c.after = k
        /\ c.state = "asked" /\ c.answer = "none" /\ c.data = << >>
    BY <1>1, <1>2, CallTyped DEF Texts
  <1>4. /\ s \in Seq(CallType) /\ DOMAIN s = Ids /\ Len(s) = Len(calls)
        /\ s[k].kind = calls[k].kind /\ s[k].reader = calls[k].reader
        /\ s[k].text = calls[k].text /\ s[k].after = calls[k].after
        /\ s[k].answer = calls[k].answer /\ s[k].data = calls[k].data
        /\ s[k].state = "done"
        /\ \A j \in Ids : j # k => s[j] = calls[j]
    BY <1>1, DoneEffect
  <1>5. /\ t \in Seq(CallType) /\ Len(calls) \in Nat
        /\ DOMAIN t = Ids \cup {Len(calls) + 1} /\ t[Len(calls) + 1] = c
        /\ \A j \in Ids : t[j] = s[j] /\ j # Len(calls) + 1
    BY <1>1, <1>3, <1>4, Added
  <1>6. SameCall(k) /\ IsDone(k)
    BY <1>1, <1>4, <1>5 DEF SameCall, IsDone, SameAnswer
  <1>7. \A j \in Ids : j # k => SameCall(j) /\ calls'[j].state = calls[j].state /\ SameAnswer(j)
    BY <1>1, <1>4, <1>5 DEF SameCall, SameAnswer
  <1>8. IsFresh(Len(calls) + 1)
    BY <1>1, <1>3, <1>5, <1>6 DEF IsFresh
  <1>9. Ids' = Ids \cup {Len(calls) + 1}
    BY <1>1, <1>5 DEF Ids
  <1>10. calls'[Len(calls) + 1].state = "asked"
    BY <1>1, <1>3, <1>5
  <1>11. CallsMove
    BY <1>1, <1>5, <1>6, <1>7, <1>8, <1>9 DEF CallsMove
  <1>12. QED BY <1>5, <1>9, <1>10, <1>11

LEMMA RecordKept ==
  ASSUME RecordInv, recorded' = recorded
  PROVE  RecordMoves
  <1>1. \A r \in Readers : Within(recorded[r], recorded[r])
    <2>1. \A s \in Seq(Nat) : Within(s, s)
      BY LenProperties DEF Within
    <2>2. QED BY <2>1 DEF RecordInv
  <1>2. QED BY <1>1 DEF RecordMoves, RecordInv

LEMMA RecordAdded ==
  ASSUME RecordInv, NEW r \in Readers, NEW k \in Ids, Ids \subseteq Nat,
         recorded' = [recorded EXCEPT ![r] = Append(@, k)]
  PROVE  RecordMoves /\ k \in ToSet(recorded'[r])
  <1>1. PICK t : t = Append(recorded[r], k)
    OBVIOUS
  <1>2. recorded[r] \in Seq(Nat) /\ k \in Nat
    BY DEF RecordInv
  <1>3. /\ t \in Seq(Nat) /\ Len(recorded[r]) \in Nat /\ Len(t) = Len(recorded[r]) + 1
        /\ DOMAIN recorded[r] = 1..Len(recorded[r])
        /\ \A j \in DOMAIN recorded[r] : t[j] = recorded[r][j]
        /\ ToSet(t) = ToSet(recorded[r]) \cup {k}
    <2>1. PICK s \in Seq(Nat) : s = recorded[r]
      BY <1>2
    <2>2. t = Append(s, k) /\ k \in Nat
      BY <1>1, <1>2, <2>1
    <2>3. /\ t \in Seq(Nat) /\ Len(s) \in Nat /\ Len(t) = Len(s) + 1
          /\ DOMAIN s = 1..Len(s) /\ \A j \in DOMAIN s : t[j] = s[j]
      BY <2>2, Added
    <2>4. ToSet(t) = ToSet(s) \cup {k}
      BY <2>2, AddedSet
    <2>5. QED BY <2>1, <2>3, <2>4
  <1>4. Within(recorded[r], t)
    <2>1. PICK s : s = recorded[r] /\ Len(s) \in Nat /\ DOMAIN s = 1..Len(s)
      BY <1>3
    <2>2. Len(s) <= Len(t)
      BY <1>3, <2>1
    <2>3. \A j \in 1..Len(s) : s[j] = t[j]
      BY <1>3, <2>1
    <2>4. QED BY <2>1, <2>2, <2>3 DEF Within
  <1>5. /\ recorded' \in [Readers -> Seq(Nat)] /\ recorded'[r] = t
        /\ \A q \in Readers : q # r => recorded'[q] = recorded[q]
    BY <1>1, <1>3 DEF RecordInv
  <1>6. \A q \in Readers : Within(recorded[q], recorded[q])
    <2>1. \A s \in Seq(Nat) : Within(s, s)
      BY LenProperties DEF Within
    <2>2. QED BY <2>1 DEF RecordInv
  <1>7. \A q \in Readers :
          Within(recorded[q], recorded'[q]) /\ ToSet(recorded'[q]) \subseteq ToSet(recorded[q]) \cup Ids
    <2> TAKE q \in Readers
    <2>1. CASE q = r
      BY <1>3, <1>4, <1>5, <2>1
    <2>2. CASE q # r
      BY <1>5, <1>6, <2>2
    <2>3. QED BY <2>1, <2>2
  <1>8. k \in ToSet(recorded'[r])
    BY <1>3, <1>5
  <1>9. QED BY <1>5, <1>7, <1>8 DEF RecordMoves

LEMMA CallsNext ==
  ASSUME CallsInv, ViewInv, [Next]_vars
  PROVE  CallsMove /\ RecordMoves
  <1>0. /\ calls \in Seq(CallType) /\ RecordInv /\ chosenReader \in Selections /\ command \in Texts
        /\ Ids \subseteq Nat /\ Online \subseteq Readers
        /\ << >> \in Seq(Nat) /\ Refusal \in Seq(Nat) /\ ToSet(<< >>) = {}
        /\ Readers \subseteq Readers \cup Marks /\ {"empty", "ok", "error", "failed"} \subseteq Readers \cup Marks
    <2>1. calls \in Seq(CallType) /\ RecordInv /\ chosenReader \in Selections /\ command \in Texts
      BY DEF CallsInv, ViewInv
    <2>2. Ids \subseteq Nat
      BY <2>1, LenProperties DEF Ids
    <2>3. Online \subseteq Readers /\ {"empty", "ok", "error", "failed"} \subseteq Readers \cup Marks
      BY DEF Online, Marks
    <2>4. << >> \in Seq(Nat) /\ Refusal \in Seq(Nat)
      BY DEF Refusal
    <2>5. ToSet(<< >>) = {}
      BY DEF ToSet
    <2>6. QED BY <2>1, <2>2, <2>3, <2>4, <2>5
  <1>1. ASSUME UNCHANGED <<calls, recorded>> PROVE CallsMove /\ RecordMoves
    BY <1>0, <1>1, SameMoves, RecordKept
  <1>2. ASSUME NEW k \in Ids, ServeList(k) PROVE CallsMove /\ RecordMoves
    <2>1. /\ calls[k].state = "asked" /\ calls[k].kind = "list" /\ recorded' = recorded
          /\ \E a \in Readers \cup {"empty"} : Serve(k, a, << >>)
      BY <1>0, <1>2 DEF ServeList, Asked, server
    <2>2. PICK a \in Readers \cup {"empty"} : Serve(k, a, << >>)
      BY <2>1
    <2>3. QED BY <1>0, <2>1, <2>2, ServedMoves, RecordKept
  <1>3. ASSUME NEW k \in Ids, ServeRead(k) PROVE CallsMove /\ RecordMoves
    <2>0. calls[k].state = "asked" /\ calls[k].kind = "read" /\ recorded' = recorded
      BY <1>3 DEF ServeRead, Asked, server
    <2>1. CASE calls[k].reader \in Online
      <3>1. Serve(k, "ok", recorded[calls[k].reader])
        BY <1>3, <2>1 DEF ServeRead
      <3>2. /\ calls[k].reader \in Readers /\ recorded[calls[k].reader] \in Seq(Nat)
            /\ ToSet(recorded[calls[k].reader]) \subseteq Ids
        BY <1>0, <2>1 DEF RecordInv
      <3>3. PICK d : d = recorded[calls[k].reader]
        OBVIOUS
      <3>4. QED BY <1>0, <2>0, <3>1, <3>2, <3>3, ServedMoves, RecordKept
    <2>2. CASE calls[k].reader \notin Online
      <3>1. Serve(k, "error", Refusal)
        BY <1>3, <2>2 DEF ServeRead
      <3>2. QED BY <1>0, <2>0, <3>1, ServedMoves, RecordKept
    <2>3. QED BY <2>1, <2>2
  <1>4. ASSUME NEW k \in Ids, ServeSend(k) PROVE CallsMove /\ RecordMoves
    <2>0. calls[k].state = "asked" /\ calls[k].kind = "send"
      BY <1>4 DEF ServeSend, Asked
    <2>1. CASE calls[k].reader \in Online
      <3>1. /\ calls[k].reader \in Readers
            /\ recorded' = [recorded EXCEPT ![calls[k].reader] = Append(@, k)]
            /\ Serve(k, "failed", << >>) \/ Serve(k, "ok", << >>) \/ Serve(k, "error", Refusal)
        BY <1>0, <1>4, <2>1 DEF ServeSend
      <3>2. RecordMoves /\ k \in ToSet(recorded'[calls[k].reader])
        BY <1>0, <3>1, RecordAdded
      <3>3. QED BY <1>0, <2>0, <3>1, <3>2, ServedMoves
    <2>2. CASE calls[k].reader \notin Online
      <3>1. Serve(k, "error", Refusal) /\ recorded' = recorded
        BY <1>4, <2>2 DEF ServeSend
      <3>2. QED BY <1>0, <2>0, <3>1, ServedMoves, RecordKept
    <2>3. QED BY <2>1, <2>2
  <1>5. ASSUME NEW k \in Ids, ServeFails(k) PROVE CallsMove /\ RecordMoves
    <2>1. calls[k].state = "asked" /\ Serve(k, "failed", << >>) /\ recorded' = recorded
      BY <1>5 DEF ServeFails, server
    <2>2. QED BY <1>0, <2>1, ServedMoves, RecordKept
  <1>6. ASSUME NEW k \in Ids, calls[k].state = "served", calls' = Done(k), recorded' = recorded
        PROVE  CallsMove /\ RecordMoves
    BY <1>0, <1>6, DoneMoves, RecordKept
  <1>7. ASSUME NEW k \in Ids, ListAnswered(k) \/ ReadAnswered(k) PROVE CallsMove /\ RecordMoves
    BY <1>6, <1>7 DEF ListAnswered, ReadAnswered, server
  <1>8. ASSUME NEW k \in Ids, SendAnswered(k) PROVE CallsMove /\ RecordMoves
    <2>1. calls[k].kind = "send" /\ calls[k].state = "served" /\ recorded' = recorded
      BY <1>8 DEF SendAnswered, server
    <2>2. CASE calls' = Done(k)
      BY <1>6, <2>1, <2>2
    <2>3. CASE calls' # Done(k)
      <3>1. /\ calls[k].answer = "ok" /\ chosenReader # "undefined"
            /\ calls' = Append(Done(k), Call("read", chosenReader, "undefined", k))
        BY <1>8, <2>3 DEF SendAnswered, ConnectToReader
      <3>2. QED BY <1>0, <2>1, <3>1, FollowMoves, RecordKept
    <2>4. QED BY <2>2, <2>3
  <1>9. CASE Connect
    <2>1. recorded' = recorded
      BY <1>9 DEF Connect, server
    <2>2. CASE calls' = calls
      BY <1>1, <2>1, <2>2
    <2>3. CASE calls' # calls
      <3>1. chosenReader # "undefined" /\ calls' = Append(calls, Call("read", chosenReader, "undefined", 0))
        BY <1>9, <2>3 DEF Connect, ConnectToReader
      <3>2. QED BY <1>0, <2>1, <3>1, ClickMoves, RecordKept DEF Texts
    <2>4. QED BY <2>2, <2>3
  <1>10. CASE SendCommand
    <2>1. /\ recorded' = recorded /\ command # "undefined" /\ chosenReader # "undefined"
          /\ calls' = Append(calls, Call("send", chosenReader, command, 0))
      BY <1>10 DEF SendCommand, MaySend, server
    <2>2. QED BY <1>0, <2>1, ClickMoves, RecordKept
  <1>11. CASE Choose \/ DefaultSelect \/ DefaultReadBinary \/ Type \/ ResetAlert
    BY <1>1, <1>11 DEF Choose, DefaultSelect, DefaultReadBinary, Type, Enter, ResetAlert, server
  <1>12. ASSUME NEW r \in Readers, Comes(r) \/ Leaves(r) PROVE CallsMove /\ RecordMoves
    BY <1>1, <1>12 DEF Comes, Leaves
  <1>13. CASE UNCHANGED vars
    BY <1>1, <1>13 DEF vars, server
  <1>14. QED
    BY <1>2, <1>3, <1>4, <1>5, <1>7, <1>8, <1>9, <1>10, <1>11, <1>12, <1>13 DEF Next

-----------------------------------------------------------------------------
(* What is known of the calls stays true. *)
LEMMA FieldsStep ==
  ASSUME calls \in Seq(CallType), FieldsInv, CallsMove
  PROVE  FieldsInv'
  <1>0. DOMAIN calls = 1..Len(calls) /\ Len(calls) \in Nat
    BY LenProperties
  <1>1. Ids \subseteq Ids'
    BY DEF CallsMove
  <1> SUFFICES ASSUME NEW k \in Ids'
               PROVE  /\ calls'[k].kind # "list" => calls'[k].reader # "undefined"
                      /\ calls'[k].kind = "send" => calls'[k].text # "undefined"
                      /\ calls'[k].after \in 0..k - 1
                      /\ calls'[k].data = Refusal \/ ToSet(calls'[k].data) \subseteq Ids'
                      /\ calls'[k].kind = "list" /\ calls'[k].state = "served"
                           => calls'[k].answer \in Readers \cup {"empty", "failed"}
    BY DEF FieldsInv
  <1>2. CASE k \in Ids
    <2>1. SameCall(k) /\ ((calls'[k].state = calls[k].state /\ SameAnswer(k)) \/ IsServed(k) \/ IsDone(k))
      BY <1>2 DEF CallsMove
    <2>2. /\ calls'[k].kind # "list" => calls'[k].reader # "undefined"
          /\ calls'[k].kind = "send" => calls'[k].text # "undefined"
          /\ calls'[k].after \in 0..k - 1
      BY <1>2, <2>1 DEF FieldsInv, SameCall
    <2>3. calls'[k].data = Refusal \/ ToSet(calls'[k].data) \subseteq Ids'
      BY <1>1, <1>2, <2>1 DEF FieldsInv, SameAnswer, IsServed, IsDone
    <2>4. calls'[k].kind = "list" /\ calls'[k].state = "served"
            => calls'[k].answer \in Readers \cup {"empty", "failed"}
      BY <1>2, <2>1 DEF FieldsInv, SameCall, SameAnswer, IsServed, IsDone
    <2>5. QED BY <2>2, <2>3, <2>4
  <1>3. CASE IsFresh(k)
    <2>1. calls'[k].after \in 0..k - 1
      <3>1. calls'[k].after = 0 \/ calls'[k].after \in Ids
        BY <1>3 DEF IsFresh
      <3>2. k = Len(calls) + 1
        BY <1>3 DEF IsFresh
      <3>3. QED BY <1>0, <3>1, <3>2 DEF Ids
    <2>2. ToSet(calls'[k].data) = {}
      BY <1>3 DEF IsFresh, ToSet
    <2>3. QED BY <1>3, <2>1, <2>2 DEF IsFresh
  <1>4. QED BY <1>2, <1>3 DEF CallsMove

LEMMA ReadStep ==
  ASSUME CallsInv, CallsMove, RecordMoves
  PROVE  ReadInv'
  <1> SUFFICES ASSUME NEW k \in Ids', calls'[k].kind = "read", calls'[k].answer = "ok"
               PROVE  calls'[k].reader \in Readers /\ Within(calls'[k].data, recorded'[calls'[k].reader])
    BY DEF ReadInv
  <1>1. CASE IsFresh(k)
    BY <1>1 DEF IsFresh
  <1>2. CASE k \in Ids
    <2>1. SameCall(k) /\ ((calls'[k].state = calls[k].state /\ SameAnswer(k)) \/ IsServed(k) \/ IsDone(k))
      BY <1>2 DEF CallsMove
    <2>2. PICK r, d : r = calls[k].reader /\ r = calls'[k].reader /\ d = calls'[k].data
      BY <2>1 DEF SameCall
    <2>3. /\ calls'[k] \in CallType
          /\ \A q \in Readers : /\ recorded[q] \in Seq(Nat) /\ recorded'[q] \in Seq(Nat)
                                /\ Within(recorded[q], recorded'[q])
      <3>1. calls' \in Seq(CallType) /\ DOMAIN calls' = 1..Len(calls')
        BY LenProperties DEF CallsMove
      <3>2. calls'[k] \in CallType
        BY <3>1, ElementOfSeq DEF Ids
      <3>3. QED BY <3>2 DEF CallsInv, RecordInv, RecordMoves
    <2>4. d \in Seq(Nat)
      BY <2>2, <2>3 DEF CallType
    <2>5. r \in Readers /\ Within(d, recorded[r])
      <3>1. CASE IsServed(k)
        <4>1. r \in Readers /\ d = recorded[r]
          BY <2>1, <2>2, <3>1 DEF IsServed, SameCall
        <4>2. \A s \in Seq(Nat) : Within(s, s)
          BY LenProperties DEF Within
        <4>3. QED BY <2>3, <4>1, <4>2
      <3>2. CASE SameAnswer(k)
        BY <1>2, <2>1, <2>2, <3>2 DEF SameAnswer, SameCall, CallsInv, ReadInv
      <3>3. QED BY <2>1, <3>1, <3>2 DEF IsDone
    <2>6. Within(d, recorded'[r])
      BY <2>3, <2>4, <2>5, WithinGrows
    <2>7. QED BY <2>2, <2>5, <2>6
  <1>3. QED BY <1>1, <1>2 DEF CallsMove

LEMMA WithinHas ==
  ASSUME NEW s \in Seq(Nat), NEW t \in Seq(Nat), Within(s, t), NEW e \in ToSet(s)
  PROVE  e \in ToSet(t)
  <1>1. /\ DOMAIN s = 1..Len(s) /\ Len(s) \in Nat /\ DOMAIN t = 1..Len(t) /\ Len(t) \in Nat
        /\ Len(s) <= Len(t) /\ \A i \in 1..Len(s) : s[i] = t[i]
    BY LenProperties DEF Within
  <1>2. PICK i \in 1..Len(s) : e = s[i]
    BY <1>1 DEF ToSet
  <1>3. i \in 1..Len(t) /\ e = t[i]
    BY <1>1, <1>2
  <1>4. QED BY <1>1, <1>3 DEF ToSet

LEMMA SendStep ==
  ASSUME CallsInv, CallsMove, RecordMoves
  PROVE  SendInv'
  <1> SUFFICES ASSUME NEW k \in Ids', calls'[k].kind = "send", calls'[k].answer = "ok"
               PROVE  calls'[k].reader \in Readers /\ k \in ToSet(recorded'[calls'[k].reader])
    BY DEF SendInv
  <1>1. CASE IsFresh(k)
    BY <1>1 DEF IsFresh
  <1>2. CASE k \in Ids
    <2>1. SameCall(k) /\ ((calls'[k].state = calls[k].state /\ SameAnswer(k)) \/ IsServed(k) \/ IsDone(k))
      BY <1>2 DEF CallsMove
    <2>2. CASE IsServed(k)
      BY <2>1, <2>2 DEF IsServed, SameCall
    <2>3. CASE SameAnswer(k)
      <3>1. calls[k].reader \in Readers /\ k \in ToSet(recorded[calls[k].reader])
        BY <1>2, <2>1, <2>3 DEF SameAnswer, SameCall, CallsInv, SendInv
      <3>2. PICK r : r = calls[k].reader /\ r = calls'[k].reader
        BY <2>1 DEF SameCall
      <3>3. /\ recorded[r] \in Seq(Nat) /\ recorded'[r] \in Seq(Nat)
            /\ Within(recorded[r], recorded'[r])
        BY <3>1, <3>2 DEF CallsInv, RecordInv, RecordMoves
      <3>4. k \in ToSet(recorded'[r])
        BY <3>1, <3>2, <3>3, WithinHas
      <3>5. QED BY <3>1, <3>2, <3>4
    <2>4. QED BY <2>1, <2>2, <2>3 DEF IsDone
  <1>3. QED BY <1>1, <1>2 DEF CallsMove

LEMMA AfterStep ==
  ASSUME AfterInv, CallsMove
  PROVE  AfterInv'
  <1>1. \A s \in Ids : calls[s].state = "done" => SameCall(s) /\ SameAnswer(s) /\ calls'[s].state = "done"
    BY DEF CallsMove, IsServed, IsDone
  <1>2. \A s \in Ids : s \in Ids' /\ SameCall(s)
    BY DEF CallsMove
  <1> SUFFICES ASSUME NEW k \in Ids', NEW s, s = calls'[k].after, s # 0
               PROVE  /\ calls'[k].kind = "read" /\ s \in Ids'
                      /\ calls'[s].kind = "send" /\ calls'[s].answer = "ok" /\ calls'[s].state = "done"
    BY DEF AfterInv
  <1>3. CASE k \in Ids
    <2>1. /\ calls[k].kind = "read" /\ s \in Ids
          /\ calls[s].kind = "send" /\ calls[s].answer = "ok" /\ calls[s].state = "done"
      BY <1>2, <1>3 DEF AfterInv, SameCall
    <2>2. QED BY <1>1, <1>2, <1>3, <2>1 DEF SameCall, SameAnswer
  <1>4. CASE IsFresh(k)
    <2>1. /\ calls'[k].kind = "read" /\ s \in Ids
          /\ calls[s].kind = "send" /\ calls[s].answer = "ok" /\ IsDone(s)
      BY <1>4 DEF IsFresh
    <2>2. QED BY <1>2, <2>1 DEF IsDone, SameAnswer, SameCall
  <1>5. QED BY <1>3, <1>4 DEF CallsMove

LEMMA CallsStep ==
  ASSUME CallsInv, ViewInv, [Next]_vars
  PROVE  CallsInv'
  <1>1. CallsMove /\ RecordMoves
    BY CallsNext
  <1>2. calls \in Seq(CallType) /\ FieldsInv /\ RecordInv /\ AfterInv
    BY DEF CallsInv
  <1>3. calls' \in Seq(CallType)
    BY <1>1 DEF CallsMove
  <1>4. FieldsInv'
    BY <1>1, <1>2, FieldsStep
  <1>5. RecordInv'
    <2>1. Ids \subseteq Ids'
      BY <1>1 DEF CallsMove
    <2>2. QED BY <1>1, <1>2, <2>1 DEF RecordMoves, RecordInv
  <1>6. ReadInv'
    BY <1>1, ReadStep
  <1>7. SendInv'
    BY <1>1, SendStep
  <1>8. AfterInv'
    BY <1>1, <1>2, AfterStep
  <1>9. QED BY <1>3, <1>4, <1>5, <1>6, <1>7, <1>8 DEF CallsInv

LEMMA ViewStep ==
  ASSUME CallsInv, ViewInv, [Next]_vars
  PROVE  ViewInv'
  <1>0. /\ CallsMove /\ Len(calls) \in Nat /\ DOMAIN calls = 1..Len(calls)
        /\ Len(calls') \in Nat /\ DOMAIN calls' = 1..Len(calls')
    <2>1. calls \in Seq(CallType) /\ CallsMove
      BY CallsNext DEF CallsInv
    <2>2. calls' \in Seq(CallType)
      BY <2>1 DEF CallsMove
    <2>3. QED BY <2>1, <2>2, LenProperties
  <1>1. Len(calls) <= Len(calls')
    <2>1. \A a, b \in Nat : 1..a \subseteq 1..b => a <= b
      OBVIOUS
    <2>2. Ids \subseteq Ids'
      BY <1>0 DEF CallsMove
    <2>3. QED BY <1>0, <2>1, <2>2 DEF Ids
  <1>2. lastSent' \in 0..Len(calls')
    <2>1. lastSent' = lastSent \/ lastSent' \in Ids
      BY DEF Next, vars, page, history, server, Comes, Leaves, ServeList, ServeRead, ServeSend, ServeFails,
             ListAnswered, ReadAnswered, SendAnswered, Choose, DefaultSelect, DefaultReadBinary, Type, Enter,
             Connect, SendCommand, ResetAlert
    <2>2. \A a, b \in Nat : a <= b => \A x \in 0..a : x \in 0..b
      OBVIOUS
    <2>3. lastSent' \in 0..Len(calls)
      <3>1. lastSent \in 0..Len(calls)
        BY DEF ViewInv
      <3>2. \A x \in 1..Len(calls) : x \in 0..Len(calls)
        BY <1>0
      <3>3. QED BY <1>0, <2>1, <3>1, <3>2 DEF Ids
    <2>4. QED BY <1>0, <1>1, <2>2, <2>3
  <1>3. ASSUME UNCHANGED <<page, standing, history>> PROVE ViewInv'
    BY <1>2, <1>3 DEF ViewInv, page, history
  <1>4. ASSUME NEW r \in Readers, Comes(r) \/ Leaves(r) PROVE ViewInv'
    <2>1. standing' \in [Readers -> {"absent", "online", "gone"}] /\ UNCHANGED <<page, history>>
      BY <1>4 DEF Comes, Leaves, ViewInv
    <2>2. QED BY <1>2, <2>1 DEF ViewInv, page, history
  <1>5. ASSUME NEW k \in Ids, ServeList(k) \/ ServeRead(k) \/ ServeSend(k) \/ ServeFails(k) PROVE ViewInv'
    BY <1>3, <1>5 DEF ServeList, ServeRead, ServeSend, ServeFails, server
  <1>6. ASSUME NEW k \in Ids, ListAnswered(k) PROVE ViewInv'
    <2>1. readerList' \in Readers \cup {"nothing", "empty"} /\ chosenReader' \in Selections
      <3>1. calls[k].answer \in Readers \cup {"empty", "failed"}
        BY <1>6 DEF ListAnswered, CallsInv, FieldsInv
      <3>2. CASE calls[k].answer = "failed"
        BY <1>6, <3>2 DEF ListAnswered, ViewInv
      <3>3. CASE calls[k].answer # "failed"
        BY <1>6, <3>1, <3>3 DEF ListAnswered, Selections
      <3>4. QED BY <3>2, <3>3
    <2>2. QED BY <1>2, <1>6, <2>1 DEF ListAnswered, ViewInv, server, history
  <1>7. ASSUME NEW k \in Ids, ReadAnswered(k) PROVE ViewInv'
    <2>1. /\ UNCHANGED <<readerList, chosenReader, command, standing, successes, lastSent>>
          /\ commandSendingActive' \in BOOLEAN /\ showReaderArea' \in BOOLEAN
          /\ alert' \in {"none", "error", "Command sent", "Connected to reader"}
      BY <1>7 DEF ReadAnswered, SetAlert, NoLongerActive, ViewInv, server
    <2>2. sentAlerts' \in Nat
      <3>1. sentAlerts \in Nat
        BY DEF ViewInv
      <3>2. sentAlerts' \in {sentAlerts, sentAlerts + 0, sentAlerts + 1}
        BY <1>7 DEF ReadAnswered
      <3>3. QED BY <3>1, <3>2
    <2>3. QED BY <1>2, <2>1, <2>2 DEF ViewInv
  <1>8. ASSUME NEW k \in Ids, SendAnswered(k) PROVE ViewInv'
    <2>1. /\ UNCHANGED <<readerList, chosenReader, showReaderArea, command, standing, sentAlerts>>
          /\ commandSendingActive' \in BOOLEAN
          /\ alert' \in {"none", "error", "Command sent", "Connected to reader"}
      BY <1>8 DEF SendAnswered, SetAlert, ViewInv, server
    <2>2. successes' \in Nat
      <3>1. successes \in Nat
        BY DEF ViewInv
      <3>2. successes' \in {successes, successes + 1}
        BY <1>8 DEF SendAnswered
      <3>3. QED BY <3>1, <3>2
    <2>3. QED BY <1>2, <2>1, <2>2 DEF ViewInv
  <1>9. CASE Choose
    BY <1>2, <1>9 DEF Choose, ViewInv, Selections, server, history
  <1>10. ASSUME NEW text \in Texts, Enter(text) PROVE ViewInv'
    BY <1>2, <1>10 DEF Enter, ViewInv, server, history
  <1>11. CASE DefaultSelect \/ DefaultReadBinary \/ Type
    BY <1>10, <1>11 DEF DefaultSelect, DefaultReadBinary, Type, Texts
  <1>12. CASE Connect \/ SendCommand
    BY <1>3, <1>12 DEF Connect, SendCommand, server
  <1>13. CASE ResetAlert
    BY <1>2, <1>13 DEF ResetAlert, ViewInv, server, history
  <1>14. CASE UNCHANGED vars
    BY <1>3, <1>14 DEF vars, server
  <1>15. QED
    BY <1>4, <1>5, <1>6, <1>7, <1>8, <1>9, <1>11, <1>12, <1>13, <1>14 DEF Next

-----------------------------------------------------------------------------
LEMMA ShownStep ==
  ASSUME CallsInv, ViewInv, ShownInv, [Next]_vars
  PROVE  ShownInv'
  <1>1. RecordMoves /\ RecordInv
    BY CallsNext DEF CallsInv
  <1>2. CASE shown' = shown
    <2> SUFFICES ASSUME shown # Nothing
                 PROVE  Within(shown.commands, recorded'[shown.reader])
      BY <1>2 DEF ShownInv
    <2>1. PICK r, s : r = shown.reader /\ s = shown.commands
      OBVIOUS
    <2>2. r \in Readers /\ s \in Seq(Nat) /\ Within(s, recorded[r])
      BY <2>1 DEF ShownInv
    <2>3. /\ recorded[r] \in Seq(Nat) /\ recorded'[r] \in Seq(Nat)
          /\ Within(recorded[r], recorded'[r])
      BY <1>1, <2>2 DEF RecordMoves, RecordInv
    <2>4. QED BY <2>1, <2>2, <2>3, WithinGrows
  <1>3. ASSUME NEW k \in Ids, ReadAnswered(k), HasData(k) PROVE ShownInv'
    <2>1. /\ shown' = [reader |-> calls[k].reader, commands |-> calls[k].data]
          /\ recorded' = recorded /\ calls[k].kind = "read" /\ calls[k].answer = "ok"
      BY <1>3 DEF ReadAnswered, HasData, server
    <2>2. calls[k].reader \in Readers /\ Within(calls[k].data, recorded[calls[k].reader])
      BY <2>1 DEF CallsInv, ReadInv
    <2>3. calls[k].data \in Seq(Nat)
      <3>1. calls \in Seq(CallType) /\ DOMAIN calls = 1..Len(calls)
        BY LenProperties DEF CallsInv
      <3>2. calls[k] \in CallType
        BY <3>1, ElementOfSeq DEF Ids
      <3>3. QED BY <3>2 DEF CallType
    <2>4. QED BY <2>1, <2>2, <2>3 DEF ShownInv
  <1>4. shown' = shown \/ \E k \in Ids : ReadAnswered(k) /\ HasData(k)
    <2>1. ASSUME NEW k \in Ids, ReadAnswered(k), ~HasData(k) PROVE shown' = shown
      BY <2>1 DEF ReadAnswered
    <2>2. (\E k \in Ids : ReadAnswered(k)) \/ shown' = shown
      BY DEF Next, vars, page, Comes, Leaves, ServeList, ServeRead, ServeSend, ServeFails,
             ListAnswered, SendAnswered, Choose, DefaultSelect, DefaultReadBinary, Type, Enter,
             Connect, SendCommand, ResetAlert
    <2>3. QED BY <2>1, <2>2
  <1>5. QED BY <1>2, <1>3, <1>4

(* The read was answered after the send that started it. *)
LEMMA FollowStep ==
  ASSUME CallsInv, CallsMove, FollowUpShowsCommand
  PROVE  FollowUpShowsCommand'
  <1> SUFFICES ASSUME NEW k \in Ids', NEW s, s = calls'[k].after, calls'[k].kind = "read", s # 0,
                      calls'[k].answer = "ok", calls'[k].reader = calls'[s].reader
               PROVE  s \in ToSet(calls'[k].data)
    BY DEF FollowUpShowsCommand
  <1>1. CASE IsFresh(k)
    BY <1>1 DEF IsFresh
  <1>2. CASE k \in Ids
    <2>1. SameCall(k) /\ ((calls'[k].state = calls[k].state /\ SameAnswer(k)) \/ IsServed(k) \/ IsDone(k))
      BY <1>2 DEF CallsMove
    <2>2. s = calls[k].after /\ calls[k].kind = "read"
      BY <2>1 DEF SameCall
    <2>3. s \in Ids /\ calls[s].kind = "send" /\ calls[s].answer = "ok"
      BY <1>2, <2>2 DEF CallsInv, AfterInv
    <2>4. calls[k].reader = calls[s].reader
      BY <2>1, <2>3 DEF CallsMove, SameCall
    <2>5. CASE IsServed(k)
      <3>1. s \in ToSet(recorded[calls[s].reader])
        BY <2>3 DEF CallsInv, SendInv
      <3>2. QED BY <2>2, <2>4, <2>5, <3>1 DEF IsServed
    <2>6. CASE SameAnswer(k)
      BY <1>2, <2>2, <2>4, <2>6 DEF SameAnswer, FollowUpShowsCommand
    <2>7. QED BY <2>1, <2>5, <2>6 DEF IsDone
  <1>3. QED BY <1>1, <1>2 DEF CallsMove

(* A call ends with its callback. *)
LEMMA EndsInCallback ==
  ASSUME CallsInv, [Next]_vars, NEW j \in Ids, calls[j].state = "served", calls'[j].state = "done"
  PROVE  ListAnswered(j) \/ ReadAnswered(j) \/ SendAnswered(j)
  <1>0. calls \in Seq(CallType)
    BY DEF CallsInv
  <1>1. calls' # calls
    OBVIOUS
  <1>2. ASSUME NEW k \in Ids, NEW a, NEW d, calls[k].state = "asked", Serve(k, a, d) PROVE FALSE
    <2>1. j # k
      BY <1>2
    <2>2. calls'[j] = calls[j]
      BY <1>2, <2>1 DEF Serve, Ids
    <2>3. QED BY <2>2
  <1>3. ASSUME NEW k \in Ids, ServeList(k) \/ ServeRead(k) \/ ServeSend(k) \/ ServeFails(k) PROVE FALSE
    BY <1>2, <1>3 DEF ServeList, ServeRead, ServeSend, ServeFails, Asked
  <1>4. ASSUME NEW c, calls' = Append(calls, c) PROVE FALSE
    <2>1. calls'[j] = calls[j]
      BY <1>0, <1>4, LenProperties DEF Ids
    <2>2. QED BY <2>1
  <1>5. CASE Connect \/ SendCommand
    BY <1>1, <1>4, <1>5 DEF Connect, SendCommand, ConnectToReader
  <1>6. ASSUME NEW k \in Ids, ListAnswered(k) \/ ReadAnswered(k) \/ SendAnswered(k), j # k PROVE FALSE
    <2>1. PICK t : t = Done(k)
      OBVIOUS
    <2>2. t \in Seq(CallType) /\ DOMAIN t = Ids /\ t[j] = calls[j]
      BY <1>0, <1>6, <2>1, DoneEffect
    <2>3. calls' = t \/ \E c : calls' = Append(t, c)
      BY <1>6, <2>1 DEF ListAnswered, ReadAnswered, SendAnswered, ConnectToReader
    <2>4. calls'[j] = calls[j]
      <3>1. \A c : Append(t, c)[j] = t[j]
        BY <2>2, LenProperties
      <3>2. QED BY <2>2, <2>3, <3>1
    <2>5. QED BY <2>4
  <1>7. CASE Choose \/ DefaultSelect \/ DefaultReadBinary \/ Type \/ ResetAlert
    BY <1>1, <1>7 DEF Choose, DefaultSelect, DefaultReadBinary, Type, Enter, ResetAlert
  <1>8. ASSUME NEW r \in Readers, Comes(r) \/ Leaves(r) PROVE FALSE
    BY <1>1, <1>8 DEF Comes, Leaves
  <1>9. CASE UNCHANGED vars
    BY <1>1, <1>9 DEF vars
  <1>10. QED BY <1>3, <1>5, <1>6, <1>7, <1>8, <1>9 DEF Next

(* What the callbacks do to the flag, and to the count of what it stands for. *)
FlagSet(k) ==
  /\ calls[k].state = "served" /\ lastSent' = k
  /\ successes' = successes + 1 /\ sentAlerts' = sentAlerts
FlagCleared ==
  /\ ~commandSendingActive' /\ lastSent' = lastSent /\ successes' = successes
  /\ sentAlerts' = sentAlerts + (IF commandSendingActive THEN 1 ELSE 0)
FlagKept ==
  /\ commandSendingActive' = commandSendingActive /\ lastSent' = lastSent
  /\ successes' = successes /\ sentAlerts' = sentAlerts

LEMMA FlagMoves ==
  ASSUME [Next]_vars
  PROVE  \/ \E k \in Ids : FlagSet(k)
         \/ FlagCleared
         \/ FlagKept /\ \A k \in Ids : ReadAnswered(k) => calls[k].answer # "ok"
  <1>1. ASSUME NEW k \in Ids, ReadAnswered(k), calls[k].answer = "ok" PROVE FlagCleared
    <2>1. /\ ~commandSendingActive' /\ sentAlerts' = sentAlerts + (IF commandSendingActive THEN 1 ELSE 0)
      BY <1>1 DEF ReadAnswered, HasData, NoLongerActive
    <2>2. lastSent' = lastSent /\ successes' = successes
      BY <1>1 DEF ReadAnswered
    <2>3. QED BY <2>1, <2>2 DEF FlagCleared
  <1>2. ASSUME NEW k \in Ids, ReadAnswered(k), calls[k].answer # "ok" PROVE FlagKept
    BY <1>2 DEF ReadAnswered, HasData, FlagKept
  <1>3. ASSUME NEW k \in Ids, SendAnswered(k) PROVE FlagSet(k) \/ FlagKept
    <2>1. CASE calls[k].answer = "ok"
      BY <1>3, <2>1 DEF SendAnswered, FlagSet
    <2>2. CASE calls[k].answer # "ok"
      BY <1>3, <2>2 DEF SendAnswered, FlagKept
    <2>3. QED BY <2>1, <2>2
  <1>4. \/ FlagKept
        \/ \E k \in Ids : ReadAnswered(k) \/ SendAnswered(k)
    BY DEF Next, vars, page, history, server, FlagKept, Comes, Leaves, ServeList, ServeRead, ServeSend, ServeFails,
           ListAnswered, Choose, DefaultSelect, DefaultReadBinary, Type, Enter,
           Connect, SendCommand, ResetAlert
  <1>5. QED BY <1>1, <1>2, <1>3, <1>4

LEMMA EarnedStep ==
  ASSUME ViewInv, SentAlertsAreEarned, [Next]_vars
  PROVE  SentAlertsAreEarned'
  <1>0. successes \in Nat /\ sentAlerts \in Nat
    BY DEF ViewInv
  <1>1. PICK b \in {0, 1} : b = IF commandSendingActive THEN 1 ELSE 0
    OBVIOUS
  <1>2. sentAlerts + b <= successes
    BY <1>1 DEF SentAlertsAreEarned
  <1>3. PICK c \in {0, 1} : c = IF commandSendingActive' THEN 1 ELSE 0
    OBVIOUS
  <1>4. SUFFICES sentAlerts' + c <= successes'
    BY <1>3 DEF SentAlertsAreEarned
  <1>5. ASSUME NEW k \in Ids, FlagSet(k) PROVE sentAlerts' + c <= successes'
    <2>1. successes' = successes + 1 /\ sentAlerts' = sentAlerts
      BY <1>5 DEF FlagSet
    <2>2. QED BY <1>0, <1>2, <2>1
  <1>6. CASE FlagCleared
    <2>1. sentAlerts' = sentAlerts + b /\ successes' = successes
      BY <1>1, <1>6 DEF FlagCleared
    <2>2. c = 0
      BY <1>3, <1>6 DEF FlagCleared
    <2>3. QED BY <1>0, <1>2, <2>1, <2>2
  <1>7. CASE FlagKept
    <2>1. sentAlerts' = sentAlerts /\ successes' = successes
      BY <1>7 DEF FlagKept
    <2>2. c = b
      BY <1>1, <1>3, <1>7 DEF FlagKept
    <2>3. QED BY <1>0, <1>2, <2>1, <2>2
  <1>8. QED BY <1>5, <1>6, <1>7, FlagMoves

LEMMA FlagStep ==
  ASSUME CallsInv, ViewInv, FlagAwaitsItsRead, [Next]_vars
  PROVE  FlagAwaitsItsRead'
  <1>0. /\ CallsMove /\ AfterInv
        /\ Ids \subseteq Nat \ {0}
    <2>1. calls \in Seq(CallType)
      BY DEF CallsInv
    <2>2. Ids \subseteq Nat \ {0}
      BY <2>1, LenProperties DEF Ids
    <2>3. QED BY <2>2, CallsNext DEF CallsInv
  <1> SUFFICES ASSUME commandSendingActive'
               PROVE  /\ lastSent' # 0
                      /\ \A j \in Ids' : ~(calls'[j].after = lastSent' /\ calls'[j].answer = "ok"
                                             /\ calls'[j].state = "done")
    BY DEF FlagAwaitsItsRead, Outstanding
  <1>1. ASSUME NEW k \in Ids, FlagSet(k)
        PROVE  /\ lastSent' # 0
               /\ \A j \in Ids' : ~(calls'[j].after = lastSent' /\ calls'[j].answer = "ok"
                                      /\ calls'[j].state = "done")
    <2>1. lastSent' = k /\ k # 0 /\ calls[k].state = "served"
      BY <1>0, <1>1 DEF FlagSet
    <2>2. \A j \in Ids : calls[j].after # k
      BY <1>0, <2>1 DEF AfterInv
    <2>3. \A j \in Ids : calls'[j].after # k
      BY <1>0, <2>2 DEF CallsMove, SameCall
    <2>4. \A j \in Ids' : j \in Ids \/ calls'[j].state # "done"
      BY <1>0 DEF CallsMove, IsFresh
    <2>5. QED BY <2>1, <2>3, <2>4
  <1>2. CASE FlagCleared
    BY <1>2 DEF FlagCleared
  <1>3. ASSUME FlagKept, \A k \in Ids : ReadAnswered(k) => calls[k].answer # "ok"
        PROVE  /\ lastSent' # 0
               /\ \A j \in Ids' : ~(calls'[j].after = lastSent' /\ calls'[j].answer = "ok"
                                      /\ calls'[j].state = "done")
    <2>1. /\ lastSent' = lastSent /\ lastSent # 0
          /\ \A j \in Ids : ~(calls[j].after = lastSent /\ calls[j].answer = "ok" /\ calls[j].state = "done")
      BY <1>3 DEF FlagKept, FlagAwaitsItsRead, Outstanding
    <2>2. ASSUME NEW j \in Ids', calls'[j].after = lastSent, calls'[j].answer = "ok", calls'[j].state = "done"
          PROVE  FALSE
      <3>1. j \in Ids
        BY <1>0, <2>2 DEF CallsMove, IsFresh
      <3>2. SameCall(j) /\ ((calls'[j].state = calls[j].state /\ SameAnswer(j)) \/ IsServed(j) \/ IsDone(j))
        BY <1>0, <3>1 DEF CallsMove
      <3>3. IsDone(j)
        BY <2>1, <2>2, <3>1, <3>2 DEF SameCall, SameAnswer, IsServed
      <3>4. calls[j].kind = "read" /\ calls[j].answer = "ok" /\ calls[j].state = "served"
        BY <1>0, <2>1, <2>2, <3>1, <3>2, <3>3 DEF AfterInv, SameCall, IsDone, SameAnswer
      <3>5. ReadAnswered(j)
        BY <2>2, <3>1, <3>4, EndsInCallback DEF ListAnswered, SendAnswered
      <3>6. QED BY <1>3, <3>1, <3>4, <3>5
    <2>3. QED BY <2>1, <2>2
  <1>4. QED BY <1>1, <1>2, <1>3, FlagMoves

-----------------------------------------------------------------------------
PageInv ==
  /\ CallsInv /\ ViewInv /\ ShownInv
  /\ FollowUpShowsCommand /\ SentAlertsAreEarned /\ FlagAwaitsItsRead

LEMMA PageInit == Init => PageInv
  <1> SUFFICES ASSUME Init PROVE PageInv
    OBVIOUS
  <1>1. PICK c : c = Call("list", "undefined", "undefined", 0)
    OBVIOUS
  <1>2. /\ c \in CallType /\ c.kind = "list" /\ c.text = "undefined" /\ c.after = 0
        /\ c.state = "asked" /\ c.answer = "none" /\ c.data = << >>
    <2>1. "undefined" \in Selections /\ "undefined" \in Texts /\ "list" \in {"list", "read", "send"} /\ 0 \in Nat
      BY DEF Selections, Texts
    <2>2. QED BY <1>1, <2>1, CallTyped
  <1>3. /\ calls = <<c>> /\ Ids = {1} /\ calls[1] = c /\ Len(calls) = 1
        /\ recorded = [r \in Readers |-> << >>]
    <2>1. calls = <<c>> /\ recorded = [r \in Readers |-> << >>]
      BY <1>1 DEF Init
    <2>2. calls[1] = c /\ Len(calls) = 1 /\ DOMAIN calls = {1}
      BY <2>1
    <2>3. QED BY <2>1, <2>2 DEF Ids
  <1>4. ToSet(<< >>) = {}
    BY DEF ToSet
  <1>5. calls \in Seq(CallType)
    BY <1>2, <1>3
  <1>6. FieldsInv
    <2>1. calls[1].after \in 0..1 - 1
      BY <1>2, <1>3
    <2>2. QED BY <1>2, <1>3, <1>4, <2>1 DEF FieldsInv
  <1>7. RecordInv
    BY <1>3, <1>4 DEF RecordInv
  <1>8. ReadInv /\ SendInv /\ AfterInv
    BY <1>2, <1>3 DEF ReadInv, SendInv, AfterInv
  <1>9. ViewInv
    <2>1. standing \in [Readers -> {"absent", "online", "gone"}]
      BY DEF Init
    <2>2. successes \in Nat /\ sentAlerts \in Nat /\ lastSent \in 0..Len(calls)
      <3>1. successes = 0 /\ sentAlerts = 0 /\ lastSent = 0
        BY DEF Init
      <3>2. 0 \in 0..1
        OBVIOUS
      <3>3. QED BY <1>3, <3>1, <3>2
    <2>3. QED BY <2>1, <2>2 DEF Init, ViewInv, Selections, Texts
  <1>10. ShownInv
    BY DEF Init, ShownInv
  <1>11. FollowUpShowsCommand
    BY <1>2, <1>3 DEF FollowUpShowsCommand
  <1>12. ~commandSendingActive
    BY DEF Init
  <1>13. SentAlertsAreEarned
    <2>1. sentAlerts = 0 /\ successes = 0
      BY DEF Init
    <2>2. QED BY <1>12, <2>1 DEF SentAlertsAreEarned
  <1>14. FlagAwaitsItsRead
    BY <1>12 DEF FlagAwaitsItsRead
  <1>15. QED
    BY <1>5, <1>6, <1>7, <1>8, <1>9, <1>10, <1>11, <1>13, <1>14 DEF PageInv, CallsInv

LEMMA PageStep == PageInv /\ [Next]_vars => PageInv'
  <1> SUFFICES ASSUME PageInv, [Next]_vars PROVE PageInv'
    OBVIOUS
  <1>1. /\ CallsInv /\ ViewInv /\ ShownInv
        /\ FollowUpShowsCommand /\ SentAlertsAreEarned /\ FlagAwaitsItsRead
    BY DEF PageInv
  <1>2. CallsMove
    BY <1>1, CallsNext
  <1>3. CallsInv'
    BY <1>1, CallsStep
  <1>4. ViewInv'
    BY <1>1, ViewStep
  <1>5. ShownInv'
    BY <1>1, ShownStep
  <1>6. FollowUpShowsCommand'
    BY <1>1, <1>2, FollowStep
  <1>7. SentAlertsAreEarned'
    BY <1>1, EarnedStep
  <1>8. FlagAwaitsItsRead'
    BY <1>1, FlagStep
  <1>9. QED BY <1>3, <1>4, <1>5, <1>6, <1>7, <1>8 DEF PageInv

(* What every call is about, who started it and what the server had to answer,
   and what the page shows of it, however clicks and answers interleave
   (app.js). *)
THEOREM PageInvariant == Spec => []PageInv
  <1>1. Init => PageInv
    BY PageInit
  <1>2. PageInv /\ [Next]_vars => PageInv'
    BY PageStep
  <1>3. QED BY <1>1, <1>2, PTL DEF Spec

(* Every variable has its type, and what is shown is never an error answer but
   a transcript that the server had of that reader (connectToReader). *)
THEOREM PageTypes == Spec => []TypeOK
  <1>1. PageInv => TypeOK
    <2> SUFFICES ASSUME PageInv PROVE TypeOK
      OBVIOUS
    <2>1. CallsInv /\ ViewInv /\ ShownInv
      BY DEF PageInv
    <2>2. CallsOK
      <3> SUFFICES ASSUME NEW k \in Ids
                   PROVE  /\ calls[k].kind \in {"list", "read", "send"}
                          /\ calls[k].reader \in Selections
                          /\ (calls[k].kind # "list" => calls[k].reader # "undefined")
                          /\ calls[k].text \in Texts /\ (calls[k].kind = "send" => calls[k].text # "undefined")
                          /\ calls[k].after \in 0..k - 1
                          /\ calls[k].state \in {"asked", "served", "done"}
                          /\ calls[k].data = Refusal \/ ToSet(calls[k].data) \subseteq Ids
        BY DEF CallsOK
      <3>1. calls[k] \in CallType
        <4>1. calls \in Seq(CallType) /\ DOMAIN calls = 1..Len(calls)
          BY <2>1, LenProperties DEF CallsInv
        <4>2. QED BY <4>1, ElementOfSeq DEF Ids
      <3>2. QED BY <2>1, <3>1 DEF CallType, CallsInv, FieldsInv
    <2>3. shown # Nothing => shown.reader \in Readers /\ IsPrefix(shown.commands, recorded[shown.reader])
      <3> SUFFICES ASSUME shown # Nothing
                   PROVE  shown.reader \in Readers /\ IsPrefix(shown.commands, recorded[shown.reader])
        OBVIOUS
      <3>1. /\ shown.reader \in Readers /\ shown.commands \in Seq(Nat)
            /\ Within(shown.commands, recorded[shown.reader])
        BY <2>1 DEF ShownInv
      <3>2. recorded[shown.reader] \in Seq(Nat)
        BY <2>1, <3>1 DEF CallsInv, RecordInv
      <3>3. QED BY <3>1, <3>2, WithinIsPrefix
    <2>4. QED BY <2>1, <2>2, <2>3 DEF ViewInv, TypeOK
  <1>2. QED BY <1>1, PageInvariant, PTL

(* No send is reported twice, and none that the server did not report: the flag
   is set by its answer and cleared by the next transcript (connectToReader). *)
THEOREM AlertsAreEarned == Spec => []SentAlertsAreEarned
  <1>1. PageInv => SentAlertsAreEarned
    BY DEF PageInv
  <1>2. QED BY <1>1, PageInvariant, PTL

(* The transcript that a send asks for has its command in it, if it is of the
   same reader (sendCommand reads from within its callback). *)
THEOREM FollowUpsShowTheirCommand == Spec => []FollowUpShowsCommand
  <1>1. PageInv => FollowUpShowsCommand
    BY DEF PageInv
  <1>2. QED BY <1>1, PageInvariant, PTL

(* While the flag is set the read of the last successful send has not brought a
   transcript: none may clear the flag before and leave it to a later one. *)
THEOREM FlagMeansUnread == Spec => []FlagAwaitsItsRead
  <1>1. PageInv => FlagAwaitsItsRead
    BY DEF PageInv
  <1>2. QED BY <1>1, PageInvariant, PTL

=============================================================================
