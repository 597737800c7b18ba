------------------------ MODULE TerminalServer_proofs ------------------------
(***************************************************************************)
(* Theorems about the relay inside the terminal server, for every set of   *)
(* connections and requests, every mix of calls and every array capacity.  *)
(*                                                                         *)
(* First the types, then what becomes of a command: the answer tells the   *)
(* truth, no command is queued or written twice, and each was recorded     *)
(* first.  These three follow from one inductive invariant, RelayInv,      *)
(* which follows a command from the HTTP worker that runs it to the socket.*)
(***************************************************************************)
EXTENDS TerminalServer, SequenceTheorems, TLAPS

USE ServerAssumption

AddSteps == {"addRead", "addSize", "addStore"}

(* A channel's worker is idle or adds the frame it has just counted. *)
WorkerAdds ==
  \A c \in Channels : pc[c] \in {"idle"} \cup AddSteps /\ (pc[c] # "idle" => frames[c] > 0)

TypeInv == TypeOK /\ WorkerAdds

-----------------------------------------------------------------------------
(* The array a full transcript is copied to keeps its entries and has at least
   one slot more than are in use. *)
LEMMA NullsType ==
  ASSUME NEW n \in Nat, NEW S
  PROVE  Nulls(n) \in Seq(S \cup {Null}) /\ Len(Nulls(n)) = n
  BY DEF Nulls

LEMMA NewLength ==
  ASSUME NEW len \in Nat, NEW used \in Nat
  PROVE  /\ Max({len + len \div 2, used + 1}) \in Nat
         /\ Max({len + len \div 2, used + 1}) >= len
         /\ Max({len + len \div 2, used + 1}) > used
  <1>1. len + len \div 2 \in Nat /\ len + len \div 2 >= len
    OBVIOUS
  <1>2. ASSUME NEW a \in Nat, NEW b \in Nat
        PROVE  Max({a, b}) \in Nat /\ Max({a, b}) >= a /\ Max({a, b}) >= b
    BY DEF Max
  <1>3. QED BY <1>1, <1>2

LEMMA Padded ==
  ASSUME NEW S, NEW s \in Seq(S \cup {Null}), NEW n \in Nat, n >= Len(s)
  PROVE  /\ s \o Nulls(n - Len(s)) \in Seq(S \cup {Null})
         /\ Len(s \o Nulls(n - Len(s))) = n
  <1>1. n - Len(s) \in Nat /\ Len(s) \in Nat
    OBVIOUS
  <1>2. Nulls(n - Len(s)) \in Seq(S \cup {Null}) /\ Len(Nulls(n - Len(s))) = n - Len(s)
    BY <1>1, NullsType
  <1>3. /\ s \o Nulls(n - Len(s)) \in Seq(S \cup {Null})
        /\ Len(s \o Nulls(n - Len(s))) = Len(s) + Len(Nulls(n - Len(s)))
    BY <1>2, ConcatProperties
  <1>4. QED BY <1>1, <1>2, <1>3

LEMMA GrownType ==
  ASSUME TypeOK, NEW c \in Channels
  PROVE  /\ Grown(c) \in Seq(Entries \cup {Null})
         /\ Len(Grown(c)) >= Len(elementData[c])
         /\ Len(Grown(c)) > size[c]
  <1>1. elementData[c] \in Seq(Entries \cup {Null}) /\ Len(elementData[c]) \in Nat /\ size[c] \in Nat
    BY DEF TypeOK, ListsOK
  <1>2. CASE size[c] + 1 > Len(elementData[c])
    <2> DEFINE new == Max({Len(elementData[c]) + Len(elementData[c]) \div 2, size[c] + 1})
    <2>1. new \in Nat /\ new >= Len(elementData[c]) /\ new > size[c]
      BY <1>1, NewLength
    <2>2. Grown(c) = elementData[c] \o Nulls(new - Len(elementData[c]))
      BY <1>2 DEF Grown
    <2> HIDE DEF new
    <2>3. \A n \in Nat : n >= Len(elementData[c]) =>
            /\ elementData[c] \o Nulls(n - Len(elementData[c])) \in Seq(Entries \cup {Null})
            /\ Len(elementData[c] \o Nulls(n - Len(elementData[c]))) = n
      BY <1>1, Padded
    <2>4. QED BY <2>1, <2>2, <2>3
  <1>3. CASE ~(size[c] + 1 > Len(elementData[c]))
    BY <1>1, <1>3 DEF Grown
  <1>4. QED BY <1>2, <1>3

LEMMA TypeInit == Init => TypeInv
  <1> SUFFICES ASSUME Init PROVE TypeInv
    OBVIOUS
  <1>1. Nulls(Capacity) \in Seq(Entries \cup {Null})
    BY NullsType
  <1>2. TypeOK
    BY <1>1 DEF Init, TypeOK, RegistryOK, ListsOK, IoOK, LocalsOK, ControlOK, Phases, PcStates, Answers
  <1>3. WorkerAdds
    BY DEF Init, WorkerAdds, Threads
  <1>4. QED BY <1>2, <1>3 DEF TypeInv

-----------------------------------------------------------------------------
(* Moving a thread to its next step. *)
LEMMA GotoType ==
  ASSUME ControlOK, NEW t \in Threads, NEW s \in PcStates, Goto(t, s)
  PROVE  /\ pc' \in [Threads -> PcStates]
         /\ pc'[t] = s
         /\ \A u \in Threads \ {t} : pc'[u] = pc[u]
  BY DEF Goto, ControlOK

(* The step of a request leaves every worker where it was. *)
LEMMA RequestGoto ==
  ASSUME ControlOK, WorkerAdds, NEW r \in Requests, NEW s \in PcStates, Goto(r, s), UNCHANGED frames
  PROVE  WorkerAdds'
  BY GotoType DEF WorkerAdds, Threads

LEMMA FinishType ==
  ASSUME ControlOK, NEW r \in Requests, NEW a \in Answers, Finish(r, a)
  PROVE  /\ pc' \in [Threads -> PcStates]
         /\ answer' \in [Requests -> Answers]
         /\ Goto(r, "done") /\ "done" \in PcStates
  <1>1. Goto(r, "done") /\ "done" \in PcStates /\ r \in Threads
    BY DEF Finish, PcStates, Threads
  <1>2. QED BY <1>1, GotoType DEF Finish, ControlOK

(* Beginning an add changes the lists and takes the thread into its add. *)
LEMMA BeginAddType ==
  ASSUME TypeInv, NEW t \in Threads, NEW c \in Channels, BeginAdd(t, c)
  PROVE  ListsOK' /\ Goto(t, "addRead") /\ "addRead" \in PcStates
  <1>1. Grown(c) \in Seq(Entries \cup {Null})
    BY GrownType DEF TypeInv
  <1>2. ListsOK
    BY DEF TypeInv, TypeOK
  <1>3. elementData' \in [Channels -> Seq(Entries \cup {Null})]
    BY <1>1, <1>2 DEF BeginAdd, ListsOK
  <1>4. modCount' \in [Channels -> Nat] /\ raced' \in [Channels -> BOOLEAN]
    BY <1>2 DEF BeginAdd, ListsOK
  <1>5. size' = size /\ log' = log /\ Goto(t, "addRead") /\ "addRead" \in PcStates
    BY DEF BeginAdd, PcStates
  <1>6. QED BY <1>2, <1>3, <1>4, <1>5 DEF ListsOK

(* The entry a thread adds is its own command or the frame just counted. *)
LEMMA EntryType ==
  ASSUME TypeInv, NEW t \in Threads, pc[t] \in AddSteps
  PROVE  EntryOf(t) \in Entries /\ ListOf(t) \in Channels
  <1>1. CASE t \in Channels
    <2>1. frames[t] \in 0..MaxFrames /\ frames[t] > 0
      BY <1>1 DEF TypeInv, TypeOK, IoOK, WorkerAdds, AddSteps
    <2>2. frames[t] \in 1..MaxFrames
      BY <2>1
    <2>3. QED BY <1>1, <2>2 DEF EntryOf, ListOf, Entries
  <1>2. CASE t \in Requests /\ t \notin Channels
    BY <1>2 DEF TypeInv, TypeOK, ControlOK, EntryOf, ListOf, Entries, Calls
  <1>3. QED BY <1>1, <1>2 DEF Threads

(* Groups of variables a step leaves alone keep their types. *)
LEMMA Kept ==
  ASSUME TypeInv
  PROVE  /\ UNCHANGED registry => RegistryOK'
         /\ UNCHANGED lists => ListsOK'
         /\ UNCHANGED io => IoOK'
         /\ UNCHANGED locals => LocalsOK'
         /\ UNCHANGED <<pc, call, answer>> => ControlOK'
         /\ UNCHANGED <<pc, frames>> => WorkerAdds'
  <1> USE DEF TypeInv, TypeOK
  <1>1. UNCHANGED registry => RegistryOK'
    BY DEF registry, RegistryOK
  <1>2. UNCHANGED lists => ListsOK'
    BY DEF lists, ListsOK
  <1>3. UNCHANGED io => IoOK'
    BY DEF io, IoOK
  <1>4. UNCHANGED locals => LocalsOK'
    BY DEF locals, LocalsOK
  <1>5. UNCHANGED <<pc, call, answer>> => ControlOK'
    BY DEF ControlOK
  <1>6. UNCHANGED <<pc, frames>> => WorkerAdds'
    BY DEF WorkerAdds
  <1>7. QED BY <1>1, <1>2, <1>3, <1>4, <1>5, <1>6

LEMMA TypeStep == TypeInv /\ [Next]_vars => TypeInv'
  <1> SUFFICES ASSUME TypeInv, [Next]_vars PROVE TypeInv'
    OBVIOUS
  <1>0. RegistryOK /\ ListsOK /\ IoOK /\ LocalsOK /\ ControlOK /\ WorkerAdds
    BY DEF TypeInv, TypeOK
  <1>1. ASSUME NEW c \in Channels, OpenChannel(c) PROVE TypeInv'
    <2>1. ListsOK' /\ IoOK' /\ LocalsOK' /\ ControlOK' /\ WorkerAdds'
      BY <1>1, Kept DEF OpenChannel, registry, lists, io, locals
    <2>2. RegistryOK'
      BY <1>0, <1>1 DEF OpenChannel, RegistryOK, Phases, registry
    <2>3. QED BY <2>1, <2>2 DEF TypeInv, TypeOK
  <1>2. ASSUME NEW c \in Channels, PutTranscript(c) PROVE TypeInv'
    <2>1. ListsOK' /\ IoOK' /\ LocalsOK' /\ ControlOK' /\ WorkerAdds'
      BY <1>2, Kept DEF PutTranscript, registry, lists, io, locals
    <2>2. RegistryOK'
      BY <1>0, <1>2 DEF PutTranscript, RegistryOK, Phases, registry
    <2>3. QED BY <2>1, <2>2 DEF TypeInv, TypeOK
  <1>3. ASSUME NEW c \in Channels, CloseChannel(c) PROVE TypeInv'
    <2>1. ListsOK' /\ IoOK' /\ LocalsOK' /\ ControlOK' /\ WorkerAdds'
      BY <1>3, Kept DEF CloseChannel, registry, lists, io, locals
    <2>2. RegistryOK'
      BY <1>0, <1>3 DEF CloseChannel, RegistryOK, Phases, registry
    <2>3. QED BY <2>1, <2>2 DEF TypeInv, TypeOK
  <1>4. ASSUME NEW c \in Channels, FailPending(c) PROVE TypeInv'
    <2>1. ListsOK' /\ LocalsOK'
      BY <1>4, Kept DEF FailPending, registry, lists, io, locals
    <2>2. RegistryOK'
      BY <1>0, <1>4 DEF FailPending, RegistryOK, Phases
    <2>3. IoOK'
      BY <1>0, <1>4 DEF FailPending, IoOK
    <2>4. ControlOK'
      BY <1>0, <1>4 DEF FailPending, ControlOK, PcStates, Answers
    <2>5. WorkerAdds'
      BY <1>0, <1>4 DEF FailPending, Idle, WorkerAdds, IoOK, Threads, AddSteps, ToSet
    <2>6. QED BY <2>1, <2>2, <2>3, <2>4, <2>5 DEF TypeInv, TypeOK
  <1>5. ASSUME NEW c \in Channels, RemoveTranscript(c) PROVE TypeInv'
    <2>1. ListsOK' /\ IoOK' /\ LocalsOK' /\ ControlOK' /\ WorkerAdds'
      BY <1>5, Kept DEF RemoveTranscript, registry, lists, io, locals
    <2>2. RegistryOK'
      BY <1>0, <1>5 DEF RemoveTranscript, RegistryOK, Phases, registry
    <2>3. QED BY <2>1, <2>2 DEF TypeInv, TypeOK
  <1>6. ASSUME NEW c \in Channels, MessageReceived(c) PROVE TypeInv'
    <2>1. RegistryOK' /\ LocalsOK'
      BY <1>6, Kept DEF MessageReceived, registry, lists, io, locals
    <2>2. ListsOK' /\ Goto(c, "addRead") /\ "addRead" \in PcStates
      BY <1>0, <1>6, BeginAddType DEF MessageReceived, Threads, ControlOK, Calls
    <2>3. IoOK'
      BY <1>0, <1>6 DEF MessageReceived, IoOK
    <2>4. ControlOK'
      BY <1>0, <1>6, <2>2, GotoType DEF MessageReceived, ControlOK, Threads
    <2>5. pc'[c] = "addRead" /\ \A d \in Channels \ {c} : pc'[d] = pc[d]
      BY <1>0, <1>6, <2>2, GotoType DEF Threads
    <2>6. frames'[c] > 0 /\ \A d \in Channels \ {c} : frames'[d] = frames[d]
      BY <1>0, <1>6 DEF MessageReceived, IoOK
    <2>7. WorkerAdds'
      BY <1>0, <2>5, <2>6 DEF WorkerAdds, AddSteps
    <2>8. QED BY <2>1, <2>2, <2>3, <2>4, <2>7 DEF TypeInv, TypeOK
  <1>7. ASSUME NEW c \in Channels, Flush(c) PROVE TypeInv'
    <2>1. RegistryOK' /\ ListsOK' /\ LocalsOK'
      BY <1>7, Kept DEF Flush, registry, lists, io, locals
    <2>2. pending[c] \in Seq(Requests) /\ Head(pending[c]) \in Requests /\ Tail(pending[c]) \in Seq(Requests)
      BY <1>0, <1>7, HeadTailProperties DEF Flush, IoOK
    <2>3. IoOK'
      BY <1>0, <1>7, <2>2 DEF Flush, IoOK
    <2>4. ControlOK'
      BY <1>0, <1>7, <2>2, FinishType DEF Flush, ControlOK, Answers
    <2>5. WorkerAdds'
      BY <1>0, <1>7, <2>2, FinishType, RequestGoto DEF Flush, Answers
    <2>6. QED BY <2>1, <2>3, <2>4, <2>5 DEF TypeInv, TypeOK
  <1>8. ASSUME NEW r \in Requests, Submit(r) PROVE TypeInv'
    <2>1. RegistryOK' /\ ListsOK' /\ IoOK' /\ LocalsOK'
      BY <1>8, Kept DEF Submit, registry, lists, io, locals
    <2>2. Goto(r, "handle") /\ "handle" \in PcStates /\ r \in Threads
      BY <1>8 DEF Submit, PcStates, Threads
    <2>3. ControlOK'
      BY <1>0, <1>8, <2>2, GotoType DEF Submit, ControlOK
    <2>4. WorkerAdds'
      BY <1>0, <1>8, <2>2, RequestGoto DEF Submit, io
    <2>5. QED BY <2>1, <2>3, <2>4 DEF TypeInv, TypeOK
  <1>9. ASSUME NEW r \in Requests, Check(r) PROVE TypeInv'
    <2>1. RegistryOK' /\ ListsOK' /\ IoOK' /\ LocalsOK'
      BY <1>9, Kept DEF Check, registry, lists, io, locals
    <2>2. (Finish(r, "rejected") \/ Finish(r, "fault") \/ Finish(r, "noChannel")) \/ (Goto(r, "get") /\ UNCHANGED answer)
      BY <1>9 DEF Check
    <2>3. ControlOK'
      BY <1>0, <1>9, <2>2, FinishType, GotoType DEF Check, ControlOK, Answers, PcStates, Threads
    <2>4. WorkerAdds'
      BY <1>0, <1>9, <2>2, FinishType, RequestGoto, Kept DEF Check, Answers, PcStates, io
    <2>5. QED BY <2>1, <2>3, <2>4 DEF TypeInv, TypeOK
  <1>10. ASSUME NEW r \in Requests, TranscriptGone(r) PROVE TypeInv'
    <2>1. RegistryOK' /\ ListsOK' /\ IoOK' /\ LocalsOK'
      BY <1>10, Kept DEF TranscriptGone, registry, lists, io, locals
    <2>2. ControlOK'
      BY <1>0, <1>10, FinishType DEF TranscriptGone, ControlOK, Answers
    <2>3. WorkerAdds'
      BY <1>0, <1>10, FinishType, RequestGoto DEF TranscriptGone, Answers, io
    <2>4. QED BY <2>1, <2>2, <2>3 DEF TypeInv, TypeOK
  <1>11. ASSUME NEW r \in Requests, RecordCommand(r) PROVE TypeInv'
    <2>1. RegistryOK' /\ IoOK' /\ LocalsOK'
      BY <1>11, Kept DEF RecordCommand, registry, lists, io, locals
    <2>2. ListsOK' /\ Goto(r, "addRead") /\ "addRead" \in PcStates
      BY <1>0, <1>11, BeginAddType DEF RecordCommand, Threads, ControlOK, Calls
    <2>3. ControlOK'
      BY <1>0, <1>11, <2>2, GotoType DEF RecordCommand, ControlOK, Threads
    <2>4. WorkerAdds'
      BY <1>0, <1>11, <2>2, RequestGoto DEF RecordCommand, io
    <2>5. QED BY <2>1, <2>2, <2>3, <2>4 DEF TypeInv, TypeOK
  <1>12. ASSUME NEW r \in Requests, FindChannel(r) PROVE TypeInv'
    <2>1. RegistryOK' /\ ListsOK' /\ IoOK' /\ LocalsOK'
      BY <1>12, Kept DEF FindChannel, registry, lists, io, locals
    <2>2. (Finish(r, "fault")) \/ (Goto(r, "write") /\ UNCHANGED answer)
      BY <1>12 DEF FindChannel
    <2>3. ControlOK'
      BY <1>0, <1>12, <2>2, FinishType, GotoType DEF FindChannel, ControlOK, Answers, PcStates, Threads
    <2>4. WorkerAdds'
      BY <1>0, <1>12, <2>2, FinishType, RequestGoto, Kept DEF FindChannel, Answers, PcStates, io
    <2>5. QED BY <2>1, <2>3, <2>4 DEF TypeInv, TypeOK
  <1>13. ASSUME NEW r \in Requests, WriteCommand(r) PROVE TypeInv'
    <2>1. RegistryOK' /\ ListsOK' /\ LocalsOK'
      BY <1>13, Kept DEF WriteCommand, registry, lists, io, locals
    <2>2. call[r].id \in Channels /\ pending[call[r].id] \in Seq(Requests)
      BY <1>0 DEF IoOK, ControlOK, Calls
    <2>3. Append(pending[call[r].id], r) \in Seq(Requests)
      BY <2>2, AppendProperties
    <2>4. IoOK'
      BY <1>0, <1>13, <2>2, <2>3 DEF WriteCommand, IoOK
    <2>5. (Finish(r, "error")) \/ (Goto(r, "await") /\ UNCHANGED answer)
      BY <1>13 DEF WriteCommand
    <2>6. ControlOK'
      BY <1>0, <1>13, <2>5, FinishType, GotoType DEF WriteCommand, ControlOK, Answers, PcStates, Threads
    <2>7. WorkerAdds'
      BY <1>0, <1>13, <2>5, FinishType, RequestGoto, Kept DEF WriteCommand, Answers, PcStates, io
    <2>8. QED BY <2>1, <2>4, <2>6, <2>7 DEF TypeInv, TypeOK
  <1>14. ASSUME NEW r \in Requests, BeginRead(r) PROVE TypeInv'
    <2>1. RegistryOK' /\ ListsOK' /\ IoOK'
      BY <1>14, Kept DEF BeginRead, registry, lists, io, locals
    <2>2. LocalsOK'
      BY <1>0, <1>14 DEF BeginRead, LocalsOK, ListsOK, ControlOK, Calls
    <2>3. Goto(r, "iterate") /\ "iterate" \in PcStates /\ r \in Threads
      BY <1>14 DEF BeginRead, PcStates, Threads
    <2>4. ControlOK'
      BY <1>0, <1>14, <2>3, GotoType DEF BeginRead, ControlOK
    <2>5. WorkerAdds'
      BY <1>0, <1>14, <2>3, RequestGoto DEF BeginRead, io
    <2>6. QED BY <2>1, <2>2, <2>4, <2>5 DEF TypeInv, TypeOK
  <1>15. ASSUME NEW r \in Requests, ReadNext(r) PROVE TypeInv'
    <2>1. RegistryOK' /\ ListsOK' /\ IoOK'
      BY <1>15, Kept DEF ReadNext, registry, lists, io, locals
    <2>2. ASSUME NextReturns(r), HasNext(r) PROVE NextEntry(r) \in Entries
      BY <1>0, <2>2 DEF NextReturns, HasContent, NextEntry, Cursor, LocalsOK, ListsOK, ControlOK, Calls
    <2>3. view[r] \in Seq(Entries \cup Channels)
      BY <1>0 DEF LocalsOK
    <2>4. \A x \in Entries : Append(view[r], x) \in Seq(Entries \cup Channels)
      BY <2>3, AppendProperties
    <2>5. view' \in [Requests -> Seq(Entries \cup Channels)]
      BY <1>0, <1>15, <2>2, <2>4 DEF ReadNext, LocalsOK
    <2>6. LocalsOK'
      BY <1>0, <1>15, <2>5 DEF ReadNext, LocalsOK
    <2>7. (Finish(r, "ok") \/ Finish(r, "fault")) \/ UNCHANGED <<pc, answer>>
      BY <1>15 DEF ReadNext
    <2>8. ControlOK'
      BY <1>0, <1>15, <2>7, FinishType, GotoType DEF ReadNext, ControlOK, Answers, PcStates, Threads
    <2>9. WorkerAdds'
      BY <1>0, <1>15, <2>7, FinishType, RequestGoto, Kept DEF ReadNext, Answers, PcStates, io
    <2>10. QED BY <2>1, <2>6, <2>8, <2>9 DEF TypeInv, TypeOK
  <1>16. ASSUME NEW r \in Requests, BeginList(r) PROVE TypeInv'
    <2>1. RegistryOK' /\ ListsOK' /\ IoOK'
      BY <1>16, Kept DEF BeginList, registry, lists, io, locals
    <2>2. LocalsOK'
      BY <1>0, <1>16 DEF BeginList, LocalsOK, RegistryOK
    <2>3. Goto(r, "scan") /\ "scan" \in PcStates /\ r \in Threads
      BY <1>16 DEF BeginList, PcStates, Threads
    <2>4. ControlOK'
      BY <1>0, <1>16, <2>3, GotoType DEF BeginList, ControlOK
    <2>5. WorkerAdds'
      BY <1>0, <1>16, <2>3, RequestGoto DEF BeginList, io
    <2>6. QED BY <2>1, <2>2, <2>4, <2>5 DEF TypeInv, TypeOK
  <1>17. ASSUME NEW r \in Requests, ListNext(r) PROVE TypeInv'
    <2>1. RegistryOK' /\ ListsOK' /\ IoOK' /\ ControlOK' /\ WorkerAdds'
      BY <1>17, Kept DEF ListNext, registry, lists, io, locals
    <2>2. LocalsOK'
      BY <1>0, <1>17 DEF ListNext, LocalsOK, RegistryOK
    <2>3. QED BY <2>1, <2>2 DEF TypeInv, TypeOK
  <1>18. ASSUME NEW r \in Requests, EndList(r) PROVE TypeInv'
    <2>1. RegistryOK' /\ ListsOK' /\ IoOK' /\ LocalsOK'
      BY <1>18, Kept DEF EndList, registry, lists, io, locals
    <2>2. ControlOK'
      BY <1>0, <1>18, FinishType DEF EndList, ControlOK, Answers
    <2>3. WorkerAdds'
      BY <1>0, <1>18, FinishType, RequestGoto DEF EndList, Answers, io
    <2>4. QED BY <2>1, <2>2, <2>3 DEF TypeInv, TypeOK
  <1>19. ASSUME NEW t \in Threads, AddRead(t) PROVE TypeInv'
    <2>1. RegistryOK' /\ ListsOK' /\ IoOK'
      BY <1>19, Kept DEF AddRead, registry, lists, io, locals
    <2>2. EntryOf(t) \in Entries /\ ListOf(t) \in Channels
      BY <1>19, EntryType DEF AddRead, AddSteps
    <2>3. LocalsOK'
      BY <1>0, <1>19, <2>2 DEF AddRead, LocalsOK, ListsOK
    <2>4. Goto(t, "addSize")
      BY <1>19 DEF AddRead
    <2>5. ControlOK'
      BY <1>0, <1>19, <2>4, GotoType DEF AddRead, ControlOK, PcStates
    <2>6. WorkerAdds'
      BY <1>0, <1>19, <2>4, GotoType DEF AddRead, WorkerAdds, ControlOK, PcStates, AddSteps, Threads, io
    <2>7. QED BY <2>1, <2>3, <2>5, <2>6 DEF TypeInv, TypeOK
  <1>20. ASSUME NEW t \in Threads, AddSize(t) PROVE TypeInv'
    <2>1. RegistryOK' /\ IoOK' /\ LocalsOK'
      BY <1>20, Kept DEF AddSize, registry, lists, io, locals
    <2>2. EntryOf(t) \in Entries /\ ListOf(t) \in Channels
      BY <1>20, EntryType DEF AddSize, AddSteps
    <2>3. ListsOK'
      BY <1>0, <1>20, <2>2 DEF AddSize, LocalsOK, ListsOK
    <2>4. Goto(t, "addStore")
      BY <1>20 DEF AddSize
    <2>5. ControlOK'
      BY <1>0, <1>20, <2>4, GotoType DEF AddSize, ControlOK, PcStates
    <2>6. WorkerAdds'
      BY <1>0, <1>20, <2>4, GotoType DEF AddSize, WorkerAdds, ControlOK, PcStates, AddSteps, Threads, io
    <2>7. QED BY <2>1, <2>3, <2>5, <2>6 DEF TypeInv, TypeOK
  <1>21. ASSUME NEW t \in Threads, AddStore(t) PROVE TypeInv'
    <2>1. RegistryOK' /\ IoOK' /\ LocalsOK'
      BY <1>21, Kept DEF AddStore, registry, lists, io, locals
    <2>2. EntryOf(t) \in Entries /\ ListOf(t) \in Channels
      BY <1>21, EntryType DEF AddStore, AddSteps
    <2>3. ListsOK'
      <3>1. index[t] \in Nat
        BY <1>0 DEF LocalsOK
      <3>2. elementData' \in [Channels -> Seq(Entries \cup {Null})]
        BY <1>0, <1>21, <2>2, <3>1 DEF AddStore, ListsOK
      <3>3. log' \in [Channels -> Seq(Entries)]
        BY <1>0, <1>21, <2>2 DEF AddStore, ListsOK
      <3>4. QED BY <1>0, <1>21, <3>2, <3>3 DEF AddStore, ListsOK
    <2>4. (t \in Channels /\ Goto(t, "idle")) \/ (t \notin Channels /\ Goto(t, "find"))
      BY <1>21 DEF AddStore
    <2>5. ControlOK'
      BY <1>0, <1>21, <2>4, GotoType DEF AddStore, ControlOK, PcStates
    <2>6. WorkerAdds'
      BY <1>0, <1>21, <2>4, GotoType DEF AddStore, WorkerAdds, ControlOK, PcStates, AddSteps, Threads, io
    <2>7. QED BY <2>1, <2>3, <2>5, <2>6 DEF TypeInv, TypeOK
  <1>22. ASSUME NEW t \in Threads, AddThrows(t) PROVE TypeInv'
    <2>1. ListsOK' /\ IoOK' /\ LocalsOK'
      BY <1>22, Kept DEF AddThrows, registry, lists, io, locals
    <2>2. RegistryOK'
      BY <1>0, <1>22 DEF AddThrows, RegistryOK, Phases
    <2>3. ControlOK'
      BY <1>0, <1>22, FinishType, GotoType DEF AddThrows, ControlOK, PcStates, Answers
    <2>4. WorkerAdds'
      BY <1>0, <1>22, FinishType, RequestGoto, GotoType DEF AddThrows, WorkerAdds, PcStates, Answers, AddSteps, Threads, io
    <2>5. QED BY <2>1, <2>2, <2>3, <2>4 DEF TypeInv, TypeOK
  <1>23. CASE UNCHANGED vars
    BY <1>23, Kept DEF TypeInv, TypeOK, vars, io
  <1>24. QED
    BY <1>1, <1>2, <1>3, <1>4, <1>5, <1>6, <1>7, <1>8, <1>9, <1>10, <1>11, <1>12, <1>13, <1>14, <1>15, <1>16, <1>17, <1>18, <1>19, <1>20, <1>21, <1>22, <1>23
    DEF Next, Environment, WorkerStep, RequestStep, Threads

(* Every variable keeps its type, whatever the threads of the server do. *)
THEOREM TypeCorrect == Spec => []TypeOK
  <1>1. TypeInv /\ [Next]_vars => TypeInv'
    BY TypeStep
  <1>2. TypeInv => TypeOK
    BY DEF TypeInv
  <1>3. QED BY TypeInit, <1>1, <1>2, PTL DEF Spec

-----------------------------------------------------------------------------
HIDE ServerAssumption

(* A request is done when it is answered, and only a command takes the steps
   that record and send. *)
OnCourse(r) ==
  /\ pc[r] = "done" <=> answer[r] # "none"
  /\ pc[r] \in AddSteps \cup {"find", "write", "await"} => r \in Commands

(* What is queued waits for its answer; what is written has it. *)
QueueHolds(c) ==
  \A r \in ToSet(pending[c]) : pc[r] = "await" /\ r \in Commands /\ call[r].id = c
WireHolds(c) ==
  \A r \in ToSet(wire[c]) : answer[r] = "sent" /\ r \in Commands /\ call[r].id = c

Sent(r) == answer[r] = "sent" => r \in ToSet(wire[call[r].id])

Recorded(r) ==
  pc[r] \in {"find", "write", "await"} \/ answer[r] = "sent"
    => You(r) \in ToSet(log[call[r].id])

Once(c) == IsInjective(wire[c] \o pending[c])

RelayInv ==
  /\ \A r \in Requests : OnCourse(r) /\ Sent(r) /\ Recorded(r)
  /\ \A c \in Channels : QueueHolds(c) /\ WireHolds(c) /\ Once(c)

-----------------------------------------------------------------------------
(* Sequences as queues. *)
LEMMA ToSetAppend ==
  ASSUME NEW S, NEW s \in Seq(S), NEW e \in S
  PROVE  ToSet(Append(s, e)) = ToSet(s) \cup {e}
  <1>1. Len(s) \in Nat /\ DOMAIN s = 1..Len(s) /\ DOMAIN Append(s, e) = 1..(Len(s) + 1)
    BY LenProperties, AppendProperties
  <1>2. \A i \in 1..Len(s) : Append(s, e)[i] = s[i]
    BY AppendProperties
  <1>3. Append(s, e)[Len(s) + 1] = e
    BY AppendProperties
  <1>4. ToSet(Append(s, e)) \subseteq ToSet(s) \cup {e}
    BY <1>1, <1>2, <1>3 DEF ToSet
  <1>5. ToSet(s) \subseteq ToSet(Append(s, e))
    BY <1>1, <1>2 DEF ToSet
  <1>6. e \in ToSet(Append(s, e))
    BY <1>1, <1>3 DEF ToSet
  <1>7. QED BY <1>4, <1>5, <1>6

LEMMA ToSetConcat ==
  ASSUME NEW S, NEW s \in Seq(S), NEW t \in Seq(S)
  PROVE  ToSet(s \o t) = ToSet(s) \cup ToSet(t)
  <1>1. /\ Len(s) \in Nat /\ Len(t) \in Nat
        /\ DOMAIN s = 1..Len(s) /\ DOMAIN t = 1..Len(t) /\ DOMAIN (s \o t) = 1..(Len(s) + Len(t))
    BY LenProperties, ConcatProperties
  <1>2. \A i \in 1..(Len(s) + Len(t)) :
          (s \o t)[i] = IF i <= Len(s) THEN s[i] ELSE t[i - Len(s)]
    BY ConcatProperties
  <1>3. ToSet(s \o t) \subseteq ToSet(s) \cup ToSet(t)
    BY <1>1, <1>2 DEF ToSet
  <1>4. ToSet(s) \subseteq ToSet(s \o t)
    BY <1>1, <1>2 DEF ToSet
  <1>5. ASSUME NEW i \in 1..Len(t) PROVE t[i] \in ToSet(s \o t)
    <2>1. Len(s) + i \in DOMAIN (s \o t) /\ (s \o t)[Len(s) + i] = t[i]
      BY <1>1, <1>2
    <2>2. QED BY <2>1 DEF ToSet
  <1>6. QED BY <1>1, <1>3, <1>4, <1>5 DEF ToSet

LEMMA ToSetHeadTail ==
  ASSUME NEW S, NEW s \in Seq(S), s # << >>
  PROVE  ToSet(s) = {Head(s)} \cup ToSet(Tail(s))
  <1>1. s = <<Head(s)>> \o Tail(s) /\ <<Head(s)>> \in Seq(S) /\ Tail(s) \in Seq(S)
    OBVIOUS
  <1>2. ToSet(<<Head(s)>>) = {Head(s)}
    BY DEF ToSet
  <1>3. ToSet(<<Head(s)>> \o Tail(s)) = ToSet(<<Head(s)>>) \cup ToSet(Tail(s))
    BY <1>1, ToSetConcat
  <1>4. QED BY <1>1, <1>2, <1>3

LEMMA InjectiveAppend ==
  ASSUME NEW S, NEW s \in Seq(S), NEW e \in S, IsInjective(s), e \notin ToSet(s)
  PROVE  IsInjective(Append(s, e))
  <1>1. Len(s) \in Nat /\ DOMAIN s = 1..Len(s) /\ DOMAIN Append(s, e) = 1..(Len(s) + 1)
    BY LenProperties, AppendProperties
  <1>2. /\ \A i \in 1..Len(s) : Append(s, e)[i] = s[i] /\ s[i] # e
        /\ Append(s, e)[Len(s) + 1] = e
    BY <1>1, AppendProperties DEF ToSet
  <1>3. QED BY <1>1, <1>2 DEF IsInjective

LEMMA InjectivePrefix ==
  ASSUME NEW S, NEW s \in Seq(S), NEW t \in Seq(S), IsInjective(s \o t)
  PROVE  IsInjective(s)
  <1>1. /\ Len(s) \in Nat /\ Len(t) \in Nat
        /\ DOMAIN s = 1..Len(s) /\ DOMAIN (s \o t) = 1..(Len(s) + Len(t))
        /\ \A i \in 1..Len(s) : (s \o t)[i] = s[i]
    BY LenProperties, ConcatProperties
  <1>2. QED BY <1>1 DEF IsInjective

(* Moving the head of the second queue to the end of the first. *)
LEMMA MoveHead ==
  ASSUME NEW S, NEW s \in Seq(S), NEW t \in Seq(S), t # << >>
  PROVE  Append(s, Head(t)) \o Tail(t) = s \o t
  <1>1. t = <<Head(t)>> \o Tail(t) /\ <<Head(t)>> \in Seq(S) /\ Tail(t) \in Seq(S)
    OBVIOUS
  <1>2. Append(s, Head(t)) = s \o <<Head(t)>>
    BY <1>1
  <1>3. QED BY <1>1, <1>2, ConcatAssociative

LEMMA AppendToSecond ==
  ASSUME NEW S, NEW s \in Seq(S), NEW t \in Seq(S), NEW e \in S
  PROVE  s \o Append(t, e) = Append(s \o t, e)
  <1>1. Append(t, e) = t \o <<e>> /\ Append(s \o t, e) = (s \o t) \o <<e>>
    BY ConcatProperties, AppendIsConcat
  <1>2. QED BY <1>1, ConcatAssociative

-----------------------------------------------------------------------------
LEMMA RelayInit == Init => RelayInv
  <1> SUFFICES ASSUME Init PROVE RelayInv
    OBVIOUS
  <1>1. \A c \in Channels : wire[c] \o pending[c] = << >> /\ wire[c] = << >> /\ pending[c] = << >>
    BY DEF Init
  <1>2. ToSet(<< >>) = {} /\ IsInjective(<< >>)
    BY DEF ToSet, IsInjective
  <1>3. \A c \in Channels : QueueHolds(c) /\ WireHolds(c) /\ Once(c)
    BY <1>1, <1>2 DEF QueueHolds, WireHolds, Once
  <1>4. \A r \in Requests : OnCourse(r) /\ Sent(r) /\ Recorded(r)
    BY DEF Init, OnCourse, Sent, Recorded, Threads, AddSteps
  <1>5. QED BY <1>3, <1>4 DEF RelayInv

(* The log of a channel only grows. *)
LogsKept == \A c \in Channels : ToSet(log[c]) \subseteq ToSet(log'[c])

(* A step that moves one request, or none, before it is queued and that touches
   no queue. *)
LEMMA QuietStep ==
  ASSUME TypeInv, RelayInv, NEW r \in Requests,
         pc[r] \notin {"await", "done"},
         UNCHANGED <<pending, wire, call>>, LogsKept,
         \A q \in Requests \ {r} : pc'[q] = pc[q] /\ answer'[q] = answer[q],
         OnCourse(r)', Recorded(r)', answer'[r] # "sent"
  PROVE  RelayInv'
  <1>1. \A q \in Requests : OnCourse(q)'
    BY DEF RelayInv, OnCourse, Commands
  <1>2. \A q \in Requests : Sent(q)'
    BY DEF RelayInv, Sent
  <1>3. \A q \in Requests : Recorded(q)'
    <2>1. \A q \in Requests : call[q].id \in Channels
      BY DEF TypeInv, TypeOK, ControlOK, Calls
    <2>2. QED BY <2>1 DEF RelayInv, Recorded, LogsKept
  <1>4. ASSUME NEW c \in Channels PROVE QueueHolds(c)' /\ WireHolds(c)' /\ Once(c)'
    <2>1. r \notin ToSet(pending[c]) /\ r \notin ToSet(wire[c])
      <3>1. answer[r] = "none"
        BY DEF RelayInv, OnCourse
      <3>2. QED BY <3>1 DEF RelayInv, QueueHolds, WireHolds
    <2>2. ToSet(pending[c]) \subseteq Requests /\ ToSet(wire[c]) \subseteq Requests
      BY DEF TypeInv, TypeOK, IoOK, ToSet
    <2>3. QueueHolds(c)'
      BY <2>1, <2>2 DEF RelayInv, QueueHolds, Commands
    <2>4. WireHolds(c)'
      BY <2>1, <2>2 DEF RelayInv, WireHolds, Commands
    <2>5. Once(c)'
      BY DEF RelayInv, Once
    <2>6. QED BY <2>3, <2>4, <2>5
  <1>5. QED BY <1>1, <1>2, <1>3, <1>4 DEF RelayInv

(* A step of a connection's own thread that touches no queue. *)
LEMMA WorkerQuietStep ==
  ASSUME TypeInv, RelayInv, UNCHANGED <<pending, wire, call, answer>>, LogsKept,
         \A q \in Requests : pc'[q] = pc[q]
  PROVE  RelayInv'
  <1>1. \A q \in Requests : OnCourse(q)' /\ Sent(q)'
    BY DEF RelayInv, OnCourse, Sent, Commands
  <1>2. \A q \in Requests : Recorded(q)'
    <2>1. \A q \in Requests : call[q].id \in Channels
      BY DEF TypeInv, TypeOK, ControlOK, Calls
    <2>2. QED BY <2>1 DEF RelayInv, Recorded, LogsKept
  <1>3. \A c \in Channels : QueueHolds(c)' /\ WireHolds(c)' /\ Once(c)'
    <2>1. \A c \in Channels : ToSet(pending[c]) \subseteq Requests
      BY DEF TypeInv, TypeOK, IoOK, ToSet
    <2>2. QED BY <2>1 DEF RelayInv, QueueHolds, WireHolds, Once, Commands
  <1>4. QED BY <1>1, <1>2, <1>3 DEF RelayInv

(* A request that is answered early, or moves before it is queued. *)
LEMMA QuietFinish ==
  ASSUME TypeInv, RelayInv, NEW r \in Requests, NEW a \in Answers \ {"none", "sent"},
         pc[r] \notin {"await", "done"}, Finish(r, a),
         UNCHANGED <<pending, wire, log, call>>
  PROVE  RelayInv'
  <1>1. /\ pc'[r] = "done" /\ answer'[r] = a
        /\ \A q \in Requests \ {r} : pc'[q] = pc[q] /\ answer'[q] = answer[q]
    BY DEF TypeInv, TypeOK, ControlOK, Finish, Goto, Threads
  <1>2. OnCourse(r)' /\ Recorded(r)'
    BY <1>1 DEF OnCourse, Recorded, AddSteps
  <1>3. LogsKept
    BY DEF LogsKept
  <1>4. QED BY <1>1, <1>2, <1>3, QuietStep

LEMMA QuietGoto ==
  ASSUME TypeInv, RelayInv, NEW r \in Requests, NEW s \in PcStates \ {"await", "done"},
         pc[r] \notin {"await", "done"}, Goto(r, s),
         UNCHANGED <<pending, wire, call, answer>>, LogsKept,
         s \in AddSteps \cup {"find", "write"} => r \in Commands,
         s \in {"find", "write"} => You(r) \in ToSet(log'[call[r].id])
  PROVE  RelayInv'
  <1>1. /\ pc'[r] = s
        /\ \A q \in Requests \ {r} : pc'[q] = pc[q]
    BY DEF TypeInv, TypeOK, ControlOK, Goto, Threads
  <1>2. answer[r] = "none"
    BY DEF RelayInv, OnCourse
  <1>3. OnCourse(r)' /\ Recorded(r)'
    BY <1>1, <1>2 DEF OnCourse, Recorded, Commands, You
  <1>4. QED BY <1>1, <1>2, <1>3, QuietStep

(* One step of an add, by a request or by a worker. *)
LEMMA AddMove ==
  ASSUME TypeInv, RelayInv, NEW t \in Threads, NEW s \in AddSteps \cup {"idle"},
         pc[t] \in AddSteps, Goto(t, s),
         UNCHANGED <<pending, wire, call, answer>>, LogsKept
  PROVE  RelayInv'
  <1>1. CASE t \in Requests
    <2>1. t \in Commands
      BY <1>1 DEF RelayInv, OnCourse
    <2>2. s \in PcStates \ {"await", "done"} /\ pc[t] \notin {"await", "done"} /\ s \notin {"find", "write"}
      BY DEF AddSteps, PcStates
    <2>3. QED BY <1>1, <2>1, <2>2, QuietGoto
  <1>2. CASE t \notin Requests
    <2>1. \A q \in Requests : pc'[q] = pc[q]
      BY <1>2 DEF Goto, TypeInv, TypeOK, ControlOK, Threads
    <2>2. QED BY <2>1, WorkerQuietStep
  <1>3. QED BY <1>1, <1>2

-----------------------------------------------------------------------------
(* The store is what records a command. *)
LEMMA RelayStore ==
  ASSUME TypeInv, RelayInv, NEW t \in Threads, AddStore(t)
  PROVE  RelayInv'
  <1>1. EntryOf(t) \in Entries /\ ListOf(t) \in Channels
    BY EntryType DEF AddStore, AddSteps
  <1>2. ToSet(log'[ListOf(t)]) = ToSet(log[ListOf(t)]) \cup {EntryOf(t)}
    BY <1>1, ToSetAppend DEF AddStore, TypeInv, TypeOK, ListsOK
  <1>3. LogsKept
    BY <1>1, <1>2 DEF LogsKept, AddStore, TypeInv, TypeOK, ListsOK
  <1>4. UNCHANGED <<pending, wire, call, answer>> /\ pc[t] = "addStore"
    BY DEF AddStore, io
  <1>5. CASE t \in Channels
    <2>1. Goto(t, "idle")
      BY <1>5 DEF AddStore
    <2>2. QED BY <1>3, <1>4, <2>1, AddMove DEF AddSteps
  <1>6. CASE t \notin Channels
    <2>1. Goto(t, "find") /\ t \in Requests
      BY <1>6 DEF AddStore, Threads
    <2>2. t \in Commands
      BY <1>4, <2>1 DEF RelayInv, OnCourse, AddSteps
    <2>3. You(t) \in ToSet(log'[call[t].id])
      BY <1>2, <1>6 DEF EntryOf, ListOf
    <2>4. "find" \in PcStates \ {"await", "done"} /\ pc[t] \notin {"await", "done"}
      BY <1>4 DEF PcStates
    <2>5. QED BY <1>3, <1>4, <2>1, <2>2, <2>3, <2>4, QuietGoto
  <1>7. QED BY <1>5, <1>6

(* The write adds a command to the end of the queue of its own channel. *)
LEMMA RelayWrite ==
  ASSUME TypeInv, RelayInv, NEW r \in Requests, WriteCommand(r)
  PROVE  RelayInv'
  <1>0. PICK c \in Channels : call[r].id = c
    BY DEF TypeInv, TypeOK, ControlOK, Calls
  <1>1. pc[r] = "write" /\ r \in Commands /\ answer[r] = "none" /\ call[r].id = c
    BY <1>0 DEF WriteCommand, RelayInv, OnCourse, AddSteps
  <1>2. UNCHANGED <<wire, log, call>>
    BY DEF WriteCommand, lists
  <1>3. CASE phase[c] # "open"
    <2>1. Finish(r, "error") /\ UNCHANGED pending
      BY <1>0, <1>3 DEF WriteCommand
    <2>2. QED BY <1>1, <1>2, <2>1, QuietFinish DEF Answers
  <1>4. CASE phase[c] = "open"
    <2>1. pending' = [pending EXCEPT ![c] = Append(@, r)] /\ Goto(r, "await") /\ UNCHANGED answer
      BY <1>0, <1>4 DEF WriteCommand
    <2>2. pc'[r] = "await" /\ \A q \in Requests \ {r} : pc'[q] = pc[q]
      BY <2>1 DEF Goto, TypeInv, TypeOK, ControlOK, Threads
    <2>3. \A d \in Channels : pending[d] \in Seq(Requests) /\ wire[d] \in Seq(Requests)
      BY DEF TypeInv, TypeOK, IoOK
    <2>4. /\ pending'[c] = Append(pending[c], r)
          /\ \A d \in Channels \ {c} : pending'[d] = pending[d]
      BY <1>1, <2>1 DEF TypeInv, TypeOK, IoOK
    <2>5. ToSet(pending'[c]) = ToSet(pending[c]) \cup {r}
      BY <1>1, <2>3, <2>4, ToSetAppend
    <2>6. \A d \in Channels : r \notin ToSet(pending[d]) /\ r \notin ToSet(wire[d])
      BY <1>1 DEF RelayInv, QueueHolds, WireHolds
    <2>7. \A d \in Channels : ToSet(pending[d]) \subseteq Requests
      BY <2>3 DEF ToSet
    <2>8. \A q \in Requests : OnCourse(q)' /\ Sent(q)' /\ Recorded(q)'
      BY <1>1, <1>2, <2>1, <2>2 DEF RelayInv, OnCourse, Sent, Recorded, Commands, AddSteps, You
    <2>9. \A d \in Channels : QueueHolds(d)' /\ WireHolds(d)'
      BY <1>1, <1>2, <2>1, <2>2, <2>4, <2>5, <2>6, <2>7 DEF RelayInv, QueueHolds, WireHolds, Commands
    <2>10. Once(c)'
      <3>1. wire[c] \o pending[c] \in Seq(Requests) /\ IsInjective(wire[c] \o pending[c])
        BY <1>1, <2>3, ConcatProperties DEF RelayInv, Once
      <3>2. r \notin ToSet(wire[c] \o pending[c])
        BY <1>1, <2>3, <2>6, ToSetConcat
      <3>3. wire[c] \o Append(pending[c], r) = Append(wire[c] \o pending[c], r)
        <4>1. \A u, v \in Seq(Requests), e \in Requests : u \o Append(v, e) = Append(u \o v, e)
          BY AppendToSecond
        <4>2. wire[c] \in Seq(Requests) /\ pending[c] \in Seq(Requests)
          BY <2>3
        <4>3. QED BY <4>1, <4>2
      <3>4. QED BY <1>2, <2>4, <3>1, <3>2, <3>3, InjectiveAppend DEF Once
    <2>11. \A d \in Channels \ {c} : Once(d)'
      BY <1>2, <2>4 DEF RelayInv, Once
    <2>12. QED BY <2>8, <2>9, <2>10, <2>11 DEF RelayInv
  <1>5. QED BY <1>3, <1>4

(* The head of a queue without repetition is not in its tail. *)
LEMMA OnceInQueue ==
  ASSUME NEW S, NEW s \in Seq(S), NEW t \in Seq(S), t # << >>, IsInjective(s \o t)
  PROVE  Head(t) \notin ToSet(Tail(t))
  <1>1. /\ Len(s) \in Nat /\ Len(t) \in Nat /\ Len(Tail(t)) = Len(t) - 1
        /\ DOMAIN (s \o t) = 1..(Len(s) + Len(t)) /\ DOMAIN Tail(t) = 1..(Len(t) - 1)
        /\ Len(t) >= 1 /\ Head(t) = t[1]
        /\ \A i \in 1..(Len(t) - 1) : Tail(t)[i] = t[i + 1]
    BY LenProperties, HeadTailProperties, ConcatProperties
  <1>2. \A i \in 1..Len(t) : Len(s) + i \in DOMAIN (s \o t) /\ (s \o t)[Len(s) + i] = t[i]
    BY <1>1, ConcatProperties
  <1>3. \A i, j \in 1..Len(t) : t[i] = t[j] => i = j
    <2> SUFFICES ASSUME NEW i \in 1..Len(t), NEW j \in 1..Len(t), t[i] = t[j] PROVE i = j
      OBVIOUS
    <2>1. Len(s) + i = Len(s) + j
      BY <1>2 DEF IsInjective
    <2>2. QED BY <1>1, <2>1
  <1>4. ASSUME NEW i \in 1..(Len(t) - 1) PROVE Tail(t)[i] # Head(t)
    <2>1. i + 1 \in 1..Len(t) /\ 1 \in 1..Len(t) /\ i + 1 # 1
      BY <1>1
    <2>2. t[i + 1] # t[1]
      BY <1>3, <2>1
    <2>3. QED BY <1>1, <2>2
  <1>5. QED BY <1>1, <1>4 DEF ToSet

(* The flush moves the head of the queue to the socket and answers it. *)
LEMMA RelayFlush ==
  ASSUME TypeInv, RelayInv, NEW c \in Channels, Flush(c)
  PROVE  RelayInv'
  <1>0. PICK r \in Requests : r = Head(pending[c])
    BY HeadTailProperties DEF Flush, TypeInv, TypeOK, IoOK
  <1>1. \A d \in Channels : pending[d] \in Seq(Requests) /\ wire[d] \in Seq(Requests)
    BY DEF TypeInv, TypeOK, IoOK
  <1>2. /\ pending[c] # << >> /\ r \in Requests /\ Tail(pending[c]) \in Seq(Requests)
        /\ ToSet(pending[c]) = {r} \cup ToSet(Tail(pending[c]))
    BY <1>0, <1>1, ToSetHeadTail, HeadTailProperties DEF Flush
  <1>3. /\ pending'[c] = Tail(pending[c]) /\ wire'[c] = Append(wire[c], r)
        /\ \A d \in Channels \ {c} : pending'[d] = pending[d] /\ wire'[d] = wire[d]
        /\ UNCHANGED <<log, call>>
    BY <1>0 DEF Flush, TypeInv, TypeOK, IoOK, lists
  <1>4. /\ pc'[r] = "done" /\ answer'[r] = "sent"
        /\ \A q \in Requests \ {r} : pc'[q] = pc[q] /\ answer'[q] = answer[q]
    BY <1>0, <1>2 DEF Flush, Finish, Goto, TypeInv, TypeOK, ControlOK, Threads
  <1>5. pc[r] = "await" /\ r \in Commands /\ call[r].id = c /\ answer[r] = "none"
    BY <1>2 DEF RelayInv, QueueHolds, OnCourse
  <1>6. ToSet(wire'[c]) = ToSet(wire[c]) \cup {r}
    BY <1>1, <1>2, <1>3, ToSetAppend
  <1>7. wire'[c] \o pending'[c] = wire[c] \o pending[c]
    BY <1>0, <1>1, <1>2, <1>3, MoveHead
  <1>8. r \notin ToSet(Tail(pending[c]))
    BY <1>0, <1>1, <1>2, OnceInQueue DEF RelayInv, Once
  <1>9. \A d \in Channels : ToSet(pending[d]) \subseteq Requests /\ ToSet(wire[d]) \subseteq Requests
    BY <1>1 DEF ToSet
  <1>10. \A q \in Requests : OnCourse(q)' /\ Sent(q)' /\ Recorded(q)'
    <2>1. OnCourse(r)' /\ Sent(r)' /\ Recorded(r)'
      BY <1>2, <1>3, <1>4, <1>5, <1>6 DEF RelayInv, OnCourse, Sent, Recorded, Commands, AddSteps, You
    <2>2. ASSUME NEW q \in Requests \ {r} PROVE OnCourse(q)' /\ Sent(q)' /\ Recorded(q)'
      <3>1. call[q].id \in Channels
        BY DEF TypeInv, TypeOK, ControlOK, Calls
      <3>2. QED BY <1>3, <1>4, <1>6, <2>2, <3>1 DEF RelayInv, OnCourse, Sent, Recorded, Commands, You
    <2>3. QED BY <2>1, <2>2
  <1>11. \A d \in Channels : QueueHolds(d)'
    <2>1. QueueHolds(c)'
      BY <1>2, <1>3, <1>4, <1>8, <1>9 DEF RelayInv, QueueHolds, Commands
    <2>2. ASSUME NEW d \in Channels \ {c} PROVE QueueHolds(d)'
      BY <1>3, <1>4, <1>5, <1>9 DEF RelayInv, QueueHolds, Commands
    <2>3. QED BY <2>1, <2>2
  <1>12. \A d \in Channels : WireHolds(d)'
    <2>1. \A d \in Channels : \A q \in ToSet(wire[d]) :
            answer'[q] = "sent" /\ q \in Commands /\ call[q].id = d
      BY <1>4, <1>9 DEF RelayInv, WireHolds
    <2>2. \A q \in ToSet(wire'[c]) : answer'[q] = "sent" /\ q \in Commands /\ call[q].id = c
      BY <1>4, <1>5, <1>6, <2>1
    <2>3. WireHolds(c)'
      BY <1>3, <2>2 DEF WireHolds, Commands
    <2>4. \A d \in Channels \ {c} : WireHolds(d)'
      BY <1>3, <2>1 DEF WireHolds, Commands
    <2>5. QED BY <2>3, <2>4
  <1>13. \A d \in Channels : Once(d)'
    BY <1>3, <1>7 DEF RelayInv, Once
  <1>14. QED BY <1>10, <1>11, <1>12, <1>13 DEF RelayInv

(* Closing answers everything queued and empties the queue. *)
LEMMA RelayFail ==
  ASSUME TypeInv, RelayInv, NEW c \in Channels, FailPending(c)
  PROVE  RelayInv'
  <1>1. \A d \in Channels : pending[d] \in Seq(Requests) /\ wire[d] \in Seq(Requests)
    BY DEF TypeInv, TypeOK, IoOK
  <1>2. /\ pending'[c] = << >>
        /\ \A d \in Channels \ {c} : pending'[d] = pending[d]
        /\ UNCHANGED <<wire, log, call>>
    BY DEF FailPending, TypeInv, TypeOK, IoOK, lists
  <1>3. \A q \in Requests :
          IF q \in ToSet(pending[c])
          THEN pc'[q] = "done" /\ answer'[q] = "error"
          ELSE pc'[q] = pc[q] /\ answer'[q] = answer[q]
    BY DEF FailPending, Threads
  <1>4. \A q \in ToSet(pending[c]) : q \in Commands /\ call[q].id = c /\ answer[q] = "none"
    BY DEF RelayInv, QueueHolds, OnCourse, Commands
  <1>5. \A d \in Channels : ToSet(pending[d]) \subseteq Requests /\ ToSet(wire[d]) \subseteq Requests
    BY <1>1 DEF ToSet
  <1>6. \A q \in Requests : OnCourse(q)' /\ Sent(q)' /\ Recorded(q)'
    BY <1>2, <1>3 DEF RelayInv, OnCourse, Sent, Recorded, Commands, AddSteps, You
  <1>7. \A d \in Channels : QueueHolds(d)'
    <2>1. QueueHolds(c)'
      BY <1>2 DEF QueueHolds, ToSet
    <2>2. ASSUME NEW d \in Channels \ {c} PROVE QueueHolds(d)'
      BY <1>2, <1>3, <1>4, <1>5 DEF RelayInv, QueueHolds, Commands
    <2>3. QED BY <2>1, <2>2
  <1>8. \A d \in Channels : WireHolds(d)'
    <2>1. ASSUME NEW d \in Channels, NEW q \in ToSet(wire[d])
          PROVE  answer'[q] = "sent" /\ q \in Commands /\ call[q].id = d
      BY <1>3, <1>4, <1>5 DEF RelayInv, WireHolds
    <2>2. QED BY <1>2, <2>1 DEF WireHolds, Commands
  <1>9. \A d \in Channels : Once(d)'
    <2>1. Once(c)'
      <3>1. IsInjective(wire[c])
        BY <1>1, InjectivePrefix DEF RelayInv, Once
      <3>2. wire[c] \o << >> = wire[c]
        BY <1>1
      <3>3. QED BY <1>2, <3>1, <3>2 DEF Once
    <2>2. QED BY <1>2, <2>1 DEF RelayInv, Once
  <1>10. QED BY <1>6, <1>7, <1>8, <1>9 DEF RelayInv

LEMMA RelayStep == TypeInv /\ RelayInv /\ [Next]_vars => RelayInv'
  <1> SUFFICES ASSUME TypeInv, RelayInv, [Next]_vars PROVE RelayInv'
    OBVIOUS
  <1> USE DEF lists, io
  <1>1. ASSUME NEW c \in Channels, OpenChannel(c) PROVE RelayInv'
    BY <1>1, WorkerQuietStep DEF OpenChannel, LogsKept
  <1>2. ASSUME NEW c \in Channels, PutTranscript(c) PROVE RelayInv'
    BY <1>2, WorkerQuietStep DEF PutTranscript, LogsKept
  <1>3. ASSUME NEW c \in Channels, CloseChannel(c) PROVE RelayInv'
    BY <1>3, WorkerQuietStep DEF CloseChannel, LogsKept
  <1>4. ASSUME NEW c \in Channels, RemoveTranscript(c) PROVE RelayInv'
    BY <1>4, WorkerQuietStep DEF RemoveTranscript, LogsKept
  <1>5. ASSUME NEW c \in Channels, FailPending(c) PROVE RelayInv'
    BY <1>5, RelayFail
  <1>6. ASSUME NEW c \in Channels, Flush(c) PROVE RelayInv'
    BY <1>6, RelayFlush
  <1>7. ASSUME NEW c \in Channels, MessageReceived(c) PROVE RelayInv'
    <2>1. UNCHANGED <<pending, wire, log, call, answer>> /\ Goto(c, "addRead")
      BY <1>7 DEF MessageReceived, BeginAdd
    <2>2. \A q \in Requests : pc'[q] = pc[q]
      BY <2>1, ServerAssumption DEF Goto, TypeInv, TypeOK, ControlOK, Threads
    <2>3. QED BY <2>1, <2>2, WorkerQuietStep DEF LogsKept
  <1>8. ASSUME NEW r \in Requests, Submit(r) PROVE RelayInv'
    <2>1. UNCHANGED <<pending, wire, log, call, answer>> /\ Goto(r, "handle") /\ pc[r] \notin {"await", "done"}
      BY <1>8 DEF Submit
    <2>2. QED BY <2>1, QuietGoto DEF LogsKept, AddSteps, PcStates
  <1>9. ASSUME NEW r \in Requests, BeginRead(r) PROVE RelayInv'
    <2>1. UNCHANGED <<pending, wire, log, call, answer>> /\ Goto(r, "iterate") /\ pc[r] \notin {"await", "done"}
      BY <1>9 DEF BeginRead
    <2>2. QED BY <2>1, QuietGoto DEF LogsKept, AddSteps, PcStates
  <1>10. ASSUME NEW r \in Requests, BeginList(r) PROVE RelayInv'
    <2>1. UNCHANGED <<pending, wire, log, call, answer>> /\ Goto(r, "scan") /\ pc[r] \notin {"await", "done"}
      BY <1>10 DEF BeginList
    <2>2. QED BY <2>1, QuietGoto DEF LogsKept, AddSteps, PcStates
  <1>11. ASSUME NEW r \in Requests, RecordCommand(r) PROVE RelayInv'
    <2>1. /\ UNCHANGED <<pending, wire, log, call, answer>> /\ Goto(r, "addRead")
          /\ pc[r] \notin {"await", "done"} /\ r \in Commands
      BY <1>11 DEF RecordCommand, BeginAdd, Commands
    <2>2. QED BY <2>1, QuietGoto DEF LogsKept, AddSteps, PcStates
  <1>12. ASSUME NEW r \in Requests, TranscriptGone(r) PROVE RelayInv'
    BY <1>12, QuietFinish DEF TranscriptGone, Answers
  <1>13. ASSUME NEW r \in Requests, EndList(r) PROVE RelayInv'
    BY <1>13, QuietFinish DEF EndList, Answers
  <1>14. ASSUME NEW r \in Requests, Check(r) PROVE RelayInv'
    <2>1. /\ UNCHANGED <<pending, wire, log, call>> /\ pc[r] \notin {"await", "done"}
          /\ \/ \E a \in {"rejected", "fault", "noChannel"} : Finish(r, a)
             \/ Goto(r, "get") /\ UNCHANGED answer
      BY <1>14 DEF Check
    <2>2. CASE \E a \in {"rejected", "fault", "noChannel"} : Finish(r, a)
      BY <2>1, <2>2, QuietFinish DEF Answers
    <2>3. CASE Goto(r, "get") /\ UNCHANGED answer
      BY <2>1, <2>3, QuietGoto DEF LogsKept, AddSteps, PcStates
    <2>4. QED BY <2>1, <2>2, <2>3
  <1>15. ASSUME NEW r \in Requests, FindChannel(r) PROVE RelayInv'
    <2>1. /\ UNCHANGED <<pending, wire, log, call>> /\ pc[r] = "find"
          /\ Finish(r, "fault") \/ (Goto(r, "write") /\ UNCHANGED answer)
      BY <1>15 DEF FindChannel
    <2>2. r \in Commands /\ You(r) \in ToSet(log[call[r].id])
      BY <2>1 DEF RelayInv, OnCourse, Recorded
    <2>3. CASE Finish(r, "fault")
      BY <2>1, <2>3, QuietFinish DEF Answers
    <2>4. CASE Goto(r, "write") /\ UNCHANGED answer
      BY <2>1, <2>2, <2>4, QuietGoto DEF LogsKept, PcStates
    <2>5. QED BY <2>1, <2>3, <2>4
  <1>16. ASSUME NEW r \in Requests, WriteCommand(r) PROVE RelayInv'
    BY <1>16, RelayWrite
  <1>17. ASSUME NEW r \in Requests, ReadNext(r) PROVE RelayInv'
    <2>1. /\ UNCHANGED <<pending, wire, log, call>> /\ pc[r] = "iterate"
          /\ \/ \E a \in {"ok", "fault"} : Finish(r, a)
             \/ UNCHANGED <<pc, answer>>
      BY <1>17 DEF ReadNext
    <2>2. CASE \E a \in {"ok", "fault"} : Finish(r, a)
      BY <2>1, <2>2, QuietFinish DEF Answers
    <2>3. CASE UNCHANGED <<pc, answer>>
      BY <2>1, <2>3, WorkerQuietStep DEF LogsKept
    <2>4. QED BY <2>1, <2>2, <2>3
  <1>18. ASSUME NEW r \in Requests, ListNext(r) PROVE RelayInv'
    BY <1>18, WorkerQuietStep DEF ListNext, LogsKept
  <1>19. ASSUME NEW t \in Threads, AddRead(t) PROVE RelayInv'
    <2>1. UNCHANGED <<pending, wire, log, call, answer>> /\ Goto(t, "addSize") /\ pc[t] \in AddSteps
      BY <1>19 DEF AddRead, AddSteps
    <2>2. QED BY <2>1, AddMove DEF LogsKept, AddSteps
  <1>20. ASSUME NEW t \in Threads, AddSize(t) PROVE RelayInv'
    <2>1. UNCHANGED <<pending, wire, log, call, answer>> /\ Goto(t, "addStore") /\ pc[t] \in AddSteps
      BY <1>20 DEF AddSize, AddSteps
    <2>2. QED BY <2>1, AddMove DEF LogsKept, AddSteps
  <1>21. ASSUME NEW t \in Threads, AddStore(t) PROVE RelayInv'
    BY <1>21, RelayStore
  <1>22. ASSUME NEW t \in Threads, AddThrows(t) PROVE RelayInv'
    <2>1. UNCHANGED <<pending, wire, log, call>> /\ pc[t] = "addStore"
      BY <1>22 DEF AddThrows
    <2>2. CASE t \in Requests
      BY <1>22, <2>1, <2>2, QuietFinish DEF AddThrows, Answers
    <2>3. CASE t \notin Requests
      BY <1>22, <2>1, <2>3, AddMove DEF AddThrows, LogsKept, AddSteps
    <2>4. QED BY <2>2, <2>3
  <1>23. CASE UNCHANGED vars
    BY <1>23, WorkerQuietStep DEF vars, LogsKept
  <1>24. QED
    BY <1>1, <1>2, <1>3, <1>4, <1>5, <1>6, <1>7, <1>8, <1>9, <1>10, <1>11, <1>12, <1>13, <1>14, <1>15, <1>16, <1>17, <1>18, <1>19, <1>20, <1>21, <1>22, <1>23
    DEF Next, Environment, WorkerStep, RequestStep, Threads

THEOREM RelayInvariant == Spec => [](TypeInv /\ RelayInv)
  <1>1. Init => TypeInv /\ RelayInv
    BY TypeInit, RelayInit
  <1>2. TypeInv /\ RelayInv /\ [Next]_vars => (TypeInv /\ RelayInv)'
    BY TypeStep, RelayStep
  <1>3. QED BY <1>1, <1>2, PTL DEF Spec

-----------------------------------------------------------------------------
(* "command sent" is answered for a command exactly when it is on the socket of
   the connection it names. *)
THEOREM AnswersAreTruthful == Spec => []StatusTruthful
  <1>1. TypeInv /\ RelayInv => StatusTruthful
    <2> SUFFICES ASSUME TypeInv, RelayInv, NEW r \in Commands
                 PROVE  answer[r] = "sent" <=> r \in ToSet(wire[call[r].id])
      BY DEF StatusTruthful
    <2>1. r \in Requests /\ call[r].id \in Channels
      BY DEF Commands, TypeInv, TypeOK, ControlOK, Calls
    <2>2. QED BY <2>1 DEF RelayInv, Sent, WireHolds
  <1>2. QED BY <1>1, RelayInvariant, PTL

(* No command is queued or written twice, to the wrong connection, or after it
   was answered as failed. *)
THEOREM CommandsAreRelayedOnce == Spec => []RelayedOnce
  <1>1. TypeInv /\ RelayInv => RelayedOnce
    <2> SUFFICES ASSUME TypeInv, RelayInv, NEW c \in Channels
                 PROVE  /\ IsInjective(wire[c] \o pending[c])
                        /\ \A r \in ToSet(wire[c] \o pending[c]) :
                             r \in Commands /\ call[r].id = c /\ answer[r] \in {"none", "sent"}
      BY DEF RelayedOnce
    <2>1. ToSet(wire[c] \o pending[c]) = ToSet(wire[c]) \cup ToSet(pending[c])
      BY ToSetConcat DEF TypeInv, TypeOK, IoOK
    <2>2. QED BY <2>1 DEF RelayInv, Once, QueueHolds, WireHolds, OnCourse, Commands
  <1>2. QED BY <1>1, RelayInvariant, PTL

(* Whatever is queued or written was recorded in the transcript first. *)
THEOREM CommandsAreRecordedFirst == Spec => []RecordedBeforeSent
  <1>1. TypeInv /\ RelayInv => RecordedBeforeSent
    <2> SUFFICES ASSUME TypeInv, RelayInv, NEW c \in Channels, NEW r \in ToSet(wire[c] \o pending[c])
                 PROVE  You(r) \in ToSet(log[c])
      BY DEF RecordedBeforeSent
    <2>1. r \in ToSet(wire[c]) \/ r \in ToSet(pending[c])
      BY ToSetConcat DEF TypeInv, TypeOK, IoOK
    <2>2. r \in Requests /\ call[r].id = c /\ (pc[r] = "await" \/ answer[r] = "sent")
      BY <2>1 DEF RelayInv, QueueHolds, WireHolds, Commands
    <2>3. QED BY <2>2 DEF RelayInv, Recorded
  <1>2. QED BY <1>1, RelayInvariant, PTL

=============================================================================
