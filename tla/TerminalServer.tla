--------------------------- MODULE TerminalServer ---------------------------
(***************************************************************************)
(* The relay inside the terminal server: the registry of PC/SC connections *)
(* (allChannels, pcscData), the transcript kept for each connection, and   *)
(* the three API actions that read and write them.                         *)
(*                                                                         *)
(* Three kinds of threads meet here.  The boss thread accepts a connection *)
(* and runs channelOpen.  One worker thread per connection runs all later  *)
(* events of that connection, one at a time: messageReceived, the flush of *)
(* its write queue, the events of a close.  The HTTP workers run process() *)
(* of an API action, one request at a time each and in parallel with all   *)
(* the others.  The maps are concurrent maps; a transcript is a plain      *)
(* ArrayList that nothing locks, so its add is four steps here.            *)
(*                                                                         *)
(* A channel identifier is used by one connection only, and a request is   *)
(* one HTTP request, so both constants bound a run.                        *)
(***************************************************************************)
EXTENDS Naturals, Sequences, SequencesExt

CONSTANTS
  Channels,   \* identifiers of the connections of smart card connectors
  Requests,   \* API requests, each with the HTTP worker that runs it
  Actions,    \* the API actions the clients of a run ask for
  Bodies,     \* the shapes of request body the clients of a run send
  MaxFrames,  \* bound: frames a connector sends on one connection
  Capacity,   \* slots a new ArrayList has (10 in the JDK)
  Null        \* an array slot never stored to

API == {"sendCommandApdu", "getPcscClient", "getPcscClients"}

(* "complete": every key is there and has its type.  "missingKey": "id" or
   "command" is absent.  "badId": "id" is not a number, as in the {id:"no
   reader"} the page starts with.  "noList": "command" is there and no list.
   "nullCommand": it is there and null.  "badByte": an element of it is no
   number, as the null the page sends for text that parseInt turns into NaN. *)
BodyShapes == {"complete", "missingKey", "badId", "noList", "nullCommand", "badByte"}

Unsendable == {"nullCommand", "badByte"}   \* recorded, but not encoded

ASSUME ServerAssumption ==
  /\ Requests \cap Channels = {}
  /\ Actions \subseteq API
  /\ Bodies \subseteq BodyShapes
  /\ MaxFrames \in Nat
  /\ Capacity \in Nat

Threads == Requests \cup Channels   \* an HTTP worker, the worker of a channel

(* Only a command carries bytes, and a listing carries no key at all. *)
Calls ==
  {x \in [action : Actions, id : Channels, body : Bodies] :
     /\ x.body \in {"noList"} \cup Unsendable => x.action = "sendCommandApdu"
     /\ x.action = "getPcscClients" => x.body = "complete"}

(* What a client is answered: "sent" is {"status":"command sent"}, "error" is
   {"status":"error"}, "noChannel" adds the cause "no active channel found for
   given id", "rejected" is the 501 or 406 for a missing key, "fault" is the 500
   of exceptionCaught, "ok" carries a transcript or a list of channels. *)
Answers == {"none", "sent", "error", "noChannel", "rejected", "fault", "ok"}

You(r)    == [sender |-> "you", of |-> r]       \* the command of request r
Reader(n) == [sender |-> "reader", of |-> n]    \* the n-th frame received

Entries == {You(r) : r \in Requests} \cup {Reader(n) : n \in 1..MaxFrames}

ASSUME NullAssumption == Null \notin Entries   \* a message is never null

Nulls(n) == [i \in 1..n |-> Null]

VARIABLES
  phase,        \* where each connection is between accept and closed
  allChannels,  \* the channel group
  pcscData,     \* the keys of the map of transcripts
  elementData, size, modCount,  \* the fields of each transcript's ArrayList
  log, raced,   \* history: entries stored, whether two adds ever overlapped
  pending,      \* each channel's write queue: commands not yet on the socket
  wire,         \* commands written to each channel's socket
  frames,       \* number of frames each channel has received
  pc,           \* the next step of each thread
  call,         \* what a request asks for
  answer,       \* what a request was answered
  array, index, \* a thread's locals: the length of the array add() loaded,
                \* the position it is about to fill
  expected,     \* a reader's local: the iterator's expectedModCount
  view,         \* what a reader has collected so far
  todo,         \* channels a listing has still to visit
  known         \* history: channels registered when a listing began

registry == <<phase, allChannels, pcscData>>
lists    == <<elementData, size, modCount, log, raced>>
io       == <<pending, wire, frames>>
locals   == <<array, index, expected, view, todo, known>>
vars     == <<registry, lists, io, locals, pc, call, answer>>

Phases  == {"none", "opening", "open", "closing", "drained", "closed"}
PcStates == {"idle", "handle", "get", "addRead", "addSize", "addStore",
             "find", "write", "await", "iterate", "scan", "done"}

Init ==
  /\ phase = [c \in Channels |-> "none"]
  /\ allChannels = {}
  /\ pcscData = {}
  /\ elementData = [c \in Channels |-> Nulls(Capacity)]
  /\ size = [c \in Channels |-> 0]
  /\ modCount = [c \in Channels |-> 0]
  /\ log = [c \in Channels |-> << >>]
  /\ raced = [c \in Channels |-> FALSE]
  /\ pending = [c \in Channels |-> << >>]
  /\ wire = [c \in Channels |-> << >>]
  /\ frames = [c \in Channels |-> 0]
  /\ pc = [t \in Threads |-> "idle"]
  /\ call \in [Requests -> Calls]
  /\ answer = [r \in Requests |-> "none"]
  /\ array = [t \in Threads |-> 0]
  /\ index = [t \in Threads |-> 0]
  /\ expected = [r \in Requests |-> 0]
  /\ view = [r \in Requests |-> << >>]
  /\ todo = [r \in Requests |-> {}]
  /\ known = [r \in Requests |-> {}]

Goto(t, step) == pc' = [pc EXCEPT ![t] = step]

Finish(r, a) ==
  /\ Goto(r, "done")
  /\ answer' = [answer EXCEPT ![r] = a]

-----------------------------------------------------------------------------
(* ArrayList.add on a transcript, by whichever thread. *)

ListOf(t) == IF t \in Channels THEN t ELSE call[t].id

EntryOf(t) == IF t \in Channels THEN Reader(frames[t]) ELSE You(t)

Adding(c) ==
  {t \in Threads : pc[t] \in {"addRead", "addSize", "addStore"} /\ ListOf(t) = c}

(* The array with room for one more element: half as long again if full. *)
Grown(c) ==
  LET len == Len(elementData[c])
      new == Max({len + len \div 2, size[c] + 1})
  IN IF size[c] + 1 > len THEN elementData[c] \o Nulls(new - len) ELSE elementData[c]

(* ensureCapacity: modCount++ and, if need be, a longer copy of the array. *)
BeginAdd(t, c) ==
  /\ modCount' = [modCount EXCEPT ![c] = @ + 1]
  /\ elementData' = [elementData EXCEPT ![c] = Grown(c)]
  /\ raced' = [raced EXCEPT ![c] = @ \/ Adding(c) # {}]
  /\ Goto(t, "addRead")
  /\ UNCHANGED <<size, log>>

(* elementData[size++] = e loads the array and size, writes size, then stores. *)
AddRead(t) ==
  /\ pc[t] = "addRead"
  /\ array' = [array EXCEPT ![t] = Len(elementData[ListOf(t)])]
  /\ index' = [index EXCEPT ![t] = size[ListOf(t)]]
  /\ Goto(t, "addSize")
  /\ UNCHANGED <<registry, lists, io, expected, view, todo, known, call, answer>>

AddSize(t) ==
  /\ pc[t] = "addSize"
  /\ size' = [size EXCEPT ![ListOf(t)] = index[t] + 1]
  /\ Goto(t, "addStore")
  /\ UNCHANGED <<registry, elementData, modCount, log, raced, io, locals, call, answer>>

(* If another thread has replaced the array since, the store is lost. *)
AddStore(t) ==
  LET c == ListOf(t) IN
  /\ pc[t] = "addStore" /\ index[t] < array[t]
  /\ elementData' = IF array[t] = Len(elementData[c])
                    THEN [elementData EXCEPT ![c][index[t] + 1] = EntryOf(t)]
                    ELSE elementData
  /\ log' = [log EXCEPT ![c] = Append(@, EntryOf(t))]
  /\ Goto(t, IF t \in Channels THEN "idle" ELSE "find")
  /\ UNCHANGED <<registry, size, modCount, raced, io, locals, call, answer>>

(* The position is beyond the array.  The exception ends a request with a 500;
   raised in messageReceived it reaches exceptionCaught, which closes. *)
AddThrows(t) ==
  /\ pc[t] = "addStore" /\ index[t] >= array[t]
  /\ IF t \in Requests
     THEN Finish(t, "fault") /\ UNCHANGED <<phase, allChannels>>
     ELSE /\ Goto(t, "idle")
          /\ phase' = [phase EXCEPT ![t] = "closing"]
          /\ allChannels' = allChannels \ {t}
          /\ UNCHANGED answer
  /\ UNCHANGED <<pcscData, lists, io, locals, call>>

-----------------------------------------------------------------------------
(* The life of a connection.  Only a thread that is not in the middle of
   messageReceived turns to the next event of its channel. *)

Idle(c) == pc[c] = "idle"

(* Mutant: the transcript is there before the channel can be found. *)
OpenTranscriptFirst(c) ==
  /\ phase[c] = "none"
  /\ phase' = [phase EXCEPT ![c] = "opening"]
  /\ pcscData' = pcscData \cup {c}
  /\ UNCHANGED <<allChannels, lists, io, locals, pc, call, answer>>

(* channelOpen, first statement, on the boss thread. *)
OpenChannel(c) ==
  /\ phase[c] = "none"
  /\ phase' = [phase EXCEPT ![c] = "opening"]
  /\ allChannels' = allChannels \cup {c}
  /\ UNCHANGED <<pcscData, lists, io, locals, pc, call, answer>>

(* channelOpen, second statement. *)
PutTranscript(c) ==
  /\ phase[c] = "opening"
  /\ phase' = [phase EXCEPT ![c] = "open"]
  /\ pcscData' = pcscData \cup {c}
  /\ UNCHANGED <<allChannels, lists, io, locals, pc, call, answer>>

(* The peer went away, or exceptionCaught closed the channel.  The group's own
   listener on the close future removes the channel from the group. *)
CloseChannel(c) ==
  /\ phase[c] = "open" /\ Idle(c)
  /\ phase' = [phase EXCEPT ![c] = "closing"]
  /\ allChannels' = allChannels \ {c}
  /\ UNCHANGED <<pcscData, lists, io, locals, pc, call, answer>>

(* Mutant: the listener answers a successful write only. *)
FailPendingSilently(c) ==
  /\ phase[c] = "closing" /\ Idle(c)
  /\ phase' = [phase EXCEPT ![c] = "drained"]
  /\ pending' = [pending EXCEPT ![c] = << >>]
  /\ UNCHANGED <<allChannels, pcscData, lists, wire, frames, locals, pc, call, answer>>

(* Closing fails every queued write, and operationComplete answers each. *)
FailPending(c) ==
  /\ phase[c] = "closing" /\ Idle(c)
  /\ phase' = [phase EXCEPT ![c] = "drained"]
  /\ pending' = [pending EXCEPT ![c] = << >>]
  /\ pc' = [t \in Threads |-> IF t \in ToSet(pending[c]) THEN "done" ELSE pc[t]]
  /\ answer' = [r \in Requests |-> IF r \in ToSet(pending[c]) THEN "error" ELSE answer[r]]
  /\ UNCHANGED <<allChannels, pcscData, lists, wire, frames, locals, call>>

(* Mutant: the transcript stays in the map. *)
KeepTranscript(c) ==
  /\ phase[c] = "drained" /\ Idle(c)
  /\ phase' = [phase EXCEPT ![c] = "closed"]
  /\ UNCHANGED <<allChannels, pcscData, lists, io, locals, pc, call, answer>>

(* channelClosed. *)
RemoveTranscript(c) ==
  /\ phase[c] = "drained" /\ Idle(c)
  /\ phase' = [phase EXCEPT ![c] = "closed"]
  /\ pcscData' = pcscData \ {c}
  /\ UNCHANGED <<allChannels, lists, io, locals, pc, call, answer>>

(* messageReceived.  The frame decoder still hands over what it holds when the
   channel is already closing.  Once the transcript has gone from the map a frame
   is no step: after an exception here exceptionCaught has closed the channel and
   channelClosed has run before the next frame of the same read, whose get() then
   finds null and raises again, which changes nothing. *)
MessageReceived(c) ==
  /\ phase[c] \in {"open", "closing"} /\ Idle(c)
  /\ frames[c] < MaxFrames
  /\ frames' = [frames EXCEPT ![c] = @ + 1]
  /\ BeginAdd(c, c)
  /\ UNCHANGED <<registry, pending, wire, locals, call, answer>>

(* Mutant: what was written stays in the queue. *)
FlushAndKeep(c) ==
  /\ phase[c] = "open" /\ Idle(c)
  /\ pending[c] # << >>
  /\ wire' = [wire EXCEPT ![c] = Append(@, Head(pending[c]))]
  /\ Finish(Head(pending[c]), "sent")
  /\ UNCHANGED <<registry, lists, pending, frames, locals, call>>

(* The worker writes the head of the queue; operationComplete answers. *)
Flush(c) ==
  /\ phase[c] = "open" /\ Idle(c)
  /\ pending[c] # << >>
  /\ pending' = [pending EXCEPT ![c] = Tail(@)]
  /\ wire' = [wire EXCEPT ![c] = Append(@, Head(pending[c]))]
  /\ Finish(Head(pending[c]), "sent")
  /\ UNCHANGED <<registry, lists, frames, locals, call>>

-----------------------------------------------------------------------------
(* The API actions. *)

Submit(r) ==
  /\ pc[r] = "idle"
  /\ Goto(r, "handle")
  /\ UNCHANGED <<registry, lists, io, locals, call, answer>>

(* The request names a connection: check the keys, then the map, and take the
   command for a list, which null is as well. *)
Check(r) ==
  /\ pc[r] = "handle" /\ call[r].action # "getPcscClients"
  /\ \/ call[r].body = "missingKey" /\ Finish(r, "rejected")
     \/ call[r].body = "badId" /\ Finish(r, "fault")
     \/ /\ call[r].body \notin {"missingKey", "badId"}
        /\ \/ call[r].id \notin pcscData /\ Finish(r, "noChannel")
           \/ call[r].id \in pcscData /\ call[r].body = "noList" /\ Finish(r, "fault")
           \/ /\ call[r].id \in pcscData /\ call[r].body # "noList"
              /\ Goto(r, "get") /\ UNCHANGED answer
  /\ UNCHANGED <<registry, lists, io, locals, call>>

(* A second look in the map, which finds null once channelClosed has run. *)
TranscriptGone(r) ==
  /\ pc[r] = "get" /\ call[r].id \notin pcscData
  /\ Finish(r, "fault")
  /\ UNCHANGED <<registry, lists, io, locals, call>>

(* Mutant: the command is not recorded. *)
SkipRecord(r) ==
  /\ pc[r] = "get" /\ call[r].action = "sendCommandApdu"
  /\ call[r].id \in pcscData
  /\ Goto(r, "find")
  /\ UNCHANGED <<registry, lists, io, locals, call, answer>>

(* CommandApdu: record the command before it is encoded or sent. *)
RecordCommand(r) ==
  /\ pc[r] = "get" /\ call[r].action = "sendCommandApdu"
  /\ call[r].id \in pcscData
  /\ BeginAdd(r, call[r].id)
  /\ UNCHANGED <<registry, io, locals, call, answer>>

(* Mutant: a command that cannot be sent is taken back, the last entry removed. *)
FindOrTakeBack(r) ==
  /\ pc[r] = "find"
  /\ IF call[r].body \in Unsendable \/ call[r].id \notin allChannels
     THEN Finish(r, "fault") /\ size' = [size EXCEPT ![call[r].id] = @ - 1]
     ELSE Goto(r, "write") /\ UNCHANGED <<answer, size>>
  /\ UNCHANGED <<registry, elementData, modCount, log, raced, io, locals, call>>

(* CommandApdu and send: encode the bytes, then look for the channel. *)
FindChannel(r) ==
  /\ pc[r] = "find"
  /\ IF call[r].body \in Unsendable \/ call[r].id \notin allChannels
     THEN Finish(r, "fault")
     ELSE Goto(r, "write") /\ UNCHANGED answer
  /\ UNCHANGED <<registry, lists, io, locals, call>>

(* Mutant: the answer does not wait for the write. *)
WriteAndAnswer(r) ==
  LET c == call[r].id IN
  /\ pc[r] = "write"
  /\ IF phase[c] = "open"
     THEN /\ pending' = [pending EXCEPT ![c] = Append(@, r)]
          /\ Goto(r, "await")
          /\ answer' = [answer EXCEPT ![r] = "sent"]
     ELSE Finish(r, "error") /\ UNCHANGED pending
  /\ UNCHANGED <<registry, lists, wire, frames, locals, call>>

(* Mutant: a closed channel still queues. *)
WriteToClosed(r) ==
  /\ pc[r] = "write"
  /\ pending' = [pending EXCEPT ![call[r].id] = Append(@, r)]
  /\ Goto(r, "await")
  /\ UNCHANGED <<registry, lists, wire, frames, locals, call, answer>>

(* send: a write that finds the channel closed fails at once, and the listener
   added after that is called at once. *)
WriteCommand(r) ==
  LET c == call[r].id IN
  /\ pc[r] = "write"
  /\ IF phase[c] = "open"
     THEN /\ pending' = [pending EXCEPT ![c] = Append(@, r)]
          /\ Goto(r, "await")
          /\ UNCHANGED answer
     ELSE Finish(r, "error") /\ UNCHANGED pending
  /\ UNCHANGED <<registry, lists, wire, frames, locals, call>>

(* PcscClient: create the iterator over the transcript. *)
BeginRead(r) ==
  /\ pc[r] = "get" /\ call[r].action = "getPcscClient"
  /\ call[r].id \in pcscData
  /\ expected' = [expected EXCEPT ![r] = modCount[call[r].id]]
  /\ Goto(r, "iterate")
  /\ UNCHANGED <<registry, lists, io, array, index, view, todo, known, call, answer>>

Cursor(r) == Len(view[r])

(* Mutant: hasNext() is off by one. *)
HasOneMore(r) == Cursor(r) <= size[call[r].id]

HasNext(r) == Cursor(r) # size[call[r].id]

(* Mutant: a slot without a message is shown. *)
NextReturnsNullToo(r) ==
  LET c == call[r].id IN
  modCount[c] = expected[r] /\ Cursor(r) < size[c] /\ Cursor(r) < Len(elementData[c])

(* A slot that was counted but not stored is a null, and a command that was null
   is a message without content: addAll of either raises. *)
HasContent(e) == e # Null /\ (e.sender = "you" => call[e.of].body # "nullCommand")

(* next() throws if the list was modified or shrank, and its message must have a
   content to copy. *)
NextReturns(r) ==
  LET c == call[r].id IN
  /\ modCount[c] = expected[r]
  /\ Cursor(r) < size[c] /\ Cursor(r) < Len(elementData[c])
  /\ HasContent(elementData[c][Cursor(r) + 1])

(* Mutant: the cursor does not move. *)
FirstAgain(r) == elementData[call[r].id][1]

NextEntry(r) == elementData[call[r].id][Cursor(r) + 1]

(* PcscClient: one turn of the loop, or the answer after the last. *)
ReadNext(r) ==
  /\ pc[r] = "iterate"
  /\ \/ ~HasNext(r) /\ Finish(r, "ok") /\ UNCHANGED view
     \/ HasNext(r) /\ ~NextReturns(r) /\ Finish(r, "fault") /\ UNCHANGED view
     \/ /\ HasNext(r) /\ NextReturns(r)
        /\ view' = [view EXCEPT ![r] = Append(@, NextEntry(r))]
        /\ UNCHANGED <<pc, answer>>
  /\ UNCHANGED <<registry, lists, io, array, index, expected, todo, known, call>>

(* PcscClients: start to iterate over the channel group. *)
BeginList(r) ==
  /\ pc[r] = "handle" /\ call[r].action = "getPcscClients"
  /\ todo' = [todo EXCEPT ![r] = Channels]
  /\ known' = [known EXCEPT ![r] = allChannels]
  /\ Goto(r, "scan")
  /\ UNCHANGED <<registry, lists, io, array, index, expected, view, call, answer>>

(* Mutant: a channel that is gone clears the object that is built. *)
ListNextFresh(r) ==
  /\ pc[r] = "scan"
  /\ \E c \in todo[r] :
       /\ todo' = [todo EXCEPT ![r] = @ \ {c}]
       /\ view' = [view EXCEPT ![r] = IF c \in allChannels THEN <<c>> ELSE << >>]
  /\ UNCHANGED <<registry, lists, io, array, index, expected, known, pc, call, answer>>

(* The iterator visits the map in hash order and sees each entry as it is then.
   Every channel found is put under the same key "id". *)
ListNext(r) ==
  /\ pc[r] = "scan"
  /\ \E c \in todo[r] :
       /\ todo' = [todo EXCEPT ![r] = @ \ {c}]
       /\ view' = IF c \in allChannels THEN [view EXCEPT ![r] = <<c>>] ELSE view
  /\ UNCHANGED <<registry, lists, io, array, index, expected, known, pc, call, answer>>

EndList(r) ==
  /\ pc[r] = "scan" /\ todo[r] = {}
  /\ Finish(r, "ok")
  /\ UNCHANGED <<registry, lists, io, locals, call>>

-----------------------------------------------------------------------------
RequestStep(r) ==
  \/ Check(r) \/ TranscriptGone(r) \/ RecordCommand(r)
  \/ FindChannel(r) \/ WriteCommand(r)
  \/ BeginRead(r) \/ ReadNext(r)
  \/ BeginList(r) \/ ListNext(r) \/ EndList(r)
  \/ AddRead(r) \/ AddSize(r) \/ AddStore(r) \/ AddThrows(r)

WorkerStep(c) ==
  \/ Flush(c) \/ FailPending(c) \/ RemoveTranscript(c)
  \/ AddRead(c) \/ AddSize(c) \/ AddStore(c) \/ AddThrows(c)

Environment ==
  \/ \E c \in Channels : OpenChannel(c) \/ CloseChannel(c) \/ MessageReceived(c)
  \/ \E r \in Requests : Submit(r)

Next ==
  \/ Environment
  \/ \E c \in Channels : PutTranscript(c) \/ WorkerStep(c)
  \/ \E r \in Requests : RequestStep(r)

Spec == Init /\ [][Next]_vars

(* The server's own threads keep running; clients and connectors need not act. *)
Fairness ==
  /\ \A c \in Channels : WF_vars(PutTranscript(c)) /\ WF_vars(WorkerStep(c))
  /\ \A r \in Requests : WF_vars(RequestStep(r))

FairSpec == Spec /\ Fairness
-----------------------------------------------------------------------------
RegistryOK ==
  /\ phase \in [Channels -> Phases]
  /\ allChannels \subseteq Channels
  /\ pcscData \subseteq Channels

ListsOK ==
  /\ elementData \in [Channels -> Seq(Entries \cup {Null})]
  /\ size \in [Channels -> Nat]
  /\ modCount \in [Channels -> Nat]
  /\ log \in [Channels -> Seq(Entries)]
  /\ raced \in [Channels -> BOOLEAN]

IoOK ==
  /\ pending \in [Channels -> Seq(Requests)]
  /\ wire \in [Channels -> Seq(Requests)]
  /\ frames \in [Channels -> 0..MaxFrames]

LocalsOK ==
  /\ array \in [Threads -> Nat]
  /\ index \in [Threads -> Nat]
  /\ expected \in [Requests -> Nat]
  /\ view \in [Requests -> Seq(Entries \cup Channels)]
  /\ todo \in [Requests -> SUBSET Channels]
  /\ known \in [Requests -> SUBSET Channels]

ControlOK ==
  /\ pc \in [Threads -> PcStates]
  /\ call \in [Requests -> Calls]
  /\ answer \in [Requests -> Answers]

(* Every variable has its type. *)
TypeOK == RegistryOK /\ ListsOK /\ IoOK /\ LocalsOK /\ ControlOK

Gone == {"closing", "drained", "closed"}

Commands == {r \in Requests : call[r].action = "sendCommandApdu"}

(* "command sent" is answered for exactly the commands on the socket of the
   connection they name, so neither an answer before the write completed nor a
   lost answer after it is possible (CommandApdu.operationComplete). *)
StatusTruthful ==
  \A r \in Commands :
    answer[r] = "sent" <=> r \in ToSet(wire[call[r].id])

(* A command is in one place at most: no queue or socket holds it twice, and
   none holds one that names another connection or was answered as failed. *)
RelayedOnce ==
  \A c \in Channels :
    /\ IsInjective(wire[c] \o pending[c])
    /\ \A r \in ToSet(wire[c] \o pending[c]) :
         r \in Commands /\ call[r].id = c /\ answer[r] \in {"none", "sent"}

(* Whatever is queued for a card reader, or written to it, was stored in its
   transcript first, though an add that overlaps may lose it again: no reply is
   recorded ahead of its command. *)
RecordedBeforeSent ==
  \A c \in Channels : \A r \in ToSet(wire[c] \o pending[c]) : You(r) \in ToSet(log[c])

(* A well formed command fails only when its connection has closed meanwhile,
   although the check in pcscData and the search in allChannels are separate
   steps; the exception is a transcript that two threads extended at once. *)
FailureMeansGone ==
  \A r \in Commands :
    call[r].body = "complete" /\ answer[r] \in {"error", "fault"}
      => phase[call[r].id] \in Gone \/ raced[call[r].id]

(* As long as no two adds to a transcript overlapped it holds the entries
   stored, in order and without a gap, and at most the add in progress has
   counted an entry it has still to store. *)
TranscriptExact ==
  \A c \in Channels : ~raced[c] =>
    /\ SubSeq(elementData[c], 1, Len(log[c])) = log[c]
    /\ size[c] - Len(log[c]) \in {0, 1}
    /\ Adding(c) = {} => size[c] = Len(log[c])
    /\ \A t \in Adding(c) : pc[t] = "addStore" => index[t] < array[t]

(* What a successful read shows is a prefix of the transcript, never a slot
   that was counted but not stored (PcscClient.process). *)
ReadsArePrefixes ==
  \A r \in Requests :
    call[r].action = "getPcscClient" /\ answer[r] = "ok" /\ ~raced[call[r].id]
      => IsPrefix(view[r], log[call[r].id])

(* A read that got as far as its iterator fails only because a writer was there,
   one that modified the list since or one in the middle of its add, or because
   the transcript holds a command that was null, which fails every later read. *)
FailedReadsAreExplained ==
  [][\A r \in Requests :
       LET c == call[r].id IN
       pc[r] = "iterate" /\ answer'[r] = "fault" /\ ~raced[c]
         => \/ modCount[c] # expected[r] \/ Adding(c) # {}
            \/ \E q \in Requests :
                 call[q].body = "nullCommand" /\ You(q) \in ToSet(elementData[c])]_vars

(* The group is scanned while connections come and go, and each hit replaces
   the last one; still, an empty answer means that every connection open when
   the scan began has closed (PcscClients.process). *)
EmptyListMeansGone ==
  \A r \in Requests :
    call[r].action = "getPcscClients" /\ answer[r] = "ok" /\ view[r] = << >>
      => \A c \in known[r] : phase[c] \in Gone

(* Every request is answered, whichever connection closes when. *)
EveryRequestAnswered ==
  \A r \in Requests : pc[r] = "handle" ~> answer[r] # "none"

(* The transcript of a closed connection is removed from the map. *)
ClosedChannelForgotten ==
  \A c \in Channels : phase[c] = "closing" ~> c \notin pcscData

(* What the page's list of channels to choose from takes for granted: a listing
   names every connection that was open when it began and still is.  It does
   not hold: all identifiers are put under one key. *)
EveryOpenChannelListed ==
  \A r \in Requests :
    call[r].action = "getPcscClients" /\ answer[r] = "ok"
      => \A c \in known[r] : phase[c] \in Gone \/ c \in ToSet(view[r])

-----------------------------------------------------------------------------
(* The server implements the relay: a link is up between the end of
   channelOpen and the close. *)
LinkOf(c) ==
  CASE phase[c] \in {"none", "opening"} -> "fresh"
    [] phase[c] = "open" -> "up"
    [] OTHER -> "down"

Failed == {r \in Commands : answer[r] \notin {"none", "sent"}}

Relay == INSTANCE CommandRelay WITH
  Links <- Channels, Commands <- Requests,
  link <- [c \in Channels |-> LinkOf(c)], queue <- pending,
  delivered <- wire, failed <- Failed

(* Every behaviour of the server is one of the relay. *)
RelayImplemented == Relay!Spec
=============================================================================
