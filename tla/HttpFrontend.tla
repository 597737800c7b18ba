---------------------------- MODULE HttpFrontend ----------------------------
(***************************************************************************)
(* One HTTP connection of the terminal server: how its requests are        *)
(* dispatched to the API actions and to the file handler, and in what      *)
(* order the parts of their answers reach the client.                      *)
(*                                                                         *)
(* The worker thread of the connection handles one request after another   *)
(* and does all the writing to the socket.  It is not the only one to      *)
(* queue answers: the answer to a command is queued by operationComplete,  *)
(* on the worker of the card reader's connection, at any later moment.     *)
(* A client may send the next request before it has the last answer.      *)
(***************************************************************************)
EXTENDS Naturals, Sequences, FiniteSets

CONSTANTS
  MaxRequests,  \* bound: requests a client sends on the connection
  Kinds         \* the kinds of request a run sends

(* "page": a file that is there.  "lastPage": the same, and the client asks for
   the connection to be closed.  "missing": hidden, absent or unreadable (404).
   "folder": no plain file (403). *)
FileRequests == {"page", "lastPage", "missing", "folder"}

(* "query": an action that answers before it returns.  "command": one that has
   queued a command for a card reader.  "incomplete": a key is missing (406 or
   501).  "unknown": no action has that name (501).  "malformed": an exception
   leaves the handler, as for a body that is no JSON object (500). *)
ApiRequests == {"query", "command", "incomplete", "unknown", "malformed"}

RequestKinds == FileRequests \cup ApiRequests

ASSUME FrontendAssumption == MaxRequests \in Nat /\ Kinds \subseteq RequestKinds

VARIABLES
  connected,  \* channel.isConnected()
  requests,   \* the kinds of the requests sent, in order
  handled,    \* number of requests handed to messageReceived
  worker,     \* what the worker does next for request number handled
  awaiting,   \* commands whose operationComplete has not run
  files,      \* requests whose RandomAccessFile is open
  outbox,     \* parts of answers queued for the socket
  socket,     \* parts of answers written to the socket
  failure,    \* an exceptionCaught for a failed write is due
  pipelined   \* history: a request was sent before the last answer was there

vars == <<connected, requests, handled, worker, awaiting, files, outbox, socket,
          failure, pipelined>>

Parts == {"json", "error", "header", "region"}
Listeners == {"release", "close"}

Part(i, p) == [of |-> i, part |-> p, listeners |-> {}]

Init ==
  /\ connected = TRUE
  /\ requests = << >>
  /\ handled = 0
  /\ worker = "idle"
  /\ awaiting = {}
  /\ files = {}
  /\ outbox = << >>
  /\ socket = << >>
  /\ failure = FALSE
  /\ pipelined = FALSE

-----------------------------------------------------------------------------
(* Mutant: a write to a closed channel is queued and never completes. *)
QueueAnyway(x) == outbox' = Append(outbox, x) /\ UNCHANGED failure

(* Mutant: an error answer jumps the queue. *)
ErrorsFirst(x) ==
  IF connected
  THEN outbox' = (IF x.part = "error" THEN <<x>> \o outbox ELSE Append(outbox, x))
       /\ UNCHANGED failure
  ELSE failure' = TRUE /\ UNCHANGED outbox

(* channel.write.  On a closed channel it fails, and exceptionCaught is told. *)
Write(x) ==
  IF connected
  THEN outbox' = Append(outbox, x) /\ UNCHANGED failure
  ELSE failure' = TRUE /\ UNCHANGED outbox

(* Mutant: the file is released when the transfer succeeds. *)
ReleasedOnSuccess(parts) == {}

(* The files whose region is among parts and has its listener: a failed write
   calls operationComplete as well as a successful one. *)
Released(parts) == {parts[k].of : k \in {k \in DOMAIN parts : "release" \in parts[k].listeners}}

(* The channel is closed; what is queued fails. *)
CloseWith(rest) ==
  /\ connected' = FALSE
  /\ outbox' = << >>
  /\ failure' = (failure \/ rest # << >>)

(* The client sends one more request. *)
Answered(i) == \E k \in DOMAIN socket : socket[k].of = i /\ socket[k].part # "header"

Request(kind) ==
  /\ connected /\ Len(requests) < MaxRequests
  /\ requests' = Append(requests, kind)
  /\ pipelined' = (pipelined \/ \E i \in DOMAIN requests : ~Answered(i))
  /\ UNCHANGED <<connected, handled, worker, awaiting, files, outbox, socket, failure>>

(* The worker takes the next request that was decoded.  Those decoded before
   the channel was closed still come. *)
Take(kinds) ==
  /\ worker = "idle" /\ handled < Len(requests)
  /\ requests[handled + 1] \in kinds
  /\ handled' = handled + 1

This == handled + 1

(* Mutant: the handler returns without sendError. *)
RefuseSilently ==
  /\ Take({"missing", "folder", "incomplete", "unknown"})
  /\ UNCHANGED <<connected, requests, worker, awaiting, files, outbox, socket, failure, pipelined>>

(* sendError of HttpFileHandler, RestApiHandler and the actions: write, ... *)
Refuse ==
  /\ Take({"missing", "folder", "incomplete", "unknown"})
  /\ Write(Part(This, "error"))
  /\ worker' = "listen"
  /\ UNCHANGED <<connected, requests, awaiting, files, socket, pipelined>>

(* An exception leaves the handler. *)
Fault ==
  /\ Take({"malformed"})
  /\ worker' = "caught"
  /\ UNCHANGED <<connected, requests, awaiting, files, outbox, socket, failure, pipelined>>

(* sendJson of getPcscClient, of getPcscClients, and of a command for which
   there is no channel. *)
AnswerQuery ==
  /\ Take({"query"})
  /\ Write(Part(This, "json"))
  /\ UNCHANGED <<connected, requests, worker, awaiting, files, socket, pipelined>>

(* Mutant: the client is told at once, and again when the write completes. *)
AcknowledgeCommand ==
  /\ Take({"command"})
  /\ Write(Part(This, "json"))
  /\ awaiting' = awaiting \cup {This}
  /\ UNCHANGED <<connected, requests, worker, files, socket, pipelined>>

(* sendCommandApdu returns with its listener on the write to the card reader. *)
RelayCommand ==
  /\ Take({"command"})
  /\ awaiting' = awaiting \cup {This}
  /\ UNCHANGED <<connected, requests, worker, files, outbox, socket, failure, pipelined>>

(* HttpFileHandler: open the file and write the header, ... *)
OpenFile ==
  /\ Take({"page", "lastPage"})
  /\ files' = files \cup {This}
  /\ Write(Part(This, "header"))
  /\ worker' = "region"
  /\ UNCHANGED <<connected, requests, awaiting, socket, pipelined>>

(* ... then write the region, ... *)
WriteRegion ==
  /\ worker = "region"
  /\ Write(Part(handled, "region"))
  /\ worker' = "listen"
  /\ UNCHANGED <<connected, requests, handled, awaiting, files, socket, pipelined>>

(* Mutant: an error answer leaves the connection open. *)
CloseNeverAdded ==
  CASE requests[handled] = "page" -> {"release"}
    [] requests[handled] = "lastPage" -> {"release", "close"}
    [] OTHER -> {}

ListenersAdded ==
  CASE requests[handled] = "page" -> {"release"}
    [] requests[handled] = "lastPage" -> {"release", "close"}
    [] OTHER -> {"close"}

(* Mutant: a listener added to a write that is complete is not called. *)
ListenTooLate ==
  LET due == {k \in DOMAIN outbox : outbox[k].of = handled /\ outbox[k].part # "header"} IN
  /\ worker = "listen"
  /\ worker' = "idle"
  /\ outbox' = [k \in DOMAIN outbox |->
                  IF k \in due THEN [outbox[k] EXCEPT !.listeners = ListenersAdded]
                               ELSE outbox[k]]
  /\ UNCHANGED <<connected, files, failure, requests, handled, awaiting, socket, pipelined>>

(* ... then add the listeners to the last write, which are called at once if it
   is complete by now. *)
AddListeners ==
  LET due == {k \in DOMAIN outbox : outbox[k].of = handled /\ outbox[k].part # "header"} IN
  /\ worker = "listen"
  /\ worker' = "idle"
  /\ \/ /\ due # {}
        /\ outbox' = [k \in DOMAIN outbox |->
                        IF k \in due THEN [outbox[k] EXCEPT !.listeners = ListenersAdded]
                                     ELSE outbox[k]]
        /\ UNCHANGED <<connected, files, failure>>
     \/ /\ due = {} /\ connected /\ "close" \in ListenersAdded
        /\ files' = files \ ({handled} \cup Released(outbox))
        /\ CloseWith(outbox)
     \/ /\ due = {} /\ ~(connected /\ "close" \in ListenersAdded)
        /\ files' = files \ {handled}
        /\ UNCHANGED <<connected, outbox, failure>>
  /\ UNCHANGED <<requests, handled, awaiting, socket, pipelined>>

(* Mutant: exceptionCaught answers whether or not the channel is there. *)
AnswerAlways == TRUE

(* exceptionCaught answers a 500 on a connected channel only. *)
MayAnswer == connected

HandlerFaultCaught ==
  /\ worker = "caught"
  /\ IF MayAnswer
     THEN Write(Part(handled, "error")) /\ worker' = "listen"
     ELSE worker' = "idle" /\ UNCHANGED <<outbox, failure>>
  /\ UNCHANGED <<connected, requests, handled, awaiting, files, socket, pipelined>>

(* The same handler, told of a write that failed.  A write fails only on a closed
   channel and none opens again, so nothing is answered here; that MayAnswer is
   asked all the same is what ends the circle of failures (FailuresEnd). *)
WriteFailureCaught ==
  /\ failure
  /\ IF MayAnswer
     THEN Write(Part(handled, "error"))
     ELSE failure' = FALSE /\ UNCHANGED outbox
  /\ UNCHANGED <<connected, requests, handled, worker, awaiting, files, socket, pipelined>>

(* operationComplete of a command, on another thread. *)
CommandComplete(i) ==
  /\ i \in awaiting
  /\ awaiting' = awaiting \ {i}
  /\ Write(Part(i, "json"))
  /\ UNCHANGED <<connected, requests, handled, worker, files, socket, pipelined>>

(* The worker writes the next part, within a write or from its select loop,
   and calls the listeners the part has by now. *)
Flush ==
  LET x == Head(outbox)
      rest == Tail(outbox) IN
  /\ connected /\ outbox # << >>
  /\ socket' = Append(socket, x)
  /\ IF "close" \in x.listeners
     THEN /\ CloseWith(rest)
          /\ files' = files \ ((IF "release" \in x.listeners THEN {x.of} ELSE {})
                                 \cup Released(rest))
     ELSE /\ outbox' = rest
          /\ files' = IF "release" \in x.listeners THEN files \ {x.of} ELSE files
          /\ UNCHANGED <<connected, failure>>
  /\ UNCHANGED <<requests, handled, worker, awaiting, pipelined>>

(* The client closes the connection, or it breaks. *)
Disconnect ==
  /\ connected
  /\ CloseWith(outbox)
  /\ files' = files \ Released(outbox)
  /\ UNCHANGED <<requests, handled, worker, awaiting, socket, pipelined>>

Handle == Refuse \/ Fault \/ AnswerQuery \/ RelayCommand \/ OpenFile

Next ==
  \/ \E kind \in Kinds : Request(kind)
  \/ Handle \/ WriteRegion \/ AddListeners
  \/ HandlerFaultCaught \/ WriteFailureCaught
  \/ \E i \in 1..MaxRequests : CommandComplete(i)
  \/ Flush \/ Disconnect

Spec == Init /\ [][Next]_vars

(* The worker goes on with the request it is at, and takes the next; the socket
   takes what is written; the handler of a failed write runs.  Nothing is asked
   of the client, and nothing of the card reader. *)
Fairness ==
  /\ WF_vars(Handle) /\ WF_vars(WriteRegion) /\ WF_vars(AddListeners)
  /\ WF_vars(HandlerFaultCaught) /\ WF_vars(WriteFailureCaught)
  /\ WF_vars(Flush)

FairSpec == Spec /\ Fairness
-----------------------------------------------------------------------------
(* Every variable has its type, and a closed channel has nothing queued. *)
TypeOK ==
  /\ connected \in BOOLEAN /\ failure \in BOOLEAN /\ pipelined \in BOOLEAN
  /\ requests \in Seq(RequestKinds)
  /\ handled \in 0..Len(requests)
  /\ worker \in {"idle", "listen", "region", "caught"}
  /\ awaiting \subseteq 1..handled
  /\ files \subseteq 1..handled
  /\ outbox \in Seq([of : 0..MaxRequests, part : Parts, listeners : SUBSET Listeners])
  /\ socket \in Seq([of : 0..MaxRequests, part : Parts, listeners : SUBSET Listeners])
  /\ connected \/ outbox = << >>

(* The answers to request i that are queued or written. *)
AnswersTo(i) ==
  LET all == socket \o outbox IN {k \in DOMAIN all : all[k].of = i /\ all[k].part # "header"}

Busy(i) == i = handled /\ worker # "idle"

(* While the connection stands every request that was handled has exactly one
   answer, on its way or still owed by the card reader's connection; after it
   none has two (the early returns of every handler, exceptionCaught). *)
AnsweredOnce ==
  \A i \in 1..handled :
    LET n == Cardinality(AnswersTo(i)) + (IF i \in awaiting THEN 1 ELSE 0) IN
    n <= 1 /\ (connected /\ ~Busy(i) => n = 1)

(* A client that waits for each answer, as a browser does, gets the parts of
   the answers in order and the body of a file right after its header, although
   answers are queued by two threads. *)
InStep ==
  ~pipelined =>
    \A k \in 1..Len(socket) - 1 :
      IF socket[k].part = "header"
      THEN socket[k + 1].of = socket[k].of /\ socket[k + 1].part = "region"
      ELSE socket[k + 1].of > socket[k].of

(* Whatever the client does, only the answer to a command can be overtaken by
   the answer to a later request, or come between a header and its body. *)
OnlyCommandsAreLate ==
  \A j, k \in DOMAIN socket :
    j < k /\ socket[k].of < socket[j].of => requests[socket[k].of] = "command"

(* After an error, or a file the client asked to be the last, nothing follows
   but the answer to a command relayed before it: the close cannot be missed
   though its listener is added only after the write. *)
NothingAfterTheLast ==
  \A j, k \in DOMAIN socket :
    /\ j < k
    /\ \/ socket[j].part = "error"
       \/ socket[j].part = "region" /\ requests[socket[j].of] = "lastPage"
    => requests[socket[k].of] = "command" /\ socket[k].of < socket[j].of

(* A file is open only while its worker is at it or its region is queued, so it
   is released however the transfer ends (HttpFileHandler.operationComplete). *)
FilesAreReleased ==
  \A i \in files : Busy(i) \/ \E k \in DOMAIN outbox : outbox[k].of = i /\ outbox[k].part = "region"

(* A write that failed is not answered by another that fails: the exceptions of
   a closed connection end (the isConnected test of exceptionCaught). *)
FailuresEnd == failure ~> ~failure

(* The kinds of request after whose answer the connection is closed. *)
LastKinds == {"lastPage", "missing", "folder", "incomplete", "unknown", "malformed"}

(* The client that was sent an error, or asked for the end, is not left with an
   open connection: the close happens although the listener for it is added
   after the write, which may be complete by then, and whatever is queued ahead
   (HttpUtils.sendError, HttpFileHandler.process). *)
LastAnswersClose ==
  \A i \in 1..MaxRequests :
    i <= Len(requests) /\ requests[i] \in LastKinds ~> ~connected
=============================================================================
