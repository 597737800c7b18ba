----------------------------- MODULE WebTerminal -----------------------------
(***************************************************************************)
(* The terminal server and a connector together.  Every connection of the  *)
(* connector is a channel of the server, under the same number: a command  *)
(* the server writes is one the connector may read, and the n-th reply the *)
(* connector writes is the n-th frame the server receives.  Both ends      *)
(* frame what they write in the same way, and what Framing says of one     *)
(* direction is taken for granted here: messages that fit the length byte  *)
(* arrive whole and in order, or not at all.                               *)
(*                                                                         *)
(* Nothing else is shared.  In particular each end learns by itself, and   *)
(* in its own time, that a connection is over, so a command may be written *)
(* to a connector that has closed already, and is lost.                    *)
(***************************************************************************)
EXTENDS TerminalServer, FiniteSets

CONSTANTS
  Readers, None, MaxCards, MaxClients, MaxCommands  \* as in Connector

ASSUME SystemAssumption ==
  /\ MaxClients \in Nat /\ Channels = 1..MaxClients
  /\ MaxCards \in Nat
  /\ MaxCommands \in Nat /\ MaxCommands >= Cardinality(Requests)
  /\ MaxFrames >= MaxCommands

ASSUME NoneAssumption ==  \* as in Connector
  /\ None \notin [reader : Readers, card : 1..MaxCards]
  /\ None \notin [n : 1..MaxCommands, via : [reader : Readers, card : 1..MaxCards]]

VARIABLES
  card, lastCard, cardChannel, gui, edt, client, link, sent, inbox, batch, busy,
  replies, chosen, opened,  \* as in Connector
  established,  \* connections that TCP has set up
  overlapped,   \* history: channels for which a command was submitted before
                \* the last one was answered
  hasty         \* history: the same, or before the transcript held its reply

C == INSTANCE Connector

connectorVars == <<card, lastCard, cardChannel, gui, edt, client, link, sent, inbox,
                   batch, busy, replies, chosen, opened>>
clients    == <<overlapped, hasty>>
systemVars == <<vars, connectorVars, established, clients>>

SystemInit ==
  /\ Init /\ C!Init
  /\ established = {}
  /\ overlapped = {} /\ hasty = {}

-----------------------------------------------------------------------------
(* A step of one end that the other end has no part in. *)
ServerOnly(step) == step /\ UNCHANGED <<connectorVars, established, clients>>
ConnectorOnly(step) == step /\ UNCHANGED <<vars, established, clients>>

(* The connector is connected.  (The server may know first, but nothing it sends
   is read before.) *)
Connected(c) ==
  /\ C!ConnectEnds(c, "open")
  /\ established' = established \cup {c}
  /\ UNCHANGED <<vars, clients>>

(* The server accepts a connection, perhaps when it is over for the connector. *)
Accept(c) == c \in established /\ ServerOnly(OpenChannel(c))

(* The commands for connection c that a client waits to have answered. *)
Waiting(c) == {q \in Commands : call[q].id = c /\ pc[q] # "idle" /\ answer[q] = "none"}

(* Every command written to connection c has its reply in the transcript. *)
Settled(c) == pc[c] = "idle" /\ frames[c] = Len(wire[c])

(* A client asks for something. *)
Ask(r) ==
  LET c == call[r].id IN
  /\ Submit(r)
  /\ overlapped' = IF r \in Commands /\ Waiting(c) # {} THEN overlapped \cup {c} ELSE overlapped
  /\ hasty' = IF r \in Commands /\ (Waiting(c) # {} \/ ~Settled(c)) THEN hasty \cup {c} ELSE hasty
  /\ UNCHANGED <<connectorVars, established>>

(* A command is written and arrives, unless the connector has closed. *)
Deliver(c) ==
  /\ Flush(c)
  /\ IF link[c] = "open" THEN \E ok \in BOOLEAN : C!ServerSends(c, ok)
                         ELSE UNCHANGED connectorVars
  /\ UNCHANGED <<established, clients>>

(* A reply arrives. *)
ReplyArrives(c) == frames[c] < Len(replies[c]) /\ ServerOnly(MessageReceived(c))

(* The server is told that the connector has closed. *)
ServerNotices(c) == link[c] = "closed" /\ ServerOnly(CloseChannel(c))

ServerWorker(c) ==
  \/ Deliver(c)
  \/ ServerOnly(\/ FailPending(c) \/ RemoveTranscript(c)
                \/ AddRead(c) \/ AddSize(c) \/ AddStore(c) \/ AddThrows(c))

ConnectorWorker(c) == ConnectorOnly(C!Worker(c))

(* The network breaks, and one end is told; so is the other in its own time. *)
ServerLoses(c) == ServerOnly(CloseChannel(c))
ConnectorLoses(c) == ConnectorOnly(C!ServerCloses(c))

SystemNext ==
  \/ \E c \in Channels :
       \/ Connected(c) \/ ConnectorOnly(C!ConnectEnds(c, "closed"))
       \/ Accept(c) \/ ServerOnly(PutTranscript(c)) \/ ReplyArrives(c) \/ ServerWorker(c)
       \/ ConnectorWorker(c)
       \/ ServerLoses(c) \/ ConnectorLoses(c)
  \/ \E r \in Requests : Ask(r) \/ ServerOnly(RequestStep(r))
  \/ ConnectorOnly(C!Gui)
  \/ \E r \in Readers : ConnectorOnly(C!InsertCard(r) \/ C!RemoveCard(r))

System == SystemInit /\ [][SystemNext]_systemVars

(* The threads of both ends run, a card answers or fails, what was written on a
   connection that stands arrives, and TCP tells the server of a close. *)
SystemFairness ==
  /\ \A c \in Channels :
       /\ WF_systemVars(ServerOnly(PutTranscript(c))) /\ WF_systemVars(ServerWorker(c))
       /\ WF_systemVars(link[c] = "open" /\ ReplyArrives(c))
       /\ WF_systemVars(ServerNotices(c))
       /\ WF_systemVars(ConnectorWorker(c))
  /\ \A r \in Requests : WF_systemVars(ServerOnly(RequestStep(r)))

FairSystem == System /\ SystemFairness
-----------------------------------------------------------------------------
(* The request that the n-th frame of channel c answers. *)
Cause(c, n) == wire[c][replies[c][n].to]

(* The array behind a transcript may hold empty slots. *)
IsReply(e) == e # Null /\ e.sender = "reader"

(* Each reply in a transcript answers a command that was written to that very
   connection, and this command stands before it, through all the threads and
   queues between the HTTP request and the card.  The command may be missing from
   a transcript two of whose adds overlapped: add may lose it. *)
RepliesFollowCommands ==
  \A c \in Channels : \A i \in 1..Len(elementData[c]) :
    IsReply(elementData[c][i]) =>
      LET n == elementData[c][i].of IN
      /\ n <= Len(replies[c]) /\ replies[c][n].to <= Len(wire[c])
      /\ raced[c] \/ \E j \in 1..i : elementData[c][j] = You(Cause(c, n))

(* Waiting for "command sent" does not keep two adds apart: the worker may add
   the reply (PcscServerHandler.messageReceived) while the next command is being
   added (CommandApdu.process).  Waiting until the reply can be read does: while a
   command is under way no reply is, for the worker, the queues, the card and the
   connector bring one reply at most for each command written. *)
PatienceAvoidsRaces == \A c \in Channels : c \notin hasty => ~raced[c]

(* How many of the first i entries of transcript s a sender has. *)
NumberOf(s, sender, i) == Cardinality({j \in 1..i : s[j].sender = sender})

(* Clients wait for the answer to a command before they send another to the same
   reader, and send none that is recorded and then cannot be encoded. *)
TakingTurns(c) ==
  /\ c \notin overlapped
  /\ \A r \in Commands : call[r].id = c => call[r].body \notin Unsendable

(* The page shows commands and replies without saying which belongs to which.
   If clients take turns and no two adds overlapped, the k-th reply stands after
   the k-th command and is the reply to it.  Both are needed: CommandApdu.process
   keeps no order from the transcript to the socket, and clients that take turns
   may still race a reply, unless they are patient (PatienceAvoidsRaces). *)
TranscriptPairsUp ==
  \A c \in Channels : TakingTurns(c) /\ ~raced[c] =>
    LET transcript == elementData[c] IN
    \A i \in 1..Len(transcript) : IsReply(transcript[i]) =>
      \E j \in 1..i :
        /\ transcript[j] = You(Cause(c, transcript[i].of))
        /\ NumberOf(transcript, "you", j) = NumberOf(transcript, "reader", i)

(* A command that was reported as sent gets its reply into the transcript, an
   empty one if the card fails, or the server finds its connection closed, also
   when it was written to a connector that had gone.  Where two adds to the
   transcript overlapped the reply may be lost. *)
SentIsAnswered ==
  \A r \in Requests :
    answer[r] = "sent" /\ r \in Commands
      ~> LET c == call[r].id IN
         \/ phase[c] \in Gone \/ raced[c]
         \/ \E n \in 1..Len(replies[c]) :
              Cause(c, n) = r /\ Reader(n) \in ToSet(elementData[c])
=============================================================================
