------------------------------ MODULE Connector ------------------------------
(***************************************************************************)
(* The smart card connector: the GUI thread that connects and disconnects  *)
(* (GuiPanel, ViewModel, PcscClient) against the Netty worker that hands   *)
(* commands to the card and answers them (PcscClientHandler).  The two     *)
(* share the static field ViewModel.cardChannel, without a lock.           *)
(*                                                                         *)
(* Pressing Connect without a card in the reader, or with no reader, raises*)
(* before anything is changed and is no step here.  The cards, the server  *)
(* and the network are the environment.                                    *)
(***************************************************************************)
EXTENDS Naturals, Sequences, FiniteSets

CONSTANTS
  Readers,      \* the card readers of the computer
  None,         \* null: no card channel, or the empty answer of a failed card
  MaxCards,     \* bound: insertions of a card into a reader
  MaxClients,   \* bound: connections attempted
  MaxCommands   \* bound: commands the server sends on one connection

ASSUME ConnectorAssumption ==
  /\ MaxCards \in Nat /\ MaxClients \in Nat /\ MaxCommands \in Nat
  /\ None \notin [reader : Readers, card : 1..MaxCards]
  /\ None \notin [n : 1..MaxCommands, via : [reader : Readers, card : 1..MaxCards]]

Clients == 1..MaxClients
CardChannels == [reader : Readers, card : 1..MaxCards]
Commands == [n : 1..MaxCommands, wellFormed : BOOLEAN]

VARIABLES
  card,         \* the card in each reader, 0 for none
  lastCard,     \* how many cards were inserted
  cardChannel,  \* ViewModel.cardChannel
  gui,          \* the button that shows
  edt,          \* where the GUI thread is
  client,       \* ViewModel.client: the latest PcscClient, 0 for none
  link,         \* state of the connection of each client
  sent,         \* how many commands the server sent on it
  inbox,        \* commands sent and not read from the socket
  batch,        \* commands the worker has read and not yet handled
  busy,         \* the command the card executes and the channel it came by
  replies,      \* what was written back: to which command, from which channel
  chosen,       \* history: the reader selected when Connect was pressed
  opened        \* history: cardChannel when the client was started

guiVars == <<gui, edt, client, chosen, opened>>
workerVars == <<batch, busy, replies>>
vars == <<card, lastCard, cardChannel, guiVars, link, sent, inbox, workerVars>>

Init ==
  /\ card = [r \in Readers |-> 0] /\ lastCard = 0
  /\ cardChannel = None
  /\ gui = "connect" /\ edt = "idle" /\ client = 0
  /\ link = [c \in Clients |-> "none"]
  /\ sent = [c \in Clients |-> 0]
  /\ inbox = [c \in Clients |-> << >>]
  /\ batch = [c \in Clients |-> << >>]
  /\ busy = [c \in Clients |-> None]
  /\ replies = [c \in Clients |-> << >>]
  /\ chosen = None
  /\ opened = [c \in Clients |-> [by |-> None, for |-> None]]

-----------------------------------------------------------------------------
(* The user moves cards. *)
InsertCard(r) ==
  /\ card[r] = 0 /\ lastCard < MaxCards
  /\ lastCard' = lastCard + 1
  /\ card' = [card EXCEPT ![r] = lastCard + 1]
  /\ UNCHANGED <<cardChannel, guiVars, link, sent, inbox, workerVars>>

RemoveCard(r) ==
  /\ card[r] # 0
  /\ card' = [card EXCEPT ![r] = 0]
  /\ UNCHANGED <<lastCard, cardChannel, guiVars, link, sent, inbox, workerVars>>

-----------------------------------------------------------------------------
(* Connect was pressed and the card in the selected reader opened. *)
OpenCard(r) ==
  /\ edt = "idle" /\ gui = "connect" /\ card[r] # 0
  /\ cardChannel' = [reader |-> r, card |-> card[r]]
  /\ chosen' = r
  /\ edt' = "terminal"
  /\ UNCHANGED <<card, lastCard, gui, client, opened, link, sent, inbox, workerVars>>

(* A CardException, from any of the three calls, is printed and forgotten:
   cardChannel stays as it was and connect goes on. *)
OpenCardFails(r) ==
  /\ edt = "idle" /\ gui = "connect"
  /\ chosen' = r
  /\ edt' = "terminal"
  /\ UNCHANGED <<card, lastCard, cardChannel, gui, client, opened, link, sent, inbox,
                 workerVars>>

(* The port is no number or no port: an exception ends the handler of the button
   and Connect stays.  (The field client may refer to a new PcscClient by then;
   nothing reads it before it is assigned again.) *)
BadPort ==
  /\ edt = "terminal"
  /\ edt' = "idle"
  /\ UNCHANGED <<card, lastCard, cardChannel, gui, client, chosen, opened, link, sent,
                 inbox, workerVars>>

(* A new PcscClient starts to connect, and the GUI thread waits for the outcome. *)
StartClient ==
  /\ edt = "terminal" /\ client < MaxClients
  /\ client' = client + 1
  /\ link' = [link EXCEPT ![client + 1] = "connecting"]
  /\ opened' = [opened EXCEPT ![client + 1] = [by |-> cardChannel, for |-> chosen]]
  /\ edt' = "awaiting"
  /\ UNCHANGED <<card, lastCard, cardChannel, gui, chosen, sent, inbox, workerVars>>

(* The outcome: connected, or refused or timed out. *)
ConnectEnds(c, outcome) ==
  /\ link[c] = "connecting"
  /\ link' = [link EXCEPT ![c] = outcome]
  /\ UNCHANGED <<card, lastCard, cardChannel, guiVars, sent, inbox, workerVars>>

(* run returns and the buttons are swapped, even if the attempt failed. *)
ConnectReturns ==
  /\ edt = "awaiting" /\ link[client] # "connecting"
  /\ edt' = "idle"
  /\ gui' = "disconnect"
  /\ UNCHANGED <<card, lastCard, cardChannel, client, chosen, opened, link, sent, inbox,
                 workerVars>>

(* Mutant: the connection is left to the shutdown of the thread pools. *)
ReleaseOnly ==
  /\ edt = "idle" /\ gui = "disconnect"
  /\ edt' = "releasing"
  /\ UNCHANGED <<card, lastCard, cardChannel, gui, client, chosen, opened, link, sent,
                 inbox, workerVars>>

(* stop closes the connection, from the GUI thread, whatever the worker does. *)
PressDisconnect ==
  /\ edt = "idle" /\ gui = "disconnect"
  /\ link' = [link EXCEPT ![client] = "closed"]
  /\ edt' = "releasing"
  /\ UNCHANGED <<card, lastCard, cardChannel, gui, client, chosen, opened, sent, inbox,
                 workerVars>>

(* Mutant: stop does not wait for the threads of the client. *)
StopAtOnce ==
  /\ edt = "releasing"
  /\ edt' = "idle"
  /\ gui' = "connect"
  /\ UNCHANGED <<card, lastCard, cardChannel, client, chosen, opened, link, sent, inbox,
                 workerVars>>

(* releaseExternalResources waits for the worker, which runs until it has no open
   connection left and has handled what it read. *)
StopReturns ==
  /\ edt = "releasing"
  /\ link[client] = "closed" /\ batch[client] = << >> /\ busy[client] = None
  /\ edt' = "idle"
  /\ gui' = "connect"
  /\ UNCHANGED <<card, lastCard, cardChannel, client, chosen, opened, link, sent, inbox,
                 workerVars>>

-----------------------------------------------------------------------------
(* The server sends a command; it may close the connection at any moment. *)
ServerSends(c, ok) ==
  /\ link[c] = "open" /\ sent[c] < MaxCommands
  /\ sent' = [sent EXCEPT ![c] = @ + 1]
  /\ inbox' = [inbox EXCEPT ![c] = Append(@, [n |-> sent[c] + 1, wellFormed |-> ok])]
  /\ UNCHANGED <<card, lastCard, cardChannel, guiVars, link, workerVars>>

ServerCloses(c) ==
  /\ link[c] = "open"
  /\ link' = [link EXCEPT ![c] = "closed"]
  /\ UNCHANGED <<card, lastCard, cardChannel, guiVars, sent, inbox, workerVars>>

(* One read takes the first k commands off the socket; the decoder hands them to
   the handler one after the other, without a look at the connection between. *)
Read(c, k) ==
  /\ link[c] = "open" /\ batch[c] = << >> /\ busy[c] = None
  /\ batch' = [batch EXCEPT ![c] = SubSeq(inbox[c], 1, k)]
  /\ inbox' = [inbox EXCEPT ![c] = SubSeq(@, k + 1, Len(@))]
  /\ UNCHANGED <<card, lastCard, cardChannel, guiVars, link, sent, busy, replies>>

(* Mutant: null is used as the card channel. *)
TransmitOnNull(c) ==
  /\ batch[c] # << >> /\ busy[c] = None
  /\ Head(batch[c]).wellFormed
  /\ busy' = [busy EXCEPT ![c] = [n |-> Head(batch[c]).n, via |-> cardChannel]]
  /\ batch' = [batch EXCEPT ![c] = Tail(@)]
  /\ UNCHANGED <<card, lastCard, cardChannel, guiVars, link, sent, inbox, replies>>

(* messageReceived hands the command to whatever card channel is set now. *)
Transmit(c) ==
  /\ batch[c] # << >> /\ busy[c] = None
  /\ Head(batch[c]).wellFormed /\ cardChannel # None
  /\ busy' = [busy EXCEPT ![c] = [n |-> Head(batch[c]).n, via |-> cardChannel]]
  /\ batch' = [batch EXCEPT ![c] = Tail(@)]
  /\ UNCHANGED <<card, lastCard, cardChannel, guiVars, link, sent, inbox, replies>>

(* Mutant: a command that cannot be handed to the card is dropped. *)
DropBadCommand(c) ==
  /\ batch[c] # << >> /\ busy[c] = None
  /\ ~Head(batch[c]).wellFormed \/ cardChannel = None
  /\ batch' = [batch EXCEPT ![c] = Tail(@)]
  /\ UNCHANGED <<card, lastCard, cardChannel, guiVars, link, sent, inbox, busy, replies>>

(* No card channel, or bytes that are no command: an unchecked exception, and
   exceptionCaught closes the connection.  The rest of the batch comes next. *)
HandlerFails(c) ==
  /\ batch[c] # << >> /\ busy[c] = None
  /\ ~Head(batch[c]).wellFormed \/ cardChannel = None
  /\ link' = [link EXCEPT ![c] = "closed"]
  /\ batch' = [batch EXCEPT ![c] = Tail(@)]
  /\ UNCHANGED <<card, lastCard, cardChannel, guiVars, sent, inbox, busy, replies>>

(* messageReceived goes on with the answer and writes it; on a closed connection
   the write fails and nobody looks. *)
Respond(c, by) ==
  /\ busy' = [busy EXCEPT ![c] = None]
  /\ replies' = IF link[c] = "open"
                THEN [replies EXCEPT ![c] = Append(@, [to |-> busy[c].n, by |-> by])]
                ELSE replies
  /\ UNCHANGED <<card, lastCard, cardChannel, guiVars, link, sent, inbox, batch>>

(* The card answers if it still is in its reader. *)
CardAnswers(c) ==
  /\ busy[c] # None /\ card[busy[c].via.reader] = busy[c].via.card
  /\ Respond(c, busy[c].via)

(* Mutant: no answer is written for a CardException. *)
CardFailsSilently(c) ==
  /\ busy[c] # None
  /\ busy' = [busy EXCEPT ![c] = None]
  /\ UNCHANGED <<card, lastCard, cardChannel, guiVars, link, sent, inbox, batch, replies>>

(* A CardException is answered with an empty response. *)
CardFails(c) ==
  /\ busy[c] # None
  /\ Respond(c, None)

-----------------------------------------------------------------------------
Gui ==
  \/ \E r \in Readers : OpenCard(r) \/ OpenCardFails(r)
  \/ BadPort \/ StartClient \/ ConnectReturns \/ PressDisconnect \/ StopReturns

Worker(c) ==
  \/ \E k \in 1..Len(inbox[c]) : Read(c, k)
  \/ Transmit(c) \/ HandlerFails(c) \/ CardAnswers(c) \/ CardFails(c)

Environment ==
  \/ \E r \in Readers : InsertCard(r) \/ RemoveCard(r)
  \/ \E c \in Clients :
       \/ \E outcome \in {"open", "closed"} : ConnectEnds(c, outcome)
       \/ \E ok \in BOOLEAN : ServerSends(c, ok)
       \/ ServerCloses(c)

Next == Gui \/ Environment \/ \E c \in Clients : Worker(c)

Spec == Init /\ [][Next]_vars

(* The worker runs, a card answers or fails, a connection attempt ends (Netty
   gives up after ten seconds), and the GUI thread goes on when it can.  Nobody
   has to press a button, move a card or send a command. *)
Fairness ==
  /\ \A c \in Clients :
       WF_vars(Worker(c)) /\ WF_vars(\E o \in {"open", "closed"} : ConnectEnds(c, o))
  /\ WF_vars(BadPort \/ StartClient) /\ WF_vars(ConnectReturns) /\ WF_vars(StopReturns)

FairSpec == Spec /\ Fairness
-----------------------------------------------------------------------------
(* Every variable has its type; a command is at the card only by a card channel. *)
TypeOK ==
  /\ card \in [Readers -> 0..MaxCards] /\ lastCard \in 0..MaxCards
  /\ cardChannel \in CardChannels \cup {None}
  /\ gui \in {"connect", "disconnect"}
  /\ edt \in {"idle", "terminal", "awaiting", "releasing"}
  /\ client \in 0..MaxClients
  /\ link \in [Clients -> {"none", "connecting", "open", "closed"}]
  /\ sent \in [Clients -> 0..MaxCommands]
  /\ inbox \in [Clients -> Seq(Commands)]
  /\ batch \in [Clients -> Seq(Commands)]
  /\ busy \in [Clients -> [n : 1..MaxCommands, via : CardChannels] \cup {None}]
  /\ replies \in
       [Clients -> Seq([to : 1..MaxCommands, by : CardChannels \cup {None}])]
  /\ chosen \in Readers \cup {None}
  /\ opened \in
       [Clients -> [by : CardChannels \cup {None}, for : Readers \cup {None}]]

(* Nothing of client c can reach the card or the server. *)
Quiet(c) == link[c] \in {"none", "closed"} /\ batch[c] = << >> /\ busy[c] = None

(* At most one connection is alive, the one the Disconnect button is for or the
   GUI thread waits for; where Connect shows, no command reaches the card any
   more, not even one that was read before the connection was closed. *)
OnlyOneAlive ==
  \A c \in Clients :
    ~Quiet(c) => c = client /\ (gui = "disconnect" \/ edt = "awaiting")

(* The replies of a connection answer its commands, each once and in their order:
   the server tells them apart by nothing else (PcscClientHandler writes one
   response for each message, the empty one after a CardException). *)
RepliesInOrder ==
  \A c \in Clients : \A i \in 1..Len(replies[c]) : replies[c][i].to = i

(* All commands of a connection go to the card channel that was set when it was
   started, and all its replies come from there, although the field is shared and
   changes with every Connect. *)
ServedByOneCard ==
  \A c \in Clients :
    /\ busy[c] # None => busy[c].via = opened[c].by
    /\ \A i \in 1..Len(replies[c]) : replies[c][i].by \in {None, opened[c].by}

(* The connection serves the reader whose name the user selected for it, as the
   list labelled "Reader: " and the parameter readerName of ViewModel.connect
   say.  It does not hold: after a CardException the channel of the reader
   connected before is still set. *)
ServedByChosenReader ==
  \A c \in Clients : \A i \in 1..Len(replies[c]) :
    replies[c][i].by # None => replies[c][i].by.reader = opened[c].for

(* The GUI thread always comes back to its events: connect ends with the attempt,
   stop when the card has answered the command it is at. *)
GuiComesBack == edt # "idle" ~> edt = "idle"

(* Every command is answered, if only with an empty response, unless its
   connection is closed. *)
CommandsAnswered ==
  \A c \in Clients, n \in 1..MaxCommands :
    sent[c] >= n ~> Len(replies[c]) >= n \/ link[c] = "closed"

-----------------------------------------------------------------------------
(* A session is over when nothing of its connection can reach the card or the
   server any more. *)
StateOf(c) ==
  CASE link[c] = "none" -> "fresh"
    [] link[c] = "closed" /\ Quiet(c) -> "over"
    [] OTHER -> "alive"

Service == INSTANCE CardService WITH
  Sessions <- Clients, Cards <- CardChannels, NoCard <- None,
  state <- [c \in Clients |-> StateOf(c)],
  holder <- [c \in Clients |-> opened[c].by],
  asked <- sent, answers <- replies

(* The connector implements the card service, although its threads share the
   card channel and either end may close in the middle of a command. *)
CardServiceImplemented == Service!Spec
=============================================================================
