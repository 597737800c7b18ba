-------------------------- MODULE WebTerminal_proofs --------------------------
(***************************************************************************)
(* The two ends together.  Seen from the server, a step of the system is a *)
(* step of the server or none, and so it is seen from the connector; what  *)
(* is proved of the server alone therefore holds here.  What neither end   *)
(* has by itself, that a reply is stored after its command was, is an      *)
(* invariant that counts from the socket of the server to the card and     *)
(* back.                                                                   *)
(***************************************************************************)
EXTENDS WebTerminal, TerminalServer_proofs

(* No command that the connector holds, or answered, is beyond those sent. *)
Numbered(c) ==
  /\ \A i \in 1..Len(inbox[c]) : inbox[c][i].n <= sent[c]
  /\ \A i \in 1..Len(batch[c]) : batch[c][i].n <= sent[c]
  /\ busy[c] # None => busy[c].n <= sent[c]
  /\ \A i \in 1..Len(replies[c]) : replies[c][i].to <= sent[c]

(* What one end has from the other was written there. *)
Delivered(c) == sent[c] <= Len(wire[c])
Received(c) == frames[c] <= Len(replies[c])

(* The i-th entry stored in the transcript is no reply, or one whose command was
   stored before it. *)
Follows(c, i) ==
  log[c][i].sender = "reader" =>
    /\ log[c][i].of <= Len(replies[c])
    /\ \E j \in 1..i : log[c][j] = You(Cause(c, log[c][i].of))

SystemInv ==
  /\ TypeInv /\ RelayInv /\ C!TypeOK
  /\ \A c \in Channels : Numbered(c) /\ Delivered(c) /\ Received(c)
  /\ \A c \in Channels : \A i \in 1..Len(log[c]) : Follows(c, i)

-----------------------------------------------------------------------------
(* A step of the system is a step of each end, or none. *)
LEMMA ServerStep == [SystemNext]_systemVars => [Next]_vars
  <1>1. ASSUME NEW c \in Channels, ServerWorker(c) PROVE Next
    BY <1>1 DEF ServerWorker, Deliver, ServerOnly, Next, WorkerStep
  <1>2. ASSUME NEW c \in Channels,
               Accept(c) \/ ServerOnly(PutTranscript(c)) \/ ReplyArrives(c) \/ ServerLoses(c)
        PROVE  Next
    BY <1>2 DEF Accept, ReplyArrives, ServerLoses, ServerOnly, Next, Environment
  <1>3. ASSUME NEW c \in Channels,
               \/ Connected(c) \/ ConnectorOnly(C!ConnectEnds(c, "closed"))
               \/ ConnectorWorker(c) \/ ConnectorLoses(c)
        PROVE  UNCHANGED vars
    BY <1>3 DEF Connected, ConnectorWorker, ConnectorLoses, ConnectorOnly
  <1>4. ASSUME NEW r \in Requests, Ask(r) \/ ServerOnly(RequestStep(r)) PROVE Next
    BY <1>4 DEF Ask, ServerOnly, Next, Environment
  <1>5. ASSUME \/ ConnectorOnly(C!Gui)
               \/ \E r \in Readers : ConnectorOnly(C!InsertCard(r) \/ C!RemoveCard(r))
        PROVE  UNCHANGED vars
    BY <1>5 DEF ConnectorOnly
  <1>6. CASE UNCHANGED systemVars
    BY <1>6 DEF systemVars
  <1>7. QED BY <1>1, <1>2, <1>3, <1>4, <1>5, <1>6 DEF SystemNext

LEMMA SameClients == C!Clients = Channels
  BY SystemAssumption DEF C!Clients

LEMMA ConnectorQuiet == UNCHANGED connectorVars => UNCHANGED C!vars
  BY DEF connectorVars, C!vars, C!guiVars, C!workerVars

LEMMA ConnectorStep == [SystemNext]_systemVars => [C!Next]_(C!vars)
  <1>1. ASSUME NEW c \in Channels, Deliver(c) PROVE [C!Next]_(C!vars)
    BY <1>1, SameClients, ConnectorQuiet DEF Deliver, C!Next, C!Environment
  <1>2. ASSUME NEW c \in Channels, ServerWorker(c) PROVE [C!Next]_(C!vars)
    BY <1>1, <1>2, ConnectorQuiet DEF ServerWorker, ServerOnly
  <1>3. ASSUME NEW c \in Channels,
               Accept(c) \/ ServerOnly(PutTranscript(c)) \/ ReplyArrives(c) \/ ServerLoses(c)
        PROVE  UNCHANGED C!vars
    BY <1>3, ConnectorQuiet DEF Accept, ReplyArrives, ServerLoses, ServerOnly
  <1>4. ASSUME NEW c \in Channels,
               Connected(c) \/ ConnectorOnly(C!ConnectEnds(c, "closed")) \/ ConnectorLoses(c)
        PROVE  C!Next
    BY <1>4, SameClients DEF Connected, ConnectorLoses, ConnectorOnly, C!Next, C!Environment
  <1>5. ASSUME NEW c \in Channels, ConnectorWorker(c) PROVE C!Next
    BY <1>5, SameClients DEF ConnectorWorker, ConnectorOnly, C!Next
  <1>6. ASSUME NEW r \in Requests, Ask(r) \/ ServerOnly(RequestStep(r)) PROVE UNCHANGED C!vars
    BY <1>6, ConnectorQuiet DEF Ask, ServerOnly
  <1>7. ASSUME ConnectorOnly(C!Gui) PROVE C!Next
    BY <1>7 DEF ConnectorOnly, C!Next
  <1>8. ASSUME NEW r \in Readers, ConnectorOnly(C!InsertCard(r) \/ C!RemoveCard(r)) PROVE C!Next
    BY <1>8 DEF ConnectorOnly, C!Next, C!Environment
  <1>9. CASE UNCHANGED systemVars
    BY <1>9, ConnectorQuiet DEF systemVars
  <1>10. QED BY <1>2, <1>3, <1>4, <1>5, <1>6, <1>7, <1>8, <1>9 DEF SystemNext

-----------------------------------------------------------------------------
(* Cutting a sequence of commands yields commands. *)
LEMMA CutCommands ==
  ASSUME NEW q \in Seq(C!Commands), NEW k \in 1..Len(q)
  PROVE  SubSeq(q, 1, k) \in Seq(C!Commands) /\ SubSeq(q, k + 1, Len(q)) \in Seq(C!Commands)
  <1>1. \A i \in 1..Len(q) : q[i] \in C!Commands
    OBVIOUS
  <1>2. Len(q) \in Int /\ k \in Int /\ k + 1 \in Int
    OBVIOUS
  <1>3. SubSeq(q, 1, k) \in Seq(C!Commands)
    <2>1. \A i \in 1..k : q[i] \in C!Commands
      BY <1>1, <1>2
    <2>2. QED BY <1>2, <2>1, SubSeqProperties
  <1>4. SubSeq(q, k + 1, Len(q)) \in Seq(C!Commands)
    <2>1. \A i \in k + 1..Len(q) : q[i] \in C!Commands
      BY <1>1, <1>2
    <2>2. QED BY <1>2, <2>1, SubSeqProperties
  <1>5. QED BY <1>3, <1>4

LEMMA ConnectorTypesInit == C!Init => C!TypeOK
  <1>1. << >> \in Seq(C!Commands)
        /\ << >> \in Seq([to : 1..MaxCommands, by : C!CardChannels \cup {None}])
    OBVIOUS
  <1>2. QED BY <1>1, SystemAssumption DEF C!Init, C!TypeOK, C!Clients

LEMMA ConnectorTypesStep == C!TypeOK /\ [C!Next]_(C!vars) => C!TypeOK'
  <1> SUFFICES ASSUME C!TypeOK, [C!Next]_(C!vars) PROVE C!TypeOK'
    OBVIOUS
  <1> USE SystemAssumption
  <1>1. ASSUME NEW r \in Readers, C!InsertCard(r) PROVE C!TypeOK'
    <2>1. lastCard' \in 0..MaxCards /\ lastCard' = lastCard + 1
      BY <1>1 DEF C!InsertCard, C!TypeOK
    <2>2. card' \in [Readers -> 0..MaxCards]
      BY <1>1, <2>1 DEF C!InsertCard, C!TypeOK
    <2>3. QED BY <1>1, <2>1, <2>2 DEF C!InsertCard, C!TypeOK, C!guiVars, C!workerVars
  <1>2. ASSUME NEW r \in Readers, C!RemoveCard(r) PROVE C!TypeOK'
    <2>1. card' \in [Readers -> 0..MaxCards]
      BY <1>2 DEF C!RemoveCard, C!TypeOK
    <2>2. QED BY <1>2, <2>1 DEF C!RemoveCard, C!TypeOK, C!guiVars, C!workerVars
  <1>3. ASSUME NEW r \in Readers, C!OpenCard(r) PROVE C!TypeOK'
    <2>1. card[r] \in 1..MaxCards
      BY <1>3 DEF C!OpenCard, C!TypeOK
    <2>2. cardChannel' \in C!CardChannels
      BY <1>3, <2>1 DEF C!OpenCard, C!CardChannels
    <2>3. QED BY <1>3, <2>2 DEF C!OpenCard, C!TypeOK, C!workerVars
  <1>4. ASSUME NEW r \in Readers, C!OpenCardFails(r) PROVE C!TypeOK'
    BY <1>4 DEF C!OpenCardFails, C!TypeOK, C!workerVars
  <1>5. ASSUME C!BadPort PROVE C!TypeOK'
    BY <1>5 DEF C!BadPort, C!TypeOK, C!workerVars
  <1>6. ASSUME C!StartClient PROVE C!TypeOK'
    <2>1. client' \in 0..MaxClients
      BY <1>6 DEF C!StartClient, C!TypeOK
    <2>2. [by |-> cardChannel, for |-> chosen]
            \in [by : C!CardChannels \cup {None}, for : Readers \cup {None}]
      BY DEF C!TypeOK
    <2>3. opened' \in
            [C!Clients -> [by : C!CardChannels \cup {None}, for : Readers \cup {None}]]
      BY <1>6, <2>2 DEF C!StartClient, C!TypeOK
    <2>4. link' \in [C!Clients -> {"none", "connecting", "open", "closed"}]
      BY <1>6 DEF C!StartClient, C!TypeOK
    <2>5. QED BY <1>6, <2>1, <2>3, <2>4 DEF C!StartClient, C!TypeOK, C!workerVars
  <1>7. ASSUME C!ConnectReturns PROVE C!TypeOK'
    BY <1>7 DEF C!ConnectReturns, C!TypeOK, C!workerVars
  <1>8. ASSUME C!PressDisconnect PROVE C!TypeOK'
    BY <1>8 DEF C!PressDisconnect, C!TypeOK, C!workerVars
  <1>9. ASSUME C!StopReturns PROVE C!TypeOK'
    BY <1>9 DEF C!StopReturns, C!TypeOK, C!workerVars
  <1>10. ASSUME NEW c \in C!Clients, NEW o \in {"open", "closed"}, C!ConnectEnds(c, o)
         PROVE  C!TypeOK'
    BY <1>10 DEF C!ConnectEnds, C!TypeOK, C!guiVars, C!workerVars
  <1>11. ASSUME NEW c \in C!Clients, NEW ok \in BOOLEAN, C!ServerSends(c, ok) PROVE C!TypeOK'
    <2>1. [n |-> sent[c] + 1, wellFormed |-> ok] \in C!Commands
      BY <1>11 DEF C!ServerSends, C!TypeOK, C!Commands
    <2>2. inbox' \in [C!Clients -> Seq(C!Commands)]
      BY <1>11, <2>1 DEF C!ServerSends, C!TypeOK
    <2>3. sent' \in [C!Clients -> 0..MaxCommands]
      BY <1>11 DEF C!ServerSends, C!TypeOK
    <2>4. QED BY <1>11, <2>2, <2>3 DEF C!ServerSends, C!TypeOK, C!guiVars, C!workerVars
  <1>12. ASSUME NEW c \in C!Clients, C!ServerCloses(c) PROVE C!TypeOK'
    BY <1>12 DEF C!ServerCloses, C!TypeOK, C!guiVars, C!workerVars
  <1>13. ASSUME NEW c \in C!Clients, NEW k \in 1..Len(inbox[c]), C!Read(c, k) PROVE C!TypeOK'
    <2>1. inbox[c] \in Seq(C!Commands)
      BY DEF C!TypeOK
    <2>2. /\ SubSeq(inbox[c], 1, k) \in Seq(C!Commands)
          /\ SubSeq(inbox[c], k + 1, Len(inbox[c])) \in Seq(C!Commands)
      BY <2>1, CutCommands
    <2>3. batch' \in [C!Clients -> Seq(C!Commands)] /\ inbox' \in [C!Clients -> Seq(C!Commands)]
      BY <1>13, <2>2 DEF C!Read, C!TypeOK
    <2>4. QED BY <1>13, <2>3 DEF C!Read, C!TypeOK, C!guiVars
  <1>14. ASSUME NEW c \in C!Clients, batch[c] # << >>
         PROVE  Head(batch[c]).n \in 1..MaxCommands /\ Tail(batch[c]) \in Seq(C!Commands)
    <2>1. batch[c] \in Seq(C!Commands)
      BY DEF C!TypeOK
    <2>2. Head(batch[c]) \in C!Commands /\ Tail(batch[c]) \in Seq(C!Commands)
      BY <1>14, <2>1
    <2>3. QED BY <2>2 DEF C!Commands
  <1>15. ASSUME NEW c \in C!Clients, C!Transmit(c) PROVE C!TypeOK'
    <2>1. batch' \in [C!Clients -> Seq(C!Commands)]
      BY <1>14, <1>15 DEF C!Transmit, C!TypeOK
    <2>2. [n |-> Head(batch[c]).n, via |-> cardChannel]
            \in [n : 1..MaxCommands, via : C!CardChannels]
      BY <1>14, <1>15 DEF C!Transmit, C!TypeOK
    <2>3. busy' \in [C!Clients -> [n : 1..MaxCommands, via : C!CardChannels] \cup {None}]
      BY <1>15, <2>2 DEF C!Transmit, C!TypeOK
    <2>4. QED BY <1>15, <2>1, <2>3 DEF C!Transmit, C!TypeOK, C!guiVars
  <1>16. ASSUME NEW c \in C!Clients, C!HandlerFails(c) PROVE C!TypeOK'
    <2>1. batch' \in [C!Clients -> Seq(C!Commands)]
      BY <1>14, <1>16 DEF C!HandlerFails, C!TypeOK
    <2>2. QED BY <1>16, <2>1 DEF C!HandlerFails, C!TypeOK, C!guiVars
  <1>17. ASSUME NEW c \in C!Clients, busy[c] # None,
                NEW by \in C!CardChannels \cup {None}, C!Respond(c, by)
         PROVE  C!TypeOK'
    <2>1. busy[c].n \in 1..MaxCommands
      BY <1>17 DEF C!TypeOK
    <2>2. [to |-> busy[c].n, by |-> by] \in [to : 1..MaxCommands, by : C!CardChannels \cup {None}]
      BY <2>1
    <2>3. replies[c] \in Seq([to : 1..MaxCommands, by : C!CardChannels \cup {None}])
      BY DEF C!TypeOK
    <2>4. Append(replies[c], [to |-> busy[c].n, by |-> by])
            \in Seq([to : 1..MaxCommands, by : C!CardChannels \cup {None}])
      BY <2>2, <2>3
    <2>5. replies' \in [C!Clients -> Seq([to : 1..MaxCommands, by : C!CardChannels \cup {None}])]
      BY <1>17, <2>4 DEF C!Respond, C!TypeOK
    <2>6. busy' \in [C!Clients -> [n : 1..MaxCommands, via : C!CardChannels] \cup {None}]
      BY <1>17 DEF C!Respond, C!TypeOK
    <2>7. QED BY <1>17, <2>5, <2>6 DEF C!Respond, C!TypeOK, C!guiVars
  <1>18. ASSUME NEW c \in C!Clients, C!CardAnswers(c) PROVE C!TypeOK'
    <2>1. busy[c].via \in C!CardChannels
      BY <1>18 DEF C!CardAnswers, C!TypeOK
    <2>2. QED BY <1>17, <1>18, <2>1 DEF C!CardAnswers
  <1>19. ASSUME NEW c \in C!Clients, C!CardFails(c) PROVE C!TypeOK'
    BY <1>17, <1>19 DEF C!CardFails
  <1>20. CASE UNCHANGED C!vars
    BY <1>20 DEF C!vars, C!TypeOK, C!guiVars, C!workerVars
  <1>21. QED
    BY <1>1, <1>2, <1>3, <1>4, <1>5, <1>6, <1>7, <1>8, <1>9, <1>10, <1>11, <1>12,
       <1>13, <1>15, <1>16, <1>18, <1>19, <1>20 DEF C!Next, C!Gui, C!Environment, C!Worker

-----------------------------------------------------------------------------
(* The numbers of the commands, through the connector. *)
LEMMA Elements ==
  ASSUME NEW S, NEW q \in Seq(S)
  PROVE  \A i \in 1..Len(q) : q[i] \in S
  OBVIOUS

LEMMA NumbersTyped ==
  ASSUME NEW q \in Seq(C!Commands)
  PROVE  \A i \in 1..Len(q) : q[i].n \in 1..MaxCommands
  <1>1. \A i \in 1..Len(q) : q[i] \in C!Commands
    OBVIOUS
  <1>2. QED BY <1>1 DEF C!Commands

LEMMA RepliesTyped ==
  ASSUME NEW q \in Seq([to : 1..MaxCommands, by : C!CardChannels \cup {None}])
  PROVE  \A i \in 1..Len(q) : q[i].to \in 1..MaxCommands
  <1>1. \A i \in 1..Len(q) : q[i] \in [to : 1..MaxCommands, by : C!CardChannels \cup {None}]
    BY Elements
  <1>2. QED BY <1>1

LEMMA CutNumbers ==
  ASSUME NEW q \in Seq(C!Commands), NEW k \in 1..Len(q), NEW m \in Nat,
         \A i \in 1..Len(q) : q[i].n <= m
  PROVE  /\ \A i \in 1..Len(SubSeq(q, 1, k)) : SubSeq(q, 1, k)[i].n <= m
         /\ \A i \in 1..Len(SubSeq(q, k + 1, Len(q))) : SubSeq(q, k + 1, Len(q))[i].n <= m
  <1>1. Len(q) \in Nat /\ k \in Nat /\ k <= Len(q)
    BY LenProperties
  <1>2. Len(SubSeq(q, 1, k)) = k /\ \A i \in 1..k : SubSeq(q, 1, k)[i] = q[i]
    BY <1>1
  <1>3. /\ Len(SubSeq(q, k + 1, Len(q))) = Len(q) - k
        /\ \A i \in 1..Len(q) - k : SubSeq(q, k + 1, Len(q))[i] = q[i + k]
    BY <1>1
  <1>4. /\ \A i \in 1..k : i \in 1..Len(q)
        /\ \A i \in 1..Len(q) - k : i + k \in 1..Len(q)
    BY <1>1
  <1>5. \A i \in 1..k : SubSeq(q, 1, k)[i].n <= m
    BY <1>2, <1>4
  <1>6. \A i \in 1..Len(q) - k : SubSeq(q, k + 1, Len(q))[i].n <= m
    BY <1>3, <1>4
  <1>7. QED BY <1>2, <1>3, <1>5, <1>6

LEMMA DropNumber ==
  ASSUME NEW q \in Seq(C!Commands), q # << >>, NEW m \in Nat,
         \A i \in 1..Len(q) : q[i].n <= m
  PROVE  Head(q).n <= m /\ \A i \in 1..Len(Tail(q)) : Tail(q)[i].n <= m
  <1>1. Len(q) \in Nat /\ Len(q) >= 1 /\ Head(q) = q[1]
    OBVIOUS
  <1>2. Len(Tail(q)) = Len(q) - 1 /\ \A i \in 1..Len(q) - 1 : Tail(q)[i] = q[i + 1]
    BY <1>1
  <1>3. 1 \in 1..Len(q) /\ \A i \in 1..Len(q) - 1 : i + 1 \in 1..Len(q)
    BY <1>1
  <1>4. Head(q).n <= m
    BY <1>1, <1>3
  <1>5. \A i \in 1..Len(q) - 1 : Tail(q)[i].n <= m
    BY <1>2, <1>3
  <1>6. QED BY <1>2, <1>4, <1>5

(* The state of one connection as far as numbers go. *)
SameNumbers(c) ==
  /\ inbox'[c] = inbox[c] /\ batch'[c] = batch[c] /\ busy'[c] = busy[c]
  /\ replies'[c] = replies[c] /\ sent'[c] = sent[c]

LEMMA NumberedRespond ==
  ASSUME C!TypeOK, NEW c \in C!Clients, Numbered(c), busy[c] # None,
         NEW by \in C!CardChannels \cup {None}, C!Respond(c, by)
  PROVE  Numbered(c)'
  <1>1. busy[c].n \in 1..MaxCommands /\ busy[c].n <= sent[c]
    BY DEF C!TypeOK, Numbered
  <1>2. /\ busy'[c] = None /\ inbox'[c] = inbox[c] /\ batch'[c] = batch[c] /\ sent'[c] = sent[c]
        /\ \/ replies'[c] = Append(replies[c], [to |-> busy[c].n, by |-> by])
           \/ replies'[c] = replies[c]
    BY DEF C!Respond, C!TypeOK
  <1>3. /\ replies[c] \in Seq([to : 1..MaxCommands, by : C!CardChannels \cup {None}])
        /\ [to |-> busy[c].n, by |-> by] \in [to : 1..MaxCommands, by : C!CardChannels \cup {None}]
    BY <1>1 DEF C!TypeOK
  <1>4. \A i \in 1..Len(replies'[c]) : replies'[c][i].to <= sent[c]
    <2>1. CASE replies'[c] = replies[c]
      BY <2>1 DEF Numbered
    <2>2. CASE replies'[c] = Append(replies[c], [to |-> busy[c].n, by |-> by])
      <3>1. Len(replies[c]) \in Nat /\ Len(replies'[c]) = Len(replies[c]) + 1
        BY <1>3, <2>2, LenProperties, AppendProperties
      <3>2. \A i \in 1..Len(replies[c]) : replies'[c][i] = replies[c][i]
        BY <1>3, <2>2, AppendProperties
      <3>3. replies'[c][Len(replies[c]) + 1].to = busy[c].n
        BY <1>3, <2>2, AppendProperties
      <3>4. \A i \in 1..Len(replies[c]) + 1 : i \in 1..Len(replies[c]) \/ i = Len(replies[c]) + 1
        BY <3>1
      <3>5. QED BY <1>1, <3>1, <3>2, <3>3, <3>4 DEF Numbered
    <2>3. QED BY <1>2, <2>1, <2>2
  <1>5. QED BY <1>2, <1>4 DEF Numbered

LEMMA NumberedStep ==
  ASSUME C!TypeOK, [C!Next]_(C!vars), NEW c \in C!Clients, Numbered(c)
  PROVE  Numbered(c)'
  <1>0. /\ sent[c] \in 0..MaxCommands /\ sent[c] \in Nat
        /\ inbox[c] \in Seq(C!Commands) /\ batch[c] \in Seq(C!Commands)
        /\ replies[c] \in Seq([to : 1..MaxCommands, by : C!CardChannels \cup {None}])
    <2>1. sent[c] \in 0..MaxCommands
      BY DEF C!TypeOK
    <2>2. inbox[c] \in Seq(C!Commands) /\ batch[c] \in Seq(C!Commands)
      BY DEF C!TypeOK
    <2>3. replies[c] \in Seq([to : 1..MaxCommands, by : C!CardChannels \cup {None}])
      BY DEF C!TypeOK
    <2>4. sent[c] \in Nat
      BY <2>1, SystemAssumption
    <2>5. QED BY <2>1, <2>2, <2>3, <2>4
  <1>1. ASSUME SameNumbers(c) PROVE Numbered(c)'
    BY <1>1 DEF SameNumbers, Numbered
  <1>2. ASSUME UNCHANGED <<inbox, batch, busy, replies, sent>> PROVE Numbered(c)'
    BY <1>1, <1>2 DEF SameNumbers
  <1>3. CASE C!Gui \/ UNCHANGED C!vars
    BY <1>2, <1>3
    DEF C!Gui, C!vars, C!workerVars, C!OpenCard, C!OpenCardFails, C!BadPort, C!StartClient,
        C!ConnectReturns, C!PressDisconnect, C!StopReturns
  <1>4. ASSUME NEW r \in Readers, C!InsertCard(r) \/ C!RemoveCard(r) PROVE Numbered(c)'
    BY <1>2, <1>4 DEF C!InsertCard, C!RemoveCard, C!workerVars
  <1>5. ASSUME NEW d \in C!Clients,
               C!ServerCloses(d) \/ \E o \in {"open", "closed"} : C!ConnectEnds(d, o)
        PROVE  Numbered(c)'
    BY <1>2, <1>5 DEF C!ServerCloses, C!ConnectEnds, C!workerVars
  <1>6. ASSUME NEW d \in C!Clients, NEW ok \in BOOLEAN, C!ServerSends(d, ok) PROVE Numbered(c)'
    <2>1. CASE d # c
      BY <1>1, <1>6, <2>1 DEF C!ServerSends, C!workerVars, C!TypeOK, SameNumbers
    <2>2. CASE d = c
      <3>1. PICK e : e = [n |-> sent[c] + 1, wellFormed |-> ok]
        OBVIOUS
      <3>2. /\ inbox'[c] = Append(inbox[c], e) /\ sent'[c] = sent[c] + 1
            /\ batch'[c] = batch[c] /\ busy'[c] = busy[c] /\ replies'[c] = replies[c]
        BY <1>6, <2>2, <3>1 DEF C!ServerSends, C!workerVars, C!TypeOK
      <3>3. e \in C!Commands /\ e.n = sent[c] + 1
        <4>1. sent[c] + 1 \in 1..MaxCommands
          BY <1>0, <1>6, <2>2, SystemAssumption DEF C!ServerSends
        <4>2. QED BY <3>1, <4>1 DEF C!Commands
      <3>4. /\ Len(inbox[c]) \in Nat /\ Len(inbox'[c]) = Len(inbox[c]) + 1
            /\ \A i \in 1..Len(inbox[c]) : inbox'[c][i] = inbox[c][i]
            /\ inbox'[c][Len(inbox[c]) + 1] = e
        BY <1>0, <3>2, <3>3, LenProperties, AppendProperties
      <3>5. \A x \in 1..MaxCommands : x <= sent[c] => x <= sent[c] + 1
        BY <1>0, SystemAssumption
      <3>6. \A i \in 1..Len(inbox[c]) : inbox[c][i].n \in 1..MaxCommands
        BY <1>0, NumbersTyped
      <3>7. \A i \in 1..Len(batch[c]) : batch[c][i].n \in 1..MaxCommands
        BY <1>0, NumbersTyped
      <3>8. \A i \in 1..Len(replies[c]) : replies[c][i].to \in 1..MaxCommands
        BY <1>0, RepliesTyped
      <3>9. busy[c] # None => busy[c].n \in 1..MaxCommands
        BY DEF C!TypeOK
      <3>10. \A i \in 1..Len(inbox'[c]) : inbox'[c][i].n <= sent'[c]
        <4>1. \A i \in 1..Len(inbox[c]) + 1 : i \in 1..Len(inbox[c]) \/ i = Len(inbox[c]) + 1
          BY <3>4
        <4>2. sent[c] + 1 <= sent[c] + 1
          BY <1>0
        <4>3. QED BY <3>2, <3>3, <3>4, <3>5, <3>6, <4>1, <4>2 DEF Numbered
      <3>11. /\ \A i \in 1..Len(batch'[c]) : batch'[c][i].n <= sent'[c]
             /\ \A i \in 1..Len(replies'[c]) : replies'[c][i].to <= sent'[c]
        BY <3>2, <3>5, <3>7, <3>8 DEF Numbered
      <3>12. busy'[c] # None => busy'[c].n <= sent'[c]
        BY <3>2, <3>5, <3>9 DEF Numbered
      <3>13. QED BY <3>10, <3>11, <3>12 DEF Numbered
    <2>3. QED BY <2>1, <2>2
  <1>7. ASSUME NEW d \in C!Clients, NEW k \in 1..Len(inbox[d]), C!Read(d, k) PROVE Numbered(c)'
    <2>1. CASE d # c
      BY <1>1, <1>7, <2>1 DEF C!Read, C!TypeOK, SameNumbers
    <2>2. CASE d = c
      <3>1. /\ batch'[c] = SubSeq(inbox[c], 1, k) /\ inbox'[c] = SubSeq(inbox[c], k + 1, Len(inbox[c]))
            /\ busy'[c] = busy[c] /\ replies'[c] = replies[c] /\ sent'[c] = sent[c]
        BY <1>7, <2>2 DEF C!Read, C!TypeOK
      <3>2. k \in 1..Len(inbox[c]) /\ \A i \in 1..Len(inbox[c]) : inbox[c][i].n <= sent[c]
        BY <2>2 DEF Numbered
      <3>3. /\ \A i \in 1..Len(SubSeq(inbox[c], 1, k)) : SubSeq(inbox[c], 1, k)[i].n <= sent[c]
            /\ \A i \in 1..Len(SubSeq(inbox[c], k + 1, Len(inbox[c]))) :
                 SubSeq(inbox[c], k + 1, Len(inbox[c]))[i].n <= sent[c]
        BY <1>0, <3>2, CutNumbers
      <3>4. QED BY <3>1, <3>3 DEF Numbered
    <2>3. QED BY <2>1, <2>2
  <1>8. ASSUME NEW d \in C!Clients, C!Transmit(d) \/ C!HandlerFails(d) PROVE Numbered(c)'
    <2>1. CASE d # c
      BY <1>1, <1>8, <2>1 DEF C!Transmit, C!HandlerFails, C!TypeOK, SameNumbers
    <2>2. CASE d = c
      <3>1. /\ batch[c] # << >> /\ batch'[c] = Tail(batch[c])
            /\ inbox'[c] = inbox[c] /\ replies'[c] = replies[c] /\ sent'[c] = sent[c]
        BY <1>8, <2>2 DEF C!Transmit, C!HandlerFails, C!TypeOK
      <3>2. busy'[c] = busy[c] \/ busy'[c] = [n |-> Head(batch[c]).n, via |-> cardChannel]
        BY <1>8, <2>2 DEF C!Transmit, C!HandlerFails, C!TypeOK
      <3>3. Head(batch[c]).n <= sent[c] /\ \A i \in 1..Len(Tail(batch[c])) : Tail(batch[c])[i].n <= sent[c]
        BY <1>0, <3>1, DropNumber DEF Numbered
      <3>4. QED BY <3>1, <3>2, <3>3 DEF Numbered
    <2>3. QED BY <2>1, <2>2
  <1>9. ASSUME NEW d \in C!Clients, C!CardAnswers(d) \/ C!CardFails(d) PROVE Numbered(c)'
    <2>1. PICK by \in C!CardChannels \cup {None} : C!Respond(d, by) /\ busy[d] # None
      <3>1. busy[d] # None => busy[d].via \in C!CardChannels
        BY DEF C!TypeOK
      <3>2. QED BY <1>9, <3>1 DEF C!CardAnswers, C!CardFails
    <2>2. CASE d # c
      BY <1>1, <2>1, <2>2 DEF C!Respond, C!TypeOK, SameNumbers
    <2>3. CASE d = c
      BY <2>1, <2>3, NumberedRespond
    <2>4. QED BY <2>2, <2>3
  <1>10. QED
    BY <1>3, <1>4, <1>5, <1>6, <1>7, <1>8, <1>9 DEF C!Next, C!Environment, C!Worker

-----------------------------------------------------------------------------
(* What moves between the two ends, and into the transcript. *)
LEMMA WorkerStill ==
  ASSUME NEW t \in Threads, AddRead(t) \/ AddSize(t) \/ AddThrows(t)
  PROVE  UNCHANGED <<log, wire, frames>>
  BY DEF AddRead, AddSize, AddThrows, lists, io

LEMMA RequestStill ==
  ASSUME NEW r \in Requests, RequestStep(r), ~AddStore(r)
  PROVE  UNCHANGED <<log, wire, frames>>
  <1>1. CASE Check(r) \/ TranscriptGone(r) \/ RecordCommand(r)
    BY <1>1 DEF Check, TranscriptGone, RecordCommand, BeginAdd, lists, io
  <1>2. CASE FindChannel(r) \/ WriteCommand(r) \/ BeginRead(r) \/ ReadNext(r)
    BY <1>2 DEF FindChannel, WriteCommand, BeginRead, ReadNext, lists, io
  <1>3. CASE BeginList(r) \/ ListNext(r) \/ EndList(r)
    BY <1>3 DEF BeginList, ListNext, EndList, lists, io
  <1>4. CASE AddRead(r) \/ AddSize(r) \/ AddThrows(r)
    BY <1>4, WorkerStill DEF Threads
  <1>5. QED BY <1>1, <1>2, <1>3, <1>4 DEF RequestStep

ConnectorMoves == UNCHANGED <<vars, sent>> /\ [C!Next]_(C!vars)

LEMMA SystemMoves ==
  ASSUME [SystemNext]_systemVars
  PROVE  \/ UNCHANGED <<log, wire, frames, sent, replies>>
         \/ \E c \in Channels : Deliver(c) \/ ReplyArrives(c)
         \/ \E t \in Threads : ServerOnly(AddStore(t))
         \/ ConnectorMoves
  <1> DEFINE Goal == \/ UNCHANGED <<log, wire, frames, sent, replies>>
                     \/ \E c \in Channels : Deliver(c) \/ ReplyArrives(c)
                     \/ \E t \in Threads : ServerOnly(AddStore(t))
                     \/ ConnectorMoves
  <1>1. ASSUME NEW c \in Channels, Accept(c) \/ ServerOnly(PutTranscript(c)) \/ ServerLoses(c)
        PROVE  Goal
    BY <1>1
    DEF Accept, ServerLoses, ServerOnly, OpenChannel, PutTranscript, CloseChannel, lists, io,
        connectorVars
  <1>2. ASSUME NEW c \in Channels, ServerWorker(c) PROVE Goal
    <2>1. CASE Deliver(c)
      BY <2>1
    <2>2. CASE ServerOnly(FailPending(c) \/ RemoveTranscript(c))
      BY <2>2 DEF ServerOnly, FailPending, RemoveTranscript, lists, io, connectorVars
    <2>3. CASE ServerOnly(AddRead(c) \/ AddSize(c) \/ AddThrows(c))
      BY <2>3, WorkerStill DEF ServerOnly, connectorVars, Threads
    <2>4. CASE ServerOnly(AddStore(c))
      BY <2>4 DEF Threads
    <2>5. QED BY <1>2, <2>1, <2>2, <2>3, <2>4 DEF ServerWorker, ServerOnly
  <1>3. ASSUME NEW r \in Requests, ServerOnly(RequestStep(r)) PROVE Goal
    <2>1. CASE AddStore(r)
      BY <1>3, <2>1 DEF ServerOnly, Threads
    <2>2. CASE ~AddStore(r)
      BY <1>3, <2>2, RequestStill DEF ServerOnly, connectorVars
    <2>3. QED BY <2>1, <2>2
  <1>4. ASSUME NEW r \in Requests, Ask(r) PROVE Goal
    BY <1>4 DEF Ask, Submit, lists, io, connectorVars
  <1>5. ASSUME NEW c \in Channels, Connected(c) \/ ConnectorOnly(C!ConnectEnds(c, "closed"))
        PROVE  Goal
    BY <1>5, ConnectorStep DEF Connected, ConnectorOnly, C!ConnectEnds, ConnectorMoves
  <1>6. ASSUME NEW c \in Channels, ConnectorLoses(c) PROVE Goal
    BY <1>6, ConnectorStep DEF ConnectorLoses, ConnectorOnly, C!ServerCloses, ConnectorMoves
  <1>7. ASSUME NEW c \in Channels, ConnectorWorker(c) PROVE Goal
    <2>1. UNCHANGED sent
      BY <1>7
      DEF ConnectorWorker, ConnectorOnly, C!Worker, C!Read, C!Transmit, C!HandlerFails,
          C!CardAnswers, C!CardFails, C!Respond
    <2>2. QED BY <1>7, <2>1, ConnectorStep DEF ConnectorWorker, ConnectorOnly, ConnectorMoves
  <1>8. CASE ConnectorOnly(C!Gui)
    <2>1. UNCHANGED sent
      BY <1>8
      DEF ConnectorOnly, C!Gui, C!OpenCard, C!OpenCardFails, C!BadPort, C!StartClient,
          C!ConnectReturns, C!PressDisconnect, C!StopReturns
    <2>2. QED BY <1>8, <2>1, ConnectorStep DEF ConnectorOnly, ConnectorMoves
  <1>9. ASSUME NEW r \in Readers, ConnectorOnly(C!InsertCard(r) \/ C!RemoveCard(r)) PROVE Goal
    BY <1>9, ConnectorStep DEF ConnectorOnly, C!InsertCard, C!RemoveCard, ConnectorMoves
  <1>10. CASE UNCHANGED systemVars
    BY <1>10 DEF systemVars, vars, lists, io, connectorVars
  <1>11. QED
    BY <1>1, <1>2, <1>3, <1>4, <1>5, <1>6, <1>7, <1>8, <1>9, <1>10 DEF SystemNext

-----------------------------------------------------------------------------
(* Sockets, replies and transcripts only grow. *)
Extends(s, t) == Len(s) <= Len(t) /\ \A i \in 1..Len(s) : t[i] = s[i]

LEMMA ExtendsSelf ==
  ASSUME NEW S, NEW s \in Seq(S)
  PROVE  Extends(s, s) /\ Len(s) \in Nat
  BY LenProperties DEF Extends

LEMMA ExtendsAppend ==
  ASSUME NEW S, NEW s \in Seq(S), NEW e \in S
  PROVE  /\ Extends(s, Append(s, e)) /\ Len(s) \in Nat
         /\ Len(Append(s, e)) = Len(s) + 1 /\ Append(s, e)[Len(s) + 1] = e
  <1>1. /\ Len(s) \in Nat /\ Len(Append(s, e)) = Len(s) + 1
        /\ \A i \in 1..Len(s) : Append(s, e)[i] = s[i]
        /\ Append(s, e)[Len(s) + 1] = e
    BY LenProperties, AppendProperties
  <1>2. Len(s) <= Len(s) + 1
    BY <1>1
  <1>3. QED BY <1>1, <1>2 DEF Extends

LEMMA RepliesGrow ==
  ASSUME C!TypeOK, [C!Next]_(C!vars), NEW c \in C!Clients
  PROVE  Extends(replies[c], replies'[c])
  <1>0. replies[c] \in Seq([to : 1..MaxCommands, by : C!CardChannels \cup {None}])
    BY DEF C!TypeOK
  <1>1. ASSUME replies'[c] = replies[c] PROVE Extends(replies[c], replies'[c])
    BY <1>0, <1>1, ExtendsSelf
  <1>2. ASSUME NEW d \in C!Clients, C!CardAnswers(d) \/ C!CardFails(d)
        PROVE  Extends(replies[c], replies'[c])
    <2>1. PICK by \in C!CardChannels \cup {None} : C!Respond(d, by) /\ busy[d] # None
      <3>1. busy[d] # None => busy[d].via \in C!CardChannels
        BY DEF C!TypeOK
      <3>2. QED BY <1>2, <3>1 DEF C!CardAnswers, C!CardFails
    <2>2. busy[d].n \in 1..MaxCommands
      BY <2>1 DEF C!TypeOK
    <2>3. PICK e : e = [to |-> busy[d].n, by |-> by]
      OBVIOUS
    <2>4. e \in [to : 1..MaxCommands, by : C!CardChannels \cup {None}]
      BY <2>2, <2>3
    <2>5. replies'[c] = replies[c] \/ replies'[c] = Append(replies[c], e)
      BY <2>1, <2>3 DEF C!Respond, C!TypeOK
    <2>6. CASE replies'[c] = Append(replies[c], e)
      BY <1>0, <2>4, <2>6, ExtendsAppend
    <2>7. QED BY <1>1, <2>5, <2>6
  <1>3. CASE C!Gui \/ UNCHANGED C!vars
    BY <1>1, <1>3
    DEF C!Gui, C!vars, C!workerVars, C!OpenCard, C!OpenCardFails, C!BadPort, C!StartClient,
        C!ConnectReturns, C!PressDisconnect, C!StopReturns
  <1>4. CASE C!Environment
    BY <1>1, <1>4
    DEF C!Environment, C!InsertCard, C!RemoveCard, C!ConnectEnds, C!ServerSends, C!ServerCloses,
        C!workerVars
  <1>5. ASSUME NEW d \in C!Clients,
               (\E k \in 1..Len(inbox[d]) : C!Read(d, k)) \/ C!Transmit(d) \/ C!HandlerFails(d)
        PROVE  Extends(replies[c], replies'[c])
    BY <1>1, <1>5 DEF C!Read, C!Transmit, C!HandlerFails
  <1>6. QED BY <1>2, <1>3, <1>4, <1>5 DEF C!Next, C!Worker

(* A command goes on the wire before it can count as sent. *)
LEMMA DeliverStep ==
  ASSUME TypeInv, C!TypeOK, NEW d \in Channels, Deliver(d), NEW c \in Channels
  PROVE  /\ Extends(wire[c], wire'[c])
         /\ \/ sent'[c] = sent[c]
            \/ sent'[c] = sent[c] + 1 /\ Len(wire'[c]) = Len(wire[c]) + 1
  <1>1. wire[c] \in Seq(Requests) /\ pending[d] \in Seq(Requests) /\ wire \in [Channels -> Seq(Requests)]
    BY DEF TypeInv, TypeOK, IoOK
  <1>2. pending[d] # << >> /\ wire' = [wire EXCEPT ![d] = Append(wire[d], Head(pending[d]))]
    BY DEF Deliver, Flush
  <1>3. PICK e \in Requests : e = Head(pending[d])
    BY <1>1, <1>2
  <1>4. wire'[c] = IF c = d THEN Append(wire[c], e) ELSE wire[c]
    BY <1>1, <1>2, <1>3
  <1>5. sent'[c] = sent[c] \/ (c = d /\ sent'[c] = sent[c] + 1)
    <2>1. CASE UNCHANGED connectorVars
      BY <2>1 DEF connectorVars
    <2>2. CASE \E ok \in BOOLEAN : C!ServerSends(d, ok)
      BY <2>2, SameClients DEF C!ServerSends, C!TypeOK
    <2>3. QED BY <2>1, <2>2 DEF Deliver
  <1>6. Extends(wire[c], wire[c]) /\ Extends(wire[c], Append(wire[c], e))
        /\ Len(Append(wire[c], e)) = Len(wire[c]) + 1
    BY <1>1, ExtendsSelf, ExtendsAppend
  <1>7. QED BY <1>4, <1>5, <1>6

LEMMA WireStep ==
  ASSUME TypeInv, C!TypeOK, [SystemNext]_systemVars, NEW c \in Channels
  PROVE  /\ Extends(wire[c], wire'[c])
         /\ \/ sent'[c] = sent[c]
            \/ sent'[c] = sent[c] + 1 /\ Len(wire'[c]) = Len(wire[c]) + 1
  <1>1. Extends(wire[c], wire[c])
    BY ExtendsSelf DEF TypeInv, TypeOK, IoOK
  <1>2. ASSUME UNCHANGED <<wire, sent>>
        PROVE  Extends(wire[c], wire'[c]) /\ sent'[c] = sent[c]
    BY <1>1, <1>2
  <1>3. CASE \E d \in Channels : Deliver(d)
    BY <1>3, DeliverStep
  <1>4. CASE \E d \in Channels : ReplyArrives(d)
    BY <1>2, <1>4 DEF ReplyArrives, ServerOnly, MessageReceived, connectorVars
  <1>5. CASE \E t \in Threads : ServerOnly(AddStore(t))
    BY <1>2, <1>5 DEF ServerOnly, AddStore, io, connectorVars
  <1>6. CASE ConnectorMoves
    BY <1>2, <1>6 DEF ConnectorMoves, vars, io
  <1>7. QED BY <1>2, <1>3, <1>4, <1>5, <1>6, SystemMoves

(* No more frames come in than replies were written. *)
LEMMA FrameStep ==
  ASSUME TypeInv, C!TypeOK, [SystemNext]_systemVars, NEW c \in Channels, Received(c)
  PROVE  Received(c)'
  <1>1. /\ frames \in [Channels -> 0..MaxFrames] /\ frames[c] \in Nat
        /\ Len(replies[c]) \in Nat /\ Len(replies'[c]) \in Nat
    <2>1. C!TypeOK'
      BY ConnectorStep, ConnectorTypesStep
    <2>2. /\ replies[c] \in Seq([to : 1..MaxCommands, by : C!CardChannels \cup {None}])
          /\ replies'[c] \in Seq([to : 1..MaxCommands, by : C!CardChannels \cup {None}])
      BY <2>1, SameClients DEF C!TypeOK, C!CardChannels, C!Clients
    <2>3. frames \in [Channels -> 0..MaxFrames]
      BY DEF TypeInv, TypeOK, IoOK
    <2>4. QED BY <2>2, <2>3, ServerAssumption, LenProperties
  <1>2. Len(replies[c]) <= Len(replies'[c])
    BY ConnectorStep, RepliesGrow, SameClients DEF Extends
  <1>3. ASSUME frames'[c] = frames[c] PROVE Received(c)'
    BY <1>1, <1>2, <1>3 DEF Received
  <1>4. ASSUME NEW d \in Channels, Deliver(d) PROVE Received(c)'
    BY <1>3, <1>4 DEF Deliver, Flush
  <1>5. ASSUME NEW d \in Channels, ReplyArrives(d) PROVE Received(c)'
    <2>1. CASE d # c
      BY <1>1, <1>3, <1>5, <2>1 DEF ReplyArrives, ServerOnly, MessageReceived
    <2>2. CASE d = c
      <3>1. /\ frames[c] < Len(replies[c]) /\ frames'[c] = frames[c] + 1
            /\ replies' = replies
        BY <1>1, <1>5, <2>2 DEF ReplyArrives, ServerOnly, MessageReceived, connectorVars
      <3>2. QED BY <1>1, <3>1 DEF Received
    <2>3. QED BY <2>1, <2>2
  <1>6. CASE \E t \in Threads : ServerOnly(AddStore(t))
    BY <1>3, <1>6 DEF ServerOnly, AddStore, io
  <1>7. CASE ConnectorMoves
    BY <1>3, <1>7 DEF ConnectorMoves, vars, io
  <1>8. QED BY <1>3, <1>4, <1>5, <1>6, <1>7, SystemMoves

(* A new entry of a transcript is a command, or the frame its worker received. *)
LEMMA EntryStep ==
  ASSUME TypeInv, [SystemNext]_systemVars, NEW c \in Channels
  PROVE  \/ log'[c] = log[c]
         \/ \E e \in Entries :
              /\ log'[c] = Append(log[c], e)
              /\ e.sender = "reader" => e.of = frames[c] /\ frames[c] \in 1..MaxFrames
  <1>1. log \in [Channels -> Seq(Entries)]
    BY DEF TypeInv, TypeOK, ListsOK
  <1>2. ASSUME NEW t \in Threads, AddStore(t)
        PROVE  \/ log'[c] = log[c]
               \/ \E e \in Entries :
                    /\ log'[c] = Append(log[c], e)
                    /\ e.sender = "reader" => e.of = frames[c] /\ frames[c] \in 1..MaxFrames
    <2>1. PICK e : e = EntryOf(t)
      OBVIOUS
    <2>2. log' = [log EXCEPT ![ListOf(t)] = Append(log[ListOf(t)], e)] /\ pc[t] = "addStore"
      BY <1>2, <2>1 DEF AddStore
    <2>3. CASE t \in Channels
      <3>1. frames[t] \in 1..MaxFrames
        <4>1. frames[t] \in 0..MaxFrames
          BY <2>3 DEF TypeInv, TypeOK, IoOK
        <4>2. frames[t] > 0
          BY <2>2, <2>3 DEF TypeInv, WorkerAdds
        <4>3. QED BY <4>1, <4>2, ServerAssumption
      <3>2. e = Reader(frames[t]) /\ ListOf(t) = t /\ e \in Entries /\ e.of = frames[t]
        BY <2>1, <2>3, <3>1 DEF EntryOf, ListOf, Entries, Reader
      <3>3. CASE t = c
        BY <1>1, <2>2, <3>1, <3>2, <3>3
      <3>4. CASE t # c
        BY <1>1, <2>2, <3>2, <3>4
      <3>5. QED BY <3>3, <3>4
    <2>4. CASE t \notin Channels
      <3>1. t \in Requests /\ e = You(t) /\ e \in Entries
        BY <2>1, <2>4 DEF Threads, EntryOf, Entries
      <3>2. e.sender = "you"
        BY <3>1 DEF You
      <3>3. log'[c] = log[c] \/ log'[c] = Append(log[c], e)
        BY <1>1, <2>2
      <3>4. QED BY <3>1, <3>2, <3>3
    <2>5. QED BY <2>3, <2>4
  <1>3. CASE \E d \in Channels : Deliver(d)
    BY <1>3 DEF Deliver, Flush, lists
  <1>4. CASE \E d \in Channels : ReplyArrives(d)
    BY <1>4 DEF ReplyArrives, ServerOnly, MessageReceived, BeginAdd
  <1>5. CASE \E t \in Threads : ServerOnly(AddStore(t))
    BY <1>2, <1>5 DEF ServerOnly
  <1>6. CASE ConnectorMoves
    BY <1>6 DEF ConnectorMoves, vars, lists
  <1>7. QED BY <1>3, <1>4, <1>5, <1>6, SystemMoves

(* A reply enters a transcript that holds its command already: the command was
   written to be answered, and recorded to be written. *)
LEMMA AskedBefore ==
  ASSUME SystemInv, NEW c \in Channels, NEW n \in 1..MaxFrames, n <= Len(replies[c])
  PROVE  \E j \in 1..Len(log[c]) : log[c][j] = You(Cause(c, n))
  <1>1. /\ replies[c] \in Seq([to : 1..MaxCommands, by : C!CardChannels \cup {None}])
        /\ sent[c] \in 0..MaxCommands
    BY SameClients DEF SystemInv, C!TypeOK
  <1>2. wire[c] \in Seq(Requests) /\ log[c] \in Seq(Entries)
    BY DEF SystemInv, TypeInv, TypeOK, IoOK, ListsOK
  <1>3. n \in 1..Len(replies[c])
    BY <1>1, LenProperties, ServerAssumption
  <1>4. replies[c][n].to \in 1..MaxCommands /\ replies[c][n].to <= sent[c]
    BY <1>1, <1>3, RepliesTyped DEF SystemInv, Numbered
  <1>5. Len(wire[c]) \in Nat /\ sent[c] <= Len(wire[c])
    BY <1>2, LenProperties DEF SystemInv, Delivered
  <1>6. PICK k : k = replies[c][n].to
    OBVIOUS
  <1>7. k \in 1..Len(wire[c])
    BY <1>1, <1>4, <1>5, <1>6, SystemAssumption
  <1>8. PICK r \in Requests : r = wire[c][k] /\ r \in ToSet(wire[c])
    BY <1>2, <1>7 DEF ToSet
  <1>9. answer[r] = "sent" /\ call[r].id = c
    BY <1>8 DEF SystemInv, RelayInv, WireHolds
  <1>10. You(r) \in ToSet(log[c])
    BY <1>9 DEF SystemInv, RelayInv, Recorded
  <1>11. Cause(c, n) = r
    BY <1>6, <1>8 DEF Cause
  <1>12. QED BY <1>2, <1>10, <1>11 DEF ToSet

(* What a reply answers stays the same. *)
LEMMA SameCause ==
  ASSUME SystemInv, [SystemNext]_systemVars, NEW c \in Channels,
         NEW n \in 1..MaxFrames, n <= Len(replies[c])
  PROVE  n <= Len(replies'[c]) /\ Cause(c, n)' = Cause(c, n)
  <1>1. /\ replies[c] \in Seq([to : 1..MaxCommands, by : C!CardChannels \cup {None}])
        /\ sent[c] \in 0..MaxCommands
    BY SameClients DEF SystemInv, C!TypeOK
  <1>2. wire[c] \in Seq(Requests)
    BY DEF SystemInv, TypeInv, TypeOK, IoOK
  <1>3. Extends(replies[c], replies'[c]) /\ Extends(wire[c], wire'[c])
    BY ConnectorStep, RepliesGrow, WireStep, SameClients DEF SystemInv
  <1>4. Len(replies[c]) \in Nat /\ Len(wire[c]) \in Nat /\ sent[c] <= Len(wire[c])
    BY <1>1, <1>2, LenProperties DEF SystemInv, Delivered
  <1>5. n \in 1..Len(replies[c])
    BY <1>4, ServerAssumption
  <1>6. replies[c][n].to \in 1..MaxCommands /\ replies[c][n].to <= sent[c]
    BY <1>1, <1>5, RepliesTyped DEF SystemInv, Numbered
  <1>7. replies[c][n].to \in 1..Len(wire[c])
    BY <1>1, <1>4, <1>6, SystemAssumption
  <1>8. replies'[c][n] = replies[c][n]
    BY <1>3, <1>5 DEF Extends
  <1>9. wire'[c][replies[c][n].to] = wire[c][replies[c][n].to]
    BY <1>3, <1>7 DEF Extends
  <1>10. n <= Len(replies'[c])
    <2>1. C!TypeOK'
      BY ConnectorStep, ConnectorTypesStep DEF SystemInv
    <2>2. replies'[c] \in Seq([to : 1..MaxCommands, by : C!CardChannels \cup {None}])
      BY <2>1, SameClients DEF C!TypeOK, C!CardChannels, C!Clients
    <2>3. Len(replies'[c]) \in Nat /\ Len(replies[c]) <= Len(replies'[c])
      BY <1>3, <2>2, LenProperties DEF Extends
    <2>4. QED BY <1>4, <1>5, <2>3
  <1>11. QED BY <1>8, <1>9, <1>10 DEF Cause

LEMMA FollowsStep ==
  ASSUME SystemInv, [SystemNext]_systemVars, NEW c \in Channels
  PROVE  \A i \in 1..Len(log'[c]) : Follows(c, i)'
  <1>0. log[c] \in Seq(Entries) /\ Len(log[c]) \in Nat
    BY LenProperties DEF SystemInv, TypeInv, TypeOK, ListsOK
  <1>1. ASSUME NEW i \in 1..Len(log[c]), Len(log[c]) <= Len(log'[c]),
               \A j \in 1..Len(log[c]) : log'[c][j] = log[c][j]
        PROVE  Follows(c, i)'
    <2>1. CASE log[c][i].sender # "reader"
      BY <1>1, <2>1 DEF Follows
    <2>2. CASE log[c][i].sender = "reader"
      <3>1. PICK n \in 1..MaxFrames : log[c][i] = Reader(n)
        <4>1. log[c][i] \in Entries
          BY <1>0, Elements
        <4>2. QED BY <2>2, <4>1 DEF Entries, You
      <3>2. log[c][i].of = n
        BY <3>1 DEF Reader
      <3>3. n <= Len(replies[c]) /\ \E j \in 1..i : log[c][j] = You(Cause(c, n))
        BY <2>2, <3>2 DEF SystemInv, Follows
      <3>4. n <= Len(replies'[c]) /\ Cause(c, n)' = Cause(c, n)
        BY <3>3, SameCause
      <3>5. PICK j \in 1..i : log[c][j] = You(Cause(c, n))
        BY <3>3
      <3>6. j \in 1..Len(log[c])
        BY <1>0
      <3>7. log'[c][j] = You(Cause(c, n)') /\ log'[c][i] = Reader(n)
        BY <1>1, <3>1, <3>4, <3>5, <3>6
      <3>8. QED BY <3>2, <3>4, <3>7 DEF Follows, Reader, You
    <2>3. QED BY <2>1, <2>2
  <1>2. CASE log'[c] = log[c]
    BY <1>0, <1>1, <1>2
  <1>3. ASSUME NEW e \in Entries, log'[c] = Append(log[c], e),
               e.sender = "reader" => e.of = frames[c] /\ frames[c] \in 1..MaxFrames
        PROVE  \A i \in 1..Len(log'[c]) : Follows(c, i)'
    <2>1. /\ Extends(log[c], log'[c]) /\ Len(log'[c]) = Len(log[c]) + 1
          /\ log'[c][Len(log[c]) + 1] = e
      BY <1>0, <1>3, ExtendsAppend
    <2>2. \A i \in 1..Len(log[c]) : Follows(c, i)'
      BY <1>1, <2>1 DEF Extends
    <2>3. PICK m \in Nat : m = Len(log[c]) + 1
      BY <1>0
    <2>4. Follows(c, m)'
      <3>1. CASE e.sender # "reader"
        BY <2>1, <2>3, <3>1 DEF Follows
      <3>2. CASE e.sender = "reader"
        <4>1. PICK n \in 1..MaxFrames : n = frames[c] /\ e.of = n
          BY <1>3, <3>2
        <4>2. n <= Len(replies[c])
          BY <4>1 DEF SystemInv, Received
        <4>3. PICK j \in 1..Len(log[c]) : log[c][j] = You(Cause(c, n))
          BY <4>2, AskedBefore
        <4>4. n <= Len(replies'[c]) /\ Cause(c, n)' = Cause(c, n)
          BY <4>2, SameCause
        <4>5. j \in 1..m /\ log'[c][j] = You(Cause(c, n)')
          BY <1>0, <2>1, <2>3, <4>3, <4>4 DEF Extends
        <4>6. log'[c][m].of = n
          BY <2>1, <2>3, <4>1
        <4>7. QED BY <4>4, <4>5, <4>6 DEF Follows, You
      <3>3. QED BY <3>1, <3>2
    <2>5. \A i \in 1..Len(log'[c]) : i \in 1..Len(log[c]) \/ i = m
      BY <1>0, <2>1, <2>3
    <2>6. QED BY <2>2, <2>4, <2>5
  <1>4. QED BY <1>2, <1>3, EntryStep DEF SystemInv

LEMMA SystemInvInit == SystemInit => SystemInv
  <1> SUFFICES ASSUME SystemInit PROVE SystemInv
    OBVIOUS
  <1>1. TypeInv /\ RelayInv /\ C!TypeOK
    BY TypeInit, RelayInit, ConnectorTypesInit DEF SystemInit
  <1>2. \A c \in Channels : /\ sent[c] = 0 /\ inbox[c] = << >> /\ batch[c] = << >>
                            /\ busy[c] = None /\ replies[c] = << >>
    BY SameClients DEF SystemInit, C!Init
  <1>3. \A c \in Channels : wire[c] = << >> /\ frames[c] = 0 /\ log[c] = << >>
    BY DEF SystemInit, Init
  <1>4. \A c \in Channels : Numbered(c) /\ Delivered(c) /\ Received(c)
    BY <1>2, <1>3 DEF Numbered, Delivered, Received
  <1>5. \A c \in Channels : \A i \in 1..Len(log[c]) : Follows(c, i)
    BY <1>3
  <1>6. QED BY <1>1, <1>4, <1>5 DEF SystemInv

LEMMA SystemInvStep == SystemInv /\ [SystemNext]_systemVars => SystemInv'
  <1> SUFFICES ASSUME SystemInv, [SystemNext]_systemVars PROVE SystemInv'
    OBVIOUS
  <1>1. TypeInv' /\ RelayInv'
    BY ServerStep, TypeStep, RelayStep DEF SystemInv
  <1>2. C!TypeOK'
    BY ConnectorStep, ConnectorTypesStep DEF SystemInv
  <1>3. ASSUME NEW c \in Channels PROVE Numbered(c)'
    BY ConnectorStep, NumberedStep, SameClients DEF SystemInv
  <1>4. ASSUME NEW c \in Channels PROVE Delivered(c)'
    <2>1. /\ \/ sent'[c] = sent[c]
             \/ sent'[c] = sent[c] + 1 /\ Len(wire'[c]) = Len(wire[c]) + 1
          /\ Len(wire[c]) <= Len(wire'[c])
      BY WireStep DEF SystemInv, Extends
    <2>2. sent[c] <= Len(wire[c])
      BY DEF SystemInv, Delivered
    <2>3. Len(wire[c]) \in Nat /\ Len(wire'[c]) \in Nat
      <3>1. wire[c] \in Seq(Requests) /\ wire'[c] \in Seq(Requests)
        BY <1>1 DEF SystemInv, TypeInv, TypeOK, IoOK
      <3>2. QED BY <3>1, LenProperties
    <2>4. sent[c] \in Nat
      <3>1. sent[c] \in 0..MaxCommands
        BY SameClients DEF SystemInv, C!TypeOK
      <3>2. QED BY <3>1, SystemAssumption
    <2>5. QED BY <2>1, <2>2, <2>3, <2>4 DEF Delivered
  <1>5. ASSUME NEW c \in Channels PROVE Received(c)'
    BY FrameStep DEF SystemInv
  <1>6. ASSUME NEW c \in Channels, NEW i \in 1..Len(log'[c]) PROVE Follows(c, i)'
    BY FollowsStep
  <1>7. QED BY <1>1, <1>2, <1>3, <1>4, <1>5, <1>6 DEF SystemInv

-----------------------------------------------------------------------------
(* The system is the server and the connector and nothing that either would not
   do alone: what is proved of the server in its own modules holds of it here. *)
THEOREM ServerIsImplemented == System => Spec
  <1>1. SystemInit => Init
    BY DEF SystemInit
  <1>2. QED BY <1>1, ServerStep, PTL DEF System, Spec

(* And so does what is proved of the connector, whose commands are now those the
   server has written and no others. *)
THEOREM ConnectorIsImplemented == System => C!Spec
  <1>1. SystemInit => C!Init
    BY DEF SystemInit
  <1>2. QED BY <1>1, ConnectorStep, PTL DEF System, C!Spec

(* The count from the server's socket to the card and back is never wrong. *)
THEOREM SystemInvariant == System => []SystemInv
  BY SystemInvInit, SystemInvStep, PTL DEF System

=============================================================================
