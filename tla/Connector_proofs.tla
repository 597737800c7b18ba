--------------------------- MODULE Connector_proofs ---------------------------
(***************************************************************************)
(* The connector serves one connection at a time, by one card channel, and *)
(* answers in order, and implements the card service, for any number of    *)
(* readers, cards, connections and commands.                               *)
(***************************************************************************)
EXTENDS Connector, SequenceTheorems, TLAPS

(* The button that shows goes with where the GUI thread is. *)
ControlOK ==
  /\ edt \in {"terminal", "awaiting"} => gui = "connect"
  /\ edt = "releasing" => gui = "disconnect"
  /\ gui = "disconnect" \/ edt = "awaiting" => client \in Clients

(* A connection that is not established has seen nothing. *)
Unused(c) ==
  /\ sent[c] = 0 /\ inbox[c] = << >> /\ batch[c] = << >>
  /\ busy[c] = None /\ replies[c] = << >>

FreshOK ==
  \A c \in Clients :
    /\ c > client => link[c] = "none"
    /\ link[c] \in {"none", "connecting"} => Unused(c)

(* The card channel stays the one a connection was started with as long as
   anything of the connection is under way. *)
ServedOK ==
  \A c \in Clients :
    /\ ~Quiet(c) => opened[c].by = cardChannel
    /\ busy[c] # None => busy[c].via = opened[c].by

(* Replies written stay right because the channel of a connection is fixed. *)
RepliesOK ==
  \A c \in Clients : \A i \in 1..Len(replies[c]) :
    replies[c][i].by \in {None, opened[c].by}

AliveInv ==
  TypeOK /\ ControlOK /\ FreshOK /\ OnlyOneAlive /\ ServedOK /\ RepliesOK

-----------------------------------------------------------------------------
(* Cutting a sequence of commands yields commands. *)
LEMMA CutCommands ==
  ASSUME NEW q \in Seq(Commands), NEW k \in 1..Len(q)
  PROVE  SubSeq(q, 1, k) \in Seq(Commands) /\ SubSeq(q, k + 1, Len(q)) \in Seq(Commands)
  <1>1. \A i \in 1..Len(q) : q[i] \in Commands
    OBVIOUS
  <1>2. Len(q) \in Int /\ k \in Int /\ k + 1 \in Int
    OBVIOUS
  <1>3. SubSeq(q, 1, k) \in Seq(Commands)
    <2>1. \A i \in 1..k : q[i] \in Commands
      BY <1>1, <1>2
    <2>2. QED BY <1>2, <2>1, SubSeqProperties
  <1>4. SubSeq(q, k + 1, Len(q)) \in Seq(Commands)
    <2>1. \A i \in k + 1..Len(q) : q[i] \in Commands
      BY <1>1, <1>2
    <2>2. QED BY <1>2, <2>1, SubSeqProperties
  <1>5. QED BY <1>3, <1>4

LEMMA TypeInit == Init => TypeOK
  <1>1. << >> \in Seq(Commands)
        /\ << >> \in Seq([to : 1..MaxCommands, by : CardChannels \cup {None}])
    OBVIOUS
  <1>2. QED BY <1>1, ConnectorAssumption DEF Init, TypeOK, Clients

LEMMA TypeStep == TypeOK /\ [Next]_vars => TypeOK'
  <1> SUFFICES ASSUME TypeOK, [Next]_vars PROVE TypeOK'
    OBVIOUS
  <1> USE ConnectorAssumption
  <1>1. ASSUME NEW r \in Readers, InsertCard(r) PROVE TypeOK'
    <2>1. lastCard' \in 0..MaxCards /\ lastCard' = lastCard + 1
      BY <1>1 DEF InsertCard, TypeOK
    <2>2. card' \in [Readers -> 0..MaxCards]
      BY <1>1, <2>1 DEF InsertCard, TypeOK
    <2>3. QED BY <1>1, <2>1, <2>2 DEF InsertCard, TypeOK, guiVars, workerVars
  <1>2. ASSUME NEW r \in Readers, RemoveCard(r) PROVE TypeOK'
    <2>1. card' \in [Readers -> 0..MaxCards]
      BY <1>2 DEF RemoveCard, TypeOK
    <2>2. QED BY <1>2, <2>1 DEF RemoveCard, TypeOK, guiVars, workerVars
  <1>3. ASSUME NEW r \in Readers, OpenCard(r) PROVE TypeOK'
    <2>1. card[r] \in 1..MaxCards
      BY <1>3 DEF OpenCard, TypeOK
    <2>2. cardChannel' \in CardChannels
      BY <1>3, <2>1 DEF OpenCard, CardChannels
    <2>3. QED BY <1>3, <2>2 DEF OpenCard, TypeOK, workerVars
  <1>4. ASSUME NEW r \in Readers, OpenCardFails(r) PROVE TypeOK'
    BY <1>4 DEF OpenCardFails, TypeOK, workerVars
  <1>5. ASSUME BadPort PROVE TypeOK'
    BY <1>5 DEF BadPort, TypeOK, workerVars
  <1>6. ASSUME StartClient PROVE TypeOK'
    <2>1. client' \in 0..MaxClients
      BY <1>6 DEF StartClient, TypeOK
    <2>2. [by |-> cardChannel, for |-> chosen]
            \in [by : CardChannels \cup {None}, for : Readers \cup {None}]
      BY DEF TypeOK
    <2>3. opened' \in
            [Clients -> [by : CardChannels \cup {None}, for : Readers \cup {None}]]
      BY <1>6, <2>2 DEF StartClient, TypeOK
    <2>4. link' \in [Clients -> {"none", "connecting", "open", "closed"}]
      BY <1>6 DEF StartClient, TypeOK
    <2>5. QED BY <1>6, <2>1, <2>3, <2>4 DEF StartClient, TypeOK, workerVars
  <1>7. ASSUME ConnectReturns PROVE TypeOK'
    BY <1>7 DEF ConnectReturns, TypeOK, workerVars
  <1>8. ASSUME PressDisconnect PROVE TypeOK'
    BY <1>8 DEF PressDisconnect, TypeOK, workerVars
  <1>9. ASSUME StopReturns PROVE TypeOK'
    BY <1>9 DEF StopReturns, TypeOK, workerVars
  <1>10. ASSUME NEW c \in Clients, NEW o \in {"open", "closed"}, ConnectEnds(c, o)
         PROVE  TypeOK'
    BY <1>10 DEF ConnectEnds, TypeOK, guiVars, workerVars
  <1>11. ASSUME NEW c \in Clients, NEW ok \in BOOLEAN, ServerSends(c, ok) PROVE TypeOK'
    <2>1. [n |-> sent[c] + 1, wellFormed |-> ok] \in Commands
      BY <1>11 DEF ServerSends, TypeOK, Commands
    <2>2. inbox' \in [Clients -> Seq(Commands)]
      BY <1>11, <2>1 DEF ServerSends, TypeOK
    <2>3. sent' \in [Clients -> 0..MaxCommands]
      BY <1>11 DEF ServerSends, TypeOK
    <2>4. QED BY <1>11, <2>2, <2>3 DEF ServerSends, TypeOK, guiVars, workerVars
  <1>12. ASSUME NEW c \in Clients, ServerCloses(c) PROVE TypeOK'
    BY <1>12 DEF ServerCloses, TypeOK, guiVars, workerVars
  <1>13. ASSUME NEW c \in Clients, NEW k \in 1..Len(inbox[c]), Read(c, k) PROVE TypeOK'
    <2>1. inbox[c] \in Seq(Commands)
      BY DEF TypeOK
    <2>2. /\ SubSeq(inbox[c], 1, k) \in Seq(Commands)
          /\ SubSeq(inbox[c], k + 1, Len(inbox[c])) \in Seq(Commands)
      BY <2>1, CutCommands
    <2>3. batch' \in [Clients -> Seq(Commands)] /\ inbox' \in [Clients -> Seq(Commands)]
      BY <1>13, <2>2 DEF Read, TypeOK
    <2>4. QED BY <1>13, <2>3 DEF Read, TypeOK, guiVars
  <1>14. ASSUME NEW c \in Clients, batch[c] # << >>
         PROVE  Head(batch[c]).n \in 1..MaxCommands /\ Tail(batch[c]) \in Seq(Commands)
    <2>1. batch[c] \in Seq(Commands)
      BY DEF TypeOK
    <2>2. Head(batch[c]) \in Commands /\ Tail(batch[c]) \in Seq(Commands)
      BY <1>14, <2>1
    <2>3. QED BY <2>2 DEF Commands
  <1>15. ASSUME NEW c \in Clients, Transmit(c) PROVE TypeOK'
    <2>1. batch' \in [Clients -> Seq(Commands)]
      BY <1>14, <1>15 DEF Transmit, TypeOK
    <2>2. [n |-> Head(batch[c]).n, via |-> cardChannel]
            \in [n : 1..MaxCommands, via : CardChannels]
      BY <1>14, <1>15 DEF Transmit, TypeOK
    <2>3. busy' \in [Clients -> [n : 1..MaxCommands, via : CardChannels] \cup {None}]
      BY <1>15, <2>2 DEF Transmit, TypeOK
    <2>4. QED BY <1>15, <2>1, <2>3 DEF Transmit, TypeOK, guiVars
  <1>16. ASSUME NEW c \in Clients, HandlerFails(c) PROVE TypeOK'
    <2>1. batch' \in [Clients -> Seq(Commands)]
      BY <1>14, <1>16 DEF HandlerFails, TypeOK
    <2>2. QED BY <1>16, <2>1 DEF HandlerFails, TypeOK, guiVars
  <1>17. ASSUME NEW c \in Clients, busy[c] # None,
                NEW by \in CardChannels \cup {None}, Respond(c, by)
         PROVE  TypeOK'
    <2>1. busy[c].n \in 1..MaxCommands
      BY <1>17 DEF TypeOK
    <2>2. [to |-> busy[c].n, by |-> by] \in [to : 1..MaxCommands, by : CardChannels \cup {None}]
      BY <2>1
    <2>3. replies[c] \in Seq([to : 1..MaxCommands, by : CardChannels \cup {None}])
      BY DEF TypeOK
    <2>4. Append(replies[c], [to |-> busy[c].n, by |-> by])
            \in Seq([to : 1..MaxCommands, by : CardChannels \cup {None}])
      BY <2>2, <2>3
    <2>5. replies' \in [Clients -> Seq([to : 1..MaxCommands, by : CardChannels \cup {None}])]
      BY <1>17, <2>4 DEF Respond, TypeOK
    <2>6. busy' \in [Clients -> [n : 1..MaxCommands, via : CardChannels] \cup {None}]
      BY <1>17 DEF Respond, TypeOK
    <2>7. QED BY <1>17, <2>5, <2>6 DEF Respond, TypeOK, guiVars
  <1>18. ASSUME NEW c \in Clients, CardAnswers(c) PROVE TypeOK'
    <2>1. busy[c].via \in CardChannels
      BY <1>18 DEF CardAnswers, TypeOK
    <2>2. QED BY <1>17, <1>18, <2>1 DEF CardAnswers
  <1>19. ASSUME NEW c \in Clients, CardFails(c) PROVE TypeOK'
    BY <1>17, <1>19 DEF CardFails
  <1>20. CASE UNCHANGED vars
    BY <1>20 DEF vars, TypeOK, guiVars, workerVars
  <1>21. QED
    BY <1>1, <1>2, <1>3, <1>4, <1>5, <1>6, <1>7, <1>8, <1>9, <1>10, <1>11, <1>12,
       <1>13, <1>15, <1>16, <1>18, <1>19, <1>20 DEF Next, Gui, Environment, Worker

-----------------------------------------------------------------------------
(* One step of the connector keeps each part of the invariant. *)
LEMMA AliveStep ==
  ASSUME AliveInv, [Next]_vars
  PROVE  ControlOK' /\ FreshOK' /\ OnlyOneAlive' /\ ServedOK' /\ RepliesOK'
  <1>0. /\ link \in [Clients -> {"none", "connecting", "open", "closed"}]
        /\ sent \in [Clients -> 0..MaxCommands]
        /\ inbox \in [Clients -> Seq(Commands)]
        /\ batch \in [Clients -> Seq(Commands)]
        /\ busy \in [Clients -> [n : 1..MaxCommands, via : CardChannels] \cup {None}]
        /\ client \in 0..MaxClients /\ MaxClients \in Nat
    BY ConnectorAssumption DEF AliveInv, TypeOK
  <1>1. ASSUME NEW r \in Readers, InsertCard(r)
        PROVE  ControlOK' /\ FreshOK' /\ OnlyOneAlive' /\ ServedOK' /\ RepliesOK'
    <2>1. ControlOK'
      BY <1>0, <1>1 DEF InsertCard, guiVars, workerVars, AliveInv, ControlOK, Clients
    <2>2. FreshOK'
      BY <1>0, <1>1 DEF InsertCard, guiVars, workerVars, AliveInv, FreshOK, Unused
    <2>3. OnlyOneAlive'
      BY <1>0, <1>1 DEF InsertCard, guiVars, workerVars, AliveInv, OnlyOneAlive, Quiet
    <2>4. ServedOK'
      BY <1>0, <1>1 DEF InsertCard, guiVars, workerVars, AliveInv, ServedOK, Quiet
    <2>5. RepliesOK'
      BY <1>0, <1>1 DEF InsertCard, guiVars, workerVars, AliveInv, RepliesOK
    <2>6. QED BY <2>1, <2>2, <2>3, <2>4, <2>5
  <1>2. ASSUME NEW r \in Readers, RemoveCard(r)
        PROVE  ControlOK' /\ FreshOK' /\ OnlyOneAlive' /\ ServedOK' /\ RepliesOK'
    <2>1. ControlOK'
      BY <1>0, <1>2 DEF RemoveCard, guiVars, workerVars, AliveInv, ControlOK, Clients
    <2>2. FreshOK'
      BY <1>0, <1>2 DEF RemoveCard, guiVars, workerVars, AliveInv, FreshOK, Unused
    <2>3. OnlyOneAlive'
      BY <1>0, <1>2 DEF RemoveCard, guiVars, workerVars, AliveInv, OnlyOneAlive, Quiet
    <2>4. ServedOK'
      BY <1>0, <1>2 DEF RemoveCard, guiVars, workerVars, AliveInv, ServedOK, Quiet
    <2>5. RepliesOK'
      BY <1>0, <1>2 DEF RemoveCard, guiVars, workerVars, AliveInv, RepliesOK
    <2>6. QED BY <2>1, <2>2, <2>3, <2>4, <2>5
  <1>3. ASSUME NEW r \in Readers, OpenCard(r)
        PROVE  ControlOK' /\ FreshOK' /\ OnlyOneAlive' /\ ServedOK' /\ RepliesOK'
    <2>1. \A c \in Clients : Quiet(c) /\ Quiet(c)'
      BY <1>3 DEF OpenCard, workerVars, AliveInv, OnlyOneAlive, Quiet
    <2>2. ControlOK'
      BY <1>0, <1>3 DEF OpenCard, workerVars, AliveInv, ControlOK, Clients
    <2>3. FreshOK'
      BY <1>0, <1>3 DEF OpenCard, workerVars, AliveInv, FreshOK, Unused
    <2>4. OnlyOneAlive'
      BY <1>0, <1>3 DEF OpenCard, workerVars, AliveInv, OnlyOneAlive, Quiet
    <2>5. ServedOK'
      BY <1>0, <1>3, <2>1 DEF OpenCard, workerVars, AliveInv, ServedOK, Quiet
    <2>6. RepliesOK'
      BY <1>0, <1>3 DEF OpenCard, workerVars, AliveInv, RepliesOK
    <2>7. QED BY <2>2, <2>3, <2>4, <2>5, <2>6
  <1>4. ASSUME NEW r \in Readers, OpenCardFails(r)
        PROVE  ControlOK' /\ FreshOK' /\ OnlyOneAlive' /\ ServedOK' /\ RepliesOK'
    <2>1. ControlOK'
      BY <1>0, <1>4 DEF OpenCardFails, workerVars, AliveInv, ControlOK, Clients
    <2>2. FreshOK'
      BY <1>0, <1>4 DEF OpenCardFails, workerVars, AliveInv, FreshOK, Unused
    <2>3. OnlyOneAlive'
      BY <1>0, <1>4 DEF OpenCardFails, workerVars, AliveInv, OnlyOneAlive, Quiet
    <2>4. ServedOK'
      BY <1>0, <1>4 DEF OpenCardFails, workerVars, AliveInv, ServedOK, Quiet
    <2>5. RepliesOK'
      BY <1>0, <1>4 DEF OpenCardFails, workerVars, AliveInv, RepliesOK
    <2>6. QED BY <2>1, <2>2, <2>3, <2>4, <2>5
  <1>5. ASSUME BadPort
        PROVE  ControlOK' /\ FreshOK' /\ OnlyOneAlive' /\ ServedOK' /\ RepliesOK'
    <2>1. ControlOK'
      BY <1>0, <1>5 DEF BadPort, workerVars, AliveInv, ControlOK, Clients
    <2>2. FreshOK'
      BY <1>0, <1>5 DEF BadPort, workerVars, AliveInv, FreshOK, Unused
    <2>3. OnlyOneAlive'
      BY <1>0, <1>5 DEF BadPort, workerVars, AliveInv, OnlyOneAlive, Quiet
    <2>4. ServedOK'
      BY <1>0, <1>5 DEF BadPort, workerVars, AliveInv, ServedOK, Quiet
    <2>5. RepliesOK'
      BY <1>0, <1>5 DEF BadPort, workerVars, AliveInv, RepliesOK
    <2>6. QED BY <2>1, <2>2, <2>3, <2>4, <2>5
  <1>6. ASSUME StartClient
        PROVE  ControlOK' /\ FreshOK' /\ OnlyOneAlive' /\ ServedOK' /\ RepliesOK'
    <2>1. PICK d : d = client + 1
      OBVIOUS
    <2>2. d \in Clients /\ d > client /\ client' = d /\ edt' = "awaiting"
      BY <1>0, <1>6, <2>1 DEF StartClient, Clients
    <2>3. /\ link'[d] = "connecting" /\ opened'[d].by = cardChannel
          /\ \A c \in Clients : c # d => link'[c] = link[c] /\ opened'[c] = opened[c]
      BY <1>0, <1>6, <2>1, <2>2 DEF StartClient, AliveInv, TypeOK
    <2>4. UNCHANGED <<cardChannel, gui, sent, inbox, batch, busy, replies>>
      BY <1>6 DEF StartClient, workerVars
    <2>5. Unused(d) /\ link[d] = "none"
      BY <2>2 DEF AliveInv, FreshOK
    <2>6. \A c \in Clients : Quiet(c)
      BY <1>6 DEF StartClient, AliveInv, OnlyOneAlive, ControlOK
    <2>7. \A c \in Clients : c > d => c > client /\ c # d
      BY <1>0, <2>1 DEF Clients
    <2>8. ControlOK'
      BY <1>0, <1>6 DEF StartClient, workerVars, AliveInv, ControlOK, Clients
    <2>9. FreshOK'
      BY <2>2, <2>3, <2>4, <2>5, <2>7 DEF AliveInv, FreshOK, Unused
    <2>10. OnlyOneAlive'
      BY <2>2, <2>3, <2>4, <2>6 DEF OnlyOneAlive, Quiet
    <2>11. ServedOK'
      BY <2>2, <2>3, <2>4, <2>6 DEF ServedOK, Quiet
    <2>12. RepliesOK'
      BY <2>3, <2>4, <2>5 DEF AliveInv, RepliesOK, Unused
    <2>13. QED BY <2>8, <2>9, <2>10, <2>11, <2>12
  <1>7. ASSUME ConnectReturns
        PROVE  ControlOK' /\ FreshOK' /\ OnlyOneAlive' /\ ServedOK' /\ RepliesOK'
    <2>1. ControlOK'
      BY <1>0, <1>7 DEF ConnectReturns, workerVars, AliveInv, ControlOK, Clients
    <2>2. FreshOK'
      BY <1>0, <1>7 DEF ConnectReturns, workerVars, AliveInv, FreshOK, Unused
    <2>3. OnlyOneAlive'
      BY <1>0, <1>7 DEF ConnectReturns, workerVars, AliveInv, OnlyOneAlive, Quiet
    <2>4. ServedOK'
      BY <1>0, <1>7 DEF ConnectReturns, workerVars, AliveInv, ServedOK, Quiet
    <2>5. RepliesOK'
      BY <1>0, <1>7 DEF ConnectReturns, workerVars, AliveInv, RepliesOK
    <2>6. QED BY <2>1, <2>2, <2>3, <2>4, <2>5
  <1>8. ASSUME PressDisconnect
        PROVE  ControlOK' /\ FreshOK' /\ OnlyOneAlive' /\ ServedOK' /\ RepliesOK'
    <2>1. ControlOK'
      BY <1>0, <1>8 DEF PressDisconnect, workerVars, AliveInv, ControlOK, Clients
    <2>2. FreshOK'
      BY <1>0, <1>8 DEF PressDisconnect, workerVars, AliveInv, FreshOK, Unused
    <2>3. OnlyOneAlive'
      BY <1>0, <1>8 DEF PressDisconnect, workerVars, AliveInv, OnlyOneAlive, Quiet
    <2>4. ServedOK'
      BY <1>0, <1>8 DEF PressDisconnect, workerVars, AliveInv, ServedOK, Quiet
    <2>5. RepliesOK'
      BY <1>0, <1>8 DEF PressDisconnect, workerVars, AliveInv, RepliesOK
    <2>6. QED BY <2>1, <2>2, <2>3, <2>4, <2>5
  <1>9. ASSUME StopReturns
        PROVE  ControlOK' /\ FreshOK' /\ OnlyOneAlive' /\ ServedOK' /\ RepliesOK'
    <2>1. ControlOK'
      BY <1>0, <1>9 DEF StopReturns, workerVars, AliveInv, ControlOK, Clients
    <2>2. FreshOK'
      BY <1>0, <1>9 DEF StopReturns, workerVars, AliveInv, FreshOK, Unused
    <2>3. OnlyOneAlive'
      BY <1>0, <1>9 DEF StopReturns, workerVars, AliveInv, OnlyOneAlive, Quiet
    <2>4. ServedOK'
      BY <1>0, <1>9 DEF StopReturns, workerVars, AliveInv, ServedOK, Quiet
    <2>5. RepliesOK'
      BY <1>0, <1>9 DEF StopReturns, workerVars, AliveInv, RepliesOK
    <2>6. QED BY <2>1, <2>2, <2>3, <2>4, <2>5
  <1>10. ASSUME NEW c \in Clients, NEW o \in {"open", "closed"}, ConnectEnds(c, o)
        PROVE  ControlOK' /\ FreshOK' /\ OnlyOneAlive' /\ ServedOK' /\ RepliesOK'
    <2>1. ControlOK'
      BY <1>0, <1>10 DEF ConnectEnds, guiVars, workerVars, AliveInv, ControlOK, Clients
    <2>2. FreshOK'
      BY <1>0, <1>10 DEF ConnectEnds, guiVars, workerVars, AliveInv, FreshOK, Unused
    <2>3. OnlyOneAlive'
      BY <1>0, <1>10 DEF ConnectEnds, guiVars, workerVars, AliveInv, OnlyOneAlive, Quiet
    <2>4. ServedOK'
      BY <1>0, <1>10 DEF ConnectEnds, guiVars, workerVars, AliveInv, ServedOK, Quiet
    <2>5. RepliesOK'
      BY <1>0, <1>10 DEF ConnectEnds, guiVars, workerVars, AliveInv, RepliesOK
    <2>6. QED BY <2>1, <2>2, <2>3, <2>4, <2>5
  <1>11. ASSUME NEW c \in Clients, NEW ok \in BOOLEAN, ServerSends(c, ok)
        PROVE  ControlOK' /\ FreshOK' /\ OnlyOneAlive' /\ ServedOK' /\ RepliesOK'
    <2>1. ControlOK'
      BY <1>0, <1>11 DEF ServerSends, guiVars, workerVars, AliveInv, ControlOK, Clients
    <2>2. FreshOK'
      BY <1>0, <1>11 DEF ServerSends, guiVars, workerVars, AliveInv, FreshOK, Unused
    <2>3. OnlyOneAlive'
      BY <1>0, <1>11 DEF ServerSends, guiVars, workerVars, AliveInv, OnlyOneAlive, Quiet
    <2>4. ServedOK'
      BY <1>0, <1>11 DEF ServerSends, guiVars, workerVars, AliveInv, ServedOK, Quiet
    <2>5. RepliesOK'
      BY <1>0, <1>11 DEF ServerSends, guiVars, workerVars, AliveInv, RepliesOK
    <2>6. QED BY <2>1, <2>2, <2>3, <2>4, <2>5
  <1>12. ASSUME NEW c \in Clients, ServerCloses(c)
        PROVE  ControlOK' /\ FreshOK' /\ OnlyOneAlive' /\ ServedOK' /\ RepliesOK'
    <2>1. ControlOK'
      BY <1>0, <1>12 DEF ServerCloses, guiVars, workerVars, AliveInv, ControlOK, Clients
    <2>2. FreshOK'
      BY <1>0, <1>12 DEF ServerCloses, guiVars, workerVars, AliveInv, FreshOK, Unused
    <2>3. OnlyOneAlive'
      BY <1>0, <1>12 DEF ServerCloses, guiVars, workerVars, AliveInv, OnlyOneAlive, Quiet
    <2>4. ServedOK'
      BY <1>0, <1>12 DEF ServerCloses, guiVars, workerVars, AliveInv, ServedOK, Quiet
    <2>5. RepliesOK'
      BY <1>0, <1>12 DEF ServerCloses, guiVars, workerVars, AliveInv, RepliesOK
    <2>6. QED BY <2>1, <2>2, <2>3, <2>4, <2>5
  <1>13. ASSUME NEW c \in Clients, NEW k \in 1..Len(inbox[c]), Read(c, k)
        PROVE  ControlOK' /\ FreshOK' /\ OnlyOneAlive' /\ ServedOK' /\ RepliesOK'
    <2>1. ControlOK'
      BY <1>0, <1>13 DEF Read, guiVars, AliveInv, ControlOK, Clients
    <2>2. FreshOK'
      BY <1>0, <1>13 DEF Read, guiVars, AliveInv, FreshOK, Unused
    <2>3. OnlyOneAlive'
      BY <1>0, <1>13 DEF Read, guiVars, AliveInv, OnlyOneAlive, Quiet
    <2>4. ServedOK'
      BY <1>0, <1>13 DEF Read, guiVars, AliveInv, ServedOK, Quiet
    <2>5. RepliesOK'
      BY <1>0, <1>13 DEF Read, guiVars, AliveInv, RepliesOK
    <2>6. QED BY <2>1, <2>2, <2>3, <2>4, <2>5
  <1>14. ASSUME NEW c \in Clients, Transmit(c)
        PROVE  ControlOK' /\ FreshOK' /\ OnlyOneAlive' /\ ServedOK' /\ RepliesOK'
    <2>1. ControlOK'
      BY <1>0, <1>14 DEF Transmit, guiVars, AliveInv, ControlOK, Clients
    <2>2. FreshOK'
      BY <1>0, <1>14 DEF Transmit, guiVars, AliveInv, FreshOK, Unused
    <2>3. OnlyOneAlive'
      BY <1>0, <1>14 DEF Transmit, guiVars, AliveInv, OnlyOneAlive, Quiet
    <2>4. ServedOK'
      BY <1>0, <1>14 DEF Transmit, guiVars, AliveInv, ServedOK, Quiet
    <2>5. RepliesOK'
      BY <1>0, <1>14 DEF Transmit, guiVars, AliveInv, RepliesOK
    <2>6. QED BY <2>1, <2>2, <2>3, <2>4, <2>5
  <1>15. ASSUME NEW c \in Clients, HandlerFails(c)
        PROVE  ControlOK' /\ FreshOK' /\ OnlyOneAlive' /\ ServedOK' /\ RepliesOK'
    <2>1. ControlOK'
      BY <1>0, <1>15 DEF HandlerFails, guiVars, AliveInv, ControlOK, Clients
    <2>2. FreshOK'
      BY <1>0, <1>15 DEF HandlerFails, guiVars, AliveInv, FreshOK, Unused
    <2>3. OnlyOneAlive'
      BY <1>0, <1>15 DEF HandlerFails, guiVars, AliveInv, OnlyOneAlive, Quiet
    <2>4. ServedOK'
      BY <1>0, <1>15 DEF HandlerFails, guiVars, AliveInv, ServedOK, Quiet
    <2>5. RepliesOK'
      BY <1>0, <1>15 DEF HandlerFails, guiVars, AliveInv, RepliesOK
    <2>6. QED BY <2>1, <2>2, <2>3, <2>4, <2>5
  <1>16. ASSUME NEW c \in Clients, CardAnswers(c)
        PROVE  ControlOK' /\ FreshOK' /\ OnlyOneAlive' /\ ServedOK' /\ RepliesOK'
    <2>1. busy[c].via = opened[c].by
      BY <1>16 DEF CardAnswers, AliveInv, ServedOK
    <2>2. ASSUME NEW e \in Clients, NEW i \in 1..Len(replies'[e])
          PROVE  replies'[e][i].by \in {None, opened[e].by}
      <3>1. replies[e] \in Seq([to : 1..MaxCommands, by : CardChannels \cup {None}])
        BY DEF AliveInv, TypeOK
      <3>2. CASE replies'[e] = replies[e]
        BY <2>2, <3>2 DEF AliveInv, RepliesOK
      <3>3. CASE e = c /\ replies'[c] = Append(replies[c], [to |-> busy[c].n, by |-> busy[c].via])
        <4>1. i \in 1..Len(replies[e]) \/ replies'[e][i].by = busy[c].via
          BY <3>1, <3>3
        <4>2. i \in 1..Len(replies[e]) => replies'[e][i] = replies[e][i]
          BY <3>1, <3>3
        <4>3. QED BY <2>1, <3>3, <4>1, <4>2 DEF AliveInv, RepliesOK
      <3>4. QED
        BY <1>16, <3>2, <3>3 DEF CardAnswers, Respond, AliveInv, TypeOK
    <2>3. ControlOK'
      BY <1>0, <1>16 DEF CardAnswers, Respond, guiVars, AliveInv, ControlOK, Clients
    <2>4. FreshOK'
      BY <1>0, <1>16 DEF CardAnswers, Respond, guiVars, AliveInv, FreshOK, Unused
    <2>5. OnlyOneAlive'
      BY <1>0, <1>16 DEF CardAnswers, Respond, guiVars, AliveInv, OnlyOneAlive, Quiet
    <2>6. ServedOK'
      BY <1>0, <1>16 DEF CardAnswers, Respond, guiVars, AliveInv, ServedOK, Quiet
    <2>7. RepliesOK'
      BY <1>16, <2>2 DEF CardAnswers, Respond, guiVars, RepliesOK
    <2>8. QED BY <2>3, <2>4, <2>5, <2>6, <2>7
  <1>17. ASSUME NEW c \in Clients, CardFails(c)
        PROVE  ControlOK' /\ FreshOK' /\ OnlyOneAlive' /\ ServedOK' /\ RepliesOK'
    <2>1. ControlOK'
      BY <1>0, <1>17 DEF CardFails, Respond, guiVars, AliveInv, ControlOK, Clients
    <2>2. FreshOK'
      BY <1>0, <1>17 DEF CardFails, Respond, guiVars, AliveInv, FreshOK, Unused
    <2>3. OnlyOneAlive'
      BY <1>0, <1>17 DEF CardFails, Respond, guiVars, AliveInv, OnlyOneAlive, Quiet
    <2>4. ServedOK'
      BY <1>0, <1>17 DEF CardFails, Respond, guiVars, AliveInv, ServedOK, Quiet
    <2>5. RepliesOK'
      BY <1>0, <1>17 DEF CardFails, Respond, guiVars, AliveInv, RepliesOK
    <2>6. QED BY <2>1, <2>2, <2>3, <2>4, <2>5
  <1>18. CASE UNCHANGED vars
    BY <1>18 DEF vars, guiVars, workerVars, AliveInv, ControlOK, FreshOK, Unused,
       OnlyOneAlive, Quiet, ServedOK, RepliesOK
  <1>19. QED
    BY <1>1, <1>2, <1>3, <1>4, <1>5, <1>6, <1>7, <1>8, <1>9, <1>10, <1>11,
       <1>12, <1>13, <1>14, <1>15, <1>16, <1>17, <1>18 DEF Next, Gui, Environment, Worker

LEMMA AliveInit == Init => AliveInv
  <1> SUFFICES ASSUME Init PROVE AliveInv
    OBVIOUS
  <1>1. TypeOK
    BY TypeInit
  <1>2. ControlOK /\ FreshOK /\ OnlyOneAlive /\ ServedOK /\ RepliesOK
    BY DEF Init, Clients, ControlOK, FreshOK, Unused, OnlyOneAlive, Quiet, ServedOK,
       RepliesOK
  <1>3. QED BY <1>1, <1>2 DEF AliveInv

(* The invariant the results about the connector follow from. *)
THEOREM AliveInvariant == Spec => []AliveInv
  <1>1. AliveInv /\ [Next]_vars => AliveInv'
    BY TypeStep, AliveStep DEF AliveInv
  <1>2. QED BY AliveInit, <1>1, PTL DEF Spec

(* The state of the connector keeps its types; above all a command is at the card
   only by a card channel, never by null. *)
THEOREM ConnectorTypeCorrect == Spec => []TypeOK
  <1>1. AliveInv => TypeOK
    BY DEF AliveInv
  <1>2. QED BY AliveInvariant, <1>1, PTL

(* No two connections are alive at once, and none while Connect shows: stop waits
   for the worker before the user can connect again. *)
THEOREM OneConnectionAtATime == Spec => []OnlyOneAlive
  <1>1. AliveInv => OnlyOneAlive
    BY DEF AliveInv
  <1>2. QED BY AliveInvariant, <1>1, PTL

(* The shared field does not change under a worker: all commands of a connection
   go to the card channel that was set when it was started, and all replies come
   from there. *)
THEOREM OneCardPerConnection == Spec => []ServedByOneCard
  <1>1. AliveInv => ServedByOneCard
    BY DEF AliveInv, ServedOK, RepliesOK, ServedByOneCard
  <1>2. QED BY AliveInvariant, <1>1, PTL

-----------------------------------------------------------------------------
(* How many commands of connection c the worker has taken up. *)
Taken(c) == Len(replies[c]) + (IF busy[c] = None THEN 0 ELSE 1)

(* The commands of connection c are somewhere on their way, in their order. *)
Numbered(c) ==
  /\ busy[c] # None => busy[c].n = Len(replies[c]) + 1
  /\ \A i \in 1..Len(batch[c]) : batch[c][i].n = Taken(c) + i
  /\ \A i \in 1..Len(inbox[c]) : inbox[c][i].n = Taken(c) + Len(batch[c]) + i
  /\ sent[c] = Taken(c) + Len(batch[c]) + Len(inbox[c])

OrderInv ==
  /\ AliveInv /\ RepliesInOrder
  /\ \A c \in Clients : link[c] = "open" => Numbered(c)

LEMMA QueueTypes ==
  ASSUME TypeOK, NEW c \in Clients
  PROVE  /\ Len(replies[c]) \in Nat /\ Taken(c) \in Nat
         /\ batch[c] \in Seq(Commands) /\ Len(batch[c]) \in Nat
         /\ inbox[c] \in Seq(Commands) /\ Len(inbox[c]) \in Nat
         /\ sent[c] \in Nat
  <1>1. /\ replies[c] \in Seq([to : 1..MaxCommands, by : CardChannels \cup {None}])
        /\ batch[c] \in Seq(Commands) /\ inbox[c] \in Seq(Commands)
        /\ sent[c] \in 0..MaxCommands
    BY DEF TypeOK
  <1>2. Len(replies[c]) \in Nat /\ Len(batch[c]) \in Nat /\ Len(inbox[c]) \in Nat
    BY <1>1
  <1>3. Taken(c) \in Nat
    <2>1. \A l \in Nat : l + 0 \in Nat /\ l + 1 \in Nat
      OBVIOUS
    <2>2. CASE busy[c] = None
      BY <1>2, <2>1, <2>2 DEF Taken
    <2>3. CASE busy[c] # None
      BY <1>2, <2>1, <2>3 DEF Taken
    <2>4. QED BY <2>2, <2>3
  <1>4. QED BY <1>1, <1>2, <1>3

(* A step that leaves the queues of a connection alone, and does not open it. *)
LEMMA KeepsNumbered ==
  ASSUME OrderInv, NEW c \in Clients, link'[c] = "open" => link[c] = "open",
         link'[c] = "open" =>
           /\ sent'[c] = sent[c] /\ inbox'[c] = inbox[c] /\ batch'[c] = batch[c]
           /\ busy'[c] = busy[c] /\ replies'[c] = replies[c]
  PROVE  link'[c] = "open" => Numbered(c)'
  BY DEF OrderInv, Numbered, Taken

LEMMA SendsNumbered ==
  ASSUME OrderInv, NEW c \in Clients, NEW ok \in BOOLEAN, ServerSends(c, ok)
  PROVE  Numbered(c)'
  <1>1. PICK x : x = [n |-> sent[c] + 1, wellFormed |-> ok]
    OBVIOUS
  <1>2. x.n = sent[c] + 1
    BY <1>1
  <1>3. inbox'[c] = Append(inbox[c], x) /\ sent'[c] = sent[c] + 1
    BY <1>1 DEF ServerSends, OrderInv, AliveInv, TypeOK
  <1>4. UNCHANGED <<batch, busy, replies>>
    BY DEF ServerSends, workerVars
  <1>5. PICK t, d : t = Taken(c) /\ d = Len(batch[c])
    OBVIOUS
  <1>6. Taken(c)' = t /\ Len(batch[c])' = d
    BY <1>4, <1>5 DEF Taken
  <1>7. /\ inbox[c] \in Seq(Commands) /\ Len(inbox[c]) \in Nat /\ t \in Nat /\ d \in Nat
        /\ sent[c] \in Nat
    BY <1>5, QueueTypes DEF OrderInv, AliveInv
  <1>8. Numbered(c)
    BY DEF OrderInv, ServerSends
  <1>9. /\ Len(inbox'[c]) = Len(inbox[c]) + 1 /\ inbox'[c][Len(inbox[c]) + 1] = x
        /\ \A i \in 1..Len(inbox[c]) : inbox'[c][i] = inbox[c][i]
    BY <1>3, <1>7
  <1>10. sent[c] = t + d + Len(inbox[c])
    BY <1>5, <1>8 DEF Numbered
  <1>11. \A i \in 1..Len(inbox[c]) : inbox[c][i].n = t + d + i
    BY <1>5, <1>8 DEF Numbered
  <1>12. \A i \in 1..Len(inbox'[c]) : inbox'[c][i].n = t + d + i
    <2> SUFFICES ASSUME NEW i \in 1..Len(inbox'[c]) PROVE inbox'[c][i].n = t + d + i
      OBVIOUS
    <2>1. CASE i \in 1..Len(inbox[c])
      BY <1>9, <1>11, <2>1
    <2>2. CASE i = Len(inbox[c]) + 1
      <3>1. inbox'[c][i].n = t + d + Len(inbox[c]) + 1
        BY <1>2, <1>9, <1>10, <2>2
      <3>2. t + d + Len(inbox[c]) + 1 = t + d + i
        <4>1. \A l \in Nat : t + d + l + 1 = t + d + (l + 1)
          BY <1>7
        <4>2. QED BY <1>7, <2>2, <4>1
      <3>3. QED BY <3>1, <3>2
    <2>3. QED BY <1>7, <1>9, <2>1, <2>2
  <1>13. sent'[c] = t + d + Len(inbox'[c])
    <2>1. sent'[c] = t + d + Len(inbox[c]) + 1 /\ Len(inbox'[c]) = Len(inbox[c]) + 1
      BY <1>3, <1>9, <1>10
    <2>2. \A l \in Nat : t + d + l + 1 = t + d + (l + 1)
      BY <1>7
    <2>3. QED BY <1>7, <2>1, <2>2
  <1>14. /\ busy'[c] # None => busy'[c].n = Len(replies'[c]) + 1
         /\ \A i \in 1..Len(batch'[c]) : batch'[c][i].n = t + i
    BY <1>4, <1>5, <1>8 DEF Numbered
  <1>15. QED BY <1>6, <1>12, <1>13, <1>14 DEF Numbered

LEMMA ReadNumbered ==
  ASSUME OrderInv, NEW c \in Clients, NEW k \in 1..Len(inbox[c]), Read(c, k)
  PROVE  Numbered(c)'
  <1>1. /\ batch'[c] = SubSeq(inbox[c], 1, k)
        /\ inbox'[c] = SubSeq(inbox[c], k + 1, Len(inbox[c]))
        /\ UNCHANGED <<sent, busy, replies>> /\ batch[c] = << >> /\ busy[c] = None
    BY DEF Read, OrderInv, AliveInv, TypeOK
  <1>2. PICK t, q, m : t = Taken(c) /\ q = inbox[c] /\ m = Len(inbox[c])
    OBVIOUS
  <1>3. q \in Seq(Commands) /\ m = Len(q) /\ m \in Nat /\ t \in Nat /\ k \in 1..m
    BY <1>2, QueueTypes DEF OrderInv, AliveInv
  <1>4. Numbered(c)
    BY DEF OrderInv, Read
  <1>5. (\A i \in 1..m : q[i].n = t + i) /\ sent[c] = t + m
    BY <1>1, <1>2, <1>3, <1>4 DEF Numbered
  <1>6. \A i \in 1..m : q[i] \in Commands
    BY <1>3
  <1>7. Len(batch'[c]) = k /\ \A i \in 1..k : batch'[c][i] = q[i]
    <2>1. \A i \in 1..k : q[i] \in Commands
      BY <1>3, <1>6
    <2>2. batch'[c] = SubSeq(q, 1, k) /\ 1 \in Int /\ k \in Int /\ 1 <= k
      BY <1>1, <1>2, <1>3
    <2>3. /\ Len(SubSeq(q, 1, k)) = k - 1 + 1
          /\ \A i \in 1..k - 1 + 1 : SubSeq(q, 1, k)[i] = q[1 + i - 1]
      BY <2>1, <2>2, SubSeqProperties
    <2>4. QED BY <2>2, <2>3
  <1>8. Len(inbox'[c]) = m - k /\ \A i \in 1..m - k : inbox'[c][i] = q[k + i]
    <2>1. \A i \in k + 1..m : q[i] \in Commands
      BY <1>3, <1>6
    <2>2. inbox'[c] = SubSeq(q, k + 1, m) /\ k + 1 \in Int /\ m \in Int
      BY <1>1, <1>2, <1>3
    <2>3. /\ Len(SubSeq(q, k + 1, m)) = IF k + 1 <= m THEN m - (k + 1) + 1 ELSE 0
          /\ \A i \in 1..m - (k + 1) + 1 : SubSeq(q, k + 1, m)[i] = q[(k + 1) + i - 1]
      BY <2>1, <2>2, SubSeqProperties
    <2>4. QED BY <1>3, <2>2, <2>3
  <1>9. Taken(c)' = t
    BY <1>1, <1>2 DEF Taken
  <1>10. \A i \in 1..k : batch'[c][i].n = t + i
    BY <1>3, <1>5, <1>7
  <1>11. \A i \in 1..m - k : inbox'[c][i].n = t + k + i
    <2>1. \A i \in 1..m - k : k + i \in 1..m /\ t + (k + i) = t + k + i
      BY <1>3
    <2>2. \A j \in 1..m : q[j].n = t + j
      BY <1>5
    <2>3. QED BY <1>8, <2>1, <2>2
  <1>12. sent'[c] = t + k + (m - k)
    <2>1. \A x, y, z \in Nat : x + y = x + z + (y - z)
      OBVIOUS
    <2>2. t + m = t + k + (m - k)
      BY <1>3, <2>1
    <2>3. QED BY <1>1, <1>5, <2>2
  <1>13. QED BY <1>1, <1>7, <1>8, <1>9, <1>10, <1>11, <1>12 DEF Numbered

LEMMA TransmitNumbered ==
  ASSUME OrderInv, NEW c \in Clients, Transmit(c), link[c] = "open"
  PROVE  Numbered(c)'
  <1>1. /\ busy'[c] = [n |-> Head(batch[c]).n, via |-> cardChannel]
        /\ batch'[c] = Tail(batch[c]) /\ batch[c] # << >> /\ busy[c] = None
        /\ UNCHANGED <<sent, inbox, replies>> /\ cardChannel # None
    BY DEF Transmit, OrderInv, AliveInv, TypeOK
  <1>2. PICK a, q : a = Len(replies[c]) /\ q = batch[c]
    OBVIOUS
  <1>3. /\ q \in Seq(Commands) /\ q # << >> /\ a \in Nat /\ Len(inbox[c]) \in Nat
        /\ sent[c] \in Nat
    BY <1>1, <1>2, QueueTypes DEF OrderInv, AliveInv
  <1>4. Len(q) \in Nat \ {0} /\ Head(q) = q[1] /\ Len(Tail(q)) = Len(q) - 1
        /\ \A i \in 1..Len(q) - 1 : Tail(q)[i] = q[i + 1]
    BY <1>3
  <1>5. Taken(c) = a
    BY <1>1, <1>2, <1>3 DEF Taken
  <1>6. Numbered(c)
    BY DEF OrderInv
  <1>7. /\ \A i \in 1..Len(q) : q[i].n = a + i
        /\ \A i \in 1..Len(inbox[c]) : inbox[c][i].n = a + Len(q) + i
        /\ sent[c] = a + Len(q) + Len(inbox[c])
    BY <1>2, <1>5, <1>6 DEF Numbered
  <1>8. busy'[c].n = a + 1
    BY <1>1, <1>2, <1>4, <1>7
  <1>9. busy'[c] # None
    <2>1. q[1] \in Commands /\ q[1] = Head(batch[c])
      BY <1>2, <1>3, <1>4
    <2>2. busy'[c] \in [n : 1..MaxCommands, via : CardChannels]
      BY <1>1, <2>1 DEF OrderInv, AliveInv, TypeOK, Commands
    <2>3. QED BY <2>2, ConnectorAssumption DEF CardChannels
  <1>10. Taken(c)' = a + 1
    BY <1>1, <1>2, <1>9 DEF Taken
  <1>11. \A i \in 1..Len(q) - 1 : batch'[c][i].n = a + 1 + i
    <2>1. \A i \in 1..Len(q) - 1 : i + 1 \in 1..Len(q) /\ a + (i + 1) = a + 1 + i
      BY <1>3, <1>4
    <2>2. \A i \in 1..Len(q) - 1 : batch'[c][i] = q[i + 1]
      BY <1>1, <1>2, <1>4
    <2>3. \A j \in 1..Len(q) : q[j].n = a + j
      BY <1>7
    <2>4. QED BY <2>1, <2>2, <2>3
  <1>12. Len(batch'[c]) = Len(q) - 1
    BY <1>1, <1>2, <1>4
  <1>13. \A i \in 1..Len(inbox'[c]) : inbox'[c][i].n = a + 1 + (Len(q) - 1) + i
    <2>1. \A i : i \in 1..Len(inbox[c]) => a + Len(q) + i = a + 1 + (Len(q) - 1) + i
      BY <1>3, <1>4
    <2>2. QED BY <1>1, <1>7, <2>1
  <1>14. sent'[c] = a + 1 + (Len(q) - 1) + Len(inbox'[c])
    <2>0. \A x, y, z \in Nat : x + y + z = x + 1 + (y - 1) + z
      OBVIOUS
    <2>1. a + Len(q) + Len(inbox[c]) = a + 1 + (Len(q) - 1) + Len(inbox[c])
      BY <1>3, <1>4, <2>0
    <2>2. QED BY <1>1, <1>7, <2>1
  <1>15. Len(replies'[c]) = a
    BY <1>1, <1>2
  <1>16. QED BY <1>8, <1>10, <1>11, <1>12, <1>13, <1>14, <1>15 DEF Numbered

LEMMA RespondNumbered ==
  ASSUME OrderInv, NEW c \in Clients, busy[c] # None,
         NEW by \in CardChannels \cup {None}, Respond(c, by)
  PROVE  RepliesInOrder' /\ (link[c] = "open" => Numbered(c)')
  <1>1. PICK x : x = [to |-> busy[c].n, by |-> by]
    OBVIOUS
  <1>2. PICK a, q : a = Len(replies[c]) /\ q = replies[c]
    OBVIOUS
  <1>3. /\ q \in Seq([to : 1..MaxCommands, by : CardChannels \cup {None}])
        /\ x \in [to : 1..MaxCommands, by : CardChannels \cup {None}]
        /\ a \in Nat /\ Len(q) = a
    <2>1. busy[c].n \in 1..MaxCommands
      BY DEF OrderInv, AliveInv, TypeOK
    <2>2. q \in Seq([to : 1..MaxCommands, by : CardChannels \cup {None}])
      BY <1>2 DEF OrderInv, AliveInv, TypeOK
    <2>3. x \in [to : 1..MaxCommands, by : CardChannels \cup {None}]
      BY <1>1, <2>1
    <2>4. a \in Nat /\ Len(q) = a
      BY <1>2, <2>2
    <2>5. QED BY <2>2, <2>3, <2>4
  <1>4. /\ link[c] = "open" => replies'[c] = Append(q, x)
        /\ link[c] # "open" => replies' = replies
        /\ \A e \in Clients : e # c => replies'[e] = replies[e]
        /\ busy'[c] = None
        /\ UNCHANGED <<sent, inbox, batch>>
    BY <1>1, <1>2 DEF Respond, OrderInv, AliveInv, TypeOK
  <1>5. PICK s : s = Append(q, x)
    OBVIOUS
  <1>6. Len(s) = a + 1 /\ s[a + 1] = x /\ \A i \in 1..a : s[i] = q[i]
    BY <1>3, <1>5
  <1>7. link[c] = "open" => Numbered(c) /\ busy[c].n = a + 1
    BY <1>2 DEF OrderInv, Numbered
  <1>8. ASSUME link[c] = "open" PROVE Numbered(c)'
    <2>1. Taken(c) = a + 1
      BY <1>2 DEF Taken
    <2>2. Taken(c)' = a + 1
      BY <1>3, <1>4, <1>5, <1>6, <1>8 DEF Taken
    <2>3. QED BY <1>4, <1>7, <1>8, <2>1, <2>2 DEF Numbered
  <1>9. ASSUME NEW e \in Clients, NEW i \in 1..Len(replies'[e])
        PROVE  replies'[e][i].to = i
    <2>1. CASE replies'[e] = replies[e]
      BY <1>9, <2>1 DEF OrderInv, RepliesInOrder
    <2>2. CASE e = c /\ link[c] = "open"
      <3>1. replies'[e] = s
        BY <1>4, <1>5, <2>2
      <3>2. CASE i = a + 1
        BY <1>1, <1>6, <1>7, <2>2, <3>1, <3>2
      <3>3. CASE i \in 1..a
        BY <1>2, <1>6, <2>2, <3>1, <3>3 DEF OrderInv, RepliesInOrder
      <3>4. QED BY <1>3, <1>6, <3>1, <3>2, <3>3
    <2>3. QED BY <1>4, <2>1, <2>2
  <1>10. QED BY <1>8, <1>9 DEF RepliesInOrder

LEMMA OrderStep ==
  ASSUME OrderInv, [Next]_vars
  PROVE  RepliesInOrder' /\ \A c \in Clients : link'[c] = "open" => Numbered(c)'
  <1> DEFINE Goal == /\ RepliesInOrder'
                     /\ \A e \in Clients : link'[e] = "open" => Numbered(e)'
  <1>0. /\ link \in [Clients -> {"none", "connecting", "open", "closed"}]
        /\ sent \in [Clients -> 0..MaxCommands]
        /\ inbox \in [Clients -> Seq(Commands)]
        /\ batch \in [Clients -> Seq(Commands)]
        /\ busy \in [Clients -> [n : 1..MaxCommands, via : CardChannels] \cup {None}]
        /\ replies \in [Clients -> Seq([to : 1..MaxCommands, by : CardChannels \cup {None}])]
    BY DEF OrderInv, AliveInv, TypeOK
  <1>1. ASSUME UNCHANGED <<sent, inbox, batch, busy, replies>>,
               \A e \in Clients : link'[e] = "open" => link[e] = "open"
        PROVE  Goal
    <2>1. RepliesInOrder'
      BY <1>1 DEF OrderInv, RepliesInOrder
    <2>2. QED BY <1>1, <2>1, KeepsNumbered
  <1>2. ASSUME NEW c \in Clients, ConnectEnds(c, "open") PROVE Goal
    <2>1. RepliesInOrder'
      BY <1>2 DEF ConnectEnds, workerVars, OrderInv, RepliesInOrder
    <2>2. Unused(c)
      BY <1>2 DEF ConnectEnds, OrderInv, AliveInv, FreshOK
    <2>3. Unused(c)'
      BY <1>2, <2>2 DEF ConnectEnds, workerVars, Unused
    <2>4. Numbered(c)'
      BY <2>3 DEF Unused, Numbered, Taken
    <2>5. \A e \in Clients : e # c => link'[e] = link[e]
      BY <1>0, <1>2 DEF ConnectEnds
    <2>6. UNCHANGED <<sent, inbox, batch, busy, replies>>
      BY <1>2 DEF ConnectEnds, workerVars
    <2>7. \A e \in Clients : e # c => (link'[e] = "open" => Numbered(e)')
      BY <2>5, <2>6, KeepsNumbered
    <2>8. QED BY <2>1, <2>4, <2>7
  <1>3. ASSUME NEW c \in Clients, RepliesInOrder', link'[c] = "open" => Numbered(c)',
               \A e \in Clients : e # c =>
                 /\ link'[e] = link[e] /\ sent'[e] = sent[e] /\ inbox'[e] = inbox[e]
                 /\ batch'[e] = batch[e] /\ busy'[e] = busy[e] /\ replies'[e] = replies[e]
        PROVE  Goal
    <2>1. \A e \in Clients : e # c => (link'[e] = "open" => Numbered(e)')
      BY <1>3, KeepsNumbered
    <2>2. QED BY <1>3, <2>1
  <1>4. ASSUME UNCHANGED replies PROVE RepliesInOrder'
    BY <1>4 DEF OrderInv, RepliesInOrder
  <1>5. ASSUME NEW c \in Clients, NEW ok \in BOOLEAN, ServerSends(c, ok) PROVE Goal
    <2>1. Numbered(c)' /\ RepliesInOrder'
      BY <1>4, <1>5, SendsNumbered DEF ServerSends, workerVars
    <2>2. QED BY <1>0, <1>3, <1>5, <2>1 DEF ServerSends, workerVars
  <1>6. ASSUME NEW c \in Clients, NEW k \in 1..Len(inbox[c]), Read(c, k) PROVE Goal
    <2>1. Numbered(c)' /\ RepliesInOrder'
      BY <1>4, <1>6, ReadNumbered DEF Read
    <2>2. QED BY <1>0, <1>3, <1>6, <2>1 DEF Read
  <1>7. ASSUME NEW c \in Clients, Transmit(c) PROVE Goal
    <2>1. RepliesInOrder' /\ link' = link
      BY <1>4, <1>7 DEF Transmit
    <2>2. link'[c] = "open" => Numbered(c)'
      BY <1>7, <2>1, TransmitNumbered
    <2>3. QED BY <1>0, <1>3, <1>7, <2>1, <2>2 DEF Transmit
  <1>8. ASSUME NEW c \in Clients, HandlerFails(c) PROVE Goal
    <2>1. RepliesInOrder' /\ link'[c] = "closed"
      BY <1>0, <1>4, <1>8 DEF HandlerFails
    <2>2. QED BY <1>0, <1>3, <1>8, <2>1 DEF HandlerFails
  <1>9. ASSUME NEW c \in Clients, busy[c] # None, NEW by \in CardChannels \cup {None},
               Respond(c, by)
        PROVE  Goal
    <2>1. RepliesInOrder' /\ link' = link /\ (link[c] = "open" => Numbered(c)')
      BY <1>9, RespondNumbered DEF Respond
    <2>2. QED BY <1>0, <1>3, <1>9, <2>1 DEF Respond
  <1>10. ASSUME NEW c \in Clients, CardAnswers(c) PROVE Goal
    <2>1. busy[c].via \in CardChannels
      BY <1>0, <1>10 DEF CardAnswers
    <2>2. QED BY <1>9, <1>10, <2>1 DEF CardAnswers
  <1>11. ASSUME NEW c \in Clients, CardFails(c) PROVE Goal
    BY <1>9, <1>11 DEF CardFails
  <1>12. ASSUME NEW r \in Readers,
                InsertCard(r) \/ RemoveCard(r) \/ OpenCard(r) \/ OpenCardFails(r)
         PROVE  Goal
    BY <1>1, <1>12 DEF InsertCard, RemoveCard, OpenCard, OpenCardFails, workerVars
  <1>13. ASSUME BadPort \/ ConnectReturns \/ StopReturns \/ UNCHANGED vars PROVE Goal
    BY <1>1, <1>13 DEF BadPort, ConnectReturns, StopReturns, vars, workerVars
  <1>14. ASSUME StartClient \/ PressDisconnect PROVE Goal
    <2>1. \A e \in Clients : link'[e] = "open" => link[e] = "open"
      BY <1>0, <1>14 DEF StartClient, PressDisconnect
    <2>2. QED BY <1>1, <1>14, <2>1 DEF StartClient, PressDisconnect, workerVars
  <1>15. ASSUME NEW c \in Clients, ServerCloses(c) \/ ConnectEnds(c, "closed") PROVE Goal
    <2>1. \A e \in Clients : link'[e] = "open" => link[e] = "open"
      BY <1>0, <1>15 DEF ServerCloses, ConnectEnds
    <2>2. QED BY <1>1, <1>15, <2>1 DEF ServerCloses, ConnectEnds, workerVars
  <1>16. QED
    <2> HIDE DEF Goal
    <2>1. Goal
      BY <1>2, <1>5, <1>6, <1>7, <1>8, <1>10, <1>11, <1>12, <1>13, <1>14, <1>15
      DEF Next, Gui, Environment, Worker
    <2>2. QED BY <2>1 DEF Goal

(* Replies in order, and the commands of an open connection in their queues. *)
THEOREM OrderInvariant == Spec => []OrderInv
  <1>1. Init => OrderInv
    <2> SUFFICES ASSUME Init PROVE OrderInv
      OBVIOUS
    <2>1. AliveInv
      BY AliveInit
    <2>2. RepliesInOrder /\ \A c \in Clients : link[c] # "open"
      BY DEF Init, RepliesInOrder
    <2>3. QED BY <2>1, <2>2 DEF OrderInv
  <1>2. OrderInv /\ [Next]_vars => OrderInv'
    <2> SUFFICES ASSUME OrderInv, [Next]_vars PROVE OrderInv'
      OBVIOUS
    <2>1. AliveInv'
      BY TypeStep, AliveStep DEF OrderInv, AliveInv
    <2>2. QED BY <2>1, OrderStep DEF OrderInv
  <1>3. QED BY <1>1, <1>2, PTL DEF Spec

(* The i-th reply of a connection answers its i-th command, whatever the card, the
   user and the network do: a command that fails, or is cut off by the end of the
   connection, never shifts the answers of the others. *)
THEOREM RepliesAreInOrder == Spec => []RepliesInOrder
  <1>1. OrderInv => RepliesInOrder
    BY DEF OrderInv
  <1>2. QED BY OrderInvariant, <1>1, PTL

-----------------------------------------------------------------------------
(* The connector implements the card service. *)

(* Every client up to the latest one has begun to connect. *)
BegunInv == \A c \in Clients : c <= client => link[c] # "none"

ServiceInv == OrderInv /\ BegunInv

LEMMA BegunStep ==
  ASSUME TypeOK, BegunInv, [Next]_vars
  PROVE  BegunInv'
  <1>1. /\ client \in Nat /\ Clients \subseteq Nat
        /\ link \in [Clients -> {"none", "connecting", "open", "closed"}]
    BY ConnectorAssumption DEF TypeOK, Clients
  <1>2. CASE StartClient
    <2>1. client' = client + 1 /\ client + 1 \in Clients
      BY <1>1, <1>2, ConnectorAssumption DEF StartClient, Clients
    <2>2. \A c \in Clients : c <= client' => c = client + 1 \/ c <= client
      BY <1>1, <2>1
    <2>3. \A c \in Clients : link'[c] = IF c = client + 1 THEN "connecting" ELSE link[c]
      BY <1>1, <1>2, <2>1 DEF StartClient
    <2>4. QED BY <2>2, <2>3 DEF BegunInv
  <1>3. ASSUME UNCHANGED client, \A c \in Clients : link'[c] = "none" => link[c] = "none"
        PROVE  BegunInv'
    BY <1>3 DEF BegunInv
  <1>4. ASSUME NEW r \in Readers,
               InsertCard(r) \/ RemoveCard(r) \/ OpenCard(r) \/ OpenCardFails(r)
        PROVE  BegunInv'
    BY <1>3, <1>4 DEF InsertCard, RemoveCard, OpenCard, OpenCardFails, guiVars
  <1>5. CASE BadPort \/ ConnectReturns \/ StopReturns \/ UNCHANGED vars
    BY <1>3, <1>5 DEF BadPort, ConnectReturns, StopReturns, vars, guiVars
  <1>6. CASE PressDisconnect
    BY <1>1, <1>3, <1>6 DEF PressDisconnect
  <1>7. ASSUME NEW c \in Clients, NEW o \in {"open", "closed"}, ConnectEnds(c, o)
        PROVE  BegunInv'
    BY <1>1, <1>3, <1>7 DEF ConnectEnds, guiVars
  <1>8. ASSUME NEW c \in Clients, NEW ok \in BOOLEAN, ServerSends(c, ok) PROVE BegunInv'
    BY <1>3, <1>8 DEF ServerSends, guiVars
  <1>9. ASSUME NEW c \in Clients, ServerCloses(c) \/ HandlerFails(c) PROVE BegunInv'
    BY <1>1, <1>3, <1>9 DEF ServerCloses, HandlerFails, guiVars
  <1>10. ASSUME NEW c \in Clients, NEW k \in 1..Len(inbox[c]), Read(c, k) PROVE BegunInv'
    BY <1>3, <1>10 DEF Read, guiVars
  <1>11. ASSUME NEW c \in Clients, Transmit(c) \/ CardAnswers(c) \/ CardFails(c)
         PROVE  BegunInv'
    BY <1>3, <1>11 DEF Transmit, CardAnswers, CardFails, Respond, guiVars
  <1>12. QED
    BY <1>2, <1>4, <1>5, <1>6, <1>7, <1>8, <1>9, <1>10, <1>11
    DEF Next, Gui, Environment, Worker

LEMMA ServiceInvariant == Spec => []ServiceInv
  <1>1. Init => BegunInv
    BY ConnectorAssumption DEF Init, BegunInv, Clients
  <1>2. OrderInv /\ BegunInv /\ [Next]_vars => BegunInv'
    BY BegunStep DEF OrderInv, AliveInv
  <1>3. QED BY OrderInvariant, <1>1, <1>2, PTL DEF Spec, ServiceInv

-----------------------------------------------------------------------------
(* Only a connection that has begun and is not quite over is alive. *)
LEMMA AliveMeans ==
  ASSUME NEW c \in Clients
  PROVE  /\ StateOf(c) = "alive" <=> link[c] # "none" /\ ~(link[c] = "closed" /\ Quiet(c))
         /\ StateOf(c) = "over" <=> link[c] = "closed" /\ Quiet(c)
         /\ StateOf(c) \in {"fresh", "alive", "over"}
  <1>1. CASE link[c] = "none"
    BY <1>1 DEF StateOf
  <1>2. CASE link[c] # "none" /\ link[c] = "closed" /\ Quiet(c)
    BY <1>2 DEF StateOf
  <1>3. CASE link[c] # "none" /\ ~(link[c] = "closed" /\ Quiet(c))
    BY <1>3 DEF StateOf
  <1>4. QED BY <1>1, <1>2, <1>3

(* A step of one connection by which nothing is asked or answered. *)
LEMMA FinishOrStutter ==
  ASSUME UNCHANGED <<sent, replies, opened>>, NEW c \in Clients,
         \A d \in Clients : d # c => StateOf(d)' = StateOf(d),
         StateOf(c)' = StateOf(c) \/ (StateOf(c) = "alive" /\ StateOf(c)' = "over")
  PROVE  [Service!Next]_Service!vars
  <1>1. PICK S, T : S = [d \in Clients |-> StateOf(d)] /\ T = [d \in Clients |-> StateOf(d)']
    OBVIOUS
  <1>2. CASE StateOf(c)' = StateOf(c)
    <2>1. T = S
      BY <1>1, <1>2
    <2>2. QED BY <1>1, <2>1 DEF Service!vars
  <1>3. CASE StateOf(c) = "alive" /\ StateOf(c)' = "over"
    <2>1. T = [S EXCEPT ![c] = "over"] /\ S[c] = "alive"
      BY <1>1, <1>3
    <2>2. Service!Finish(c)
      BY <1>1, <2>1 DEF Service!Finish
    <2>3. QED BY <2>2 DEF Service!Next
  <1>4. QED BY <1>2, <1>3

(* A step that touches at most the queues and the state of connection c, which
   had begun. *)
LEMMA LocalStep ==
  ASSUME TypeOK, UNCHANGED <<sent, replies, opened>>, NEW c \in Clients,
         \A d \in Clients : d # c =>
           link'[d] = link[d] /\ batch'[d] = batch[d] /\ busy'[d] = busy[d],
         StateOf(c) = "alive" \/ StateOf(c)' = StateOf(c),
         link'[c] # "none",
         link[c] = "closed" => link'[c] = "closed"
  PROVE  [Service!Next]_Service!vars
  <1>1. \A d \in Clients : d # c => StateOf(d)' = StateOf(d)
    BY DEF StateOf, Quiet
  <1>2. StateOf(c)' = StateOf(c) \/ (StateOf(c) = "alive" /\ StateOf(c)' = "over")
    BY DEF StateOf
  <1>3. QED BY <1>1, <1>2, FinishOrStutter

(* A step that changes nothing the service shows. *)
LEMMA StutterStep ==
  ASSUME UNCHANGED <<link, batch, busy, sent, replies, opened>>
  PROVE  [Service!Next]_Service!vars
  <1>1. \A d \in Clients : StateOf(d)' = StateOf(d)
    BY DEF StateOf, Quiet
  <1>2. QED BY <1>1 DEF Service!vars

(* A session starts. *)
LEMMA StartStep ==
  ASSUME ServiceInv, StartClient
  PROVE  Service!Next
  <1>1. PICK c : c = client + 1
    OBVIOUS
  <1>2. PICK S, T : S = [d \in Clients |-> StateOf(d)] /\ T = [d \in Clients |-> StateOf(d)']
    OBVIOUS
  <1>3. PICK H, G : H = [d \in Clients |-> opened[d].by] /\ G = [d \in Clients |-> opened'[d].by]
    OBVIOUS
  <1>4. /\ TypeOK /\ ControlOK /\ FreshOK /\ OnlyOneAlive
        /\ client \in Nat /\ cardChannel \in CardChannels \cup {None}
    <2>1. TypeOK /\ ControlOK /\ FreshOK /\ OnlyOneAlive
      BY DEF ServiceInv, OrderInv, AliveInv
    <2>2. client \in 0..MaxClients /\ cardChannel \in CardChannels \cup {None}
      BY <2>1 DEF TypeOK
    <2>3. QED BY <2>1, <2>2, ConnectorAssumption
  <1>5. c \in Clients /\ c > client
    BY <1>1, <1>4, ConnectorAssumption DEF StartClient, Clients
  <1>6. link[c] = "none" /\ gui = "connect" /\ edt = "terminal"
    BY <1>4, <1>5 DEF FreshOK, StartClient, ControlOK
  <1>7. \A d \in Clients : Quiet(d)
    BY <1>4, <1>6 DEF OnlyOneAlive
  <1>8. \A d \in Clients : S[d] # "alive"
    BY <1>2, <1>7, AliveMeans DEF Quiet
  <1>9. S[c] = "fresh"
    BY <1>2, <1>5, <1>6 DEF StateOf
  <1>10. T = [S EXCEPT ![c] = "alive"]
    <2>1. \A d \in Clients : link'[d] = IF d = c THEN "connecting" ELSE link[d]
      BY <1>1, <1>4, <1>5 DEF StartClient, TypeOK
    <2>2. StateOf(c)' = "alive"
      BY <1>5, <2>1 DEF StateOf
    <2>3. \A d \in Clients : d # c => StateOf(d)' = StateOf(d)
      BY <2>1 DEF StateOf, Quiet, StartClient, workerVars
    <2>4. QED BY <1>2, <1>5, <2>2, <2>3
  <1>11. G = [H EXCEPT ![c] = cardChannel]
    <2>1. \A d \in Clients :
            opened'[d].by = IF d = c THEN cardChannel ELSE opened[d].by
      BY <1>1, <1>4, <1>5 DEF StartClient, TypeOK
    <2>2. QED BY <1>3, <1>5, <2>1
  <1>12. PICK k \in CardChannels \cup {None} : k = cardChannel
    BY <1>4
  <1>13. Service!Start(c, k)
    <2>1. sent' = sent /\ replies' = replies
      BY DEF StartClient, workerVars
    <2>2. /\ S[c] = "fresh" /\ \A t \in Clients : S[t] # "alive"
          /\ T = [S EXCEPT ![c] = "alive"] /\ G = [H EXCEPT ![c] = k]
      BY <1>8, <1>9, <1>10, <1>11, <1>12
    <2>3. QED BY <1>2, <1>3, <2>1, <2>2 DEF Service!Start
  <1>14. QED BY <1>5, <1>13 DEF Service!Next

(* A session is given a command. *)
LEMMA AskStep ==
  ASSUME ServiceInv, NEW c \in Clients, NEW ok \in BOOLEAN, ServerSends(c, ok)
  PROVE  Service!Next
  <1>1. PICK S, T : S = [d \in Clients |-> StateOf(d)] /\ T = [d \in Clients |-> StateOf(d)']
    OBVIOUS
  <1>2. \A d \in Clients : StateOf(d)' = StateOf(d)
    BY DEF StateOf, Quiet, ServerSends, workerVars
  <1>3. T = S /\ S[c] = "alive"
    BY <1>1, <1>2, AliveMeans DEF ServerSends
  <1>4. Service!Ask(c)
    BY <1>1, <1>3 DEF Service!Ask, ServerSends, guiVars, workerVars
  <1>5. QED BY <1>4 DEF Service!Next

(* A session answers, or its worker finds the connection closed. *)
LEMMA AnswerStep ==
  ASSUME ServiceInv, NEW c \in Clients, busy[c] # None,
         NEW by \in {None, busy[c].via}, Respond(c, by)
  PROVE  [Service!Next]_Service!vars
  <1>1. /\ TypeOK /\ FreshOK /\ ServedOK /\ opened' = opened /\ sent' = sent /\ link' = link
        /\ (link[c] = "open" => Numbered(c))
    BY DEF ServiceInv, OrderInv, AliveInv, Respond, guiVars
  <1>2. link[c] \in {"open", "closed"}
    BY <1>1 DEF FreshOK, Unused, TypeOK
  <1>3. \A d \in Clients : d # c => batch'[d] = batch[d] /\ busy'[d] = busy[d]
    BY <1>1 DEF Respond, TypeOK
  <1>4. CASE link[c] = "closed"
    <2>1. replies' = replies
      BY <1>4 DEF Respond
    <2>2. StateOf(c) = "alive"
      BY <1>4, AliveMeans DEF Quiet
    <2>3. QED BY <1>1, <1>3, <1>4, <2>1, <2>2, LocalStep
  <1>5. CASE link[c] = "open"
    <2>1. PICK S, T : S = [d \in Clients |-> StateOf(d)] /\ T = [d \in Clients |-> StateOf(d)']
      OBVIOUS
    <2>2. StateOf(c) = "alive" /\ StateOf(c)' = "alive"
      BY <1>1, <1>5 DEF StateOf
    <2>3. \A d \in Clients : d # c => StateOf(d)' = StateOf(d)
      BY <1>1, <1>3 DEF StateOf, Quiet
    <2>4. T = S /\ S[c] = "alive"
      BY <2>1, <2>2, <2>3
    <2>5. busy[c].n = Len(replies[c]) + 1 /\ Len(replies[c]) < sent[c]
      <3>1. /\ Len(replies[c]) \in Nat /\ Len(batch[c]) \in Nat
            /\ Len(inbox[c]) \in Nat /\ sent[c] \in Nat
        BY <1>1, QueueTypes
      <3>2. sent[c] = Len(replies[c]) + 1 + Len(batch[c]) + Len(inbox[c])
        BY <1>1, <1>5 DEF Numbered, Taken
      <3>3. \A a, x, y, s \in Nat : s = a + 1 + x + y => a < s
        OBVIOUS
      <3>4. QED BY <1>1, <1>5, <3>1, <3>2, <3>3 DEF Numbered
    <2>6. busy[c].via = opened[c].by /\ busy[c].via \in CardChannels
      BY <1>1 DEF ServedOK, TypeOK
    <2>7. replies' = [replies EXCEPT ![c] = Append(@, [to |-> Len(replies[c]) + 1, by |-> by])]
      BY <1>5, <2>5 DEF Respond
    <2>8. by \in {None, opened[c].by} /\ by \in CardChannels \cup {None}
      BY <2>6
    <2>9. Service!Answer(c, by)
      BY <1>1, <2>1, <2>4, <2>5, <2>7, <2>8 DEF Service!Answer
    <2>10. QED BY <2>8, <2>9 DEF Service!Next
  <1>6. QED BY <1>2, <1>4, <1>5

-----------------------------------------------------------------------------
(* The connector implements the card service: sessions one at a time, each bound
   to one card channel, every command answered at most once, in order and by that
   channel or with nothing, whenever user, card, network and server interfere. *)
THEOREM ServiceIsImplemented == Spec => CardServiceImplemented
  <1>1. Init => Service!Init
    <2> SUFFICES ASSUME Init PROVE Service!Init
      OBVIOUS
    <2>1. \A c \in Clients : StateOf(c) = "fresh" /\ opened[c].by = None
      BY DEF Init, StateOf
    <2>2. QED BY <2>1 DEF Init, Service!Init
  <1>2. ServiceInv /\ [Next]_vars => [Service!Next]_Service!vars
    <2> SUFFICES ASSUME ServiceInv, [Next]_vars PROVE [Service!Next]_Service!vars
      OBVIOUS
    <2> DEFINE Goal == [Service!Next]_Service!vars
    <2>0. /\ TypeOK /\ ControlOK /\ FreshOK /\ BegunInv
          /\ link \in [Clients -> {"none", "connecting", "open", "closed"}]
          /\ batch \in [Clients -> Seq(Commands)]
          /\ busy \in [Clients -> [n : 1..MaxCommands, via : CardChannels] \cup {None}]
      BY DEF ServiceInv, OrderInv, AliveInv, TypeOK
    <2>1. ASSUME NEW r \in Readers,
                 InsertCard(r) \/ RemoveCard(r) \/ OpenCard(r) \/ OpenCardFails(r)
          PROVE  Goal
      BY <2>1, StutterStep DEF InsertCard, RemoveCard, OpenCard, OpenCardFails, guiVars, workerVars
    <2>2. ASSUME BadPort \/ ConnectReturns \/ StopReturns \/ UNCHANGED vars PROVE Goal
      BY <2>2, StutterStep DEF BadPort, ConnectReturns, StopReturns, vars, guiVars, workerVars
    <2>3. ASSUME StartClient PROVE Goal
      BY <2>3, StartStep
    <2>4. ASSUME PressDisconnect PROVE Goal
      <3>1. client \in Clients /\ client <= client
        BY <2>0, <2>4, ConnectorAssumption DEF PressDisconnect, ControlOK, Clients
      <3>2. PICK c \in Clients : c = client
        BY <3>1
      <3>3. link[c] # "none" /\ link'[c] = "closed"
        BY <2>0, <2>4, <3>1, <3>2 DEF BegunInv, PressDisconnect
      <3>4. /\ \A d \in Clients : d # c => link'[d] = link[d]
            /\ UNCHANGED <<batch, busy, sent, replies, opened>>
        BY <2>0, <2>4, <3>2 DEF PressDisconnect, workerVars
      <3>5. StateOf(c) = "alive" \/ StateOf(c)' = StateOf(c)
        <4>1. CASE link[c] = "closed" /\ Quiet(c)
          <5>1. link'[c] = link[c] /\ batch'[c] = batch[c] /\ busy'[c] = busy[c]
            BY <3>3, <3>4, <4>1
          <5>2. QED BY <5>1 DEF StateOf, Quiet
        <4>2. CASE ~(link[c] = "closed" /\ Quiet(c))
          BY <3>3, <4>2, AliveMeans
        <4>3. QED BY <4>1, <4>2
      <3>6. QED BY <2>0, <3>3, <3>4, <3>5, LocalStep
    <2>5. ASSUME NEW c \in Clients, NEW o \in {"open", "closed"}, ConnectEnds(c, o)
          PROVE  Goal
      <3>1. StateOf(c) = "alive" /\ link'[c] = o /\ link[c] = "connecting"
        BY <2>0, <2>5, AliveMeans DEF ConnectEnds
      <3>2. /\ \A d \in Clients : d # c => link'[d] = link[d]
            /\ UNCHANGED <<batch, busy, sent, replies, opened>>
        BY <2>0, <2>5 DEF ConnectEnds, guiVars, workerVars
      <3>3. QED BY <2>0, <3>1, <3>2, LocalStep
    <2>6. ASSUME NEW c \in Clients, NEW ok \in BOOLEAN, ServerSends(c, ok) PROVE Goal
      BY <2>6, AskStep
    <2>7. ASSUME NEW c \in Clients, ServerCloses(c) PROVE Goal
      <3>1. StateOf(c) = "alive" /\ link'[c] = "closed"
        BY <2>0, <2>7, AliveMeans DEF ServerCloses
      <3>2. /\ \A d \in Clients : d # c => link'[d] = link[d]
            /\ UNCHANGED <<batch, busy, sent, replies, opened>>
        BY <2>0, <2>7 DEF ServerCloses, guiVars, workerVars
      <3>3. QED BY <2>0, <3>1, <3>2, LocalStep
    <2>8. ASSUME NEW c \in Clients, NEW k \in 1..Len(inbox[c]), Read(c, k) PROVE Goal
      <3>1. StateOf(c) = "alive" /\ link' = link /\ link[c] = "open"
        BY <2>8, AliveMeans DEF Read
      <3>2. /\ \A d \in Clients : d # c => batch'[d] = batch[d]
            /\ UNCHANGED <<busy, sent, replies, opened>>
        BY <2>0, <2>8 DEF Read, guiVars
      <3>3. QED BY <2>0, <3>1, <3>2, LocalStep
    <2>9. ASSUME NEW c \in Clients, Transmit(c) \/ HandlerFails(c) PROVE Goal
      <3>1. link[c] # "none" /\ batch[c] # << >> /\ StateOf(c) = "alive"
        BY <2>0, <2>9, AliveMeans DEF Transmit, HandlerFails, FreshOK, Unused, Quiet
      <3>2. /\ link'[c] # "none" /\ (link[c] = "closed" => link'[c] = "closed")
            /\ \A d \in Clients : d # c =>
                 link'[d] = link[d] /\ batch'[d] = batch[d] /\ busy'[d] = busy[d]
            /\ UNCHANGED <<sent, replies, opened>>
        BY <2>0, <2>9, <3>1 DEF Transmit, HandlerFails, guiVars
      <3>3. QED BY <2>0, <3>1, <3>2, LocalStep
    <2>10. ASSUME NEW c \in Clients, CardAnswers(c) \/ CardFails(c) PROVE Goal
      BY <2>10, AnswerStep DEF CardAnswers, CardFails
    <2>11. QED
      <3> HIDE DEF Goal
      <3>1. Goal
        BY <2>1, <2>2, <2>3, <2>4, <2>5, <2>6, <2>7, <2>8, <2>9, <2>10
        DEF Next, Gui, Environment, Worker
      <3>2. QED BY <3>1 DEF Goal
  <1>3. QED
    BY <1>1, <1>2, ServiceInvariant, PTL DEF Spec, CardServiceImplemented, Service!Spec

=============================================================================
