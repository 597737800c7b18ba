--------------------- MODULE WebTerminal_pairing_proofs ----------------------
(***************************************************************************)
(* What a transcript shows of commands and replies.  A reply stands after  *)
(* its command unless two adds overlapped, and patient clients never make  *)
(* two adds overlap.  And if clients take turns, and no two adds           *)
(* overlapped, the k-th reply is the reply to the k-th command.  Three     *)
(* counts give that: replies leave the connector in the order of the       *)
(* commands (OrderInv), frames enter the transcript in the order they come *)
(* in, and commands are written in the order they were recorded (Tallied), *)
(* because only one is on its way at a time and none is recorded and then  *)
(* lost while the connection lasts.                                        *)
(***************************************************************************)
EXTENDS WebTerminal_proofs, TerminalServer_transcript_proofs, FiniteSetTheorems

(* A connection that is not established has seen nothing. *)
Unused(c) ==
  /\ sent[c] = 0 /\ inbox[c] = << >> /\ batch[c] = << >>
  /\ busy[c] = None /\ replies[c] = << >>

Fresh ==
  \A c \in C!Clients :
    /\ c > client => link[c] = "none"
    /\ link[c] \in {"none", "connecting"} => Unused(c)

(* How many commands of connection c the worker has taken up. *)
Taken(c) == Len(replies[c]) + (IF busy[c] = None THEN 0 ELSE 1)

(* The commands of connection c are somewhere on their way, in their order. *)
Queued(c) ==
  /\ busy[c] # None => busy[c].n = Len(replies[c]) + 1
  /\ \A i \in 1..Len(batch[c]) : batch[c][i].n = Taken(c) + i
  /\ \A i \in 1..Len(inbox[c]) : inbox[c][i].n = Taken(c) + Len(batch[c]) + i
  /\ sent[c] = Taken(c) + Len(batch[c]) + Len(inbox[c])

OrderInv ==
  /\ C!TypeOK /\ Fresh /\ C!RepliesInOrder
  /\ \A c \in C!Clients : link[c] = "open" => Queued(c)

LEMMA QueuesTyped ==
  ASSUME C!TypeOK, NEW c \in C!Clients
  PROVE  /\ Len(replies[c]) \in Nat /\ Taken(c) \in Nat
         /\ batch[c] \in Seq(C!Commands) /\ Len(batch[c]) \in Nat
         /\ inbox[c] \in Seq(C!Commands) /\ Len(inbox[c]) \in Nat
         /\ sent[c] \in Nat
  <1>1. /\ replies[c] \in Seq([to : 1..MaxCommands, by : C!CardChannels \cup {None}])
        /\ batch[c] \in Seq(C!Commands) /\ inbox[c] \in Seq(C!Commands)
        /\ sent[c] \in 0..MaxCommands
    BY DEF C!TypeOK
  <1>2. Len(replies[c]) \in Nat /\ Len(batch[c]) \in Nat /\ Len(inbox[c]) \in Nat
    BY <1>1
  <1>3. Taken(c) \in Nat
    <2>1. \A l \in Nat : l + 0 \in Nat /\ l + 1 \in Nat
      OBVIOUS
    <2>2. CASE busy[c] = None
      BY <1>2, <2>1, <2>2 DEF Taken
    <2>3. CASE busy[c] # None
      BY <1>2, <2>1, <2>3 DEF Taken
    <2>4. QED BY <2>2, <2>3
  <1>4. QED BY <1>1, <1>2, <1>3

(* A step that leaves the queues of a connection alone, and does not open it. *)
LEMMA KeepsQueued ==
  ASSUME OrderInv, NEW c \in C!Clients, link'[c] = "open" => link[c] = "open",
         link'[c] = "open" =>
           /\ sent'[c] = sent[c] /\ inbox'[c] = inbox[c] /\ batch'[c] = batch[c]
           /\ busy'[c] = busy[c] /\ replies'[c] = replies[c]
  PROVE  link'[c] = "open" => Queued(c)'
  BY DEF OrderInv, Queued, Taken

LEMMA SendsQueued ==
  ASSUME OrderInv, NEW c \in C!Clients, NEW ok \in BOOLEAN, C!ServerSends(c, ok)
  PROVE  Queued(c)'
  <1>1. PICK x : x = [n |-> sent[c] + 1, wellFormed |-> ok]
    OBVIOUS
  <1>2. x.n = sent[c] + 1
    BY <1>1
  <1>3. inbox'[c] = Append(inbox[c], x) /\ sent'[c] = sent[c] + 1
    BY <1>1 DEF C!ServerSends, OrderInv, C!TypeOK
  <1>4. UNCHANGED <<batch, busy, replies>>
    BY DEF C!ServerSends, C!workerVars
  <1>5. PICK t, d : t = Taken(c) /\ d = Len(batch[c])
    OBVIOUS
  <1>6. Taken(c)' = t /\ Len(batch[c])' = d
    BY <1>4, <1>5 DEF Taken
  <1>7. /\ inbox[c] \in Seq(C!Commands) /\ Len(inbox[c]) \in Nat /\ t \in Nat /\ d \in Nat
        /\ sent[c] \in Nat
    BY <1>5, QueuesTyped DEF OrderInv
  <1>8. Queued(c)
    BY DEF OrderInv, C!ServerSends
  <1>9. /\ Len(inbox'[c]) = Len(inbox[c]) + 1 /\ inbox'[c][Len(inbox[c]) + 1] = x
        /\ \A i \in 1..Len(inbox[c]) : inbox'[c][i] = inbox[c][i]
    BY <1>3, <1>7
  <1>10. sent[c] = t + d + Len(inbox[c])
    BY <1>5, <1>8 DEF Queued
  <1>11. \A i \in 1..Len(inbox[c]) : inbox[c][i].n = t + d + i
    BY <1>5, <1>8 DEF Queued
  <1>12. \A i \in 1..Len(inbox'[c]) : inbox'[c][i].n = t + d + i
    <2> SUFFICES ASSUME NEW i \in 1..Len(inbox'[c]) PROVE inbox'[c][i].n = t + d + i
      OBVIOUS
    <2>1. CASE i \in 1..Len(inbox[c])
      BY <1>9, <1>11, <2>1
    <2>2. CASE i = Len(inbox[c]) + 1
      <3>1. inbox'[c][i].n = t + d + Len(inbox[c]) + 1
        BY <1>2, <1>9, <1>10, <2>2
      <3>2. t + d + Len(inbox[c]) + 1 = t + d + i
        <4>1. \A l \in Nat : t + d + l + 1 = t + d + (l + 1)
          BY <1>7
        <4>2. QED BY <1>7, <2>2, <4>1
      <3>3. QED BY <3>1, <3>2
    <2>3. QED BY <1>7, <1>9, <2>1, <2>2
  <1>13. sent'[c] = t + d + Len(inbox'[c])
    <2>1. sent'[c] = t + d + Len(inbox[c]) + 1 /\ Len(inbox'[c]) = Len(inbox[c]) + 1
      BY <1>3, <1>9, <1>10
    <2>2. \A l \in Nat : t + d + l + 1 = t + d + (l + 1)
      BY <1>7
    <2>3. QED BY <1>7, <2>1, <2>2
  <1>14. /\ busy'[c] # None => busy'[c].n = Len(replies'[c]) + 1
         /\ \A i \in 1..Len(batch'[c]) : batch'[c][i].n = t + i
    BY <1>4, <1>5, <1>8 DEF Queued
  <1>15. QED BY <1>6, <1>12, <1>13, <1>14 DEF Queued

LEMMA ReadQueued ==
  ASSUME OrderInv, NEW c \in C!Clients, NEW k \in 1..Len(inbox[c]), C!Read(c, k)
  PROVE  Queued(c)'
  <1>1. /\ batch'[c] = SubSeq(inbox[c], 1, k)
        /\ inbox'[c] = SubSeq(inbox[c], k + 1, Len(inbox[c]))
        /\ UNCHANGED <<sent, busy, replies>> /\ batch[c] = << >> /\ busy[c] = None
    BY DEF C!Read, OrderInv, C!TypeOK
  <1>2. PICK t, q, m : t = Taken(c) /\ q = inbox[c] /\ m = Len(inbox[c])
    OBVIOUS
  <1>3. q \in Seq(C!Commands) /\ m = Len(q) /\ m \in Nat /\ t \in Nat /\ k \in 1..m
    BY <1>2, QueuesTyped DEF OrderInv
  <1>4. Queued(c)
    BY DEF OrderInv, C!Read
  <1>5. (\A i \in 1..m : q[i].n = t + i) /\ sent[c] = t + m
    BY <1>1, <1>2, <1>3, <1>4 DEF Queued
  <1>6. \A i \in 1..m : q[i] \in C!Commands
    BY <1>3
  <1>7. Len(batch'[c]) = k /\ \A i \in 1..k : batch'[c][i] = q[i]
    <2>1. \A i \in 1..k : q[i] \in C!Commands
      BY <1>3, <1>6
    <2>2. batch'[c] = SubSeq(q, 1, k) /\ 1 \in Int /\ k \in Int /\ 1 <= k
      BY <1>1, <1>2, <1>3
    <2>3. /\ Len(SubSeq(q, 1, k)) = k - 1 + 1
          /\ \A i \in 1..k - 1 + 1 : SubSeq(q, 1, k)[i] = q[1 + i - 1]
      BY <2>1, <2>2, SubSeqProperties
    <2>4. QED BY <2>2, <2>3
  <1>8. Len(inbox'[c]) = m - k /\ \A i \in 1..m - k : inbox'[c][i] = q[k + i]
    <2>1. \A i \in k + 1..m : q[i] \in C!Commands
      BY <1>3, <1>6
    <2>2. inbox'[c] = SubSeq(q, k + 1, m) /\ k + 1 \in Int /\ m \in Int
      BY <1>1, <1>2, <1>3
    <2>3. /\ Len(SubSeq(q, k + 1, m)) = IF k + 1 <= m THEN m - (k + 1) + 1 ELSE 0
          /\ \A i \in 1..m - (k + 1) + 1 : SubSeq(q, k + 1, m)[i] = q[(k + 1) + i - 1]
      BY <2>1, <2>2, SubSeqProperties
    <2>4. QED BY <1>3, <2>2, <2>3
  <1>9. Taken(c)' = t
    BY <1>1, <1>2 DEF Taken
  <1>10. \A i \in 1..k : batch'[c][i].n = t + i
    BY <1>3, <1>5, <1>7
  <1>11. \A i \in 1..m - k : inbox'[c][i].n = t + k + i
    <2>1. \A i \in 1..m - k : k + i \in 1..m /\ t + (k + i) = t + k + i
      BY <1>3
    <2>2. \A j \in 1..m : q[j].n = t + j
      BY <1>5
    <2>3. QED BY <1>8, <2>1, <2>2
  <1>12. sent'[c] = t + k + (m - k)
    <2>1. \A x, y, z \in Nat : x + y = x + z + (y - z)
      OBVIOUS
    <2>2. t + m = t + k + (m - k)
      BY <1>3, <2>1
    <2>3. QED BY <1>1, <1>5, <2>2
  <1>13. QED BY <1>1, <1>7, <1>8, <1>9, <1>10, <1>11, <1>12 DEF Queued

LEMMA TransmitQueued ==
  ASSUME OrderInv, NEW c \in C!Clients, C!Transmit(c), link[c] = "open"
  PROVE  Queued(c)'
  <1>1. /\ busy'[c] = [n |-> Head(batch[c]).n, via |-> cardChannel]
        /\ batch'[c] = Tail(batch[c]) /\ batch[c] # << >> /\ busy[c] = None
        /\ UNCHANGED <<sent, inbox, replies>> /\ cardChannel # None
    BY DEF C!Transmit, OrderInv, C!TypeOK
  <1>2. PICK a, q : a = Len(replies[c]) /\ q = batch[c]
    OBVIOUS
  <1>3. /\ q \in Seq(C!Commands) /\ q # << >> /\ a \in Nat /\ Len(inbox[c]) \in Nat
        /\ sent[c] \in Nat
    BY <1>1, <1>2, QueuesTyped DEF OrderInv
  <1>4. Len(q) \in Nat \ {0} /\ Head(q) = q[1] /\ Len(Tail(q)) = Len(q) - 1
        /\ \A i \in 1..Len(q) - 1 : Tail(q)[i] = q[i + 1]
    BY <1>3
  <1>5. Taken(c) = a
    BY <1>1, <1>2, <1>3 DEF Taken
  <1>6. Queued(c)
    BY DEF OrderInv
  <1>7. /\ \A i \in 1..Len(q) : q[i].n = a + i
        /\ \A i \in 1..Len(inbox[c]) : inbox[c][i].n = a + Len(q) + i
        /\ sent[c] = a + Len(q) + Len(inbox[c])
    BY <1>2, <1>5, <1>6 DEF Queued
  <1>8. busy'[c].n = a + 1
    BY <1>1, <1>2, <1>4, <1>7
  <1>9. busy'[c] # None
    <2>1. q[1] \in C!Commands /\ q[1] = Head(batch[c])
      BY <1>2, <1>3, <1>4
    <2>2. busy'[c] \in [n : 1..MaxCommands, via : C!CardChannels]
      BY <1>1, <2>1 DEF OrderInv, C!TypeOK, C!Commands
    <2>3. QED BY <2>2, NoneAssumption DEF C!CardChannels
  <1>10. Taken(c)' = a + 1
    BY <1>1, <1>2, <1>9 DEF Taken
  <1>11. \A i \in 1..Len(q) - 1 : batch'[c][i].n = a + 1 + i
    <2>1. \A i \in 1..Len(q) - 1 : i + 1 \in 1..Len(q) /\ a + (i + 1) = a + 1 + i
      BY <1>3, <1>4
    <2>2. \A i \in 1..Len(q) - 1 : batch'[c][i] = q[i + 1]
      BY <1>1, <1>2, <1>4
    <2>3. \A j \in 1..Len(q) : q[j].n = a + j
      BY <1>7
    <2>4. QED BY <2>1, <2>2, <2>3
  <1>12. Len(batch'[c]) = Len(q) - 1
    BY <1>1, <1>2, <1>4
  <1>13. \A i \in 1..Len(inbox'[c]) : inbox'[c][i].n = a + 1 + (Len(q) - 1) + i
    <2>1. \A i : i \in 1..Len(inbox[c]) => a + Len(q) + i = a + 1 + (Len(q) - 1) + i
      BY <1>3, <1>4
    <2>2. QED BY <1>1, <1>7, <2>1
  <1>14. sent'[c] = a + 1 + (Len(q) - 1) + Len(inbox'[c])
    <2>0. \A x, y, z \in Nat : x + y + z = x + 1 + (y - 1) + z
      OBVIOUS
    <2>1. a + Len(q) + Len(inbox[c]) = a + 1 + (Len(q) - 1) + Len(inbox[c])
      BY <1>3, <1>4, <2>0
    <2>2. QED BY <1>1, <1>7, <2>1
  <1>15. Len(replies'[c]) = a
    BY <1>1, <1>2
  <1>16. QED BY <1>8, <1>10, <1>11, <1>12, <1>13, <1>14, <1>15 DEF Queued

LEMMA RespondQueued ==
  ASSUME OrderInv, NEW c \in C!Clients, busy[c] # None,
         NEW by \in C!CardChannels \cup {None}, C!Respond(c, by)
  PROVE  C!RepliesInOrder' /\ (link[c] = "open" => Queued(c)')
  <1>1. PICK x : x = [to |-> busy[c].n, by |-> by]
    OBVIOUS
  <1>2. PICK a, q : a = Len(replies[c]) /\ q = replies[c]
    OBVIOUS
  <1>3. /\ q \in Seq([to : 1..MaxCommands, by : C!CardChannels \cup {None}])
        /\ x \in [to : 1..MaxCommands, by : C!CardChannels \cup {None}]
        /\ a \in Nat /\ Len(q) = a
    <2>1. busy[c].n \in 1..MaxCommands
      BY DEF OrderInv, C!TypeOK
    <2>2. q \in Seq([to : 1..MaxCommands, by : C!CardChannels \cup {None}])
      BY <1>2 DEF OrderInv, C!TypeOK
    <2>3. x \in [to : 1..MaxCommands, by : C!CardChannels \cup {None}]
      BY <1>1, <2>1
    <2>4. a \in Nat /\ Len(q) = a
      BY <1>2, <2>2
    <2>5. QED BY <2>2, <2>3, <2>4
  <1>4. /\ link[c] = "open" => replies'[c] = Append(q, x)
        /\ link[c] # "open" => replies' = replies
        /\ \A e \in C!Clients : e # c => replies'[e] = replies[e]
        /\ busy'[c] = None
        /\ UNCHANGED <<sent, inbox, batch>>
    BY <1>1, <1>2 DEF C!Respond, OrderInv, C!TypeOK
  <1>5. PICK s : s = Append(q, x)
    OBVIOUS
  <1>6. Len(s) = a + 1 /\ s[a + 1] = x /\ \A i \in 1..a : s[i] = q[i]
    BY <1>3, <1>5
  <1>7. link[c] = "open" => Queued(c) /\ busy[c].n = a + 1
    BY <1>2 DEF OrderInv, Queued
  <1>8. ASSUME link[c] = "open" PROVE Queued(c)'
    <2>1. Taken(c) = a + 1
      BY <1>2 DEF Taken
    <2>2. Taken(c)' = a + 1
      BY <1>3, <1>4, <1>5, <1>6, <1>8 DEF Taken
    <2>3. QED BY <1>4, <1>7, <1>8, <2>1, <2>2 DEF Queued
  <1>9. ASSUME NEW e \in C!Clients, NEW i \in 1..Len(replies'[e])
        PROVE  replies'[e][i].to = i
    <2>1. CASE replies'[e] = replies[e]
      BY <1>9, <2>1 DEF OrderInv, C!RepliesInOrder
    <2>2. CASE e = c /\ link[c] = "open"
      <3>1. replies'[e] = s
        BY <1>4, <1>5, <2>2
      <3>2. CASE i = a + 1
        BY <1>1, <1>6, <1>7, <2>2, <3>1, <3>2
      <3>3. CASE i \in 1..a
        BY <1>2, <1>6, <2>2, <3>1, <3>3 DEF OrderInv, C!RepliesInOrder
      <3>4. QED BY <1>3, <1>6, <3>1, <3>2, <3>3
    <2>3. QED BY <1>4, <2>1, <2>2
  <1>10. QED BY <1>8, <1>9 DEF C!RepliesInOrder

LEMMA OrderStep ==
  ASSUME OrderInv, [C!Next]_(C!vars)
  PROVE  C!RepliesInOrder' /\ \A c \in C!Clients : link'[c] = "open" => Queued(c)'
  <1> DEFINE Goal == /\ C!RepliesInOrder'
                     /\ \A e \in C!Clients : link'[e] = "open" => Queued(e)'
  <1>0. /\ link \in [C!Clients -> {"none", "connecting", "open", "closed"}]
        /\ sent \in [C!Clients -> 0..MaxCommands]
        /\ inbox \in [C!Clients -> Seq(C!Commands)]
        /\ batch \in [C!Clients -> Seq(C!Commands)]
        /\ busy \in [C!Clients -> [n : 1..MaxCommands, via : C!CardChannels] \cup {None}]
        /\ replies \in [C!Clients -> Seq([to : 1..MaxCommands, by : C!CardChannels \cup {None}])]
    BY DEF OrderInv, C!TypeOK
  <1>1. ASSUME UNCHANGED <<sent, inbox, batch, busy, replies>>,
               \A e \in C!Clients : link'[e] = "open" => link[e] = "open"
        PROVE  Goal
    <2>1. C!RepliesInOrder'
      BY <1>1 DEF OrderInv, C!RepliesInOrder
    <2>2. QED BY <1>1, <2>1, KeepsQueued
  <1>2. ASSUME NEW c \in C!Clients, C!ConnectEnds(c, "open") PROVE Goal
    <2>1. C!RepliesInOrder'
      BY <1>2 DEF C!ConnectEnds, C!workerVars, OrderInv, C!RepliesInOrder
    <2>2. Unused(c)
      BY <1>2 DEF C!ConnectEnds, OrderInv, Fresh
    <2>3. Unused(c)'
      BY <1>2, <2>2 DEF C!ConnectEnds, C!workerVars, Unused
    <2>4. Queued(c)'
      BY <2>3 DEF Unused, Queued, Taken
    <2>5. \A e \in C!Clients : e # c => link'[e] = link[e]
      BY <1>0, <1>2 DEF C!ConnectEnds
    <2>6. UNCHANGED <<sent, inbox, batch, busy, replies>>
      BY <1>2 DEF C!ConnectEnds, C!workerVars
    <2>7. \A e \in C!Clients : e # c => (link'[e] = "open" => Queued(e)')
      BY <2>5, <2>6, KeepsQueued
    <2>8. QED BY <2>1, <2>4, <2>7
  <1>3. ASSUME NEW c \in C!Clients, C!RepliesInOrder', link'[c] = "open" => Queued(c)',
               \A e \in C!Clients : e # c =>
                 /\ link'[e] = link[e] /\ sent'[e] = sent[e] /\ inbox'[e] = inbox[e]
                 /\ batch'[e] = batch[e] /\ busy'[e] = busy[e] /\ replies'[e] = replies[e]
        PROVE  Goal
    <2>1. \A e \in C!Clients : e # c => (link'[e] = "open" => Queued(e)')
      BY <1>3, KeepsQueued
    <2>2. QED BY <1>3, <2>1
  <1>4. ASSUME UNCHANGED replies PROVE C!RepliesInOrder'
    BY <1>4 DEF OrderInv, C!RepliesInOrder
  <1>5. ASSUME NEW c \in C!Clients, NEW ok \in BOOLEAN, C!ServerSends(c, ok) PROVE Goal
    <2>1. Queued(c)' /\ C!RepliesInOrder'
      BY <1>4, <1>5, SendsQueued DEF C!ServerSends, C!workerVars
    <2>2. QED BY <1>0, <1>3, <1>5, <2>1 DEF C!ServerSends, C!workerVars
  <1>6. ASSUME NEW c \in C!Clients, NEW k \in 1..Len(inbox[c]), C!Read(c, k) PROVE Goal
    <2>1. Queued(c)' /\ C!RepliesInOrder'
      BY <1>4, <1>6, ReadQueued DEF C!Read
    <2>2. QED BY <1>0, <1>3, <1>6, <2>1 DEF C!Read
  <1>7. ASSUME NEW c \in C!Clients, C!Transmit(c) PROVE Goal
    <2>1. C!RepliesInOrder' /\ link' = link
      BY <1>4, <1>7 DEF C!Transmit
    <2>2. link'[c] = "open" => Queued(c)'
      BY <1>7, <2>1, TransmitQueued
    <2>3. QED BY <1>0, <1>3, <1>7, <2>1, <2>2 DEF C!Transmit
  <1>8. ASSUME NEW c \in C!Clients, C!HandlerFails(c) PROVE Goal
    <2>1. C!RepliesInOrder' /\ link'[c] = "closed"
      BY <1>0, <1>4, <1>8 DEF C!HandlerFails
    <2>2. QED BY <1>0, <1>3, <1>8, <2>1 DEF C!HandlerFails
  <1>9. ASSUME NEW c \in C!Clients, busy[c] # None, NEW by \in C!CardChannels \cup {None},
               C!Respond(c, by)
        PROVE  Goal
    <2>1. C!RepliesInOrder' /\ link' = link /\ (link[c] = "open" => Queued(c)')
      BY <1>9, RespondQueued DEF C!Respond
    <2>2. QED BY <1>0, <1>3, <1>9, <2>1 DEF C!Respond
  <1>10. ASSUME NEW c \in C!Clients, C!CardAnswers(c) PROVE Goal
    <2>1. busy[c].via \in C!CardChannels
      BY <1>0, <1>10 DEF C!CardAnswers
    <2>2. QED BY <1>9, <1>10, <2>1 DEF C!CardAnswers
  <1>11. ASSUME NEW c \in C!Clients, C!CardFails(c) PROVE Goal
    BY <1>9, <1>11 DEF C!CardFails
  <1>12. ASSUME NEW r \in Readers,
                C!InsertCard(r) \/ C!RemoveCard(r) \/ C!OpenCard(r) \/ C!OpenCardFails(r)
         PROVE  Goal
    BY <1>1, <1>12 DEF C!InsertCard, C!RemoveCard, C!OpenCard, C!OpenCardFails, C!workerVars
  <1>13. ASSUME C!BadPort \/ C!ConnectReturns \/ C!StopReturns \/ UNCHANGED C!vars PROVE Goal
    BY <1>1, <1>13 DEF C!BadPort, C!ConnectReturns, C!StopReturns, C!vars, C!workerVars
  <1>14. ASSUME C!StartClient \/ C!PressDisconnect PROVE Goal
    <2>1. \A e \in C!Clients : link'[e] = "open" => link[e] = "open"
      BY <1>0, <1>14 DEF C!StartClient, C!PressDisconnect
    <2>2. QED BY <1>1, <1>14, <2>1 DEF C!StartClient, C!PressDisconnect, C!workerVars
  <1>15. ASSUME NEW c \in C!Clients, C!ServerCloses(c) \/ C!ConnectEnds(c, "closed") PROVE Goal
    <2>1. \A e \in C!Clients : link'[e] = "open" => link[e] = "open"
      BY <1>0, <1>15 DEF C!ServerCloses, C!ConnectEnds
    <2>2. QED BY <1>1, <1>15, <2>1 DEF C!ServerCloses, C!ConnectEnds, C!workerVars
  <1>16. QED
    <2> HIDE DEF Goal
    <2>1. Goal
      BY <1>2, <1>5, <1>6, <1>7, <1>8, <1>10, <1>11, <1>12, <1>13, <1>14, <1>15
      DEF C!Next, C!Gui, C!Environment, C!Worker
    <2>2. QED BY <2>1 DEF Goal

LEMMA FreshStep ==
  ASSUME C!TypeOK, Fresh, [C!Next]_(C!vars)
  PROVE  Fresh'
  <1>0. /\ link \in [C!Clients -> {"none", "connecting", "open", "closed"}]
        /\ sent \in [C!Clients -> 0..MaxCommands]
        /\ inbox \in [C!Clients -> Seq(C!Commands)]
        /\ batch \in [C!Clients -> Seq(C!Commands)]
        /\ busy \in [C!Clients -> [n : 1..MaxCommands, via : C!CardChannels] \cup {None}]
        /\ replies \in [C!Clients -> Seq([to : 1..MaxCommands, by : C!CardChannels \cup {None}])]
        /\ client \in 0..MaxClients
    BY DEF C!TypeOK
  <1>00. client \in Nat /\ C!Clients \subseteq Nat
    BY <1>0, SystemAssumption DEF C!Clients
  <1> DEFINE SameQueues(e) ==
        /\ sent'[e] = sent[e] /\ inbox'[e] = inbox[e] /\ batch'[e] = batch[e]
        /\ busy'[e] = busy[e] /\ replies'[e] = replies[e]
  <1>1. ASSUME client' = client,
               \A e \in C!Clients :
                 \/ link'[e] = link[e] /\ (link[e] \in {"open", "closed"} \/ SameQueues(e))
                 \/ link[e] # "none" /\ link'[e] \in {"open", "closed"}
        PROVE  Fresh'
    BY <1>1 DEF Fresh, Unused
  <1>2. ASSUME UNCHANGED <<client, link, sent, inbox, batch, busy, replies>> PROVE Fresh'
    BY <1>2 DEF Fresh, Unused
  <1>3. ASSUME NEW r \in Readers,
               C!InsertCard(r) \/ C!RemoveCard(r) \/ C!OpenCard(r) \/ C!OpenCardFails(r)
        PROVE  Fresh'
    BY <1>2, <1>3 DEF C!InsertCard, C!RemoveCard, C!OpenCard, C!OpenCardFails, C!guiVars, C!workerVars
  <1>4. CASE C!BadPort \/ C!ConnectReturns \/ C!StopReturns \/ UNCHANGED C!vars
    BY <1>2, <1>4 DEF C!BadPort, C!ConnectReturns, C!StopReturns, C!vars, C!guiVars, C!workerVars
  <1>5. CASE C!StartClient
    <2>1. /\ client' = client + 1 /\ link' = [link EXCEPT ![client + 1] = "connecting"]
          /\ UNCHANGED <<sent, inbox, batch, busy, replies>>
      BY <1>5 DEF C!StartClient, C!workerVars
    <2>2. \A e \in C!Clients : e > client' => e > client /\ e # client + 1
      BY <1>00, <2>1
    <2>3. \A e \in C!Clients : link'[e] = link[e] \/ e > client
      BY <1>0, <1>00, <2>1
    <2>4. \A e \in C!Clients : e # client + 1 => link'[e] = link[e]
      BY <1>0, <2>1
    <2>5. QED BY <2>1, <2>2, <2>3, <2>4 DEF Fresh, Unused
  <1>6. CASE C!PressDisconnect
    <2>1. /\ UNCHANGED <<client, sent, inbox, batch, busy, replies>>
          /\ link' = [link EXCEPT ![client] = "closed"]
      BY <1>6 DEF C!PressDisconnect, C!workerVars
    <2>2. \A e \in C!Clients : e > client => e # client
      BY <1>00
    <2>3. \A e \in C!Clients : link'[e] = link[e] \/ (e = client /\ link'[e] = "closed")
      BY <1>0, <2>1
    <2>4. QED BY <2>1, <2>2, <2>3 DEF Fresh, Unused
  <1>7. ASSUME NEW c \in C!Clients,
               C!ServerCloses(c) \/ \E o \in {"open", "closed"} : C!ConnectEnds(c, o)
        PROVE  Fresh'
    BY <1>0, <1>1, <1>7 DEF C!ServerCloses, C!ConnectEnds, C!guiVars, C!workerVars
  <1>8. ASSUME NEW c \in C!Clients, link[c] = "open", UNCHANGED <<client, link>>,
               \A e \in C!Clients : e # c => SameQueues(e)
        PROVE  Fresh'
    BY <1>1, <1>8
  <1>9. ASSUME NEW c \in C!Clients, NEW ok \in BOOLEAN, C!ServerSends(c, ok) PROVE Fresh'
    BY <1>0, <1>8, <1>9 DEF C!ServerSends, C!guiVars, C!workerVars
  <1>10. ASSUME NEW c \in C!Clients, NEW k \in 1..Len(inbox[c]), C!Read(c, k) PROVE Fresh'
    BY <1>0, <1>8, <1>10 DEF C!Read, C!guiVars
  <1>11. ASSUME NEW c \in C!Clients, batch[c] # << >> \/ busy[c] # None
         PROVE  link[c] \in {"open", "closed"}
    BY <1>0, <1>11 DEF Fresh, Unused
  <1>12. ASSUME NEW c \in C!Clients, C!Transmit(c) PROVE Fresh'
    <2>1. link[c] \in {"open", "closed"} /\ UNCHANGED <<client, link>>
      BY <1>11, <1>12 DEF C!Transmit, C!guiVars
    <2>2. \A e \in C!Clients : e # c => SameQueues(e)
      BY <1>0, <1>12 DEF C!Transmit
    <2>3. QED BY <1>1, <2>1, <2>2
  <1>13. ASSUME NEW c \in C!Clients, C!HandlerFails(c) PROVE Fresh'
    <2>1. link[c] \in {"open", "closed"} /\ client' = client
          /\ link' = [link EXCEPT ![c] = "closed"]
      BY <1>11, <1>13 DEF C!HandlerFails, C!guiVars
    <2>2. \A e \in C!Clients : e # c => SameQueues(e)
      BY <1>0, <1>13 DEF C!HandlerFails
    <2>3. QED BY <1>0, <1>1, <2>1, <2>2
  <1>14. ASSUME NEW c \in C!Clients, C!CardAnswers(c) \/ C!CardFails(c) PROVE Fresh'
    <2>1. PICK by : C!Respond(c, by) /\ busy[c] # None
      BY <1>14 DEF C!CardAnswers, C!CardFails
    <2>2. link[c] \in {"open", "closed"} /\ UNCHANGED <<client, link>>
      BY <1>11, <2>1 DEF C!Respond, C!guiVars
    <2>3. \A e \in C!Clients : e # c => SameQueues(e)
      BY <1>0, <2>1 DEF C!Respond
    <2>4. QED BY <1>1, <2>2, <2>3
  <1>15. QED
    BY <1>3, <1>4, <1>5, <1>6, <1>7, <1>9, <1>10, <1>12, <1>13, <1>14
    DEF C!Next, C!Gui, C!Environment, C!Worker

LEMMA OrderInit == C!Init => OrderInv
  <1> SUFFICES ASSUME C!Init PROVE OrderInv
    OBVIOUS
  <1>1. C!TypeOK
    BY ConnectorTypesInit
  <1>2. Fresh /\ C!RepliesInOrder /\ \A c \in C!Clients : link[c] # "open"
    BY DEF C!Init, Fresh, Unused, C!RepliesInOrder
  <1>3. QED BY <1>1, <1>2 DEF OrderInv

LEMMA OrderInvStep == OrderInv /\ [C!Next]_(C!vars) => OrderInv'
  <1> SUFFICES ASSUME OrderInv, [C!Next]_(C!vars) PROVE OrderInv'
    OBVIOUS
  <1>1. C!TypeOK' /\ Fresh'
    BY ConnectorTypesStep, FreshStep DEF OrderInv
  <1>2. QED BY <1>1, OrderStep DEF OrderInv

-----------------------------------------------------------------------------
(* Counting entries: none to begin with, one more or not at each position, and the
   same in every longer transcript. *)
LEMMA CountNone ==
  ASSUME NEW s, NEW who
  PROVE  NumberOf(s, who, 0) = 0
  <1>1. {j \in 1..0 : s[j].sender = who} = {}
    OBVIOUS
  <1>2. QED BY <1>1, FS_EmptySet DEF NumberOf

LEMMA CountNext ==
  ASSUME NEW s, NEW who, NEW i \in Nat
  PROVE  /\ NumberOf(s, who, i) \in Nat
         /\ NumberOf(s, who, i + 1) =
              NumberOf(s, who, i) + (IF s[i + 1].sender = who THEN 1 ELSE 0)
  <1> DEFINE T(n) == {j \in 1..n : s[j].sender = who}
  <1>1. IsFiniteSet(T(i)) /\ Cardinality(T(i)) \in Nat
    <2>1. IsFiniteSet(1..i)
      BY FS_Interval
    <2>2. T(i) \in SUBSET (1..i)
      OBVIOUS
    <2>3. IsFiniteSet(T(i))
      BY <2>1, <2>2, FS_Subset
    <2>4. QED BY <2>3, FS_CardinalityType
  <1>2. CASE s[i + 1].sender = who
    <2>1. T(i + 1) = T(i) \cup {i + 1} /\ i + 1 \notin T(i)
      BY <1>2
    <2>2. Cardinality(T(i + 1)) = Cardinality(T(i)) + 1
      BY <1>1, <2>1, FS_AddElement
    <2>3. QED BY <1>1, <1>2, <2>2 DEF NumberOf
  <1>3. CASE s[i + 1].sender # who
    <2>1. T(i + 1) = T(i)
      BY <1>3
    <2>2. QED BY <1>1, <1>3, <2>1 DEF NumberOf
  <1>4. QED BY <1>2, <1>3

LEMMA CountSame ==
  ASSUME NEW s, NEW t, NEW who, NEW i \in Nat, \A j \in 1..i : t[j] = s[j]
  PROVE  NumberOf(t, who, i) = NumberOf(s, who, i)
  <1>1. {j \in 1..i : t[j].sender = who} = {j \in 1..i : s[j].sender = who}
    OBVIOUS
  <1>2. QED BY <1>1 DEF NumberOf

-----------------------------------------------------------------------------
(* The commands to connection c, those on their way through the server, and those
   recorded and not yet written. *)
Mine(c) == {r \in Commands : call[r].id = c}
Live(c) == {r \in Mine(c) : pc[r] \notin {"idle", "done"}}
Asking(c) == {r \in Mine(c) : pc[r] \in {"find", "write", "await"}}

(* How many entries a sender has; where the command of request r stands. *)
Total(c, sender) == NumberOf(log[c], sender, Len(log[c]))
Stands(c, r, k) ==
  \E j \in 1..Len(log[c]) : log[c][j] = You(r) /\ NumberOf(log[c], "you", j) = k

(* The k-th reply of a transcript is the k-th frame, and no frame is missing. *)
RepliesTallied(c) ==
  /\ \A i \in 1..Len(log[c]) :
       log[c][i].sender = "reader" => log[c][i].of = NumberOf(log[c], "reader", i)
  /\ frames[c] = Total(c, "reader") + (IF pc[c] = "idle" THEN 0 ELSE 1)

(* The k-th command written is the k-th of the transcript, and as long as the
   connection lasts the only other one is the one on its way. *)
CommandsTallied(c) ==
  /\ \A k \in 1..Len(wire[c]) : Stands(c, wire[c][k], k)
  /\ phase[c] \notin Gone =>
       /\ Total(c, "you") = Len(wire[c]) + (IF Asking(c) = {} THEN 0 ELSE 1)
       /\ \A r \in Asking(c) : Stands(c, r, Len(wire[c]) + 1)

OneLive(c) == \A q, r \in Live(c) : q = r

(* Clients take turns, and no two adds to the transcript overlapped. *)
Orderly(c) == TakingTurns(c) /\ ~raced[c]

Tallied(c) == RepliesTallied(c) /\ CommandsTallied(c) /\ OneLive(c)

-----------------------------------------------------------------------------
(* A step that is none of connection c's, or keeps its requests on their way. *)
LEMMA TallyKept ==
  ASSUME NEW c \in Channels, Tallied(c),
         log'[c] = log[c], wire'[c] = wire[c], frames'[c] = frames[c],
         pc'[c] = "idle" <=> pc[c] = "idle",
         OneLive(c)', phase[c] \in Gone => phase'[c] \in Gone,
         phase'[c] \in Gone \/ Asking(c)' = Asking(c)
  PROVE  Tallied(c)'
  <1>1. RepliesTallied(c)'
    BY DEF Tallied, RepliesTallied, Total
  <1>2. CommandsTallied(c)'
    BY DEF Tallied, CommandsTallied, Total, Stands
  <1>3. QED BY <1>1, <1>2 DEF Tallied

LEMMA TotalNat ==
  ASSUME TypeInv, NEW c \in Channels, NEW sender
  PROVE  Total(c, sender) \in Nat
  <1>1. Len(log[c]) \in Nat
    BY LenProperties DEF TypeInv, TypeOK, ListsOK
  <1>2. QED BY <1>1, CountNext DEF Total

(* What one more entry changes. *)
LEMMA TallyAppend ==
  ASSUME TypeInv, NEW c \in Channels, NEW e \in Entries, log'[c] = Append(log[c], e)
  PROVE  /\ Len(log[c]) \in Nat /\ Len(log'[c]) = Len(log[c]) + 1
         /\ log'[c][Len(log[c]) + 1] = e
         /\ \A i \in 1..Len(log[c]) : log'[c][i] = log[c][i]
         /\ \A sender : \A i \in 1..Len(log[c]) :
              NumberOf(log'[c], sender, i) = NumberOf(log[c], sender, i)
         /\ \A sender : Total(c, sender)' =
              Total(c, sender) + (IF e.sender = sender THEN 1 ELSE 0)
         /\ \A q, k : Stands(c, q, k) => Stands(c, q, k)'
  <1>1. log[c] \in Seq(Entries)
    BY DEF TypeInv, TypeOK, ListsOK
  <1>2. PICK s, t, n : s = log[c] /\ t = log'[c] /\ n = Len(log[c])
    OBVIOUS
  <1>3. n \in Nat /\ Len(t) = n + 1 /\ t[n + 1] = e /\ \A i \in 1..n : t[i] = s[i]
    BY <1>1, <1>2, ExtendsAppend DEF Extends
  <1>4. ASSUME NEW sender, NEW i \in 0..n PROVE NumberOf(t, sender, i) = NumberOf(s, sender, i)
    <2>1. i \in Nat /\ \A j \in 1..i : t[j] = s[j]
      BY <1>3
    <2>2. QED BY <2>1, CountSame
  <1>5. ASSUME NEW sender
        PROVE  NumberOf(t, sender, n + 1) = NumberOf(s, sender, n) + (IF e.sender = sender THEN 1 ELSE 0)
    <2>1. NumberOf(t, sender, n) = NumberOf(s, sender, n)
      BY <1>3, CountSame
    <2>2. NumberOf(t, sender, n + 1) = NumberOf(t, sender, n) + (IF t[n + 1].sender = sender THEN 1 ELSE 0)
      BY <1>3, CountNext
    <2>3. QED BY <1>3, <2>1, <2>2
  <1>6. \A sender : Total(c, sender)' = Total(c, sender) + (IF e.sender = sender THEN 1 ELSE 0)
    BY <1>2, <1>3, <1>5 DEF Total
  <1>7. ASSUME NEW r, NEW k, Stands(c, r, k) PROVE Stands(c, r, k)'
    <2>1. PICK j \in 1..n : s[j] = You(r) /\ NumberOf(s, "you", j) = k
      BY <1>2, <1>7 DEF Stands
    <2>2. j \in 0..n /\ j \in 1..(n + 1)
      BY <1>3, <2>1
    <2>3. t[j] = You(r) /\ NumberOf(t, "you", j) = k
      BY <1>3, <1>4, <2>1, <2>2
    <2>4. QED BY <1>2, <1>3, <2>2, <2>3 DEF Stands, You
  <1>8. QED BY <1>2, <1>3, <1>4, <1>6, <1>7

-----------------------------------------------------------------------------
(* Which commands go to a connection is settled from the start. *)
LEMMA MineKept ==
  ASSUME TypeInv, RelayInv, [Next]_vars, NEW c \in Channels
  PROVE  Mine(c)' = Mine(c)
  <1>1. \A r \in Requests : call' = call
    BY OwnSteps
  <1>2. CASE Requests = {}
    BY <1>2 DEF Mine, Commands
  <1>3. QED BY <1>1, <1>2 DEF Mine, Commands

(* A step of one request, which stays on its way, or stays off it. *)
LEMMA TallyOwn ==
  ASSUME TranscriptInv, [Next]_vars, NEW c \in Channels, Tallied(c),
         NEW r \in Requests, NEW s \in PcStates, pc' = [pc EXCEPT ![r] = s],
         UNCHANGED <<log, wire, frames>>, pc[r] # "idle",
         r \in Mine(c) =>
           \/ phase'[c] \in Gone
           \/ pc[r] \in {"find", "write", "await"} <=> s \in {"find", "write", "await"},
         r \in Mine(c) /\ s \notin {"idle", "done"} => pc[r] # "done"
  PROVE  Tallied(c)'
  <1>1. TypeInv /\ RelayInv /\ PhaseInv
    BY DEF TranscriptInv
  <1>2. Mine(c)' = Mine(c) /\ Mine(c) \subseteq Requests
    BY <1>1, MineKept DEF Mine, Commands
  <1>3. /\ pc'[r] = s /\ pc'[c] = pc[c]
        /\ \A q \in Requests : q # r => pc'[q] = pc[q]
    BY <1>1, ServerAssumption DEF TypeInv, TypeOK, ControlOK, Threads
  <1>4. phase[c] \in Gone => phase'[c] \in Gone
    BY <1>1, PhasesAdvance DEF Advanced
  <1>5. Live(c)' \subseteq Live(c)
    BY <1>2, <1>3 DEF Live
  <1>6. OneLive(c)'
    BY <1>5 DEF Tallied, OneLive
  <1>7. phase'[c] \in Gone \/ Asking(c)' = Asking(c)
    BY <1>2, <1>3 DEF Asking
  <1>8. QED BY <1>3, <1>4, <1>6, <1>7, TallyKept

(* The HTTP worker of a request goes on without storing an entry: a command gets
   past the check only to be recorded, and lost then only if the connection ends. *)
LEMMA TallyRequest ==
  ASSUME TranscriptInv, [Next]_vars, NEW c \in Channels, Tallied(c), Orderly(c),
         NEW r \in Requests, RequestStep(r), ~AddStore(r)
  PROVE  Tallied(c)'
  <1>0. TypeInv /\ RelayInv /\ PhaseInv /\ Role(r) /\ \A d \in Channels : Exact(d)
    BY DEF TranscriptInv
  <1>1. UNCHANGED <<log, wire, frames>>
    BY RequestStill
  <1>2. r \in Mine(c) => /\ call[r].action = "sendCommandApdu" /\ call[r].id = c
                         /\ call[r].body \notin Unsendable /\ r \in Commands
    BY DEF Mine, Commands, Orderly, TakingTurns
  <1>3. phase[c] \in Phases
    BY <1>0 DEF TypeInv, TypeOK, RegistryOK
  <1>4. CASE Check(r) \/ TranscriptGone(r) \/ RecordCommand(r)
    <2>1. PICK s \in {"get", "done", "addRead"} : pc' = [pc EXCEPT ![r] = s] /\ pc[r] \in {"handle", "get"}
      BY <1>4 DEF Check, TranscriptGone, RecordCommand, BeginAdd, Finish, Goto
    <2>2. QED BY <1>1, <2>1, TallyOwn DEF PcStates
  <1>5. CASE FindChannel(r)
    <2>1. PICK s \in {"write", "done"} : pc' = [pc EXCEPT ![r] = s] /\ pc[r] = "find"
      BY <1>5 DEF FindChannel, Finish, Goto
    <2>2. ASSUME r \in Mine(c), s = "done" PROVE phase'[c] \in Gone
      <3>1. c \notin allChannels
        BY <1>0, <1>2, <1>5, <2>1, <2>2 DEF FindChannel, Goto, TypeInv, TypeOK, ControlOK, Threads
      <3>2. phase[c] \in Opened
        BY <1>0, <1>2, <2>1, <2>2 DEF Role
      <3>3. QED BY <1>0, <1>5, <3>1, <3>2 DEF PhaseInv, FindChannel, registry, Opened, Gone
    <2>3. QED BY <1>1, <2>1, <2>2, TallyOwn DEF PcStates
  <1>6. CASE WriteCommand(r)
    <2>1. PICK s \in {"await", "done"} : pc' = [pc EXCEPT ![r] = s] /\ pc[r] = "write"
      BY <1>6 DEF WriteCommand, Finish, Goto
    <2>2. ASSUME r \in Mine(c), s = "done" PROVE phase'[c] \in Gone
      <3>1. phase[c] # "open"
        BY <1>0, <1>2, <1>6, <2>1, <2>2 DEF WriteCommand, Goto, TypeInv, TypeOK, ControlOK, Threads
      <3>2. phase[c] \in Opened
        BY <1>0, <1>2, <2>1, <2>2 DEF Role
      <3>3. QED BY <1>6, <3>1, <3>2 DEF WriteCommand, registry, Opened
    <2>3. QED BY <1>1, <2>1, <2>2, TallyOwn DEF PcStates
  <1>7. CASE BeginRead(r) \/ ReadNext(r)
    <2>1. r \notin Mine(c)
      BY <1>0, <1>2, <1>7 DEF BeginRead, ReadNext, Role
    <2>2. /\ pc[r] \in {"get", "iterate"}
          /\ \E s \in {"iterate", "done"} : pc' = [pc EXCEPT ![r] = s]
      BY <1>0, <1>7 DEF BeginRead, ReadNext, Finish, Goto, TypeInv, TypeOK, ControlOK, Threads
    <2>3. QED BY <1>1, <2>1, <2>2, TallyOwn DEF PcStates
  <1>8. CASE BeginList(r) \/ ListNext(r) \/ EndList(r)
    <2>1. r \notin Mine(c)
      BY <1>0, <1>2, <1>8 DEF BeginList, ListNext, EndList, Role
    <2>2. /\ pc[r] \in {"handle", "scan"}
          /\ \E s \in {"scan", "done"} : pc' = [pc EXCEPT ![r] = s]
      BY <1>0, <1>8 DEF BeginList, ListNext, EndList, Finish, Goto, TypeInv, TypeOK, ControlOK, Threads
    <2>3. QED BY <1>1, <2>1, <2>2, TallyOwn DEF PcStates
  <1>9. CASE AddRead(r) \/ AddSize(r)
    <2>1. PICK s \in {"addSize", "addStore"} :
            pc' = [pc EXCEPT ![r] = s] /\ pc[r] \in {"addRead", "addSize"}
      BY <1>9 DEF AddRead, AddSize, Goto
    <2>2. QED BY <1>1, <2>1, TallyOwn DEF PcStates
  <1>10. CASE AddThrows(r)
    <2>1. r \notin Mine(c)
      <3>1. raced[ListOf(r)]
        BY <1>0, <1>10, ThrowsMeansRaced DEF Threads
      <3>2. ListOf(r) = call[r].id
        BY ServerAssumption DEF ListOf
      <3>3. QED BY <1>2, <3>1, <3>2 DEF Orderly, TakingTurns
    <2>2. pc[r] = "addStore" /\ pc' = [pc EXCEPT ![r] = "done"]
      BY <1>10 DEF AddThrows, Finish, Goto
    <2>3. QED BY <1>1, <2>1, <2>2, TallyOwn DEF PcStates
  <1>11. QED BY <1>4, <1>5, <1>6, <1>7, <1>8, <1>9, <1>10 DEF RequestStep

(* A client that takes turns asks when nothing else is on its way. *)
LEMMA TallyAsk ==
  ASSUME TranscriptInv, [Next]_vars, NEW c \in Channels, Tallied(c), Orderly(c)',
         NEW r \in Requests, Ask(r)
  PROVE  Tallied(c)'
  <1>0. TypeInv /\ RelayInv
    BY DEF TranscriptInv
  <1>1. /\ pc' = [pc EXCEPT ![r] = "handle"] /\ pc[r] = "idle"
        /\ UNCHANGED <<log, wire, frames, phase, call>>
    BY DEF Ask, Submit, Goto, registry, lists, io
  <1>2. /\ pc'[c] = pc[c] /\ pc'[r] = "handle"
        /\ \A q \in Requests : q # r => pc'[q] = pc[q]
    BY <1>0, <1>1, ServerAssumption DEF TypeInv, TypeOK, ControlOK, Threads
  <1>3. Mine(c)' = Mine(c) /\ Mine(c) \subseteq Requests
    BY <1>1 DEF Mine, Commands
  <1>4. Asking(c)' = Asking(c)
    BY <1>1, <1>2, <1>3 DEF Asking
  <1>5. OneLive(c)'
    <2>1. CASE r \notin Mine(c)
      <3>1. Live(c)' \subseteq Live(c)
        BY <1>2, <1>3, <2>1 DEF Live
      <3>2. QED BY <3>1 DEF Tallied, OneLive
    <2>2. CASE r \in Mine(c)
      <3>0. Waiting(c) = {}
        BY <2>2 DEF Ask, Orderly, TakingTurns, Mine
      <3>1. \A q \in Mine(c) : q # r => pc[q] \in {"idle", "done"}
        BY <1>0, <1>3, <3>0 DEF Waiting, Mine, RelayInv, OnCourse
      <3>2. Live(c)' \subseteq {r}
        BY <1>2, <1>3, <3>1 DEF Live
      <3>3. QED BY <3>2 DEF OneLive
    <2>3. QED BY <2>1, <2>2
  <1>6. QED BY <1>1, <1>2, <1>4, <1>5, TallyKept

-----------------------------------------------------------------------------
(* The steps of connections that leave what is counted of connection c alone. *)
LEMMA TallyElsewhere ==
  ASSUME TranscriptInv, [Next]_vars, NEW c \in Channels, Tallied(c),
         log'[c] = log[c], UNCHANGED <<wire, frames>>, pc'[c] = "idle" <=> pc[c] = "idle",
         \A r \in Mine(c) : \/ pc'[r] = pc[r]
                            \/ pc'[r] = "done" /\ phase'[c] \in Gone
  PROVE  Tallied(c)'
  <1>1. Mine(c)' = Mine(c) /\ (phase[c] \in Gone => phase'[c] \in Gone)
    BY MineKept, PhasesAdvance DEF TranscriptInv, Advanced
  <1>2. Live(c)' \subseteq Live(c)
    BY <1>1 DEF Live
  <1>3. OneLive(c)'
    BY <1>2 DEF Tallied, OneLive
  <1>4. phase'[c] \in Gone \/ Asking(c)' = Asking(c)
    BY <1>1 DEF Asking
  <1>5. QED BY <1>1, <1>3, <1>4, TallyKept

(* The worker of a connection opens, closes, cleans up or goes on with its add. *)
LEMMA TallyWorker ==
  ASSUME TranscriptInv, [Next]_vars, NEW c \in Channels, Tallied(c), Orderly(c),
         NEW d \in Channels,
         \/ OpenChannel(d) \/ PutTranscript(d) \/ CloseChannel(d) \/ FailPending(d)
         \/ RemoveTranscript(d) \/ AddRead(d) \/ AddSize(d) \/ AddThrows(d)
  PROVE  Tallied(c)'
  <1>0. TypeInv /\ RelayInv /\ PhaseInv /\ \A b \in Channels : Exact(b)
    BY DEF TranscriptInv
  <1>1. /\ pc \in [Threads -> PcStates] /\ phase \in [Channels -> Phases]
        /\ Mine(c) \subseteq Requests
    BY <1>0 DEF TypeInv, TypeOK, ControlOK, RegistryOK, Mine, Commands
  <1>2. CASE OpenChannel(d) \/ PutTranscript(d) \/ CloseChannel(d) \/ RemoveTranscript(d)
    BY <1>2, TallyElsewhere
    DEF OpenChannel, PutTranscript, CloseChannel, RemoveTranscript, lists, io
  <1>3. CASE FailPending(d)
    <2>1. /\ UNCHANGED <<log, wire, frames>> /\ phase'[d] = "drained"
          /\ \A t \in Threads : pc'[t] = IF t \in ToSet(pending[d]) THEN "done" ELSE pc[t]
      BY <1>1, <1>3 DEF FailPending, lists
    <2>2. \A r \in ToSet(pending[d]) : r \in Requests /\ call[r].id = d
      BY <1>0 DEF TypeInv, TypeOK, IoOK, ToSet, RelayInv, QueueHolds, Commands
    <2>3. pc'[c] = pc[c]
      BY <2>1, <2>2, ServerAssumption DEF Threads
    <2>4. \A r \in Mine(c) : pc'[r] = pc[r] \/ (pc'[r] = "done" /\ d = c)
      BY <1>1, <2>1, <2>2 DEF Mine, Threads
    <2>5. QED BY <2>1, <2>3, <2>4, TallyElsewhere DEF Gone
  <1>4. CASE AddRead(d) \/ AddSize(d)
    <2>1. UNCHANGED <<log, wire, frames>>
      BY <1>4, WorkerStill DEF Threads
    <2>2. PICK s \in {"addSize", "addStore"} : pc' = [pc EXCEPT ![d] = s] /\ pc[d] # "idle"
      BY <1>4 DEF AddRead, AddSize, Goto
    <2>3. pc'[c] = "idle" <=> pc[c] = "idle"
      BY <1>1, <2>2 DEF Threads
    <2>4. \A r \in Mine(c) : pc'[r] = pc[r]
      BY <1>1, <2>2, ServerAssumption DEF Threads
    <2>5. QED BY <2>1, <2>3, <2>4, TallyElsewhere
  <1>5. CASE AddThrows(d)
    <2>1. d # c
      <3>1. raced[ListOf(d)] /\ ListOf(d) = d
        BY <1>0, <1>5, ThrowsMeansRaced DEF Threads, ListOf
      <3>2. QED BY <3>1 DEF Orderly, TakingTurns
    <2>2. UNCHANGED <<log, wire, frames>>
      BY <1>5, WorkerStill DEF Threads
    <2>3. pc' = [pc EXCEPT ![d] = "idle"]
      BY <1>5, ServerAssumption DEF AddThrows, Goto
    <2>4. pc'[c] = pc[c] /\ \A r \in Mine(c) : pc'[r] = pc[r]
      BY <1>1, <2>1, <2>3, ServerAssumption DEF Threads
    <2>5. QED BY <2>2, <2>4, TallyElsewhere
  <1>6. QED BY <1>2, <1>3, <1>4, <1>5

(* A frame comes in, and is counted before its entry is stored. *)
LEMMA TallyFrame ==
  ASSUME TranscriptInv, [Next]_vars, NEW c \in Channels, Tallied(c),
         NEW d \in Channels, MessageReceived(d)
  PROVE  Tallied(c)'
  <1>0. TypeInv /\ RelayInv
    BY DEF TranscriptInv
  <1>1. /\ pc' = [pc EXCEPT ![d] = "addRead"] /\ pc[d] = "idle"
        /\ UNCHANGED <<log, wire, phase, call>> /\ frames' = [frames EXCEPT ![d] = frames[d] + 1]
    BY DEF MessageReceived, BeginAdd, Goto, registry, Idle
  <1>2. /\ pc \in [Threads -> PcStates] /\ frames \in [Channels -> 0..MaxFrames]
        /\ Mine(c) \subseteq Requests
    BY <1>0 DEF TypeInv, TypeOK, ControlOK, IoOK, Mine, Commands
  <1>3. Mine(c)' = Mine(c) /\ \A r \in Mine(c) : pc'[r] = pc[r]
    BY <1>1, <1>2, ServerAssumption DEF Mine, Commands, Threads
  <1>4. Live(c)' = Live(c) /\ Asking(c)' = Asking(c)
    BY <1>3 DEF Live, Asking
  <1>5. CommandsTallied(c)' /\ OneLive(c)'
    BY <1>1, <1>4 DEF Tallied, CommandsTallied, OneLive, Total, Stands
  <1>6. RepliesTallied(c)'
    <2>1. CASE d # c
      <3>1. frames'[c] = frames[c] /\ pc'[c] = pc[c]
        BY <1>1, <1>2, <2>1 DEF Threads
      <3>2. QED BY <1>1, <3>1 DEF Tallied, RepliesTallied, Total
    <2>2. CASE d = c
      <3>1. frames'[c] = frames[c] + 1 /\ pc'[c] = "addRead"
        BY <1>1, <1>2, <2>2 DEF Threads
      <3>2. frames[c] = Total(c, "reader") + 0
        BY <1>1, <2>2 DEF Tallied, RepliesTallied
      <3>3. Total(c, "reader")' = Total(c, "reader")
        BY <1>1 DEF Total
      <3>4. \A x, y \in Nat : x = y + 0 => x + 1 = y + 1
        OBVIOUS
      <3>5. frames[c] \in Nat /\ Total(c, "reader") \in Nat
        BY <1>0, <1>2, TotalNat
      <3>6. frames'[c] = Total(c, "reader")' + 1
        BY <3>1, <3>2, <3>3, <3>4, <3>5
      <3>7. QED BY <1>1, <3>1, <3>6 DEF Tallied, RepliesTallied
    <2>3. QED BY <2>1, <2>2
  <1>7. QED BY <1>5, <1>6 DEF Tallied

(* A command goes from the queue to the socket: it is the only one on its way. *)
LEMMA TallyFlush ==
  ASSUME TranscriptInv, [Next]_vars, NEW c \in Channels, Tallied(c),
         NEW d \in Channels, Flush(d)
  PROVE  Tallied(c)'
  <1>0. TypeInv /\ RelayInv /\ pending[d] \in Seq(Requests) /\ pending[d] # << >>
    BY DEF TranscriptInv, TypeInv, TypeOK, IoOK, Flush
  <1>1. PICK r \in Requests : r = Head(pending[d]) /\ r \in ToSet(pending[d])
    BY <1>0, ToSetHeadTail, HeadTailProperties
  <1>2. pc[r] = "await" /\ r \in Mine(d)
    BY <1>0, <1>1 DEF RelayInv, QueueHolds, Mine
  <1>3. /\ pc' = [pc EXCEPT ![r] = "done"] /\ phase[d] = "open"
        /\ UNCHANGED <<log, frames, phase, call>> /\ wire' = [wire EXCEPT ![d] = Append(wire[d], r)]
    BY <1>1 DEF Flush, Finish, Goto, registry, lists
  <1>4. /\ pc \in [Threads -> PcStates] /\ wire \in [Channels -> Seq(Requests)]
        /\ Mine(c) \subseteq Requests
    BY <1>0 DEF TypeInv, TypeOK, ControlOK, IoOK, Mine, Commands
  <1>5. /\ Mine(c)' = Mine(c) /\ pc'[c] = pc[c] /\ pc'[r] = "done"
        /\ \A q \in Mine(c) : q # r => pc'[q] = pc[q]
    BY <1>3, <1>4, ServerAssumption DEF Mine, Commands, Threads
  <1>6. RepliesTallied(c)'
    BY <1>3, <1>5 DEF Tallied, RepliesTallied, Total
  <1>7. OneLive(c)'
    BY <1>5 DEF Tallied, OneLive, Live
  <1>8. CASE d # c
    <2>1. Asking(c)' = Asking(c)
      BY <1>2, <1>5, <1>8 DEF Asking, Mine
    <2>2. wire'[c] = wire[c]
      BY <1>3, <1>4, <1>8
    <2>3. CommandsTallied(c)'
      BY <1>3, <2>1, <2>2 DEF Tallied, CommandsTallied, Total, Stands
    <2>4. QED BY <1>6, <1>7, <2>3 DEF Tallied
  <1>9. CASE d = c
    <2>1. r \in Asking(c) /\ Asking(c) \subseteq Live(c)
      BY <1>2, <1>9 DEF Asking, Live
    <2>2. Asking(c)' = {}
      <3>1. \A q \in Asking(c) : q = r
        BY <2>1 DEF Tallied, OneLive
      <3>2. QED BY <1>5, <3>1 DEF Asking
    <2>3. PICK n \in Nat : n = Len(wire[c])
      BY <1>4, LenProperties
    <2>4. Total(c, "you") = n + 1 /\ Stands(c, r, n + 1) /\ \A k \in 1..n : Stands(c, wire[c][k], k)
      BY <1>3, <1>9, <2>1, <2>3 DEF Tallied, CommandsTallied, Gone
    <2>5. /\ Len(wire'[c]) = n + 1 /\ wire'[c][n + 1] = r
          /\ \A k \in 1..n : wire'[c][k] = wire[c][k]
      <3>1. wire'[c] = Append(wire[c], r) /\ wire[c] \in Seq(Requests)
        BY <1>3, <1>4, <1>9
      <3>2. QED BY <2>3, <3>1, ExtendsAppend DEF Extends
    <2>6. ASSUME NEW k \in 1..Len(wire'[c]), NEW x, x = wire'[c][k]
          PROVE  Stands(c, x, k)'
      <3>1. k \in 1..n \/ k = n + 1
        BY <2>5, <2>6
      <3>2. Stands(c, x, k)
        BY <2>4, <2>5, <2>6, <3>1
      <3>3. QED BY <1>3, <3>2 DEF Stands
    <2>7. Total(c, "you")' = Len(wire'[c]) + 0
      <3>1. Total(c, "you")' = n + 1
        BY <1>3, <2>4 DEF Total
      <3>2. QED BY <2>3, <2>5, <3>1
    <2>8. CommandsTallied(c)'
      BY <2>2, <2>6, <2>7 DEF CommandsTallied, Stands
    <2>9. QED BY <1>6, <1>7, <2>8 DEF Tallied
  <1>10. QED BY <1>8, <1>9

-----------------------------------------------------------------------------
(* What is to be shown of the commands after a step, each at its place. *)
LEMMA CommandsStand ==
  ASSUME NEW c \in Channels, NEW w, NEW m, w = wire'[c], m = Len(wire'[c]) + 1,
         \A k \in 1..Len(w) : Stands(c, w[k], k)',
         phase'[c] \notin Gone =>
           /\ Total(c, "you")' = Len(w) + (IF Asking(c)' = {} THEN 0 ELSE 1)
           /\ \A r \in Asking(c)' : Stands(c, r, m)'
  PROVE  CommandsTallied(c)'
  <1>1. \A k \in 1..Len(wire'[c]) : \E j \in 1..Len(log'[c]) :
          log'[c][j] = You(wire'[c][k]) /\ NumberOf(log'[c], "you", j) = k
    BY DEF Stands, You
  <1>2. phase'[c] \notin Gone =>
          \A r \in Asking(c)' : \E j \in 1..Len(log'[c]) :
            log'[c][j] = You(r) /\ NumberOf(log'[c], "you", j) = Len(wire'[c]) + 1
    BY DEF Stands, You
  <1>3. QED BY <1>1, <1>2 DEF CommandsTallied, Stands, You

(* The worker of the connection stores the frame it has counted. *)
LEMMA TallyReply ==
  ASSUME TranscriptInv, [Next]_vars, NEW c \in Channels, Tallied(c), AddStore(c)
  PROVE  Tallied(c)'
  <1>0. TypeInv /\ RelayInv
    BY DEF TranscriptInv
  <1>1. PICK e \in Entries : e = Reader(frames[c])
    BY <1>0, EntryType, ServerAssumption DEF AddStore, AddSteps, Threads, EntryOf
  <1>2. e.sender = "reader" /\ e.of = frames[c]
    BY <1>1 DEF Reader
  <1>3. /\ log' = [log EXCEPT ![c] = Append(log[c], e)] /\ pc' = [pc EXCEPT ![c] = "idle"]
        /\ pc[c] = "addStore" /\ UNCHANGED <<wire, frames, phase, call>>
    BY <1>1 DEF AddStore, EntryOf, ListOf, Goto, registry, io
  <1>4. /\ log \in [Channels -> Seq(Entries)] /\ pc \in [Threads -> PcStates]
        /\ frames \in [Channels -> 0..MaxFrames] /\ Mine(c) \subseteq Requests
    BY <1>0 DEF TypeInv, TypeOK, ListsOK, ControlOK, IoOK, Mine, Commands
  <1>5. log'[c] = Append(log[c], e) /\ pc'[c] = "idle"
    BY <1>3, <1>4 DEF Threads
  <1>6. Mine(c)' = Mine(c) /\ \A r \in Mine(c) : pc'[r] = pc[r]
    BY <1>3, <1>4, ServerAssumption DEF Mine, Commands, Threads
  <1>7. Live(c)' = Live(c) /\ Asking(c)' = Asking(c)
    BY <1>6 DEF Live, Asking
  <1>8. PICK n : n = Len(log[c])
    OBVIOUS
  <1>9. /\ n \in Nat /\ Len(log'[c]) = n + 1 /\ log'[c][n + 1] = e
        /\ \A i \in 1..n : log'[c][i] = log[c][i]
        /\ \A sender : \A i \in 1..n : NumberOf(log'[c], sender, i) = NumberOf(log[c], sender, i)
        /\ \A sender : Total(c, sender)' = Total(c, sender) + (IF e.sender = sender THEN 1 ELSE 0)
        /\ \A q, k : Stands(c, q, k) => Stands(c, q, k)'
    BY <1>0, <1>5, <1>8, TallyAppend
  <1>10. Total(c, "you") \in Nat /\ Total(c, "reader") \in Nat
    BY <1>0, TotalNat
  <1>11. Total(c, "you")' = Total(c, "you") /\ Total(c, "reader")' = Total(c, "reader") + 1
    BY <1>2, <1>9, <1>10
  <1>12. frames[c] = Total(c, "reader") + 1
    BY <1>3 DEF Tallied, RepliesTallied
  <1>13. RepliesTallied(c)'
    <2>1. ASSUME NEW i \in 1..Len(log'[c]), log'[c][i].sender = "reader"
          PROVE  log'[c][i].of = NumberOf(log'[c], "reader", i)
      <3>1. CASE i \in 1..n
        BY <1>8, <1>9, <2>1, <3>1 DEF Tallied, RepliesTallied
      <3>2. CASE i = n + 1
        <4>1. NumberOf(log'[c], "reader", n + 1) = Total(c, "reader")'
          BY <1>9 DEF Total
        <4>2. QED BY <1>2, <1>9, <1>11, <1>12, <3>2, <4>1
      <3>3. QED BY <1>9, <3>1, <3>2
    <2>2. frames'[c] = Total(c, "reader")' + 0
      BY <1>3, <1>10, <1>11, <1>12
    <2>3. QED BY <1>5, <2>1, <2>2 DEF RepliesTallied
  <1>14. CommandsTallied(c)'
    <2>1. PICK w, m : w = wire[c] /\ m = Len(wire[c]) + 1
      OBVIOUS
    <2>2. /\ \A k \in 1..Len(w) : Stands(c, w[k], k)'
          /\ phase[c] \notin Gone => \A r \in Asking(c) : Stands(c, r, m)'
      BY <1>9, <2>1 DEF Tallied, CommandsTallied
    <2>3. phase[c] \notin Gone => Total(c, "you")' = Len(wire[c]) + (IF Asking(c) = {} THEN 0 ELSE 1)
      BY <1>11 DEF Tallied, CommandsTallied
    <2>4. QED BY <1>3, <1>7, <2>1, <2>2, <2>3, CommandsStand
  <1>15. OneLive(c)'
    BY <1>7 DEF Tallied, OneLive
  <1>16. QED BY <1>13, <1>14, <1>15 DEF Tallied

(* The HTTP worker of a request stores its command: now it is the one on its way. *)
LEMMA TallyCommand ==
  ASSUME TranscriptInv, [Next]_vars, NEW c \in Channels, Tallied(c),
         NEW r \in Requests, AddStore(r), call[r].id = c
  PROVE  Tallied(c)'
  <1>0. TypeInv /\ RelayInv
    BY DEF TranscriptInv
  <1>1. PICK e \in Entries : e = You(r)
    BY DEF Entries
  <1>2. e.sender = "you"
    BY <1>1 DEF You
  <1>3. /\ log' = [log EXCEPT ![c] = Append(log[c], e)] /\ pc' = [pc EXCEPT ![r] = "find"]
        /\ pc[r] = "addStore" /\ UNCHANGED <<wire, frames, phase, call>>
    BY <1>1, ServerAssumption DEF AddStore, EntryOf, ListOf, Goto, registry, io
  <1>4. /\ log \in [Channels -> Seq(Entries)] /\ pc \in [Threads -> PcStates]
        /\ wire[c] \in Seq(Requests) /\ Mine(c) \subseteq Requests
    BY <1>0 DEF TypeInv, TypeOK, ListsOK, ControlOK, IoOK, Mine, Commands
  <1>5. /\ log'[c] = Append(log[c], e) /\ pc'[c] = pc[c] /\ pc'[r] = "find"
        /\ \A q \in Requests : q # r => pc'[q] = pc[q]
    BY <1>3, <1>4, ServerAssumption DEF Threads
  <1>6. Mine(c)' = Mine(c) /\ r \in Mine(c)
    BY <1>0, <1>3 DEF Mine, Commands, RelayInv, OnCourse, AddSteps
  <1>7. Asking(c) = {}
    <2>1. r \in Live(c) /\ Asking(c) \subseteq Live(c) /\ r \notin Asking(c)
      BY <1>3, <1>6 DEF Live, Asking
    <2>2. QED BY <2>1 DEF Tallied, OneLive
  <1>8. Asking(c)' = {r} /\ Live(c)' \subseteq Live(c)
    <2>1. \A q \in Mine(c) : q # r => q \notin Asking(c)'
      BY <1>4, <1>5, <1>7 DEF Asking
    <2>2. r \in Asking(c)'
      BY <1>5, <1>6 DEF Asking
    <2>3. Asking(c)' \subseteq Mine(c)
      BY <1>6 DEF Asking
    <2>4. Live(c)' \subseteq Live(c)
      BY <1>3, <1>4, <1>5, <1>6 DEF Live
    <2>5. QED BY <2>1, <2>2, <2>3, <2>4
  <1>9. PICK n, w : n = Len(log[c]) /\ w = Len(wire[c])
    OBVIOUS
  <1>10. /\ n \in Nat /\ Len(log'[c]) = n + 1 /\ log'[c][n + 1] = e
         /\ \A i \in 1..n : log'[c][i] = log[c][i]
         /\ \A sender : \A i \in 1..n : NumberOf(log'[c], sender, i) = NumberOf(log[c], sender, i)
         /\ \A sender : Total(c, sender)' = Total(c, sender) + (IF e.sender = sender THEN 1 ELSE 0)
         /\ \A q, k : Stands(c, q, k) => Stands(c, q, k)'
    <2>1. log'[c] = Append(log[c], e)
      BY <1>5
    <2>2. \A q, k : Stands(c, q, k) => Stands(c, q, k)'
      BY <1>0, <2>1, TallyAppend
    <2>3. \A sender : Total(c, sender)' = Total(c, sender) + (IF e.sender = sender THEN 1 ELSE 0)
      BY <1>0, <2>1, TallyAppend
    <2>4. n = Len(log[c])
      BY <1>9
    <2>5. \A sender : \A i \in 1..Len(log[c]) : NumberOf(log'[c], sender, i) = NumberOf(log[c], sender, i)
      BY <1>0, <2>1, TallyAppend
    <2>6. /\ n \in Nat /\ Len(log'[c]) = n + 1 /\ log'[c][n + 1] = e
          /\ \A i \in 1..n : log'[c][i] = log[c][i]
      BY <1>0, <1>9, <2>1, TallyAppend
    <2>7. QED BY <2>2, <2>3, <2>4, <2>5, <2>6
  <1>11. Total(c, "you") \in Nat /\ Total(c, "reader") \in Nat /\ w \in Nat
    BY <1>0, <1>4, <1>9, TotalNat, LenProperties
  <1>12. Total(c, "you")' = Total(c, "you") + 1 /\ Total(c, "reader")' = Total(c, "reader")
    BY <1>2, <1>10, <1>11
  <1>13. RepliesTallied(c)'
    <2>1. ASSUME NEW i \in 1..Len(log'[c]), log'[c][i].sender = "reader"
          PROVE  log'[c][i].of = NumberOf(log'[c], "reader", i)
      <3>1. i \in 1..n
        BY <1>2, <1>10, <2>1
      <3>2. QED BY <1>9, <1>10, <2>1, <3>1 DEF Tallied, RepliesTallied
    <2>2. QED BY <1>3, <1>5, <1>12, <2>1 DEF Tallied, RepliesTallied
  <1>14. CommandsTallied(c)'
    <2>1. ASSUME NEW k \in 1..w, NEW x, x = wire[c][k] PROVE Stands(c, x, k)'
      BY <1>9, <1>10, <2>1 DEF Tallied, CommandsTallied
    <2>2. ASSUME phase[c] \notin Gone
          PROVE  Total(c, "you")' = w + 1 /\ Stands(c, r, w + 1)'
      <3>1. Total(c, "you") = w + 0
        BY <1>7, <1>9, <2>2 DEF Tallied, CommandsTallied
      <3>2. Total(c, "you")' = w + 1
        BY <1>11, <1>12, <3>1
      <3>3. NumberOf(log'[c], "you", n + 1) = w + 1
        BY <1>10, <3>2 DEF Total
      <3>4. n + 1 \in 1..Len(log'[c]) /\ log'[c][n + 1] = You(r)
        BY <1>1, <1>10
      <3>5. Stands(c, r, w + 1)'
        BY <1>3, <1>9, <3>3, <3>4 DEF Stands, You
      <3>6. QED BY <3>2, <3>5
    <2>3. PICK s : s = wire[c]
      OBVIOUS
    <2>4. phase[c] \notin Gone => \A q \in Asking(c)' : Stands(c, q, w + 1)'
      BY <1>8, <2>2
    <2>5. phase[c] \notin Gone => Total(c, "you")' = w + (IF Asking(c)' = {} THEN 0 ELSE 1)
      BY <1>8, <2>2
    <2>6. \A k \in 1..Len(s) : Stands(c, s[k], k)'
      BY <1>9, <2>1, <2>3
    <2>7. QED BY <1>3, <1>9, <2>3, <2>4, <2>5, <2>6, CommandsStand
  <1>15. OneLive(c)'
    BY <1>8 DEF Tallied, OneLive
  <1>16. QED BY <1>13, <1>14, <1>15 DEF Tallied

(* An entry is stored, in this transcript or in another. *)
LEMMA TallyStore ==
  ASSUME TranscriptInv, [Next]_vars, NEW c \in Channels, Tallied(c), NEW t \in Threads, AddStore(t)
  PROVE  Tallied(c)'
  <1>0. TypeInv /\ RelayInv
    BY DEF TranscriptInv
  <1>1. PICK b \in Channels : b = ListOf(t)
    BY <1>0, EntryType DEF AddStore, AddSteps
  <1>2. CASE b # c
    <2>1. PICK e : log' = [log EXCEPT ![b] = Append(log[b], e)]
      BY <1>1 DEF AddStore
    <2>2. log'[c] = log[c] /\ UNCHANGED <<wire, frames, phase, call>>
      BY <1>0, <1>2, <2>1 DEF AddStore, TypeInv, TypeOK, ListsOK, registry, io
    <2>3. /\ \A u \in Threads : u # t => pc'[u] = pc[u]
          /\ Mine(c) \subseteq Threads /\ c \in Threads
      BY <1>0 DEF AddStore, Goto, TypeInv, TypeOK, ControlOK, Threads, Mine, Commands
    <2>4. t # c /\ t \notin Mine(c)
      BY <1>1, <1>2, ServerAssumption DEF ListOf, Mine, Commands
    <2>5. pc'[c] = pc[c] /\ \A r \in Mine(c) : pc'[r] = pc[r]
      BY <2>3, <2>4
    <2>6. QED BY <2>2, <2>5, TallyElsewhere
  <1>3. CASE b = c /\ t \in Channels
    BY <1>1, <1>3, TallyReply DEF ListOf
  <1>4. CASE b = c /\ t \notin Channels
    <2>1. t \in Requests /\ call[t].id = c
      BY <1>1, <1>4 DEF Threads, ListOf
    <2>2. QED BY <2>1, TallyCommand
  <1>5. QED BY <1>2, <1>3, <1>4

-----------------------------------------------------------------------------
(* What is held against a client stays so. *)
LEMMA HistoryKept ==
  ASSUME [SystemNext]_systemVars
  PROVE  overlapped \subseteq overlapped' /\ hasty \subseteq hasty'
  <1>1. ASSUME NEW d \in Channels, ServerWorker(d) \/ ConnectorWorker(d) \/ Connected(d)
        PROVE  UNCHANGED clients
    BY <1>1 DEF ServerWorker, Deliver, ServerOnly, ConnectorWorker, ConnectorOnly, Connected
  <1>2. ASSUME NEW d \in Channels,
               \/ ConnectorOnly(C!ConnectEnds(d, "closed")) \/ Accept(d)
               \/ ServerOnly(PutTranscript(d)) \/ ReplyArrives(d)
               \/ ServerLoses(d) \/ ConnectorLoses(d)
        PROVE  UNCHANGED clients
    BY <1>2 DEF ConnectorOnly, Accept, ServerOnly, ReplyArrives, ServerLoses, ConnectorLoses
  <1>3. ASSUME NEW r \in Requests, Ask(r) PROVE overlapped \subseteq overlapped' /\ hasty \subseteq hasty'
    BY <1>3 DEF Ask
  <1>4. ASSUME NEW r \in Requests, ServerOnly(RequestStep(r)) PROVE UNCHANGED clients
    BY <1>4 DEF ServerOnly
  <1>5. ASSUME \/ ConnectorOnly(C!Gui)
               \/ \E r \in Readers : ConnectorOnly(C!InsertCard(r) \/ C!RemoveCard(r))
        PROVE  UNCHANGED clients
    BY <1>5 DEF ConnectorOnly
  <1>6. ASSUME UNCHANGED systemVars PROVE UNCHANGED clients
    BY <1>6 DEF systemVars
  <1>7. UNCHANGED clients => overlapped \subseteq overlapped' /\ hasty \subseteq hasty'
    BY DEF clients
  <1>8. QED BY <1>1, <1>2, <1>3, <1>4, <1>5, <1>6, <1>7 DEF SystemNext

(* Who takes turns has always done so. *)
LEMMA TurnsBefore ==
  ASSUME TypeInv, RelayInv, [SystemNext]_systemVars, NEW c \in Channels, Orderly(c)'
  PROVE  Orderly(c)
  <1>1. overlapped \subseteq overlapped'
    BY HistoryKept
  <1>2. raced[c] => raced'[c]
    BY ServerStep, LogsExtended DEF Extended
  <1>3. \A r \in Commands : call' = call
    BY ServerStep, OwnSteps DEF Commands
  <1>4. QED BY <1>1, <1>2, <1>3 DEF Orderly, TakingTurns, Commands

(* The counts hold on, step by step, as long as clients take turns. *)
LEMMA TallyStep ==
  ASSUME TranscriptInv, [SystemNext]_systemVars, NEW c \in Channels, Tallied(c),
         Orderly(c), Orderly(c)'
  PROVE  Tallied(c)'
  <1>1. [Next]_vars
    BY ServerStep
  <1>2. ASSUME NEW d \in Channels, Accept(d) \/ ServerOnly(PutTranscript(d)) \/ ServerLoses(d)
        PROVE  Tallied(c)'
    BY <1>1, <1>2, TallyWorker DEF Accept, ServerLoses, ServerOnly
  <1>3. ASSUME NEW d \in Channels, ServerWorker(d) PROVE Tallied(c)'
    <2>1. CASE Deliver(d)
      BY <1>1, <2>1, TallyFlush DEF Deliver
    <2>2. CASE FailPending(d) \/ RemoveTranscript(d) \/ AddRead(d) \/ AddSize(d) \/ AddThrows(d)
      BY <1>1, <2>2, TallyWorker
    <2>3. CASE AddStore(d)
      BY <1>1, <2>3, TallyStore DEF Threads
    <2>4. QED BY <1>3, <2>1, <2>2, <2>3 DEF ServerWorker, ServerOnly
  <1>4. ASSUME NEW d \in Channels, ReplyArrives(d) PROVE Tallied(c)'
    BY <1>1, <1>4, TallyFrame DEF ReplyArrives, ServerOnly
  <1>5. ASSUME NEW r \in Requests, Ask(r) PROVE Tallied(c)'
    BY <1>1, <1>5, TallyAsk
  <1>6. ASSUME NEW r \in Requests, ServerOnly(RequestStep(r)) PROVE Tallied(c)'
    <2>1. CASE AddStore(r)
      BY <1>1, <2>1, TallyStore DEF Threads
    <2>2. CASE ~AddStore(r)
      BY <1>1, <1>6, <2>2, TallyRequest DEF ServerOnly
    <2>3. QED BY <2>1, <2>2
  <1>7. ASSUME UNCHANGED vars PROVE Tallied(c)'
    <2>1. log'[c] = log[c] /\ UNCHANGED <<wire, frames, pc>>
      BY <1>7 DEF vars, lists, io
    <2>2. QED BY <1>1, <2>1, TallyElsewhere
  <1>8. ASSUME NEW d \in Channels,
               \/ Connected(d) \/ ConnectorOnly(C!ConnectEnds(d, "closed"))
               \/ ConnectorWorker(d) \/ ConnectorLoses(d)
        PROVE  Tallied(c)'
    BY <1>7, <1>8 DEF Connected, ConnectorWorker, ConnectorLoses, ConnectorOnly
  <1>9. ASSUME \/ ConnectorOnly(C!Gui)
               \/ \E r \in Readers : ConnectorOnly(C!InsertCard(r) \/ C!RemoveCard(r))
        PROVE  Tallied(c)'
    BY <1>7, <1>9 DEF ConnectorOnly
  <1>10. CASE UNCHANGED systemVars
    BY <1>7, <1>10 DEF systemVars
  <1>11. QED
    BY <1>2, <1>3, <1>4, <1>5, <1>6, <1>8, <1>9, <1>10 DEF SystemNext

LEMMA TallyInit == SystemInit => \A c \in Channels : Tallied(c)
  <1> SUFFICES ASSUME SystemInit, NEW c \in Channels PROVE Tallied(c)
    OBVIOUS
  <1>1. /\ log[c] = << >> /\ wire[c] = << >> /\ frames[c] = 0 /\ phase[c] = "none"
        /\ \A t \in Threads : pc[t] = "idle"
    BY DEF SystemInit, Init
  <1>2. pc[c] = "idle" /\ \A r \in Mine(c) : pc[r] = "idle"
    BY <1>1 DEF Threads, Mine, Commands
  <1>3. Asking(c) = {} /\ Live(c) = {}
    BY <1>2 DEF Asking, Live
  <1>4. \A sender : Total(c, sender) = 0
    BY <1>1, CountNone DEF Total
  <1>5. QED BY <1>1, <1>2, <1>3, <1>4 DEF Tallied, RepliesTallied, CommandsTallied, OneLive

-----------------------------------------------------------------------------
(* Entry i of transcript c is no reply, or has its command in the same place among
   the commands that it has among the replies. *)
Pairs(c, i) ==
  log[c][i].sender = "reader" =>
    \E j \in 1..i :
      /\ log[c][j] = You(Cause(c, log[c][i].of))
      /\ NumberOf(log[c], "you", j) = NumberOf(log[c], "reader", i)

(* An entry that has its pair keeps it. *)
LEMMA PairsKept ==
  ASSUME SystemInv, [SystemNext]_systemVars, NEW c \in Channels, NEW i \in 1..Len(log[c]),
         Pairs(c, i), \A j \in 1..Len(log[c]) : log'[c][j] = log[c][j]
  PROVE  Pairs(c, i)'
  <1>0. log[c] \in Seq(Entries) /\ Len(log[c]) \in Nat
    BY LenProperties DEF SystemInv, TypeInv, TypeOK, ListsOK
  <1>1. CASE log[c][i].sender # "reader"
    BY <1>1 DEF Pairs
  <1>2. CASE log[c][i].sender = "reader"
    <2>1. PICK n \in 1..MaxFrames : log[c][i] = Reader(n)
      <3>1. log[c][i] \in Entries
        BY <1>0, Elements
      <3>2. QED BY <1>2, <3>1 DEF Entries, You
    <2>2. log[c][i].of = n
      BY <2>1 DEF Reader
    <2>3. n <= Len(replies[c])
      BY <1>2, <2>2 DEF SystemInv, Follows
    <2>4. Cause(c, n)' = Cause(c, n)
      BY <2>3, SameCause
    <2>5. PICK j \in 1..i : /\ log[c][j] = You(Cause(c, n))
                            /\ NumberOf(log[c], "you", j) = NumberOf(log[c], "reader", i)
      BY <1>2, <2>2 DEF Pairs
    <2>6. j \in 1..Len(log[c]) /\ i \in Nat /\ j \in Nat
      BY <1>0
    <2>7. \A k \in 1..i : k \in 1..Len(log[c])
      BY <1>0
    <2>8. NumberOf(log'[c], "reader", i) = NumberOf(log[c], "reader", i)
      BY <2>6, <2>7, CountSame
    <2>9. NumberOf(log'[c], "you", j) = NumberOf(log[c], "you", j)
      <3>1. \A k \in 1..j : k \in 1..Len(log[c])
        BY <1>0, <2>6
      <3>2. QED BY <2>6, <3>1, CountSame
    <2>10. log'[c][j] = You(Cause(c, n)') /\ log'[c][i] = Reader(n)
      BY <2>1, <2>4, <2>5, <2>6
    <2>11. QED BY <2>2, <2>5, <2>8, <2>9, <2>10 DEF Pairs, Reader, You
  <1>3. QED BY <1>1, <1>2

(* What the server has received, the connector has sent, as an answer to something
   the server had written. *)
LEMMA RepliesWritten ==
  ASSUME SystemInv, NEW c \in Channels, NEW n \in 1..MaxFrames, n <= frames[c]
  PROVE  n <= Len(replies[c]) /\ replies[c][n].to <= Len(wire[c])
  <1>1. /\ replies[c] \in Seq([to : 1..MaxCommands, by : C!CardChannels \cup {None}])
        /\ sent[c] \in 0..MaxCommands
    BY SameClients DEF SystemInv, C!TypeOK
  <1>2. wire[c] \in Seq(Requests) /\ frames[c] \in 0..MaxFrames
    BY DEF SystemInv, TypeInv, TypeOK, IoOK
  <1>3. Len(replies[c]) \in Nat /\ Len(wire[c]) \in Nat /\ frames[c] \in Nat
    BY <1>1, <1>2, LenProperties, ServerAssumption
  <1>4. n \in 1..Len(replies[c])
    BY <1>3, ServerAssumption DEF SystemInv, Received
  <1>5. replies[c][n].to \in 1..MaxCommands /\ replies[c][n].to <= sent[c]
    BY <1>1, <1>4, RepliesTyped DEF SystemInv, Numbered
  <1>6. sent[c] <= Len(wire[c])
    BY DEF SystemInv, Delivered
  <1>7. QED BY <1>1, <1>3, <1>4, <1>5, <1>6, SystemAssumption

(* The n-th reply of a connection answers the n-th command written to it. *)
LEMMA AskedInTurn ==
  ASSUME SystemInv, OrderInv, NEW c \in Channels, Tallied(c), NEW n \in 1..MaxFrames,
         n <= Len(replies[c])
  PROVE  Stands(c, Cause(c, n), n)
  <1>1. /\ replies[c] \in Seq([to : 1..MaxCommands, by : C!CardChannels \cup {None}])
        /\ sent[c] \in 0..MaxCommands
    BY SameClients DEF SystemInv, C!TypeOK
  <1>2. wire[c] \in Seq(Requests)
    BY DEF SystemInv, TypeInv, TypeOK, IoOK
  <1>3. n \in 1..Len(replies[c])
    BY <1>1, LenProperties, ServerAssumption
  <1>4. replies[c][n].to = n
    BY <1>3, SameClients DEF OrderInv, C!RepliesInOrder
  <1>5. n <= sent[c]
    BY <1>3, <1>4 DEF SystemInv, Numbered
  <1>6. Len(wire[c]) \in Nat /\ sent[c] <= Len(wire[c])
    BY <1>2, LenProperties DEF SystemInv, Delivered
  <1>7. n \in 1..Len(wire[c])
    BY <1>1, <1>5, <1>6, SystemAssumption, ServerAssumption
  <1>8. QED BY <1>4, <1>7 DEF Tallied, CommandsTallied, Cause

(* A new reply finds the command in its place. *)
LEMMA PairsStep ==
  ASSUME SystemInv, OrderInv, [SystemNext]_systemVars, NEW c \in Channels,
         Tallied(c), Tallied(c)', \A i \in 1..Len(log[c]) : Pairs(c, i)
  PROVE  \A i \in 1..Len(log'[c]) : Pairs(c, i)'
  <1>0. TypeInv /\ log[c] \in Seq(Entries)
    BY DEF SystemInv, TypeInv, TypeOK, ListsOK
  <1>1. CASE log'[c] = log[c]
    BY <1>1, PairsKept
  <1>2. ASSUME NEW e \in Entries, log'[c] = Append(log[c], e),
               e.sender = "reader" => e.of = frames[c] /\ frames[c] \in 1..MaxFrames
        PROVE  \A i \in 1..Len(log'[c]) : Pairs(c, i)'
    <2>1. PICK m : m = Len(log[c])
      OBVIOUS
    <2>2. /\ m \in Nat /\ Len(log'[c]) = m + 1 /\ log'[c][m + 1] = e
          /\ \A i \in 1..m : log'[c][i] = log[c][i]
      BY <1>0, <1>2, <2>1, TallyAppend
    <2>3. \A i \in 1..m : Pairs(c, i)'
      BY <2>1, <2>2, PairsKept
    <2>4. CASE e.sender # "reader"
      <3>1. PICK p : p = m + 1
        OBVIOUS
      <3>2. Pairs(c, p)'
        BY <2>2, <2>4, <3>1 DEF Pairs
      <3>3. \A i \in 1..Len(log'[c]) : i \in 1..m \/ i = p
        BY <2>2, <3>1
      <3>4. QED BY <2>3, <3>2, <3>3
    <2>5. CASE e.sender = "reader"
      <3>1. PICK n \in 1..MaxFrames : n = frames[c] /\ e.of = n
        BY <1>2, <2>5
      <3>2. n <= Len(replies[c])
        BY <3>1 DEF SystemInv, Received
      <3>3. Cause(c, n)' = Cause(c, n)
        BY <3>2, SameCause
      <3>4. Stands(c, Cause(c, n), n)
        BY <3>2, AskedInTurn
      <3>5. PICK j \in 1..m : log[c][j] = You(Cause(c, n)) /\ NumberOf(log[c], "you", j) = n
        BY <2>1, <3>4 DEF Stands
      <3>6. PICK p \in Nat : p = m + 1
        BY <2>2
      <3>7. j \in 1..p /\ j \in Nat /\ p \in 1..Len(log'[c]) /\ \A k \in 1..j : k \in 1..m
        BY <2>2, <3>5, <3>6
      <3>8. NumberOf(log'[c], "you", j) = n
        BY <2>2, <3>5, <3>7, CountSame
      <3>9. log'[c][p].sender = "reader" /\ log'[c][p].of = n
        BY <2>2, <2>5, <3>1, <3>6
      <3>10. NumberOf(log'[c], "reader", p) = n
        BY <3>7, <3>9 DEF Tallied, RepliesTallied
      <3>11. log'[c][j] = You(Cause(c, n)')
        BY <2>2, <3>3, <3>5
      <3>12. Pairs(c, p)'
        BY <3>7, <3>8, <3>9, <3>10, <3>11 DEF Pairs, You
      <3>13. \A i \in 1..Len(log'[c]) : i \in 1..m \/ i = p
        BY <2>2, <3>6
      <3>14. QED BY <2>3, <3>12, <3>13
    <2>6. QED BY <2>4, <2>5
  <1>3. QED BY <1>0, <1>1, <1>2, EntryStep

-----------------------------------------------------------------------------
(* What a run of the two ends keeps for clients that take turns: both ends'
   invariants, the order of the replies, the counts, and with them the pairing. *)
PairInv ==
  /\ SystemInv /\ TranscriptInv /\ OrderInv
  /\ \A c \in Channels : Orderly(c) =>
       Tallied(c) /\ \A i \in 1..Len(log[c]) : Pairs(c, i)

LEMMA PairInvInit == SystemInit => PairInv
  <1> SUFFICES ASSUME SystemInit PROVE PairInv
    OBVIOUS
  <1>1. SystemInv /\ TranscriptInv /\ OrderInv
    BY SystemInvInit, TranscriptInit, OrderInit DEF SystemInit
  <1>2. \A c \in Channels : Tallied(c)
    BY TallyInit
  <1>3. \A c \in Channels : \A i \in 1..Len(log[c]) : Pairs(c, i)
    <2>1. \A c \in Channels : log[c] = << >>
      BY DEF SystemInit, Init
    <2>2. QED BY <2>1
  <1>4. QED BY <1>1, <1>2, <1>3 DEF PairInv

LEMMA PairInvStep == PairInv /\ [SystemNext]_systemVars => PairInv'
  <1> SUFFICES ASSUME PairInv, [SystemNext]_systemVars PROVE PairInv'
    OBVIOUS
  <1>1. SystemInv' /\ TranscriptInv' /\ OrderInv'
    BY SystemInvStep, ServerStep, TranscriptStep, ConnectorStep, OrderInvStep DEF PairInv
  <1>2. ASSUME NEW c \in Channels, Orderly(c)'
        PROVE  Tallied(c)' /\ \A i \in 1..Len(log'[c]) : Pairs(c, i)'
    <2>1. Orderly(c)
      BY <1>2, TurnsBefore DEF PairInv, SystemInv
    <2>2. Tallied(c) /\ \A i \in 1..Len(log[c]) : Pairs(c, i)
      BY <2>1 DEF PairInv
    <2>3. Tallied(c)'
      BY <1>2, <2>1, <2>2, TallyStep DEF PairInv
    <2>4. QED BY <2>2, <2>3, PairsStep DEF PairInv
  <1>3. QED BY <1>1, <1>2 DEF PairInv

(* The invariant holds in every state of both ends together. *)
THEOREM PairInvariant == System => []PairInv
  BY PairInvInit, PairInvStep, PTL DEF System

(* Unless two adds overlapped, a transcript is the entries stored, in order. *)
LEMMA ShowsLog ==
  ASSUME PairInv, NEW c \in Channels, NEW i \in 1..Len(elementData[c]),
         IsReply(elementData[c][i]), ~raced[c]
  PROVE  /\ i \in 1..Len(log[c]) /\ log[c][i] = elementData[c][i]
         /\ log[c][i].sender = "reader"
         /\ \A j \in 1..i : elementData[c][j] = log[c][j]
  <1>1. Stored(c)
    BY DEF PairInv, TranscriptInv, Exact
  <1>2. Len(elementData[c]) \in Nat /\ Len(log[c]) \in Nat
    BY LenProperties DEF PairInv, SystemInv, TypeInv, TypeOK, ListsOK
  <1>3. elementData[c][i] # Null /\ elementData[c][i].sender = "reader"
    BY DEF IsReply
  <1>4. QED BY <1>1, <1>2, <1>3 DEF Stored

(* Each reply in a transcript answers a command that was written to that very
   connection, and, unless two adds overlapped, this command stands before it,
   whatever the HTTP workers, the channel's worker, the network and the connector's
   threads do. *)
THEOREM RepliesHaveTheirCommand == System => []RepliesFollowCommands
  <1>1. PairInv => RepliesFollowCommands
    <2> SUFFICES ASSUME PairInv, NEW c \in Channels, NEW i \in 1..Len(elementData[c]),
                        IsReply(elementData[c][i])
                 PROVE  LET n == elementData[c][i].of IN
                        /\ n <= Len(replies[c]) /\ replies[c][n].to <= Len(wire[c])
                        /\ raced[c] \/ \E j \in 1..i : elementData[c][j] = You(Cause(c, n))
      BY DEF RepliesFollowCommands
    <2>1. SystemInv /\ NoCrossTalk
      BY DEF PairInv, TranscriptInv
    <2>2. elementData[c] \in Seq(Entries \cup {Null})
      BY <2>1 DEF SystemInv, TypeInv, TypeOK, ListsOK
    <2>3. PICK e : e = elementData[c][i]
      OBVIOUS
    <2>4. e \in Entries /\ e.sender = "reader" /\ e \in ToSet(elementData[c])
      BY <2>2, <2>3 DEF IsReply, ToSet
    <2>5. PICK n \in 1..MaxFrames : n = e.of
      BY <2>4 DEF Entries, You, Reader
    <2>6. n <= frames[c]
      BY <2>1, <2>4, <2>5, NullAssumption DEF NoCrossTalk, Entitled
    <2>7. n <= Len(replies[c]) /\ replies[c][n].to <= Len(wire[c])
      BY <2>1, <2>6, RepliesWritten
    <2>8. ASSUME ~raced[c] PROVE \E j \in 1..i : elementData[c][j] = You(Cause(c, n))
      <3>1. i \in 1..Len(log[c]) /\ log[c][i] = e /\ \A j \in 1..i : elementData[c][j] = log[c][j]
        BY <2>3, <2>8, ShowsLog
      <3>2. \E j \in 1..i : log[c][j] = You(Cause(c, n))
        BY <2>1, <2>4, <2>5, <3>1 DEF SystemInv, Follows
      <3>3. QED BY <3>1, <3>2
    <2>9. QED BY <2>3, <2>5, <2>7, <2>8
  <1>2. QED BY <1>1, PairInvariant, PTL

(* If clients take turns and no two adds overlapped, the k-th reply in a transcript
   stands after its k-th command and is the reply to it, whatever happens in
   between: between the HTTP workers, the connection's worker, the network and the
   connector's threads. *)
THEOREM TranscriptsPairUp == System => []TranscriptPairsUp
  <1>1. PairInv => TranscriptPairsUp
    <2> SUFFICES ASSUME PairInv, NEW c \in Channels, TakingTurns(c), ~raced[c],
                        NEW i \in 1..Len(elementData[c]), IsReply(elementData[c][i])
                 PROVE  \E j \in 1..i :
                          /\ elementData[c][j] = You(Cause(c, elementData[c][i].of))
                          /\ NumberOf(elementData[c], "you", j) = NumberOf(elementData[c], "reader", i)
      BY DEF TranscriptPairsUp
    <2>1. /\ i \in 1..Len(log[c]) /\ log[c][i] = elementData[c][i]
          /\ log[c][i].sender = "reader"
          /\ \A j \in 1..i : elementData[c][j] = log[c][j]
      BY ShowsLog
    <2>2. Pairs(c, i)
      BY <2>1 DEF PairInv, Orderly
    <2>3. PICK j \in 1..i :
            /\ log[c][j] = You(Cause(c, log[c][i].of))
            /\ NumberOf(log[c], "you", j) = NumberOf(log[c], "reader", i)
      BY <2>1, <2>2 DEF Pairs
    <2>4. i \in Nat /\ j \in Nat /\ \A k \in 1..j : k \in 1..i
      BY <2>1, <2>3
    <2>5. NumberOf(elementData[c], "you", j) = NumberOf(log[c], "you", j)
      BY <2>1, <2>4, CountSame
    <2>6. NumberOf(elementData[c], "reader", i) = NumberOf(log[c], "reader", i)
      BY <2>1, <2>4, CountSame
    <2>7. QED BY <2>1, <2>3, <2>5, <2>6
  <1>2. QED BY <1>1, PairInvariant, PTL

-----------------------------------------------------------------------------
(* A client that waits until its command is answered and the reply stored leaves no
   two adds to the transcript to overlap: while a command is under way nothing else
   is, on either side. *)
Patient(c) ==
  c \notin hasty =>
    /\ ~raced[c] /\ OneLive(c)
    /\ Live(c) # {} => Settled(c)

(* A request starts only when a client asks. *)
LEMMA IdleKept ==
  ASSUME TypeInv, RelayInv, [SystemNext]_systemVars, NEW r \in Requests, pc[r] = "idle"
  PROVE  pc'[r] = "idle" \/ Ask(r)
  <1>0. pc \in [Threads -> PcStates] /\ r \in Threads /\ r \notin Channels
    BY ServerAssumption DEF TypeInv, TypeOK, ControlOK, Threads
  <1>1. ASSUME UNCHANGED pc \/ \E t \in Threads \ {r}, s \in PcStates : Goto(t, s)
        PROVE  pc'[r] = "idle"
    BY <1>0, <1>1 DEF Goto
  <1>2. ASSUME NEW t \in Threads, AddRead(t) \/ AddSize(t) \/ AddStore(t) \/ AddThrows(t)
        PROVE  pc'[r] = "idle"
    <2>1. t # r
      BY <1>2 DEF AddRead, AddSize, AddStore, AddThrows
    <2>2. \E s \in PcStates : Goto(t, s)
      BY <1>2 DEF AddRead, AddSize, AddStore, AddThrows, Finish, PcStates
    <2>3. QED BY <1>1, <2>1, <2>2
  <1>3. ASSUME NEW q \in Requests, RequestStep(q) PROVE pc'[r] = "idle"
    <2>1. CASE AddRead(q) \/ AddSize(q) \/ AddStore(q) \/ AddThrows(q)
      BY <1>2, <2>1 DEF Threads
    <2>2. CASE Check(q) \/ TranscriptGone(q) \/ RecordCommand(q) \/ FindChannel(q) \/ WriteCommand(q)
                 \/ BeginRead(q) \/ ReadNext(q) \/ BeginList(q) \/ ListNext(q) \/ EndList(q)
      <3>1. pc[q] # "idle"
        BY <2>2 DEF Check, TranscriptGone, RecordCommand, FindChannel, WriteCommand, BeginRead,
                    ReadNext, BeginList, ListNext, EndList
      <3>2. UNCHANGED pc \/ \E s \in PcStates : Goto(q, s)
        BY <2>2 DEF Check, TranscriptGone, RecordCommand, FindChannel, WriteCommand, BeginRead,
                    ReadNext, BeginList, ListNext, EndList, BeginAdd, Finish, PcStates
      <3>3. QED BY <1>1, <3>1, <3>2 DEF Threads
    <2>3. QED BY <1>3, <2>1, <2>2 DEF RequestStep
  <1>4. ASSUME NEW q \in Requests, Ask(q), q # r PROVE pc'[r] = "idle"
    <2>1. Goto(q, "handle") /\ "handle" \in PcStates
      BY <1>4 DEF Ask, Submit, PcStates
    <2>2. QED BY <1>1, <1>4, <2>1 DEF Threads
  <1>5. ASSUME NEW d \in Channels, FailPending(d) \/ Flush(d) PROVE pc'[r] = "idle"
    <2>1. pending[d] \in Seq(Requests) /\ \A q \in ToSet(pending[d]) : q # r
      BY DEF TypeInv, TypeOK, IoOK, RelayInv, QueueHolds
    <2>2. CASE FailPending(d)
      BY <1>0, <2>1, <2>2 DEF FailPending
    <2>3. CASE Flush(d)
      <3>1. PICK q \in Requests : q = Head(pending[d]) /\ q \in ToSet(pending[d])
        BY <2>1, <2>3, ToSetHeadTail, HeadTailProperties DEF Flush
      <3>2. Goto(q, "done") /\ q # r /\ "done" \in PcStates
        BY <2>1, <2>3, <3>1 DEF Flush, Finish, PcStates
      <3>3. QED BY <1>1, <3>2 DEF Threads
    <2>4. QED BY <1>5, <2>2, <2>3
  <1>6. ASSUME NEW d \in Channels, MessageReceived(d) PROVE pc'[r] = "idle"
    <2>1. Goto(d, "addRead") /\ "addRead" \in PcStates /\ d # r /\ d \in Threads
      BY <1>0, <1>6 DEF MessageReceived, BeginAdd, PcStates, Threads
    <2>2. QED BY <1>1, <2>1
  <1>7. ASSUME NEW d \in Channels,
               OpenChannel(d) \/ PutTranscript(d) \/ CloseChannel(d) \/ RemoveTranscript(d)
        PROVE  pc'[r] = "idle"
    BY <1>1, <1>7 DEF OpenChannel, PutTranscript, CloseChannel, RemoveTranscript
  <1>8. ASSUME NEW d \in Channels,
               \/ Connected(d) \/ ConnectorOnly(C!ConnectEnds(d, "closed"))
               \/ ConnectorWorker(d) \/ ConnectorLoses(d)
        PROVE  pc'[r] = "idle"
    BY <1>1, <1>8 DEF Connected, ConnectorWorker, ConnectorLoses, ConnectorOnly, vars
  <1>9. ASSUME NEW d \in Channels,
               \/ Accept(d) \/ ServerOnly(PutTranscript(d)) \/ ReplyArrives(d) \/ ServerWorker(d)
               \/ ServerLoses(d)
        PROVE  pc'[r] = "idle"
    BY <1>2, <1>5, <1>6, <1>7, <1>9
    DEF Accept, ReplyArrives, ServerWorker, ServerLoses, ServerOnly, Deliver, Threads
  <1>10. ASSUME \/ ConnectorOnly(C!Gui)
                \/ \E x \in Readers : ConnectorOnly(C!InsertCard(x) \/ C!RemoveCard(x))
         PROVE  pc'[r] = "idle"
    BY <1>1, <1>10 DEF ConnectorOnly, vars
  <1>11. CASE UNCHANGED systemVars
    BY <1>1, <1>11 DEF systemVars, vars
  <1>12. QED
    BY <1>3, <1>4, <1>8, <1>9, <1>10, <1>11 DEF SystemNext, ServerOnly

(* The commands of a connection on their way are those that were, or one that a
   client has just asked for. *)
LEMMA LiveStep ==
  ASSUME TypeInv, RelayInv, [SystemNext]_systemVars, NEW c \in Channels,
         NEW r \in Live(c)'
  PROVE  r \in Live(c) \/ (r \in Mine(c) /\ Ask(r))
  <1>1. [Next]_vars
    BY ServerStep
  <1>2. r \in Mine(c) /\ r \in Requests /\ pc'[r] \notin {"idle", "done"}
    BY <1>1, MineKept DEF Live, Mine, Commands
  <1>3. pc[r] # "done"
    <2>1. CASE RequestStep(r)
      BY <2>1 DEF RequestStep, Check, TranscriptGone, RecordCommand, FindChannel, WriteCommand,
                  BeginRead, ReadNext, BeginList, ListNext, EndList, AddRead, AddSize, AddStore, AddThrows
    <2>2. CASE Submit(r)
      BY <2>2 DEF Submit
    <2>3. CASE Bystander(r)
      BY <1>2, <2>3 DEF Bystander
    <2>4. QED BY <1>1, <1>2, <2>1, <2>2, <2>3, OwnSteps
  <1>4. CASE pc[r] = "idle"
    BY <1>2, <1>4, IdleKept
  <1>5. CASE pc[r] # "idle"
    BY <1>2, <1>3, <1>5 DEF Live
  <1>6. QED BY <1>4, <1>5

(* Nobody adds to a transcript whose worker is idle and whose commands do not. *)
LEMMA NobodyAdds ==
  ASSUME TypeInv, RelayInv, NEW c \in Channels, pc[c] = "idle",
         \A q \in Live(c) : pc[q] \notin AddSteps
  PROVE  Adding(c) = {}
  <1> SUFFICES ASSUME NEW t \in Threads, pc[t] \in AddSteps, ListOf(t) = c PROVE FALSE
    BY DEF Adding, AddSteps
  <1>1. CASE t \in Channels
    BY <1>1 DEF ListOf, AddSteps
  <1>2. CASE t \notin Channels
    <2>1. t \in Requests /\ call[t].id = c
      BY <1>2 DEF Threads, ListOf
    <2>2. t \in Commands
      BY <2>1 DEF RelayInv, OnCourse
    <2>3. t \in Live(c)
      BY <2>1, <2>2 DEF Live, Mine, AddSteps
    <2>4. QED BY <2>3
  <1>3. QED BY <1>1, <1>2

(* Two adds overlap when a frame or a command is added during another add. *)
LEMMA RaceBegins ==
  ASSUME TypeInv, [Next]_vars, NEW c \in Channels, raced'[c], ~raced[c]
  PROVE  /\ Adding(c) # {}
         /\ MessageReceived(c) \/ \E r \in Requests : RecordCommand(r) /\ call[r].id = c
  <1>0. raced \in [Channels -> BOOLEAN]
    BY DEF TypeInv, TypeOK, ListsOK
  <1>1. ASSUME UNCHANGED raced PROVE FALSE
    BY <1>1
  <1>2. ASSUME NEW t \in Threads, NEW d \in Channels, BeginAdd(t, d)
        PROVE  d = c /\ Adding(c) # {}
    <2>1. raced'[c] = IF d = c THEN raced[c] \/ Adding(c) # {} ELSE raced[c]
      BY <1>0, <1>2 DEF BeginAdd
    <2>2. QED BY <2>1
  <1>3. ASSUME NEW d \in Channels, MessageReceived(d)
        PROVE  Adding(c) # {} /\ MessageReceived(c)
    BY <1>2, <1>3 DEF MessageReceived, Threads
  <1>4. ASSUME NEW r \in Requests, RecordCommand(r)
        PROVE  Adding(c) # {} /\ call[r].id = c
    <2>1. call[r].id \in Channels
      BY DEF TypeInv, TypeOK, ControlOK, Calls
    <2>2. QED BY <1>2, <1>4, <2>1 DEF RecordCommand, Threads
  <1>5. ASSUME NEW d \in Channels,
               OpenChannel(d) \/ PutTranscript(d) \/ CloseChannel(d) \/ RemoveTranscript(d)
                 \/ FailPending(d) \/ Flush(d)
        PROVE  FALSE
    BY <1>1, <1>5 DEF OpenChannel, PutTranscript, CloseChannel, RemoveTranscript, FailPending, Flush, lists
  <1>6. ASSUME NEW r \in Requests,
               Submit(r) \/ Check(r) \/ TranscriptGone(r) \/ FindChannel(r) \/ WriteCommand(r)
                 \/ BeginRead(r) \/ ReadNext(r) \/ BeginList(r) \/ ListNext(r) \/ EndList(r)
        PROVE  FALSE
    BY <1>1, <1>6 DEF Submit, Check, TranscriptGone, FindChannel, WriteCommand, BeginRead, ReadNext,
                      BeginList, ListNext, EndList, lists
  <1>7. ASSUME NEW t \in Threads, AddRead(t) \/ AddSize(t) \/ AddStore(t) \/ AddThrows(t) PROVE FALSE
    BY <1>1, <1>7 DEF AddRead, AddSize, AddStore, AddThrows, lists
  <1>8. CASE UNCHANGED vars
    BY <1>1, <1>8 DEF vars, lists
  <1>9. QED
    BY <1>3, <1>4, <1>5, <1>6, <1>7, <1>8
    DEF Next, Environment, WorkerStep, RequestStep, Threads

(* A worker leaves its wait for events only to take a frame. *)
LEMMA WorkerIdleKept ==
  ASSUME TypeInv, [Next]_vars, NEW c \in Channels, pc[c] = "idle"
  PROVE  pc'[c] = "idle" \/ MessageReceived(c)
  <1>0. pc \in [Threads -> PcStates] /\ c \in Threads /\ c \notin Requests
    BY ServerAssumption DEF TypeInv, TypeOK, ControlOK, Threads
  <1>1. ASSUME UNCHANGED pc \/ \E t \in Threads \ {c}, s \in PcStates : Goto(t, s)
        PROVE  pc'[c] = "idle"
    BY <1>0, <1>1 DEF Goto
  <1>2. ASSUME NEW t \in Threads, AddRead(t) \/ AddSize(t) \/ AddStore(t) \/ AddThrows(t)
        PROVE  pc'[c] = "idle"
    <2>1. t # c
      BY <1>2 DEF AddRead, AddSize, AddStore, AddThrows
    <2>2. \E s \in PcStates : Goto(t, s)
      BY <1>2 DEF AddRead, AddSize, AddStore, AddThrows, Finish, PcStates
    <2>3. QED BY <1>1, <2>1, <2>2
  <1>3. ASSUME NEW q \in Requests,
               Submit(q) \/ Check(q) \/ TranscriptGone(q) \/ RecordCommand(q) \/ FindChannel(q)
                 \/ WriteCommand(q) \/ BeginRead(q) \/ ReadNext(q) \/ BeginList(q) \/ ListNext(q)
                 \/ EndList(q)
        PROVE  pc'[c] = "idle"
    <2>1. UNCHANGED pc \/ \E s \in PcStates : Goto(q, s)
      BY <1>3 DEF Submit, Check, TranscriptGone, RecordCommand, FindChannel, WriteCommand, BeginRead,
                  ReadNext, BeginList, ListNext, EndList, BeginAdd, Finish, PcStates
    <2>2. QED BY <1>0, <1>1, <2>1 DEF Threads
  <1>4. ASSUME NEW d \in Channels, FailPending(d) \/ Flush(d) PROVE pc'[c] = "idle"
    <2>1. pending[d] \in Seq(Requests) /\ ToSet(pending[d]) \subseteq Requests
      BY DEF TypeInv, TypeOK, IoOK, ToSet
    <2>2. CASE FailPending(d)
      BY <1>0, <2>1, <2>2 DEF FailPending
    <2>3. CASE Flush(d)
      <3>1. PICK q \in Requests : q = Head(pending[d])
        BY <2>1, <2>3, HeadTailProperties DEF Flush
      <3>2. Goto(q, "done") /\ "done" \in PcStates
        BY <2>3, <3>1 DEF Flush, Finish, PcStates
      <3>3. QED BY <1>0, <1>1, <3>2 DEF Threads
    <2>4. QED BY <1>4, <2>2, <2>3
  <1>5. ASSUME NEW d \in Channels, MessageReceived(d), d # c PROVE pc'[c] = "idle"
    <2>1. Goto(d, "addRead") /\ "addRead" \in PcStates /\ d \in Threads
      BY <1>5 DEF MessageReceived, BeginAdd, PcStates, Threads
    <2>2. QED BY <1>1, <1>5, <2>1
  <1>6. ASSUME NEW d \in Channels,
               OpenChannel(d) \/ PutTranscript(d) \/ CloseChannel(d) \/ RemoveTranscript(d)
        PROVE  pc'[c] = "idle"
    BY <1>1, <1>6 DEF OpenChannel, PutTranscript, CloseChannel, RemoveTranscript
  <1>7. CASE UNCHANGED vars
    BY <1>1, <1>7 DEF vars
  <1>8. QED
    BY <1>2, <1>3, <1>4, <1>5, <1>6, <1>7
    DEF Next, Environment, WorkerStep, RequestStep, Threads

(* The connector never writes more replies than the server has written commands. *)
LEMMA FewReplies ==
  ASSUME SystemInv, OrderInv, NEW c \in Channels
  PROVE  Len(replies[c]) <= Len(wire[c])
  <1>1. /\ replies[c] \in Seq([to : 1..MaxCommands, by : C!CardChannels \cup {None}])
        /\ sent[c] \in 0..MaxCommands /\ wire[c] \in Seq(Requests)
    BY SameClients DEF SystemInv, C!TypeOK, TypeInv, TypeOK, IoOK
  <1>2. PICK m : m = Len(replies[c])
    OBVIOUS
  <1>3. m \in Nat /\ Len(wire[c]) \in Nat /\ sent[c] \in Nat /\ sent[c] <= Len(wire[c])
    BY <1>1, <1>2, LenProperties, SystemAssumption DEF SystemInv, Delivered
  <1>4. CASE m = 0
    BY <1>2, <1>3, <1>4
  <1>5. CASE m # 0
    <2>1. m \in 1..Len(replies[c])
      BY <1>2, <1>3, <1>5
    <2>2. replies[c][m].to = m
      BY <2>1, SameClients DEF OrderInv, C!RepliesInOrder
    <2>3. replies[c][m].to <= sent[c]
      BY <2>1 DEF SystemInv, Numbered
    <2>4. QED BY <1>2, <1>3, <2>2, <2>3
  <1>6. QED BY <1>4, <1>5

(* Once every reply is in the transcript, no frame comes in, and all stays so until
   the next command is written. *)
LEMMA SettledStep ==
  ASSUME SystemInv, OrderInv, [SystemNext]_systemVars, NEW c \in Channels, Settled(c)
  PROVE  ~MessageReceived(c) /\ (Settled(c)' \/ Flush(c))
  <1>0. /\ wire \in [Channels -> Seq(Requests)] /\ frames \in [Channels -> 0..MaxFrames]
        /\ TypeInv
    BY DEF SystemInv, TypeInv, TypeOK, IoOK
  <1>1. ~ReplyArrives(c)
    <2>1. replies[c] \in Seq([to : 1..MaxCommands, by : C!CardChannels \cup {None}])
      BY SameClients DEF SystemInv, C!TypeOK
    <2>2. Len(replies[c]) \in Nat /\ Len(wire[c]) \in Nat
      BY <1>0, <2>1, LenProperties
    <2>3. QED BY <2>2, FewReplies DEF ReplyArrives, Settled
  <1>2. frames'[c] = frames[c] /\ (wire'[c] = wire[c] \/ Flush(c))
    <2>1. ASSUME NEW d \in Channels, Deliver(d)
          PROVE  frames'[c] = frames[c] /\ (wire'[c] = wire[c] \/ Flush(c))
      BY <1>0, <2>1 DEF Deliver, Flush
    <2>2. ASSUME NEW d \in Channels, ReplyArrives(d)
          PROVE  frames'[c] = frames[c] /\ (wire'[c] = wire[c] \/ Flush(c))
      BY <1>0, <1>1, <2>2 DEF ReplyArrives, ServerOnly, MessageReceived
    <2>3. CASE \E t \in Threads : ServerOnly(AddStore(t))
      BY <2>3 DEF ServerOnly, AddStore, io
    <2>4. CASE ConnectorMoves
      BY <2>4 DEF ConnectorMoves, vars, io
    <2>5. QED BY <2>1, <2>2, <2>3, <2>4, SystemMoves
  <1>3. ~MessageReceived(c)
    <2>1. ASSUME MessageReceived(c) PROVE frames'[c] = frames[c] + 1
      BY <1>0, <2>1 DEF MessageReceived
    <2>2. frames[c] \in Nat
      BY <1>0, ServerAssumption
    <2>3. QED BY <1>2, <2>1, <2>2
  <1>4. pc'[c] = "idle"
    BY <1>0, <1>3, ServerStep, WorkerIdleKept DEF Settled
  <1>5. QED BY <1>2, <1>3, <1>4 DEF Settled

LEMMA PatientStep ==
  ASSUME SystemInv, OrderInv, [SystemNext]_systemVars, NEW c \in Channels, Patient(c)
  PROVE  Patient(c)'
  <1> SUFFICES ASSUME c \notin hasty'
               PROVE  (~raced[c] /\ OneLive(c) /\ (Live(c) # {} => Settled(c)))'
    BY DEF Patient
  <1>0. TypeInv /\ RelayInv /\ [Next]_vars
    BY ServerStep DEF SystemInv
  <1>1. ~raced[c] /\ OneLive(c) /\ (Live(c) # {} => Settled(c))
    BY HistoryKept DEF Patient
  <1>2. ASSUME NEW r \in Mine(c), Ask(r)
        PROVE  (~raced[c] /\ OneLive(c) /\ (Live(c) # {} => Settled(c)))'
    <2>1. r \in Commands /\ call[r].id = c /\ r \in Requests
      BY DEF Mine, Commands
    <2>2. Waiting(c) = {} /\ Settled(c)
      BY <1>2, <2>1 DEF Ask
    <2>3. Live(c) = {}
      BY <1>0, <2>2 DEF Live, Mine, Commands, Waiting, RelayInv, OnCourse
    <2>4. /\ UNCHANGED <<raced, frames, wire>> /\ pc' = [pc EXCEPT ![r] = "handle"]
      BY <1>2 DEF Ask, Submit, Goto, lists, io
    <2>5. pc'[c] = pc[c] /\ \A q \in Requests : q # r => pc'[q] = pc[q]
      BY <1>0, <2>1, <2>4, ServerAssumption DEF TypeInv, TypeOK, ControlOK, Threads
    <2>6. Mine(c)' = Mine(c) /\ Mine(c) \subseteq Requests
      BY <1>0, MineKept DEF Mine, Commands
    <2>7. Live(c)' \subseteq {r}
      BY <2>3, <2>5, <2>6 DEF Live
    <2>8. OneLive(c)'
      BY <2>7 DEF OneLive
    <2>9. Settled(c)'
      BY <2>2, <2>4, <2>5 DEF Settled
    <2>10. QED BY <1>1, <2>4, <2>8, <2>9
  <1>3. ASSUME \A r \in Mine(c) : ~Ask(r)
        PROVE  (~raced[c] /\ OneLive(c) /\ (Live(c) # {} => Settled(c)))'
    <2>1. Live(c)' \subseteq Live(c)
      BY <1>0, <1>3, LiveStep
    <2>2. OneLive(c)'
      BY <1>1, <2>1 DEF OneLive
    <2>3. ASSUME Live(c)' # {} PROVE Settled(c)'
      <3>1. PICK r : r \in Live(c)' /\ r \in Live(c)
        BY <2>1, <2>3
      <3>2. Settled(c)
        BY <1>1, <3>1
      <3>3. ASSUME Flush(c) PROVE FALSE
        <4>1. pending[c] \in Seq(Requests) /\ pending[c] # << >>
          BY <1>0, <3>3 DEF TypeInv, TypeOK, IoOK, Flush
        <4>2. PICK q \in Requests : q = Head(pending[c]) /\ q \in ToSet(pending[c])
          BY <4>1, ToSetHeadTail, HeadTailProperties
        <4>3. q \in Live(c)
          BY <1>0, <4>2 DEF RelayInv, QueueHolds, Live, Mine
        <4>4. q = r
          BY <1>1, <3>1, <4>3 DEF OneLive
        <4>5. pc'[q] = "done"
          BY <1>0, <3>3, <4>2 DEF Flush, Finish, Goto, TypeInv, TypeOK, ControlOK, Threads
        <4>6. pc'[r] # "done"
          BY <3>1 DEF Live
        <4>7. QED BY <4>4, <4>5, <4>6
      <3>4. QED BY <3>2, <3>3, SettledStep
    <2>4. ASSUME raced'[c] PROVE FALSE
      <3>1. /\ Adding(c) # {}
            /\ MessageReceived(c) \/ \E r \in Requests : RecordCommand(r) /\ call[r].id = c
        BY <1>0, <1>1, <2>4, RaceBegins
      <3>2. CASE MessageReceived(c)
        <4>1. Live(c) = {}
          BY <1>1, <3>2, SettledStep
        <4>2. pc[c] = "idle"
          BY <3>2 DEF MessageReceived, Idle
        <4>3. QED BY <1>0, <3>1, <4>1, <4>2, NobodyAdds
      <3>3. ASSUME NEW r \in Requests, RecordCommand(r), call[r].id = c PROVE FALSE
        <4>1. r \in Live(c) /\ pc[r] = "get"
          BY <3>3 DEF RecordCommand, Live, Mine, Commands
        <4>2. pc[c] = "idle"
          BY <1>1, <4>1 DEF Settled
        <4>3. \A q \in Live(c) : pc[q] \notin AddSteps
          BY <1>1, <4>1 DEF OneLive, AddSteps
        <4>4. QED BY <1>0, <3>1, <4>2, <4>3, NobodyAdds
      <3>4. QED BY <3>1, <3>2, <3>3
    <2>5. QED BY <2>2, <2>3, <2>4
  <1>4. QED BY <1>2, <1>3

LEMMA PatientInit == SystemInit => \A c \in Channels : Patient(c)
  <1> SUFFICES ASSUME SystemInit, NEW c \in Channels PROVE Patient(c)
    OBVIOUS
  <1>1. ~raced[c] /\ \A t \in Threads : pc[t] = "idle"
    BY DEF SystemInit, Init
  <1>2. Live(c) = {}
    BY <1>1 DEF Live, Mine, Commands, Threads
  <1>3. QED BY <1>1, <1>2 DEF Patient, OneLive

(* No two adds to a transcript ever overlap if whoever sends a command to its
   connection waits until the command before is answered and its reply stored: the
   worker of the server, the network, and the card bring no reply late. *)
THEOREM PatientClientsDoNotRace == System => []PatienceAvoidsRaces
  <1> DEFINE PatientInv == PairInv /\ \A c \in Channels : Patient(c)
  <1>1. SystemInit => PatientInv
    BY PairInvInit, PatientInit
  <1>2. PatientInv /\ [SystemNext]_systemVars => PatientInv'
    <2> SUFFICES ASSUME PatientInv, [SystemNext]_systemVars PROVE PatientInv'
      OBVIOUS
    <2>1. PairInv'
      BY PairInvStep
    <2>2. \A c \in Channels : Patient(c)'
      BY PatientStep DEF PairInv
    <2>3. QED BY <2>1, <2>2
  <1>3. PatientInv => PatienceAvoidsRaces
    BY DEF Patient, PatienceAvoidsRaces
  <1>4. QED BY <1>1, <1>2, <1>3, PTL DEF System

(* The commands of a connection are answered once each and in their order, also
   when the server sends them as its own clients ask for them. *)
THEOREM SystemRepliesInOrder == System => []C!RepliesInOrder
  <1>1. PairInv => C!RepliesInOrder
    BY DEF PairInv, OrderInv
  <1>2. QED BY <1>1, PairInvariant, PTL

=============================================================================
