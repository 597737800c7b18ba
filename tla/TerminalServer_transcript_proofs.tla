------------------- MODULE TerminalServer_transcript_proofs -------------------
(***************************************************************************)
(* What becomes of a transcript and of those who look at it: it is exact   *)
(* unless two adds overlapped, reads see a prefix of it, commands fail and *)
(* listings are empty only for a reason, and the server implements the     *)
(* relay.                                                                  *)
(***************************************************************************)
EXTENDS TerminalServer_proofs

(* Group and map follow the life of a connection, and its worker turns to the
   next event only when it is out of messageReceived. *)
PhaseInv ==
  \A c \in Channels :
    /\ c \in allChannels <=> phase[c] \in {"opening", "open"}
    /\ c \in pcscData <=> phase[c] \in {"open", "closing", "drained"}
    /\ pc[c] # "idle" => phase[c] \in {"open", "closing"}

Opened == {"open"} \cup Gone

(* A request that got past the check in pcscData names a connection that was
   opened, and each action keeps to its own steps. *)
Role(r) ==
  /\ pc[r] = "iterate" => call[r].action = "getPcscClient"
  /\ pc[r] = "scan" => call[r].action = "getPcscClients"
  /\ pc[r] \in {"get", "find", "write", "await", "iterate"} \cup AddSteps
       => call[r].action # "getPcscClients" /\ phase[call[r].id] \in Opened
  /\ call[r].action = "getPcscClient" /\ pc[r] \in {"idle", "handle", "get"} => view[r] = << >>
  /\ call[r].action = "getPcscClients" /\ pc[r] \in {"idle", "handle"} => view[r] = << >>

(* A connection a listing has still to find is on its list of those to visit. *)
Listing(r) ==
  /\ pc[r] = "scan" => \A c \in known[r] : phase[c] # "none"
  /\ call[r].action = "getPcscClients" /\ (pc[r] = "scan" \/ answer[r] = "ok") =>
       \A c \in known[r] :
         phase[c] \in Gone \/ view[r] # << >> \/ (pc[r] = "scan" /\ c \in todo[r])

-----------------------------------------------------------------------------
LEMMA PhaseInit == Init => PhaseInv
  BY DEF Init, PhaseInv, Threads

LEMMA PhaseStep == TypeInv /\ PhaseInv /\ [Next]_vars => PhaseInv'
  <1> SUFFICES ASSUME TypeInv, PhaseInv, [Next]_vars PROVE PhaseInv'
    OBVIOUS
  <1>0. /\ phase \in [Channels -> Phases] /\ pc \in [Threads -> PcStates]
        /\ allChannels \subseteq Channels /\ pcscData \subseteq Channels
    BY DEF TypeInv, TypeOK, RegistryOK, ControlOK
  <1> DEFINE Same == UNCHANGED registry /\ \A c \in Channels : pc'[c] \in {pc[c], "idle"}
  <1>1. ASSUME Same PROVE PhaseInv'
    BY <1>1 DEF PhaseInv, registry
  <1>2. ASSUME NEW r \in Requests, NEW s \in PcStates, Goto(r, s), UNCHANGED registry
        PROVE  PhaseInv'
    BY <1>0, <1>1, <1>2, ServerAssumption DEF Goto, Threads
  <1>3. ASSUME NEW c \in Channels,
               OpenChannel(c) \/ PutTranscript(c) \/ CloseChannel(c) \/ RemoveTranscript(c)
        PROVE  PhaseInv'
    BY <1>0, <1>3 DEF PhaseInv, OpenChannel, PutTranscript, CloseChannel, RemoveTranscript, Idle, Phases
  <1>4. ASSUME NEW c \in Channels, FailPending(c) PROVE PhaseInv'
    <2>1. ToSet(pending[c]) \subseteq Requests
      BY DEF TypeInv, TypeOK, IoOK, ToSet
    <2>2. \A d \in Channels : pc'[d] = pc[d]
      BY <1>4, <2>1, ServerAssumption DEF FailPending, Threads
    <2>3. QED BY <1>0, <1>4, <2>2 DEF PhaseInv, FailPending, Idle, Phases
  <1>5. ASSUME NEW c \in Channels, Flush(c) PROVE PhaseInv'
    <2>1. PICK r \in Requests : r = Head(pending[c])
      BY <1>5, HeadTailProperties DEF Flush, TypeInv, TypeOK, IoOK
    <2>2. QED BY <1>2, <1>5, <2>1 DEF Flush, Finish, PcStates
  <1>6. ASSUME NEW c \in Channels, MessageReceived(c) PROVE PhaseInv'
    BY <1>0, <1>6 DEF PhaseInv, MessageReceived, BeginAdd, Goto, registry, Threads
  <1>7. ASSUME NEW r \in Requests, Submit(r) PROVE PhaseInv'
    BY <1>2, <1>7 DEF Submit, PcStates
  <1>8. ASSUME NEW r \in Requests,
               Check(r) \/ TranscriptGone(r) \/ RecordCommand(r) \/ FindChannel(r)
                 \/ WriteCommand(r) \/ BeginRead(r) \/ BeginList(r) \/ EndList(r)
        PROVE  PhaseInv'
    <2>1. UNCHANGED registry /\ \E s \in PcStates : Goto(r, s)
      BY <1>8 DEF Check, TranscriptGone, RecordCommand, FindChannel, WriteCommand, BeginRead,
                  BeginList, EndList, BeginAdd, Finish, PcStates
    <2>2. QED BY <1>2, <2>1
  <1>9. ASSUME NEW r \in Requests, ReadNext(r) \/ ListNext(r) PROVE PhaseInv'
    <2>1. UNCHANGED registry /\ (UNCHANGED pc \/ Goto(r, "done"))
      BY <1>9 DEF ReadNext, ListNext, Finish
    <2>2. QED BY <1>1, <1>2, <2>1 DEF PcStates
  <1>10. ASSUME NEW t \in Threads, AddRead(t) \/ AddSize(t) \/ AddStore(t) PROVE PhaseInv'
    <2>1. UNCHANGED registry
      BY <1>10 DEF AddRead, AddSize, AddStore
    <2>2. \A c \in Channels : pc'[c] # "idle" => pc[c] # "idle"
      BY <1>0, <1>10 DEF AddRead, AddSize, AddStore, Goto, Threads
    <2>3. QED BY <2>1, <2>2 DEF PhaseInv, registry
  <1>11. ASSUME NEW t \in Threads, AddThrows(t) PROVE PhaseInv'
    <2>1. CASE t \in Requests
      BY <1>2, <1>11, <2>1 DEF AddThrows, Finish, PcStates, registry
    <2>2. CASE t \in Channels
      <3>1. /\ Goto(t, "idle") /\ phase' = [phase EXCEPT ![t] = "closing"]
            /\ allChannels' = allChannels \ {t} /\ UNCHANGED pcscData /\ pc[t] # "idle"
        BY <1>11, <2>2, ServerAssumption DEF AddThrows
      <3>2. QED BY <1>0, <2>2, <3>1 DEF PhaseInv, Goto, Threads
    <2>3. QED BY <2>1, <2>2 DEF Threads
  <1>12. CASE UNCHANGED vars
    BY <1>1, <1>12 DEF vars
  <1>13. QED
    BY <1>3, <1>4, <1>5, <1>6, <1>7, <1>8, <1>9, <1>10, <1>11, <1>12
    DEF Next, Environment, WorkerStep, RequestStep, Threads

(* A connection never goes back in its life. *)
Advanced(c) ==
  /\ phase[c] # "none" => phase'[c] # "none"
  /\ phase[c] \in Opened => phase'[c] \in Opened
  /\ phase[c] \in Gone => phase'[c] \in Gone

LEMMA PhasesAdvance ==
  ASSUME TypeInv, PhaseInv, [Next]_vars, NEW c \in Channels
  PROVE  Advanced(c)
  <1>0. phase \in [Channels -> Phases]
    BY DEF TypeInv, TypeOK, RegistryOK
  <1>1. ASSUME UNCHANGED phase PROVE Advanced(c)
    BY <1>1 DEF Advanced
  <1>2. ASSUME NEW d \in Channels,
               OpenChannel(d) \/ PutTranscript(d) \/ CloseChannel(d) \/ FailPending(d)
                 \/ RemoveTranscript(d)
        PROVE  Advanced(c)
    BY <1>0, <1>2 DEF Advanced, Opened, Gone, OpenChannel, PutTranscript, CloseChannel, FailPending, RemoveTranscript
  <1>3. ASSUME NEW t \in Threads, AddThrows(t) PROVE Advanced(c)
    <2>1. UNCHANGED phase \/ (t \in Channels /\ pc[t] # "idle" /\ phase' = [phase EXCEPT ![t] = "closing"])
      BY <1>3 DEF AddThrows, Threads
    <2>2. QED BY <1>0, <1>1, <2>1 DEF PhaseInv, Advanced, Opened, Gone
  <1>4. ASSUME NEW d \in Channels, Flush(d) \/ MessageReceived(d) PROVE Advanced(c)
    BY <1>1, <1>4 DEF Flush, MessageReceived, registry
  <1>5. ASSUME NEW r \in Requests,
               Submit(r) \/ Check(r) \/ TranscriptGone(r) \/ RecordCommand(r) \/ FindChannel(r)
                 \/ WriteCommand(r) \/ BeginRead(r) \/ BeginList(r) \/ EndList(r)
                 \/ ReadNext(r) \/ ListNext(r)
        PROVE  Advanced(c)
    BY <1>1, <1>5 DEF Submit, Check, TranscriptGone, RecordCommand, FindChannel, WriteCommand,
                      BeginRead, BeginList, EndList, ReadNext, ListNext, registry
  <1>6. ASSUME NEW t \in Threads, AddRead(t) \/ AddSize(t) \/ AddStore(t) PROVE Advanced(c)
    BY <1>1, <1>6 DEF AddRead, AddSize, AddStore, registry
  <1>7. CASE UNCHANGED vars
    BY <1>1, <1>7 DEF vars, registry
  <1>8. QED
    BY <1>2, <1>3, <1>4, <1>5, <1>6, <1>7
    DEF Next, Environment, WorkerStep, RequestStep, Threads

-----------------------------------------------------------------------------
(* What the steps of other threads do to request r: nothing, unless it waits
   for a write. *)
Bystander(r) ==
  /\ view'[r] = view[r] /\ todo'[r] = todo[r] /\ known'[r] = known[r]
  /\ expected'[r] = expected[r]
  /\ \/ pc'[r] = pc[r] /\ answer'[r] = answer[r]
     \/ /\ pc[r] = "await" /\ pc'[r] = "done" /\ answer[r] = "none"
        /\ answer'[r] = "sent" \/ (answer'[r] = "error" /\ phase'[call[r].id] = "drained")

LEMMA OwnSteps ==
  ASSUME TypeInv, RelayInv, [Next]_vars, NEW r \in Requests
  PROVE  call' = call /\ (RequestStep(r) \/ Submit(r) \/ Bystander(r))
  <1> DEFINE Goal == call' = call /\ (RequestStep(r) \/ Submit(r) \/ Bystander(r))
  <1>0. /\ view \in [Requests -> Seq(Entries \cup Channels)] /\ pc \in [Threads -> PcStates]
        /\ todo \in [Requests -> SUBSET Channels] /\ known \in [Requests -> SUBSET Channels]
        /\ expected \in [Requests -> Nat] /\ answer \in [Requests -> Answers]
    BY DEF TypeInv, TypeOK, LocalsOK, ControlOK
  <1>1. ASSUME UNCHANGED <<view, todo, known, expected, call>>,
               pc'[r] = pc[r], answer'[r] = answer[r]
        PROVE  Goal
    BY <1>1 DEF Bystander
  <1>2. ASSUME NEW c \in Channels,
               OpenChannel(c) \/ PutTranscript(c) \/ CloseChannel(c) \/ RemoveTranscript(c)
        PROVE  Goal
    BY <1>1, <1>2 DEF OpenChannel, PutTranscript, CloseChannel, RemoveTranscript, locals
  <1>3. ASSUME NEW c \in Channels, FailPending(c) PROVE Goal
    <2>1. /\ UNCHANGED <<view, todo, known, expected, call>>
          /\ phase'[c] = "drained"
          /\ r \in ToSet(pending[c]) => pc'[r] = "done" /\ answer'[r] = "error"
          /\ r \notin ToSet(pending[c]) => pc'[r] = pc[r] /\ answer'[r] = answer[r]
      BY <1>3 DEF FailPending, locals, Threads, TypeInv, TypeOK, RegistryOK
    <2>2. r \in ToSet(pending[c]) => pc[r] = "await" /\ answer[r] = "none" /\ call[r].id = c
      BY DEF RelayInv, QueueHolds, OnCourse
    <2>3. QED BY <2>1, <2>2 DEF Bystander
  <1>4. ASSUME NEW c \in Channels, Flush(c) PROVE Goal
    <2>1. PICK q \in Requests : q = Head(pending[c])
      BY <1>4, HeadTailProperties DEF Flush, TypeInv, TypeOK, IoOK
    <2>2. q \in ToSet(pending[c])
      BY <1>4, <2>1, ToSetHeadTail DEF Flush, TypeInv, TypeOK, IoOK
    <2>3. pc[q] = "await" /\ answer[q] = "none"
      BY <2>2 DEF RelayInv, QueueHolds, OnCourse
    <2>4. /\ UNCHANGED <<view, todo, known, expected, call>>
          /\ pc' = [pc EXCEPT ![q] = "done"] /\ answer' = [answer EXCEPT ![q] = "sent"]
      BY <1>4, <2>1 DEF Flush, Finish, Goto, locals
    <2>5. QED BY <1>0, <2>3, <2>4 DEF Bystander, Threads
  <1>5. ASSUME NEW c \in Channels, MessageReceived(c) PROVE Goal
    BY <1>0, <1>1, <1>5, ServerAssumption DEF MessageReceived, BeginAdd, Goto, locals, Threads
  <1>6. ASSUME NEW q \in Requests, q # r, Submit(q) PROVE Goal
    BY <1>0, <1>1, <1>6 DEF Submit, Goto, locals, Threads
  <1>7. ASSUME NEW q \in Requests, q # r,
               Check(q) \/ TranscriptGone(q) \/ RecordCommand(q) \/ FindChannel(q)
                 \/ WriteCommand(q) \/ EndList(q)
        PROVE  Goal
    <2>1. /\ UNCHANGED <<view, todo, known, expected, call>>
          /\ \E s \in PcStates : Goto(q, s)
          /\ UNCHANGED answer \/ \E a \in Answers : answer' = [answer EXCEPT ![q] = a]
      BY <1>7 DEF Check, TranscriptGone, RecordCommand, FindChannel, WriteCommand, EndList,
                  BeginAdd, Finish, Goto, PcStates, Answers, locals
    <2>2. QED BY <1>0, <1>1, <1>7, <2>1 DEF Goto, Threads
  <1>8. ASSUME NEW q \in Requests, q # r,
               BeginRead(q) \/ ReadNext(q) \/ BeginList(q) \/ ListNext(q)
        PROVE  Goal
    <2>1. /\ call' = call
          /\ pc'[r] = pc[r] /\ answer'[r] = answer[r]
      BY <1>0, <1>8 DEF BeginRead, ReadNext, BeginList, ListNext, Finish, Goto, Threads
    <2>2. view'[r] = view[r] /\ todo'[r] = todo[r] /\ known'[r] = known[r] /\ expected'[r] = expected[r]
      BY <1>0, <1>8 DEF BeginRead, ReadNext, BeginList, ListNext
    <2>3. QED BY <2>1, <2>2 DEF Bystander
  <1>9. ASSUME NEW t \in Threads, t # r, AddRead(t) \/ AddSize(t) \/ AddStore(t) \/ AddThrows(t)
        PROVE  Goal
    <2>1. UNCHANGED <<view, todo, known, expected, call>>
      BY <1>9 DEF AddRead, AddSize, AddStore, AddThrows, locals
    <2>2. pc'[r] = pc[r]
      BY <1>0, <1>9 DEF AddRead, AddSize, AddStore, AddThrows, Finish, Goto, Threads
    <2>3. answer'[r] = answer[r]
      BY <1>0, <1>9 DEF AddRead, AddSize, AddStore, AddThrows, Finish
    <2>4. QED BY <1>1, <2>1, <2>2, <2>3
  <1>10. CASE UNCHANGED vars
    BY <1>1, <1>10 DEF vars, locals
  <1>11. ASSUME RequestStep(r) \/ Submit(r) PROVE Goal
    BY <1>11 DEF RequestStep, Submit, Check, TranscriptGone, RecordCommand, FindChannel, WriteCommand,
         EndList, BeginRead, ReadNext, BeginList, ListNext, AddRead, AddSize, AddStore, AddThrows
  <1>12. QED
    BY <1>2, <1>3, <1>4, <1>5, <1>6, <1>7, <1>8, <1>9, <1>10, <1>11, ServerAssumption
    DEF Next, Environment, WorkerStep, RequestStep, Threads

-----------------------------------------------------------------------------
LEMMA RoleInit == Init => \A r \in Requests : Role(r) /\ Listing(r)
  BY DEF Init, Role, Listing, Threads, AddSteps

(* Requests keep to the steps of their action. *)
LEMMA RoleStep ==
  ASSUME TypeInv, PhaseInv, RelayInv, [Next]_vars, NEW r \in Requests, Role(r)
  PROVE  Role(r)'
  <1>0. /\ pc \in [Threads -> PcStates] /\ view \in [Requests -> Seq(Entries \cup Channels)]
        /\ call[r].id \in Channels /\ r \in Threads /\ call' = call
    BY OwnSteps DEF TypeInv, TypeOK, ControlOK, LocalsOK, Calls, Threads
  <1>1. phase[call[r].id] \in Opened => phase'[call[r].id] \in Opened
    BY <1>0, PhasesAdvance DEF Advanced
  <1>2. CASE Bystander(r)
    BY <1>0, <1>1, <1>2 DEF Bystander, Role, AddSteps
  <1>3. ASSUME NEW s \in PcStates, pc'[r] = s, view'[r] = view[r],
               s \in {"get", "find", "write", "await", "iterate"} \cup AddSteps =>
                 call[r].action # "getPcscClients" /\ phase'[call[r].id] \in Opened,
               s = "iterate" => call[r].action = "getPcscClient",
               s = "scan" => call[r].action = "getPcscClients",
               s \in {"idle", "handle", "get"} => pc[r] \in {"idle", "handle"}
        PROVE  Role(r)'
    BY <1>0, <1>3 DEF Role
  <1>4. ASSUME Submit(r) PROVE Role(r)'
    <2>1. pc'[r] = "handle" /\ view'[r] = view[r] /\ pc[r] = "idle"
      BY <1>0, <1>4 DEF Submit, Goto, locals
    <2>2. QED BY <1>3, <2>1 DEF PcStates, AddSteps
  <1>5. ASSUME Check(r) PROVE Role(r)'
    <2>1. /\ pc[r] = "handle" /\ view'[r] = view[r] /\ call[r].action # "getPcscClients"
          /\ pc'[r] = "done" \/ (pc'[r] = "get" /\ call[r].id \in pcscData)
          /\ phase' = phase
      BY <1>0, <1>5 DEF Check, Finish, Goto, locals, registry
    <2>2. call[r].id \in pcscData => phase[call[r].id] \in Opened
      BY <1>0 DEF PhaseInv, Opened, Gone
    <2>3. QED BY <1>3, <2>1, <2>2 DEF PcStates, AddSteps
  <1>6. ASSUME TranscriptGone(r) \/ FindChannel(r) \/ WriteCommand(r) \/ EndList(r) PROVE Role(r)'
    <2>1. /\ view'[r] = view[r]
          /\ pc'[r] = "done" \/ (pc[r] = "find" /\ pc'[r] = "write") \/ (pc[r] = "write" /\ pc'[r] = "await")
      BY <1>0, <1>6 DEF TranscriptGone, FindChannel, WriteCommand, EndList, Finish, Goto, locals
    <2>2. QED BY <1>1, <1>3, <2>1 DEF PcStates, AddSteps, Role
  <1>7. ASSUME RecordCommand(r) \/ BeginRead(r) PROVE Role(r)'
    <2>1. /\ view'[r] = view[r] /\ pc[r] = "get"
          /\ pc'[r] = "addRead" \/ (pc'[r] = "iterate" /\ call[r].action = "getPcscClient")
      BY <1>0, <1>7 DEF RecordCommand, BeginRead, BeginAdd, Goto, locals
    <2>2. QED BY <1>1, <1>3, <2>1 DEF PcStates, AddSteps, Role
  <1>8. ASSUME AddRead(r) \/ AddSize(r) \/ AddStore(r) \/ AddThrows(r) PROVE Role(r)'
    <2>1. /\ view'[r] = view[r] /\ pc[r] \in AddSteps
          /\ pc'[r] \in {"addSize", "addStore", "find", "done"}
      BY <1>0, <1>8, ServerAssumption DEF AddRead, AddSize, AddStore, AddThrows, Finish, Goto, locals, AddSteps
    <2>2. QED BY <1>1, <1>3, <2>1 DEF PcStates, AddSteps, Role
  <1>9. ASSUME ReadNext(r) PROVE Role(r)'
    <2>1. pc[r] = "iterate" /\ pc'[r] \in {"iterate", "done"}
      BY <1>0, <1>9 DEF ReadNext, Finish, Goto
    <2>2. QED BY <1>0, <1>1, <2>1 DEF Role, AddSteps
  <1>10. ASSUME BeginList(r) PROVE Role(r)'
    <2>1. pc'[r] = "scan" /\ view'[r] = view[r] /\ call[r].action = "getPcscClients"
      BY <1>0, <1>10 DEF BeginList, Goto
    <2>2. QED BY <1>3, <2>1 DEF PcStates, AddSteps
  <1>11. ASSUME ListNext(r) PROVE Role(r)'
    <2>1. pc[r] = "scan" /\ pc'[r] = "scan"
      BY <1>11 DEF ListNext
    <2>2. QED BY <1>0, <2>1 DEF Role, AddSteps
  <1>12. QED
    BY <1>2, <1>4, <1>5, <1>6, <1>7, <1>8, <1>9, <1>10, <1>11, OwnSteps DEF RequestStep

(* A listing does not lose a connection it knew of. *)
LEMMA ListingStep ==
  ASSUME TypeInv, PhaseInv, RelayInv, [Next]_vars, NEW r \in Requests, Role(r), Listing(r)
  PROVE  Listing(r)'
  <1>0. /\ pc \in [Threads -> PcStates] /\ view \in [Requests -> Seq(Entries \cup Channels)]
        /\ known \in [Requests -> SUBSET Channels] /\ todo \in [Requests -> SUBSET Channels]
        /\ answer \in [Requests -> Answers] /\ r \in Threads /\ call' = call
    BY OwnSteps DEF TypeInv, TypeOK, ControlOK, LocalsOK, Threads
  <1>1. \A c \in Channels : /\ phase[c] # "none" => phase'[c] # "none"
                            /\ phase[c] \in Gone => phase'[c] \in Gone
    BY PhasesAdvance DEF Advanced
  <1>2. pc[r] = "done" <=> answer[r] # "none"
    BY DEF RelayInv, OnCourse
  <1>3. CASE Bystander(r)
    BY <1>0, <1>1, <1>3 DEF Bystander, Listing
  <1>4. ASSUME pc'[r] # "scan", answer'[r] # "ok" \/ call[r].action # "getPcscClients"
        PROVE  Listing(r)'
    BY <1>0, <1>4 DEF Listing
  <1>5. ASSUME Submit(r) PROVE Listing(r)'
    BY <1>0, <1>2, <1>4, <1>5 DEF Submit, Goto
  <1>6. ASSUME Check(r) \/ TranscriptGone(r) \/ RecordCommand(r) \/ FindChannel(r)
                 \/ WriteCommand(r) \/ BeginRead(r)
        PROVE  Listing(r)'
    <2>1. pc'[r] # "scan" /\ answer'[r] # "ok"
      BY <1>0, <1>2, <1>6 DEF Check, TranscriptGone, RecordCommand, FindChannel, WriteCommand, BeginRead,
                              BeginAdd, Finish, Goto
    <2>2. QED BY <1>4, <2>1
  <1>7. ASSUME AddRead(r) \/ AddSize(r) \/ AddStore(r) \/ AddThrows(r) PROVE Listing(r)'
    <2>1. pc'[r] # "scan" /\ answer'[r] # "ok"
      BY <1>0, <1>2, <1>7 DEF AddRead, AddSize, AddStore, AddThrows, Finish, Goto
    <2>2. QED BY <1>4, <2>1
  <1>8. ASSUME ReadNext(r) PROVE Listing(r)'
    <2>1. pc'[r] # "scan" /\ call[r].action # "getPcscClients"
      BY <1>0, <1>8 DEF ReadNext, Finish, Goto, Role
    <2>2. QED BY <1>4, <2>1
  <1>9. ASSUME BeginList(r) PROVE Listing(r)'
    <2>1. /\ pc'[r] = "scan" /\ known'[r] = allChannels /\ todo'[r] = Channels /\ phase' = phase
      BY <1>0, <1>9 DEF BeginList, Goto, registry
    <2>2. allChannels \subseteq Channels /\ \A c \in allChannels : phase[c] # "none"
      BY DEF PhaseInv, TypeInv, TypeOK, RegistryOK
    <2>3. QED BY <1>0, <2>1, <2>2 DEF Listing
  <1>10. ASSUME ListNext(r) PROVE Listing(r)'
    <2>1. PICK d \in todo[r] :
            /\ todo' = [todo EXCEPT ![r] = @ \ {d}]
            /\ view' = IF d \in allChannels THEN [view EXCEPT ![r] = <<d>>] ELSE view
      BY <1>10 DEF ListNext
    <2>2. pc[r] = "scan" /\ pc' = pc /\ known' = known /\ phase' = phase
      BY <1>10 DEF ListNext, registry
    <2>3. call[r].action = "getPcscClients"
      BY <2>2 DEF Role
    <2>4. ASSUME NEW c \in known[r]
          PROVE  phase[c] \in Gone \/ view'[r] # << >> \/ c \in todo'[r]
      <3>1. phase[c] \in Gone \/ view[r] # << >> \/ c \in todo[r]
        BY <2>2, <2>3 DEF Listing
      <3>2. CASE d \in allChannels
        BY <1>0, <2>1, <3>2
      <3>3. CASE d \notin allChannels
        <4>1. view'[r] = view[r] /\ todo'[r] = todo[r] \ {d}
          BY <1>0, <2>1, <3>3
        <4>2. c = d => phase[c] \in Gone
          <5>1. c \in Channels /\ phase[c] # "none" /\ phase[c] \in Phases
            BY <1>0, <2>2 DEF Listing, TypeInv, TypeOK, RegistryOK
          <5>2. QED BY <3>3, <5>1 DEF PhaseInv, Phases, Gone
        <4>3. QED BY <3>1, <4>1, <4>2
      <3>4. QED BY <3>2, <3>3
    <2>5. QED BY <1>0, <2>2, <2>4 DEF Listing
  <1>11. ASSUME EndList(r) PROVE Listing(r)'
    <2>1. /\ pc[r] = "scan" /\ todo[r] = {} /\ pc'[r] = "done"
          /\ UNCHANGED <<phase, known, view>>
      BY <1>0, <1>11 DEF EndList, Finish, Goto, registry, locals
    <2>2. QED BY <1>0, <2>1 DEF Listing, Role
  <1>12. QED
    BY <1>3, <1>5, <1>6, <1>7, <1>8, <1>9, <1>10, <1>11, OwnSteps DEF RequestStep

-----------------------------------------------------------------------------
(* The array holds the entries stored, in order, and nothing after them. *)
Stored(c) ==
  /\ Len(log[c]) <= Len(elementData[c])
  /\ \A i \in 1..Len(elementData[c]) :
       elementData[c][i] = IF i <= Len(log[c]) THEN log[c][i] ELSE Null

(* At most one thread is in an add, and it counts and stores the next entry. *)
Counted(c) ==
  /\ \A t, u \in Adding(c) : t = u
  /\ (\A t \in Adding(c) : pc[t] # "addStore") => size[c] = Len(log[c])
  /\ \A t \in Adding(c) :
       /\ Len(log[c]) < Len(elementData[c])
       /\ pc[t] \in {"addSize", "addStore"} =>
            index[t] = Len(log[c]) /\ array[t] = Len(elementData[c])
       /\ pc[t] = "addStore" => size[c] = Len(log[c]) + 1

Exact(c) == ~raced[c] => Stored(c) /\ Counted(c)

LEMMA ExactInit == Init => \A c \in Channels : Exact(c)
  <1> SUFFICES ASSUME Init, NEW c \in Channels PROVE Stored(c) /\ Counted(c)
    BY DEF Exact
  <1>1. /\ elementData[c] = Nulls(Capacity) /\ log[c] = << >> /\ size[c] = 0
        /\ Adding(c) = {}
    BY DEF Init, Adding, Threads
  <1>2. Len(Nulls(Capacity)) = Capacity /\ \A i \in 1..Capacity : Nulls(Capacity)[i] = Null
    BY ServerAssumption DEF Nulls
  <1>3. QED BY <1>1, <1>2, ServerAssumption DEF Stored, Counted

(* A step that leaves transcript c and the threads that extend it alone. *)
LEMMA ExactKept ==
  ASSUME NEW c \in Channels, Exact(c), call' = call,
         elementData'[c] = elementData[c], size'[c] = size[c], log'[c] = log[c], raced'[c] = raced[c],
         \A t \in Threads :
           \/ t \notin Adding(c) /\ (pc'[t] \notin AddSteps \/ ListOf(t) # c)
           \/ pc'[t] = pc[t] /\ index'[t] = index[t] /\ array'[t] = array[t]
  PROVE  Exact(c)'
  <1>1. \A t \in Threads : ListOf(t)' = ListOf(t)
    BY DEF ListOf
  <1>2. Adding(c)' = Adding(c)
    BY <1>1 DEF Adding, AddSteps
  <1>3. \A t \in Adding(c) : pc'[t] = pc[t] /\ index'[t] = index[t] /\ array'[t] = array[t]
    BY DEF Adding
  <1>4. Stored(c) => Stored(c)'
    BY DEF Stored
  <1>5. Counted(c) => Counted(c)'
    BY <1>2, <1>3 DEF Counted
  <1>6. QED BY <1>4, <1>5 DEF Exact

(* A step of a thread that is in no add and starts none. *)
LEMMA ExactIdle ==
  ASSUME \A c \in Channels : Exact(c), UNCHANGED <<elementData, size, log, raced, array, index, call>>,
         \A t \in Threads : pc'[t] # pc[t] => pc[t] \notin AddSteps /\ pc'[t] \notin AddSteps
  PROVE  \A c \in Channels : Exact(c)'
  <1> SUFFICES ASSUME NEW c \in Channels PROVE Exact(c)'
    OBVIOUS
  <1>1. \A t \in Threads : pc'[t] # pc[t] => t \notin Adding(c)
    BY DEF Adding, AddSteps
  <1>2. QED BY <1>1, ExactKept

LEMMA GrownContent ==
  ASSUME TypeOK, NEW c \in Channels
  PROVE  \A i \in 1..Len(Grown(c)) :
           Grown(c)[i] = IF i <= Len(elementData[c]) THEN elementData[c][i] ELSE Null
  <1>1. elementData[c] \in Seq(Entries \cup {Null}) /\ Len(elementData[c]) \in Nat /\ size[c] \in Nat
    BY DEF TypeOK, ListsOK
  <1>2. CASE size[c] + 1 > Len(elementData[c])
    <2>1. PICK n \in Nat : /\ n = Max({Len(elementData[c]) + Len(elementData[c]) \div 2, size[c] + 1})
                           /\ n >= Len(elementData[c])
      BY <1>1, NewLength
    <2>2. Grown(c) = elementData[c] \o Nulls(n - Len(elementData[c]))
      BY <1>2, <2>1 DEF Grown
    <2>3. PICK k \in Nat : k = n - Len(elementData[c])
      BY <1>1, <2>1
    <2>4. /\ Nulls(k) \in Seq(Entries \cup {Null}) /\ Len(Nulls(k)) = k
          /\ \A i \in 1..k : Nulls(k)[i] = Null
      BY NullsType DEF Nulls
    <2>5. /\ Len(Grown(c)) = Len(elementData[c]) + k
          /\ \A i \in 1..(Len(elementData[c]) + k) :
               Grown(c)[i] = IF i <= Len(elementData[c]) THEN elementData[c][i]
                             ELSE Nulls(k)[i - Len(elementData[c])]
      <3>1. PICK u \in Seq(Entries \cup {Null}) : u = Nulls(k)
        BY <2>4
      <3>2. PICK v \in Seq(Entries \cup {Null}) : v = elementData[c]
        BY <1>1
      <3>3. /\ Len(v \o u) = Len(v) + Len(u)
            /\ \A i \in 1..(Len(v) + Len(u)) : (v \o u)[i] = IF i <= Len(v) THEN v[i] ELSE u[i - Len(v)]
        BY ConcatProperties
      <3>4. Grown(c) = v \o u /\ Len(u) = k
        BY <2>2, <2>3, <2>4, <3>1, <3>2
      <3>5. QED BY <3>1, <3>2, <3>3, <3>4
    <2>6. \A len \in Nat : \A i \in 1..(len + k) : i <= len \/ i - len \in 1..k
      OBVIOUS
    <2>7. QED BY <1>1, <2>4, <2>5, <2>6
  <1>3. CASE ~(size[c] + 1 > Len(elementData[c]))
    BY <1>1, <1>3 DEF Grown
  <1>4. QED BY <1>2, <1>3

(* An add begins: on an exact transcript there is now room for its entry. *)
LEMMA ExactBegin ==
  ASSUME TypeInv, \A c \in Channels : Exact(c), NEW t \in Threads, NEW b \in Channels,
         ListOf(t) = b, pc[t] \notin AddSteps, BeginAdd(t, b), UNCHANGED <<call, array, index>>
  PROVE  \A c \in Channels : Exact(c)'
  <1>0. TypeOK
    BY DEF TypeInv
  <1>1. /\ elementData' = [elementData EXCEPT ![b] = Grown(b)]
        /\ raced' = [raced EXCEPT ![b] = @ \/ Adding(b) # {}]
        /\ pc' = [pc EXCEPT ![t] = "addRead"] /\ UNCHANGED <<size, log>>
    BY DEF BeginAdd, Goto
  <1>2. /\ pc \in [Threads -> PcStates] /\ elementData \in [Channels -> Seq(Entries \cup {Null})]
        /\ size \in [Channels -> Nat] /\ log \in [Channels -> Seq(Entries)]
        /\ raced \in [Channels -> BOOLEAN]
    BY <1>0 DEF TypeOK, ListsOK, ControlOK
  <1>3. \A u \in Threads : ListOf(u)' = ListOf(u)
    BY DEF ListOf
  <1>4. t \notin Adding(b)
    BY DEF Adding, AddSteps
  <1>5. ASSUME NEW c \in Channels, c # b PROVE Exact(c)'
    <2>1. \A u \in Threads \ {t} : pc'[u] = pc[u]
      BY <1>1, <1>2
    <2>2. t \notin Adding(c)
      BY DEF Adding, AddSteps
    <2>3. QED BY <1>1, <1>2, <1>5, <2>1, <2>2, ExactKept
  <1>6. ASSUME ~raced'[b] PROVE Stored(b)' /\ Counted(b)'
    <2>1. ~raced[b] /\ Adding(b) = {}
      BY <1>1, <1>2, <1>6
    <2>2. Stored(b) /\ size[b] = Len(log[b])
      BY <2>1 DEF Exact, Counted
    <2>3. Adding(b)' = {t} /\ pc'[t] = "addRead"
      BY <1>1, <1>2, <1>3, <2>1 DEF Adding
    <2>4. elementData'[b] = Grown(b) /\ log'[b] = log[b] /\ size'[b] = size[b]
      BY <1>1, <1>2
    <2>5. /\ Len(elementData[b]) \in Nat /\ Len(Grown(b)) \in Nat /\ Len(log[b]) \in Nat
          /\ Len(Grown(b)) >= Len(elementData[b]) /\ Len(Grown(b)) > size[b]
      BY <1>0, <1>2, GrownType
    <2>6. \A i \in 1..Len(Grown(b)) :
            Grown(b)[i] = IF i <= Len(elementData[b]) THEN elementData[b][i] ELSE Null
      BY <1>0, GrownContent
    <2>7. Stored(b)'
      BY <2>2, <2>4, <2>5, <2>6 DEF Stored
    <2>8. Counted(b)'
      BY <2>2, <2>3, <2>4, <2>5 DEF Counted
    <2>9. QED BY <2>7, <2>8
  <1>7. Exact(b)'
    BY <1>6 DEF Exact
  <1>8. QED BY <1>5, <1>7

(* The steps of an add.  Threads that extend other transcripts do not meet it. *)
LEMMA ExactElsewhere ==
  ASSUME TypeInv, \A c \in Channels : Exact(c), NEW t \in Threads, NEW s \in PcStates, NEW b \in Channels,
         ListOf(t) = b, pc' = [pc EXCEPT ![t] = s], call' = call,
         \A u \in Threads \ {t} : array'[u] = array[u] /\ index'[u] = index[u],
         \A c \in Channels \ {b} : /\ elementData'[c] = elementData[c] /\ size'[c] = size[c]
                                   /\ log'[c] = log[c] /\ raced'[c] = raced[c]
  PROVE  \A c \in Channels \ {b} : Exact(c)'
  <1>1. \A u \in Threads \ {t} : pc'[u] = pc[u]
    BY DEF TypeInv, TypeOK, ControlOK
  <1>2. \A c \in Channels \ {b} : t \notin Adding(c)
    BY DEF Adding
  <1>3. QED BY <1>1, <1>2, ExactKept

LEMMA ExactAdd ==
  ASSUME TypeInv, \A c \in Channels : Exact(c), NEW t \in Threads,
         AddRead(t) \/ AddSize(t) \/ AddStore(t) \/ AddThrows(t)
  PROVE  \A c \in Channels : Exact(c)'
  <1>0. /\ pc \in [Threads -> PcStates] /\ elementData \in [Channels -> Seq(Entries \cup {Null})]
        /\ size \in [Channels -> Nat] /\ log \in [Channels -> Seq(Entries)]
        /\ raced \in [Channels -> BOOLEAN] /\ array \in [Threads -> Nat] /\ index \in [Threads -> Nat]
        /\ call' = call
    BY DEF TypeInv, TypeOK, ListsOK, LocalsOK, ControlOK, AddRead, AddSize, AddStore, AddThrows
  <1>1. PICK b \in Channels : ListOf(t) = b
    BY EntryType DEF AddSteps, AddRead, AddSize, AddStore, AddThrows
  <1>2. \A u \in Threads : ListOf(u)' = ListOf(u)
    BY <1>0 DEF ListOf
  <1>3. t \in Adding(b)
    BY <1>1 DEF Adding, AddRead, AddSize, AddStore, AddThrows
  <1>4. Len(elementData[b]) \in Nat /\ Len(log[b]) \in Nat /\ log[b] \in Seq(Entries)
        /\ elementData[b] \in Seq(Entries \cup {Null})
    BY <1>0, LenProperties
  <1>5. ASSUME AddRead(t) PROVE \A c \in Channels : Exact(c)'
    <2>1. /\ array' = [array EXCEPT ![t] = Len(elementData[b])]
          /\ index' = [index EXCEPT ![t] = size[b]]
          /\ pc' = [pc EXCEPT ![t] = "addSize"] /\ pc[t] = "addRead"
          /\ UNCHANGED <<elementData, size, log, raced>>
      BY <1>1, <1>5 DEF AddRead, Goto, lists
    <2>2. \A c \in Channels \ {b} : Exact(c)'
      BY <1>0, <1>1, <2>1, ExactElsewhere DEF PcStates
    <2>3. ASSUME ~raced[b] PROVE Stored(b)' /\ Counted(b)'
      <3>1. Adding(b) = {t} /\ size[b] = Len(log[b]) /\ Stored(b) /\ Len(log[b]) < Len(elementData[b])
        BY <1>3, <2>1, <2>3 DEF Exact, Counted
      <3>2. Adding(b)' = {t}
        BY <1>0, <1>2, <2>1, <3>1 DEF Adding
      <3>3. Stored(b)'
        BY <2>1, <3>1 DEF Stored
      <3>4. Counted(b)'
        BY <1>0, <2>1, <3>1, <3>2 DEF Counted
      <3>5. QED BY <3>3, <3>4
    <2>4. Exact(b)'
      BY <2>1, <2>3 DEF Exact
    <2>5. QED BY <2>2, <2>4
  <1>6. ASSUME AddSize(t) PROVE \A c \in Channels : Exact(c)'
    <2>1. /\ size' = [size EXCEPT ![b] = index[t] + 1]
          /\ pc' = [pc EXCEPT ![t] = "addStore"] /\ pc[t] = "addSize"
          /\ UNCHANGED <<elementData, log, raced, array, index>>
      BY <1>1, <1>6 DEF AddSize, Goto, locals
    <2>2. \A c \in Channels \ {b} : Exact(c)'
      BY <1>0, <1>1, <2>1, ExactElsewhere DEF PcStates
    <2>3. ASSUME ~raced[b] PROVE Stored(b)' /\ Counted(b)'
      <3>1. /\ Adding(b) = {t} /\ index[t] = Len(log[b]) /\ array[t] = Len(elementData[b])
            /\ Stored(b) /\ Len(log[b]) < Len(elementData[b])
        BY <1>3, <2>1, <2>3 DEF Exact, Counted
      <3>2. Adding(b)' = {t}
        BY <1>0, <1>2, <2>1, <3>1 DEF Adding
      <3>3. Stored(b)'
        BY <2>1, <3>1 DEF Stored
      <3>4. Counted(b)'
        BY <1>0, <2>1, <3>1, <3>2 DEF Counted
      <3>5. QED BY <3>3, <3>4
    <2>4. Exact(b)'
      BY <2>1, <2>3 DEF Exact
    <2>5. QED BY <2>2, <2>4
  <1>7. ASSUME AddStore(t) PROVE \A c \in Channels : Exact(c)'
    <2>1. PICK e \in Entries : e = EntryOf(t)
      BY <1>7, EntryType DEF AddStore, AddSteps
    <2>2. PICK s \in {"idle", "find"} : pc' = [pc EXCEPT ![t] = s]
      BY <1>7 DEF AddStore, Goto
    <2>3. /\ pc[t] = "addStore" /\ index[t] < array[t]
          /\ elementData' = IF array[t] = Len(elementData[b])
                            THEN [elementData EXCEPT ![b][index[t] + 1] = e]
                            ELSE elementData
          /\ log' = [log EXCEPT ![b] = Append(@, e)]
          /\ UNCHANGED <<size, raced, array, index>>
      BY <1>1, <1>7, <2>1 DEF AddStore, locals
    <2>4. \A c \in Channels \ {b} : Exact(c)'
      <3>1. \A c \in Channels \ {b} : elementData'[c] = elementData[c] /\ log'[c] = log[c]
        BY <1>0, <2>3
      <3>2. QED BY <1>0, <1>1, <2>2, <2>3, <3>1, ExactElsewhere DEF PcStates
    <2>5. ASSUME ~raced[b] PROVE Stored(b)' /\ Counted(b)'
      <3>1. /\ Adding(b) = {t} /\ index[t] = Len(log[b]) /\ array[t] = Len(elementData[b])
            /\ Stored(b) /\ Len(log[b]) < Len(elementData[b]) /\ size[b] = Len(log[b]) + 1
        BY <1>3, <2>3, <2>5 DEF Exact, Counted
      <3>2. Adding(b)' = {}
        BY <1>0, <1>2, <2>2, <3>1 DEF Adding
      <3>3. /\ Len(log'[b]) = Len(log[b]) + 1
            /\ \A i \in 1..Len(log[b]) : log'[b][i] = log[b][i]
            /\ log'[b][Len(log[b]) + 1] = e
        BY <1>0, <1>4, <2>3, AppendProperties
      <3>4. elementData'[b] = [elementData[b] EXCEPT ![Len(log[b]) + 1] = e]
        BY <1>0, <2>3, <3>1
      <3>5. /\ Len(elementData'[b]) = Len(elementData[b])
            /\ \A i \in 1..Len(elementData[b]) :
                 elementData'[b][i] = IF i = Len(log[b]) + 1 THEN e ELSE elementData[b][i]
        <4>1. Len(log[b]) + 1 \in 1..Len(elementData[b]) /\ e \in Entries \cup {Null}
          BY <1>4, <3>1
        <4>2. QED BY <1>4, <3>4, <4>1, ExceptSeq
      <3>6. Stored(b)'
        BY <1>4, <3>1, <3>3, <3>5 DEF Stored
      <3>7. Counted(b)'
        BY <2>3, <3>1, <3>2, <3>3 DEF Counted
      <3>8. QED BY <3>6, <3>7
    <2>6. Exact(b)'
      BY <2>3, <2>5 DEF Exact
    <2>7. QED BY <2>4, <2>6
  <1>8. ASSUME AddThrows(t) PROVE \A c \in Channels : Exact(c)'
    <2>1. PICK s \in {"idle", "done"} : pc' = [pc EXCEPT ![t] = s]
      BY <1>8 DEF AddThrows, Finish, Goto
    <2>2. /\ pc[t] = "addStore" /\ index[t] >= array[t]
          /\ UNCHANGED <<elementData, size, log, raced, array, index>>
      BY <1>8 DEF AddThrows, lists, locals
    <2>3. \A c \in Channels \ {b} : Exact(c)'
      BY <1>0, <1>1, <2>1, <2>2, ExactElsewhere DEF PcStates
    <2>4. raced[b]
      BY <1>0, <1>3, <1>4, <2>2 DEF Exact, Counted
    <2>5. QED BY <2>2, <2>3, <2>4 DEF Exact
  <1>9. QED BY <1>5, <1>6, <1>7, <1>8

LEMMA ExactStep ==
  ASSUME TypeInv, RelayInv, \A c \in Channels : Exact(c), [Next]_vars
  PROVE  \A c \in Channels : Exact(c)'
  <1> DEFINE Goal == \A c \in Channels : Exact(c)'
  <1>0. pc \in [Threads -> PcStates] /\ \A r \in Requests : call[r].id \in Channels
    BY DEF TypeInv, TypeOK, ControlOK, Calls
  <1>1. ASSUME NEW c \in Channels,
               OpenChannel(c) \/ PutTranscript(c) \/ CloseChannel(c) \/ RemoveTranscript(c)
        PROVE  Goal
    BY <1>1, ExactIdle DEF OpenChannel, PutTranscript, CloseChannel, RemoveTranscript, lists, locals
  <1>2. ASSUME NEW c \in Channels, FailPending(c) PROVE Goal
    <2>1. \A t \in Threads : pc'[t] # pc[t] => pc[t] = "await" /\ pc'[t] = "done"
      BY <1>2 DEF FailPending, RelayInv, QueueHolds
    <2>2. QED BY <1>2, <2>1, ExactIdle DEF FailPending, lists, locals, AddSteps
  <1>3. ASSUME NEW t \in Threads, NEW s \in PcStates \ AddSteps, Goto(t, s), pc[t] \notin AddSteps,
               UNCHANGED <<lists, array, index, call>>
        PROVE  Goal
    <2>1. \A u \in Threads : pc'[u] # pc[u] => pc[u] \notin AddSteps /\ pc'[u] \notin AddSteps
      BY <1>0, <1>3 DEF Goto
    <2>2. QED BY <1>3, <2>1, ExactIdle DEF lists
  <1>4. ASSUME NEW c \in Channels, Flush(c) PROVE Goal
    <2>1. PICK q \in Requests : q = Head(pending[c]) /\ q \in ToSet(pending[c])
      BY <1>4, HeadTailProperties, ToSetHeadTail DEF Flush, TypeInv, TypeOK, IoOK
    <2>2. pc[q] = "await"
      BY <2>1 DEF RelayInv, QueueHolds
    <2>3. QED BY <1>3, <1>4, <2>1, <2>2 DEF Flush, Finish, locals, PcStates, AddSteps, Threads
  <1>5. ASSUME NEW c \in Channels, MessageReceived(c) PROVE Goal
    <2>1. ListOf(c) = c /\ pc[c] \notin AddSteps /\ BeginAdd(c, c) /\ UNCHANGED <<call, array, index>>
      BY <1>5 DEF ListOf, MessageReceived, Idle, AddSteps, locals
    <2>2. QED BY <2>1, ExactBegin DEF Threads
  <1>6. ASSUME NEW r \in Requests, RecordCommand(r) PROVE Goal
    <2>1. /\ ListOf(r) = call[r].id /\ pc[r] \notin AddSteps /\ BeginAdd(r, call[r].id)
          /\ UNCHANGED <<call, array, index>>
      BY <1>6, ServerAssumption DEF ListOf, RecordCommand, AddSteps, locals
    <2>2. PICK b \in Channels : b = call[r].id
      BY <1>0
    <2>3. QED BY <2>1, <2>2, ExactBegin DEF Threads
  <1>7. ASSUME NEW r \in Requests,
               Submit(r) \/ Check(r) \/ TranscriptGone(r) \/ FindChannel(r) \/ WriteCommand(r)
                 \/ BeginRead(r) \/ BeginList(r) \/ EndList(r)
        PROVE  Goal
    <2>1. /\ UNCHANGED <<lists, array, index, call>> /\ pc[r] \notin AddSteps
          /\ \E s \in PcStates \ AddSteps : Goto(r, s)
      BY <1>7 DEF Submit, Check, TranscriptGone, FindChannel, WriteCommand, BeginRead, BeginList, EndList,
                  Finish, PcStates, AddSteps, locals
    <2>2. QED BY <1>3, <2>1 DEF Threads
  <1>8. ASSUME NEW r \in Requests, ReadNext(r) \/ ListNext(r) PROVE Goal
    <2>1. /\ UNCHANGED <<lists, array, index, call>> /\ pc[r] \notin AddSteps
          /\ UNCHANGED pc \/ Goto(r, "done")
      BY <1>8 DEF ReadNext, ListNext, Finish, AddSteps
    <2>2. CASE UNCHANGED pc
      BY <2>1, <2>2, ExactIdle DEF lists
    <2>3. CASE Goto(r, "done")
      BY <1>3, <2>1, <2>3 DEF PcStates, AddSteps, Threads
    <2>4. QED BY <2>1, <2>2, <2>3
  <1>9. ASSUME NEW t \in Threads, AddRead(t) \/ AddSize(t) \/ AddStore(t) \/ AddThrows(t) PROVE Goal
    BY <1>9, ExactAdd
  <1>10. CASE UNCHANGED vars
    BY <1>10, ExactIdle DEF vars, lists, locals
  <1>11. QED
    BY <1>1, <1>2, <1>4, <1>5, <1>6, <1>7, <1>8, <1>9, <1>10
    DEF Next, Environment, WorkerStep, RequestStep, Threads

-----------------------------------------------------------------------------
(* A transcript is only ever extended at its end, and a race is not forgotten. *)
Extended(c) ==
  /\ raced[c] => raced'[c]
  /\ Len(log[c]) <= Len(log'[c])
  /\ \A i \in 1..Len(log[c]) : log'[c][i] = log[c][i]

LEMMA LogsExtended ==
  ASSUME TypeInv, [Next]_vars, NEW c \in Channels
  PROVE  Extended(c)
  <1>0. /\ log \in [Channels -> Seq(Entries)] /\ raced \in [Channels -> BOOLEAN]
        /\ Len(log[c]) \in Nat
    BY LenProperties DEF TypeInv, TypeOK, ListsOK
  <1>1. ASSUME UNCHANGED <<log, raced>> PROVE Extended(c)
    BY <1>0, <1>1 DEF Extended
  <1>2. ASSUME NEW d \in Channels,
               OpenChannel(d) \/ PutTranscript(d) \/ CloseChannel(d) \/ RemoveTranscript(d)
                 \/ FailPending(d) \/ Flush(d)
        PROVE  Extended(c)
    BY <1>1, <1>2 DEF OpenChannel, PutTranscript, CloseChannel, RemoveTranscript, FailPending, Flush, lists
  <1>3. ASSUME NEW t \in Threads, NEW d \in Channels, BeginAdd(t, d) PROVE Extended(c)
    BY <1>0, <1>3 DEF Extended, BeginAdd
  <1>4. ASSUME NEW d \in Channels, MessageReceived(d) PROVE Extended(c)
    BY <1>3, <1>4 DEF MessageReceived, Threads
  <1>5. ASSUME NEW r \in Requests, RecordCommand(r) PROVE Extended(c)
    <2>1. call[r].id \in Channels
      BY DEF TypeInv, TypeOK, ControlOK, Calls
    <2>2. QED BY <1>3, <1>5, <2>1 DEF RecordCommand, Threads
  <1>6. ASSUME NEW r \in Requests,
               Submit(r) \/ Check(r) \/ TranscriptGone(r) \/ FindChannel(r) \/ WriteCommand(r)
                 \/ BeginRead(r) \/ ReadNext(r) \/ BeginList(r) \/ ListNext(r) \/ EndList(r)
        PROVE  Extended(c)
    BY <1>1, <1>6 DEF Submit, Check, TranscriptGone, FindChannel, WriteCommand, BeginRead, ReadNext,
                      BeginList, ListNext, EndList, lists
  <1>7. ASSUME NEW t \in Threads, AddRead(t) \/ AddSize(t) \/ AddThrows(t) PROVE Extended(c)
    BY <1>1, <1>7 DEF AddRead, AddSize, AddThrows, lists
  <1>8. ASSUME NEW t \in Threads, AddStore(t) PROVE Extended(c)
    <2>1. PICK e \in Entries, b \in Channels : e = EntryOf(t) /\ b = ListOf(t)
      BY <1>8, EntryType DEF AddStore, AddSteps
    <2>2. log' = [log EXCEPT ![b] = Append(@, e)] /\ raced' = raced
      BY <1>8, <2>1 DEF AddStore
    <2>3. CASE b = c
      <3>1. log'[c] = Append(log[c], e)
        BY <1>0, <2>2, <2>3
      <3>2. QED BY <1>0, <2>2, <3>1, AppendProperties DEF Extended
    <2>4. CASE b # c
      BY <1>0, <2>2, <2>4 DEF Extended
    <2>5. QED BY <2>3, <2>4
  <1>9. CASE UNCHANGED vars
    BY <1>1, <1>9 DEF vars, lists
  <1>10. QED
    BY <1>2, <1>4, <1>5, <1>6, <1>7, <1>8, <1>9
    DEF Next, Environment, WorkerStep, RequestStep, Threads

(* A reader has collected the first entries of the transcript. *)
Reading(r) ==
  LET c == call[r].id IN
  call[r].action = "getPcscClient" /\ ~raced[c] =>
    Len(view[r]) <= Len(log[c]) /\ \A i \in 1..Len(view[r]) : view[r][i] = log[c][i]

LEMMA ReadingInit == Init => \A r \in Requests : Reading(r)
  <1> SUFFICES ASSUME Init, NEW r \in Requests, call[r].action = "getPcscClient"
               PROVE  Len(view[r]) = 0 /\ log[call[r].id] = << >>
    BY DEF Reading, Init
  <1>1. QED BY DEF Init, Calls

LEMMA ReadingStep ==
  ASSUME TypeInv, RelayInv, \A c \in Channels : Exact(c), [Next]_vars,
         NEW r \in Requests, Role(r), Reading(r)
  PROVE  Reading(r)'
  <1>0. PICK c \in Channels : c = call[r].id
    BY DEF TypeInv, TypeOK, ControlOK, Calls
  <1>1. /\ view \in [Requests -> Seq(Entries \cup Channels)] /\ log \in [Channels -> Seq(Entries)]
        /\ view[r] \in Seq(Entries \cup Channels) /\ Len(view[r]) \in Nat /\ Len(log[c]) \in Nat
        /\ call' = call /\ Len(elementData[c]) \in Nat /\ size[c] \in Nat
    BY OwnSteps, LenProperties DEF TypeInv, TypeOK, ListsOK, LocalsOK
  <1>2. Extended(c)
    BY LogsExtended
  <1>3. Len(log'[c]) \in Nat
    <2>1. TypeInv'
      BY TypeStep
    <2>2. QED BY <2>1, LenProperties DEF TypeInv, TypeOK, ListsOK
  <1>4. ASSUME view'[r] = view[r] PROVE Reading(r)'
    BY <1>0, <1>1, <1>2, <1>3, <1>4 DEF Reading, Extended
  <1>5. CASE Bystander(r)
    BY <1>4, <1>5 DEF Bystander
  <1>6. ASSUME Submit(r) \/ Check(r) \/ TranscriptGone(r) \/ RecordCommand(r) \/ FindChannel(r)
                 \/ WriteCommand(r) \/ BeginRead(r) \/ BeginList(r) \/ EndList(r)
        PROVE  Reading(r)'
    BY <1>4, <1>6 DEF Submit, Check, TranscriptGone, RecordCommand, FindChannel, WriteCommand, BeginRead,
                      BeginList, EndList, locals
  <1>7. ASSUME AddRead(r) \/ AddSize(r) \/ AddStore(r) \/ AddThrows(r) PROVE Reading(r)'
    BY <1>4, <1>7 DEF AddRead, AddSize, AddStore, AddThrows, locals
  <1>8. ASSUME ListNext(r) PROVE Reading(r)'
    <2>1. call[r].action # "getPcscClient"
      BY <1>8 DEF ListNext, Role
    <2>2. QED BY <1>1, <2>1 DEF Reading
  <1>9. ASSUME ReadNext(r), view'[r] # view[r], ~raced[c] PROVE Reading(r)'
    <2>1. PICK n \in Nat : n = Len(view[r])
      BY <1>1
    <2>2. /\ view'[r] = Append(view[r], elementData[c][n + 1])
          /\ n < size[c] /\ n < Len(elementData[c]) /\ elementData[c][n + 1] # Null
          /\ log' = log /\ call[r].action = "getPcscClient"
      BY <1>0, <1>1, <1>9, <2>1 DEF ReadNext, NextReturns, HasContent, NextEntry, Cursor, Role, lists
    <2>3. elementData[c][n + 1] = IF n + 1 <= Len(log[c]) THEN log[c][n + 1] ELSE Null
      <3>1. Stored(c)
        BY <1>9 DEF Exact
      <3>2. n + 1 \in 1..Len(elementData[c])
        BY <1>1, <2>2
      <3>3. QED BY <3>1, <3>2 DEF Stored
    <2>4. n + 1 <= Len(log[c]) /\ elementData[c][n + 1] = log[c][n + 1]
      BY <2>2, <2>3
    <2>5. /\ Len(view'[r]) = n + 1
          /\ \A i \in 1..n : view'[r][i] = view[r][i]
          /\ view'[r][n + 1] = log[c][n + 1]
      <3>1. PICK e \in Entries : e = log[c][n + 1]
        <4>1. log[c] \in Seq(Entries) /\ n + 1 \in 1..Len(log[c])
          BY <1>1, <2>4
        <4>2. QED BY <4>1, ElementOfSeq
      <3>2. view'[r] = Append(view[r], e)
        BY <2>2, <2>4, <3>1
      <3>3. QED BY <1>1, <2>1, <3>1, <3>2, AppendProperties
    <2>6. \A i \in 1..n : view[r][i] = log[c][i]
      BY <1>0, <1>9, <2>1, <2>2 DEF Reading
    <2>7. QED BY <1>0, <1>1, <2>2, <2>4, <2>5, <2>6 DEF Reading
  <1>10. ASSUME raced[c] PROVE Reading(r)'
    BY <1>0, <1>1, <1>2, <1>10 DEF Extended, Reading
  <1>11. QED
    BY <1>4, <1>5, <1>6, <1>7, <1>8, <1>9, <1>10, OwnSteps DEF RequestStep

-----------------------------------------------------------------------------
(* A store is out of bounds only on a transcript that two threads extended. *)
LEMMA ThrowsMeansRaced ==
  ASSUME TypeInv, \A c \in Channels : Exact(c), NEW t \in Threads, AddThrows(t)
  PROVE  raced[ListOf(t)]
  <1>1. PICK b \in Channels : ListOf(t) = b
    BY EntryType DEF AddThrows, AddSteps
  <1>2. Len(elementData[b]) \in Nat /\ Len(log[b]) \in Nat /\ index[t] \in Nat /\ array[t] \in Nat
    BY LenProperties DEF TypeInv, TypeOK, ListsOK, LocalsOK
  <1>3. t \in Adding(b) /\ pc[t] = "addStore" /\ index[t] >= array[t]
    BY <1>1 DEF Adding, AddThrows
  <1>4. QED BY <1>1, <1>2, <1>3 DEF Exact, Counted

(* A well formed command has failed for a reason. *)
Excused(r) ==
  r \in Commands /\ call[r].body = "complete" /\ answer[r] \in {"error", "fault"}
    => phase[call[r].id] \in Gone \/ raced[call[r].id]

LEMMA ExcusedStep ==
  ASSUME TypeInv, PhaseInv, RelayInv, \A c \in Channels : Exact(c), [Next]_vars,
         NEW r \in Requests, Role(r), Excused(r)
  PROVE  Excused(r)'
  <1>0. PICK c \in Channels : c = call[r].id
    BY DEF TypeInv, TypeOK, ControlOK, Calls
  <1>1. /\ call' = call /\ answer \in [Requests -> Answers] /\ pc \in [Threads -> PcStates]
        /\ phase[c] \in Phases
    BY OwnSteps DEF TypeInv, TypeOK, ControlOK, RegistryOK
  <1>2. (phase[c] \in Gone => phase'[c] \in Gone) /\ (raced[c] => raced'[c])
    BY PhasesAdvance, LogsExtended DEF Advanced, Extended
  <1>3. ASSUME answer'[r] = answer[r] \/ answer'[r] \notin {"error", "fault"} PROVE Excused(r)'
    BY <1>0, <1>1, <1>2, <1>3 DEF Excused, Commands
  <1>4. ASSUME call[r].body = "complete" => phase[c] \in Gone \/ raced[c] PROVE Excused(r)'
    BY <1>0, <1>1, <1>2, <1>4 DEF Excused, Commands
  <1>5. CASE Bystander(r)
    <2>1. CASE answer'[r] = "error" /\ phase'[call[r].id] = "drained"
      BY <1>1, <2>1 DEF Excused, Gone
    <2>2. QED BY <1>3, <1>5, <2>1 DEF Bystander
  <1>6. ASSUME Submit(r) \/ RecordCommand(r) \/ BeginRead(r) \/ BeginList(r) \/ ListNext(r)
                 \/ AddRead(r) \/ AddSize(r)
        PROVE  Excused(r)'
    BY <1>3, <1>6 DEF Submit, RecordCommand, BeginRead, BeginList, ListNext, AddRead, AddSize
  <1>7. ASSUME AddStore(r) \/ EndList(r) PROVE Excused(r)'
    BY <1>1, <1>3, <1>7 DEF AddStore, EndList, Finish
  <1>8. ASSUME Check(r) PROVE Excused(r)'
    <2>1. CASE call[r].body = "complete"
      <3>1. answer'[r] = answer[r] \/ answer'[r] = "noChannel"
        BY <1>1, <1>8, <2>1 DEF Check, Finish
      <3>2. QED BY <1>3, <3>1
    <2>2. QED BY <1>1, <2>1 DEF Excused
  <1>9. ASSUME ReadNext(r) PROVE Excused(r)'
    <2>1. call[r].action = "getPcscClient"
      BY <1>9 DEF ReadNext, Role
    <2>2. QED BY <1>1, <2>1 DEF Excused, Commands
  <1>10. ASSUME TranscriptGone(r) PROVE Excused(r)'
    BY <1>0, <1>1, <1>4, <1>10 DEF TranscriptGone, Role, PhaseInv, Opened, Gone
  <1>11. ASSUME FindChannel(r) PROVE Excused(r)'
    <2>1. CASE call[r].body = "complete" /\ c \notin allChannels
      BY <1>0, <1>1, <1>4, <1>11, <2>1 DEF FindChannel, Role, PhaseInv, Opened, Gone
    <2>2. CASE ~(call[r].body = "complete" /\ c \notin allChannels)
      <3>1. call[r].body = "complete" => answer'[r] = answer[r]
        BY <1>0, <1>11, <2>2 DEF FindChannel, Unsendable
      <3>2. QED BY <1>1, <1>3, <3>1 DEF Excused
    <2>3. QED BY <2>1, <2>2
  <1>12. ASSUME WriteCommand(r) PROVE Excused(r)'
    <2>1. CASE phase[c] = "open"
      BY <1>0, <1>3, <1>12, <2>1 DEF WriteCommand
    <2>2. CASE phase[c] # "open"
      BY <1>0, <1>4, <1>12, <2>2 DEF WriteCommand, Role, Opened
    <2>3. QED BY <2>1, <2>2
  <1>13. ASSUME AddThrows(r) PROVE Excused(r)'
    <2>1. raced[c]
      BY <1>0, <1>13, ThrowsMeansRaced, ServerAssumption DEF ListOf, Threads
    <2>2. QED BY <1>4, <2>1
  <1>14. QED
    BY <1>5, <1>6, <1>7, <1>8, <1>9, <1>10, <1>11, <1>12, <1>13, OwnSteps DEF RequestStep

-----------------------------------------------------------------------------
(* An entry that may be in the transcript of c: a command that names c, or a
   frame that c has received.  Both follow from how an add chooses its list, and
   later proofs need them of whatever an array still holds. *)
Entitled(e, c) == IF e.sender = "you" THEN call[e.of].id = c ELSE e.of <= frames[c]

NoCrossTalk == \A c \in Channels : \A e \in ToSet(elementData[c]) \ {Null} : Entitled(e, c)

(* What an array holds after a step was there before, or is the entry of a
   thread that extends this very transcript. *)
Filled(c) ==
  ToSet(elementData'[c]) \subseteq
    ToSet(elementData[c]) \cup {Null} \cup {EntryOf(t) : t \in {u \in Threads : pc[u] \in AddSteps /\ ListOf(u) = c}}

LEMMA ArrayFilled ==
  ASSUME TypeInv, [Next]_vars, NEW c \in Channels
  PROVE  Filled(c)
  <1>0. /\ elementData \in [Channels -> Seq(Entries \cup {Null})] /\ TypeOK
        /\ Len(elementData[c]) \in Nat /\ DOMAIN elementData[c] = 1..Len(elementData[c])
    BY LenProperties DEF TypeInv, TypeOK, ListsOK
  <1>1. ASSUME elementData'[c] = elementData[c] PROVE Filled(c)
    BY <1>1 DEF Filled
  <1>2. ASSUME NEW t \in Threads, NEW d \in Channels, BeginAdd(t, d) PROVE Filled(c)
    <2>1. CASE c = d
      <3>1. elementData'[c] = Grown(c)
        BY <1>0, <1>2, <2>1 DEF BeginAdd
      <3>2. Grown(c) \in Seq(Entries \cup {Null}) /\ DOMAIN Grown(c) = 1..Len(Grown(c)) /\ Len(Grown(c)) \in Nat
        BY <1>0, GrownType, LenProperties
      <3>3. \A i \in 1..Len(Grown(c)) : Grown(c)[i] = IF i <= Len(elementData[c]) THEN elementData[c][i] ELSE Null
        BY <1>0, GrownContent
      <3>4. ToSet(Grown(c)) \subseteq ToSet(elementData[c]) \cup {Null}
        BY <1>0, <3>2, <3>3 DEF ToSet
      <3>5. QED BY <3>1, <3>4 DEF Filled
    <2>2. QED BY <1>0, <1>1, <1>2, <2>1 DEF BeginAdd
  <1>3. ASSUME NEW d \in Channels,
               OpenChannel(d) \/ PutTranscript(d) \/ CloseChannel(d) \/ RemoveTranscript(d)
                 \/ FailPending(d) \/ Flush(d)
        PROVE  Filled(c)
    BY <1>1, <1>3 DEF OpenChannel, PutTranscript, CloseChannel, RemoveTranscript, FailPending, Flush, lists
  <1>4. ASSUME NEW d \in Channels, MessageReceived(d) PROVE Filled(c)
    BY <1>2, <1>4 DEF MessageReceived, Threads
  <1>5. ASSUME NEW r \in Requests, RecordCommand(r) PROVE Filled(c)
    <2>1. call[r].id \in Channels
      BY DEF TypeInv, TypeOK, ControlOK, Calls
    <2>2. QED BY <1>2, <1>5, <2>1 DEF RecordCommand, Threads
  <1>6. ASSUME NEW r \in Requests,
               Submit(r) \/ Check(r) \/ TranscriptGone(r) \/ FindChannel(r) \/ WriteCommand(r)
                 \/ BeginRead(r) \/ ReadNext(r) \/ BeginList(r) \/ ListNext(r) \/ EndList(r)
        PROVE  Filled(c)
    BY <1>1, <1>6 DEF Submit, Check, TranscriptGone, FindChannel, WriteCommand, BeginRead, ReadNext,
                      BeginList, ListNext, EndList, lists
  <1>7. ASSUME NEW t \in Threads, AddRead(t) \/ AddSize(t) \/ AddThrows(t) PROVE Filled(c)
    BY <1>1, <1>7 DEF AddRead, AddSize, AddThrows, lists
  <1>8. ASSUME NEW t \in Threads, AddStore(t) PROVE Filled(c)
    <2>1. PICK b \in Channels : b = ListOf(t)
      BY <1>8, EntryType DEF AddStore, AddSteps
    <2>2. CASE b = c
      <3>1. \A i \in DOMAIN elementData'[c] :
              i \in DOMAIN elementData[c] /\ elementData'[c][i] \in {elementData[c][i], EntryOf(t)}
        BY <1>0, <1>8, <2>1, <2>2 DEF AddStore
      <3>2. pc[t] \in AddSteps /\ ListOf(t) = c
        BY <1>8, <2>1, <2>2 DEF AddStore, AddSteps
      <3>3. QED BY <3>1, <3>2 DEF Filled, ToSet
    <2>3. CASE b # c
      BY <1>0, <1>1, <1>8, <2>1, <2>3 DEF AddStore
    <2>4. QED BY <2>2, <2>3
  <1>9. CASE UNCHANGED vars
    BY <1>1, <1>9 DEF vars, lists
  <1>10. QED
    BY <1>3, <1>4, <1>5, <1>6, <1>7, <1>8, <1>9
    DEF Next, Environment, WorkerStep, RequestStep, Threads

LEMMA FramesGrow ==
  ASSUME TypeInv, [Next]_vars, NEW c \in Channels
  PROVE  frames[c] \in Nat /\ frames'[c] \in Nat /\ frames[c] <= frames'[c]
  <1>0. frames \in [Channels -> 0..MaxFrames] /\ frames[c] \in Nat
    BY ServerAssumption DEF TypeInv, TypeOK, IoOK
  <1>1. UNCHANGED frames \/ \E d \in Channels : frames' = [frames EXCEPT ![d] = @ + 1]
    BY DEF Next, Environment, WorkerStep, RequestStep, vars, io,
           OpenChannel, PutTranscript, CloseChannel, RemoveTranscript, FailPending, Flush, MessageReceived,
           Submit, Check, TranscriptGone, RecordCommand, FindChannel, WriteCommand, BeginRead, ReadNext,
           BeginList, ListNext, EndList, AddRead, AddSize, AddStore, AddThrows
  <1>2. QED BY <1>0, <1>1

LEMMA CrossTalkStep ==
  ASSUME TypeInv, RelayInv, NoCrossTalk, [Next]_vars
  PROVE  NoCrossTalk'
  <1> SUFFICES ASSUME NEW c \in Channels, NEW e \in ToSet(elementData'[c]) \ {Null}
               PROVE  Entitled(e, c)'
    BY DEF NoCrossTalk, Entitled
  <1>1. call' = call
    <2>1. CASE Requests = {}
      BY <2>1 DEF Next, Environment, WorkerStep, RequestStep, vars,
           OpenChannel, PutTranscript, CloseChannel, RemoveTranscript, FailPending, Flush, MessageReceived,
           AddRead, AddSize, AddStore, AddThrows
    <2>2. QED BY <2>1, OwnSteps
  <1>2. frames[c] \in Nat /\ frames'[c] \in Nat /\ frames[c] <= frames'[c]
    BY FramesGrow
  <1>3. Entitled(e, c) /\ (e.sender = "you" \/ e.of \in Nat)
    <2>1. CASE e \in ToSet(elementData[c])
      <3>1. e \in Entries /\ Entitled(e, c)
        <4>1. elementData[c] \in Seq(Entries \cup {Null})
          BY DEF TypeInv, TypeOK, ListsOK
        <4>2. QED BY <2>1, <4>1 DEF NoCrossTalk, Entitled, ToSet
      <3>2. QED BY <3>1 DEF Entries, You, Reader
    <2>2. ASSUME NEW t \in Threads, e = EntryOf(t), ListOf(t) = c, pc[t] \in AddSteps
          PROVE  Entitled(e, c) /\ (e.sender = "you" \/ e.of \in Nat)
      BY <1>2, <2>2 DEF EntryOf, ListOf, Entitled, You, Reader
    <2>3. QED BY <2>1, <2>2, ArrayFilled DEF Filled
  <1>4. QED BY <1>1, <1>2, <1>3 DEF Entitled

-----------------------------------------------------------------------------
(* What a run keeps, whatever the threads of the server do. *)
TranscriptInv ==
  /\ TypeInv /\ RelayInv /\ PhaseInv /\ NoCrossTalk
  /\ \A c \in Channels : Exact(c)
  /\ \A r \in Requests : Role(r) /\ Listing(r) /\ Reading(r) /\ Excused(r)

LEMMA TranscriptInit == Init => TranscriptInv
  <1>1. Init => \A r \in Requests : Excused(r)
    BY DEF Init, Excused
  <1>2. ASSUME Init PROVE NoCrossTalk
    <2>1. \A c \in Channels : elementData[c] = Nulls(Capacity)
      BY <1>2 DEF Init
    <2>2. ToSet(Nulls(Capacity)) \subseteq {Null}
      BY ServerAssumption DEF ToSet, Nulls
    <2>3. QED BY <2>1, <2>2 DEF NoCrossTalk
  <1>3. QED
    BY <1>1, <1>2, TypeInit, RelayInit, PhaseInit, RoleInit, ExactInit, ReadingInit DEF TranscriptInv

LEMMA TranscriptStep == TranscriptInv /\ [Next]_vars => TranscriptInv'
  <1> SUFFICES ASSUME TranscriptInv, [Next]_vars PROVE TranscriptInv'
    OBVIOUS
  <1>1. TypeInv /\ RelayInv /\ PhaseInv /\ NoCrossTalk /\ \A c \in Channels : Exact(c)
    BY DEF TranscriptInv
  <1>2. (TypeInv /\ RelayInv /\ PhaseInv /\ NoCrossTalk)'
    BY <1>1, TypeStep, RelayStep, PhaseStep, CrossTalkStep
  <1>3. \A c \in Channels : Exact(c)'
    BY <1>1, ExactStep
  <1>4. ASSUME NEW r \in Requests PROVE (Role(r) /\ Listing(r) /\ Reading(r) /\ Excused(r))'
    <2>1. Role(r) /\ Listing(r) /\ Reading(r) /\ Excused(r)
      BY DEF TranscriptInv
    <2>2. QED BY <1>1, <2>1, RoleStep, ListingStep, ReadingStep, ExcusedStep
  <1>5. QED BY <1>2, <1>3, <1>4 DEF TranscriptInv

THEOREM TranscriptInvariant == Spec => []TranscriptInv
  BY TranscriptInit, TranscriptStep, PTL DEF Spec

(* A well formed command is answered with an error or a 500 only if its
   connection has begun to close, or two adds to its transcript have overlapped,
   after which AddThrows may end it on an open connection. *)
THEOREM CommandsFailForAReason == Spec => []FailureMeansGone
  <1>1. TranscriptInv => FailureMeansGone
    BY DEF TranscriptInv, FailureMeansGone, Excused, Commands
  <1>2. QED BY <1>1, TranscriptInvariant, PTL

(* A listing that finds nothing means that every connection open when it began
   has closed. *)
THEOREM EmptyListsAreTrue == Spec => []EmptyListMeansGone
  <1>1. TranscriptInv => EmptyListMeansGone
    <2> SUFFICES ASSUME TranscriptInv, NEW r \in Requests, call[r].action = "getPcscClients",
                        answer[r] = "ok", view[r] = << >>, NEW c \in known[r]
                 PROVE  phase[c] \in Gone
      BY DEF EmptyListMeansGone
    <2>1. Listing(r) /\ OnCourse(r)
      BY DEF TranscriptInv, RelayInv
    <2>2. QED BY <2>1 DEF Listing, OnCourse
  <1>2. QED BY <1>1, TranscriptInvariant, PTL

(* Unless two adds overlapped, the transcript holds the entries stored, in order
   and without a gap. *)
THEOREM TranscriptsAreExact == Spec => []TranscriptExact
  <1>1. TranscriptInv => TranscriptExact
    <2> SUFFICES ASSUME TranscriptInv, NEW c \in Channels, ~raced[c]
                 PROVE  /\ SubSeq(elementData[c], 1, Len(log[c])) = log[c]
                        /\ size[c] - Len(log[c]) \in {0, 1}
                        /\ Adding(c) = {} => size[c] = Len(log[c])
                        /\ \A t \in Adding(c) : pc[t] = "addStore" => index[t] < array[t]
      BY DEF TranscriptExact
    <2>1. Stored(c) /\ Counted(c)
      BY DEF TranscriptInv, Exact
    <2>2. /\ elementData[c] \in Seq(Entries \cup {Null}) /\ log[c] \in Seq(Entries) /\ size[c] \in Nat
          /\ Len(elementData[c]) \in Nat /\ Len(log[c]) \in Nat
      BY LenProperties DEF TranscriptInv, TypeInv, TypeOK, ListsOK
    <2>3. SubSeq(elementData[c], 1, Len(log[c])) = log[c]
      <3>1. PICK s \in Seq(Entries \cup {Null}), n \in Nat, l \in Seq(Entries \cup {Null}) :
              s = elementData[c] /\ n = Len(log[c]) /\ l = log[c]
        BY <2>2
      <3>2. n <= Len(s) /\ \A i \in 1..n : s[i] = l[i]
        BY <2>1, <2>2, <3>1 DEF Stored
      <3>3. Len(l) = n /\ \A i \in 1..n : SubSeq(s, 1, n)[i] = s[i]
        BY <3>1, <3>2
      <3>4. SubSeq(s, 1, n) \in Seq(Entries \cup {Null}) /\ Len(SubSeq(s, 1, n)) = n
        BY <3>1, <3>2
      <3>5. SubSeq(s, 1, n) = l
        BY <3>1, <3>2, <3>3, <3>4, SeqEqual
      <3>6. QED BY <3>1, <3>5
    <2>4. size[c] = Len(log[c]) \/ size[c] = Len(log[c]) + 1
      BY <2>1 DEF Counted
    <2>5. Adding(c) = {} => size[c] = Len(log[c])
      BY <2>1 DEF Counted
    <2>6. \A t \in Adding(c) : pc[t] = "addStore" => index[t] < array[t]
      BY <2>1 DEF Counted
    <2>7. QED BY <2>2, <2>3, <2>4, <2>5, <2>6
  <1>2. QED BY <1>1, TranscriptInvariant, PTL

(* Unless two adds overlapped, a successful read shows a prefix of the
   transcript. *)
THEOREM ReadsShowPrefixes == Spec => []ReadsArePrefixes
  <1>1. TranscriptInv => ReadsArePrefixes
    <2> SUFFICES ASSUME TranscriptInv, NEW r \in Requests, call[r].action = "getPcscClient",
                        ~raced[call[r].id]
                 PROVE  IsPrefix(view[r], log[call[r].id])
      BY DEF ReadsArePrefixes
    <2>1. PICK s \in Seq(Entries \cup Channels), l \in Seq(Entries \cup Channels) :
            s = view[r] /\ l = log[call[r].id]
      <3>1. call[r].id \in Channels
        BY DEF TranscriptInv, TypeInv, TypeOK, ControlOK, Calls
      <3>2. QED BY <3>1 DEF TranscriptInv, TypeInv, TypeOK, ListsOK, LocalsOK
    <2>2. Len(s) <= Len(l) /\ \A i \in 1..Len(s) : s[i] = l[i]
      BY <2>1 DEF TranscriptInv, Reading
    <2>3. SubSeq(s, 1, Len(s)) = SubSeq(l, 1, Len(s))
      BY <2>2
    <2>4. QED BY <2>1, <2>2, <2>3 DEF IsPrefix
  <1>2. QED BY <1>1, TranscriptInvariant, PTL

-----------------------------------------------------------------------------
(* Unless two adds overlapped, a read that got as far as its iterator fails only
   because a writer modified the list since or is in the middle of its add, or
   because the transcript holds a command that was null. *)
THEOREM ReadsFailForAReason == Spec => FailedReadsAreExplained
  <1> DEFINE Goal ==
        \A r \in Requests :
          pc[r] = "iterate" /\ answer'[r] = "fault" /\ ~raced[call[r].id]
            => \/ modCount[call[r].id] # expected[r] \/ Adding(call[r].id) # {}
               \/ \E q \in Requests :
                    call[q].body = "nullCommand" /\ You(q) \in ToSet(elementData[call[r].id])
  <1>1. TranscriptInv /\ [Next]_vars => Goal
    <2> SUFFICES ASSUME TranscriptInv, [Next]_vars, NEW r \in Requests, pc[r] = "iterate",
                        answer'[r] = "fault", ~raced[call[r].id],
                        modCount[call[r].id] = expected[r], Adding(call[r].id) = {},
                        \A q \in Requests :
                          call[q].body = "nullCommand" => You(q) \notin ToSet(elementData[call[r].id])
                 PROVE  FALSE
      OBVIOUS
    <2>0. PICK c \in Channels : c = call[r].id
      BY DEF TranscriptInv, TypeInv, TypeOK, ControlOK, Calls
    <2>1. /\ TypeInv /\ RelayInv /\ Stored(c) /\ Counted(c) /\ Role(r) /\ Reading(r) /\ OnCourse(r)
      BY <2>0 DEF TranscriptInv, Exact, RelayInv
    <2>2. answer[r] = "none"
      BY <2>1 DEF OnCourse
    <2>3. RequestStep(r)
      BY <2>1, <2>2, OwnSteps DEF Bystander, Submit
    <2>4. ReadNext(r)
      BY <2>3 DEF RequestStep, Check, TranscriptGone, RecordCommand, FindChannel, WriteCommand, BeginRead,
                  BeginList, ListNext, EndList, AddRead, AddSize, AddStore, AddThrows
    <2>5. PICK n : n = Len(view[r])
      OBVIOUS
    <2>6. /\ n \in Nat /\ Len(log[c]) \in Nat /\ Len(elementData[c]) \in Nat
          /\ log[c] \in Seq(Entries) /\ answer \in [Requests -> Answers]
      BY <2>1, <2>5, LenProperties DEF TypeInv, TypeOK, ListsOK, LocalsOK, ControlOK
    <2>7. n # size[c] /\ ~NextReturns(r)
      BY <2>0, <2>2, <2>4, <2>5, <2>6 DEF ReadNext, Finish, HasNext, Cursor
    <2>8. size[c] = Len(log[c])
      BY <2>0, <2>1 DEF Counted
    <2>9. n + 1 \in 1..Len(log[c]) /\ Len(log[c]) <= Len(elementData[c])
      BY <2>0, <2>1, <2>5, <2>6, <2>7, <2>8 DEF Reading, Role, Stored
    <2>10. elementData[c][n + 1] = log[c][n + 1]
      BY <2>1, <2>6, <2>9 DEF Stored
    <2>11. log[c][n + 1] \in Entries
      BY <2>6, <2>9, ElementOfSeq
    <2>12. HasContent(elementData[c][n + 1])
      <3>1. PICK e \in Entries : e = elementData[c][n + 1]
        BY <2>10, <2>11
      <3>2. n + 1 \in DOMAIN elementData[c]
        <4>1. elementData[c] \in Seq(Entries \cup {Null})
          BY <2>1 DEF TypeInv, TypeOK, ListsOK
        <4>2. QED BY <2>6, <2>9, <4>1
      <3>3. e \in ToSet(elementData[c])
        BY <3>1, <3>2 DEF ToSet
      <3>4. e # Null
        BY <3>1, NullAssumption
      <3>5. ASSUME e.sender = "you" PROVE e.of \in Requests /\ e = You(e.of)
        <4>1. ASSUME NEW m, e = Reader(m) PROVE FALSE
          BY <3>5, <4>1 DEF Reader
        <4>2. PICK q \in Requests : e = You(q)
          BY <3>1, <4>1 DEF Entries
        <4>3. e.of = q
          BY <4>2 DEF You
        <4>4. QED BY <4>2, <4>3
      <3>6. e.sender = "you" => call[e.of].body # "nullCommand"
        BY <2>0, <3>3, <3>5
      <3>7. QED BY <3>1, <3>4, <3>6 DEF HasContent
    <2>13. NextReturns(r)
      BY <2>0, <2>5, <2>6, <2>8, <2>9, <2>12 DEF NextReturns, Cursor
    <2>14. QED BY <2>7, <2>13
  <1>2. Goal => [Goal]_vars
    OBVIOUS
  <1>3. QED BY <1>1, <1>2, TranscriptInvariant, PTL DEF Spec, FailedReadsAreExplained

-----------------------------------------------------------------------------
(* The server implements the relay: the steps the relay shows and the others. *)
LEMMA LinkStates ==
  ASSUME NEW c \in Channels
  PROVE  /\ LinkOf(c) = "up" <=> phase[c] = "open"
         /\ LinkOf(c) = "fresh" <=> phase[c] \in {"none", "opening"}
         /\ LinkOf(c) = "down" <=> phase[c] \notin {"none", "opening", "open"}
  <1>1. CASE phase[c] \in {"none", "opening"}
    BY <1>1 DEF LinkOf
  <1>2. CASE phase[c] = "open"
    BY <1>2 DEF LinkOf
  <1>3. CASE phase[c] \notin {"none", "opening", "open"}
    BY <1>3 DEF LinkOf
  <1>4. QED BY <1>1, <1>2, <1>3

LEMMA RelayStutter ==
  ASSUME UNCHANGED <<pending, wire>>, Failed' = Failed,
         \A c \in Channels : LinkOf(c)' = LinkOf(c)
  PROVE  [Relay!Next]_Relay!vars
  <1>1. PICK L, M : L = [c \in Channels |-> LinkOf(c)] /\ M = [c \in Channels |-> LinkOf(c)']
    OBVIOUS
  <1>2. L = M
    BY <1>1
  <1>3. QED BY <1>1, <1>2 DEF Relay!vars

(* A connection of which only the phase changes. *)
LEMMA RelayPhase ==
  ASSUME TypeInv, NEW c \in Channels, NEW p \in Phases, phase' = [phase EXCEPT ![c] = p],
         UNCHANGED <<pending, wire, call, answer>>,
         \/ phase[c] = "none" /\ p = "opening"
         \/ phase[c] = "opening" /\ p = "open"
         \/ phase[c] = "open" /\ p = "closing"
         \/ phase[c] \in Gone /\ p \in Gone
  PROVE  [Relay!Next]_Relay!vars
  <1>1. PICK L, M : L = [d \in Channels |-> LinkOf(d)] /\ M = [d \in Channels |-> LinkOf(d)']
    OBVIOUS
  <1>2. phase'[c] = p /\ \A d \in Channels : d # c => LinkOf(d)' = LinkOf(d)
    BY DEF LinkOf, TypeInv, TypeOK, RegistryOK
  <1>3. Failed' = Failed
    BY DEF Failed, Commands
  <1>4. LinkOf(c)' = CASE p \in {"none", "opening"} -> "fresh" [] p = "open" -> "up" [] OTHER -> "down"
    BY <1>2 DEF LinkOf
  <1>5. ASSUME (phase[c] = "none" /\ p = "opening") \/ (phase[c] \in Gone /\ p \in Gone)
        PROVE  [Relay!Next]_Relay!vars
    <2>1. LinkOf(c)' = LinkOf(c)
      BY <1>4, <1>5 DEF LinkOf, Gone
    <2>2. QED BY <1>2, <1>3, <2>1, RelayStutter
  <1>6. CASE phase[c] = "opening" /\ p = "open"
    <2>1. L[c] = "fresh" /\ M = [L EXCEPT ![c] = "up"]
      BY <1>1, <1>2, <1>4, <1>6 DEF LinkOf
    <2>2. Relay!Up(c)
      BY <1>1, <1>3, <2>1 DEF Relay!Up
    <2>3. QED BY <2>2 DEF Relay!Next
  <1>7. CASE phase[c] = "open" /\ p = "closing"
    <2>1. L[c] = "up" /\ M = [L EXCEPT ![c] = "down"]
      BY <1>1, <1>2, <1>4, <1>7 DEF LinkOf
    <2>2. Relay!Down(c)
      BY <1>1, <1>3, <2>1 DEF Relay!Down
    <2>3. QED BY <2>2 DEF Relay!Next
  <1>8. QED BY <1>5, <1>6, <1>7

(* A request not yet answered nor queued is unknown to the relay. *)
LEMMA RelayUnknown ==
  ASSUME RelayInv, NEW r \in Requests, answer[r] = "none", pc[r] # "await"
  PROVE  r \notin Relay!Known
  <1>1. r \notin Failed
    BY DEF Failed
  <1>2. \A c \in Channels : r \notin ToSet(pending[c]) \cup ToSet(wire[c])
    BY DEF RelayInv, QueueHolds, WireHolds
  <1>3. QED BY <1>1, <1>2 DEF Relay!Known, Relay!ToSet, ToSet

(* A request is answered before it was queued. *)
LEMMA RelayRefuse ==
  ASSUME TypeInv, RelayInv, NEW r \in Requests, answer[r] = "none", pc[r] # "await",
         UNCHANGED <<phase, pending, wire, call>>,
         NEW a, answer' = [answer EXCEPT ![r] = a], a \notin {"none", "sent"}
  PROVE  [Relay!Next]_Relay!vars
  <1>1. \A c \in Channels : LinkOf(c)' = LinkOf(c)
    BY DEF LinkOf
  <1>2. PICK L, M : L = [c \in Channels |-> LinkOf(c)] /\ M = [c \in Channels |-> LinkOf(c)']
    OBVIOUS
  <1>3. L = M /\ answer \in [Requests -> Answers]
    BY <1>1, <1>2 DEF TypeInv, TypeOK, ControlOK
  <1>4. CASE r \in Commands
    <2>1. Failed' = Failed \cup {r}
      BY <1>3, <1>4 DEF Failed, Commands
    <2>2. Relay!Refuse(r)
      BY <1>2, <1>3, <2>1, RelayUnknown DEF Relay!Refuse
    <2>3. QED BY <2>2 DEF Relay!Next
  <1>5. CASE r \notin Commands
    <2>1. Failed' = Failed
      BY <1>3, <1>5 DEF Failed, Commands
    <2>2. QED BY <1>1, <2>1, RelayStutter
  <1>6. QED BY <1>4, <1>5

(* A write that finds the channel open. *)
LEMMA RelayAccept ==
  ASSUME TypeInv, RelayInv, NEW r \in Requests, WriteCommand(r)
  PROVE  [Relay!Next]_Relay!vars
  <1>1. /\ r \in Commands /\ answer[r] = "none" /\ pc[r] # "await"
        /\ UNCHANGED <<phase, wire, call>>
    BY DEF RelayInv, OnCourse, WriteCommand, AddSteps, registry
  <1>2. PICK c \in Channels : c = call[r].id
    BY DEF TypeInv, TypeOK, ControlOK, Calls
  <1>3. CASE phase[c] = "open"
    <2>1. PICK L, M : L = [d \in Channels |-> LinkOf(d)] /\ M = [d \in Channels |-> LinkOf(d)']
      OBVIOUS
    <2>2. M = L /\ L[c] = "up"
      BY <1>1, <1>3, <2>1 DEF LinkOf
    <2>3. pending' = [pending EXCEPT ![c] = Append(@, r)] /\ answer' = answer
      BY <1>2, <1>3 DEF WriteCommand
    <2>4. Failed' = Failed
      BY <1>1, <2>3 DEF Failed, Commands
    <2>5. Relay!Accept(c, r)
      BY <1>1, <2>1, <2>2, <2>3, <2>4, RelayUnknown DEF Relay!Accept
    <2>6. QED BY <2>5 DEF Relay!Next
  <1>4. CASE phase[c] # "open"
    <2>1. pending' = pending /\ answer' = [answer EXCEPT ![r] = "error"]
      BY <1>2, <1>4 DEF WriteCommand, Finish
    <2>2. QED BY <1>1, <2>1, RelayRefuse
  <1>5. QED BY <1>3, <1>4

(* The head of a queue is written. *)
LEMMA RelayDeliver ==
  ASSUME TypeInv, RelayInv, NEW c \in Channels, Flush(c)
  PROVE  [Relay!Next]_Relay!vars
  <1>1. PICK L, M : L = [d \in Channels |-> LinkOf(d)] /\ M = [d \in Channels |-> LinkOf(d)']
    OBVIOUS
  <1>2. M = L /\ L[c] = "up"
    BY <1>1 DEF LinkOf, Flush, registry
  <1>3. PICK q \in Requests : q = Head(pending[c])
    BY HeadTailProperties DEF Flush, TypeInv, TypeOK, IoOK
  <1>4. q \in ToSet(pending[c])
    BY <1>3, ToSetHeadTail DEF Flush, TypeInv, TypeOK, IoOK
  <1>5. answer[q] = "none"
    BY <1>4 DEF RelayInv, QueueHolds, OnCourse
  <1>6. answer' = [answer EXCEPT ![q] = "sent"] /\ call' = call
    BY <1>3 DEF Flush, Finish
  <1>7. Failed' = Failed
    BY <1>5, <1>6 DEF Failed, Commands, TypeInv, TypeOK, ControlOK
  <1>8. Relay!Deliver(c)
    BY <1>1, <1>2, <1>7 DEF Relay!Deliver, Flush
  <1>9. QED BY <1>8 DEF Relay!Next

(* A close fails what is queued. *)
LEMMA RelayGiveUp ==
  ASSUME TypeInv, RelayInv, NEW c \in Channels, FailPending(c)
  PROVE  [Relay!Next]_Relay!vars
  <1>1. PICK L, M : L = [d \in Channels |-> LinkOf(d)] /\ M = [d \in Channels |-> LinkOf(d)']
    OBVIOUS
  <1>2. \A d \in Channels : phase'[d] = IF d = c THEN "drained" ELSE phase[d]
    BY DEF FailPending, TypeInv, TypeOK, RegistryOK
  <1>3. \A d \in Channels : LinkOf(d)' = LinkOf(d)
    BY <1>2 DEF LinkOf, FailPending
  <1>4. M = L /\ L[c] = "down"
    BY <1>1, <1>3 DEF LinkOf, FailPending
  <1>5. PICK Q : Q = ToSet(pending[c])
    OBVIOUS
  <1>6. Q \subseteq Commands
    BY <1>5 DEF RelayInv, QueueHolds
  <1>7. /\ answer' = [r \in Requests |-> IF r \in Q THEN "error" ELSE answer[r]]
        /\ UNCHANGED <<wire, call>> /\ pending' = [pending EXCEPT ![c] = << >>]
    BY <1>5 DEF FailPending
  <1>8. Failed' = Failed \cup Q
    BY <1>6, <1>7 DEF Failed, Commands
  <1>9. CASE pending[c] = << >>
    <2>1. Q = {}
      BY <1>5, <1>9 DEF ToSet
    <2>2. pending' = pending
      BY <1>7, <1>9 DEF TypeInv, TypeOK, IoOK
    <2>3. QED BY <1>3, <1>7, <1>8, <2>1, <2>2, RelayStutter
  <1>10. CASE pending[c] # << >>
    <2>1. Relay!GiveUp(c)
      BY <1>1, <1>4, <1>5, <1>7, <1>8, <1>10 DEF Relay!GiveUp, Relay!ToSet, ToSet
    <2>2. QED BY <2>1 DEF Relay!Next
  <1>11. QED BY <1>9, <1>10

(* Every behaviour of the server is one of the relay: whatever its threads do, a
   command is handed to the link it names, at most once, in the order in which
   the queue accepted it and only while that link is up. *)
THEOREM RelayIsImplemented == Spec => RelayImplemented
  <1>1. Init => Relay!Init
    <2> SUFFICES ASSUME Init PROVE Relay!Init
      OBVIOUS
    <2>1. \A c \in Channels : LinkOf(c) = "fresh"
      BY DEF Init, LinkOf
    <2>2. Failed = {}
      BY DEF Init, Failed, Commands
    <2>3. QED BY <2>1, <2>2 DEF Init, Relay!Init
  <1>2. TranscriptInv /\ [Next]_vars => [Relay!Next]_Relay!vars
    <2> SUFFICES ASSUME TranscriptInv, [Next]_vars PROVE [Relay!Next]_Relay!vars
      OBVIOUS
    <2> DEFINE Goal == [Relay!Next]_Relay!vars
    <2>0. TypeInv /\ RelayInv /\ PhaseInv
      BY DEF TranscriptInv
    <2>1. ASSUME UNCHANGED <<phase, pending, wire, call, answer>> PROVE Goal
      <3>1. \A c \in Channels : LinkOf(c)' = LinkOf(c)
        BY <2>1 DEF LinkOf
      <3>2. Failed' = Failed
        BY <2>1 DEF Failed, Commands
      <3>3. QED BY <2>1, <3>1, <3>2, RelayStutter
    <2>2. ASSUME NEW c \in Channels,
                 OpenChannel(c) \/ PutTranscript(c) \/ CloseChannel(c) \/ RemoveTranscript(c)
          PROVE  Goal
      <3>1. /\ UNCHANGED <<pending, wire, call, answer>>
            /\ \E p \in Phases :
                 /\ phase' = [phase EXCEPT ![c] = p]
                 /\ \/ phase[c] = "none" /\ p = "opening"
                    \/ phase[c] = "opening" /\ p = "open"
                    \/ phase[c] = "open" /\ p = "closing"
                    \/ phase[c] \in Gone /\ p \in Gone
        BY <2>2 DEF OpenChannel, PutTranscript, CloseChannel, RemoveTranscript, io, Phases, Gone
      <3>2. QED BY <2>0, <3>1, RelayPhase
    <2>3. ASSUME NEW c \in Channels, Flush(c) \/ FailPending(c) PROVE Goal
      BY <2>0, <2>3, RelayDeliver, RelayGiveUp
    <2>4. ASSUME NEW c \in Channels, MessageReceived(c) PROVE Goal
      BY <2>1, <2>4 DEF MessageReceived, registry
    <2>5. ASSUME NEW r \in Requests,
                 Submit(r) \/ RecordCommand(r) \/ BeginRead(r) \/ BeginList(r) \/ ListNext(r)
          PROVE  Goal
      BY <2>1, <2>5 DEF Submit, RecordCommand, BeginRead, BeginList, ListNext, registry, io
    <2>6. ASSUME NEW r \in Requests,
                 Check(r) \/ TranscriptGone(r) \/ FindChannel(r) \/ ReadNext(r) \/ EndList(r)
          PROVE  Goal
      <3>1. UNCHANGED <<phase, pending, wire, call>> /\ pc[r] \notin {"done", "await"}
        BY <2>6 DEF Check, TranscriptGone, FindChannel, ReadNext, EndList, registry, io
      <3>2. UNCHANGED answer \/ \E a : a \notin {"none", "sent"} /\ answer' = [answer EXCEPT ![r] = a]
        BY <2>6 DEF Check, TranscriptGone, FindChannel, ReadNext, EndList, Finish
      <3>3. answer[r] = "none"
        BY <2>0, <3>1 DEF RelayInv, OnCourse
      <3>4. QED BY <2>0, <2>1, <3>1, <3>2, <3>3, RelayRefuse
    <2>7. ASSUME NEW r \in Requests, WriteCommand(r) PROVE Goal
      BY <2>0, <2>7, RelayAccept
    <2>8. ASSUME NEW t \in Threads, AddRead(t) \/ AddSize(t) \/ AddStore(t) PROVE Goal
      BY <2>1, <2>8 DEF AddRead, AddSize, AddStore, registry, io
    <2>9. ASSUME NEW t \in Threads, AddThrows(t) PROVE Goal
      <3>1. CASE t \in Requests
        <4>1. /\ UNCHANGED <<phase, pending, wire, call>> /\ answer' = [answer EXCEPT ![t] = "fault"]
              /\ pc[t] = "addStore"
          BY <2>9, <3>1 DEF AddThrows, Finish, io
        <4>2. answer[t] = "none"
          BY <2>0, <3>1, <4>1 DEF RelayInv, OnCourse
        <4>3. QED BY <2>0, <3>1, <4>1, <4>2, RelayRefuse
      <3>2. CASE t \in Channels
        <4>1. /\ UNCHANGED <<pending, wire, call, answer>> /\ phase' = [phase EXCEPT ![t] = "closing"]
              /\ pc[t] # "idle"
          BY <2>9, <3>2, ServerAssumption DEF AddThrows, io
        <4>2. phase[t] \in {"open", "closing"}
          BY <2>0, <3>2, <4>1 DEF PhaseInv
        <4>3. QED BY <2>0, <3>2, <4>1, <4>2, RelayPhase DEF Phases, Gone
      <3>3. QED BY <3>1, <3>2 DEF Threads
    <2>10. ASSUME UNCHANGED vars PROVE Goal
      BY <2>1, <2>10 DEF vars, registry, io
    <2>11. QED
      <3> HIDE DEF Goal
      <3>1. ASSUME Environment PROVE Goal
        BY <2>2, <2>4, <2>5, <3>1 DEF Environment
      <3>2. ASSUME NEW c \in Channels, WorkerStep(c) \/ PutTranscript(c) PROVE Goal
        BY <2>2, <2>3, <2>8, <2>9, <3>2 DEF WorkerStep, Threads
      <3>3. ASSUME NEW r \in Requests, RequestStep(r) PROVE Goal
        BY <2>5, <2>6, <2>7, <2>8, <2>9, <3>3 DEF RequestStep, Threads
      <3>4. Goal
        BY <2>10, <3>1, <3>2, <3>3 DEF Next
      <3>5. QED BY <3>4 DEF Goal
  <1>3. QED
    BY <1>1, <1>2, TranscriptInvariant, PTL DEF Spec, RelayImplemented, Relay!Spec

=============================================================================
