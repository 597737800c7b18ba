------------------------------ MODULE WebClient ------------------------------
(***************************************************************************)
(* The page of the web terminal (ConnectViewModel, bound by command.html). *)
(*                                                                         *)
(* A browser runs one event handler of the page at a time: a click, or the *)
(* callback of a call to the server.  Calls overlap, so the page may have  *)
(* several under way, the server takes them in any order, and their        *)
(* callbacks come in any order.  commandSendingActive is the only trace    *)
(* that a read was started by a command.                                   *)
(*                                                                         *)
(* The server is reduced to what its answers tell the page: the commands   *)
(* recorded for a reader, and whether the reader is still connected.  What *)
(* is recorded stays, where in the code two commands, or a command and a   *)
(* reply, that are recorded at once can lose one: TerminalServer has that. *)
(***************************************************************************)
EXTENDS Naturals, Sequences, FiniteSets, SequencesExt

CONSTANTS
  Readers,    \* identifiers of the readers that were ever connected
  MaxReads,   \* bound: clicks of Connect and Refresh
  MaxSends    \* bound: clicks of Send

ASSUME PageAssumption == Readers # {} /\ MaxReads \in Nat /\ MaxSends \in Nat

(* Selections besides a reader: the {id:"no reader"} the page starts with, the
   {} it offers when the server knows no reader, and undefined. *)
Selections == Readers \cup {"no reader", "empty", "undefined"}

(* Text for a command: none was ever entered, numbers separated by commas, or
   text of which parseInt makes NaN somewhere, as of an empty field; JSON has
   null for it. *)
Texts == {"undefined", "numbers", "other"}

(* What chosenReaderData has before the first answer. *)
Nothing == [reader |-> "undefined", commands |-> << >>]

VARIABLES
  readerList,            \* what the page offers to choose from
  chosenReader,          \* the selection
  shown,                 \* chosenReaderData, and whose transcript it is
  commandSendingActive,
  alert,                 \* the message shown
  showReaderArea,        \* whether the part of the page with Send is visible
  command,               \* what is in the text area for the command
  calls,                 \* every call made, in order
  standing,              \* the server: where each reader's connection is
  recorded,              \* the server: commands recorded for each reader
  successes, lastSent, sentAlerts  \* history: answers "command sent", the last
                         \* of those sends, alerts "Command sent"

page    == <<readerList, chosenReader, shown, commandSendingActive, alert, showReaderArea,
             command>>
server  == <<standing, recorded>>
history == <<successes, lastSent, sentAlerts>>
vars    == <<page, calls, server, history>>

(* A call: what for, about which selection, with which text if it sends one, and
   for a read the send whose success started it (0 for a click).  "served" has
   its answer, on the way. *)
Call(kind, reader, text, after) ==
  [kind |-> kind, reader |-> reader, text |-> text, after |-> after,
   state |-> "asked", answer |-> "none", data |-> << >>]

Ids == DOMAIN calls
Outstanding(k) == calls[k].state # "done"

(* How many calls of a kind clicks have started. *)
Clicks(kind) == Cardinality({k \in Ids : calls[k].kind = kind /\ calls[k].after = 0})

Init ==
  /\ readerList = "nothing"
  /\ chosenReader = "no reader"
  /\ shown = Nothing
  /\ commandSendingActive = FALSE
  /\ alert = "none"
  /\ showReaderArea = FALSE
  /\ command = "undefined"
  /\ calls = <<Call("list", "undefined", "undefined", 0)>>
  /\ standing \in [Readers -> {"absent", "online"}]
  /\ recorded = [r \in Readers |-> << >>]
  /\ successes = 0 /\ lastSent = 0 /\ sentAlerts = 0

-----------------------------------------------------------------------------
(* The server. *)

Serve(k, a, d) ==
  calls' = [calls EXCEPT ![k].state = "served", ![k].answer = a, ![k].data = d]

Asked(k, kind) == k \in Ids /\ calls[k].kind = kind /\ calls[k].state = "asked"

Online == {r \in Readers : standing[r] = "online"}

(* An identifier is used for one connection only. *)
Comes(r) ==
  /\ standing[r] = "absent"
  /\ standing' = [standing EXCEPT ![r] = "online"]
  /\ UNCHANGED <<page, calls, recorded, history>>

Leaves(r) ==
  /\ standing[r] = "online"
  /\ standing' = [standing EXCEPT ![r] = "gone"]
  /\ UNCHANGED <<page, calls, recorded, history>>

(* getPcscClients names one reader, or none. *)
ServeList(k) ==
  /\ Asked(k, "list")
  /\ \/ \E r \in Online : Serve(k, r, << >>)
     \/ Online = {} /\ Serve(k, "empty", << >>)
  /\ UNCHANGED <<page, server, history>>

(* {"status":"error", ...}, which is no transcript. *)
Refusal == <<0>>

(* getPcscClient: the transcript as it is, or status "error". *)
ServeRead(k) ==
  /\ Asked(k, "read")
  /\ IF calls[k].reader \in Online
     THEN Serve(k, "ok", recorded[calls[k].reader])
     ELSE calls[k].reader \in Readers /\ Serve(k, "error", Refusal)
  /\ UNCHANGED <<page, server, history>>

(* sendCommandApdu: the command is recorded, then sent or not.  A null in it
   raises between the two. *)
ServeSend(k) ==
  LET r == calls[k].reader IN
  /\ Asked(k, "send")
  /\ IF r \in Online
     THEN /\ recorded' = [recorded EXCEPT ![r] = Append(@, k)]
          /\ \/ Serve(k, "failed", << >>)
             \/ calls[k].text = "numbers" /\ (Serve(k, "ok", << >>) \/ Serve(k, "error", Refusal))
     ELSE r \in Readers /\ Serve(k, "error", Refusal) /\ UNCHANGED recorded
  /\ UNCHANGED <<page, standing, history>>

(* The call fails: a 406, 500 or 501, or no connection to the server. *)
ServeFails(k) ==
  /\ k \in Ids /\ calls[k].state = "asked"
  /\ Serve(k, "failed", << >>)
  /\ UNCHANGED <<page, server, history>>

-----------------------------------------------------------------------------
(* The page. *)

(* setAlert replaces whatever message was there. *)
SetAlert(message) == alert' = message

(* The calls after the callback of k, which may have started another one. *)
Done(k) == [calls EXCEPT ![k].state = "done"]

(* The list of readers arrives, the select is built, and as none of its options
   is the selection the page starts with, that becomes undefined. *)
ListAnswered(k) ==
  /\ k \in Ids /\ calls[k].kind = "list" /\ calls[k].state = "served"
  /\ calls' = Done(k)
  /\ IF calls[k].answer = "failed"
     THEN UNCHANGED <<readerList, chosenReader>>
     ELSE readerList' = calls[k].answer /\ chosenReader' = "undefined"
  /\ UNCHANGED <<shown, commandSendingActive, alert, showReaderArea, command, server, history>>

(* Choose the option, or the caption above it. *)
Choose ==
  /\ readerList # "nothing"
  /\ chosenReader' \in {readerList, "undefined"}
  /\ UNCHANGED <<readerList, shown, commandSendingActive, alert, showReaderArea,
                 command, calls, server, history>>

(* The buttons that fill in a SELECT or a READ BINARY, and the keyboard.  The
   text area is visible with the reader area only. *)
Enter(text) ==
  /\ showReaderArea
  /\ command' = text
  /\ UNCHANGED <<readerList, chosenReader, shown, commandSendingActive, alert,
                 showReaderArea, calls, server, history>>

DefaultSelect == Enter("numbers")
DefaultReadBinary == Enter("numbers")
Type == \E text \in Texts \ {"undefined"} : Enter(text)

(* connectToReader, clicked as Connect or Refresh or called by sendCommand.
   Without a selection it raises before there is a call. *)
ConnectToReader(after, cs) ==
  calls' = IF chosenReader = "undefined" THEN cs
           ELSE Append(cs, Call("read", chosenReader, "undefined", after))

Connect ==
  /\ Clicks("read") < MaxReads
  /\ ConnectToReader(0, calls)
  /\ UNCHANGED <<page, server, history>>

(* The text is split and parsed, and the selection looked at, before there is a
   call: either raises if there is none.  Send is visible with the reader area. *)
MaySend == showReaderArea /\ command # "undefined" /\ chosenReader # "undefined"

(* Mutant: the transcript is read along with the send, not after it. *)
SendAndRead ==
  /\ MaySend
  /\ Clicks("send") < MaxSends
  /\ ConnectToReader(Len(calls) + 1, Append(calls, Call("send", chosenReader, command, 0)))
  /\ UNCHANGED <<page, server, history>>

(* Mutant: the flag is set when the button is pressed. *)
SendActiveAtOnce ==
  /\ MaySend
  /\ Clicks("send") < MaxSends
  /\ calls' = Append(calls, Call("send", chosenReader, command, 0))
  /\ commandSendingActive' = TRUE
  /\ UNCHANGED <<readerList, chosenReader, shown, alert, showReaderArea, command, server, history>>

(* sendCommand. *)
SendCommand ==
  /\ MaySend
  /\ Clicks("send") < MaxSends
  /\ calls' = Append(calls, Call("send", chosenReader, command, 0))
  /\ UNCHANGED <<page, server, history>>

(* Mutant: an answer with status "error" is shown like a transcript. *)
AnyData(k) == calls[k].answer # "failed"

HasData(k) == calls[k].answer = "ok"

(* Mutant: the flag is not cleared. *)
StaysActive == commandSendingActive' = commandSendingActive

NoLongerActive == commandSendingActive' = FALSE

(* The callbacks of connectToReader. *)
ReadAnswered(k) ==
  /\ k \in Ids /\ calls[k].kind = "read" /\ calls[k].state = "served"
  /\ calls' = Done(k)
  /\ IF HasData(k)
     THEN /\ shown' = [reader |-> calls[k].reader, commands |-> calls[k].data]
          /\ showReaderArea' = TRUE
          /\ SetAlert(IF commandSendingActive THEN "Command sent" ELSE "Connected to reader")
          /\ sentAlerts' = sentAlerts + (IF commandSendingActive THEN 1 ELSE 0)
          /\ NoLongerActive
     ELSE /\ SetAlert("error")
          /\ UNCHANGED <<shown, showReaderArea, sentAlerts, commandSendingActive>>
  /\ UNCHANGED <<readerList, chosenReader, command, server, successes, lastSent>>

(* The callbacks of sendCommand: success sets the flag and reads on. *)
SendAnswered(k) ==
  /\ k \in Ids /\ calls[k].kind = "send" /\ calls[k].state = "served"
  /\ IF calls[k].answer = "ok"
     THEN /\ commandSendingActive' = TRUE
          /\ ConnectToReader(k, Done(k))
          /\ successes' = successes + 1 /\ lastSent' = k
          /\ UNCHANGED alert
     ELSE /\ SetAlert("error")
          /\ calls' = Done(k)
          /\ UNCHANGED <<commandSendingActive, successes, lastSent>>
  /\ UNCHANGED <<readerList, chosenReader, shown, showReaderArea, command, server, sentAlerts>>

(* The cross on the alert. *)
ResetAlert ==
  /\ alert # "none" /\ alert' = "none"
  /\ UNCHANGED <<readerList, chosenReader, shown, commandSendingActive, showReaderArea,
                 command, calls, server, history>>

Next ==
  \/ \E r \in Readers : Comes(r) \/ Leaves(r)
  \/ \E k \in Ids :
       \/ ServeList(k) \/ ServeRead(k) \/ ServeSend(k) \/ ServeFails(k)
       \/ ListAnswered(k) \/ ReadAnswered(k) \/ SendAnswered(k)
  \/ Choose \/ DefaultSelect \/ DefaultReadBinary \/ Type
  \/ Connect \/ SendCommand \/ ResetAlert

Spec == Init /\ [][Next]_vars
-----------------------------------------------------------------------------
CallsOK ==
  \A k \in Ids :
    /\ calls[k].kind \in {"list", "read", "send"}
    /\ calls[k].reader \in Selections /\ (calls[k].kind # "list" => calls[k].reader # "undefined")
    /\ calls[k].text \in Texts /\ (calls[k].kind = "send" => calls[k].text # "undefined")
    /\ calls[k].after \in 0..k - 1
    /\ calls[k].state \in {"asked", "served", "done"}
    /\ calls[k].data = Refusal \/ ToSet(calls[k].data) \subseteq Ids

(* Every variable has its type, and what is shown is never an error answer: it
   is a transcript the server had of that reader. *)
TypeOK ==
  /\ readerList \in Readers \cup {"nothing", "empty"}
  /\ chosenReader \in Selections
  /\ commandSendingActive \in BOOLEAN /\ showReaderArea \in BOOLEAN
  /\ alert \in {"none", "error", "Command sent", "Connected to reader"}
  /\ command \in Texts
  /\ CallsOK
  /\ standing \in [Readers -> {"absent", "online", "gone"}]
  /\ shown # Nothing => shown.reader \in Readers /\ IsPrefix(shown.commands, recorded[shown.reader])
  /\ successes \in Nat /\ sentAlerts \in Nat /\ lastSent \in 0..Len(calls)

(* However clicks and answers interleave, "Command sent" is never shown more
   often than the server said so, the alert still to come included: one send
   is never reported twice (app.js, connectToReader). *)
SentAlertsAreEarned ==
  sentAlerts + (IF commandSendingActive THEN 1 ELSE 0) <= successes

(* The read that a successful send starts shows the command, unless the user
   has chosen another reader meanwhile: it is started by the answer, not by the
   click (app.js, sendCommand). *)
FollowUpShowsCommand ==
  \A k \in Ids :
    LET s == calls[k].after IN
    /\ calls[k].kind = "read" /\ s # 0 /\ calls[k].answer = "ok"
    /\ calls[k].reader = calls[s].reader
    => s \in ToSet(calls[k].data)

(* The flag survives only a read that did not report: while it is set, there
   was a successful send, and the read the last of them started is under way,
   failed, or was never made for want of a selection. *)
FlagAwaitsItsRead ==
  commandSendingActive =>
    /\ lastSent # 0
    /\ ~\E k \in Ids : calls[k].after = lastSent /\ calls[k].answer = "ok" /\ ~Outstanding(k)
=============================================================================
