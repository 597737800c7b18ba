# Verification of the smartcard web terminal

TLA+ models of the smartcard web terminal, the TLC runs that check them and the
TLAPS proofs about them.

The program is a small relay. A *connector* (applet or desktop program) opens a
card in a local PC/SC reader and connects to the *terminal server*. A web page
asks the server for the connected readers, sends command APDUs to one of them,
and reads the transcript of commands and replies that the server keeps for each
connection.

## 1. The system

Paths below leave out the package prefix:
`terminal-server/src/main/java/org/stary/webterminal/server/` for the server,
`smartcard-connector/src/main/java/org/stary/webterminal/connector/` for the
connector, `common-lib/src/main/java/org/stary/webterminal/common/` for the
framing.

| Component | State | Operations | Module |
|---|---|---|---|
| Connection registry and transcripts: `SmartCardTerminalServer`, `pcsc/PcscServerHandler` | `allChannels`, `pcscData`, one unlocked `ArrayList` per connection, Netty's write queue | `channelOpen`, `messageReceived`, `channelClosed`, `exceptionCaught`, `send` | `TerminalServer` |
| API actions: `http/api/CommandApdu`, `PcscClient`, `PcscClients` | the locals of each request | `process` | `TerminalServer`, `CommandRelay` |
| Length-prefixed framing: `ByteHeaderFrameDecoder`, the writes in `send` and `PcscClientHandler` | the decoder's buffer | `decode`, write a message | `Framing`, `MessageStream` |
| Connector: `ViewModel`, `PcscClient`, `PcscClientHandler`, `GuiPanel` | static `cardChannel`, the client, the button that shows | `connect`, `disconnect`, `run`, `stop`, `messageReceived`, `exceptionCaught` | `Connector`, `CardService` |
| Server and connector together | which connections TCP has set up | the above, joined where one end writes and the other reads | `WebTerminal` |
| HTTP front end: `HttpHandler`, `RestApiHandler`, `JsonMapper`, `HttpFileHandler`, `HttpUtils` | answers queued, files open | dispatch, errors, file transfer | `HttpFrontend` |
| Web client: `resources/js/app.js`, `command.html` | chosen reader, command typed, transcript shown, `commandSendingActive`, alert | asynchronous requests and their callbacks | `WebClient` |

Not modelled: the pipeline factories and entry points (wiring), the vendored
scripts and styles, the Maven files.

How they interact: the page's requests become calls of `process` on an HTTP
worker; `sendCommandApdu` records the command in the transcript, finds the
channel in the group and writes to it; the connector's worker decodes the frame,
hands it to the card and writes the reply; the worker of the connection at the
server records the reply in the same transcript. The reply is paired with its
command only by order.

What is hard about it:

- HTTP workers and the worker of a connection use one unlocked `ArrayList`.
- The check in `pcscData`, the look-up of the transcript and the search in
  `allChannels` are separate steps, with connections coming and going between.
- A command is answered by the listener of the write, on another thread, and the
  connection may close with writes queued.
- TCP cuts the stream of frames anywhere; the length is one byte, written modulo
  256 and read as a signed number.
- The connector's GUI thread assigns a static field that the worker reads, closes
  the connection under the worker, and then waits for it.
- A card exception in `connect` is printed and forgotten.
- Two threads queue answers on one HTTP connection, and listeners are added to a
  write that may be complete by then.
- The page's calls overlap, and one flag has to tell whose answer comes.

## 2. Modules

### TerminalServer

One module for registry, transcripts and API actions, because each hazard is
between them. The threads are the boss (`OpenChannel`, `PutTranscript`: the two
statements of `channelOpen`), one worker per channel (`MessageReceived`, `Flush`,
and for a close `CloseChannel`, `FailPending`, `RemoveTranscript`), and one HTTP
worker per request. `pc[t]` is the next step of a thread:

- `sendCommandApdu`: `Submit`, `Check` (the key checks, `containsKey` and the
  cast to a list), `RecordCommand` (`pcscData.get(id).add`, which starts an add), the add,
  `FindChannel` (`allChannels.find`), `WriteCommand` (the write; on a closed
  channel it fails at once), then `Flush` or `FailPending` completes the future
  and with it the answer.
- `getPcscClient`: `Check`, `BeginRead` (the iterator is made), `ReadNext` once
  for each entry, with the check of `modCount`.
- `getPcscClients`: `BeginList`, `ListNext` for each channel, `EndList`. The set
  iterated is weakly consistent, so `ListNext` visits a channel if it is still in
  the group.

`ArrayList.add` is `BeginAdd` (`modCount++` and growing), `AddRead` (array and
size are loaded), `AddSize` (the size is incremented), `AddStore` (the element is
stored), because two threads really are in it at once. When that happens entries
are lost, a slot stays null, or the store is out of bounds (`AddThrows`), which
`exceptionCaught` answers with a close, on a connection's worker, or a 500.
`raced[c]` remembers that two adds to the transcript of `c` overlapped, and the
properties say what still holds then.

Abstractions: growing and `modCount++` are one step with the call, the loads of
array and size are one step (a wider interleaving than that only adds more of
what `raced` stands for); memory visibility is not modelled, every thread sees
the latest value; a channel identifier is never used again (Netty 3 makes it
unique among the channels that are open); a list has `Capacity` slots at first,
10 in the JDK and 1 in the runs, so that growing happens.
A null slot left by a race breaks every later read of the transcript: `view` and
`answer` show that as a fault, and the properties except it by `raced`. So does,
without any race, a command that was null: `{"command":null}` passes the checks
of `CommandApdu.process` and is recorded without content before the bytes are
counted, and from then on `addAll(null)` raises in every read of that transcript
(`HasContent`). `BodyShapes` are the forms a request body takes: a key missing,
an identifier that is no number, a command that is no list or null, or a list
with an element that is no number.

`CommandRelay` is what the server promises about commands: each link has a queue
and what was delivered; a command is queued at most once, on a link that is up,
leaves the queue in order, or fails. `RelayImplemented` states that the server
refines it: `queue <- pending`, `delivered <- wire`, `failed <-` the commands
answered with anything but success, and a link is up while `phase` is `"open"`.

### Framing

One direction of a connection. `Send` writes `LengthByte(Len(m))` and the bytes,
`Arrive(n)` delivers bytes, `Decode` and `DecodeFails` are one call of `decode`
that returns a frame or raises, as `Signed` of the length byte decides. A byte
has `2 * Half` values: `Half` is 128 in the code, 4 in the runs, any positive
number in the proofs. `start` is a history variable for the proofs.
`MessageStream` is the abstract FIFO stream. The direction implements it for
messages of any length: `Sound` is what was received before the first message
that does not fit (`Clean`), and stands for `received` in the refinement; what
comes out after that message is noise the stream knows nothing of. Both ends of the connection write
and decode in this way, so one direction stands for both; `decode` consumes as
much as it can before the worker reads more, which is the guard of `Arrive`.

### Connector

`edt` is where the GUI thread is: `"idle"`, `"terminal"` (the try block of
`connect` is done), `"awaiting"` (in `run`), `"releasing"` (in `stop`).
`OpenCard` and `OpenCardFails` are the two ways through the try block, `BadPort`
the exception of the port, `StartClient`, `ConnectReturns`, `PressDisconnect` and
`StopReturns` the parts of `run` and `stop`. The worker of a connection reads
several commands at once (`Read`), hands them to the card one by one
(`Transmit`, then `CardAnswers` or `CardFails`), without looking at the
connection between them; an unchecked exception closes the connection
(`HandlerFails`). `PressDisconnect` closes the connection from the GUI thread,
at any moment of the worker; `StopReturns` waits for the worker, as
`releaseExternalResources` does. Cards are numbered by insertion, so that a card
channel opened before a card was removed never works again.

Pressing Connect with no card or no reader raises before anything is changed
and is not a step. After a failed attempt Disconnect shows all the same; the
model has that too, and `PressDisconnect` is harmless then.

`CardService` is what a connector promises: sessions one after the other, each
bound to one card when it starts, its commands answered each once and in order,
by that card or with nothing, until the session ends. `CardServiceImplemented`
states that the connector refines it. A session is a connection, `"fresh"`
before the attempt to connect and `"over"` once it is closed and nothing of it
can reach the card any more (`StateOf`): a closed connection whose worker is
still at the card is alive, so that the next session has to wait for `stop`.

### HttpFrontend

One HTTP connection. `requests` is what the client sent, `handled` how many of
them `HttpHandler.messageReceived` was given, and `worker` where the worker is in
the last of them: `"region"` between the two writes of a file, `"listen"` between
a write and its listeners, `"caught"` when an exception is on its way to
`exceptionCaught`. A request is its kind, by the branch of the handlers it takes;
which path or body leads there is data. Parts of answers go through `outbox`, in
the order of the writes, to `socket`. `Flush` may happen in the middle of a
handler, since a write on the worker's own thread reaches the socket at once if
it can, and `AddListeners` therefore finds its write done, failed or queued.
`CommandComplete` is the listener of `CommandApdu`, on another thread. Requests
longer than the 65536 bytes of the aggregator are left out: how often it raises
for one of them depends on the library. `LastKinds` are the requests whose answer
closes the connection: the errors, and a file asked for without keep-alive.

### WebClient

The page. Each action is one event handler: a click (`Connect`, also for
Refresh, `SendCommand`, `Choose`, `ResetAlert`) or a callback (`ListAnswered`,
`ReadAnswered`, `SendAnswered`). `calls` is every call to the server, asked,
served and done in any order. The server actions keep of `TerminalServer` what
an answer tells the page. A click without a selection raises before there is a
call, as does the follow-up read of a send whose selection has gone; then
`commandSendingActive` stays set. `command` is the text typed or put there by
the two default commands, of which only the kind matters (`Texts`): nothing was
ever entered, it is numbers, or `parseInt` gives `NaN` for a part of it, which
JSON sends as null. A send of the last kind is recorded and then fails, and the
page shows that as any other failure. Typing is free; the clicks that make calls
are bounded, `MaxReads` of Connect and Refresh and `MaxSends` of Send.

### WebTerminal

`TerminalServer` and `Connector` over the connections between them. Connection
`c` of the connector is channel `c` of the server. What one end writes the other
reads, as one step: `Deliver` is `Flush` of the server and, if the connector's
end is open, the arrival of the command (`C!ServerSends`); `ReplyArrives` is the
server's `messageReceived` for the next reply the connector wrote. Framing is
taken as shown by `Framing`, for messages that fit. `established` says that TCP
has set a connection up: only then does the server `Accept` it, perhaps when the
connector has closed already. Nothing else is shared. Each end closes by itself
(`ServerLoses`, `ConnectorLoses`, Disconnect, an exception), and learns of the
other's close in its own time (`ServerNotices` is the case of `ServerLoses` that
must happen), so a command can be written to a connector that has gone, and is
lost although the client was told `success`. Two history variables say how clients
behaved. `overlapped` are the readers for which a command was submitted while
another waited for its answer (`Waiting`); `hasty` those for which it was, or
while the transcript had still to get the reply to something written
(`Settled`). `TakingTurns(c)` says of the clients of a reader that it is not in
`overlapped` and that they send nothing that cannot be encoded. It says nothing
of races: those are `raced[c]`, which each property that needs it names.
`NumberOf` counts the entries of a sender up to a position. The properties speak
of `elementData`, the array a reader of the transcript gets to see; `log`, the
history of all stores, keeps an entry that a race has lost from the array.

## 3. Runs

Deadlock is not checked: requests, messages, commands and cards are bounded, and
when they are used up the system just waits.

| Run | Question | Bounds | Distinct states |
|---|---|---|---|
| `server_relay` | Do answers, transcript and socket agree, does an empty list mean that every connection has gone, and does the server implement the relay? `StatusTruthful`, `RelayedOnce`, `RecordedBeforeSent`, `FailureMeansGone`, `EmptyListMeansGone`, `RelayImplemented` | 2 connections, 2 requests (commands well formed or with a null byte, listings), 1 frame | 2.4 M |
| `server_transcript` | Is the transcript right without a race, and are reads? `TypeOK`, `TranscriptExact`, `ReadsArePrefixes`, `FailedReadsAreExplained` | 1 connection, 3 requests (commands well formed or null), 1 frame | 5.1 M |
| `server_liveness` | Is every request answered, every transcript removed? `EveryRequestAnswered`, `ClosedChannelForgotten` | 1 connection, 2 requests of every action and body shape | 286 k |
| `framing` | Up to the first message that does not fit, do messages come out as they went in and arrive, does the decoder never wait in vain, and is it a stream of messages? `TypeOK`, `FramesAreMessages`, `NothingStuck`, `StreamImplemented`, `MessagesArrive` | 3 messages of 0, 3, 4 or 10 bytes | 364 k |
| `connector_replies` | Do replies pair up with commands, by one card, on one connection at a time, and does the connector implement the card service? `TypeOK`, `OnlyOneAlive`, `RepliesInOrder`, `ServedByOneCard`, `CardServiceImplemented` | 2 readers, 2 insertions, 2 connections, 2 commands each | 1.0 M |
| `connector_liveness` | `GuiComesBack`, `CommandsAnswered` | 2 readers, 1 insertion, 2 connections, 2 commands each | 206 k |
| `http_frontend` | Is every request answered once, in an order a client can follow, every file released, and the connection closed when an answer says so? `TypeOK`, `AnsweredOnce`, `InStep`, `OnlyCommandsAreLate`, `NothingAfterTheLast`, `FilesAreReleased`, `FailuresEnd`, `LastAnswersClose` | 3 requests of every kind | 58 k |
| `web_client` | Do alert and transcript tell what happened to a command? `TypeOK`, `SentAlertsAreEarned`, `FollowUpShowsCommand`, `FlagAwaitsItsRead` | 2 readers, 2 clicks of Connect or Refresh, 2 of Send, any text | 3.3 M |
| `web_terminal` | From the client to the card and back: unless two adds overlapped, does each reply follow its command in the transcript, do they pair up if clients take turns, and is every command reported as sent answered, or its connection over? And who can keep adds from overlapping? `RepliesFollowCommands`, `PatienceAvoidsRaces`, `TranscriptPairsUp`, `SentIsAnswered` | 1 connection, 1 reader, 1 insertion, 2 commands well formed or with a null byte | 605 k |

Why these bounds: every hazard of the server is between two threads, and a third
request in `server_transcript` lets a reader meet two writers; with one slot to
start with, the list grows at once. `Lengths` has an empty message, ones that
fit, the first that does not (`Half`) and one that wraps (`10 % 8 = 2`), and the
bytes include values that read as lengths themselves, so a decoder out of step
finds frames in the middle of messages. Two connections in the connector are
what it takes to find the old card channel in a new connection. Three requests
are a command, a file its answer can break into, and one that overtakes both. On
the page two reads and two sends are the list or a refresh before, between and
after the sends, each send with its follow-up on top. In `web_terminal` two
commands are what it takes for one to overtake the other; the connection is one
because a second shares with it only what `server_relay` and `connector_replies`
have two connections for. What the bounds
leave out the proofs of section 4 cover, where there is one.

Three runs find what the code does wrong:

| Run | Property violated | What happens |
|---|---|---|
| `listing_names_all` | `EveryOpenChannelListed` | `PcscClients.process` puts every identifier under the key `"id"` of one object: of two readers only one can be chosen on the page. |
| `framing_negative` | `EnoughMeansFrame` | A reply of 128 to 255 bytes has a length that reads as negative; `readBytes` raises and the connection closes. |
| `connector_reader` | `ServedByChosenReader` | After a `CardException` in `connect` the connection is made all the same and served by the card channel of the reader connected before. |

Two things the runs of front end and page show are not counted as errors,
because the repository promises nothing against them. With pipelined requests
the answer to a command may come late or inside another answer
(`OnlyCommandsAreLate` says that nothing else may, `InStep` that a client that
waits never sees it). And "Command sent" may be shown by an earlier refresh, or
by a later Connect after the follow-up read has failed: `FlagAwaitsItsRead` and
`SentAlertsAreEarned` say what is left of the flag's meaning.

`TranscriptPairsUp` says that the k-th reply of a transcript stands after the
k-th command and is the reply to it. It has two conditions on the clients
(`TakingTurns`) and one that is none of theirs to keep (`~raced[c]`), and needs
all three. Two commands sent at once to one reader can be recorded in one order
and written in the other (nothing in `CommandApdu.process` orders them); a
command with a null byte is recorded and never sent; and of two adds that overlap
one may lose the entry of the other. Waiting for "command sent" before the next
command, as `TakingTurns` has it, does not exclude the last: the answer comes when
the write is done, so the worker may be adding the reply, in
`PcscServerHandler.messageReceived`, while the next command is being added.
`PatienceAvoidsRaces` says what does: a client that sends a command only when
none waits for its answer and the transcript holds the reply to every one written
never meets the worker in the list. The page does not ask for that, it lets the
user send at any time. It shows such a transcript as it is, and nothing in the
repository says that the entries pair up, so this is no finding.

`RepliesFollowCommands` and `SentIsAnswered` except a transcript with a race for the
same reason: the command, or the reply, may be what the array has lost.
`SentIsAnswered` rests on TCP reporting every close of the connector to the
server, which is the fairness of `ServerNotices`: a connection that dies in
silence leaves its command without reply and without end.

A message of 256 bytes or more is a further case of `framing_negative`: its length is
written modulo 256, and the receiver takes a part of it for the message and the
rest for further frames. `Fits` names what the framing can carry, less than
`Half` bytes, and every other property of the framing is stated with it. The
page offers READ BINARY with `Le = 0`, whose reply may have 258 bytes.

Fairness. The server's own threads keep running: weak fairness of the worker of
each channel, of the boss between the two statements of `channelOpen`, and of
each HTTP worker. Weak fairness is enough because no step of theirs is disabled
by another thread again and again. The framing assumes that TCP delivers and
that the worker decodes. The connector assumes that its worker runs, that a card
answers or fails, that a connection attempt ends (Netty gives up after ten
seconds) and that the GUI thread goes on when it can. `http_frontend` assumes
that the worker goes on with the request it is at, takes the next and runs the
exception handler of a failed write, and that the socket takes what is written;
it does not assume that a command is ever answered. `web_terminal` has the
threads of both ends, and of the network that a reply arrives while the
connection stands and that TCP tells the server when the connector has closed;
the connector need not be told of the server's close. Nobody has to
send a request, press a button or move a card.

## 4. Proofs

| Theorem | Module | States, for all values of the constants |
|---|---|---|
| `TypeCorrect` | `TerminalServer_proofs` | `Spec => []TypeOK` |
| `AnswersAreTruthful` | `TerminalServer_proofs` | `Spec => []StatusTruthful` |
| `CommandsAreRelayedOnce` | `TerminalServer_proofs` | `Spec => []RelayedOnce` |
| `CommandsAreRecordedFirst` | `TerminalServer_proofs` | `Spec => []RecordedBeforeSent` |
| `FramingTypeCorrect`, `FramesAreWhole`, `NothingIsStuck` | `Framing_proofs` | `Spec => []TypeOK`, `[]FramesAreMessages`, `[]NothingStuck` |
| `StreamIsImplemented` | `Framing_proofs` | `Spec => StreamImplemented` |
| `ConnectorTypeCorrect`, `OneConnectionAtATime`, `OneCardPerConnection` | `Connector_proofs` | `Spec => []TypeOK`, `[]OnlyOneAlive`, `[]ServedByOneCard` |
| `RepliesAreInOrder` | `Connector_proofs` | `Spec => []RepliesInOrder` |
| `ServiceIsImplemented` | `Connector_proofs` | `Spec => CardServiceImplemented` |
| `TranscriptsAreExact` | `TerminalServer_transcript_proofs` | `Spec => []TranscriptExact` |
| `ReadsShowPrefixes`, `ReadsFailForAReason` | `TerminalServer_transcript_proofs` | `Spec => []ReadsArePrefixes`, `FailedReadsAreExplained` |
| `CommandsFailForAReason`, `EmptyListsAreTrue` | `TerminalServer_transcript_proofs` | `Spec => []FailureMeansGone`, `[]EmptyListMeansGone` |
| `RelayIsImplemented` | `TerminalServer_transcript_proofs` | `Spec => RelayImplemented` |
| `FrontendTypes`, `OneAnswerEach` | `HttpFrontend_proofs` | `Spec => []TypeOK`, `[]AnsweredOnce` |
| `OrderIsKept`, `WaitingClientsAreInStep` | `HttpFrontend_proofs` | `Spec => []OnlyCommandsAreLate`, `[]InStep` |
| `LastMeansLast`, `NoFileIsForgotten` | `HttpFrontend_proofs` | `Spec => []NothingAfterTheLast`, `[]FilesAreReleased` |
| `PageTypes`, `AlertsAreEarned` | `WebClient_proofs` | `Spec => []TypeOK`, `[]SentAlertsAreEarned` |
| `FollowUpsShowTheirCommand`, `FlagMeansUnread` | `WebClient_proofs` | `Spec => []FollowUpShowsCommand`, `[]FlagAwaitsItsRead` |
| `ServerIsImplemented`, `ConnectorIsImplemented` | `WebTerminal_proofs` | `System => Spec`, `System => C!Spec` |
| `RepliesHaveTheirCommand` | `WebTerminal_pairing_proofs` | `System => []RepliesFollowCommands` |
| `TranscriptsPairUp` | `WebTerminal_pairing_proofs` | `System => []TranscriptPairsUp` |
| `PatientClientsDoNotRace` | `WebTerminal_pairing_proofs` | `System => []PatienceAvoidsRaces` |
| `SystemRepliesInOrder` | `WebTerminal_pairing_proofs` | `System => []C!RepliesInOrder` |

The assumptions are those of the modules: kinds of constants, and that a null is
none of the records it stands in for (`NullAssumption` of `TerminalServer`: a
slot of the array that was never stored to is no message; `ConnectorAssumption`
and the `NoneAssumption` of `WebTerminal`: no card channel, and no command at the
card, is none).

- *Server, types.* `TypeOK` is not inductive: `AddStore` of a channel's worker
  needs to know that only a worker of an open transcript is in an add.
  `TypeInv` adds that (`WorkerAdds`).
- *Server, relay.* `RelayInv` follows a
  command through its life: by the step its request is at, it is recorded or
  not, in the queue of its channel, on the wire, or in neither, and the answer
  goes with the place. Each conjunct is kept by the actions that touch the
  queue, the wire or the answer, and the others leave them alone.
- *Server, transcript.* `Stored` says what the array of a transcript holds: the
  entries of `log` in order and nothing after them; `Counted` who is in an add,
  and that its position and array are the next ones. Both hold until two adds
  overlap (`Exact`), which is the race of the unlocked `ArrayList`, and
  `TranscriptExact` follows from them. `Reading` says that a reader has
  collected the first entries of `log`; since `log` only grows, `ReadsArePrefixes`
  follows, and a `fault` of a reader needs a writer at work or an entry without
  content, which only a command that was null leaves. `PhaseInv` ties the
  group, the map and the worker to the life of the connection, and `Role` each
  request to the steps of its action; with them a command that got past the
  check fails only when the connection has begun to close or an add overflowed
  (`Excused`), and a listing still has to visit, has found, or has lost every
  connection that was open when it began (`Listing`). An auxiliary invariant,
  `NoCrossTalk`, types the entries of an array, races or not: commands addressed
  to that connection, frames it has received.
- *Server, the relay.* By `PhaseInv` a link is up exactly between the end of
  `channelOpen` and the close. Then each action maps to one step of
  `CommandRelay`: `WriteCommand` to `Accept` or, when it finds the channel
  closed, to a refusal, `Flush` to `Deliver`, `FailPending` to giving up what is
  queued, each other failed command to a refusal, `PutTranscript` to the link
  going up, a close (`CloseChannel`, or `AddThrows` of a channel's worker) to its
  going down, any other action to stuttering.
- *Framing.* `Layout` says that the stream is the messages one after the other,
  each after its length; `InStep` that the decoder stands at the beginning of
  message `Len(received) + 1` as long as every message up to that one fits.
  `FramesAreMessages` follows, and `DecodeFails` is impossible in step, since a
  length below `Half` is read back as it was written. The refinement maps
  `Decode` to `Take` while the stream is sound, `Send` to `Put`, and the other
  steps, with every frame after a message that does not fit, to stuttering.
- *Connector.* `OnlyOneAlive` needs `ControlOK` (which button goes with which
  step of the GUI thread) and `FreshOK` (clients not yet started have seen
  nothing). `ServedOK` says the card channel is the one the live connection was
  started with: `OpenCard` happens only when nothing is alive, which is where
  the wait in `stop` comes in. `RepliesInOrder` needs `Numbered`: on an open
  connection replies, the command at the card, those read and those in the
  socket are numbered without a gap.
- *Connector, card service.* From the invariant of `RepliesAreInOrder`, which
  includes those of the other two, and `BegunInv` (every client up to the current
  one has begun, so a session is fresh only once), each action maps to one step:
  `StartClient` to `Start`, `ServerSends` to `Ask`, a response on an open
  connection to `Answer`, the step that leaves a closed connection quiet to
  `Finish`, any other to stuttering. `Start` needs that no other session is
  alive, which is `OnlyOneAlive` at an idle GUI thread.

- *HTTP front end.* The proof looks at one line of answers, the socket followed
  by the outbox, since only its end grows and a move from the outbox to the
  socket leaves it as it is. The parts on it fit their requests (`PartsFit`),
  none is there twice and a file's region comes after its header
  (`PartsOnce`), a part overtaken by a later request's is a command's
  (`PartsInOrder`), and each request handled has its answer there or somebody who
  owes it (`Owed`). `CloseInv` and `FilesInv` say who closes after the last
  answer and who releases an open file: a listener already added, or the worker
  that is still at that request. `NothingAfterTheLast` needs both the line and
  `CloseInv`, `InStep` that a client that waits has had all earlier answers
  (`WaitInv`).
- *Page.* The invariant goes call by call: what a call may carry
  (`FieldsInv`), that a transcript read, or shown, stays a part of what is
  recorded (`ReadInv`, `ShownInv`), that a command answered as sent is recorded
  (`SendInv`), and that a read that follows a send follows one that succeeded
  (`AfterInv`). The last two give `FollowUpShowsCommand`: the follow-up is asked
  after the command was recorded. For `FlagAwaitsItsRead` the proof lists the four
  ways in which `commandSendingActive` moves.
- *Both ends.* Each step of `SystemNext` is one of the server or none, and one of
  the connector or none, which gives the two implementations and with them the
  server's invariants. `SystemInv` adds to these the count from end to end: what
  the connector read, has at the card or answered is not beyond what was sent
  (`Numbered`), what was sent is on the wire (`Delivered`), frames received are
  replies written (`Received`). So when a reply is stored, its command is on the
  wire, thus recorded (`RelayInv`), thus in `log` already (`Follows`); and it stays
  so because sockets, replies and `log` only grow. What this says of the
  transcript itself, `RepliesFollowCommands`, is proved in the module of the
  pairs, where the array is known to be `log` unless two adds overlapped
  (`ShowsLog`); with a race what is left is that a frame received is a reply to
  something on the wire (`RepliesWritten`). The
  connector's types are proved again for this, since a theorem of an instantiated
  module cannot be cited.
- *Both ends, in pairs.* `TranscriptPairsUp` is not inductive: that the k-th reply
  finds the k-th command before it depends on what is still on its way. `PairInv`
  adds three counts. `OrderInv` is the connector's: on an open connection the
  replies, the command at the card, those read and those in the socket are
  numbered without a gap, so the n-th reply is to the n-th command read.
  `RepliesTallied` is the connection's worker: the k-th reply of the transcript is
  the k-th frame, and the frame last counted is the one being added. And
  `CommandsTallied` the clients': the k-th command written is the k-th of the
  transcript, and as long as the connection stands the transcript holds one more
  exactly while a command is between its record and its write, since no two are on
  their way at once (`OneLive`). The last needs all of `Orderly`, which is
  `TakingTurns` and no race: `overlapped` for `OneLive`, the encodable body and
  `Role` for the command to be lost only when the connection is, and a transcript
  without a race for the worker not to lose a frame it has counted
  (`ThrowsMeansRaced`). What is orderly has always been so (`TurnsBefore`), which
  makes the invariant one about each connection.
- *Patient clients.* `Patient(c)` says that there was no race, that at most one
  command for `c` is under way, and that while one is, everything written before
  it has its reply stored and the worker is at rest. A command on its way stays
  the only one because `Ask` would make `c` hasty. A race needs the worker and an
  HTTP worker, or two of these, in an add at once (`RaceBegins`); the worker
  begins one only when a reply arrives, and of replies there are never more than
  commands written (`FewReplies`), so none is left to arrive before the command
  under way is on the wire, and then its own add is over.

Only model-checked:

- the liveness properties `EveryRequestAnswered`, `ClosedChannelForgotten`,
  `MessagesArrive`, `GuiComesBack`, `CommandsAnswered`, `FailuresEnd`,
  `LastAnswersClose` and `SentIsAnswered`: fairness and `ENABLED` are outside the
  proof system.

Every other property of a run that passes is stated by a theorem. The models
themselves declare no `RECURSIVE` operator.

## 5. Plan

1. Done: `TerminalServer` with `CommandRelay`, `Framing` with `MessageStream`,
   `Connector`, `HttpFrontend`, `WebClient`, and the proofs above.
2. Done: `WebTerminal`, for the pairing of replies and commands in the
   transcript; `CardService`, checked and proved; `Framing` as a stream for
   messages of any length; the closing answers of `HttpFrontend`; the command
   text of `WebClient`.
3. Done: the proofs of the transcript, the relay, the HTTP front end, the page
   and both ends together.
4. Done: the pairing of commands and replies from end to end, counted by
   position so that it can be proved, and the order of the replies restated for
   `System`.
5. Left: `OnlyOneAlive`, `ServedByOneCard` and `CardServiceImplemented` for
   `System` by a theorem of their own. They follow from `ConnectorIsImplemented`
   and the theorems of `Connector_proofs`, a step that cannot be written down
   because theorems of an instantiated module cannot be cited.

## 6. Not modelled

- `HttpPipelineFactory`, `PcscServerPipelineFactory`, `PcscClientPipelineFactory`,
  `SmartCardConnector`, `TestSwingClient` and `main`: wiring and start-up, no state
  after it. The order of the handlers is in the modules of the handlers.
- Requests the HTTP aggregator refuses, content types, dates and paths of files,
  the text of logs and alerts, the layout of the panel.
- Java memory visibility: `cardChannel` and the fields of `PcscClient` are not
  volatile; the models let every thread see the latest value.
- jQuery, Knockout, `deployJava.js`, Bootstrap: third-party code. The Maven files
  have no behaviour.
