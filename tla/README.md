# TLA+ specification of the WhatsApp API daemon

`whatsmeow-api` keeps one WhatsApp account in a local database and serves it
over REST, server-sent events and MCP.  This directory holds a formal model of
its stateful parts, TLC configurations that check it on small instances, and
proofs, checked by TLAPS, that hold for every instance.

Paths below are relative to the repository root; `service.go` alone means
`internal/service/service.go`, and so on.

## 1. Inventory

| Component | Source | State it keeps | Operations | Talks to |
|---|---|---|---|---|
| Event stream | `service/events.go`, `sse/broadcaster.go`, `http/events.go`, `*/events_log.go` | table `events_log`, the subscriber map and one bounded channel per subscriber; the client's Last-Event-ID | Emit (Append, Publish), Subscribe, Unsubscribe, replay in batches, live tail | called by the service's event handlers; read by event-stream clients |
| Message service | `service/service.go` | none of its own: rows of `chats`, `messages`, `reactions`, `receipts`, `media` | handleIncoming, handleReceipt, SendText, SendMedia, EditMessage, DeleteMessage, SendReaction, MarkMessageRead, CreateGroup, ... | adapter (calls and callbacks), stores, Emitter, media store |
| SQLite and Postgres stores | `store/sqlite`, `store/postgres` | the tables, foreign keys on | one SQL statement per operation, no transactions across operations | the service |
| Media store | `mediastore/mediastore.go`, `http/media.go` | files named by their hash, one temporary file beside each | Write (stat, open, write, rename, remove) | the service's downloads and SendMedia; the media endpoint |
| Adapter: login | `waclient/whatsmeow_adapter.go` 170-490 | `loginInProgress`, `pairCh`, one goroutine and channel per login | LoginQR, LoginPhone, signalPair, Logout | QR and phone endpoints, the MCP login tools, the CLI through `client/client.go` |
| Adapter: events and calls | same file | the registered callbacks | onEvent, translateIncoming, translateProtocol, SendText, ... | whatsmeow; the service |
| REST, MCP, CLI | `transport/http`, `transport/mcp`, `client`, `cmd` | none, but for the HTTP server's open connections | check the token, decode, one service call, name its error | the service |
| Daemon | `cmd/whatsmeow-api/serve.go`, `http/server.go` | process lifetime | start order, shutdown order | everything |
| Configuration, logging, test helpers, empty `media` package | | none | pure | |

**Threads.**  whatsmeow calls message and receipt handlers one at a time on one
goroutine (the *dispatcher*); connection events come on goroutines of their
own, so two `Emit`s can overlap.  Every HTTP or MCP request has its own
goroutine.  Nothing in the service takes a lock or opens a transaction.

**What is hard about it**

- The seam between replay and live tail, on a channel that may overflow and be
  closed at any point, for a client that reconnects from the last id it saw.
- `Append` then `Publish` without a lock; Postgres numbers that become visible
  out of order; a crash between the two.
- Read-modify-write of whole chat and message rows by concurrent goroutines,
  some with a network call between the read and the write.
- Foreign keys that refuse a row when statements come in the wrong order, and
  failures that are only logged.
- Redelivery by whatsmeow, retries by clients, answers that are lost, a connection
  that goes while a request is under way.
- The login goroutines: bounded channels, consumers that leave, timers.
- Shared temporary files in the media store.

**What makes each part correct**

- Event stream: every logged event reaches a client that keeps reconnecting;
  ids strictly increase on a connection; nothing is skipped between replay and
  tail; only what is durable is delivered; no send on a closed channel.
- Message service: nothing is announced that is not stored; the rows of peers'
  messages agree with WhatsApp; ours do when requests do not overlap;
  `unread_count` stays between zero and what was delivered.
- Media store: a file of a given hash has that content, at any moment.
- Login: one at a time; an outcome reaches the login it belongs to, and success
  is told only when the account was linked; every login ends, whoever stops
  reading it, and a new one can then start.
- Paging: the pages together list every row once, whatever arrives meanwhile.
- Requests: a refusal means that nothing has happened, a success that WhatsApp
  has accepted; every error the service has a name for reaches the client under it.
- Shutdown: ends within its deadline and never closes a store in use.

`PROJECT.json` lists the hazards one by one with their source lines.

## 2. The modules

| Module | What it is |
|---|---|
| `EventStream` | emitter, events_log, broadcaster, handler and client |
| `EventFeed` | abstract: a growing log that each client reads in order |
| `EventStreamProofs` | theorems about `EventStream` |
| `Inbox` | the service's operations over the message tables |
| `Mailbox` | abstract: messages of peers appear, change, are removed |
| `InboxProofs` | theorems about `Inbox`: types, announcements, unread counts |
| `MirrorProofs` | theorems about the rows of messages in `Inbox`, on top of `InboxProofs` |
| `Session` | logins and logout: adapter, handlers, tools, CLI, whatsmeow |
| `Pairing` | abstract: one login at a time, some codes, then at most one outcome |
| `Daemon` | `serve` around `Session`: start, traffic, shutdown, crash |
| `DaemonProofs` | theorems about `Session` and `Daemon` |
| `Media` | `mediastore.Write`, its two callers, the rows, `GET /v1/media` |
| `MediaProofs` | theorems about `Media` |
| `Paging` | the two lists a client pages through, and what changes them |
| `Routes` | tables: what each REST handler, tool, method and adapter call decides |
| `Requests` | a client's requests through those tables, on top of `Paging` |
| `PagingProofs`, `RequestsProofs` | lemmas about the steps of `Paging`; theorems about `Requests`, which has them all |
| `MCEventStream`, `MCInbox`, `MCDaemon`, `MCMedia`, `MCRequests` | instances for TLC |

`Daemon` extends `Session` and `Requests` extends `Paging` and `Routes`: a step
of the one leaves the other's variables alone or is one of its actions.  The
other components meet in single calls and share no further state, so they are
checked apart.  `Inbox!Emit` puts an event into `announced`, and from there
`EventStream` begins with `AppendSqlite` or `InsertPostgres`.  `Inbox!MessagePut`
ends where `Media!Incoming` starts its goroutine.  `Requests` sees of the
operations that `Inbox` takes apart only their effects and their answer.

### EventStream

| Model | Code |
|---|---|
| `log`, `nextSeq` | rows of `events_log` a query can see; the sequence behind the primary key |
| `AppendSqlite`; `InsertPostgres`, `CommitPostgres`, `AppendFails` | `EventsLog.Append` in the two back ends; a Postgres row becomes visible at commit, later than its number is drawn, and an error may hide a commit |
| `Publish` | `Broadcaster.Publish`: send to each subscriber that has room, close and forget the others |
| `subs`, `buf`, `closed` | `Broadcaster.subs` and the channels |
| `Connect`, `Subscribe`, `Hello`, `ReplayQuery`, `WriteRow`, `LiveEvent`, `Lagged`, `ReplayFails`, `HandlerExit` | the handler of `GET /v1/events`, in the order of its statements |
| `Leave`, `Restart` | the client's connection breaks; the daemon dies |
| `lastId`, `seen` | the client's side: it follows the event-stream rule that an `id:` line replaces the last event id |

An event is its number: kind and payload influence no decision.  Heartbeats
carry no id and are left out.  `Publish` is one action because it holds the
broadcaster's mutex throughout.

### Inbox

| Model | Code |
|---|---|
| `chatRows`, `unread`; `msgRows`, `body`, `deleted`; `reactions`; `receipts` | the tables, reduced to the columns that decisions or properties look at |
| `announced` | the events passed to `Emitter.Emit` |
| `op`, `step`, `arg`, `val`, `dead` | the goroutine's place in its function and its local variables: the row it read is `val` and `dead` |
| `TakeMessage`, `TakeEdit`, `TakeRevoke`, `HandleReaction`, `HandleReceipt` | `onEvent` and `translateIncoming` hand an event to `handleIncoming` or `handleReceipt` |
| `MessageGetChat`, `MessagePutChat`, `MessagePut`, `EditPut`, `RevokePut`, `Emit` | `handleIncoming`, statement by statement |
| `Send*`, `Edit*`, `Delete*`, `React*`, `MarkRead`, `Read*`, `CreateGroup`, `GroupPutChat` | the API operations, statement by statement |
| `opened`, `delivered`, `deliveries`, `sent`, `wire`, `recalled`, `wireReaction` | WhatsApp: what exists there, and what it handed over |
| `online`, `Connect`, `Disconnect`; `ourJID` | `Adapter.Status`, which has the account's JID only while connected and logged in; the JID that `SendReaction` reads from it after its call |
| `cutOff` | history: the messages whose latest reaction was under way when the connection went |
| `Works`, `Fails` | a store call succeeds; or it fails, changes nothing, and its caller logs or returns |
| `AnswerLost` | WhatsApp takes what it is sent, the call returns an error all the same, and the operation ends before it stores anything; bounded together with the failures |

A message's text is the number of its edits, so "the stored text is the latest"
is an equation between numbers.  `HandleReaction` and `HandleReceipt` are single
actions: nobody else writes the rows they write.  A call to WhatsApp and the
row it needs are the first and second step of an operation; what comes
before the first effect (validation, lookups that fail) leaves no trace and is
part of the first step's guard.

### Session and Daemon

| Model | Code |
|---|---|
| `loginInProgress`, `pairCh`, `muHeld` | fields of `Adapter`; the mutex, as far as someone keeps it through a network call (`Logout`) |
| `pc`, `item`, `pair`, `sent`, `taken` | each login's call and then goroutine: where it is, the event it has in hand, `pairCh`'s content, and its output channel as what was sent and how much of it was received |
| `Login`, `OpenQR`, `Dial`, `PairPhone`, `GiveUp` | `LoginQR`, `LoginPhone` up to `go func()`, with every early return |
| `QRTake`, `QREnd`, `SendCode`, `SendTerm`, `PhoneWait`, `Clear`, `Close` | the two goroutines, including the sends without a way out and the deferred functions in their order |
| `Forward`, `StreamEnds`; `ToolReturns`; `CliRead`, `CliStreamClosed` | the REST handlers, which read to the end; the tools, which take one event and leave; the CLI behind `client.LoginQR` and `LoginPhone` |
| `SignalPair`, `PairSuccess`, `PairError`, `LogIn`, `Drop`, `Unlinked` | `signalPair` and `onEvent` |
| `ShowCode`, `CodesRunOut`, `QRCancelled`, `Reconnect` | whatsmeow (external), as the adapter relies on it |
| `OpenSession`, `OpenAppStore`, `Resume`, `Listen`, `Terminate`, `Drained`, `TimedOut`, `CloseApp`, `CloseWA` | `serveCmd` and `Server.Run`, from configuration to the deferred functions |
| `Deliver`, `TakeRequest`, `StreamLeft`, `Exit` | traffic while it runs; the end of the process, at the end of main or anywhere |

A code is `"code"` whatever it says.  `paired` is a history variable: the logins
that held the flag when the account was linked.

### Media

A *content* is bytes with their MIME type: together they decide the path.  Names
lead to inodes, so that a rename, and a goroutine that goes on writing to what
it has opened, do what they do in a file system.  `Stat`, `Open`, `Write`,
`Rename`, `Remove` are the system calls of `mediastore.Write`; `Incoming`,
`Download`, `PutMedia` and `SendMedia`, `SendPutMessage`, `SendPutChat` are its
callers; `Get`, `GetOpen`, `GetCopy` the handler of `GET /v1/media/{id}`.
`shared` remembers which contents ever had two writers at once.

### Routes, Paging, Requests

`Routes` has one definition per REST handler, MCP tool, service method and
adapter call, and keeps of each what decides an answer: what it parses, which
errors it names, what it needs from the store, which exchanges it has with
WhatsApp.  `Requests` runs one request at a time through them (`Unauthorized`,
`InvalidRequest`, `Accepted`, `FindMessage`, `NotConnected`, `WhatsAppRefuses`,
`CallFails`, `Write`, ...) and records the answer, the effects and, in `error`, the
error that ended the request where it was found, before any handler has named
it.  A request carries at most one thing that is wrong with it, and the model
finds it where the code does: what WhatsApp alone can know, that there is no
such group or that we are not in it, is found by WhatsApp.  The two rows a send
writes may fail one without the other (`WriteSent`).

`Paging` has the columns the two list queries look at (`ts`, `deleted`, `lastAt`)
and a walk: the pages a client asks for one after the other, with the last
row's time as the next cursor.  Times are whole seconds, because that is what
both databases' answers are formatted to.  Rows of one second come in any order
within `ListByChat`, which orders by time alone.

## 3. What is checked

Each run takes TLC between some seconds and two and a half minutes with two
workers.  Deadlock checking is off where a bound (messages sent, edits,
failures) is a point where nothing more need happen, and on in `requests`.

| Run | Configuration | Shows |
|---|---|---|
| `stream_single` | 1 emitter, SQLite, 2 clients, buffer 1, batch 2, 3 events, a lost connection and a crash, fairness | `TypeOK`, `NoGap`, `ResumeLosesNothing`, `NoLeakedSubscription`, `OpenWhileSubscribed`; `CursorMovesBackOnlyToStart`; the stream implements `EventFeed`; `EveryEventArrives` |
| `stream_postgres` | 2 emitters, buffer 2, 3 events, late commits, failing appends, a crash | `Durable`, `InOrder` |
| `inbox_faults` | 2 messages of peers (one in a group being created), 1 of ours, 2 concurrent requests, one redelivery, one failing statement or lost answer, one crash | `TypeOK`, `AnnouncedIsStored`, `UnreadNeverOvercounts`; where nothing went wrong, `PeersMirrored` |
| `inbox_mailbox` | 1 message of a peer, 1 of ours, edits, revokes, deletes, reactions, one request at a time, a failing statement or lost answer, a lost connection or crash | `OursMirrored`; peers' messages implement `Mailbox` |
| `daemon_pairing` | 2 logins of either kind over REST or MCP, 1 code, channel of 2, 1 logout, a crash | `TypeOK`, `OneLogin`, `PairingReachesItsLogin`, `CliTellsTheTruth`; logins implement `Pairing` |
| `daemon_life` | 1 login with 3 codes on a channel of 2, 1 event stream, 1 message, a lost connection, a logout, a crash, fairness | `LostOnlyInWindow`, `GracefulLeavesNoHandler`, `LoginsEnd`, `ShutdownEnds` |
| `media_files` | a download, its redelivery and a send of the same bytes, 2 failures, a crash, a reader | `TypeOK`, `WholeUnlessShared`, `RowsHaveFiles`, `SharingHeals`, `MediaIsListed`, `ReadersSeeWhole` |
| `requests` | 21 operations over REST and MCP, 6 things that may be wrong with a request, the connection on and off, 3 messages in 2 chats, 2 seconds, pages of 1 row | `TypeOK`, `AnswerTellsTheTruth`, `FailuresAreNamed`, `OnlyAllowedEffects`, `WalkShowsWhatStayed`, `ShownAgainOnlyIfMoved`, `WalksEnd` |

Each property is also checked against a mutant: an operator marked `Fault:`, or
named for what it leaves out, that changes the code the way a plausible bug would.

**Bounds.**  A replay batch of 2 with 3 events gives empty, partial, full and
repeated batches; a buffer of 1 overflows as soon as a handler is one event
behind, and 0 and 1 behave alike (`Cap`).  Two emitters are enough to reverse
two publishes, two clients to tell a subscriber from another.  In `Inbox`
every conflict is between two goroutines over one row, so the dispatcher, two
workers and one chat suffice; the second chat, a group, is there because it is
the one whose row is created by a request.  One lost connection comes between
any two steps of a request, and a reaction made after it shows whether the row
under nobody's name is ever put right.  One failure reaches every error
path; one crash every place to crash.  In `Session` two logins are enough,
since a third could only meet them one at a time; the QR channel holds 4 codes
in the code and 2 here, and what matters is that it can be full (3 codes).  A
start finds the account linked or not, as a restart would.  In `Media` three
writers of one content are one more than a conflict needs.  In `Requests`
one row per page makes every boundary between rows a page boundary, and two
seconds for three messages put two of them on either side of it or on the same;
one request at a time, because overlaps are `Inbox`'s question.

**Fairness.**  *Stream*: weak fairness of `CommitPostgres` and `Publish`: `Emit`
runs through without waiting for anything but the mutex.  Of `Serve`: the
handler's goroutine runs whenever a channel or the database has something for
it.  Of `Connect`: a client that lost its stream reconnects, which is what a
consumer of the stream is for; a client that does not is promised nothing.
*Daemon*: goroutines, handlers and the CLI run when they can; whatsmeow closes
a QR channel sooner or later (its codes expire); the call behind `Logout` ends;
the statements after SIGTERM are executed, the ten seconds being over at some
time.  Nothing is assumed of a client, a phone or the network: `LoginsEnd` holds
with a client that never reads again.  *Requests*: a client that has begun to
walk through a list asks for the next page.  Disturbances are bounded but never
forced.

### Where documents and code part

Each of these runs checks one sentence of a document, comment or test and finds
it violated.

| Run | The sentence | What the code does |
|---|---|---|
| `stream_skip` | 09-events-sse-design:224, the live tail skips only what "was already in the replay batch" | two goroutines that emit at once publish in reverse; the lower event is dropped, and dropped again on resume |
| `inbox_echo` | service.go:179, "whatsmeow echo will heal" | echoes of our own messages are dropped, so the first message to a new chat, refused by the foreign key, is never stored |
| `inbox_resurrect` | 07a-design:213, a deleted message cannot be edited | an edit in progress writes back the row it read before the delete |
| `media_atomic` | mediastore.go:26, `Write` "atomically writes the file" | two writers of the same bytes share one temporary file: the one renames what the other has just emptied, and it is there under its final name until the other has written it |

More divergences follow from the definitions without a run of their own:

- The synthetic frame's `id: 0` line takes a client's resume cursor to the start
  (`Hello`; 09-events-sse-design:104 says that it never moves it).
- A client without a cursor is replayed the whole log (`Resolve`;
  09-events-sse-design section 8 says "replay returns nothing").
- A send writes back a chat row that may be old, and with it an old
  `unread_count` (`SendPutChat`; 04-send-receive-design:145 says that a send does
  not change it).
- A redelivered message counts as unread again (`MessagePutChat`;
  04-send-receive-design:152 says redeliveries "dedup naturally"), and marking one
  message read twice takes two off the count (`ReadPutChat`;
  tools_messages_write.go:142 declares the tool idempotent).
- A login whose QR channel whatsmeow closes without an item, as it does when the
  request is cancelled, ends without a terminal event (`QREnd`;
  02-waclient-design:107 and :145 promise one, last).
- `Write` does not call fsync (06-media-design:171 says that it does).
- A limit that an MCP client leaves out reaches the service as 0 and is refused
  (`omitted`; tools_messages.go:70 says "0 means service default"), and so is a
  missing MIME type (tools_messages_write.go:32 says that it is sniffed);
  wa_update_group_members offers promote and demote (tools_groups.go:46), which
  the service refuses.
- A reaction whose connection goes between WhatsApp's answer and the look at
  `Status` is stored, or cleared, under an empty sender (`ReactPersist`, `ourJID`;
  07b-reactions-design:40 takes the JID for granted, and its test list at :348 says
  "ReactionStore.Put called with our JID", while :258 has the empty default).  The
  row stays, beside the one that a later reaction writes under our JID.
- A blank JID in `GET /v1/chats/{jid}` is answered with a 500, and a tool without a
  connection with "internal error", although the service has a name for both
  errors; a malformed JID, a malformed search and what WhatsApp refuses (an unknown
  group, a group we are not in, a name it rejects) have no name and are a 500 as
  well, which 08-groups-design:241 and :319 accept for WhatsApp's refusals.  These are
  the exceptions in `FailuresAreNamed`.

## 4. What is proved

Constants are arbitrary but for the assumptions `StreamAssumption` (sizes and
bounds are natural numbers, a batch is not empty, the back end is one of two)
and `InboxAssumption` (messages of peers and ours are disjoint, so are old
chats and new groups, every message has a chat, the dispatcher is not a
worker), `SessionAssumption` and `DaemonAssumption` (sizes and bounds are
natural numbers, a channel has room for something, nobody is not a login) and
`MediaAssumption` (downloads and sends are different tasks, and no
other task is about the message of a send: WhatsApp gives what is sent an id of
its own, and the adapter drops the echo).

**EventStream.**  `TypeCorrect`, `DurableAlways`, `InOrderAlways`, `OpenAlways`
and `NoLeakAlways` hold for any number of emitters and clients, either back
end, any buffer and batch.  Their invariant is `SafeInv`: the four properties
are not inductive alone, they need to know that rows held by a handler are in
the log and lie beyond its cursor (`InFlightLogged`, `CursorSplits`).

`NoGapOneEmitter`, `ResumeLosesNothingOneEmitter` and `StreamImplementsFeed`
assume `Alone`: SQLite and a single emitter.  That is necessary:
`stream_skip` is the counterexample with two, and on Postgres an `Append` whose row
commits although it returns an error (`AppendFails`) leaves a gap with a single one,
because its event is never published.  The inductive invariant
`CompleteInv` follows an event on its way: the log is dense (`LogDense`), a
channel holds consecutive numbers up to the last one published
(`ChannelDense`), fetched rows have no hole (`RowsDense`), and when no further
query follows the channel continues where the rows end (`SeamClosed`); this
last one is the reason why the handler subscribes before it queries.  The
refinement adds `IdFollows`: the client's id is the handler's cursor, or 0
after the synthetic frame.

`CursorMovesBackOnly` needs neither assumption.  With `IdFollows` a row that is
delivered lies beyond the client's id (`DeliverAdvances`), and the synthetic frame
is the first of its connection (`HelloFirst`).

**Inbox.**  `InboxTypeCorrect` needs `InHand`: what a goroutine holds suits the
operation it is in; in particular a `MarkMessageRead` about to write holds a
count above zero, which is why `unread_count` stays natural although the copy
may be old.  `InboxAnnouncesStored` needs `EmitStored`: a handler at its emit
has stored the message, and rows of messages are never removed.
`InboxNeverOvercounts` needs `CountInv`: not only every row but every copy that
some goroutine is about to write back stays below what has been settled, where
a delivery is `settled` once `handleIncoming` has counted it or given up.  Old
copies are harmless because deliveries only grow.

`MirrorProofs` is about the rows of messages.  `RightOps` says who writes which:
a request writes rows of ours alone, because `MayChange` checks whose message it
is and the check cannot grow old.  Hence a step that is not the dispatcher's
leaves the rows of peers alone (`OthersLeavePeers`), and three results follow.
- `InboxMirrorsPeers`, for any number of requests at once: `PeersInv` says that
  every message but the one the dispatcher has in hand is mirrored, and how far
  that one has come.  The chat's row is in place before the message's
  (`MessageInHand`), so that the foreign key never refuses it.
- `InboxImplementsMailbox`, whatever fails, assumes `MaxRedeliveries = 0`.  That is
  necessary: `handleIncoming` stores a redelivered message as the event has it,
  without its edits and undeleted.  `BoxInv` says that a message in hand was never
  stored and that an edit in hand is later than the row; the mapping takes
  `MessagePut` to `Post`, `EditPut` to `Change`, `RevokePut` of a stored message to
  `Remove`, and every other step to a stutter.
- `InboxMirrorsOurs` assumes `OneRequest` (`inbox_resurrect` is the counterexample
  with two) and `NoAdminRevokes` (a revoke from the group overlaps an edit in the
  same way).  `OursInv` says that what WhatsApp took is stored, or in the hands of
  the one request at work (`TextsAgree`, `ReactionsAgree`, `WritesAgree`).  The
  connection may be lost as often as it likes: `ReactionAgrees` says of each
  message that the row under our JID is our reaction, or that the message is in
  `cutOff` and the row under nobody's is; and a reaction in hand while we are not
  online has its message in `cutOff`, since it began online.

**Media.**  All six properties of the runs that pass are theorems, for any
number of downloads, sends, messages, contents, failures and crashes.  None is
inductive alone; their common invariant is `SafeInv`, whose parts are:
- `NamesSettled`: a temporary name, a final name, a descriptor and a reader lead
  only to inodes that were created for their own content, so that what happens
  to one content never reaches the file of another.
- `OneWriter` and `WriterOwnsTmp`: the single writer of an unshared content has
  open what the temporary name leads to, and has filled it before the rename.
- `FinalSettled` and `ReaderSettled`: what has the final name, or was opened by
  `GET`, is whole and no longer has the temporary name.  `Open` empties and
  `Write` fills only what has or gets that name, hence `MediaWhole` and
  `MediaReadersSeeWhole`.
- `RowsFollowFiles`: a path, a place before `MediaStore.Put` and a row each imply
  a file under the final name, which no step takes away: `MediaRowsHaveFiles`,
  and the reason why `GET` never answers 500.
- `BeingWritten`: where nothing failed, an inode that has a name is whole or some
  task is about to write it; with nobody at work it is whole, which is
  `MediaSharingHeals`.
- `RowsFollowTasks`: where nothing failed, the place a task is at tells which rows
  there are, which gives `MediaListed`.

Every step is first shown to be one of six effects on the files (`FileStep`:
open, write, write a part, rename, remove, nothing), so that each part is proved
against six cases and not against every action.

**Session and Daemon.**  Every safety property of the two daemon runs is a theorem
of `Daemon`, for any number of logins, clients, codes, drops, logouts and
restarts.  `LoginEffects` first shows that a step does one of a few things to the
flag, the pairing channel and the places (begin, be refused, go on, give up,
signal, die, nothing), and `EventEffects`, `SentStep`, `ItemStep`, `QrChStep` and
`PairedStep` say the same of what is on its way to a client.  On them rest:
- `LoginInv`: `OneLogin` and who may be where.  `DaemonPairingReachesItsLogin` needs
  `KindsFit` (a QR login never reaches the places of a phone login) and
  `ChannelKept`: a phone login has the channel from its checks on, not only
  while it waits, and only the one login with the flag can give a channel up.
- `TruthInv`: `SuccessIsPaired` says of every place on the way of a success (QR
  channel, item in hand, pairing channel, output channel, CLI) that the account
  was linked during that login.  A QR channel left open by a failed dial may
  still be told of the success of another login, which is why the QR channel
  counts only while its login holds the flag, and why a login that has not begun
  must have none (`NothingYet`).  `OnlyCodes` says that nothing follows an outcome.
- `ServeInv`: the app store is open exactly between two phases, and before that
  nothing is connected and no login runs (`QuietBefore`), since a message that
  arrives before the store is open would be lost outside the window.
- `DaemonImplementsPairing`: under `HolderFits`, which needs `OneLogin` for the
  choice of the holder to be unique, each effect is one step of `Pairing` or none:
  begin is `Take`, be refused `Refuse`, give up `Free`, die `Die`, a code `Show`, the
  last event `Finish`, the link `Link`.

**Requests and Paging.**  Every safety property of the run is a theorem, for any
number of messages and chats, any clock and page size, with or without a token.
- Walks.  A list is finite at any time though the ids are not (`Finite`), so a page
  that is not full has all that is left (`PageFacts`), and a full one is cut at the
  smallest of its times (`Smallest`, `CutFacts`).  `Reached` says that a row that did
  not change was shown, shares its second with a cut, or is still below the cursor;
  at the end, where the cursor is 0, that is `WalksShowWhatStayed`.  `Behind` says
  that what was shown is not below the cursor, for a message whatever happens,
  because it is handed over again with the time it had (`SameTime`), and for a chat
  until it moves: `WalksRepeatOnlyMoved`.  `WalksGoBack` bounds the pages of a walk.
- Requests.  `OnItsWay` says what a request has passed and done at each place.  The
  tables enter through the lemma `Tables`: what is written down was sent, a
  read-only tool sends nothing that changes anything, and every handler names
  the named errors its method and its call can return, but for the blank JID;
  and through `NamedFacts`, which says it of `mapErr`, but for the missing
  connection.  What is excused is single errors, and never all of an operation.  A
  table changed so that one of these no longer holds makes a step of these lemmas
  fail, one step for each layer.

**Model-checked only.**  `EveryEventArrives`, `LoginsEnd`, `ShutdownEnds` and
`WalksEnd`: liveness under fairness is beyond the prover.  Every invariant and
every action property of the runs that pass, and all three refinements, are
theorems, some under the assumptions named above.

## 5. What is not modelled

- Contents of messages, media, names, formatting, logging, configuration
  values: no property depends on them.
- `GET /v1/health`, `GET /v1/status`, `wa_status`: a constant, and one look at the
  connection.
- Contacts and the key-value table: single statements without a rule that relates
  them to anything else.  Full-text search: some rows, or an error.
- `Chats.SetArchived` and `KV` have no caller.
- The order of `connection.state` events, which come on goroutines of their own:
  nothing reads back the state they carry.
- What the account does on its other devices: `translateIncoming` drops every
  event that is from us (whatsmeow_adapter.go:190), edits and revokes included, so
  that the stored row knows nothing of them; `OursMirrored` is about what goes
  through the API.  Linking the account again, which changes the device number in
  its JID, and with it whose row a reaction is.
- One item of whatsmeow's QR channel: that a phone without multi-device support
  scanned the code.  It comes without closing the channel; the adapter ends the
  login on it as on an error, which `PairError` has.
- Two requests at once in `Requests`, and contents that share a path but not a
  size in `Media`: the first is `Inbox`'s question, the second a hash collision.

## 6. Plan

Of what the runs show, only liveness is not proved.  What is left:

1. Safety facts that carry the liveness arguments, as `WalksGoBack` does for
   `WalksEnd`: what each login and each open stream waits for in `Daemon`, and
   who provides it.
2. The assumptions of `NoGapOneEmitter`, `InboxMirrorsOurs` and
   `InboxImplementsMailbox`: each is shown to be needed by a counterexample, and
   how much of it is needed could be stated closer.

## 7. Running

    tlc -config StreamSingle.cfg MCEventStream.tla
    tlc -config InboxFaults.cfg MCInbox.tla
    tlc -config DaemonPairing.cfg MCDaemon.tla
    tlc -config MediaFiles.cfg MCMedia.tla
    tlc -config Requests.cfg MCRequests.tla
    tlapm EventStreamProofs.tla
    tlapm InboxProofs.tla
    tlapm MirrorProofs.tla
    tlapm DaemonProofs.tla
    tlapm MediaProofs.tla
    tlapm RequestsProofs.tla
    tlapm PagingProofs.tla
