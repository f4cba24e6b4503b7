---------------------------- MODULE EventStream ----------------------------
(***************************************************************************)
(* The live event stream of the daemon: the service's Emitter appends a    *)
(* row to events_log and then publishes it; the sse.Broadcaster fans it    *)
(* out to one bounded channel per subscriber; the GET /v1/events handler   *)
(* subscribes, replays events_log from the resume cursor and then tails    *)
(* its channel; the client remembers the last id it saw and reconnects.    *)
(*                                                                         *)
(* An event is its sequence number: kind and payload never influence a     *)
(* decision of this code.  Heartbeats and comments carry no id and are     *)
(* left out.  One goroutine of the handler serves one client at a time.    *)
(***************************************************************************)
EXTENDS Integers, Sequences, FiniteSets

CONSTANTS
  Emitters,      \* goroutines that may be inside Emitter.Emit
  Clients,       \* consumers of GET /v1/events
  Backend,       \* "sqlite" or "postgres": how Append becomes visible
  BufSize,       \* [http] sse_subscriber_buffer, the argument of sse.New
  ReplayBatch,   \* LIMIT of one replay query (256 in the code)
  MaxSeq,        \* bound: events appended in a run
  MaxDrops,      \* bound: connections lost and replay queries that fail
  MaxRestarts    \* bound: crashes of the daemon

ASSUME StreamAssumption ==
  /\ Backend \in {"sqlite", "postgres"}
  /\ BufSize \in Nat
  /\ ReplayBatch \in Nat \ {0}
  /\ MaxSeq \in Nat /\ MaxDrops \in Nat /\ MaxRestarts \in Nat

VARIABLES
  log,           \* events_log: the sequence numbers visible to a query
  nextSeq,       \* the last sequence number the database handed out
  step,          \* per emitter: where it is inside Emit
  pending,       \* per emitter: the number its Append returned
  subs,          \* Broadcaster.subs: who is in the map
  buf,           \* per client: what waits in its handler's channel
  closed,        \* per client: whether that channel is closed
  at,            \* per client: where its handler is
  start,         \* per client: the cursor the request carried
  cursor,        \* per client: the handler's lastReplayedSeq
  rows,          \* per client: replayed rows the handler has yet to write
  frames,        \* per client: ids written on the present connection
  lastId,        \* per client: the Last-Event-ID it will resume with
  seen,          \* per client: every event it has ever received
  drops,         \* connections lost so far
  restarts       \* crashes so far

dbVars      == <<log, nextSeq>>
emitVars    == <<step, pending>>
sseVars     == <<subs, buf, closed>>
handlerVars == <<at, start, cursor, rows>>
clientVars  == <<frames, lastId, seen>>
envVars     == <<drops, restarts>>
vars == <<log, nextSeq, step, pending, subs, buf, closed, at, start, cursor,
          rows, frames, lastId, seen, drops, restarts>>

NoId == -1       \* no Last-Event-ID header and no ?since=

\* A handler in one of these places still has its client listening.  It
\* writes rows in "writing" when another query follows, in "lastBatch" when
\* the live tail does.
Serving == {"ready", "subscribed", "replay", "writing", "lastBatch", "tail"}

Init ==
  /\ log = {}
  /\ nextSeq = 0
  /\ step = [e \in Emitters |-> "idle"]
  /\ pending = [e \in Emitters |-> 0]
  /\ subs = {}
  /\ buf = [c \in Clients |-> <<>>]
  /\ closed = [c \in Clients |-> TRUE]
  /\ at = [c \in Clients |-> "closed"]
  /\ start = [c \in Clients |-> NoId]
  /\ cursor = [c \in Clients |-> 0]
  /\ rows = [c \in Clients |-> {}]
  /\ frames = [c \in Clients |-> <<>>]
  /\ lastId = [c \in Clients |-> NoId]
  /\ seen = [c \in Clients |-> {}]
  /\ drops = 0
  /\ restarts = 0

-----------------------------------------------------------------------------
(* Emitter.Emit: Append, and on success Publish; nothing holds a lock      *)
(* across the two.                                                         *)

\* SQLite: one statement, numbered and visible at once (AUTOINCREMENT).
AppendSqlite(e) ==
  /\ Backend = "sqlite"
  /\ step[e] = "idle"
  /\ nextSeq < MaxSeq
  /\ nextSeq' = nextSeq + 1
  /\ log' = log \cup {nextSeq + 1}
  /\ step' = [step EXCEPT ![e] = "appended"]
  /\ pending' = [pending EXCEPT ![e] = nextSeq + 1]
  /\ UNCHANGED <<sseVars, handlerVars, clientVars, envVars>>

\* Postgres: BIGSERIAL hands the number out before the row commits.
InsertPostgres(e) ==
  /\ Backend = "postgres"
  /\ step[e] = "idle"
  /\ nextSeq < MaxSeq
  /\ nextSeq' = nextSeq + 1
  /\ step' = [step EXCEPT ![e] = "inserted"]
  /\ pending' = [pending EXCEPT ![e] = nextSeq + 1]
  /\ UNCHANGED <<log, sseVars, handlerVars, clientVars, envVars>>

\* Fault: the event is published before its row commits.
CommitPostgresLate(e) ==
  /\ step[e] = "inserted"
  /\ step' = [step EXCEPT ![e] = "appended"]
  /\ UNCHANGED <<dbVars, pending, sseVars, handlerVars, clientVars, envVars>>

CommitPostgres(e) ==
  /\ step[e] = "inserted"
  /\ log' = log \cup {pending[e]}
  /\ step' = [step EXCEPT ![e] = "appended"]
  /\ UNCHANGED <<nextSeq, pending, sseVars, handlerVars, clientVars, envVars>>

\* Append returns an error: the publish is skipped.  The number is burned;
\* the row may have committed before the connection to the server broke.
AppendFails(e) ==
  /\ step[e] = "inserted"
  /\ \/ log' = log
     \/ log' = log \cup {pending[e]}
  /\ step' = [step EXCEPT ![e] = "idle"]
  /\ UNCHANGED <<nextSeq, pending, sseVars, handlerVars, clientVars, envVars>>

\* sse.New treats a buffer size below 1 as 1.
Cap == IF BufSize < 1 THEN 1 ELSE BufSize

Full(c) == Len(buf[c]) >= Cap

\* Fault: a subscriber whose buffer is full is never told.
OverflowUntold == {}

\* The subscribers that cannot take another event: Publish closes them.
Overflow == {c \in subs : Full(c)}

\* Fault: a closed channel stays in the map.
KeptAll == subs

\* The subscribers that stay in the map.
Kept == {c \in subs : ~Full(c)}

\* Broadcaster.Publish: the whole map under mu, a non-blocking send to each.
Publish(e) ==
  /\ step[e] = "appended"
  /\ buf' = [c \in Clients |-> IF c \in subs /\ ~Full(c)
                              THEN Append(buf[c], pending[e]) ELSE buf[c]]
  /\ closed' = [c \in Clients |-> closed[c] \/ c \in Overflow]
  /\ subs' = Kept
  /\ step' = [step EXCEPT ![e] = "idle"]
  /\ UNCHANGED <<dbVars, pending, handlerVars, clientVars, envVars>>

-----------------------------------------------------------------------------
(* EventsHandler, one action per step that another goroutine can come      *)
(* between.                                                                *)

\* Fault: a missing cursor is passed on as it is.
ResolveRaw(id) == id

\* resolveLastSeq: a missing cursor counts as 0.
Resolve(id) == IF id = NoId THEN 0 ELSE id

\* The client connects with the cursor it holds; the cursor is resolved.
Connect(c) ==
  /\ at[c] = "closed"
  /\ at' = [at EXCEPT ![c] = "ready"]
  /\ start' = [start EXCEPT ![c] = lastId[c]]
  /\ cursor' = [cursor EXCEPT ![c] = Resolve(lastId[c])]
  /\ rows' = [rows EXCEPT ![c] = {}]
  /\ frames' = [frames EXCEPT ![c] = <<>>]
  /\ UNCHANGED <<dbVars, emitVars, sseVars, lastId, seen, envVars>>

\* Broadcaster.Subscribe, before the replay.
Subscribe(c) ==
  /\ at[c] = "ready"
  /\ subs' = subs \cup {c}
  /\ buf' = [buf EXCEPT ![c] = <<>>]
  /\ closed' = [closed EXCEPT ![c] = FALSE]
  /\ at' = [at EXCEPT ![c] = "subscribed"]
  /\ UNCHANGED <<dbVars, emitVars, start, cursor, rows, clientVars, envVars>>

\* The synthetic connection.state frame with id 0: a client that follows
\* the event-stream rules sets its last event id to 0.
Hello(c) ==
  /\ at[c] = "subscribed"
  /\ at' = [at EXCEPT ![c] = "replay"]
  /\ lastId' = [lastId EXCEPT ![c] = 0]
  /\ UNCHANGED <<dbVars, emitVars, sseVars, start, cursor, rows, frames, seen,
                 envVars>>

\* Fault: the row the cursor stands on is read again.
AfterInclusive(seq) == {n \in log : n >= seq}

\* WHERE seq > ?
After(seq) == {n \in log : n > seq}

\* Fault: the query has no ORDER BY.
SinceSeqUnordered(seq, limit) ==
  {R \in SUBSET After(seq) :
     /\ Cardinality(R) <= limit
     /\ Cardinality(R) < limit => R = After(seq)}

\* EventsLog.SinceSeq: the limit smallest rows above seq, fewer only when
\* there are no more.
SinceSeq(seq, limit) ==
  {R \in SUBSET After(seq) :
     /\ \A n \in R : \A m \in After(seq) \ R : n < m
     /\ Cardinality(R) <= limit
     /\ Cardinality(R) < limit => R = After(seq)}

\* Where a query takes the handler: a full batch is followed by another.
AfterBatch(R) ==
  CASE R = {} -> "tail"
    [] R # {} /\ Cardinality(R) < ReplayBatch -> "lastBatch"
    [] OTHER -> "writing"

ReplayQuery(c) ==
  /\ at[c] = "replay"
  /\ \E R \in SinceSeq(cursor[c], ReplayBatch) :
       /\ rows' = [rows EXCEPT ![c] = R]
       /\ at' = [at EXCEPT ![c] = AfterBatch(R)]
  /\ UNCHANGED <<dbVars, emitVars, sseVars, start, cursor, clientVars, envVars>>

\* Fault: a frame carries the newest id of the log, not its own.
DeliverNewestId(c, n) ==
  /\ frames' = [frames EXCEPT ![c] = Append(@, n)]
  /\ lastId' = [lastId EXCEPT ![c] = nextSeq]
  /\ seen' = [seen EXCEPT ![c] = @ \cup {n}]
  /\ cursor' = [cursor EXCEPT ![c] = n]

\* A frame with an id reaches the client, and lastReplayedSeq moves to it.
Deliver(c, n) ==
  /\ frames' = [frames EXCEPT ![c] = Append(@, n)]
  /\ lastId' = [lastId EXCEPT ![c] = n]
  /\ seen' = [seen EXCEPT ![c] = @ \cup {n}]
  /\ cursor' = [cursor EXCEPT ![c] = n]

\* One replayed row, in order.
WriteRow(c) ==
  /\ at[c] \in {"writing", "lastBatch"}
  /\ \E n \in rows[c] :
       /\ \A m \in rows[c] : n <= m
       /\ Deliver(c, n)
       /\ rows' = [rows EXCEPT ![c] = @ \ {n}]
       /\ at' = IF rows[c] # {n} THEN at
                ELSE [at EXCEPT ![c] = IF @ = "writing" THEN "replay"
                                                       ELSE "tail"]
  /\ UNCHANGED <<dbVars, emitVars, sseVars, start, envVars>>

\* Fault: the live tail does not look at what the replay has written.
LiveEventUnchecked(c) ==
  /\ at[c] = "tail"
  /\ buf[c] # <<>>
  /\ buf' = [buf EXCEPT ![c] = Tail(@)]
  /\ Deliver(c, Head(buf[c]))
  /\ UNCHANGED <<dbVars, emitVars, subs, closed, at, start, rows, envVars>>

\* An event of the live tail: skipped when the replay already wrote it.
LiveEvent(c) ==
  /\ at[c] = "tail"
  /\ buf[c] # <<>>
  /\ buf' = [buf EXCEPT ![c] = Tail(@)]
  /\ \/ /\ Head(buf[c]) <= cursor[c]
        /\ UNCHANGED <<cursor, clientVars>>
     \/ /\ Head(buf[c]) > cursor[c]
        /\ Deliver(c, Head(buf[c]))
  /\ UNCHANGED <<dbVars, emitVars, subs, closed, at, start, rows, envVars>>

\* Broadcaster.Unsubscribe: only a subscriber still in the map is removed
\* and closed, so a second call does nothing.
Unsubscribe(c) ==
  /\ subs' = subs \ {c}
  /\ closed' = IF c \in subs THEN [closed EXCEPT ![c] = TRUE] ELSE closed

\* Fault: the deferred Unsubscribe is missing.
ReturnSubscribed(c) ==
  /\ at' = [at EXCEPT ![c] = "closed"]
  /\ UNCHANGED <<subs, closed, buf, start, cursor, rows>>

\* The handler returns: its deferred Unsubscribe runs, its locals die.
Return(c) ==
  /\ Unsubscribe(c)
  /\ at' = [at EXCEPT ![c] = "closed"]
  /\ buf' = [buf EXCEPT ![c] = <<>>]
  /\ start' = [start EXCEPT ![c] = NoId]
  /\ cursor' = [cursor EXCEPT ![c] = 0]
  /\ rows' = [rows EXCEPT ![c] = {}]

\* The channel is closed and drained: the events.lagged frame, without id.
Lagged(c) ==
  /\ at[c] = "tail"
  /\ buf[c] = <<>>
  /\ closed[c]
  /\ Return(c)
  /\ UNCHANGED <<dbVars, emitVars, clientVars, envVars>>

\* SinceSeq returns an error: the handler returns without a frame.
ReplayFails(c) ==
  /\ at[c] = "replay"
  /\ drops < MaxDrops
  /\ drops' = drops + 1
  /\ Return(c)
  /\ UNCHANGED <<dbVars, emitVars, clientVars, restarts>>

\* The client goes away; its handler has not noticed yet.
Leave(c) ==
  /\ at[c] \in Serving
  /\ drops < MaxDrops
  /\ drops' = drops + 1
  /\ at' = [at EXCEPT ![c] = "gone"]
  /\ UNCHANGED <<dbVars, emitVars, sseVars, start, cursor, rows, clientVars,
                 restarts>>

\* The request context is done: the handler returns.
HandlerExit(c) ==
  /\ at[c] = "gone"
  /\ Return(c)
  /\ UNCHANGED <<dbVars, emitVars, clientVars, envVars>>

-----------------------------------------------------------------------------
\* The daemon dies and comes back: goroutines, channels and connections are
\* gone, events_log and the clients' cursors stay.
Restart ==
  /\ restarts < MaxRestarts
  /\ restarts' = restarts + 1
  /\ step' = [e \in Emitters |-> "idle"]
  /\ subs' = {}
  /\ buf' = [c \in Clients |-> <<>>]
  /\ closed' = [c \in Clients |-> TRUE]
  /\ at' = [c \in Clients |-> "closed"]
  /\ start' = [c \in Clients |-> NoId]
  /\ cursor' = [c \in Clients |-> 0]
  /\ rows' = [c \in Clients |-> {}]
  /\ UNCHANGED <<dbVars, pending, clientVars, drops>>

EmitStep(e) ==
  \/ AppendSqlite(e) \/ InsertPostgres(e) \/ CommitPostgres(e)
  \/ AppendFails(e)  \/ Publish(e)

\* What the handler does on its own account, and what goes wrong around it.
Serve(c) ==
  \/ Subscribe(c) \/ Hello(c) \/ ReplayQuery(c) \/ WriteRow(c)
  \/ LiveEvent(c) \/ Lagged(c) \/ HandlerExit(c)

Disturb(c) == ReplayFails(c) \/ Leave(c)

Next ==
  \/ \E e \in Emitters : EmitStep(e)
  \/ \E c \in Clients : Connect(c) \/ Serve(c) \/ Disturb(c)
  \/ Restart

Spec == Init /\ [][Next]_vars

(* Fairness.  A goroutine that can run does run: an Emit that has begun    *)
(* ends, a handler with work to do does it.  A client that lost its        *)
(* connection reconnects (what a stream consumer is for).  No event need   *)
(* ever be appended, and nothing need ever go wrong.                       *)
Fairness ==
  /\ \A e \in Emitters : WF_vars(CommitPostgres(e)) /\ WF_vars(Publish(e))
  /\ \A c \in Clients : WF_vars(Serve(c)) /\ WF_vars(Connect(c))

FairSpec == Spec /\ Fairness

-----------------------------------------------------------------------------
(* Correctness.                                                            *)

\* Every variable holds values of its type; in particular a cursor is a
\* number even for a client that sent none.
TypeOK ==
  /\ nextSeq \in Nat
  /\ log \in SUBSET Nat
  /\ step \in [Emitters -> {"idle", "inserted", "appended"}]
  /\ pending \in [Emitters -> Nat]
  /\ subs \in SUBSET Clients
  /\ buf \in [Clients -> Seq(Nat)]
  /\ closed \in [Clients -> BOOLEAN]
  /\ at \in [Clients -> Serving \cup {"closed", "gone"}]
  /\ start \in [Clients -> Nat \cup {NoId}]
  /\ cursor \in [Clients -> Nat]
  /\ rows \in [Clients -> SUBSET Nat]
  /\ frames \in [Clients -> Seq(Nat)]
  /\ lastId \in [Clients -> Nat \cup {NoId}]
  /\ seen \in [Clients -> SUBSET Nat]
  /\ drops \in Nat
  /\ restarts \in Nat

Elems(s) == {s[i] : i \in DOMAIN s}

\* Emit publishes only what Append made durable (events.go: "so persistence
\* and broadcast stay aligned"): whatever waits in a channel or has reached a
\* client can be read back from events_log, also after a crash.
Durable ==
  \A c \in Clients :
    Elems(buf[c]) \cup Elems(frames[c]) \cup seen[c] \subseteq log

\* The ids a client reads on one connection strictly increase, across the
\* seam between replayed rows and live events: no event arrives twice and
\* none arrives out of order.
InOrder ==
  \A c \in Clients : \A i, j \in DOMAIN frames[c] :
    i < j => frames[c][i] < frames[c][j]

\* A channel in Broadcaster.subs is open: Publish never sends on, and
\* neither Publish nor Unsubscribe ever closes, a closed channel (a panic
\* that would take the daemon down).
OpenWhileSubscribed == \A c \in subs : ~closed[c]

\* A subscription never outlives its handler, whatever ended it.
NoLeakedSubscription ==
  \A c \in subs : at[c] \notin {"closed", "ready"}

\* What a connection has carried is exactly what events_log holds between
\* the cursor it resumed from and the id it reached: the handler skipped
\* nothing when it passed from replay to live tail, or when it drained a
\* channel that had overflowed.
NoGap ==
  \A c \in Clients :
    at[c] \in Serving =>
      Elems(frames[c]) = {n \in log : start[c] < n /\ n <= cursor[c]}

\* A client that resumes with the id it holds has nothing behind it that it
\* never received, however many connections and crashes lie in between.
ResumeLosesNothing ==
  \A c \in Clients : \A n \in log : n <= lastId[c] => n \in seen[c]

\* The id a client resumes with moves back only to the beginning, and only by
\* the synthetic frame a new connection starts with: neither the seam between
\* replay and live tail nor a reconnect takes it to an id it has passed.
CursorMovesBackOnlyToStart ==
  [][\A c \in Clients :
       lastId'[c] < lastId[c] => lastId'[c] = 0 /\ frames[c] = <<>>]_vars

\* Every event in events_log reaches every client that keeps reconnecting.
EveryEventArrives ==
  \A c \in Clients : \A n \in 1..MaxSeq : n \in log ~> n \in seen[c]

-----------------------------------------------------------------------------
(* What the design document says of the handler.                           *)

\* 09-events-sse-design.md:224, step 7: "skip (the event was already in the
\* replay batch ...)".  An event the live tail skips is one this connection
\* has carried, or one before the cursor it resumed from.
Skips(c) ==
  /\ at[c] = "tail" /\ at'[c] = "tail"
  /\ buf[c] # <<>> /\ buf'[c] = Tail(buf[c])
  /\ frames' = frames

SkipsOnlyReplayed ==
  [][\A c \in Clients :
       Skips(c) => \/ Head(buf[c]) <= start[c]
                  \/ Head(buf[c]) \in Elems(frames[c])]_vars

-----------------------------------------------------------------------------
(* The stream implements the feed.  While a handler serves the client, the *)
(* client's position is the handler's cursor; otherwise it is the id the   *)
(* client will resume with.                                                *)

Position(c) ==
  IF at[c] \in Serving THEN cursor[c] ELSE Resolve(lastId[c])

Feed == INSTANCE EventFeed WITH
          pos <- [c \in Clients |-> Position(c)], read <- seen

\* With one emitter every step of the stream is a step of the feed: a client
\* reads the log in order and without a hole, and only ever goes back to the
\* beginning.
ImplementsFeed == Feed!FeedSpec
=============================================================================
