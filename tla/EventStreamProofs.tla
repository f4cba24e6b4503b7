------------------------- MODULE EventStreamProofs -------------------------
(* Theorems about EventStream and their proofs.                            *)
EXTENDS EventStream, FiniteSetTheorems, TLAPS

USE DEF NoId, Serving

\* The variables start out in their types.
LEMMA TypeInit == Init => TypeOK
  BY DEF Init, TypeOK

\* Writing a frame keeps what the client holds, and the cursor, in type.
LEMMA DeliverType ==
  ASSUME TypeOK, NEW c \in Clients, NEW n \in Nat, Deliver(c, n)
  PROVE  /\ frames' \in [Clients -> Seq(Nat)]
         /\ lastId' \in [Clients -> Nat \cup {NoId}]
         /\ seen' \in [Clients -> SUBSET Nat]
         /\ cursor' \in [Clients -> Nat]
  BY DEF TypeOK, Deliver

\* Every step of Next keeps every variable in its type, for any number of
\* emitters and clients, either database and any buffer size.
LEMMA TypeStep == TypeOK /\ [Next]_vars => TypeOK'
<1> SUFFICES ASSUME TypeOK, [Next]_vars PROVE TypeOK'
  OBVIOUS
<1> USE DEF TypeOK, dbVars, emitVars, sseVars, handlerVars, clientVars, envVars
<1>1. ASSUME NEW e \in Emitters, EmitStep(e) PROVE TypeOK'
  <2>1. CASE AppendSqlite(e)
    BY <2>1 DEF AppendSqlite
  <2>2. CASE InsertPostgres(e)
    BY <2>2 DEF InsertPostgres
  <2>3. CASE CommitPostgres(e)
    BY <2>3 DEF CommitPostgres
  <2>4. CASE AppendFails(e)
    BY <2>4 DEF AppendFails
  <2>5. CASE Publish(e)
    <3>1. buf' \in [Clients -> Seq(Nat)]
      BY <2>5 DEF Publish
    <3>2. closed' \in [Clients -> BOOLEAN]
      BY <2>5, Zenon DEF Publish
    <3>3. QED BY <2>5, <3>1, <3>2 DEF Publish, Kept
  <2>6. QED BY <1>1, <2>1, <2>2, <2>3, <2>4, <2>5 DEF EmitStep
<1>2. ASSUME NEW c \in Clients, Connect(c) \/ Serve(c) \/ Disturb(c)
      PROVE TypeOK'
  <2> USE DEF Return, Unsubscribe
  <2>1. CASE Connect(c)
    BY <2>1 DEF Connect, Resolve
  <2>2. CASE Subscribe(c)
    BY <2>2 DEF Subscribe
  <2>3. CASE Hello(c)
    BY <2>3 DEF Hello
  <2>4. CASE ReplayQuery(c)
    BY <2>4 DEF ReplayQuery, SinceSeq, After, AfterBatch
  <2>5. CASE WriteRow(c)
    <3>1. PICK n \in rows[c] :
            /\ Deliver(c, n)
            /\ rows' = [rows EXCEPT ![c] = @ \ {n}]
            /\ at' = IF rows[c] # {n} THEN at
                     ELSE [at EXCEPT ![c] = IF @ = "writing" THEN "replay"
                                                            ELSE "tail"]
      BY <2>5 DEF WriteRow
    <3>2. n \in Nat
      OBVIOUS
    <3>3. rows' \in [Clients -> SUBSET Nat]
      BY <3>1
    <3>4. at' \in [Clients -> Serving \cup {"closed", "gone"}]
      BY <3>1
    <3>5. /\ frames' \in [Clients -> Seq(Nat)]
          /\ lastId' \in [Clients -> Nat \cup {NoId}]
          /\ seen' \in [Clients -> SUBSET Nat]
          /\ cursor' \in [Clients -> Nat]
      BY <3>1, <3>2, DeliverType
    <3>6. UNCHANGED <<dbVars, emitVars, sseVars, start, envVars>>
      BY <2>5 DEF WriteRow
    <3>7. QED BY <3>3, <3>4, <3>5, <3>6
  <2>6. CASE LiveEvent(c)
    <3>1. Head(buf[c]) \in Nat /\ Tail(buf[c]) \in Seq(Nat)
      BY <2>6 DEF LiveEvent
    <3>2. buf' \in [Clients -> Seq(Nat)]
      BY <2>6, <3>1 DEF LiveEvent
    <3>3. CASE Deliver(c, Head(buf[c]))
      BY <2>6, <3>1, <3>2, <3>3, DeliverType DEF LiveEvent
    <3>4. QED BY <2>6, <3>2, <3>3 DEF LiveEvent
  <2>7. CASE Lagged(c)
    BY <2>7 DEF Lagged
  <2>8. CASE HandlerExit(c)
    BY <2>8 DEF HandlerExit
  <2>9. CASE ReplayFails(c)
    BY <2>9 DEF ReplayFails
  <2>10. CASE Leave(c)
    BY <2>10 DEF Leave
  <2>11. QED
    BY <1>2, <2>1, <2>2, <2>3, <2>4, <2>5, <2>6, <2>7, <2>8, <2>9, <2>10
    DEF Serve, Disturb
<1>3. CASE Restart
  BY <1>3 DEF Restart
<1>4. CASE UNCHANGED vars
  BY <1>4 DEF vars
<1>5. QED BY <1>1, <1>2, <1>3, <1>4 DEF Next

\* Type correctness of the event stream.
THEOREM TypeCorrect == Spec => []TypeOK
  BY TypeInit, TypeStep, PTL DEF Spec
-----------------------------------------------------------------------------
(* Safety for any number of emitters and either database.                  *)

\* Events between the log and the client are in the log: the one an emitter
\* is about to publish, and the rows a handler has fetched.
InFlightLogged ==
  /\ \A e \in Emitters : step[e] = "appended" => pending[e] \in log
  /\ \A c \in Clients : rows[c] \subseteq log

\* The handler's cursor separates what it wrote from the rows it holds.
CursorSplits ==
  \A c \in Clients :
    /\ \A n \in rows[c] : cursor[c] < n
    /\ at[c] = "tail" => rows[c] = {}
    /\ at[c] \in Serving =>
         \A i \in DOMAIN frames[c] : frames[c][i] <= cursor[c]

SafeInv ==
  /\ InFlightLogged
  /\ CursorSplits
  /\ Durable
  /\ InOrder
  /\ OpenWhileSubscribed
  /\ NoLeakedSubscription

\* Appending to a sequence adds its new last element and nothing else.
LEMMA AppendElems ==
  ASSUME NEW s \in Seq(Nat), NEW n \in Nat
  PROVE  /\ Append(s, n) \in Seq(Nat)
         /\ DOMAIN Append(s, n) = DOMAIN s \cup {Len(s) + 1}
         /\ \A i \in DOMAIN s : Append(s, n)[i] = s[i]
         /\ Append(s, n)[Len(s) + 1] = n
         /\ Elems(Append(s, n)) = Elems(s) \cup {n}
<1>1. /\ Append(s, n) \in Seq(Nat)
      /\ DOMAIN Append(s, n) = DOMAIN s \cup {Len(s) + 1}
      /\ \A i \in DOMAIN s : Append(s, n)[i] = s[i]
      /\ Append(s, n)[Len(s) + 1] = n
  OBVIOUS
<1>2. Elems(Append(s, n)) = Elems(s) \cup {n}
  BY <1>1 DEF Elems
<1>3. QED BY <1>1, <1>2

\* Dropping the head of a sequence shifts the others down by one.
LEMMA TailElems ==
  ASSUME NEW s \in Seq(Nat), s # <<>>
  PROVE  /\ Tail(s) \in Seq(Nat)
         /\ Head(s) \in Nat /\ Head(s) = s[1] /\ 1 \in DOMAIN s
         /\ Len(Tail(s)) = Len(s) - 1
         /\ \A i \in DOMAIN Tail(s) : i + 1 \in DOMAIN s /\ Tail(s)[i] = s[i + 1]
         /\ Elems(Tail(s)) \subseteq Elems(s)
         /\ Head(s) \in Elems(s)
<1>1. /\ Tail(s) \in Seq(Nat)
      /\ Head(s) \in Nat /\ Head(s) = s[1] /\ 1 \in DOMAIN s
      /\ Len(Tail(s)) = Len(s) - 1
      /\ \A i \in DOMAIN Tail(s) : i + 1 \in DOMAIN s /\ Tail(s)[i] = s[i + 1]
  OBVIOUS
<1>2. Elems(Tail(s)) \subseteq Elems(s) /\ Head(s) \in Elems(s)
  BY <1>1 DEF Elems
<1>3. QED BY <1>1, <1>2

\* A frame for an event of the log above the cursor keeps the frames of the
\* client durable, in order and behind the cursor.
LEMMA DeliverSafe ==
  ASSUME TypeOK, SafeInv, NEW c \in Clients, NEW n \in log,
         at[c] \in Serving, cursor[c] < n, Deliver(c, n)
  PROVE  /\ \A d \in Clients : Elems(frames'[d]) \cup seen'[d] \subseteq log
         /\ InOrder'
         /\ \A d \in Clients : at[d] \in Serving =>
              \A i \in DOMAIN frames'[d] : frames'[d][i] <= cursor'[d]
<1>1. n \in Nat /\ frames[c] \in Seq(Nat) /\ cursor[c] \in Nat
  BY DEF TypeOK
<1> DEFINE f == frames[c]
           g == Append(f, n)
<1>2. /\ DOMAIN g = DOMAIN f \cup {Len(f) + 1} /\ DOMAIN f = 1..Len(f)
      /\ Len(f) \in Nat
      /\ \A i \in DOMAIN f : g[i] = f[i] /\ f[i] \in Nat
      /\ g[Len(f) + 1] = n
      /\ Elems(g) = Elems(f) \cup {n}
  BY <1>1, AppendElems
<1>3. /\ \A d \in Clients : d # c => frames'[d] = frames[d]
      /\ frames'[c] = g
  BY DEF Deliver, TypeOK
<1>4. \A i \in DOMAIN f : f[i] <= cursor[c]
  BY DEF SafeInv, CursorSplits
<1>5. \A i, j \in DOMAIN f : i < j => f[i] < f[j]
  BY DEF SafeInv, InOrder
<1> HIDE DEF f, g
<1>6. \A d \in Clients : Elems(frames'[d]) \cup seen'[d] \subseteq log
  <2>1. Elems(g) \subseteq log
    BY <1>2 DEF SafeInv, Durable, f
  <2>2. QED BY <1>3, <2>1 DEF SafeInv, Durable, Deliver, TypeOK
<1>7. ASSUME NEW d \in Clients, at[d] \in Serving,
             NEW i \in DOMAIN frames'[d]
      PROVE  frames'[d][i] <= cursor'[d]
  <2>1. cursor'[d] = IF d = c THEN n ELSE cursor[d]
    BY DEF Deliver, TypeOK
  <2>2. CASE d # c
    BY <1>3, <1>7, <2>1, <2>2 DEF SafeInv, CursorSplits
  <2>3. CASE d = c
    BY <1>1, <1>2, <1>3, <1>4, <1>7, <2>1, <2>3
  <2>4. QED BY <2>2, <2>3
<1>8. InOrder'
  <2> SUFFICES ASSUME NEW d \in Clients,
                      NEW i \in DOMAIN frames'[d], NEW j \in DOMAIN frames'[d],
                      i < j
               PROVE  frames'[d][i] < frames'[d][j]
    BY DEF InOrder
  <2>1. CASE d # c
    BY <1>3, <2>1 DEF SafeInv, InOrder
  <2>2. CASE d = c
    <3>1. i \in DOMAIN g /\ j \in DOMAIN g /\ frames'[d] = g
      BY <1>3, <2>2
    <3>2. i \in DOMAIN f /\ i \in Nat
      BY <1>2, <3>1
    <3>3. CASE j \in DOMAIN f
      BY <1>2, <1>5, <3>1, <3>2, <3>3
    <3>4. CASE j = Len(f) + 1
      BY <1>1, <1>2, <1>4, <3>1, <3>2, <3>4
    <3>5. QED BY <1>2, <3>1, <3>3, <3>4
  <2>3. QED BY <2>1, <2>2
<1>9. QED BY <1>6, <1>7, <1>8

\* The strengthened invariant holds at the start.
LEMMA SafeInit == Init => SafeInv
  BY DEF Init, SafeInv, InFlightLogged, CursorSplits, Durable, InOrder,
         OpenWhileSubscribed, NoLeakedSubscription, Elems

\* A step of Emit preserves it: only what Append made visible is offered to
\* a channel, and the channels it closes leave the map.
LEMMA SafeEmit ==
  ASSUME TypeOK, SafeInv, NEW e \in Emitters, EmitStep(e) PROVE SafeInv'
<1> USE DEF TypeOK, dbVars, emitVars, sseVars, handlerVars, clientVars, envVars
<1>1. /\ UNCHANGED <<handlerVars, clientVars>>
      /\ log \subseteq log'
  BY DEF EmitStep, AppendSqlite, InsertPostgres, CommitPostgres, AppendFails,
         Publish
<1>2. CursorSplits' /\ InOrder'
  BY <1>1 DEF SafeInv, CursorSplits, InOrder
<1>3. CASE ~Publish(e)
  <2>1. UNCHANGED sseVars
    BY <1>3 DEF EmitStep, AppendSqlite, InsertPostgres, CommitPostgres, AppendFails
  <2>2. Durable' /\ OpenWhileSubscribed' /\ NoLeakedSubscription'
    BY <1>1, <2>1
    DEF SafeInv, Durable, OpenWhileSubscribed, NoLeakedSubscription
  <2>3. \A d \in Emitters : step'[d] = "appended" => pending'[d] \in log'
    <3>1. CASE AppendSqlite(e)
      BY <3>1 DEF AppendSqlite, SafeInv, InFlightLogged
    <3>2. CASE InsertPostgres(e)
      BY <3>2 DEF InsertPostgres, SafeInv, InFlightLogged
    <3>3. CASE CommitPostgres(e)
      BY <3>3 DEF CommitPostgres, SafeInv, InFlightLogged
    <3>4. CASE AppendFails(e)
      BY <3>4 DEF AppendFails, SafeInv, InFlightLogged
    <3>5. QED BY <1>3, <3>1, <3>2, <3>3, <3>4 DEF EmitStep
  <2>4. InFlightLogged'
    BY <1>1, <2>3 DEF SafeInv, InFlightLogged
  <2>5. QED BY <1>2, <2>2, <2>4 DEF SafeInv
<1>4. CASE Publish(e)
  <2>1. UNCHANGED log /\ pending[e] \in log /\ pending[e] \in Nat
    BY <1>4 DEF Publish, SafeInv, InFlightLogged
  <2>2. InFlightLogged'
    BY <1>1, <1>4 DEF Publish, SafeInv, InFlightLogged
  <2>3. \A c \in Clients : Elems(buf'[c]) \subseteq Elems(buf[c]) \cup {pending[e]}
    BY <1>4, <2>1, AppendElems DEF Publish
  <2>4. Durable'
    BY <1>1, <2>1, <2>3 DEF SafeInv, Durable
  <2>5. OpenWhileSubscribed' /\ NoLeakedSubscription'
    BY <1>1, <1>4 DEF Publish, Kept, Overflow, SafeInv, OpenWhileSubscribed,
                      NoLeakedSubscription
  <2>6. QED BY <1>2, <2>2, <2>4, <2>5 DEF SafeInv
<1>5. QED BY <1>3, <1>4

\* The end of a handler preserves it.
LEMMA SafeReturn ==
  ASSUME TypeOK, SafeInv, NEW c \in Clients, Return(c),
         UNCHANGED <<dbVars, emitVars, clientVars>>
  PROVE  SafeInv'
<1> USE DEF TypeOK, Return, Unsubscribe, dbVars, emitVars, clientVars, SafeInv
<1>1. InFlightLogged' /\ InOrder'
  BY DEF InFlightLogged, InOrder
<1>2. CursorSplits'
  BY DEF CursorSplits
<1>3. Durable'
  <2>1. \A d \in Clients : buf'[d] = buf[d] \/ buf'[d] = <<>>
    OBVIOUS
  <2>2. Elems(<<>>) = {}
    BY DEF Elems
  <2>3. QED BY <2>1, <2>2 DEF Durable
<1>4. OpenWhileSubscribed' /\ NoLeakedSubscription'
  BY DEF OpenWhileSubscribed, NoLeakedSubscription
<1>5. QED BY <1>1, <1>2, <1>3, <1>4

\* A step of a handler, or of its client, preserves it.
LEMMA SafeServe ==
  ASSUME TypeOK, SafeInv, NEW c \in Clients,
         Connect(c) \/ Serve(c) \/ Disturb(c)
  PROVE  SafeInv'
<1> USE DEF TypeOK, dbVars, emitVars, sseVars, handlerVars, clientVars, envVars
<1>0. Elems(<<>>) = {}
  BY DEF Elems
<1>1. CASE Connect(c)
  <2>1. InFlightLogged' /\ OpenWhileSubscribed' /\ NoLeakedSubscription'
    BY <1>1 DEF Connect, SafeInv, InFlightLogged, OpenWhileSubscribed,
                NoLeakedSubscription
  <2>2. \A d \in Clients : frames'[d] = frames[d] \/ frames'[d] = <<>>
    BY <1>1 DEF Connect
  <2>3. Durable' /\ InOrder'
    BY <1>0, <1>1, <2>2 DEF Connect, SafeInv, Durable, InOrder
  <2>4. CursorSplits'
    BY <1>1 DEF Connect, SafeInv, CursorSplits
  <2>5. QED BY <2>1, <2>3, <2>4 DEF SafeInv
<1>2. CASE Subscribe(c)
  <2>1. InFlightLogged' /\ InOrder' /\ CursorSplits'
    BY <1>2 DEF Subscribe, SafeInv, InFlightLogged, InOrder, CursorSplits
  <2>2. \A d \in Clients : buf'[d] = buf[d] \/ buf'[d] = <<>>
    BY <1>2 DEF Subscribe
  <2>3. Durable'
    BY <1>0, <1>2, <2>2 DEF Subscribe, SafeInv, Durable
  <2>4. OpenWhileSubscribed' /\ NoLeakedSubscription'
    BY <1>2 DEF Subscribe, SafeInv, OpenWhileSubscribed, NoLeakedSubscription
  <2>5. QED BY <2>1, <2>3, <2>4 DEF SafeInv
<1>3. CASE Hello(c) \/ Leave(c)
  <2>1. /\ UNCHANGED <<dbVars, emitVars, sseVars, cursor, rows, frames, seen>>
        /\ \A d \in Clients : \/ at'[d] = at[d]
                              \/ at'[d] = "replay" /\ at[d] = "subscribed"
                              \/ at'[d] = "gone" /\ at[d] \in Serving
    BY <1>3 DEF Hello, Leave
  <2>2. InFlightLogged' /\ InOrder' /\ Durable' /\ OpenWhileSubscribed'
    BY <2>1 DEF SafeInv, InFlightLogged, InOrder, Durable, OpenWhileSubscribed
  <2>3. NoLeakedSubscription'
    <3>1. \A d \in Clients : at'[d] \in {"closed", "ready"} => at'[d] = at[d]
      BY <2>1
    <3>2. QED BY <1>3, <2>1, <3>1 DEF Leave, Hello, SafeInv, NoLeakedSubscription
  <2>4. CursorSplits'
    BY <2>1 DEF SafeInv, CursorSplits
  <2>5. QED BY <2>2, <2>3, <2>4 DEF SafeInv
<1>4. CASE ReplayQuery(c)
  <2>1. PICK R \in SinceSeq(cursor[c], ReplayBatch) :
          /\ rows' = [rows EXCEPT ![c] = R]
          /\ at' = [at EXCEPT ![c] = AfterBatch(R)]
    BY <1>4 DEF ReplayQuery
  <2>2. R \subseteq log /\ \A n \in R : cursor[c] < n
    BY <2>1 DEF SinceSeq, After
  <2>3. /\ at[c] = "replay" /\ AfterBatch(R) \in Serving \ {"ready"}
        /\ AfterBatch(R) = "tail" => R = {}
    BY <1>4 DEF ReplayQuery, AfterBatch
  <2>4. UNCHANGED <<dbVars, emitVars, sseVars, start, cursor, clientVars>>
    BY <1>4 DEF ReplayQuery
  <2>5. InFlightLogged' /\ CursorSplits'
    <3>1. InFlightLogged'
      BY <2>1, <2>2, <2>4 DEF SafeInv, InFlightLogged
    <3>2. \A d \in Clients : d # c => rows'[d] = rows[d] /\ at'[d] = at[d]
      BY <2>1
    <3>3. rows'[c] = R /\ at'[c] = AfterBatch(R)
      BY <2>1
    <3>4. CursorSplits'
      BY <2>2, <2>3, <2>4, <3>2, <3>3 DEF SafeInv, CursorSplits
    <3>5. QED BY <3>1, <3>4
  <2>6. Durable' /\ InOrder' /\ OpenWhileSubscribed'
    BY <2>4 DEF SafeInv, Durable, InOrder, OpenWhileSubscribed
  <2>7. NoLeakedSubscription'
    BY <2>1, <2>3, <2>4 DEF SafeInv, NoLeakedSubscription
  <2>8. QED BY <2>5, <2>6, <2>7 DEF SafeInv
<1>5. CASE WriteRow(c)
  <2>1. PICK n \in rows[c] :
          /\ \A m \in rows[c] : n <= m
          /\ Deliver(c, n)
          /\ rows' = [rows EXCEPT ![c] = @ \ {n}]
          /\ at' = IF rows[c] # {n} THEN at
                   ELSE [at EXCEPT ![c] = IF @ = "writing" THEN "replay"
                                                          ELSE "tail"]
    BY <1>5 DEF WriteRow
  <2>2. /\ UNCHANGED <<dbVars, emitVars, sseVars>>
        /\ at[c] \in {"writing", "lastBatch"}
    BY <1>5 DEF WriteRow
  <2>3. n \in log /\ n \in Nat /\ cursor[c] < n /\ at[c] \in Serving
    BY <2>2 DEF SafeInv, InFlightLogged, CursorSplits
  <2>4. /\ \A d \in Clients : Elems(frames'[d]) \cup seen'[d] \subseteq log
        /\ InOrder'
        /\ \A d \in Clients : at[d] \in Serving =>
             \A i \in DOMAIN frames'[d] : frames'[d][i] <= cursor'[d]
    BY <2>1, <2>3, DeliverSafe
  <2>5. \A d \in Clients : at'[d] = at[d] \/ (d = c /\ at'[d] \in {"replay", "tail"})
    BY <2>1, <2>2
  <2>6. InFlightLogged'
    BY <2>1, <2>2 DEF SafeInv, InFlightLogged
  <2>7. \A d \in Clients : \A m \in rows'[d] : cursor'[d] < m
    <3>1. cursor' = [cursor EXCEPT ![c] = n]
      BY <2>1 DEF Deliver
    <3>2. \A m \in rows[c] \ {n} : n < m
      BY <2>1, <2>3
    <3>3. QED BY <2>1, <3>1, <3>2 DEF SafeInv, CursorSplits
  <2>8. CursorSplits'
    <3>1. \A d \in Clients : at'[d] = "tail" => rows'[d] = {}
      BY <2>1, <2>2 DEF SafeInv, CursorSplits
    <3>2. \A d \in Clients : at'[d] \in Serving => at[d] \in Serving
      BY <2>3, <2>5
    <3>3. QED BY <2>4, <2>7, <3>1, <3>2 DEF CursorSplits
  <2>9. Durable' /\ OpenWhileSubscribed' /\ NoLeakedSubscription'
    BY <2>2, <2>4, <2>5 DEF SafeInv, Durable, OpenWhileSubscribed,
                            NoLeakedSubscription
  <2>10. QED BY <2>4, <2>6, <2>8, <2>9 DEF SafeInv
<1>6. CASE LiveEvent(c)
  <2>1. buf[c] \in Seq(Nat) /\ buf[c] # <<>> /\ at[c] = "tail"
    BY <1>6 DEF LiveEvent
  <2>2. /\ UNCHANGED <<dbVars, emitVars, subs, closed, at, rows>>
        /\ buf' = [buf EXCEPT ![c] = Tail(buf[c])]
    BY <1>6 DEF LiveEvent
  <2>3. Head(buf[c]) \in log
    BY <2>1, TailElems DEF SafeInv, Durable
  <2>4. \A d \in Clients : Elems(buf'[d]) \subseteq Elems(buf[d])
    BY <2>1, <2>2, TailElems
  <2>5. InFlightLogged' /\ OpenWhileSubscribed' /\ NoLeakedSubscription'
    BY <2>2 DEF SafeInv, InFlightLogged, OpenWhileSubscribed, NoLeakedSubscription
  <2>6. CASE UNCHANGED <<cursor, clientVars>>
    BY <2>2, <2>4, <2>5, <2>6 DEF SafeInv, CursorSplits, InOrder, Durable
  <2>7. CASE Head(buf[c]) > cursor[c] /\ Deliver(c, Head(buf[c]))
    <3>1. Head(buf[c]) \in Nat /\ cursor[c] < Head(buf[c]) /\ at[c] \in Serving
      BY <2>1, <2>7, TailElems
    <3>2. /\ \A d \in Clients : Elems(frames'[d]) \cup seen'[d] \subseteq log
          /\ InOrder'
          /\ \A d \in Clients : at[d] \in Serving =>
               \A i \in DOMAIN frames'[d] : frames'[d][i] <= cursor'[d]
      BY <2>3, <2>7, <3>1, DeliverSafe
    <3>3. cursor' = [cursor EXCEPT ![c] = Head(buf[c])]
      BY <2>7 DEF Deliver
    <3>4. rows[c] = {}
      BY <2>1 DEF SafeInv, CursorSplits
    <3>5. QED BY <2>2, <2>4, <2>5, <3>2, <3>3, <3>4
              DEF SafeInv, CursorSplits, Durable
  <2>8. QED BY <1>6, <2>6, <2>7 DEF LiveEvent
<1>7. CASE Lagged(c) \/ HandlerExit(c) \/ ReplayFails(c)
  BY <1>7, SafeReturn DEF Lagged, HandlerExit, ReplayFails
<1>8. QED
  BY <1>1, <1>2, <1>3, <1>4, <1>5, <1>6, <1>7 DEF Serve, Disturb

\* Every step of Next preserves the strengthened invariant.
LEMMA SafeStep == TypeOK /\ SafeInv /\ [Next]_vars => SafeInv'
<1> SUFFICES ASSUME TypeOK, SafeInv, [Next]_vars PROVE SafeInv'
  OBVIOUS
<1>1. CASE \E e \in Emitters : EmitStep(e)
  BY <1>1, SafeEmit
<1>2. CASE \E c \in Clients : Connect(c) \/ Serve(c) \/ Disturb(c)
  BY <1>2, SafeServe
<1>3. CASE Restart
  BY <1>3 DEF Restart, SafeInv, InFlightLogged, CursorSplits, Durable, InOrder,
              OpenWhileSubscribed, NoLeakedSubscription, Elems, dbVars, clientVars
<1>4. CASE UNCHANGED vars
  BY <1>4 DEF vars, SafeInv, InFlightLogged, CursorSplits, Durable, InOrder,
              OpenWhileSubscribed, NoLeakedSubscription
<1>5. QED BY <1>1, <1>2, <1>3, <1>4 DEF Next

\* The strengthened invariant holds in every reachable state.
THEOREM Safe == Spec => []SafeInv
  BY TypeInit, TypeStep, SafeInit, SafeStep, PTL DEF Spec

\* Whatever is in a channel or has reached a client is in events_log, for any
\* number of emitters, either database, any buffer and any batch size.
THEOREM DurableAlways == Spec => []Durable
  BY Safe, PTL DEF SafeInv

\* On every connection the ids strictly increase, however many goroutines
\* emit and in whatever order their rows commit and are published.
THEOREM InOrderAlways == Spec => []InOrder
  BY Safe, PTL DEF SafeInv

\* The broadcaster never sends on a closed channel and never closes twice.
THEOREM OpenAlways == Spec => []OpenWhileSubscribed
  BY Safe, PTL DEF SafeInv

\* No subscription is left behind by a handler that has returned.
THEOREM NoLeakAlways == Spec => []NoLeakedSubscription
  BY Safe, PTL DEF SafeInv

-----------------------------------------------------------------------------
(* Completeness with one emitter and SQLite.                               *)

Alone == Backend = "sqlite" /\ \E e \in Emitters : Emitters = {e}

\* The last event published: with one emitter only the newest of the log can
\* still be waiting for its Publish.
Published ==
  IF \E e \in Emitters : step[e] = "appended" THEN nextSeq - 1 ELSE nextSeq

LogDense ==
  /\ log = 1..nextSeq
  /\ \A e \in Emitters :
       /\ step[e] # "inserted"
       /\ step[e] = "appended" => nextSeq >= 1 /\ pending[e] = nextSeq

\* The events in a channel are consecutive, and those of a subscriber end
\* with the last one published.
ChannelDense ==
  \A c \in Clients : \A i \in DOMAIN buf[c] :
    /\ buf[c][i] = buf[c][1] + i - 1
    /\ c \in subs => Published = buf[c][1] + Len(buf[c]) - 1

\* The fetched rows are the ones that follow the cursor.
RowsDense ==
  \A c \in Clients :
    /\ at[c] \in {"ready", "subscribed", "replay", "tail"} => rows[c] = {}
    /\ \A n \in rows[c] : \A m \in log : cursor[c] < m /\ m < n => m \in rows[c]

\* Once no further query follows, the channel continues where the cursor and
\* the rows still to be written end.
Covered(c, n) == n <= cursor[c] \/ n \in rows[c]

SeamClosed ==
  \A c \in Clients : at[c] \in {"lastBatch", "tail"} =>
    /\ buf[c] # <<>> => Covered(c, buf[c][1] - 1)
    /\ buf[c] = <<>> /\ c \in subs => Covered(c, Published)

\* Neither a cursor nor a client's id is ahead of the log, and a handler
\* never falls behind the cursor it was asked for.
CursorInLog ==
  \A c \in Clients :
    /\ cursor[c] <= nextSeq /\ lastId[c] <= nextSeq
    /\ at[c] \in Serving => start[c] <= cursor[c]

\* What lies behind the cursor, or behind the id of the client, was seen.
SeenBehind ==
  \A c \in Clients :
    /\ \A n \in log : n <= lastId[c] => n \in seen[c]
    /\ at[c] \in Serving => \A n \in log : n <= cursor[c] => n \in seen[c]

CompleteInv ==
  /\ LogDense
  /\ ChannelDense
  /\ RowsDense
  /\ SeamClosed
  /\ CursorInLog
  /\ SeenBehind
  /\ NoGap

\* The strengthened invariant holds at the start.
LEMMA CompleteInit == Init => CompleteInv
  BY DEF Init, CompleteInv, LogDense, ChannelDense, RowsDense, SeamClosed,
         CursorInLog, SeenBehind, NoGap

\* The last published event is the newest of the log or the one before.
LEMMA PublishedRange ==
  ASSUME TypeOK, LogDense PROVE Published \in 0..nextSeq
  BY DEF TypeOK, LogDense, Published

\* A frame for the event that follows the cursor in the log leaves no gap.
LEMMA DeliverComplete ==
  ASSUME TypeOK, SafeInv, CompleteInv,
         NEW c \in Clients, NEW n \in log, at[c] \in Serving, cursor[c] < n,
         \A m \in log : ~(cursor[c] < m /\ m < n),
         Deliver(c, n), UNCHANGED <<dbVars, start>>,
         \A d \in Clients : at'[d] \in Serving => at[d] \in Serving
  PROVE  NoGap' /\ SeenBehind' /\ CursorInLog'
<1> USE DEF dbVars
<1>1. /\ n \in Nat /\ n <= nextSeq /\ log \subseteq Nat
      /\ cursor[c] \in Nat /\ start[c] \in Int /\ start[c] <= cursor[c]
      /\ nextSeq \in Nat
  BY DEF TypeOK, CompleteInv, LogDense, CursorInLog
<1>2. /\ \A d \in Clients : d # c => /\ frames'[d] = frames[d]
                                   /\ lastId'[d] = lastId[d]
                                   /\ seen'[d] = seen[d]
                                   /\ cursor'[d] = cursor[d]
      /\ lastId'[c] = n /\ cursor'[c] = n /\ seen'[c] = seen[c] \cup {n}
      /\ frames'[c] = Append(frames[c], n)
  BY DEF Deliver, TypeOK
<1>3. Elems(frames'[c]) = Elems(frames[c]) \cup {n}
  BY <1>1, <1>2, AppendElems DEF TypeOK
<1>4. NoGap'
  <2>1. Elems(frames'[c]) = {m \in log : start[c] < m /\ m <= n}
    <3>1. Elems(frames[c]) = {m \in log : start[c] < m /\ m <= cursor[c]}
      BY DEF CompleteInv, NoGap
    <3>2. ASSUME NEW m \in log
          PROVE  start[c] < m /\ m <= n
                   <=> (start[c] < m /\ m <= cursor[c]) \/ m = n
      <4>1. m \in Nat /\ (cursor[c] < m => n <= m)
        BY <1>1
      <4>2. start[c] < n
        BY <1>1
      <4>3. QED BY <1>1, <4>1, <4>2
    <3>3. QED BY <1>3, <3>1, <3>2
  <2>2. ASSUME NEW d \in Clients, at'[d] \in Serving
        PROVE  Elems(frames'[d])
                 = {m \in log' : start'[d] < m /\ m <= cursor'[d]}
    <3>1. CASE d = c
      BY <1>2, <2>1, <3>1
    <3>2. CASE d # c
      <4>1. Elems(frames[d]) = {m \in log : start[d] < m /\ m <= cursor[d]}
        BY <2>2 DEF CompleteInv, NoGap
      <4>2. frames'[d] = frames[d] /\ cursor'[d] = cursor[d]
        BY <1>2, <3>2
      <4>3. QED BY <4>1, <4>2
    <3>3. QED BY <3>1, <3>2
  <2>3. QED BY <2>2 DEF NoGap
<1>5. SeenBehind'
  <2>1. \A m \in log : m <= n => m \in seen'[c]
    BY <1>1, <1>2 DEF CompleteInv, SeenBehind
  <2>2. QED BY <1>2, <2>1 DEF CompleteInv, SeenBehind
<1>6. CursorInLog'
  BY <1>1, <1>2 DEF CompleteInv, CursorInLog
<1>7. QED BY <1>4, <1>5, <1>6

\* A step of the one emitter preserves it: between Append and Publish no
\* other event can enter the log or a channel.
LEMMA CompleteEmit ==
  ASSUME Alone, TypeOK, SafeInv, CompleteInv, NEW e \in Emitters, EmitStep(e)
  PROVE  CompleteInv'
<1> USE DEF TypeOK, dbVars, emitVars, sseVars, handlerVars, clientVars, envVars
<1>1. Emitters = {e} /\ Backend = "sqlite" /\ step[e] # "inserted"
  BY DEF Alone, CompleteInv, LogDense
<1>2. CASE AppendSqlite(e)
  <2>1. /\ nextSeq' = nextSeq + 1 /\ log' = log \cup {nextSeq + 1}
        /\ UNCHANGED <<sseVars, handlerVars, clientVars>>
        /\ step[e] = "idle" /\ step'[e] = "appended"
        /\ pending'[e] = nextSeq + 1
    BY <1>2 DEF AppendSqlite
  <2>2. Published' = Published
    BY <1>1, <2>1 DEF Published
  <2>3. LogDense'
    BY <1>1, <2>1 DEF CompleteInv, LogDense
  <2>4. ChannelDense' /\ SeamClosed'
    BY <2>1, <2>2 DEF CompleteInv, ChannelDense, SeamClosed, Covered
  <2>5. RowsDense'
    <3>1. \A c \in Clients : \A n \in rows[c] : n \in Nat /\ n <= nextSeq
      BY DEF SafeInv, InFlightLogged, CompleteInv, LogDense
    <3>2. QED BY <2>1, <3>1 DEF CompleteInv, RowsDense
  <2>6. CursorInLog' /\ SeenBehind' /\ NoGap'
    <3>1. \A c \in Clients : /\ cursor[c] \in Nat /\ cursor[c] < nextSeq + 1
                            /\ lastId[c] \in Int /\ lastId[c] < nextSeq + 1
      BY DEF CompleteInv, CursorInLog
    <3>2. CursorInLog'
      BY <2>1, <3>1 DEF CompleteInv, CursorInLog
    <3>3. SeenBehind'
      BY <2>1, <3>1 DEF CompleteInv, SeenBehind
    <3>4. ASSUME NEW c \in Clients
          PROVE  {n \in log' : start[c] < n /\ n <= cursor[c]}
                   = {n \in log : start[c] < n /\ n <= cursor[c]}
      BY <2>1, <3>1
    <3>5. NoGap'
      BY <2>1, <3>4 DEF CompleteInv, NoGap
    <3>6. QED BY <3>2, <3>3, <3>5
  <2>7. QED BY <2>3, <2>4, <2>5, <2>6 DEF CompleteInv
<1>3. CASE Publish(e)
  <2>1. /\ UNCHANGED <<dbVars, handlerVars, clientVars>>
        /\ step[e] = "appended" /\ step'[e] = "idle"
        /\ UNCHANGED pending
    BY <1>3 DEF Publish
  <2>2. /\ Published = nextSeq - 1 /\ Published' = nextSeq
        /\ pending[e] = nextSeq /\ nextSeq >= 1
    BY <1>1, <2>1 DEF Published, CompleteInv, LogDense
  <2>3. LogDense'
    BY <1>1, <2>1 DEF CompleteInv, LogDense
  <2>4. \A c \in Clients :
          \/ c \notin subs' /\ buf'[c] = buf[c]
          \/ c \in subs' /\ c \in subs /\ buf'[c] = Append(buf[c], nextSeq)
    BY <1>3, <2>2 DEF Publish, Kept
  <2>5. ASSUME NEW c \in Clients, c \in subs, c \in subs',
               buf'[c] = Append(buf[c], nextSeq)
        PROVE  /\ buf'[c] # <<>>
               /\ \A i \in DOMAIN buf'[c] :
                    /\ buf'[c][i] = buf'[c][1] + i - 1
                    /\ Published' = buf'[c][1] + Len(buf'[c]) - 1
               /\ buf[c] # <<>> => buf'[c][1] = buf[c][1]
               /\ buf[c] = <<>> => buf'[c][1] = nextSeq
    <3> DEFINE b == buf[c]
               g == Append(b, nextSeq)
    <3>1. b \in Seq(Nat) /\ nextSeq \in Nat
      OBVIOUS
    <3>2. /\ g \in Seq(Nat) /\ Len(b) \in Nat
          /\ DOMAIN b = 1..Len(b) /\ DOMAIN g = 1..Len(g) /\ Len(g) = Len(b) + 1
          /\ \A i \in DOMAIN b : g[i] = b[i] /\ b[i] \in Nat
          /\ g[Len(b) + 1] = nextSeq
          /\ g # <<>> /\ (b = <<>> <=> Len(b) = 0)
      BY <3>1
    <3>3. \A i \in DOMAIN b : b[i] = b[1] + i - 1 /\ nextSeq - 1 = b[1] + Len(b) - 1
      BY <2>2, <2>5 DEF CompleteInv, ChannelDense
    <3> HIDE DEF b, g
    <3>4. /\ Len(b) # 0 => 1 \in DOMAIN b /\ g[1] = b[1]
          /\ Len(b) = 0 => g[1] = nextSeq
      <4>1. ASSUME Len(b) # 0 PROVE 1 \in DOMAIN b
        BY <3>2, <4>1
      <4>2. ASSUME Len(b) = 0 PROVE g[1] = nextSeq
        <5>1. Len(b) + 1 = 1
          BY <4>2
        <5>2. QED BY <3>2, <5>1
      <4>3. QED BY <3>2, <4>1, <4>2
    <3>5. \A i \in DOMAIN g : /\ g[i] = g[1] + i - 1
                             /\ nextSeq = g[1] + Len(g) - 1
      <4> SUFFICES ASSUME NEW i \in 1..Len(b) + 1
                   PROVE  /\ g[i] = g[1] + i - 1
                          /\ nextSeq = g[1] + Len(b)
        BY <3>1, <3>2, <3>4
      <4>1. CASE Len(b) = 0
        BY <3>1, <3>2, <3>4, <4>1
      <4>2. CASE Len(b) # 0
        <5>1. b[1] \in Nat /\ g[1] = b[1] /\ nextSeq = g[1] + Len(b)
          <6>1. 1 \in DOMAIN b /\ g[1] = b[1] /\ b[1] \in Nat
            BY <3>2, <3>4, <4>2
          <6>2. nextSeq - 1 = b[1] + Len(b) - 1
            BY <3>3, <6>1
          <6>3. Len(b) \in Nat
            BY <3>2
          <6>4. \A x, y, n \in Nat : n - 1 = x + y - 1 => n = x + y
            OBVIOUS
          <6>5. nextSeq = b[1] + Len(b)
            BY <3>1, <6>1, <6>2, <6>3, <6>4
          <6>6. QED BY <6>1, <6>5
        <5>2. CASE i \in DOMAIN b
          BY <3>2, <3>3, <5>1, <5>2
        <5>3. CASE i = Len(b) + 1
          BY <3>1, <3>2, <5>1, <5>3
        <5>4. QED BY <3>2, <5>1, <5>2, <5>3
      <4>3. QED BY <3>2, <4>1, <4>2
    <3>6. QED BY <2>2, <2>5, <3>2, <3>4, <3>5 DEF b, g
  <2>6. ChannelDense'
    <3>1. ASSUME NEW c \in Clients, NEW i \in DOMAIN buf'[c]
          PROVE  /\ buf'[c][i] = buf'[c][1] + i - 1
                 /\ c \in subs' => Published' = buf'[c][1] + Len(buf'[c]) - 1
      <4>1. CASE c \notin subs' /\ buf'[c] = buf[c]
        BY <3>1, <4>1 DEF CompleteInv, ChannelDense
      <4>2. CASE c \in subs' /\ c \in subs /\ buf'[c] = Append(buf[c], nextSeq)
        BY <2>5, <3>1, <4>2
      <4>3. QED BY <2>4, <4>1, <4>2
    <3>2. QED BY <3>1 DEF ChannelDense
  <2>7. SeamClosed'
    <3>1. \A c \in Clients : \A n : Covered(c, n)' <=> Covered(c, n)
      BY <2>1 DEF Covered
    <3>2. ASSUME NEW c \in Clients, at'[c] \in {"lastBatch", "tail"}
          PROVE  /\ buf'[c] # <<>> => Covered(c, buf'[c][1] - 1)
                 /\ buf'[c] = <<>> /\ c \in subs' => Covered(c, Published')
      <4>1. CASE c \notin subs' /\ buf'[c] = buf[c]
        BY <2>1, <3>2, <4>1 DEF CompleteInv, SeamClosed
      <4>2. CASE c \in subs' /\ c \in subs /\ buf'[c] = Append(buf[c], nextSeq)
        BY <2>1, <2>2, <2>5, <3>2, <4>2 DEF CompleteInv, SeamClosed
      <4>3. QED BY <2>4, <4>1, <4>2
    <3>3. QED BY <2>1, <3>2 DEF SeamClosed, Covered
  <2>8. RowsDense' /\ CursorInLog' /\ SeenBehind' /\ NoGap'
    BY <2>1 DEF CompleteInv, RowsDense, CursorInLog, SeenBehind, NoGap
  <2>9. QED BY <2>3, <2>6, <2>7, <2>8 DEF CompleteInv
<1>4. QED
  BY <1>1, <1>2, <1>3 DEF EmitStep, InsertPostgres, CommitPostgres, AppendFails

\* The end of a handler preserves it.
LEMMA CompleteReturn ==
  ASSUME TypeOK, CompleteInv, NEW c \in Clients, Return(c),
         UNCHANGED <<dbVars, emitVars, clientVars>>
  PROVE  CompleteInv'
<1> USE DEF TypeOK, Return, Unsubscribe, dbVars, emitVars, clientVars, CompleteInv
<1>1. /\ \A d \in Clients : d # c => /\ buf'[d] = buf[d] /\ at'[d] = at[d]
                                   /\ start'[d] = start[d]
                                   /\ cursor'[d] = cursor[d]
                                   /\ rows'[d] = rows[d]
                                   /\ (d \in subs' <=> d \in subs)
      /\ buf'[c] = <<>> /\ at'[c] = "closed" /\ cursor'[c] = 0 /\ rows'[c] = {}
      /\ Published' = Published
  BY DEF Published
<1>2. LogDense'
  BY DEF LogDense
<1>3. ChannelDense' /\ RowsDense' /\ SeamClosed'
  BY <1>1 DEF ChannelDense, RowsDense, SeamClosed, Covered
<1>4. CursorInLog' /\ SeenBehind' /\ NoGap'
  BY <1>1 DEF CursorInLog, SeenBehind, NoGap
<1>5. QED BY <1>2, <1>3, <1>4

\* A step of a handler, or of its client, preserves it.
LEMMA CompleteServe ==
  ASSUME StreamAssumption, TypeOK, SafeInv, CompleteInv, NEW c \in Clients,
         Connect(c) \/ Serve(c) \/ Disturb(c)
  PROVE  CompleteInv'
<1> USE DEF TypeOK, dbVars, emitVars, sseVars, handlerVars, clientVars, envVars
<1>0. Elems(<<>>) = {} /\ DOMAIN <<>> = {}
  BY DEF Elems
<1>1. UNCHANGED <<dbVars, emitVars>> => Published' = Published /\ LogDense'
  BY DEF Published, LogDense, CompleteInv
<1>2. CASE Connect(c)
  <2>1. /\ \A d \in Clients : d # c => /\ at'[d] = at[d]
                                     /\ start'[d] = start[d]
                                     /\ cursor'[d] = cursor[d]
                                     /\ rows'[d] = rows[d]
                                     /\ frames'[d] = frames[d]
        /\ at'[c] = "ready" /\ start'[c] = lastId[c]
        /\ cursor'[c] = Resolve(lastId[c]) /\ rows'[c] = {} /\ frames'[c] = <<>>
        /\ UNCHANGED <<dbVars, emitVars, sseVars, lastId, seen>>
    BY <1>2 DEF Connect
  <2>2. /\ Resolve(lastId[c]) \in Nat /\ Resolve(lastId[c]) <= nextSeq
        /\ lastId[c] \in Int /\ lastId[c] <= Resolve(lastId[c])
        /\ \A n \in log : n \in Nat /\ (n <= Resolve(lastId[c]) => n <= lastId[c])
    <3>1. /\ lastId[c] \in Nat \/ lastId[c] = -1
          /\ lastId[c] <= nextSeq /\ nextSeq \in Nat /\ log = 1..nextSeq
      BY DEF CompleteInv, LogDense, CursorInLog
    <3>2. QED BY <3>1 DEF Resolve
  <2> HIDE DEF TypeOK
  <2>3. ChannelDense' /\ RowsDense' /\ SeamClosed'
    BY <1>1, <2>1
    DEF CompleteInv, ChannelDense, RowsDense, SeamClosed, Covered
  <2>4. CursorInLog'
    BY <2>1, <2>2 DEF CompleteInv, CursorInLog
  <2>5. SeenBehind'
    BY <2>1, <2>2 DEF CompleteInv, SeenBehind
  <2>6. NoGap'
    <3>1. {n \in log : start'[c] < n /\ n <= cursor'[c]} = {}
      <4>1. ASSUME NEW n \in log PROVE ~(lastId[c] < n /\ n <= Resolve(lastId[c]))
        BY <2>2
      <4>2. QED BY <2>1, <4>1
    <3>2. QED BY <1>0, <2>1, <3>1 DEF CompleteInv, NoGap
  <2>7. QED BY <1>1, <2>1, <2>3, <2>4, <2>5, <2>6 DEF CompleteInv
<1>3. CASE Subscribe(c)
  <2>1. /\ \A d \in Clients : d # c => /\ at'[d] = at[d] /\ buf'[d] = buf[d]
                                     /\ (d \in subs' <=> d \in subs)
        /\ at[c] = "ready" /\ at'[c] = "subscribed" /\ buf'[c] = <<>>
        /\ UNCHANGED <<dbVars, emitVars, start, cursor, rows, clientVars>>
    BY <1>3 DEF Subscribe
  <2>2. ChannelDense'
    <3>1. \A d \in Clients : d # c => /\ DOMAIN buf'[d] = DOMAIN buf[d]
                                   /\ buf'[d] = buf[d]
                                   /\ (d \in subs' <=> d \in subs)
      BY <2>1
    <3>2. DOMAIN buf'[c] = {}
      BY <1>0, <2>1
    <3>3. Published' = Published
      BY <1>1, <2>1
    <3> HIDE DEF TypeOK
    <3>4. QED BY <3>1, <3>2, <3>3 DEF CompleteInv, ChannelDense
  <2>3. RowsDense' /\ SeamClosed'
    BY <1>1, <2>1 DEF CompleteInv, RowsDense, SeamClosed, Covered
  <2>4. CursorInLog' /\ SeenBehind' /\ NoGap'
    BY <2>1 DEF CompleteInv, CursorInLog, SeenBehind, NoGap
  <2>5. QED BY <1>1, <2>1, <2>2, <2>3, <2>4 DEF CompleteInv
<1>4. CASE Hello(c) \/ Leave(c)
  <2>1. /\ UNCHANGED <<dbVars, emitVars, sseVars, start, cursor, rows, frames, seen>>
        /\ \A d \in Clients : \/ at'[d] = at[d]
                              \/ at'[d] = "replay" /\ at[d] = "subscribed"
                              \/ at'[d] = "gone"
        /\ \A d \in Clients : lastId'[d] = lastId[d] \/ lastId'[d] = 0
    BY <1>4 DEF Hello, Leave
  <2>2. \A n \in log : n \in Nat /\ 1 <= n
    BY DEF CompleteInv, LogDense
  <2>3. ChannelDense' /\ RowsDense' /\ SeamClosed'
    BY <1>1, <2>1 DEF CompleteInv, ChannelDense, RowsDense, SeamClosed, Covered
  <2>4. nextSeq \in Nat /\ \A d \in Clients : at'[d] \in Serving => at[d] \in Serving
    BY <2>1
  <2> HIDE DEF TypeOK
  <2>5. NoGap'
    BY <2>1, <2>4 DEF CompleteInv, NoGap
  <2>6. CursorInLog'
    BY <2>1, <2>4 DEF CompleteInv, CursorInLog
  <2>7. SeenBehind'
    BY <2>1, <2>2, <2>4 DEF CompleteInv, SeenBehind
  <2>8. QED BY <1>1, <2>1, <2>3, <2>5, <2>6, <2>7 DEF CompleteInv
<1>5. CASE ReplayQuery(c)
  <2>1. PICK R \in SinceSeq(cursor[c], ReplayBatch) :
          /\ rows' = [rows EXCEPT ![c] = R]
          /\ at' = [at EXCEPT ![c] = AfterBatch(R)]
    BY <1>5 DEF ReplayQuery
  <2>2. /\ UNCHANGED <<dbVars, emitVars, sseVars, start, cursor, clientVars>>
        /\ at[c] = "replay"
    BY <1>5 DEF ReplayQuery
  <2>3. /\ \A d \in Clients : d # c => rows'[d] = rows[d] /\ at'[d] = at[d]
        /\ rows'[c] = R /\ at'[c] = AfterBatch(R)
    BY <2>1
  <2>4. \A n \in R : \A m \in log : cursor[c] < m /\ m < n => m \in R
    <3>1. \A n \in R : \A m \in After(cursor[c]) \ R : n < m
      BY <2>1 DEF SinceSeq
    <3>2. R \subseteq log /\ log \subseteq Nat
      BY <2>1 DEF SinceSeq, After
    <3>3. QED BY <3>1, <3>2 DEF After
  <2>5. AfterBatch(R) \in {"tail", "lastBatch"} => R = After(cursor[c])
    <3>1. CASE R = {}
      <4>1. Cardinality(R) < ReplayBatch
        BY <3>1, FS_EmptySet DEF StreamAssumption
      <4>2. QED BY <2>1, <4>1 DEF SinceSeq
    <3>2. CASE R # {}
      BY <2>1, <3>2 DEF SinceSeq, AfterBatch
    <3>3. QED BY <3>1, <3>2
  <2>6. AfterBatch(R) \in {"tail", "lastBatch", "writing"}
        /\ (AfterBatch(R) = "tail" => R = {})
    BY DEF AfterBatch
  <2>7. ChannelDense'
    BY <1>1, <2>2 DEF CompleteInv, ChannelDense
  <2>8. RowsDense'
    BY <2>2, <2>3, <2>4, <2>6 DEF CompleteInv, RowsDense
  <2>9. SeamClosed'
    <3>1. \A d \in Clients : d # c => \A n : Covered(d, n)' <=> Covered(d, n)
      BY <2>2, <2>3 DEF Covered
    <3>2. ASSUME AfterBatch(R) \in {"tail", "lastBatch"}, NEW n \in 0..nextSeq
          PROVE  n <= cursor[c] \/ n \in R
      <4>1. cursor[c] \in Nat /\ log = 1..nextSeq /\ nextSeq \in Nat
        BY DEF CompleteInv, LogDense
      <4>2. n > cursor[c] => n \in log
        BY <4>1
      <4>3. R = After(cursor[c])
        BY <2>5, <3>2
      <4>4. QED BY <4>1, <4>2, <4>3 DEF After
    <3>3. buf[c] # <<>> => buf[c][1] - 1 \in 0..nextSeq
      <4>1. buf[c] # <<>> => buf[c][1] \in log
        BY TailElems DEF SafeInv, Durable
      <4>2. QED BY <4>1 DEF CompleteInv, LogDense
    <3>4. Published \in 0..nextSeq
      BY PublishedRange DEF CompleteInv
    <3>5. ASSUME NEW d \in Clients, at'[d] \in {"lastBatch", "tail"}
          PROVE  /\ buf'[d] # <<>> => Covered(d, buf[d][1] - 1)'
                 /\ buf'[d] = <<>> /\ d \in subs' => Covered(d, Published)'
      <4>1. CASE d = c
        BY <1>1, <2>2, <2>3, <3>2, <3>3, <3>4, <3>5, <4>1 DEF Covered
      <4>2. CASE d # c
        BY <1>1, <2>2, <2>3, <3>5, <4>2 DEF CompleteInv, SeamClosed, Covered
      <4>3. QED BY <4>1, <4>2
    <3>6. QED BY <3>5 DEF SeamClosed
  <2>10. CursorInLog' /\ SeenBehind' /\ NoGap'
    <3>1. \A d \in Clients : at'[d] \in Serving => at[d] \in Serving
      BY <2>2, <2>3
    <3>2. QED BY <2>2, <3>1 DEF CompleteInv, CursorInLog, SeenBehind, NoGap
  <2>11. QED BY <1>1, <2>2, <2>7, <2>8, <2>9, <2>10 DEF CompleteInv
<1>6. CASE WriteRow(c)
  <2>1. PICK n \in rows[c] :
          /\ \A m \in rows[c] : n <= m
          /\ Deliver(c, n)
          /\ rows' = [rows EXCEPT ![c] = @ \ {n}]
          /\ at' = IF rows[c] # {n} THEN at
                   ELSE [at EXCEPT ![c] = IF @ = "writing" THEN "replay"
                                                          ELSE "tail"]
    BY <1>6 DEF WriteRow
  <2>2. /\ UNCHANGED <<dbVars, emitVars, sseVars, start>>
        /\ at[c] \in {"writing", "lastBatch"}
    BY <1>6 DEF WriteRow
  <2>3. /\ n \in log /\ n \in Nat /\ cursor[c] < n /\ at[c] \in Serving
        /\ cursor[c] \in Nat /\ rows[c] \subseteq Nat /\ log \subseteq Nat
    BY <2>2 DEF SafeInv, InFlightLogged, CursorSplits
  <2>4. /\ \A d \in Clients : d # c => /\ rows'[d] = rows[d] /\ at'[d] = at[d]
                                     /\ cursor'[d] = cursor[d]
        /\ rows'[c] = rows[c] \ {n} /\ cursor'[c] = n
        /\ at'[c] = IF rows[c] # {n} THEN at[c]
                    ELSE IF at[c] = "writing" THEN "replay" ELSE "tail"
    BY <2>1 DEF Deliver
  <2>5. NoGap' /\ SeenBehind' /\ CursorInLog'
    <3>1. \A m \in log : ~(cursor[c] < m /\ m < n)
      <4>1. \A m \in log : cursor[c] < m /\ m < n => m \in rows[c]
        BY DEF CompleteInv, RowsDense
      <4>2. QED BY <2>1, <2>3, <4>1
    <3>2. \A d \in Clients : at'[d] \in Serving => at[d] \in Serving
      BY <2>3, <2>4
    <3>3. QED BY <2>1, <2>2, <2>3, <3>1, <3>2, DeliverComplete
  <2>6. ChannelDense'
    BY <1>1, <2>2 DEF CompleteInv, ChannelDense
  <2>7. RowsDense'
    <3>1. \A i \in rows'[c] : \A m \in log : n < m /\ m < i => m \in rows'[c]
      BY <2>3, <2>4 DEF CompleteInv, RowsDense
    <3>2. at'[c] \in {"ready", "subscribed", "replay", "tail"} => rows'[c] = {}
      BY <2>2, <2>4
    <3>3. QED BY <2>2, <2>4, <3>1, <3>2 DEF CompleteInv, RowsDense
  <2>8. SeamClosed'
    <3>1. ASSUME NEW m \in Int, Covered(c, m) PROVE m <= n \/ m \in rows'[c]
      BY <2>3, <2>4, <3>1 DEF Covered
    <3>2. buf[c] # <<>> => buf[c][1] - 1 \in Int
      OBVIOUS
    <3>3. Published \in Int
      BY PublishedRange DEF CompleteInv
    <3>4. at'[c] \in {"lastBatch", "tail"} => at[c] = "lastBatch"
      BY <2>2, <2>4
    <3>5. ASSUME NEW d \in Clients, at'[d] \in {"lastBatch", "tail"}
          PROVE  /\ buf'[d] # <<>> => Covered(d, buf[d][1] - 1)'
                 /\ buf'[d] = <<>> /\ d \in subs' => Covered(d, Published)'
      <4>1. CASE d = c
        <5>1. /\ buf[c] # <<>> => Covered(c, buf[c][1] - 1)
              /\ buf[c] = <<>> /\ c \in subs => Covered(c, Published)
          BY <3>4, <3>5, <4>1 DEF CompleteInv, SeamClosed
        <5>2. /\ buf[c] # <<>> => buf[c][1] - 1 <= n \/ buf[c][1] - 1 \in rows'[c]
              /\ buf[c] = <<>> /\ c \in subs => Published <= n \/ Published \in rows'[c]
          BY <3>1, <3>2, <3>3, <5>1
        <5>3. QED BY <1>1, <2>2, <2>4, <4>1, <5>2 DEF Covered
      <4>2. CASE d # c
        BY <1>1, <2>2, <2>4, <3>5, <4>2 DEF CompleteInv, SeamClosed, Covered
      <4>3. QED BY <4>1, <4>2
    <3>6. QED BY <3>5 DEF SeamClosed
  <2>9. QED BY <1>1, <2>2, <2>5, <2>6, <2>7, <2>8 DEF CompleteInv
<1>7. CASE LiveEvent(c)
  <2> DEFINE b == buf[c]
             g == Tail(b)
             x == Head(b)
  <2>1. /\ b \in Seq(Nat) /\ b # <<>> /\ at[c] = "tail" /\ rows[c] = {}
        /\ UNCHANGED <<dbVars, emitVars, subs, closed, at, start, rows>>
        /\ \A d \in Clients : d # c => buf'[d] = buf[d]
        /\ buf'[c] = g
    BY <1>7 DEF LiveEvent, CompleteInv, RowsDense
  <2>2. /\ x \in Nat /\ x = b[1] /\ 1 \in DOMAIN b /\ x \in Elems(b)
        /\ g \in Seq(Nat) /\ Len(b) \in Nat /\ Len(g) = Len(b) - 1
        /\ \A i \in DOMAIN g : i + 1 \in DOMAIN b /\ g[i] = b[i + 1]
        /\ Len(g) \in Nat /\ DOMAIN g = 1..Len(g) /\ (g = <<>> <=> Len(g) = 0)
    <3> HIDE DEF TypeOK
    <3>1. /\ x \in Nat /\ x = b[1] /\ 1 \in DOMAIN b /\ x \in Elems(b)
          /\ g \in Seq(Nat) /\ Len(g) = Len(b) - 1
          /\ \A i \in DOMAIN g : i + 1 \in DOMAIN b /\ g[i] = b[i + 1]
      BY <2>1, TailElems
    <3> HIDE DEF g, b, x
    <3>2. Len(b) \in Nat
      BY <2>1
    <3>3. Len(g) \in Nat /\ DOMAIN g = 1..Len(g) /\ (g = <<>> <=> Len(g) = 0)
      BY <3>1
    <3>4. QED BY <3>1, <3>2, <3>3
  <2>3. \A i \in DOMAIN b : b[i] = x + i - 1
    BY <2>2 DEF CompleteInv, ChannelDense
  <2>4. c \in subs => Published = x + Len(b) - 1
    BY <2>2 DEF CompleteInv, ChannelDense
  <2>5. x - 1 <= cursor[c]
    BY <2>1, <2>2 DEF CompleteInv, SeamClosed, Covered
  <2>6. x \in log
    BY <2>2 DEF SafeInv, Durable
  <2>7. log = 1..nextSeq /\ nextSeq \in Nat /\ cursor[c] \in Nat
    BY DEF CompleteInv, LogDense
  <2>8. /\ NoGap' /\ SeenBehind' /\ CursorInLog'
        /\ x <= cursor'[c]
        /\ \A d \in Clients : d # c => cursor'[d] = cursor[d]
    <3>1. CASE x <= cursor[c] /\ UNCHANGED <<cursor, clientVars>>
      BY <2>1, <3>1 DEF CompleteInv, NoGap, SeenBehind, CursorInLog
    <3>2. CASE x > cursor[c] /\ Deliver(c, x)
      <4>1. cursor[c] < x /\ \A m \in log : ~(cursor[c] < m /\ m < x)
        BY <2>2, <2>5, <2>7, <3>2
      <4>2. NoGap' /\ SeenBehind' /\ CursorInLog'
        BY <2>1, <2>6, <3>2, <4>1, DeliverComplete
      <4>3. cursor' = [cursor EXCEPT ![c] = x]
        BY <3>2 DEF Deliver
      <4>4. QED BY <2>2, <4>2, <4>3
    <3>3. QED BY <1>7, <3>1, <3>2 DEF LiveEvent
  <2>9. Published' = Published
    BY <1>1, <2>1
  <2> HIDE DEF b, g, x
  <2>10. \A i \in DOMAIN g : g[i] = x + i
    BY <2>2, <2>3
  <2>11. g # <<>> => g[1] = x + 1 /\ 1 \in DOMAIN g
    <3>1. g # <<>> => 1 \in DOMAIN g
      BY <2>2
    <3>2. QED BY <2>10, <3>1
  <2>12. ChannelDense'
    <3>1. ASSUME NEW d \in Clients, NEW i \in DOMAIN buf'[d]
          PROVE  /\ buf'[d][i] = buf'[d][1] + i - 1
                 /\ d \in subs' => Published' = buf'[d][1] + Len(buf'[d]) - 1
      <4>1. CASE d # c
        BY <2>1, <2>9, <3>1, <4>1 DEF CompleteInv, ChannelDense
      <4>2. CASE d = c
        <5>1. i \in DOMAIN g /\ g # <<>> /\ i \in Nat
          <6>1. i \in DOMAIN g
            BY <2>1, <3>1, <4>2
          <6>2. QED BY <2>2, <6>1
        <5>2. g[i] = g[1] + i - 1
          BY <2>2, <2>10, <2>11, <5>1
        <5>3. c \in subs => Published = g[1] + Len(g) - 1
          BY <2>2, <2>4, <2>11, <5>1
        <5>4. QED BY <2>1, <2>9, <4>2, <5>2, <5>3
      <4>3. QED BY <4>1, <4>2
    <3>2. QED BY <3>1 DEF ChannelDense
  <2>13. RowsDense'
    <3>1. rows'[c] = {}
      BY <2>1
    <3>2. QED BY <2>1, <2>8, <3>1 DEF CompleteInv, RowsDense
  <2>14. SeamClosed'
    <3>1. cursor'[c] \in Int
      BY <1>7, <2>2, <2>7 DEF LiveEvent, Deliver, x, b
    <3>2. ASSUME NEW d \in Clients, at'[d] \in {"lastBatch", "tail"}
          PROVE  /\ buf'[d] # <<>> => Covered(d, buf[d][1] - 1)'
                 /\ buf'[d] = <<>> /\ d \in subs' => Covered(d, Published)'
      <4>1. CASE d = c
        <5>1. g # <<>> => g[1] - 1 <= cursor'[c]
          <6>1. x \in Nat /\ x <= cursor'[c] /\ (g # <<>> => g[1] = x + 1)
            BY <2>2, <2>8, <2>11
          <6>2. QED BY <3>1, <6>1
        <5>2. g = <<>> /\ c \in subs => Published <= cursor'[c]
          <6>1. g = <<>> => Len(b) = 1
            BY <2>2
          <6>2. ASSUME g = <<>>, c \in subs PROVE Published = x
            <7>1. Len(b) = 1 /\ Published = x + Len(b) - 1 /\ x \in Nat
              BY <2>2, <2>4, <6>1, <6>2
            <7>2. QED BY <7>1
          <6>3. QED BY <2>8, <6>2
        <5>3. QED BY <2>1, <2>9, <4>1, <5>1, <5>2 DEF Covered
      <4>2. CASE d # c
        BY <2>1, <2>8, <2>9, <3>2, <4>2 DEF CompleteInv, SeamClosed, Covered
      <4>3. QED BY <4>1, <4>2
    <3>3. QED BY <3>2 DEF SeamClosed
  <2>15. QED BY <1>1, <2>1, <2>8, <2>12, <2>13, <2>14 DEF CompleteInv
<1>8. CASE Lagged(c) \/ HandlerExit(c) \/ ReplayFails(c)
  BY <1>8, CompleteReturn DEF Lagged, HandlerExit, ReplayFails
<1>9. QED
  BY <1>2, <1>3, <1>4, <1>5, <1>6, <1>7, <1>8 DEF Serve, Disturb

\* Every step of Next preserves the strengthened invariant.
LEMMA CompleteStep ==
  ASSUME StreamAssumption, Alone
  PROVE  TypeOK /\ SafeInv /\ CompleteInv /\ [Next]_vars => CompleteInv'
<1> SUFFICES ASSUME TypeOK, SafeInv, CompleteInv, [Next]_vars
             PROVE  CompleteInv'
  OBVIOUS
<1>1. CASE \E e \in Emitters : EmitStep(e)
  BY <1>1, CompleteEmit
<1>2. CASE \E c \in Clients : Connect(c) \/ Serve(c) \/ Disturb(c)
  BY <1>2, CompleteServe
<1>3. CASE Restart
  <2>1. /\ \A c \in Clients : /\ buf'[c] = <<>> /\ at'[c] = "closed"
                             /\ cursor'[c] = 0 /\ rows'[c] = {}
        /\ \A e \in Emitters : step'[e] = "idle"
        /\ UNCHANGED <<log, nextSeq, frames, lastId, seen>>
    BY <1>3 DEF Restart, dbVars, clientVars
  <2>2. LogDense' /\ ChannelDense' /\ RowsDense' /\ SeamClosed'
    BY <2>1 DEF CompleteInv, LogDense, ChannelDense, RowsDense, SeamClosed
  <2>3. CursorInLog' /\ SeenBehind' /\ NoGap'
    BY <2>1 DEF TypeOK, CompleteInv, CursorInLog, SeenBehind, NoGap, Serving
  <2>4. QED BY <2>2, <2>3 DEF CompleteInv
<1>4. CASE UNCHANGED vars
  BY <1>4 DEF vars, CompleteInv, LogDense, ChannelDense, RowsDense, SeamClosed,
              Covered, Published, CursorInLog, SeenBehind, NoGap
<1>5. QED BY <1>1, <1>2, <1>3, <1>4 DEF Next

\* The strengthened invariant holds in every state one emitter can reach.
LEMMA Complete ==
  ASSUME Alone PROVE Spec => []CompleteInv
<1>1. TypeOK /\ SafeInv /\ CompleteInv /\ [Next]_vars => CompleteInv'
  BY StreamAssumption, CompleteStep
<1>2. QED
  BY <1>1, TypeCorrect, Safe, CompleteInit, PTL DEF Spec

\* While one goroutine emits, into SQLite, a connection carries every event
\* between the cursor it resumed from and the id it has reached: for any
\* buffer, any batch size, any number of clients, crashes and reconnects.
THEOREM NoGapOneEmitter ==
  ASSUME Alone PROVE Spec => []NoGap
<1>1. CompleteInv => NoGap
  BY DEF CompleteInv
<1>2. QED BY <1>1, Complete, PTL

\* Under the same condition, resuming with the last id never loses an event.
THEOREM ResumeLosesNothingOneEmitter ==
  ASSUME Alone PROVE Spec => []ResumeLosesNothing
<1>1. CompleteInv => ResumeLosesNothing
  BY DEF CompleteInv, SeenBehind, ResumeLosesNothing
<1>2. QED BY <1>1, Complete, PTL

-----------------------------------------------------------------------------
(* The stream of one emitter implements the feed.                          *)

\* While a handler serves it, the id the client holds is the cursor, or 0 if
\* the synthetic frame was the last one with an id.
IdFollows ==
  \A c \in Clients : at[c] \in Serving =>
    Resolve(lastId[c]) = cursor[c] \/ Resolve(lastId[c]) = 0

\* The id and the cursor are set together.
LEMMA IdFollowsInv == Spec => []IdFollows
<1>1. Init => IdFollows
  BY DEF Init, IdFollows
<1>2. TypeOK /\ IdFollows /\ [Next]_vars => IdFollows'
  <2> SUFFICES ASSUME TypeOK, IdFollows, [Next]_vars, NEW d \in Clients,
                      at'[d] \in Serving
               PROVE  Resolve(lastId'[d]) = cursor'[d] \/ Resolve(lastId'[d]) = 0
    BY DEF IdFollows, Resolve
  <2>1. CASE UNCHANGED <<at, cursor, lastId>>
    BY <2>1 DEF IdFollows
  <2>2. ASSUME NEW c \in Clients, Connect(c) \/ Serve(c) \/ Disturb(c)
        PROVE  Resolve(lastId'[d]) = cursor'[d] \/ Resolve(lastId'[d]) = 0
    <3> USE DEF TypeOK, clientVars, handlerVars, Resolve
    <3>1. CASE Connect(c)
      BY <3>1 DEF Connect, IdFollows
    <3>2. CASE Subscribe(c)
      BY <3>2 DEF Subscribe, IdFollows
    <3>3. CASE Hello(c)
      BY <3>3 DEF Hello, IdFollows
    <3>4. CASE ReplayQuery(c)
      BY <3>4 DEF ReplayQuery, IdFollows
    <3>5. CASE WriteRow(c)
      <4>1. PICK n \in rows[c] : Deliver(c, n)
        BY <3>5 DEF WriteRow
      <4>2. /\ d # c => at'[d] = at[d] /\ lastId'[d] = lastId[d] /\ cursor'[d] = cursor[d]
            /\ d = c => lastId'[d] = n /\ cursor'[d] = n
        BY <3>5, <4>1 DEF WriteRow, Deliver
      <4>3. n \in Nat
        BY <4>1
      <4>4. QED BY <4>2, <4>3 DEF IdFollows
    <3>6. CASE LiveEvent(c)
      <4>1. CASE UNCHANGED <<at, cursor, lastId>>
        BY <4>1 DEF IdFollows
      <4>2. CASE Deliver(c, Head(buf[c]))
        <5>1. /\ d # c => /\ at'[d] = at[d] /\ lastId'[d] = lastId[d]
                          /\ cursor'[d] = cursor[d]
              /\ d = c => lastId'[d] = cursor'[d]
          BY <3>6, <4>2 DEF LiveEvent, Deliver
        <5>2. QED BY <5>1 DEF IdFollows
      <4>3. QED BY <3>6, <4>1, <4>2 DEF LiveEvent
    <3>7. CASE Lagged(c) \/ HandlerExit(c) \/ ReplayFails(c)
      BY <3>7 DEF Lagged, HandlerExit, ReplayFails, Return, IdFollows
    <3>8. CASE Leave(c)
      BY <3>8 DEF Leave, IdFollows
    <3>9. QED
      BY <2>2, <3>1, <3>2, <3>3, <3>4, <3>5, <3>6, <3>7, <3>8 DEF Serve, Disturb
  <2>3. CASE \E e \in Emitters : EmitStep(e)
    BY <2>1, <2>3 DEF EmitStep, AppendSqlite, InsertPostgres, CommitPostgres,
                      AppendFails, Publish, handlerVars, clientVars
  <2>4. CASE Restart
    BY <2>4 DEF Restart
  <2>5. QED BY <2>1, <2>2, <2>3, <2>4 DEF Next, vars
<1>3. QED BY <1>1, <1>2, TypeCorrect, PTL DEF Spec

\* A step that leaves log and seen alone and takes no client anywhere but to
\* the beginning is a rewind, or a stutter, of the feed.
LEMMA MapsToRewind ==
  ASSUME UNCHANGED <<log, seen>>,
         \A d \in Clients : Position(d)' = Position(d) \/ Position(d)' = 0
  PROVE  [Feed!FeedNext]_(Feed!feedVars)
<1> DEFINE C == {d \in Clients : Position(d)' = 0}
<1>1. [d \in Clients |-> Position(d)]'
        = [d \in Clients |-> IF d \in C THEN 0 ELSE [x \in Clients |-> Position(x)][d]]
  OBVIOUS
<1>2. C \in SUBSET Clients
  OBVIOUS
<1> HIDE DEF C
<1>3. Feed!Rewind(C)
  BY <1>1 DEF Feed!Rewind
<1>4. QED BY <1>2, <1>3 DEF Feed!FeedNext

\* A frame for the event that follows the cursor is a receive of the feed.
LEMMA MapsToReceive ==
  ASSUME TypeOK, NEW c \in Clients, NEW n \in log, at[c] \in Serving,
         cursor[c] < n, \A m \in log : ~(cursor[c] < m /\ m < n),
         Deliver(c, n), UNCHANGED log,
         \A d \in Clients : at'[d] \in Serving <=> at[d] \in Serving
  PROVE  [Feed!FeedNext]_(Feed!feedVars)
<1>1. /\ \A d \in Clients : d # c => Position(d)' = Position(d)
      /\ Position(c) = cursor[c] /\ Position(c)' = n
  BY DEF Deliver, Position, TypeOK, Resolve
<1> DEFINE pos == [d \in Clients |-> Position(d)]
<1>2. pos' = [pos EXCEPT ![c] = n] /\ pos[c] = cursor[c]
  BY <1>1
<1>3. seen' = [seen EXCEPT ![c] = @ \cup {n}]
  BY DEF Deliver
<1> HIDE DEF pos
<1>4. Feed!Receive(c, n)
  BY <1>2, <1>3 DEF Feed!Receive, pos
<1>5. QED BY <1>4 DEF Feed!FeedNext

\* Every step of the stream is a step of the feed, or a stutter.
LEMMA FeedStep ==
  ASSUME StreamAssumption, Alone, TypeOK, SafeInv, CompleteInv, IdFollows,
         [Next]_vars
  PROVE  [Feed!FeedNext]_(Feed!feedVars)
<1>1. ASSUME NEW e \in Emitters, EmitStep(e)
      PROVE  [Feed!FeedNext]_(Feed!feedVars)
  <2>1. UNCHANGED <<at, cursor, lastId, seen>>
    BY <1>1 DEF EmitStep, AppendSqlite, InsertPostgres, CommitPostgres,
                AppendFails, Publish, handlerVars, clientVars
  <2>2. \A d \in Clients : Position(d)' = Position(d)
    BY <2>1 DEF Position, Resolve
  <2>3. CASE AppendSqlite(e)
    <3>1. /\ log = 1..nextSeq /\ nextSeq \in Nat /\ nextSeq < MaxSeq
          /\ log' = log \cup {nextSeq + 1}
      BY <2>3 DEF AppendSqlite, CompleteInv, LogDense, TypeOK
    <3>2. nextSeq + 1 \in 1..MaxSeq /\ \A m \in log : m < nextSeq + 1
      BY <3>1 DEF StreamAssumption
    <3>3. Feed!Record(nextSeq + 1)
      BY <2>1, <2>2, <3>1, <3>2 DEF Feed!Record
    <3>4. QED BY <3>2, <3>3 DEF Feed!FeedNext
  <2>4. CASE Publish(e)
    BY <2>1, <2>2, <2>4, MapsToRewind DEF Publish, dbVars
  <2>5. QED
    BY <1>1, <2>3, <2>4 DEF EmitStep, InsertPostgres, CommitPostgres,
       AppendFails, CompleteInv, LogDense, Alone
<1>2. ASSUME NEW c \in Clients, Connect(c) \/ Serve(c) \/ Disturb(c)
      PROVE  [Feed!FeedNext]_(Feed!feedVars)
  <2> USE DEF dbVars, clientVars, handlerVars
  <2>1. CASE Connect(c) \/ Subscribe(c) \/ Hello(c) \/ ReplayQuery(c)
    <3>1. UNCHANGED <<log, seen>>
      BY <2>1 DEF Connect, Subscribe, Hello, ReplayQuery
    <3>2. \A d \in Clients : Position(d)' = Position(d)
      <4> USE DEF Position, TypeOK, Resolve
      <4>1. CASE Connect(c)
        BY <4>1 DEF Connect
      <4>2. CASE Subscribe(c)
        BY <4>2 DEF Subscribe
      <4>3. CASE Hello(c)
        BY <4>3 DEF Hello
      <4>4. CASE ReplayQuery(c)
        BY <4>4 DEF ReplayQuery, AfterBatch
      <4>5. QED BY <2>1, <4>1, <4>2, <4>3, <4>4
    <3>3. QED BY <3>1, <3>2, MapsToRewind
  <2>2. CASE WriteRow(c)
    <3>1. PICK n \in rows[c] :
            /\ \A m \in rows[c] : n <= m
            /\ Deliver(c, n)
            /\ at' = IF rows[c] # {n} THEN at
                     ELSE [at EXCEPT ![c] = IF @ = "writing" THEN "replay"
                                                            ELSE "tail"]
      BY <2>2 DEF WriteRow
    <3>2. UNCHANGED log /\ at[c] \in {"writing", "lastBatch"}
      BY <2>2 DEF WriteRow
    <3>3. /\ n \in log /\ cursor[c] < n /\ at[c] \in Serving
          /\ rows[c] \subseteq Nat /\ log \subseteq Nat
      BY <3>2 DEF SafeInv, InFlightLogged, CursorSplits, TypeOK
    <3>4. \A m \in log : ~(cursor[c] < m /\ m < n)
      <4>1. \A m \in log : cursor[c] < m /\ m < n => m \in rows[c]
        BY DEF CompleteInv, RowsDense
      <4>2. QED BY <3>1, <3>3, <4>1
    <3>5. \A d \in Clients : at'[d] \in Serving <=> at[d] \in Serving
      BY <3>1, <3>2 DEF TypeOK
    <3>6. QED BY <3>1, <3>2, <3>3, <3>4, <3>5, MapsToReceive
  <2>3. CASE LiveEvent(c)
    <3>1. UNCHANGED <<log, at>> /\ at[c] = "tail" /\ buf[c] \in Seq(Nat) /\ buf[c] # <<>>
      BY <2>3 DEF LiveEvent, TypeOK
    <3>2. CASE UNCHANGED <<cursor, clientVars>>
      BY <3>1, <3>2, MapsToRewind DEF Position, Resolve
    <3>3. CASE Head(buf[c]) > cursor[c] /\ Deliver(c, Head(buf[c]))
      <4>1. /\ Head(buf[c]) \in log /\ Head(buf[c]) \in Nat
            /\ Head(buf[c]) = buf[c][1]
        BY <3>1, TailElems DEF SafeInv, Durable
      <4>2. Head(buf[c]) - 1 <= cursor[c] /\ cursor[c] \in Nat /\ log \subseteq Nat
        BY <3>1, <4>1 DEF SafeInv, CursorSplits, CompleteInv, SeamClosed,
                          Covered, TypeOK
      <4>3. \A m \in log : ~(cursor[c] < m /\ m < Head(buf[c]))
        BY <4>1, <4>2
      <4>4. QED BY <3>1, <3>3, <4>1, <4>2, <4>3, MapsToReceive
    <3>4. QED BY <2>3, <3>2, <3>3 DEF LiveEvent
  <2>4. CASE Leave(c) \/ Lagged(c) \/ HandlerExit(c) \/ ReplayFails(c)
    <3>1. /\ UNCHANGED <<log, seen, lastId>> /\ at'[c] \in {"gone", "closed"}
          /\ \A d \in Clients : d # c => at'[d] = at[d] /\ cursor'[d] = cursor[d]
      BY <2>4 DEF Leave, Lagged, HandlerExit, ReplayFails, Return, TypeOK
    <3>2. \A d \in Clients : Position(d)' = Position(d) \/ Position(d)' = 0
      BY <3>1 DEF Position, IdFollows, Resolve
    <3>3. QED BY <3>1, <3>2, MapsToRewind
  <2>5. QED
    BY <1>2, <2>1, <2>2, <2>3, <2>4 DEF Serve, Disturb
<1>3. CASE Restart
  <2>1. UNCHANGED <<log, seen, lastId>> /\ \A d \in Clients : at'[d] = "closed"
    BY <1>3 DEF Restart, dbVars, clientVars
  <2>2. \A d \in Clients : Position(d)' = Position(d) \/ Position(d)' = 0
    BY <2>1 DEF Position, IdFollows, Resolve
  <2>3. QED BY <2>1, <2>2, MapsToRewind
<1>4. CASE UNCHANGED vars
  BY <1>4, MapsToRewind DEF vars, Position, Resolve
<1>5. QED BY <1>1, <1>2, <1>3, <1>4 DEF Next

\* While one goroutine emits, into SQLite, the whole machinery of emitter,
\* broadcaster and handler implements the abstract feed.
THEOREM StreamImplementsFeed ==
  ASSUME Alone PROVE Spec => ImplementsFeed
<1>1. Init => Feed!FeedInit
  BY DEF Init, Feed!FeedInit, Position, Resolve
<1>2. TypeOK /\ SafeInv /\ CompleteInv /\ IdFollows /\ [Next]_vars
        => [Feed!FeedNext]_(Feed!feedVars)
  BY StreamAssumption, FeedStep
<1>3. QED
  BY <1>1, <1>2, TypeCorrect, Safe, Complete, IdFollowsInv, PTL
     DEF Spec, ImplementsFeed, Feed!FeedSpec

-----------------------------------------------------------------------------
(* Where a client resumes.                                                 *)

\* Nothing has been written on a connection before the synthetic frame.
HelloFirst ==
  \A c \in Clients : at[c] \in {"ready", "subscribed"} => frames[c] = <<>>

\* Every frame with an id comes after it.
LEMMA HelloFirstInv == Spec => []HelloFirst
<1>1. Init => HelloFirst
  BY DEF Init, HelloFirst
<1>2. TypeOK /\ HelloFirst /\ [Next]_vars => HelloFirst'
  <2> SUFFICES ASSUME TypeOK, HelloFirst, [Next]_vars, NEW d \in Clients,
                      at'[d] \in {"ready", "subscribed"}
               PROVE  frames'[d] = <<>>
    BY DEF HelloFirst
  <2>1. CASE UNCHANGED <<at, frames>>
    BY <2>1 DEF HelloFirst
  <2>2. ASSUME NEW c \in Clients, Connect(c) \/ Serve(c) \/ Disturb(c)
        PROVE  frames'[d] = <<>>
    <3> USE DEF TypeOK, clientVars, handlerVars
    <3>1. CASE Connect(c) \/ Subscribe(c) \/ Hello(c)
      BY <3>1 DEF Connect, Subscribe, Hello, HelloFirst
    <3>2. CASE ReplayQuery(c)
      BY <3>2 DEF ReplayQuery, AfterBatch, HelloFirst
    <3>3. CASE WriteRow(c)
      <4>1. /\ at[c] \in {"writing", "lastBatch"}
            /\ at'[c] \in {"writing", "lastBatch", "replay", "tail"}
            /\ d # c => at'[d] = at[d] /\ frames'[d] = frames[d]
        BY <3>3 DEF WriteRow, Deliver
      <4>2. QED BY <4>1 DEF HelloFirst
    <3>4. CASE LiveEvent(c)
      <4>1. /\ at[c] = "tail" /\ at' = at
            /\ d # c => frames'[d] = frames[d]
        BY <3>4 DEF LiveEvent, Deliver
      <4>2. QED BY <4>1 DEF HelloFirst
    <3>5. CASE Lagged(c) \/ HandlerExit(c) \/ ReplayFails(c) \/ Leave(c)
      BY <3>5 DEF Lagged, HandlerExit, ReplayFails, Return, Leave, HelloFirst
    <3>6. QED
      BY <2>2, <3>1, <3>2, <3>3, <3>4, <3>5 DEF Serve, Disturb
  <2>3. CASE \E e \in Emitters : EmitStep(e)
    BY <2>1, <2>3 DEF EmitStep, AppendSqlite, InsertPostgres, CommitPostgres,
                      AppendFails, Publish, handlerVars, clientVars
  <2>4. CASE Restart
    BY <2>4 DEF Restart
  <2>5. QED BY <2>1, <2>2, <2>3, <2>4 DEF Next, vars
<1>3. QED BY <1>1, <1>2, TypeCorrect, PTL DEF Spec

\* A frame with an id never takes the client back.
LEMMA DeliverAdvances ==
  ASSUME TypeOK, IdFollows, NEW c \in Clients, at[c] \in Serving,
         NEW n \in Nat, cursor[c] < n, Deliver(c, n), NEW d \in Clients
  PROVE  lastId[d] <= lastId'[d]
<1>1. /\ cursor[c] \in Nat /\ lastId \in [Clients -> Nat \cup {NoId}]
      /\ lastId' = [lastId EXCEPT ![c] = n]
  BY DEF TypeOK, Deliver
<1>2. lastId[c] <= cursor[c]
  BY <1>1 DEF IdFollows, Resolve
<1>3. QED BY <1>1, <1>2

\* With any number of emitters, either database, lost connections and crashes:
\* a client resumes from the beginning or no earlier than it did before, and
\* what takes it to the beginning is the synthetic frame of a new connection.
THEOREM CursorMovesBackOnly == Spec => CursorMovesBackOnlyToStart
<1> DEFINE Fine == \A c \in Clients :
      lastId'[c] < lastId[c] => lastId'[c] = 0 /\ frames[c] = <<>>
<1>1. TypeOK /\ SafeInv /\ IdFollows /\ HelloFirst /\ [Next]_vars => [Fine]_vars
  <2> SUFFICES ASSUME TypeOK, SafeInv, IdFollows, HelloFirst, [Next]_vars,
                      NEW d \in Clients, lastId'[d] < lastId[d]
               PROVE  lastId'[d] = 0 /\ frames[d] = <<>>
    OBVIOUS
  <2>0. lastId[d] \in Int
    BY DEF TypeOK
  <2>1. CASE UNCHANGED lastId
    BY <2>0, <2>1
  <2>2. ASSUME NEW c \in Clients, Connect(c) \/ Serve(c) \/ Disturb(c)
        PROVE  lastId'[d] = 0 /\ frames[d] = <<>>
    <3>1. CASE Hello(c)
      BY <2>0, <3>1 DEF Hello, HelloFirst, TypeOK
    <3>2. CASE WriteRow(c)
      <4>1. PICK n \in rows[c] : Deliver(c, n)
        BY <3>2 DEF WriteRow
      <4>2. n \in Nat /\ cursor[c] < n /\ at[c] \in Serving
        BY <3>2 DEF TypeOK, SafeInv, CursorSplits, WriteRow
      <4>3. lastId[d] <= lastId'[d]
        BY <4>1, <4>2, DeliverAdvances
      <4>4. lastId'[d] \in Int
        BY <4>1, <4>2 DEF Deliver, TypeOK
      <4>5. QED BY <2>0, <4>3, <4>4
    <3>3. CASE LiveEvent(c)
      <4>1. CASE UNCHANGED clientVars
        BY <2>1, <4>1 DEF clientVars
      <4>2. CASE Head(buf[c]) > cursor[c] /\ Deliver(c, Head(buf[c]))
        <5>1. /\ Head(buf[c]) \in Nat /\ cursor[c] \in Nat
              /\ at[c] \in Serving
          BY <3>3 DEF LiveEvent, TypeOK
        <5>2. lastId[d] <= lastId'[d]
          BY <4>2, <5>1, DeliverAdvances
        <5>3. lastId'[d] \in Int
          BY <4>2, <5>1 DEF Deliver, TypeOK
        <5>4. QED BY <2>0, <5>2, <5>3
      <4>3. QED BY <3>3, <4>1, <4>2 DEF LiveEvent
    <3>4. CASE \/ Connect(c) \/ Subscribe(c) \/ ReplayQuery(c) \/ Lagged(c)
               \/ HandlerExit(c) \/ ReplayFails(c) \/ Leave(c)
      BY <2>1, <3>4 DEF Connect, Subscribe, ReplayQuery, Lagged, HandlerExit,
                        ReplayFails, Leave, clientVars
    <3>5. QED BY <2>2, <3>1, <3>2, <3>3, <3>4 DEF Serve, Disturb
  <2>3. CASE \E e \in Emitters : EmitStep(e)
    BY <2>1, <2>3 DEF EmitStep, AppendSqlite, InsertPostgres, CommitPostgres,
                      AppendFails, Publish, clientVars
  <2>4. CASE Restart
    BY <2>1, <2>4 DEF Restart, clientVars
  <2>5. QED BY <2>1, <2>2, <2>3, <2>4 DEF Next, vars
<1>2. QED
  BY <1>1, TypeCorrect, Safe, IdFollowsInv, HelloFirstInv, PTL
     DEF Spec, CursorMovesBackOnlyToStart

=============================================================================
