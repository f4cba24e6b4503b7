---------------------------- MODULE MirrorProofs ----------------------------
(* Theorems about the rows of messages in Inbox: they agree with WhatsApp, *)
(* and the messages of peers implement the mailbox.                        *)
EXTENDS InboxProofs

-----------------------------------------------------------------------------
(* Who works on what.                                                      *)

\* The dispatching goroutine only runs handleIncoming, but for a revoke on
\* messages of peers that it was handed; a worker that writes a row writes one
\* of ours.
RightOps ==
  /\ op[Dispatcher] \in {"idle", "message", "edit", "revoke"}
  /\ op[Dispatcher] \in {"message", "edit"} => arg[Dispatcher] \in delivered
  /\ \A w \in Workers :
       op[w] \in {"send", "editMessage", "deleteMessage"} => arg[w] \in Ours

\* The dispatching goroutine takes an event that it is to handle, or makes
\* its next call.
Dispatch ==
  \/ \E m \in Theirs : TakeMessage(m) \/ TakeEdit(m)
  \/ \E m \in Msgs : TakeRevoke(m)
  \/ HandleIncoming(Dispatcher)

\* What a step leaves alone when it is none of the dispatching goroutine's:
\* the rows of peers' messages and WhatsApp's idea of them, and what that
\* goroutine has in hand.
PeersSame ==
  /\ \A m \in Theirs :
       /\ m \in msgRows' <=> m \in msgRows
       /\ body'[m] = body[m] /\ deleted'[m] = deleted[m]
       /\ wire'[m] = wire[m] /\ (m \in recalled' <=> m \in recalled)
  /\ delivered' = delivered
  /\ announced \subseteq announced' /\ chatRows \subseteq chatRows'
  /\ op'[Dispatcher] = op[Dispatcher] /\ step'[Dispatcher] = step[Dispatcher]
  /\ arg'[Dispatcher] = arg[Dispatcher] /\ val'[Dispatcher] = val[Dispatcher]
  /\ dead'[Dispatcher] = dead[Dispatcher]

-----------------------------------------------------------------------------
(* The messages of peers.                                                  *)

\* A message that was not handed over has no row and was not changed.
NotYet ==
  \A m \in Theirs \ delivered :
    m \notin msgRows /\ wire[m] = 0 /\ m \notin recalled

Mirrored(m) ==
  /\ m \in msgRows /\ body[m] = wire[m]
  /\ deleted[m] <=> m \in recalled
  /\ <<"message.received", {m}>> \in announced

\* All messages but the one the dispatching goroutine has in hand.
RestMirrored ==
  \A m \in delivered :
    (op[Dispatcher] # "idle" /\ arg[Dispatcher] = m) \/ Mirrored(m)

\* A message on its way into the store: its chat first, then its row.
MessageInHand ==
  op[Dispatcher] = "message" =>
    LET m == arg[Dispatcher] IN
    /\ m \in delivered /\ wire[m] = 0 /\ m \notin recalled
    /\ step[Dispatcher] \in {"getChat", "putChat", "putMessage", "emit"}
    /\ step[Dispatcher] = "putMessage" => ChatOf[m] \in chatRows
    /\ step[Dispatcher] = "emit"
         => m \in msgRows /\ body[m] = 0 /\ ~deleted[m]

\* An edit: only the text differs until it is written.
EditInHand ==
  op[Dispatcher] = "edit" =>
    LET m == arg[Dispatcher] IN
    /\ m \in msgRows /\ (deleted[m] <=> m \in recalled)
    /\ <<"message.received", {m}>> \in announced
    /\ step[Dispatcher] \in {"putMessage", "emit"}
    /\ step[Dispatcher] = "putMessage"
         => val[Dispatcher] = wire[m] /\ dead[Dispatcher] = deleted[m]
    /\ step[Dispatcher] = "emit" => body[m] = wire[m]

\* A revoke: only the deletion differs until it is written.
RevokeInHand ==
  op[Dispatcher] = "revoke" /\ arg[Dispatcher] \in Theirs =>
    LET m == arg[Dispatcher] IN
    /\ m \in msgRows /\ body[m] = wire[m] /\ m \in recalled
    /\ <<"message.received", {m}>> \in announced
    /\ step[Dispatcher] \in {"softDelete", "emit"}
    /\ step[Dispatcher] = "emit" => deleted[m]

PeersInv ==
  NothingWentWrong =>
    RestMirrored /\ MessageInHand /\ EditInHand /\ RevokeInHand

-----------------------------------------------------------------------------
(* The mailbox.                                                            *)

\* No text is ahead of WhatsApp, and a row that is not there shows nothing.
TextInv ==
  \A m \in Theirs :
    /\ body[m] <= wire[m] /\ wire[m] <= MaxEdits
    /\ m \notin msgRows => body[m] = 0 /\ ~deleted[m]

\* A message in hand was never stored; the text of an edit in hand is later
\* than the row's.
BoxInHand ==
  /\ /\ op[Dispatcher] = "message"
     /\ step[Dispatcher] \in {"getChat", "putChat", "putMessage"}
     => arg[Dispatcher] \notin msgRows
  /\ op[Dispatcher] = "edit" /\ step[Dispatcher] = "putMessage" =>
       /\ arg[Dispatcher] \in msgRows
       /\ body[arg[Dispatcher]] < val[Dispatcher]
       /\ val[Dispatcher] <= wire[arg[Dispatcher]]
       /\ dead[Dispatcher] = deleted[arg[Dispatcher]]

BoxInv == TextInv /\ BoxInHand

-----------------------------------------------------------------------------
(* The messages of ours.                                                   *)

\* Requests come one at a time, and nobody else revokes what we sent.
OneRequest == \A v, w \in Workers : v = w
NoAdminRevokes == "revokeOurs" \notin Events

\* A message of ours that has no row is as it was sent, and is not being
\* edited or deleted.
UnstoredInv ==
  \A m \in Ours \ msgRows : wire[m] = 0 /\ m \notin recalled

\* Text and deletion agree but for the message whose edit or deletion
\* WhatsApp took and the store did not yet.
TextsAgree ==
  \A m \in Ours \cap msgRows :
    /\ m \in sent
    /\ \/ body[m] = wire[m]
       \/ \E w \in Workers : At(w, "editMessage", "putMessage") /\ arg[w] = m
    /\ \/ deleted[m] <=> m \in recalled
       \/ \E w \in Workers : At(w, "deleteMessage", "softDelete") /\ arg[w] = m

\* The row of our reaction on a message agrees, or nobody's does when the
\* connection was lost during the request.
ReactionAgrees(m) ==
  \/ reactions[<<m, "us">>] = wireReaction[m]
  \/ m \in cutOff /\ reactions[<<m, "nobody">>] = wireReaction[m]

\* So it is but for the reaction that WhatsApp took and the store did not yet.
ReactionsAgree ==
  \A m \in Msgs :
    ReactionAgrees(m) \/ \E w \in Workers : op[w] = "react" /\ arg[w] = m

\* What a request is about to write is what WhatsApp took.
WritesAgree ==
  \A w \in Workers :
    /\ At(w, "send", "putMessage") => arg[w] \in sent /\ arg[w] \notin msgRows
    /\ op[w] = "send" => step[w] \in {"putMessage", "getChat", "putChat"}
    /\ op[w] \in {"editMessage", "deleteMessage", "react"}
         => arg[w] \in msgRows
    /\ op[w] = "editMessage"
         => /\ dead[w] = deleted[arg[w]]
            /\ deleted[arg[w]] <=> arg[w] \in recalled
    /\ At(w, "editMessage", "putMessage") => val[w] = wire[arg[w]]
    /\ op[w] = "deleteMessage" => body[arg[w]] = wire[arg[w]]
    /\ At(w, "deleteMessage", "softDelete") => arg[w] \in recalled
    /\ op[w] = "react" => val[w] = wireReaction[arg[w]]
    /\ op[w] = "react" /\ ~online => arg[w] \in cutOff

OursInv ==
  NothingWentWrong =>
    UnstoredInv /\ TextsAgree /\ ReactionsAgree /\ WritesAgree

-----------------------------------------------------------------------------
(* What steps leave alone.                                                 *)

\* Goroutine p's locals stay as they are.
Keeps(p) ==
  /\ op'[p] = op[p] /\ step'[p] = step[p] /\ arg'[p] = arg[p]
  /\ val'[p] = val[p] /\ dead'[p] = dead[p]

\* No goroutine but q moves.
OnlyMoves(q) == \A p \in Procs \ {q} : Keeps(p)

\* Beginning an operation moves one goroutine;
LEMMA BeginOnly ==
  ASSUME TypeLocals, NEW q \in Procs, NEW o, NEW s, NEW a, NEW v, NEW d,
         Begin(q, o, s, a, v, d)
  PROVE  /\ OnlyMoves(q)
         /\ op[q] = "idle"
         /\ op'[q] = o /\ step'[q] = s /\ arg'[q] = a /\ val'[q] = v
         /\ dead'[q] = d
  BY DEF TypeLocals, Begin, OnlyMoves, Keeps

\* so does going on with it,
LEMMA GotoOnly ==
  ASSUME TypeLocals, NEW q \in Procs, NEW s, NEW v, Goto(q, s, v)
  PROVE  /\ OnlyMoves(q)
         /\ op'[q] = op[q] /\ step'[q] = s /\ arg'[q] = arg[q]
         /\ val'[q] = v /\ dead'[q] = dead[q]
  BY DEF TypeLocals, Goto, OnlyMoves, Keeps

\* and ending it.
LEMMA EndOnly ==
  ASSUME TypeLocals, NEW q \in Procs, End(q)
  PROVE  OnlyMoves(q) /\ op'[q] = "idle"
  BY DEF TypeLocals, End, OnlyMoves, Keeps

\* When the locals stay, nobody moves.
LEMMA StaysOnly ==
  ASSUME UNCHANGED locals, NEW q \in Procs
  PROVE  OnlyMoves(q) /\ Keeps(q)
  BY DEF locals, OnlyMoves, Keeps

\* So a request moves its worker only;
LEMMA WorkerOnly ==
  ASSUME TypeInv, NEW w \in Workers, Request(w) \/ Perform(w)
  PROVE  OnlyMoves(w)
<1>0. TypeLocals /\ w \in Procs
  BY DEF TypeInv, Procs
<1>1. ASSUME NEW o, NEW s, NEW a, NEW v, NEW d, Begin(w, o, s, a, v, d)
      PROVE  OnlyMoves(w)
  BY <1>0, <1>1, BeginOnly
<1>2. ASSUME NEW s, NEW v, Goto(w, s, v) PROVE OnlyMoves(w)
  BY <1>0, <1>2, GotoOnly
<1>3. ASSUME End(w) PROVE OnlyMoves(w)
  BY <1>0, <1>3, EndOnly
<1>4. CASE Request(w)
  BY <1>1, <1>4 DEF Request, Send, EditMessage, DeleteMessage, MarkRead,
                    React, CreateGroup
<1>5. CASE Perform(w)
  BY <1>2, <1>3, <1>5
     DEF Perform, SendPutMessage, SendGetChat, SendPutChat, EditSend,
         EditPersist, DeleteSend, DeletePersist, ReactPersist, ReadGetChat,
         ReadPutChat, GroupPutChat, GetChat
<1>6. QED BY <1>4, <1>5

\* so does one whose answer is lost: it ends, or never began;
LEMMA LostOnly ==
  ASSUME TypeInv, NEW w \in Workers, AnswerLost(w)
  PROVE  OnlyMoves(w) /\ (op'[w] = "idle" \/ Keeps(w))
<1>0. TypeLocals /\ w \in Procs
  BY DEF TypeInv, Procs
<1>1. End(w) \/ UNCHANGED locals
  BY DEF AnswerLost
<1>2. CASE End(w)
  BY <1>0, <1>2, EndOnly
<1>3. CASE UNCHANGED locals
  BY <1>0, <1>3, StaysOnly
<1>4. QED BY <1>1, <1>2, <1>3

\* an event moves the dispatching goroutine only.
LEMMA DispatchOnly ==
  ASSUME TypeInv, Dispatch
  PROVE  OnlyMoves(Dispatcher)
<1>0. TypeLocals /\ Dispatcher \in Procs
  BY DEF TypeInv, Procs
<1>1. ASSUME NEW o, NEW s, NEW a, NEW v, NEW d,
             Begin(Dispatcher, o, s, a, v, d)
      PROVE  OnlyMoves(Dispatcher)
  BY <1>0, <1>1, BeginOnly
<1>2. ASSUME NEW s, NEW v, Goto(Dispatcher, s, v) PROVE OnlyMoves(Dispatcher)
  BY <1>0, <1>2, GotoOnly
<1>3. ASSUME End(Dispatcher) PROVE OnlyMoves(Dispatcher)
  BY <1>0, <1>3, EndOnly
<1>4. ASSUME UNCHANGED locals PROVE OnlyMoves(Dispatcher)
  BY <1>0, <1>4, StaysOnly
<1>5. CASE \E m \in Theirs : TakeMessage(m) \/ TakeEdit(m)
  BY <1>1, <1>4, <1>5 DEF TakeMessage, TakeEdit
<1>6. CASE \E m \in Msgs : TakeRevoke(m)
  BY <1>1, <1>6 DEF TakeRevoke
<1>7. CASE HandleIncoming(Dispatcher)
  BY <1>2, <1>3, <1>7 DEF HandleIncoming, MessageGetChat, MessagePutChat,
                          MessagePut, EditPut, RevokePut, Emit, GetChat
<1>8. QED BY <1>5, <1>6, <1>7 DEF Dispatch

\* The steps there are.
LEMMA NextCases ==
  ASSUME [Next]_vars
  PROVE  \/ Dispatch
         \/ \E m \in Msgs, e \in Emoji \cup {NoEmoji} : HandleReaction(m, e)
         \/ \E batch \in SUBSET Ours : HandleReceipt(batch)
         \/ \E w \in Workers : Request(w) \/ Perform(w) \/ AnswerLost(w)
         \/ Disconnect \/ Connect \/ Restart \/ UNCHANGED vars
  BY DEF Next, Incoming, Dispatch

\* The counts of what went wrong never go down, so that when nothing went
\* wrong after a step, nothing had before it and the step's store call worked.
LEMMA NothingBefore ==
  ASSUME TypeInv, [Next]_vars, NothingWentWrong'
  PROVE  NothingWentWrong /\ UNCHANGED <<failures, redeliveries, restarts>>
<1>0. failures \in Nat /\ redeliveries \in Nat /\ restarts \in Nat
  BY DEF TypeInv, TypeBounds
<1>1. failures' \in {failures, failures + 1}
  <2> USE DEF Works, Fails
  <2>1. CASE Dispatch
    <3>1. CASE \E m \in Theirs : TakeMessage(m) \/ TakeEdit(m)
      BY <3>1 DEF TakeMessage, TakeEdit
    <3>2. CASE \E m \in Msgs : TakeRevoke(m)
      BY <3>2 DEF TakeRevoke
    <3>3. CASE MessagePut(Dispatcher)
      BY <3>3, Zenon DEF MessagePut
    <3>4. CASE \/ MessageGetChat(Dispatcher) \/ MessagePutChat(Dispatcher)
               \/ EditPut(Dispatcher) \/ RevokePut(Dispatcher)
               \/ Emit(Dispatcher)
      BY <3>4 DEF MessageGetChat, MessagePutChat, EditPut, RevokePut, Emit,
                  GetChat
    <3>5. QED BY <2>1, <3>1, <3>2, <3>3, <3>4 DEF Dispatch, HandleIncoming
  <2>2. CASE \/ \E m \in Msgs, e \in Emoji \cup {NoEmoji} :
                  HandleReaction(m, e)
             \/ \E batch \in SUBSET Ours : HandleReceipt(batch)
    BY <2>2 DEF HandleReaction, HandleReceipt
  <2>3. CASE \E w \in Workers : Request(w)
    BY <2>3 DEF Request, Send, EditMessage, DeleteMessage, MarkRead, React,
                CreateGroup
  <2>4. ASSUME NEW w \in Workers, Perform(w)
        PROVE  failures' \in {failures, failures + 1}
    <3>1. CASE SendPutMessage(w)
      BY <3>1, Zenon DEF SendPutMessage
    <3>2. CASE \/ SendGetChat(w) \/ SendPutChat(w) \/ EditSend(w)
               \/ EditPersist(w) \/ DeleteSend(w) \/ DeletePersist(w)
               \/ ReactPersist(w) \/ ReadGetChat(w) \/ ReadPutChat(w)
               \/ GroupPutChat(w)
      BY <3>2 DEF SendGetChat, SendPutChat, EditSend, EditPersist,
                  DeleteSend, DeletePersist, ReactPersist, ReadGetChat,
                  ReadPutChat, GroupPutChat, GetChat
    <3>3. QED BY <2>4, <3>1, <3>2 DEF Perform
  <2>5. CASE Disconnect \/ Connect \/ Restart \/ UNCHANGED vars
    BY <2>5 DEF Disconnect, Connect, Restart, vars
  <2>6. CASE \E w \in Workers : AnswerLost(w)
    BY <2>6 DEF AnswerLost
  <2>7. QED BY NextCases, <2>1, <2>2, <2>3, <2>4, <2>5, <2>6
<1>2. /\ redeliveries' \in {redeliveries, redeliveries + 1}
      /\ restarts' \in {restarts, restarts + 1}
  <2> USE DEF bounds
  <2>1. CASE Dispatch
    BY <2>1 DEF Dispatch, TakeMessage, TakeEdit, TakeRevoke, HandleIncoming,
                MessageGetChat, MessagePutChat, MessagePut, EditPut,
                RevokePut, Emit
  <2>2. CASE \/ \E m \in Msgs, e \in Emoji \cup {NoEmoji} :
                  HandleReaction(m, e)
             \/ \E batch \in SUBSET Ours : HandleReceipt(batch)
    BY <2>2 DEF HandleReaction, HandleReceipt
  <2>3. CASE \E w \in Workers : Request(w)
    BY <2>3 DEF Request, Send, EditMessage, DeleteMessage, MarkRead, React,
                CreateGroup
  <2>4. CASE \E w \in Workers : Perform(w)
    BY <2>4 DEF Perform, SendPutMessage, SendGetChat, SendPutChat, EditSend,
         EditPersist, DeleteSend, DeletePersist, ReactPersist, ReadGetChat,
         ReadPutChat, GroupPutChat
  <2>5. CASE Disconnect \/ Connect \/ Restart \/ UNCHANGED vars
    BY <2>5 DEF Disconnect, Connect, Restart, vars
  <2>6. CASE \E w \in Workers : AnswerLost(w)
    BY <2>6 DEF AnswerLost
  <2>7. QED BY NextCases, <2>1, <2>2, <2>3, <2>4, <2>5, <2>6
<1>3. QED BY <1>0, <1>1, <1>2 DEF NothingWentWrong

\* WhatsApp does not take back what it handed over.
LEMMA DeliveredStays ==
  ASSUME [Next]_vars
  PROVE  delivered \subseteq delivered'
<1> USE DEF whatsapp
<1>1. CASE Dispatch
  BY <1>1 DEF Dispatch, TakeMessage, TakeEdit, TakeRevoke, HandleIncoming,
              MessageGetChat, MessagePutChat, MessagePut, EditPut, RevokePut,
              Emit
<1>2. CASE \/ \E m \in Msgs, e \in Emoji \cup {NoEmoji} : HandleReaction(m, e)
           \/ \E batch \in SUBSET Ours : HandleReceipt(batch)
  BY <1>2 DEF HandleReaction, HandleReceipt
<1>3. CASE \E w \in Workers : Request(w)
  BY <1>3 DEF Request, Send, EditMessage, DeleteMessage, MarkRead, React,
              CreateGroup
<1>4. CASE \E w \in Workers : Perform(w)
  BY <1>4 DEF Perform, SendPutMessage, SendGetChat, SendPutChat, EditSend,
       EditPersist, DeleteSend, DeletePersist, ReactPersist, ReadGetChat,
       ReadPutChat, GroupPutChat
<1>5. CASE Disconnect \/ Connect \/ Restart \/ UNCHANGED vars
  BY <1>5 DEF Disconnect, Connect, Restart, vars
<1>6. CASE \E w \in Workers : AnswerLost(w)
  BY <1>6 DEF AnswerLost
<1>7. QED BY NextCases, <1>1, <1>2, <1>3, <1>4, <1>5, <1>6

\* RightOps is inductive.
LEMMA RightOpsStep ==
  ASSUME TypeInv, RightOps, [Next]_vars
  PROVE  RightOps'
<1>0. TypeLocals /\ Dispatcher \in Procs /\ Workers = Procs \ {Dispatcher}
  BY InboxAssumption DEF TypeInv, Procs
<1>d. delivered \subseteq delivered'
  BY DeliveredStays
<1>1. CASE Dispatch
  <2>1. \A w \in Workers : op'[w] = op[w] /\ arg'[w] = arg[w]
    BY <1>0, <1>1, DispatchOnly DEF OnlyMoves, Keeps
  <2> DEFINE RightNext ==
        /\ op'[Dispatcher] \in {"idle", "message", "edit", "revoke"}
        /\ op'[Dispatcher] \in {"message", "edit"}
             => arg'[Dispatcher] \in delivered'
  <2>2. ASSUME NEW m \in Theirs, TakeMessage(m) PROVE RightNext
    BY <1>0, <2>2, <1>d, BeginOnly DEF TakeMessage
  <2>3. ASSUME NEW m \in Theirs, TakeEdit(m) PROVE RightNext
    BY <1>0, <2>3, <1>d, BeginOnly DEF TakeEdit, locals, RightOps
  <2>4. ASSUME NEW m \in Msgs, TakeRevoke(m) PROVE RightNext
    BY <1>0, <2>4, BeginOnly DEF TakeRevoke
  <2>5. ASSUME NEW s, NEW v, Goto(Dispatcher, s, v) PROVE RightNext
    BY <1>0, <1>d, <2>5, GotoOnly DEF RightOps
  <2>6. ASSUME End(Dispatcher) PROVE RightNext
    BY <1>0, <2>6, EndOnly
  <2>7. CASE HandleIncoming(Dispatcher)
    <3> HIDE DEF RightNext
    <3> SUFFICES RightNext
      BY <2>1 DEF RightOps, RightNext
    <3>1. QED
      BY <2>5, <2>6, <2>7 DEF HandleIncoming, MessageGetChat, MessagePutChat,
                              MessagePut, EditPut, RevokePut, Emit, GetChat
  <2>8. QED
    BY <1>1, <2>1, <2>2, <2>3, <2>4, <2>7 DEF RightOps, Dispatch
<1>2. CASE UNCHANGED locals
  BY <1>d, <1>2 DEF RightOps, locals
<1>3. CASE \/ \E m \in Msgs, e \in Emoji \cup {NoEmoji} : HandleReaction(m, e)
           \/ \E batch \in SUBSET Ours : HandleReceipt(batch)
  BY <1>2, <1>3 DEF HandleReaction, HandleReceipt
<1>4. ASSUME NEW w \in Workers, Request(w) \/ Perform(w) PROVE RightOps'
  <2>1. /\ \A v \in Workers \ {w} : op'[v] = op[v] /\ arg'[v] = arg[v]
        /\ op'[Dispatcher] = op[Dispatcher]
        /\ arg'[Dispatcher] = arg[Dispatcher]
    BY <1>0, <1>4, WorkerOnly DEF OnlyMoves, Keeps
  <2> DEFINE RightNext ==
        op'[w] \in {"send", "editMessage", "deleteMessage"} => arg'[w] \in Ours
  <2>2. ASSUME NEW o, NEW s, NEW a, NEW v, NEW d, Begin(w, o, s, a, v, d),
               o \in {"send", "editMessage", "deleteMessage"} => a \in Ours
        PROVE  RightNext
    BY <1>0, <2>2, BeginOnly
  <2>3. ASSUME NEW s, NEW v, Goto(w, s, v) PROVE RightNext
    BY <1>0, <2>3, GotoOnly DEF RightOps
  <2>4. ASSUME End(w) PROVE RightNext
    BY <1>0, <2>4, EndOnly
  <2> HIDE DEF RightNext
  <2>5. ASSUME Request(w) PROVE RightNext
    BY <2>2, <2>5 DEF Request, Send, EditMessage, DeleteMessage, MayChange,
                      MarkRead, React, CreateGroup
  <2>6. ASSUME Perform(w) PROVE RightNext
    BY <2>3, <2>4, <2>6
       DEF Perform, SendPutMessage, SendGetChat, SendPutChat, EditSend,
           EditPersist, DeleteSend, DeletePersist, ReactPersist, ReadGetChat,
           ReadPutChat, GroupPutChat, GetChat
  <2>7. RightNext
    BY <1>4, <2>5, <2>6
  <2>8. QED BY <1>d, <2>1, <2>7 DEF RightOps, RightNext
<1>5. CASE Restart
  BY <1>0, <1>5 DEF Restart, RightOps
<1>6. CASE Disconnect \/ Connect \/ UNCHANGED vars
  BY <1>2, <1>6 DEF Disconnect, Connect, vars, locals
<1>7. ASSUME NEW w \in Workers, AnswerLost(w) PROVE RightOps'
  <2>1. /\ \A p \in Procs \ {w} : op'[p] = op[p] /\ arg'[p] = arg[p]
        /\ op'[w] = "idle" \/ (op'[w] = op[w] /\ arg'[w] = arg[w])
    BY <1>7, LostOnly DEF OnlyMoves, Keeps
  <2>2. QED BY <1>0, <1>d, <2>1 DEF RightOps
<1>8. QED BY NextCases, <1>1, <1>3, <1>4, <1>5, <1>6, <1>7

\* A request never touches the row of a peer's message, nor an event or
\* reaction handled in one step, so none of them disturbs the mirror.
LEMMA OthersLeavePeers ==
  ASSUME TypeInv, RightOps, [Next]_vars, ~Dispatch, ~Restart
  PROVE  PeersSame
<1>0. /\ TypeLocals /\ TypeMessages /\ TypeWhatsApp
      /\ Dispatcher \in Procs /\ Workers = Procs \ {Dispatcher}
      /\ Theirs \cap Ours = {} /\ Theirs \subseteq Msgs
  BY InboxAssumption DEF TypeInv, Procs, Msgs
<1> DEFINE Rows == \A m \in Theirs :
             /\ m \in msgRows' <=> m \in msgRows
             /\ body'[m] = body[m] /\ deleted'[m] = deleted[m]
           Wire == \A m \in Theirs :
             wire'[m] = wire[m] /\ (m \in recalled' <=> m \in recalled)
           Rest == /\ delivered' = delivered
                   /\ announced \subseteq announced'
                   /\ chatRows \subseteq chatRows'
           Locals == Keeps(Dispatcher)
<1>1. ASSUME Rows, Wire, Rest, Locals PROVE PeersSame
  BY <1>1 DEF PeersSame, Keeps
<1>2. ASSUME UNCHANGED messageTable PROVE Rows
  BY <1>2 DEF messageTable
<1>3. ASSUME NEW m \in Ours, NEW b, NEW d, PutMessage(m, b, d) PROVE Rows
  BY <1>0, <1>3 DEF PutMessage, TypeMessages
<1>4. ASSUME NEW m \in Ours, SoftDelete(m) PROVE Rows
  BY <1>0, <1>4 DEF SoftDelete, TypeMessages
<1>5. CASE \/ \E m \in Msgs, e \in Emoji \cup {NoEmoji} : HandleReaction(m, e)
           \/ \E batch \in SUBSET Ours : HandleReceipt(batch)
  <2>1. Rows /\ Wire
    BY <1>5 DEF HandleReaction, HandleReceipt, messageTable, whatsapp
  <2>2. Rest /\ Locals
    BY <1>5 DEF HandleReaction, HandleReceipt, chatTable, whatsapp, locals,
                Announce, Keeps
  <2>3. QED BY <1>1, <2>1, <2>2
<1>6. ASSUME NEW w \in Workers, Request(w) PROVE PeersSame
  <2>1. Rows /\ Wire
    BY <1>6 DEF Request, Send, EditMessage, DeleteMessage, MarkRead, React,
                CreateGroup, messageTable, whatsapp
  <2>2. Rest
    BY <1>6 DEF Request, Send, EditMessage, DeleteMessage, MarkRead, React,
                CreateGroup, chatTable, sideTables, whatsapp
  <2>3. Locals
    BY <1>0, <1>6, WorkerOnly DEF OnlyMoves
  <2>4. QED BY <1>1, <2>1, <2>2, <2>3
<1>7. ASSUME NEW w \in Workers, Perform(w) PROVE PeersSame
  <2>1. Locals
    BY <1>0, <1>7, WorkerOnly DEF OnlyMoves
  <2>2. op[w] \in {"send", "editMessage", "deleteMessage"} => arg[w] \in Ours
    BY DEF RightOps
  <2>3. Rest
    BY <1>7 DEF Perform, SendPutMessage, SendGetChat, SendPutChat, EditSend,
                EditPersist, DeleteSend, DeletePersist, ReactPersist,
                ReadGetChat, ReadPutChat, GroupPutChat, PutChat, chatTable,
                sideTables, whatsapp
  <2>4. Rows
    <3> HIDE DEF Rows
    <3>1. CASE SendPutMessage(w) \/ EditPersist(w) \/ DeletePersist(w)
      BY <1>2, <1>3, <1>4, <2>2, <3>1
         DEF SendPutMessage, EditPersist, DeletePersist, At
    <3>2. CASE \/ SendGetChat(w) \/ SendPutChat(w) \/ EditSend(w)
               \/ DeleteSend(w) \/ ReactPersist(w) \/ ReadGetChat(w)
               \/ ReadPutChat(w) \/ GroupPutChat(w)
      BY <1>2, <3>2 DEF SendGetChat, SendPutChat, EditSend, DeleteSend,
                        ReactPersist, ReadGetChat, ReadPutChat, GroupPutChat
    <3>3. QED BY <1>7, <3>1, <3>2 DEF Perform
  <2>5. Wire
    <3>1. CASE EditSend(w)
      <4>1. \/ UNCHANGED wire
            \/ wire' = [wire EXCEPT ![arg[w]] = @ + 1]
        BY <3>1 DEF EditSend
      <4>2. arg[w] \in Ours /\ recalled' = recalled
        BY <2>2, <3>1 DEF EditSend, At
      <4>3. QED BY <1>0, <4>1, <4>2 DEF TypeWhatsApp
    <3>2. CASE DeleteSend(w)
      BY <1>0, <2>2, <3>2 DEF DeleteSend, At
    <3>3. CASE \/ SendPutMessage(w) \/ EditPersist(w) \/ DeletePersist(w)
               \/ SendGetChat(w) \/ SendPutChat(w) \/ ReactPersist(w)
               \/ ReadGetChat(w) \/ ReadPutChat(w) \/ GroupPutChat(w)
      BY <3>3 DEF SendPutMessage, EditPersist, DeletePersist, SendGetChat,
                  SendPutChat, ReactPersist, ReadGetChat, ReadPutChat,
                  GroupPutChat, whatsapp
    <3>4. QED BY <1>7, <3>1, <3>2, <3>3 DEF Perform
  <2>6. QED BY <1>1, <2>1, <2>3, <2>4, <2>5
<1>8. CASE Disconnect \/ Connect \/ UNCHANGED vars
  BY <1>8 DEF Disconnect, Connect, vars, chatTable, messageTable, sideTables,
              whatsapp, locals, PeersSame
<1>9. ASSUME NEW w \in Workers, AnswerLost(w) PROVE PeersSame
  <2>1. Locals
    BY <1>0, <1>9, LostOnly DEF OnlyMoves
  <2>2. Rows
    BY <1>2, <1>9 DEF AnswerLost
  <2>3. Rest
    BY <1>9 DEF AnswerLost, chatTable, sideTables
  <2>4. op[w] \in {"editMessage", "deleteMessage"} => arg[w] \in Ours
    BY DEF RightOps
  <2>5. \/ UNCHANGED <<wire, recalled>>
        \/ /\ op[w] = "editMessage" /\ recalled' = recalled
           /\ wire' = [wire EXCEPT ![arg[w]] = @ + 1]
        \/ /\ op[w] = "deleteMessage" /\ wire' = wire
           /\ recalled' = recalled \cup {arg[w]}
    BY <1>9 DEF AnswerLost, At
  <2>6. Wire
    BY <1>0, <2>4, <2>5 DEF TypeWhatsApp
  <2>7. QED BY <1>1, <2>1, <2>2, <2>3, <2>6
<1>10. QED BY NextCases, <1>5, <1>6, <1>7, <1>8, <1>9

-----------------------------------------------------------------------------
(* PeersMirrored.                                                          *)

\* Only what was handed over is stored or changed.
LEMMA NotYetStep ==
  ASSUME TypeInv, RightOps, NotYet, [Next]_vars
  PROVE  NotYet'
<1>0. /\ TypeMessages /\ TypeWhatsApp /\ delivered \subseteq delivered'
      /\ Theirs \cap Ours = {} /\ Theirs \subseteq Msgs
  BY DeliveredStays, InboxAssumption DEF TypeInv, Msgs
<1>1. ASSUME UNCHANGED <<msgRows, wire, recalled>> PROVE NotYet'
  BY <1>0, <1>1 DEF NotYet
<1>2. ASSUME NEW m \in Theirs, TakeMessage(m) PROVE NotYet'
  BY <1>1, <1>2 DEF TakeMessage, messageTable
<1>3. ASSUME NEW m \in Theirs, TakeEdit(m) PROVE NotYet'
  <2>1. /\ m \in delivered /\ wire' = [wire EXCEPT ![m] = @ + 1]
        /\ UNCHANGED <<msgRows, recalled>>
    BY <1>3 DEF TakeEdit, messageTable
  <2>2. QED BY <1>0, <2>1 DEF NotYet, TypeWhatsApp
<1>4. ASSUME NEW m \in Msgs, TakeRevoke(m) PROVE NotYet'
  <2>1. /\ m \in delivered \cup sent /\ recalled' = recalled \cup {m}
        /\ UNCHANGED <<msgRows, wire>>
    BY <1>4 DEF TakeRevoke, messageTable
  <2>2. QED BY <1>0, <2>1 DEF NotYet, TypeWhatsApp
<1>5. CASE HandleIncoming(Dispatcher)
  <2>0. UNCHANGED <<wire, recalled>>
    BY <1>5 DEF HandleIncoming, MessageGetChat, MessagePutChat, MessagePut,
                EditPut, RevokePut, Emit, whatsapp
  <2>1. msgRows' \subseteq msgRows \cup delivered
    <3>1. CASE MessagePut(Dispatcher)
      BY <3>1 DEF MessagePut, PutMessage, RightOps, At, messageTable
    <3>2. CASE EditPut(Dispatcher)
      BY <3>2 DEF EditPut, PutMessage, RightOps, At, messageTable
    <3>3. CASE \/ MessageGetChat(Dispatcher) \/ MessagePutChat(Dispatcher)
               \/ RevokePut(Dispatcher) \/ Emit(Dispatcher)
      BY <3>3 DEF MessageGetChat, MessagePutChat, RevokePut, Emit, SoftDelete,
                  messageTable
    <3>4. QED BY <1>5, <3>1, <3>2, <3>3 DEF HandleIncoming
  <2>2. QED BY <1>0, <2>0, <2>1 DEF NotYet
<1>6. CASE ~Dispatch /\ ~Restart
  BY <1>0, <1>6, OthersLeavePeers DEF PeersSame, NotYet
<1>7. CASE Restart
  BY <1>1, <1>7 DEF Restart, messageTable, whatsapp
<1>8. QED BY <1>2, <1>3, <1>4, <1>5, <1>6, <1>7 DEF Dispatch

\* What PeersInv says when nothing went wrong.
PeersFine == RestMirrored /\ MessageInHand /\ EditInHand /\ RevokeInHand

\* Steps of others keep it,
LEMMA PeersOthers ==
  ASSUME TypeInv, RightOps, PeersFine, PeersSame
  PROVE  PeersFine'
<1>0. /\ delivered \subseteq Theirs
      /\ op[Dispatcher] \in {"message", "edit"} => arg[Dispatcher] \in Theirs
  BY DEF TypeInv, TypeWhatsApp, RightOps
<1>1. RestMirrored'
  BY <1>0 DEF PeersFine, PeersSame, RestMirrored, Mirrored
<1>2. MessageInHand'
  BY <1>0 DEF PeersFine, PeersSame, MessageInHand
<1>3. EditInHand'
  BY <1>0 DEF PeersFine, PeersSame, EditInHand
<1>4. RevokeInHand'
  BY DEF PeersFine, PeersSame, RevokeInHand
<1>5. QED BY <1>1, <1>2, <1>3, <1>4 DEF PeersFine

\* and so does every event, when it is handed over: all rows agree then, and
\* the one that no longer does is in hand;
LEMMA PeersTake ==
  ASSUME TypeInv, RightOps, NotYet, PeersFine,
         UNCHANGED <<failures, redeliveries>>,
         NEW m \in Msgs,
         \/ m \in Theirs /\ (TakeMessage(m) \/ TakeEdit(m))
         \/ TakeRevoke(m)
  PROVE  PeersFine'
<1>0. /\ TypeLocals /\ TypeMessages /\ TypeWhatsApp /\ Dispatcher \in Procs
      /\ failures \in Nat /\ redeliveries \in Nat /\ delivered \subseteq Theirs
      /\ sent \subseteq Ours /\ Theirs \cap Ours = {} /\ Theirs \subseteq Msgs
  BY InboxAssumption DEF TypeInv, Procs, Msgs, TypeWhatsApp, TypeBounds
<1>1. op[Dispatcher] = "idle"
  BY DEF TakeMessage, TakeEdit, TakeRevoke, Begin
<1>2. \A x \in delivered : Mirrored(x)
  BY <1>1 DEF PeersFine, RestMirrored
<1>3. CASE m \in Theirs /\ TakeMessage(m)
  <2>0. /\ \/ m \notin delivered
           \/ redeliveries' = redeliveries + 1
        /\ delivered' = delivered \cup {m}
        /\ UNCHANGED <<msgRows, body, deleted, announced, wire, recalled>>
        /\ Begin(Dispatcher, "message", "getChat", m, 0, FALSE)
    BY <1>3 DEF TakeMessage, messageTable, sideTables
  <2>d. m \notin delivered
    BY <1>0, <2>0
  <2>1. /\ m \notin delivered /\ delivered' = delivered \cup {m}
        /\ UNCHANGED <<msgRows, body, deleted, announced, wire, recalled>>
        /\ Begin(Dispatcher, "message", "getChat", m, 0, FALSE)
    BY <2>0, <2>d
  <2>2. /\ op'[Dispatcher] = "message" /\ step'[Dispatcher] = "getChat"
        /\ arg'[Dispatcher] = m
    BY <1>0, <2>1, BeginOnly
  <2>3. RestMirrored'
    BY <1>2, <2>1, <2>2 DEF RestMirrored, Mirrored
  <2>4. MessageInHand'
    BY <1>3, <2>1, <2>2 DEF MessageInHand, NotYet
  <2>5. EditInHand' /\ RevokeInHand'
    BY <2>2 DEF EditInHand, RevokeInHand
  <2>6. QED BY <2>3, <2>4, <2>5 DEF PeersFine
<1>4. CASE m \in Theirs /\ TakeEdit(m)
  <2>1. /\ m \in delivered /\ wire' = [wire EXCEPT ![m] = @ + 1]
        /\ UNCHANGED <<msgRows, body, deleted, announced, delivered, recalled>>
    BY <1>4 DEF TakeEdit, messageTable, sideTables
  <2>2. Mirrored(m)
    BY <1>2, <2>1
  <2>3. Begin(Dispatcher, "edit", "putMessage", m, wire[m] + 1, deleted[m])
    BY <1>0, <1>4, <2>2 DEF TakeEdit, Mirrored, Fails
  <2>4. /\ op'[Dispatcher] = "edit" /\ step'[Dispatcher] = "putMessage"
        /\ arg'[Dispatcher] = m /\ val'[Dispatcher] = wire[m] + 1
        /\ dead'[Dispatcher] = deleted[m]
    BY <1>0, <2>3, BeginOnly
  <2>5. /\ wire'[m] = wire[m] + 1
        /\ \A x \in Theirs \ {m} : wire'[x] = wire[x]
    BY <1>0, <2>1 DEF TypeWhatsApp
  <2>6. RestMirrored'
    BY <1>0, <1>2, <2>1, <2>4, <2>5 DEF RestMirrored, Mirrored
  <2>7. EditInHand'
    BY <2>1, <2>2, <2>4, <2>5 DEF EditInHand, Mirrored
  <2>8. MessageInHand' /\ RevokeInHand'
    BY <2>4 DEF MessageInHand, RevokeInHand
  <2>9. QED BY <2>6, <2>7, <2>8 DEF PeersFine
<1>5. CASE TakeRevoke(m)
  <2>1. /\ m \in delivered \cup sent /\ recalled' = recalled \cup {m}
        /\ UNCHANGED <<msgRows, body, deleted, announced, delivered, wire>>
        /\ Begin(Dispatcher, "revoke", "softDelete", m, 0, FALSE)
    BY <1>5 DEF TakeRevoke, messageTable, sideTables
  <2>2. /\ op'[Dispatcher] = "revoke" /\ step'[Dispatcher] = "softDelete"
        /\ arg'[Dispatcher] = m
    BY <1>0, <2>1, BeginOnly
  <2>3. RestMirrored'
    BY <1>2, <2>1, <2>2 DEF RestMirrored, Mirrored
  <2>4. RevokeInHand'
    BY <1>0, <1>2, <2>1, <2>2 DEF RevokeInHand, Mirrored
  <2>5. MessageInHand' /\ EditInHand'
    BY <2>2 DEF MessageInHand, EditInHand
  <2>6. QED BY <2>3, <2>4, <2>5 DEF PeersFine
<1>6. QED BY <1>3, <1>4, <1>5

\* handleIncoming brings its message's row to what WhatsApp has by the time
\* it ends; the chat's row is there before the message's.
LEMMA PeersHandle ==
  ASSUME TypeInv, RightOps, PeersFine, UNCHANGED failures,
         HandleIncoming(Dispatcher)
  PROVE  PeersFine'
<1>0. /\ TypeLocals /\ TypeMessages /\ TypeWhatsApp /\ Dispatcher \in Procs
      /\ failures \in Nat /\ delivered \subseteq Theirs /\ Theirs \subseteq Msgs
  BY DEF TypeInv, Procs, Msgs, TypeWhatsApp, TypeBounds
<1>f. ~Fails
  BY <1>0 DEF Fails
<1>g. arg[Dispatcher] \in delivered => arg[Dispatcher] \in Msgs
  BY <1>0
  \* the handler goes on: all but its message are as they were.
<1>1. ASSUME op'[Dispatcher] = op[Dispatcher],
             arg'[Dispatcher] = arg[Dispatcher], op[Dispatcher] # "idle",
             UNCHANGED <<delivered, wire, recalled, announced>>,
             \A x \in Theirs : x # arg[Dispatcher] =>
               /\ x \in msgRows => x \in msgRows'
               /\ body'[x] = body[x] /\ deleted'[x] = deleted[x]
      PROVE  RestMirrored'
  BY <1>0, <1>1 DEF PeersFine, RestMirrored, Mirrored
<1>2. CASE MessageGetChat(Dispatcher)
  <2>1. /\ op[Dispatcher] = "message"
        /\ UNCHANGED <<delivered, wire, recalled, announced>>
        /\ UNCHANGED <<msgRows, body, deleted>>
        /\ \E v : Goto(Dispatcher, "putChat", v)
    BY <1>2 DEF MessageGetChat, At, GetChat, messageTable, sideTables, whatsapp
  <2>2. /\ op'[Dispatcher] = "message" /\ step'[Dispatcher] = "putChat"
        /\ arg'[Dispatcher] = arg[Dispatcher]
    BY <1>0, <2>1, GotoOnly
  <2>3. RestMirrored'
    BY <1>1, <2>1, <2>2
  <2>4. MessageInHand'
    BY <2>1, <2>2 DEF PeersFine, MessageInHand
  <2>5. EditInHand' /\ RevokeInHand'
    BY <2>2 DEF EditInHand, RevokeInHand
  <2>6. QED BY <2>3, <2>4, <2>5 DEF PeersFine
<1>3. CASE MessagePutChat(Dispatcher)
  <2>1. /\ op[Dispatcher] = "message"
        /\ UNCHANGED <<delivered, wire, recalled, announced>>
        /\ UNCHANGED <<msgRows, body, deleted>>
        /\ Goto(Dispatcher, "putMessage", 0)
    BY <1>3 DEF MessagePutChat, At, messageTable, sideTables, whatsapp
  <2>2. /\ op'[Dispatcher] = "message" /\ step'[Dispatcher] = "putMessage"
        /\ arg'[Dispatcher] = arg[Dispatcher]
    BY <1>0, <2>1, GotoOnly
  <2>3. RestMirrored'
    BY <1>1, <2>1, <2>2
  <2>4. ChatOf[arg[Dispatcher]] \in chatRows'
    BY <1>3, <1>f DEF MessagePutChat, PutChat
  <2>5. MessageInHand'
    BY <2>1, <2>2, <2>4 DEF PeersFine, MessageInHand
  <2>6. EditInHand' /\ RevokeInHand'
    BY <2>2 DEF EditInHand, RevokeInHand
  <2>7. QED BY <2>3, <2>5, <2>6 DEF PeersFine
<1>4. CASE MessagePut(Dispatcher)
  <2>1. /\ op[Dispatcher] = "message" /\ step[Dispatcher] = "putMessage"
        /\ UNCHANGED <<delivered, wire, recalled, announced>>
    BY <1>4 DEF MessagePut, At, sideTables, whatsapp
  <2>2. ChatExists(arg[Dispatcher])
    BY <2>1 DEF PeersFine, MessageInHand, ChatExists
  <2>3. PutMessage(arg[Dispatcher], 0, FALSE) /\ Goto(Dispatcher, "emit", 0)
    BY <1>4, <1>f, <2>2, Zenon DEF MessagePut
  <2>4. /\ op'[Dispatcher] = "message" /\ step'[Dispatcher] = "emit"
        /\ arg'[Dispatcher] = arg[Dispatcher]
    BY <1>0, <2>1, <2>3, GotoOnly
  <2>5. arg[Dispatcher] \in delivered
    BY <2>1 DEF RightOps
  <2>6. /\ arg[Dispatcher] \in msgRows' /\ body'[arg[Dispatcher]] = 0
        /\ ~deleted'[arg[Dispatcher]]
    BY <1>0, <1>g, <2>3, <2>5 DEF PutMessage, TypeMessages
  <2>7. \A x \in Theirs : x # arg[Dispatcher] =>
               /\ x \in msgRows => x \in msgRows'
               /\ body'[x] = body[x] /\ deleted'[x] = deleted[x]
    BY <1>0, <2>3 DEF PutMessage, TypeMessages
  <2>8. RestMirrored'
    BY <1>1, <2>1, <2>4, <2>7
  <2>9. MessageInHand'
    BY <2>1, <2>4, <2>6 DEF PeersFine, MessageInHand
  <2>10. EditInHand' /\ RevokeInHand'
    BY <2>4 DEF EditInHand, RevokeInHand
  <2>11. QED BY <2>8, <2>9, <2>10 DEF PeersFine
<1>5. CASE EditPut(Dispatcher)
  <2>1. /\ op[Dispatcher] = "edit" /\ step[Dispatcher] = "putMessage"
        /\ UNCHANGED <<delivered, wire, recalled, announced>>
        /\ PutMessage(arg[Dispatcher], val[Dispatcher], dead[Dispatcher])
        /\ Goto(Dispatcher, "emit", 0)
    BY <1>5, <1>f DEF EditPut, At, sideTables, whatsapp
  <2>2. /\ op'[Dispatcher] = "edit" /\ step'[Dispatcher] = "emit"
        /\ arg'[Dispatcher] = arg[Dispatcher]
    BY <1>0, <2>1, GotoOnly
  <2>3. arg[Dispatcher] \in delivered
    BY <2>1 DEF RightOps
  <2>4. /\ arg[Dispatcher] \in msgRows'
        /\ body'[arg[Dispatcher]] = val[Dispatcher]
        /\ deleted'[arg[Dispatcher]] = dead[Dispatcher]
    BY <1>0, <1>g, <2>1, <2>3 DEF PutMessage, TypeMessages
  <2>5. \A x \in Theirs : x # arg[Dispatcher] =>
               /\ x \in msgRows => x \in msgRows'
               /\ body'[x] = body[x] /\ deleted'[x] = deleted[x]
    BY <1>0, <2>1 DEF PutMessage, TypeMessages
  <2>6. RestMirrored'
    BY <1>1, <2>1, <2>2, <2>5
  <2>7. EditInHand'
    BY <2>1, <2>2, <2>4 DEF PeersFine, EditInHand
  <2>8. MessageInHand' /\ RevokeInHand'
    BY <2>2 DEF MessageInHand, RevokeInHand
  <2>9. QED BY <2>6, <2>7, <2>8 DEF PeersFine
<1>6. CASE RevokePut(Dispatcher)
  <2>1. /\ op[Dispatcher] = "revoke" /\ step[Dispatcher] = "softDelete"
        /\ UNCHANGED <<delivered, wire, recalled, announced>>
        /\ SoftDelete(arg[Dispatcher]) /\ Goto(Dispatcher, "emit", 0)
    BY <1>6, <1>f DEF RevokePut, At, sideTables, whatsapp
  <2>2. /\ op'[Dispatcher] = "revoke" /\ step'[Dispatcher] = "emit"
        /\ arg'[Dispatcher] = arg[Dispatcher]
    BY <1>0, <2>1, GotoOnly
  <2>3. arg[Dispatcher] \in msgRows => deleted'[arg[Dispatcher]]
    BY <1>0, <2>1 DEF SoftDelete, TypeMessages
  <2>4. /\ UNCHANGED <<msgRows, body>>
        /\ \A x \in Theirs : x # arg[Dispatcher] => deleted'[x] = deleted[x]
    BY <1>0, <2>1 DEF SoftDelete, TypeMessages
  <2>5. RestMirrored'
    BY <1>1, <2>1, <2>2, <2>4
  <2>6. RevokeInHand'
    BY <2>1, <2>2, <2>3, <2>4 DEF PeersFine, RevokeInHand
  <2>7. MessageInHand' /\ EditInHand'
    BY <2>2 DEF MessageInHand, EditInHand
  <2>8. QED BY <2>5, <2>6, <2>7 DEF PeersFine
<1>7. CASE Emit(Dispatcher)
  <2>1. /\ op[Dispatcher] \in {"message", "edit", "revoke"}
        /\ step[Dispatcher] = "emit"
        /\ UNCHANGED <<delivered, wire, recalled, msgRows, body, deleted>>
        /\ announced' = announced
              \cup {<<EventType(op[Dispatcher]), {arg[Dispatcher]}>>}
        /\ End(Dispatcher)
    BY <1>7 DEF Emit, Announce, messageTable, whatsapp
  <2>2. op'[Dispatcher] = "idle"
    BY <1>0, <2>1, EndOnly
  <2>3. op[Dispatcher] = "message"
          => EventType(op[Dispatcher]) = "message.received"
    BY DEF EventType
  <2>4. ASSUME NEW x \in delivered PROVE Mirrored(x)'
    <3>1. CASE Mirrored(x)
      BY <2>1, <3>1 DEF Mirrored
    <3>2. CASE arg[Dispatcher] = x /\ op[Dispatcher] = "message"
      BY <2>1, <2>3, <3>2 DEF PeersFine, MessageInHand, Mirrored
    <3>3. CASE arg[Dispatcher] = x /\ op[Dispatcher] = "edit"
      BY <2>1, <3>3 DEF PeersFine, EditInHand, Mirrored
    <3>4. CASE arg[Dispatcher] = x /\ op[Dispatcher] = "revoke"
      BY <1>0, <2>1, <3>4 DEF PeersFine, RevokeInHand, Mirrored
    <3>5. QED BY <2>1, <3>1, <3>2, <3>3, <3>4 DEF PeersFine, RestMirrored
  <2>5. RestMirrored'
    BY <2>1, <2>4 DEF RestMirrored
  <2>6. MessageInHand' /\ EditInHand' /\ RevokeInHand'
    BY <2>2 DEF MessageInHand, EditInHand, RevokeInHand
  <2>7. QED BY <2>5, <2>6 DEF PeersFine
<1>8. QED BY <1>2, <1>3, <1>4, <1>5, <1>6, <1>7 DEF HandleIncoming

\* Until something goes wrong every step keeps the mirror.
LEMMA PeersStep ==
  ASSUME TypeInv, RightOps, NotYet, PeersInv, [Next]_vars
  PROVE  PeersInv'
<1> SUFFICES ASSUME NothingWentWrong' PROVE PeersFine'
  BY DEF PeersInv, PeersFine
<1>1. PeersFine /\ UNCHANGED <<failures, redeliveries, restarts>>
  BY NothingBefore DEF PeersInv, PeersFine
<1>2. CASE \/ \E m \in Theirs : TakeMessage(m) \/ TakeEdit(m)
           \/ \E m \in Msgs : TakeRevoke(m)
  BY <1>1, <1>2, PeersTake DEF Msgs
<1>3. CASE HandleIncoming(Dispatcher)
  BY <1>1, <1>3, PeersHandle
<1>4. CASE Restart
  BY <1>1, <1>4 DEF Restart, TypeInv, TypeBounds
<1>5. CASE ~Dispatch /\ ~Restart
  BY <1>1, <1>5, OthersLeavePeers, PeersOthers
<1>6. QED BY <1>2, <1>3, <1>4, <1>5 DEF Dispatch

\* The invariant of the peers' messages.
PeersIInv == RightOps /\ NotYet /\ PeersInv

\* It holds in every behaviour.
LEMMA PeersAlways == Spec => []PeersIInv
<1>1. Init => PeersIInv
  BY InboxAssumption
     DEF Init, PeersIInv, RightOps, NotYet, PeersInv, RestMirrored,
         MessageInHand, EditInHand, RevokeInHand, Procs, Msgs
<1>2. TypeInv /\ PeersIInv /\ [Next]_vars => PeersIInv'
  BY RightOpsStep, NotYetStep, PeersStep DEF PeersIInv
<1>3. QED BY <1>1, <1>2, TypeInvAlways, PTL DEF Spec

\* When no store call failed, the daemon never restarted and WhatsApp repeated
\* nothing, the row of every message of a peer is what WhatsApp has once its
\* event is handled, and it was announced: two requests at a time, on the same
\* chat, cannot disturb it.
THEOREM InboxMirrorsPeers == Spec => []PeersMirrored
<1>1. PeersIInv => PeersMirrored
  BY DEF PeersIInv, PeersInv, PeersMirrored, RestMirrored, Mirrored
<1>2. QED BY <1>1, PeersAlways, PTL

-----------------------------------------------------------------------------
(* The mailbox.                                                            *)

\* handleIncoming's next call keeps BoxInv: a message's first row shows no
\* edit, an edit's row a later one.
LEMMA BoxHandle ==
  ASSUME TypeInv, RightOps, NotYet, BoxInv, HandleIncoming(Dispatcher)
  PROVE  BoxInv'
<1>0. /\ TypeLocals /\ TypeMessages /\ TypeWhatsApp /\ Dispatcher \in Procs
      /\ delivered \subseteq Theirs /\ Theirs \subseteq Msgs
  BY DEF TypeInv, Procs, Msgs, TypeWhatsApp
<1>1. wire' = wire
  BY DEF HandleIncoming, MessageGetChat, MessagePutChat, MessagePut, EditPut,
         RevokePut, Emit, whatsapp
<1>2. ASSUME UNCHANGED messageTable PROVE TextInv'
  BY <1>1, <1>2 DEF BoxInv, TextInv, messageTable
<1>3. ASSUME op'[Dispatcher] = "idle" \/ step'[Dispatcher] = "emit"
      PROVE  BoxInHand'
  BY <1>3 DEF BoxInHand
<1>4. ASSUME End(Dispatcher) PROVE BoxInHand'
  BY <1>0, <1>3, <1>4, EndOnly
<1>5. ASSUME NEW v, Goto(Dispatcher, "emit", v) PROVE BoxInHand'
  BY <1>0, <1>3, <1>5, GotoOnly
<1>6. CASE MessageGetChat(Dispatcher)
  <2>1. /\ op[Dispatcher] = "message" /\ step[Dispatcher] = "getChat"
        /\ UNCHANGED messageTable /\ \E v : Goto(Dispatcher, "putChat", v)
    BY <1>6 DEF MessageGetChat, At, GetChat
  <2>2. /\ op'[Dispatcher] = "message" /\ arg'[Dispatcher] = arg[Dispatcher]
        /\ step'[Dispatcher] = "putChat"
    BY <1>0, <2>1, GotoOnly
  <2>3. BoxInHand'
    BY <2>1, <2>2 DEF BoxInv, BoxInHand, messageTable
  <2>4. QED BY <1>2, <2>1, <2>3 DEF BoxInv
<1>7. CASE MessagePutChat(Dispatcher)
  <2>1. /\ op[Dispatcher] = "message" /\ step[Dispatcher] = "putChat"
        /\ UNCHANGED messageTable /\ Goto(Dispatcher, "putMessage", 0)
    BY <1>7 DEF MessagePutChat, At
  <2>2. /\ op'[Dispatcher] = "message" /\ arg'[Dispatcher] = arg[Dispatcher]
        /\ step'[Dispatcher] = "putMessage"
    BY <1>0, <2>1, GotoOnly
  <2>3. BoxInHand'
    BY <2>1, <2>2 DEF BoxInv, BoxInHand, messageTable
  <2>4. QED BY <1>2, <2>1, <2>3 DEF BoxInv
<1>8. CASE MessagePut(Dispatcher)
  <2>1. BoxInHand'
    BY <1>4, <1>5, <1>8 DEF MessagePut
  <2>2. op[Dispatcher] = "message"
    BY <1>8 DEF MessagePut, At
  <2>3. arg[Dispatcher] \in Theirs
    BY <1>0, <2>2 DEF RightOps
  <2>4. \/ UNCHANGED messageTable
        \/ PutMessage(arg[Dispatcher], 0, FALSE)
    BY <1>8, Zenon DEF MessagePut
  <2>5. ASSUME PutMessage(arg[Dispatcher], 0, FALSE) PROVE TextInv'
    <3>1. /\ \A x \in Theirs : body'[x] = body[x] \/ body'[x] = 0
          /\ \A x \in Theirs : x \notin msgRows' =>
               /\ x \notin msgRows
               /\ body'[x] = body[x] /\ deleted'[x] = deleted[x]
      BY <1>0, <2>3, <2>5 DEF PutMessage, TypeMessages
    <3>2. \A x \in Theirs : 0 <= wire[x]
      BY <1>0 DEF TypeWhatsApp
    <3>3. QED BY <1>1, <3>1, <3>2 DEF BoxInv, TextInv
  <2>6. QED BY <1>2, <2>1, <2>4, <2>5 DEF BoxInv
<1>9. CASE EditPut(Dispatcher)
  <2>1. BoxInHand'
    BY <1>4, <1>5, <1>9 DEF EditPut
  <2>2. op[Dispatcher] = "edit" /\ step[Dispatcher] = "putMessage"
    BY <1>9 DEF EditPut, At
  <2>3. arg[Dispatcher] \in Theirs
    BY <1>0, <2>2 DEF RightOps
  <2>4. \/ UNCHANGED messageTable
        \/ PutMessage(arg[Dispatcher], val[Dispatcher], dead[Dispatcher])
    BY <1>9 DEF EditPut
  <2>5. ASSUME PutMessage(arg[Dispatcher], val[Dispatcher], dead[Dispatcher])
        PROVE  TextInv'
    <3>1. /\ \A x \in Theirs :
               \/ body'[x] = body[x]
               \/ x = arg[Dispatcher] /\ body'[x] = val[Dispatcher]
          /\ \A x \in Theirs : x \notin msgRows' =>
               /\ x \notin msgRows
               /\ body'[x] = body[x] /\ deleted'[x] = deleted[x]
      BY <1>0, <2>3, <2>5 DEF PutMessage, TypeMessages
    <3>2. val[Dispatcher] <= wire[arg[Dispatcher]]
      BY <2>2 DEF BoxInv, BoxInHand
    <3>3. QED BY <1>1, <3>1, <3>2 DEF BoxInv, TextInv
  <2>6. QED BY <1>2, <2>1, <2>4, <2>5 DEF BoxInv
<1>10. CASE RevokePut(Dispatcher)
  <2>1. BoxInHand'
    BY <1>4, <1>5, <1>10 DEF RevokePut
  <2>2. UNCHANGED messageTable \/ SoftDelete(arg[Dispatcher])
    BY <1>10 DEF RevokePut
  <2>3. ASSUME SoftDelete(arg[Dispatcher]) PROVE TextInv'
    <3>1. /\ UNCHANGED <<msgRows, body>>
          /\ \A x \in Theirs : x \notin msgRows => deleted'[x] = deleted[x]
      BY <1>0, <2>3 DEF SoftDelete, TypeMessages
    <3>2. QED BY <1>1, <3>1 DEF BoxInv, TextInv
  <2>4. QED BY <1>2, <2>1, <2>2, <2>3 DEF BoxInv
<1>11. CASE Emit(Dispatcher)
  BY <1>2, <1>4, <1>11 DEF Emit, BoxInv
<1>12. QED BY <1>6, <1>7, <1>8, <1>9, <1>10, <1>11 DEF HandleIncoming

\* Every step keeps BoxInv when WhatsApp hands each message over once.
LEMMA BoxStep ==
  ASSUME MaxRedeliveries = 0, TypeInv, RightOps, NotYet, BoxInv, [Next]_vars
  PROVE  BoxInv'
<1>0. /\ TypeLocals /\ TypeMessages /\ TypeWhatsApp /\ Dispatcher \in Procs
      /\ redeliveries \in Nat /\ MaxEdits \in Nat
      /\ delivered \subseteq Theirs /\ Theirs \subseteq Msgs
  BY InboxAssumption DEF TypeInv, Procs, Msgs, TypeWhatsApp, TypeBounds
<1>1. ASSUME NEW m \in Theirs, TakeMessage(m) PROVE BoxInv'
  <2>1. /\ m \notin delivered /\ UNCHANGED <<msgRows, body, deleted, wire>>
    BY <1>0, <1>1 DEF TakeMessage, messageTable
  <2>2. op'[Dispatcher] = "message" /\ arg'[Dispatcher] = m
    BY <1>0, <1>1, BeginOnly DEF TakeMessage
  <2>3. m \notin msgRows
    BY <2>1 DEF NotYet
  <2>4. QED BY <2>1, <2>2, <2>3 DEF BoxInv, TextInv, BoxInHand
<1>2. ASSUME NEW m \in Theirs, TakeEdit(m) PROVE BoxInv'
  <2>1. /\ UNCHANGED <<msgRows, body, deleted>>
        /\ wire[m] < MaxEdits /\ wire' = [wire EXCEPT ![m] = @ + 1]
        /\ op[Dispatcher] = "idle"
    BY <1>2 DEF TakeEdit, messageTable
  <2>2. /\ wire'[m] = wire[m] + 1 /\ wire[m] \in Nat /\ body[m] \in Nat
        /\ \A x \in Theirs \ {m} : wire'[x] = wire[x]
    BY <1>0, <2>1 DEF TypeWhatsApp, TypeMessages
  <2>3. wire'[m] <= MaxEdits /\ body[m] < wire'[m]
    BY <1>0, <2>1, <2>2 DEF BoxInv, TextInv
  <2>4. TextInv'
    BY <2>1, <2>2, <2>3 DEF BoxInv, TextInv
  <2>5. CASE UNCHANGED locals
    BY <2>1, <2>4, <2>5 DEF locals, BoxInHand, BoxInv
  <2>6. CASE /\ m \in msgRows
             /\ Begin(Dispatcher, "edit", "putMessage", m, wire[m] + 1,
                      deleted[m])
    <3>1. /\ op'[Dispatcher] = "edit" /\ arg'[Dispatcher] = m
          /\ val'[Dispatcher] = wire[m] + 1 /\ dead'[Dispatcher] = deleted[m]
      BY <1>0, <2>6, BeginOnly
    <3>2. QED BY <2>1, <2>2, <2>3, <2>4, <2>6, <3>1 DEF BoxInHand, BoxInv
  <2>7. QED BY <1>2, <2>5, <2>6 DEF TakeEdit
<1>3. ASSUME NEW m \in Msgs, TakeRevoke(m) PROVE BoxInv'
  <2>1. UNCHANGED <<msgRows, body, deleted, wire>>
    BY <1>3 DEF TakeRevoke, messageTable
  <2>2. op'[Dispatcher] = "revoke"
    BY <1>0, <1>3, BeginOnly DEF TakeRevoke
  <2>3. QED BY <2>1, <2>2 DEF BoxInv, TextInv, BoxInHand
<1>4. CASE Restart
  BY <1>0, <1>4 DEF Restart, BoxInv, TextInv, BoxInHand, messageTable, whatsapp
<1>5. CASE ~Dispatch /\ ~Restart
  <2>1. PeersSame
    BY <1>5, OthersLeavePeers
  <2>2. op[Dispatcher] \in {"message", "edit"} => arg[Dispatcher] \in Theirs
    BY <1>0 DEF RightOps
  <2>3. QED BY <2>1, <2>2 DEF PeersSame, BoxInv, TextInv, BoxInHand
<1>6. QED BY <1>1, <1>2, <1>3, <1>4, <1>5, BoxHandle DEF Dispatch

\* What shows of the rows does not change when the rows of peers do not.
LEMMA BoxSame ==
  ASSUME TypeInv,
         \A m \in Theirs :
           /\ m \in msgRows' <=> m \in msgRows
           /\ body'[m] = body[m] /\ deleted'[m] = deleted[m]
  PROVE  UNCHANGED Box!mailVars
<1>1. msgRows' \cap Theirs = msgRows \cap Theirs
  OBVIOUS
<1>2. [m \in Theirs |-> body'[m]] = [m \in Theirs |-> body[m]]
  OBVIOUS
<1>3. {m \in Theirs : deleted'[m]} = {m \in Theirs : deleted[m]}
  OBVIOUS
<1>4. QED BY <1>1, <1>2, <1>3 DEF Box!mailVars

\* Every step is one of the mailbox's, or does not show.
LEMMA BoxRefines ==
  ASSUME TypeInv, RightOps, BoxInv, [Next]_vars
  PROVE  [Box!MailboxNext]_Box!mailVars
<1>0. /\ TypeLocals /\ TypeMessages /\ TypeWhatsApp
      /\ delivered \subseteq Theirs /\ Theirs \subseteq Msgs /\ MaxEdits \in Nat
  BY InboxAssumption DEF TypeInv, Msgs, TypeWhatsApp
<1>1. ASSUME UNCHANGED messageTable PROVE [Box!MailboxNext]_Box!mailVars
  <2>1. UNCHANGED Box!mailVars
    BY <1>1, BoxSame DEF messageTable
  <2>2. QED BY <2>1
<1>2. CASE MessagePut(Dispatcher)
  <2>1. op[Dispatcher] = "message" /\ step[Dispatcher] = "putMessage"
    BY <1>2 DEF MessagePut, At
  <2>2. arg[Dispatcher] \in Theirs /\ arg[Dispatcher] \notin msgRows
    BY <1>0, <2>1 DEF RightOps, BoxInv, BoxInHand
  <2>3. body[arg[Dispatcher]] = 0 /\ ~deleted[arg[Dispatcher]]
    BY <2>2 DEF BoxInv, TextInv
  <2>4. CASE PutMessage(arg[Dispatcher], 0, FALSE)
    <3>1. msgRows' \cap Theirs = (msgRows \cap Theirs) \cup {arg[Dispatcher]}
      BY <2>2, <2>4 DEF PutMessage
    <3>2. \A x \in Theirs : body'[x] = body[x] /\ deleted'[x] = deleted[x]
      BY <1>0, <2>2, <2>3, <2>4 DEF PutMessage, TypeMessages
    <3>3. [m \in Theirs |-> body'[m]] = [m \in Theirs |-> body[m]]
      BY <3>2
    <3>4. {m \in Theirs : deleted'[m]} = {m \in Theirs : deleted[m]}
      BY <3>2
    <3>5. Box!Post(arg[Dispatcher])
      BY <2>2, <3>1, <3>3, <3>4 DEF Box!Post
    <3>6. QED BY <2>2, <3>5 DEF Box!MailboxNext
  <2>5. UNCHANGED messageTable \/ PutMessage(arg[Dispatcher], 0, FALSE)
    BY <1>2, Zenon DEF MessagePut
  <2>6. QED BY <1>1, <2>4, <2>5
<1>3. CASE EditPut(Dispatcher)
  <2>1. op[Dispatcher] = "edit" /\ step[Dispatcher] = "putMessage"
    BY <1>3 DEF EditPut, At
  <2>a. PICK a : a = arg[Dispatcher]
    OBVIOUS
  <2>2. /\ a \in Theirs /\ a \in msgRows /\ body[a] < val[Dispatcher]
        /\ val[Dispatcher] <= wire[a] /\ dead[Dispatcher] = deleted[a]
    BY <1>0, <2>1, <2>a DEF RightOps, BoxInv, BoxInHand
  <2>3. val[Dispatcher] \in (body[a] + 1)..MaxEdits
    <3>1. /\ body[a] \in Nat /\ wire[a] \in Nat /\ val[Dispatcher] \in Nat
          /\ wire[a] <= MaxEdits
      BY <1>0, <2>2
         DEF TypeMessages, TypeWhatsApp, TypeLocals, Procs, BoxInv, TextInv
    <3>2. QED BY <1>0, <2>2, <3>1
  <2>4. CASE PutMessage(a, val[Dispatcher], dead[Dispatcher])
    <3>1. msgRows' \cap Theirs = msgRows \cap Theirs
      BY <2>2, <2>4 DEF PutMessage
    <3>2. /\ body'[a] = val[Dispatcher]
          /\ \A x \in Theirs \ {a} : body'[x] = body[x]
          /\ \A x \in Theirs : deleted'[x] = deleted[x]
      BY <1>0, <2>2, <2>4 DEF PutMessage, TypeMessages
    <3>3. [m \in Theirs |-> body'[m]]
            = [[m \in Theirs |-> body[m]] EXCEPT ![a] = val[Dispatcher]]
      BY <2>2, <3>2
    <3>4. {m \in Theirs : deleted'[m]} = {m \in Theirs : deleted[m]}
      BY <3>2
    <3>5. [m \in Theirs |-> body[m]][a] = body[a]
      BY <2>2
    <3>6. Box!Change(a)
      BY <2>2, <2>3, <3>1, <3>3, <3>4, <3>5 DEF Box!Change
    <3>7. QED BY <2>2, <3>6 DEF Box!MailboxNext
  <2>5. \/ UNCHANGED messageTable
        \/ PutMessage(a, val[Dispatcher], dead[Dispatcher])
    BY <1>3, <2>a DEF EditPut
  <2>6. QED BY <1>1, <2>4, <2>5
<1>4. CASE RevokePut(Dispatcher)
  <2>a. PICK a : a = arg[Dispatcher]
    OBVIOUS
  <2>1. UNCHANGED messageTable \/ SoftDelete(a)
    BY <1>4, <2>a DEF RevokePut
  <2>2. CASE SoftDelete(a) /\ a \in msgRows \cap Theirs
    <3>1. /\ UNCHANGED <<msgRows, body>>
          /\ \A x \in Theirs : deleted'[x] <=> deleted[x] \/ x = a
      BY <1>0, <2>2 DEF SoftDelete, TypeMessages
    <3>2. {m \in Theirs : deleted'[m]} = {m \in Theirs : deleted[m]} \cup {a}
      BY <2>2, <3>1
    <3>3. Box!Remove(a)
      BY <2>2, <3>1, <3>2 DEF Box!Remove
    <3>4. QED BY <2>2, <3>3 DEF Box!MailboxNext
  <2>3. CASE SoftDelete(a) /\ a \notin msgRows \cap Theirs
    <3>1. /\ UNCHANGED <<msgRows, body>>
          /\ \A x \in Theirs : deleted'[x] = deleted[x]
      BY <1>0, <2>3 DEF SoftDelete, TypeMessages
    <3>2. UNCHANGED Box!mailVars
      BY <3>1, BoxSame
    <3>3. QED BY <3>2
  <2>4. QED BY <1>1, <2>1, <2>2, <2>3
<1>5. CASE ~Dispatch /\ ~Restart
  <2>1. UNCHANGED Box!mailVars
    BY <1>5, OthersLeavePeers, BoxSame DEF PeersSame
  <2>2. QED BY <2>1
<1>6. CASE \/ \E m \in Theirs : TakeMessage(m) \/ TakeEdit(m)
           \/ \E m \in Msgs : TakeRevoke(m)
           \/ MessageGetChat(Dispatcher) \/ MessagePutChat(Dispatcher)
           \/ Emit(Dispatcher) \/ Restart
  BY <1>1, <1>6 DEF TakeMessage, TakeEdit, TakeRevoke, MessageGetChat,
                    MessagePutChat, Emit, Restart
<1>7. QED BY <1>2, <1>3, <1>4, <1>5, <1>6 DEF Dispatch, HandleIncoming

\* When WhatsApp hands each message over once, the API shows the messages of
\* peers as a mailbox: a message appears once, its text moves on to later
\* edits only, a removed message stays removed, whatever store calls fail and
\* whenever the daemon crashes.
THEOREM InboxImplementsMailbox ==
  ASSUME MaxRedeliveries = 0
  PROVE  Spec => ImplementsMailbox
<1>1. Init => Box!MailboxInit
  <2> SUFFICES ASSUME Init PROVE Box!MailboxInit
    OBVIOUS
  <2>1. Theirs \subseteq Msgs
    BY DEF Msgs
  <2>2. [m \in Theirs |-> body[m]] = [m \in Theirs |-> 0]
    BY <2>1 DEF Init
  <2>3. {m \in Theirs : deleted[m]} = {} /\ msgRows \cap Theirs = {}
    BY <2>1 DEF Init
  <2>4. QED BY <2>2, <2>3 DEF Box!MailboxInit
<1>2. Init => BoxInv
  BY InboxAssumption DEF Init, BoxInv, TextInv, BoxInHand, Procs, Msgs
<1>3. TypeInv /\ PeersIInv /\ BoxInv /\ [Next]_vars => BoxInv'
  BY BoxStep DEF PeersIInv
<1>4. TypeInv /\ PeersIInv /\ BoxInv /\ [Next]_vars
        => [Box!MailboxNext]_Box!mailVars
  BY BoxRefines DEF PeersIInv
<1>5. QED
  BY <1>1, <1>2, <1>3, <1>4, TypeInvAlways, PeersAlways, PTL
     DEF Spec, ImplementsMailbox, Box!MailboxSpec

-----------------------------------------------------------------------------
(* OursMirrored.                                                           *)

\* With no administrator to revoke ours, the dispatching goroutine works on
\* messages of peers alone.
PeersOnly == op[Dispatcher] # "idle" => arg[Dispatcher] \in Theirs

\* Then that is inductive.
LEMMA PeersOnlyStep ==
  ASSUME NoAdminRevokes, TypeInv, RightOps, PeersOnly, [Next]_vars
  PROVE  PeersOnly'
<1>0. TypeLocals /\ Dispatcher \in Procs /\ delivered \subseteq Theirs
  BY DEF TypeInv, Procs, TypeWhatsApp
<1>1. ASSUME NEW m \in Theirs, NEW o, NEW s, NEW v, NEW d,
             Begin(Dispatcher, o, s, m, v, d)
      PROVE  PeersOnly'
  BY <1>0, <1>1, BeginOnly DEF PeersOnly
<1>2. ASSUME UNCHANGED locals PROVE PeersOnly'
  BY <1>2 DEF locals, PeersOnly
<1>3. CASE \E m \in Theirs : TakeMessage(m) \/ TakeEdit(m)
  BY <1>1, <1>2, <1>3 DEF TakeMessage, TakeEdit
<1>4. CASE \E m \in Msgs : TakeRevoke(m)
  BY <1>0, <1>1, <1>4 DEF TakeRevoke, NoAdminRevokes
<1>5. CASE HandleIncoming(Dispatcher)
  <2>1. ASSUME NEW s, NEW v, Goto(Dispatcher, s, v) PROVE PeersOnly'
    BY <1>0, <2>1, GotoOnly DEF PeersOnly
  <2>2. ASSUME End(Dispatcher) PROVE PeersOnly'
    BY <1>0, <2>2, EndOnly DEF PeersOnly
  <2>3. QED
    BY <1>5, <2>1, <2>2 DEF HandleIncoming, MessageGetChat, MessagePutChat,
                            MessagePut, EditPut, RevokePut, Emit, GetChat
<1>6. CASE ~Dispatch /\ ~Restart
  BY <1>6, OthersLeavePeers DEF PeersSame, PeersOnly
<1>7. CASE Restart
  BY <1>0, <1>7 DEF Restart, PeersOnly
<1>8. QED BY <1>3, <1>4, <1>5, <1>6, <1>7 DEF Dispatch

\* What a step leaves alone when it is no request's: the rows of ours, our
\* reactions, what WhatsApp has of them, the connection and the workers.
OursSame ==
  /\ \A m \in Ours :
       /\ m \in msgRows' <=> m \in msgRows
       /\ body'[m] = body[m] /\ deleted'[m] = deleted[m]
       /\ wire'[m] = wire[m] /\ (m \in recalled' <=> m \in recalled)
  /\ \A m \in Msgs, s \in {"us", "nobody"} :
       reactions'[<<m, s>>] = reactions[<<m, s>>]
  /\ sent' = sent /\ wireReaction' = wireReaction
  /\ online' = online /\ cutOff' = cutOff
  /\ msgRows \subseteq msgRows'
  /\ \A w \in Workers : Keeps(w)

\* Events of peers leave all that alone.
LEMMA EventsLeaveOurs ==
  ASSUME NoAdminRevokes, TypeInv, RightOps, PeersOnly, [Next]_vars,
         \/ Dispatch
         \/ \E m \in Msgs, e \in Emoji \cup {NoEmoji} : HandleReaction(m, e)
         \/ \E batch \in SUBSET Ours : HandleReceipt(batch)
         \/ UNCHANGED vars
  PROVE  OursSame
<1>0. /\ TypeLocals /\ TypeMessages /\ TypeWhatsApp /\ TypeSide
      /\ Theirs \cap Ours = {} /\ Ours \subseteq Msgs /\ Theirs \subseteq Msgs
      /\ delivered \subseteq Theirs /\ msgRows \subseteq msgRows'
      /\ Dispatcher \in Procs /\ Workers = Procs \ {Dispatcher}
  BY InboxAssumption, RowsStay DEF TypeInv, TypeWhatsApp, Msgs, Procs
<1> DEFINE Rows == \A m \in Ours :
             /\ m \in msgRows' <=> m \in msgRows
             /\ body'[m] = body[m] /\ deleted'[m] = deleted[m]
           Wire == \A m \in Ours :
             wire'[m] = wire[m] /\ (m \in recalled' <=> m \in recalled)
           Reactions == \A m \in Msgs, s \in {"us", "nobody"} :
             reactions'[<<m, s>>] = reactions[<<m, s>>]
           Rest == /\ sent' = sent /\ wireReaction' = wireReaction
                   /\ online' = online /\ cutOff' = cutOff
           Locals == \A w \in Workers : Keeps(w)
<1>1. ASSUME Rows, Wire, Reactions, Rest, Locals PROVE OursSame
  BY <1>0, <1>1 DEF OursSame
<1>2. ASSUME UNCHANGED messageTable PROVE Rows
  BY <1>2 DEF messageTable
<1>3. ASSUME UNCHANGED locals PROVE Locals
  BY <1>3 DEF locals, Keeps
<1>4. CASE Dispatch
  <2>1. Locals
    BY <1>0, <1>4, DispatchOnly DEF OnlyMoves
  <2>2. Reactions /\ Rest
    BY <1>4 DEF Dispatch, TakeMessage, TakeEdit, TakeRevoke, HandleIncoming,
                MessageGetChat, MessagePutChat, MessagePut, EditPut,
                RevokePut, Emit, sideTables, whatsapp, bounds, connection
  <2>3. Rows
    <3> HIDE DEF Rows
    <3>1. ASSUME NEW b, NEW d, PutMessage(arg[Dispatcher], b, d),
                 arg[Dispatcher] \in Theirs
          PROVE  Rows
      BY <1>0, <3>1 DEF PutMessage, TypeMessages, Rows
    <3>2. ASSUME SoftDelete(arg[Dispatcher]), arg[Dispatcher] \in Theirs
          PROVE  Rows
      BY <1>0, <3>2 DEF SoftDelete, TypeMessages, Rows
    <3>3. ASSUME MessagePut(Dispatcher) PROVE Rows
      <4>1. /\ op[Dispatcher] = "message"
            /\ UNCHANGED messageTable \/ PutMessage(arg[Dispatcher], 0, FALSE)
        BY <3>3, Zenon DEF MessagePut, At
      <4>2. arg[Dispatcher] \in Theirs
        BY <4>1 DEF PeersOnly
      <4>3. QED BY <1>2, <3>1, <4>1, <4>2
    <3>4. ASSUME EditPut(Dispatcher) \/ RevokePut(Dispatcher) PROVE Rows
      <4>1. arg[Dispatcher] \in Theirs
        BY <3>4 DEF EditPut, RevokePut, At, PeersOnly
      <4>2. QED BY <1>2, <3>1, <3>2, <3>4, <4>1 DEF EditPut, RevokePut
    <3>5. ASSUME \/ \E m \in Theirs : TakeMessage(m) \/ TakeEdit(m)
                 \/ \E m \in Msgs : TakeRevoke(m)
                 \/ MessageGetChat(Dispatcher) \/ MessagePutChat(Dispatcher)
                 \/ Emit(Dispatcher)
          PROVE  Rows
      BY <1>2, <3>5 DEF TakeMessage, TakeEdit, TakeRevoke, MessageGetChat,
                        MessagePutChat, Emit
    <3>6. QED BY <1>4, <3>3, <3>4, <3>5 DEF Dispatch, HandleIncoming
  <2>4. Wire
    <3>1. ASSUME NEW m \in Theirs, TakeEdit(m) PROVE Wire
      BY <1>0, <3>1 DEF TakeEdit, TypeWhatsApp
    <3>2. ASSUME NEW m \in Msgs, TakeRevoke(m) PROVE Wire
      BY <1>0, <3>2 DEF TakeRevoke, NoAdminRevokes
    <3>3. ASSUME \/ \E m \in Theirs : TakeMessage(m)
                 \/ HandleIncoming(Dispatcher)
          PROVE  Wire
      BY <3>3 DEF TakeMessage, HandleIncoming, MessageGetChat, MessagePutChat,
                  MessagePut, EditPut, RevokePut, Emit, whatsapp
    <3> HIDE DEF Wire
    <3>4. QED BY <1>4, <3>1, <3>2, <3>3 DEF Dispatch
  <2>5. QED BY <1>1, <2>1, <2>2, <2>3, <2>4
<1>5. ASSUME NEW m \in Msgs, NEW e \in Emoji \cup {NoEmoji},
             HandleReaction(m, e)
      PROVE  OursSame
  <2>1. Rows /\ Wire /\ Rest /\ Locals
    BY <1>2, <1>3, <1>5 DEF HandleReaction, whatsapp, bounds
  <2>2. \/ reactions' = reactions
        \/ reactions' = [reactions EXCEPT ![<<m, "peer">>] = e]
    BY <1>5 DEF HandleReaction, SetReaction
  <2>3. Reactions
    BY <1>0, <2>2 DEF TypeSide, Senders
  <2>4. QED BY <1>1, <2>1, <2>3
<1>6. ASSUME NEW batch \in SUBSET Ours, HandleReceipt(batch)
      PROVE  OursSame
  <2>1. Rows /\ Wire /\ Reactions /\ Rest /\ Locals
    BY <1>2, <1>3, <1>6 DEF HandleReceipt, whatsapp, bounds
  <2>2. QED BY <1>1, <2>1
<1>7. CASE UNCHANGED vars
  BY <1>7 DEF vars, OursSame, Keeps
<1>8. QED BY <1>4, <1>5, <1>6, <1>7

\* What OursInv says when nothing went wrong.
OursFine == UnstoredInv /\ TextsAgree /\ ReactionsAgree /\ WritesAgree

\* Steps of others keep it.
LEMMA OursOthers ==
  ASSUME TypeInv, RightOps, OursFine, OursSame
  PROVE  OursFine'
<1>0. \A w \in Workers :
        /\ op[w] \in {"send", "editMessage", "deleteMessage"} => arg[w] \in Ours
        /\ w \in Procs
  BY DEF RightOps, Procs
<1>1. UnstoredInv'
  BY DEF OursFine, OursSame, UnstoredInv
<1>2. TextsAgree'
  BY DEF OursFine, OursSame, TextsAgree, At, Keeps
<1>3. ReactionsAgree'
  <2>1. ASSUME NEW m \in Msgs, ReactionAgrees(m)
        PROVE  ReactionAgrees(m)'
    BY <2>1 DEF OursSame, ReactionAgrees
  <2>2. ASSUME NEW m \in Msgs, NEW w \in Workers, op[w] = "react", arg[w] = m
        PROVE  op'[w] = "react" /\ arg'[w] = m
    BY <2>2 DEF OursSame, Keeps
  <2>3. QED BY <2>1, <2>2, Zenon DEF OursFine, ReactionsAgree
<1>4. WritesAgree'
  BY <1>0 DEF OursFine, OursSame, WritesAgree, At, Keeps
<1>5. QED BY <1>1, <1>2, <1>3, <1>4 DEF OursFine

\* Rows, WhatsApp and reactions agree, on every message.
AllAgree ==
  /\ \A m \in Ours \cap msgRows :
       m \in sent /\ body[m] = wire[m] /\ (deleted[m] <=> m \in recalled)
  /\ \A m \in Msgs : ReactionAgrees(m)

\* They do unless the one request is between WhatsApp and the store,
LEMMA FineAgrees ==
  ASSUME OneRequest, OursFine, NEW w \in Workers,
         ~At(w, "editMessage", "putMessage"),
         ~At(w, "deleteMessage", "softDelete"), op[w] # "react"
  PROVE  UnstoredInv /\ AllAgree
<1>1. \A v \in Workers : v = w
  BY DEF OneRequest
<1>2. QED
  BY <1>1 DEF OursFine, TextsAgree, ReactionsAgree, AllAgree

\* and when they do, a request that writes nothing more is fine.
LEMMA AgreeIsFine ==
  ASSUME OneRequest, NEW w \in Workers, UnstoredInv', AllAgree',
         \/ op'[w] \in {"idle", "read", "group"}
         \/ op'[w] = "send" /\ step'[w] \in {"getChat", "putChat"}
  PROVE  OursFine'
<1>1. \A v \in Workers : v = w
  BY DEF OneRequest
<1>2. UnstoredInv' /\ TextsAgree' /\ ReactionsAgree'
  BY DEF AllAgree, TextsAgree, ReactionsAgree
<1>3. WritesAgree'
  BY <1>1 DEF WritesAgree, At
<1>4. QED BY <1>2, <1>3 DEF OursFine

\* The state WhatsApp and the store share of our messages.
oursTables ==
  <<msgRows, body, deleted, wire, recalled, sent, reactions, wireReaction,
    cutOff>>

\* They agree still when it stays as it is.
LEMMA AgreeStays ==
  ASSUME UnstoredInv, AllAgree, UNCHANGED oursTables
  PROVE  UnstoredInv' /\ AllAgree'
  BY DEF oursTables, UnstoredInv, AllAgree, ReactionAgrees

\* A request begins: everything agrees, and what it has in hand suits.
LEMMA OursRequest ==
  ASSUME OneRequest, TypeInv, OursFine, NEW w \in Workers, Request(w)
  PROVE  OursFine'
<1>0. /\ TypeLocals /\ TypeMessages /\ TypeWhatsApp /\ w \in Procs
      /\ Ours \subseteq Msgs /\ \A v \in Workers : v = w
  BY DEF TypeInv, Procs, Msgs, OneRequest
<1>1. UnstoredInv /\ AllAgree
  <2>1. op[w] = "idle"
    BY DEF Request, Send, EditMessage, DeleteMessage, MarkRead, React,
           CreateGroup, Begin
  <2>2. QED BY <2>1, FineAgrees DEF At
<1>2. ASSUME UNCHANGED oursTables
      PROVE  UnstoredInv' /\ AllAgree' /\ TextsAgree' /\ ReactionsAgree'
  <2>1. UnstoredInv' /\ AllAgree'
    BY <1>1, <1>2, AgreeStays
  <2>2. QED BY <2>1 DEF AllAgree, TextsAgree, ReactionsAgree
<1>3. ASSUME NEW m \in Ours, Send(w, m) PROVE OursFine'
  <2>1. /\ m \notin sent /\ sent' = sent \cup {m}
        /\ UNCHANGED <<msgRows, body, deleted, wire, recalled, reactions,
                       wireReaction, cutOff>>
    BY <1>3 DEF Send, messageTable, sideTables, bounds
  <2>2. /\ op'[w] = "send" /\ arg'[w] = m /\ step'[w] = "putMessage"
    BY <1>0, <1>3, BeginOnly DEF Send
  <2>3. m \notin msgRows
    BY <1>1, <2>1 DEF AllAgree
  <2>4. UnstoredInv' /\ TextsAgree' /\ ReactionsAgree'
    BY <1>1, <2>1 DEF UnstoredInv, AllAgree, TextsAgree, ReactionsAgree,
                      ReactionAgrees
  <2>5. WritesAgree'
    BY <1>0, <2>1, <2>2, <2>3 DEF WritesAgree, At
  <2>6. QED BY <2>4, <2>5 DEF OursFine
<1>4. ASSUME NEW m \in Msgs, EditMessage(w, m) PROVE OursFine'
  <2>1. UNCHANGED oursTables
    BY <1>4 DEF EditMessage, messageTable, sideTables, whatsapp, bounds,
                oursTables
  <2>2. /\ op'[w] = "editMessage" /\ arg'[w] = m /\ step'[w] = "whatsapp"
        /\ dead'[w] = deleted[m]
    BY <1>0, <1>4, BeginOnly DEF EditMessage
  <2>3. m \in msgRows \cap Ours /\ (deleted[m] <=> m \in recalled)
    BY <1>1, <1>4 DEF EditMessage, MayChange, AllAgree
  <2>4. WritesAgree'
    BY <1>0, <2>1, <2>2, <2>3 DEF WritesAgree, At, oursTables
  <2>5. QED BY <1>2, <2>1, <2>4 DEF OursFine
<1>5. ASSUME NEW m \in Msgs, DeleteMessage(w, m) PROVE OursFine'
  <2>1. UNCHANGED oursTables
    BY <1>5 DEF DeleteMessage, messageTable, sideTables, whatsapp, bounds,
                oursTables
  <2>2. op'[w] = "deleteMessage" /\ arg'[w] = m /\ step'[w] = "whatsapp"
    BY <1>0, <1>5, BeginOnly DEF DeleteMessage
  <2>3. m \in msgRows \cap Ours /\ body[m] = wire[m]
    BY <1>1, <1>5 DEF DeleteMessage, MayChange, AllAgree
  <2>4. WritesAgree'
    BY <1>0, <2>1, <2>2, <2>3 DEF WritesAgree, At, oursTables
  <2>5. QED BY <1>2, <2>1, <2>4 DEF OursFine
<1>6. ASSUME NEW m \in Msgs, MarkRead(w, m) PROVE OursFine'
  <2>1. UNCHANGED oursTables
    BY <1>6 DEF MarkRead, messageTable, sideTables, whatsapp, bounds,
                oursTables
  <2>2. op'[w] = "read"
    BY <1>0, <1>6, BeginOnly DEF MarkRead
  <2>3. QED BY <1>2, <2>1, <2>2, AgreeIsFine
<1>7. ASSUME NEW m \in Msgs, NEW e \in Emoji \cup {NoEmoji}, React(w, m, e)
      PROVE  OursFine'
  <2>1. /\ m \in msgRows /\ wireReaction' = [wireReaction EXCEPT ![m] = e]
        /\ cutOff' = cutOff \ {m} /\ online'
        /\ UNCHANGED <<msgRows, body, deleted, wire, recalled, sent,
                       reactions>>
    BY <1>7 DEF React, messageTable, sideTables
  <2>2. op'[w] = "react" /\ arg'[w] = m /\ val'[w] = e
    BY <1>0, <1>7, BeginOnly DEF React
  <2>3. /\ wireReaction'[m] = e
        /\ \A x \in Msgs \ {m} : wireReaction'[x] = wireReaction[x]
    BY <1>0, <2>1 DEF TypeWhatsApp
  <2>4. UnstoredInv' /\ TextsAgree'
    BY <1>1, <2>1 DEF UnstoredInv, AllAgree, TextsAgree
  <2>5. ReactionsAgree'
    <3>1. ASSUME NEW x \in Msgs, x # m
          PROVE  ReactionAgrees(x)'
      BY <1>1, <2>1, <2>3, <3>1 DEF AllAgree, ReactionAgrees
    <3>2. QED BY <2>2, <3>1, Zenon DEF ReactionsAgree
  <2>6. WritesAgree'
    BY <1>0, <2>1, <2>2, <2>3 DEF WritesAgree, At
  <2>7. QED BY <2>4, <2>5, <2>6 DEF OursFine
<1>8. ASSUME NEW c \in Groups, CreateGroup(w, c) PROVE OursFine'
  <2>1. UNCHANGED oursTables
    BY <1>8 DEF CreateGroup, messageTable, sideTables, bounds, oursTables
  <2>2. op'[w] = "group"
    BY <1>0, <1>8, BeginOnly DEF CreateGroup
  <2>3. QED BY <1>2, <2>1, <2>2, AgreeIsFine
<1>9. QED BY <1>3, <1>4, <1>5, <1>6, <1>7, <1>8 DEF Request

\* A request's next call: what WhatsApp took is in hand until it is written,
\* and written it agrees.
LEMMA OursPerform ==
  ASSUME OneRequest, TypeInv, RightOps, OursFine, UNCHANGED failures,
         NEW w \in Workers, Perform(w)
  PROVE  OursFine'
<1>0. /\ TypeLocals /\ TypeMessages /\ TypeWhatsApp /\ TypeSide /\ w \in Procs
      /\ Ours \subseteq Msgs /\ failures \in Nat
      /\ \A v \in Workers : v = w
  BY DEF TypeInv, Procs, Msgs, OneRequest, TypeBounds
<1>f. ~Fails
  BY <1>0 DEF Fails
<1>h. /\ op[w] \in {"send", "editMessage", "deleteMessage"} => arg[w] \in Ours
      /\ op[w] = "react" => arg[w] \in Msgs
  BY <1>0 DEF RightOps, TypeInv, InHand
<1>e. ASSUME End(w), UnstoredInv', AllAgree' PROVE OursFine'
  BY <1>0, <1>e, EndOnly, AgreeIsFine
<1>1. CASE SendPutMessage(w)
  <2>1. /\ op[w] = "send" /\ step[w] = "putMessage"
        /\ Goto(w, "getChat", 0)
        /\ UNCHANGED <<wire, recalled, sent, reactions, wireReaction, cutOff>>
    BY <1>1 DEF SendPutMessage, At, sideTables, whatsapp, bounds
  <2>2. UNCHANGED messageTable \/ PutMessage(arg[w], 0, FALSE)
    BY <1>1, Zenon DEF SendPutMessage
  <2>3. UnstoredInv /\ AllAgree
    BY <2>1, FineAgrees DEF At
  <2>4. /\ arg[w] \in Ours /\ arg[w] \in sent /\ arg[w] \notin msgRows
        /\ wire[arg[w]] = 0 /\ arg[w] \notin recalled
    BY <1>h, <2>1 DEF OursFine, WritesAgree, UnstoredInv, At
  <2>5. CASE PutMessage(arg[w], 0, FALSE)
    <3>1. /\ msgRows' = msgRows \cup {arg[w]}
          /\ body'[arg[w]] = 0 /\ ~deleted'[arg[w]]
          /\ \A x \in Ours : x # arg[w] =>
               body'[x] = body[x] /\ deleted'[x] = deleted[x]
      BY <1>0, <2>4, <2>5 DEF PutMessage, TypeMessages
    <3>2. UnstoredInv' /\ AllAgree'
      BY <2>1, <2>3, <2>4, <3>1 DEF UnstoredInv, AllAgree, ReactionAgrees
    <3>3. QED BY <1>0, <2>1, <3>2, GotoOnly, AgreeIsFine
  <2>6. CASE UNCHANGED messageTable
    <3>1. UnstoredInv' /\ AllAgree'
      BY <2>1, <2>3, <2>6, AgreeStays DEF oursTables, messageTable
    <3>2. QED BY <1>0, <2>1, <3>1, GotoOnly, AgreeIsFine
  <2>7. QED BY <2>2, <2>5, <2>6
<1>2. CASE \/ SendGetChat(w) \/ SendPutChat(w) \/ ReadGetChat(w)
           \/ ReadPutChat(w) \/ GroupPutChat(w)
  <2>1. UNCHANGED oursTables
    BY <1>2 DEF SendGetChat, SendPutChat, ReadGetChat, ReadPutChat,
                GroupPutChat, messageTable, sideTables, whatsapp, bounds,
                oursTables
  <2>2. op[w] \in {"send", "read", "group"}
    BY <1>2 DEF SendGetChat, SendPutChat, ReadGetChat, ReadPutChat,
                GroupPutChat, At
  <2>3. UnstoredInv' /\ AllAgree'
    BY <2>1, <2>2, FineAgrees, AgreeStays DEF At
  <2>4. ASSUME NEW v, Goto(w, "putChat", v) PROVE OursFine'
    BY <1>0, <2>2, <2>3, <2>4, GotoOnly, AgreeIsFine
  <2>5. QED
    BY <1>2, <1>e, <2>3, <2>4 DEF SendGetChat, SendPutChat, ReadGetChat,
                                  ReadPutChat, GroupPutChat, GetChat
<1>3. CASE EditSend(w)
  <2>1. /\ op[w] = "editMessage" /\ step[w] = "whatsapp"
        /\ UNCHANGED <<msgRows, body, deleted, recalled, sent, reactions,
                       wireReaction, cutOff>>
    BY <1>3 DEF EditSend, At, messageTable, sideTables, bounds
  <2>2. UnstoredInv /\ AllAgree
    BY <2>1, FineAgrees DEF At
  <2>3. CASE UNCHANGED wire /\ End(w)
    BY <1>e, <2>1, <2>2, <2>3, AgreeStays DEF oursTables
  <2>4. CASE /\ wire' = [wire EXCEPT ![arg[w]] = @ + 1]
             /\ Goto(w, "putMessage", wire[arg[w]] + 1)
    <3>1. /\ arg[w] \in Ours /\ arg[w] \in msgRows
          /\ dead[w] = deleted[arg[w]]
          /\ deleted[arg[w]] <=> arg[w] \in recalled
      BY <1>h, <2>1 DEF OursFine, WritesAgree
    <3>2. /\ wire'[arg[w]] = wire[arg[w]] + 1
          /\ \A x \in Ours : x # arg[w] => wire'[x] = wire[x]
      BY <1>0, <2>4, <3>1 DEF TypeWhatsApp
    <3>3. /\ op'[w] = "editMessage" /\ step'[w] = "putMessage"
          /\ arg'[w] = arg[w] /\ val'[w] = wire[arg[w]] + 1
          /\ dead'[w] = dead[w]
      BY <1>0, <2>1, <2>4, GotoOnly
    <3>4. UnstoredInv' /\ ReactionsAgree'
      BY <2>1, <2>2, <3>1, <3>2 DEF UnstoredInv, AllAgree, ReactionsAgree,
                                    ReactionAgrees
    <3>5. TextsAgree'
      BY <2>1, <2>2, <3>2, <3>3 DEF AllAgree, TextsAgree, At
    <3>6. WritesAgree'
      BY <1>0, <2>1, <3>1, <3>2, <3>3 DEF WritesAgree, At
    <3>7. QED BY <3>4, <3>5, <3>6 DEF OursFine
  <2>5. QED BY <1>3, <2>3, <2>4 DEF EditSend
<1>4. CASE EditPersist(w)
  <2>1. /\ op[w] = "editMessage" /\ step[w] = "putMessage"
        /\ PutMessage(arg[w], val[w], dead[w]) /\ End(w)
        /\ UNCHANGED <<wire, recalled, sent, reactions, wireReaction, cutOff>>
    BY <1>4, <1>f DEF EditPersist, At, sideTables, whatsapp, bounds
  <2>2. /\ arg[w] \in Ours /\ arg[w] \in msgRows /\ val[w] = wire[arg[w]]
        /\ dead[w] = deleted[arg[w]]
        /\ deleted[arg[w]] <=> arg[w] \in recalled
    BY <1>h, <2>1 DEF OursFine, WritesAgree, At
  <2>3. /\ msgRows' = msgRows
        /\ body'[arg[w]] = val[w] /\ deleted'[arg[w]] = dead[w]
        /\ \A x \in Ours : x # arg[w] =>
             body'[x] = body[x] /\ deleted'[x] = deleted[x]
    BY <1>0, <2>1, <2>2 DEF PutMessage, TypeMessages
  <2>4. /\ \A x \in Ours \cap msgRows :
             /\ x \in sent /\ (body[x] = wire[x] \/ x = arg[w])
             /\ deleted[x] <=> x \in recalled
        /\ \A x \in Msgs : ReactionAgrees(x)
    BY <1>0, <2>1 DEF OursFine, TextsAgree, ReactionsAgree, At
  <2>r. \A x \in Msgs : ReactionAgrees(x)'
    BY <2>1, <2>4 DEF ReactionAgrees
  <2>5. UnstoredInv' /\ AllAgree'
    BY <2>1, <2>2, <2>3, <2>4, <2>r DEF OursFine, UnstoredInv, AllAgree
  <2>6. QED BY <1>e, <2>1, <2>5
<1>5. CASE DeleteSend(w)
  <2>1. /\ op[w] = "deleteMessage" /\ step[w] = "whatsapp"
        /\ UNCHANGED <<msgRows, body, deleted, wire, sent, reactions,
                       wireReaction, cutOff>>
    BY <1>5 DEF DeleteSend, At, messageTable, sideTables, bounds
  <2>2. UnstoredInv /\ AllAgree
    BY <2>1, FineAgrees DEF At
  <2>3. CASE UNCHANGED recalled /\ End(w)
    BY <1>e, <2>1, <2>2, <2>3, AgreeStays DEF oursTables
  <2>4. CASE recalled' = recalled \cup {arg[w]} /\ Goto(w, "softDelete", 0)
    <3>1. /\ arg[w] \in Ours /\ arg[w] \in msgRows
          /\ body[arg[w]] = wire[arg[w]]
      BY <1>h, <2>1 DEF OursFine, WritesAgree
    <3>2. /\ op'[w] = "deleteMessage" /\ step'[w] = "softDelete"
          /\ arg'[w] = arg[w]
      BY <1>0, <2>1, <2>4, GotoOnly
    <3>3. UnstoredInv' /\ ReactionsAgree'
      BY <2>1, <2>2, <2>4, <3>1 DEF UnstoredInv, AllAgree, ReactionsAgree,
                                    ReactionAgrees
    <3>4. TextsAgree'
      BY <2>1, <2>2, <2>4, <3>2 DEF AllAgree, TextsAgree, At
    <3>5. WritesAgree'
      BY <1>0, <2>1, <2>4, <3>1, <3>2 DEF WritesAgree, At
    <3>6. QED BY <3>3, <3>4, <3>5 DEF OursFine
  <2>5. QED BY <1>5, <2>3, <2>4 DEF DeleteSend
<1>6. CASE DeletePersist(w)
  <2>1. /\ op[w] = "deleteMessage" /\ step[w] = "softDelete"
        /\ SoftDelete(arg[w]) /\ End(w)
        /\ UNCHANGED <<wire, recalled, sent, reactions, wireReaction, cutOff>>
    BY <1>6, <1>f DEF DeletePersist, At, sideTables, whatsapp, bounds
  <2>2. /\ arg[w] \in Ours /\ arg[w] \in msgRows /\ arg[w] \in recalled
    BY <1>h, <2>1 DEF OursFine, WritesAgree, At
  <2>3. /\ msgRows' = msgRows /\ body' = body /\ deleted'[arg[w]]
        /\ \A x \in Ours : x # arg[w] => deleted'[x] = deleted[x]
    BY <1>0, <2>1, <2>2 DEF SoftDelete, TypeMessages
  <2>4. /\ \A x \in Ours \cap msgRows :
             /\ x \in sent /\ body[x] = wire[x]
             /\ (deleted[x] <=> x \in recalled) \/ x = arg[w]
        /\ \A x \in Msgs : ReactionAgrees(x)
    BY <1>0, <2>1 DEF OursFine, TextsAgree, ReactionsAgree, At
  <2>r. \A x \in Msgs : ReactionAgrees(x)'
    BY <2>1, <2>4 DEF ReactionAgrees
  <2>5. UnstoredInv'
    BY <2>1, <2>3 DEF OursFine, UnstoredInv
  <2>6. \A x \in Ours \cap msgRows : deleted'[x] <=> x \in recalled
    BY <2>2, <2>3, <2>4
  <2>7. AllAgree'
    BY <2>1, <2>3, <2>4, <2>6, <2>r DEF AllAgree
  <2>8. QED BY <1>e, <2>1, <2>5, <2>7
<1>7. CASE ReactPersist(w)
  <2>a. PICK a : a = arg[w]
    OBVIOUS
  <2>s. PICK s : s = ourJID
    OBVIOUS
  <2>1. /\ op[w] = "react" /\ End(w)
        /\ reactions' = [reactions EXCEPT ![<<a, s>>] = val[w]]
        /\ UNCHANGED <<msgRows, body, deleted, wire, recalled, sent,
                       wireReaction, cutOff>>
    BY <1>7, <1>f, <2>a, <2>s
       DEF ReactPersist, SetReaction, At, messageTable, whatsapp, bounds
  <2>2. a \in Msgs /\ val[w] = wireReaction[a] /\ (~online => a \in cutOff)
    BY <1>h, <2>1, <2>a DEF OursFine, WritesAgree
  <2>3. s \in Senders /\ (s = "us" \/ (s = "nobody" /\ ~online))
    BY <2>s DEF ourJID, Senders
  <2>4. /\ reactions'[<<a, s>>] = val[w]
        /\ \A x \in Msgs, t \in Senders : x # a =>
             reactions'[<<x, t>>] = reactions[<<x, t>>]
    BY <1>0, <2>1, <2>2, <2>3 DEF TypeSide
  <2>5. ReactionAgrees(a)'
    BY <2>1, <2>2, <2>3, <2>4 DEF ReactionAgrees
  <2>6. ASSUME NEW x \in Msgs, x # a PROVE ReactionAgrees(x)'
    <3>1. ReactionAgrees(x)
      BY <1>0, <2>6, <2>a DEF OursFine, ReactionsAgree
    <3>2. QED BY <2>1, <2>4, <2>6, <3>1 DEF ReactionAgrees, Senders
  <2>7. \A x \in Ours \cap msgRows :
          x \in sent /\ body[x] = wire[x] /\ (deleted[x] <=> x \in recalled)
    BY <1>0, <2>1 DEF OursFine, TextsAgree, At
  <2>8. UnstoredInv' /\ AllAgree'
    BY <2>1, <2>5, <2>6, <2>7 DEF OursFine, UnstoredInv, AllAgree
  <2>9. QED BY <1>e, <2>1, <2>8
<1>8. QED BY <1>1, <1>2, <1>3, <1>4, <1>5, <1>6, <1>7 DEF Perform

\* Nor does the connection matter to them, but that a reaction whose request
\* it cuts off is remembered.
LEMMA OursConnection ==
  ASSUME TypeInv, OursFine, Disconnect \/ Connect
  PROVE  OursFine'
<1>1. /\ UNCHANGED <<msgRows, body, deleted, wire, recalled, sent, reactions,
                     wireReaction, op, step, arg, val, dead>>
      /\ cutOff \subseteq cutOff'
      /\ online' \/ \A w \in Workers : op[w] = "react" => arg[w] \in cutOff'
  BY DEF Disconnect, Connect, messageTable, sideTables, whatsapp, locals
<1>2. UnstoredInv' /\ TextsAgree' /\ ReactionsAgree'
  BY <1>1 DEF OursFine, UnstoredInv, TextsAgree, ReactionsAgree,
              ReactionAgrees, At
<1>3. WritesAgree'
  BY <1>1 DEF OursFine, WritesAgree, At
<1>4. QED BY <1>2, <1>3 DEF OursFine

\* Until something goes wrong every step keeps our messages in agreement.
LEMMA OursStep ==
  ASSUME OneRequest, NoAdminRevokes, TypeInv, RightOps, PeersOnly, OursInv,
         [Next]_vars
  PROVE  OursInv'
<1> SUFFICES ASSUME NothingWentWrong' PROVE OursFine'
  BY DEF OursInv, OursFine
<1>1. OursFine /\ UNCHANGED <<failures, redeliveries, restarts>>
  BY NothingBefore DEF OursInv, OursFine
<1>2. CASE \/ Dispatch
           \/ \E m \in Msgs, e \in Emoji \cup {NoEmoji} : HandleReaction(m, e)
           \/ \E batch \in SUBSET Ours : HandleReceipt(batch)
           \/ UNCHANGED vars
  BY <1>1, <1>2, EventsLeaveOurs, OursOthers
<1>3. CASE \E w \in Workers : Request(w) \/ Perform(w)
  BY <1>1, <1>3, OursRequest, OursPerform
<1>4. CASE Restart
  BY <1>1, <1>4 DEF Restart, TypeInv, TypeBounds
<1>5. CASE \E w \in Workers : AnswerLost(w)
  BY <1>1, <1>5 DEF AnswerLost, Fails, TypeInv, TypeBounds
<1>6. CASE Disconnect \/ Connect
  BY <1>1, <1>6, OursConnection
<1>7. QED BY NextCases, <1>2, <1>3, <1>4, <1>5, <1>6

\* When nothing went wrong, requests come one at a time and no administrator
\* revokes what we sent, the stored row of each message of ours agrees with
\* WhatsApp between requests: text, deletion and our reaction, which only when
\* the connection was lost during its request may be under nobody's name.
THEOREM InboxMirrorsOurs ==
  ASSUME OneRequest, NoAdminRevokes
  PROVE  Spec => []OursMirrored
<1>1. Init => PeersOnly /\ OursInv
  BY DEF Init, PeersOnly, OursInv, UnstoredInv, TextsAgree, ReactionsAgree,
         ReactionAgrees, WritesAgree, At, Procs, Msgs, Senders
<1>2. TypeInv /\ PeersIInv /\ PeersOnly /\ OursInv /\ [Next]_vars
        => PeersOnly' /\ OursInv'
  BY PeersOnlyStep, OursStep DEF PeersIInv
<1>3. TypeInv /\ OursInv => OursMirrored
  <2> SUFFICES ASSUME TypeInv, OursInv, NothingWentWrong,
                      \A w \in Workers : op[w] = "idle",
                      NEW m \in msgRows
               PROVE  /\ m \in Ours => body[m] = wire[m]
                                       /\ (deleted[m] <=> m \in recalled)
                      /\ ReactionAgrees(m)
    BY DEF OursMirrored, ReactionAgrees
  <2>1. m \in Msgs
    BY DEF TypeInv, TypeMessages
  <2>2. QED BY <2>1 DEF OursInv, TextsAgree, ReactionsAgree, At
<1>4. QED BY <1>1, <1>2, <1>3, TypeInvAlways, PeersAlways, PTL DEF Spec

=============================================================================
