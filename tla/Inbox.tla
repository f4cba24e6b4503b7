------------------------------- MODULE Inbox -------------------------------
(***************************************************************************)
(* The service layer over the app store: handleIncoming and handleReceipt, *)
(* run for one whatsmeow event at a time by the dispatching goroutine, and *)
(* the API operations, run by HTTP goroutines beside it.  None of them     *)
(* opens a transaction or takes a lock: an operation is a sequence of      *)
(* single statements, and another operation may come between any two.      *)
(*                                                                         *)
(* A message's text is the number of times it was edited.  WhatsApp itself *)
(* is the environment: it keeps what was sent, edited and revoked, hands   *)
(* events over, sometimes twice, and answers calls or refuses them; the    *)
(* connection to it comes and goes.  What the account does on its other    *)
(* devices is left out: translateIncoming drops it.  So are contacts,      *)
(* media, names, archive flags and timestamps.                             *)
(***************************************************************************)
EXTENDS Integers, FiniteSets

CONSTANTS
  Chats,           \* chats the account already has
  Groups,          \* groups it has yet to create
  Theirs,          \* messages peers send
  Ours,            \* messages the API sends
  ChatOf,          \* the chat of each message
  Workers,         \* HTTP goroutines
  Dispatcher,      \* the goroutine whatsmeow calls its handlers on
  Events,          \* kinds of whatsmeow event in a run
  Ops,             \* API operations in a run
  Emoji,           \* emoji there are; clearing a reaction is NoEmoji
  MaxEdits,        \* bound: edits of one message
  MaxRedeliveries, \* bound: message events handed over again
  MaxFailures,     \* bound: store calls that fail and answers that are lost
  MaxRestarts,     \* bound: crashes of the daemon
  MaxDrops         \* bound: connections lost, crashes included

Msgs  == Theirs \cup Ours
Procs == Workers \cup {Dispatcher}
Jids  == Chats \cup Groups

NoEmoji == 0

AllEvents == {"message", "edit", "revokeTheirs", "revokeOurs", "reaction",
              "receipt"}
AllOps == {"send", "edit", "delete", "react", "read", "group"}

ASSUME InboxAssumption ==
  /\ Theirs \cap Ours = {} /\ Chats \cap Groups = {}
  /\ ChatOf \in [Msgs -> Jids]
  /\ Dispatcher \notin Workers
  /\ Events \subseteq AllEvents /\ Ops \subseteq AllOps
  /\ IsFiniteSet(Msgs)
  /\ Emoji \subseteq Nat \ {NoEmoji}
  /\ MaxEdits \in Nat /\ MaxRedeliveries \in Nat
  /\ MaxFailures \in Nat /\ MaxRestarts \in Nat /\ MaxDrops \in Nat

VARIABLES
  chatRows,     \* chats: the rows there are
  unread,       \* chats: unread_count of each row
  msgRows,      \* messages: the rows there are
  body,         \* messages: the text of each row
  deleted,      \* messages: whether deleted_at of each row is set
  reactions,    \* reactions: emoji of each sender on each message
  receipts,     \* receipts: the messages that have a row
  announced,    \* what was emitted: a type and the message ids it names
  opened,       \* WhatsApp: chats that exist
  delivered,    \* WhatsApp: messages of peers handed to the daemon
  deliveries,   \* WhatsApp: message events handed over, per chat
  sent,         \* WhatsApp: messages of ours it accepted
  wire,         \* WhatsApp: the text of each message
  recalled,     \* WhatsApp: messages revoked
  wireReaction, \* WhatsApp: our emoji on each message
  op,           \* per goroutine: the operation it is in
  step,         \* per goroutine: the call it makes next
  arg,          \* per goroutine: the message, or chat, it works on
  val,          \* per goroutine: the number it read, or is to write
  dead,         \* per goroutine: deleted_at of the row it read
  online,       \* connected and logged in: Status has our JID
  cutOff,       \* messages we reacted to last while the connection was lost
  failures, redeliveries, restarts, drops

chatTable    == <<chatRows, unread>>
messageTable == <<msgRows, body, deleted>>
sideTables   == <<reactions, receipts, announced>>
whatsapp     == <<opened, delivered, deliveries, sent, wire, recalled,
                  wireReaction>>
locals       == <<op, step, arg, val, dead>>
connection   == <<online, cutOff, drops>>
bounds       == <<redeliveries, restarts, online, cutOff, drops>>
vars == <<chatRows, unread, msgRows, body, deleted, reactions, receipts,
          announced, opened, delivered, deliveries, sent, wire, recalled,
          wireReaction, op, step, arg, val, dead, failures,
          redeliveries, restarts, online, cutOff, drops>>

NoArg == "none"
Senders == {"us", "peer", "nobody"}

Init ==
  /\ chatRows = {} /\ unread = [c \in Jids |-> 0]
  /\ msgRows = {} /\ body = [m \in Msgs |-> 0]
  /\ deleted = [m \in Msgs |-> FALSE]
  /\ reactions = [x \in Msgs \X Senders |-> NoEmoji]
  /\ receipts = {} /\ announced = {}
  /\ opened = Chats /\ delivered = {} /\ deliveries = [c \in Jids |-> 0]
  /\ sent = {} /\ wire = [m \in Msgs |-> 0] /\ recalled = {}
  /\ wireReaction = [m \in Msgs |-> NoEmoji]
  /\ op = [p \in Procs |-> "idle"] /\ step = [p \in Procs |-> "idle"]
  /\ arg = [p \in Procs |-> NoArg] /\ val = [p \in Procs |-> 0]
  /\ dead = [p \in Procs |-> FALSE]
  /\ online = TRUE /\ cutOff = {}
  /\ failures = 0 /\ redeliveries = 0 /\ restarts = 0 /\ drops = 0

-----------------------------------------------------------------------------
(* A goroutine in an operation.                                            *)

At(p, o, s) == op[p] = o /\ step[p] = s

\* Starts operation o on a, with v and d in hand, at step s.
Begin(p, o, s, a, v, d) ==
  /\ op[p] = "idle"
  /\ op' = [op EXCEPT ![p] = o]
  /\ step' = [step EXCEPT ![p] = s]
  /\ arg' = [arg EXCEPT ![p] = a]
  /\ val' = [val EXCEPT ![p] = v]
  /\ dead' = [dead EXCEPT ![p] = d]

Goto(p, s, v) ==
  /\ step' = [step EXCEPT ![p] = s]
  /\ val' = [val EXCEPT ![p] = v]
  /\ UNCHANGED <<op, arg, dead>>

End(p) ==
  /\ op' = [op EXCEPT ![p] = "idle"]
  /\ step' = [step EXCEPT ![p] = "idle"]
  /\ arg' = [arg EXCEPT ![p] = NoArg]
  /\ val' = [val EXCEPT ![p] = 0]
  /\ dead' = [dead EXCEPT ![p] = FALSE]

\* A store call succeeds, or fails and changes nothing; so does an answer of
\* WhatsApp arrive, or get lost.
Works == UNCHANGED failures
Fails == failures < MaxFailures /\ failures' = failures + 1

-----------------------------------------------------------------------------
(* The store: one statement each.                                          *)

\* ChatStore.Put: the whole row is overwritten.
PutChat(c, n) ==
  /\ chatRows' = chatRows \cup {c}
  /\ unread' = [unread EXCEPT ![c] = n]

\* ChatStore.Get as its callers use it: an error counts as a new chat.
GetChat(p, c, next) ==
  \/ Works /\ Goto(p, next, IF c \in chatRows THEN unread[c] ELSE 0)
  \/ Fails /\ Goto(p, next, 0)

\* messages.chat_jid REFERENCES chats(jid).
ChatExists(m) == ChatOf[m] \in chatRows

\* MessageStore.Put: every column of the row is overwritten.
PutMessage(m, b, d) ==
  /\ msgRows' = msgRows \cup {m}
  /\ body' = [body EXCEPT ![m] = b]
  /\ deleted' = [deleted EXCEPT ![m] = d]

\* MessageStore.SoftDelete: no error when there is no such row.
SoftDelete(m) ==
  /\ deleted' = IF m \in msgRows THEN [deleted EXCEPT ![m] = TRUE] ELSE deleted
  /\ UNCHANGED <<msgRows, body>>

\* ReactionStore.Put and Delete; only Put needs the message's row.
SetReaction(m, s, e) ==
  /\ e = NoEmoji \/ m \in msgRows
  /\ reactions' = [reactions EXCEPT ![<<m, s>>] = e]

Announce(type, ids) == announced' = announced \cup {<<type, ids>>}

-----------------------------------------------------------------------------
(* What whatsmeow hands to the dispatching goroutine.  It still works off  *)
(* what it received when the connection is lost.                           *)

\* A message of a peer, for the first time or again.
TakeMessage(m) ==
  /\ "message" \in Events
  /\ ChatOf[m] \in opened
  /\ \/ m \notin delivered /\ UNCHANGED redeliveries
     \/ /\ m \in delivered /\ redeliveries < MaxRedeliveries
        /\ redeliveries' = redeliveries + 1
  /\ delivered' = delivered \cup {m}
  /\ deliveries' = [deliveries EXCEPT ![ChatOf[m]] = @ + 1]
  /\ Begin(Dispatcher, "message", "getChat", m, 0, FALSE)
  /\ UNCHANGED <<chatTable, messageTable, sideTables, opened, sent, wire,
                 recalled, wireReaction, failures, restarts, connection>>

\* A peer edits a message: handleIncoming reads the row first, and gives
\* up when there is none.
TakeEdit(m) ==
  /\ "edit" \in Events
  /\ m \in delivered /\ wire[m] < MaxEdits
  /\ op[Dispatcher] = "idle"
  /\ wire' = [wire EXCEPT ![m] = @ + 1]
  /\ \/ /\ Works /\ m \in msgRows
        /\ Begin(Dispatcher, "edit", "putMessage", m, wire[m] + 1, deleted[m])
     \/ /\ Fails \/ (Works /\ m \notin msgRows)
        /\ UNCHANGED locals
  /\ UNCHANGED <<chatTable, messageTable, sideTables, opened, delivered,
                 deliveries, sent, recalled, wireReaction, bounds>>

\* A message is revoked, by the peer that sent it or, ours too, by an
\* administrator of the group.
TakeRevoke(m) ==
  /\ \/ "revokeTheirs" \in Events /\ m \in delivered
     \/ "revokeOurs" \in Events /\ m \in sent
  /\ m \notin recalled
  /\ recalled' = recalled \cup {m}
  /\ Begin(Dispatcher, "revoke", "softDelete", m, 0, FALSE)
  /\ UNCHANGED <<chatTable, messageTable, sideTables, opened, delivered,
                 deliveries, sent, wire, wireReaction, failures,
                 bounds>>

\* A peer sets or clears its reaction.  Nobody else writes the peer's row,
\* so the one statement and the emit are one step.
HandleReaction(m, e) ==
  /\ "reaction" \in Events
  /\ m \in delivered \cup sent
  /\ op[Dispatcher] = "idle"
  /\ \/ /\ Works /\ SetReaction(m, "peer", e)
        /\ Announce("reaction.received", {m})
     \/ /\ Fails \/ (Works /\ e # NoEmoji /\ m \notin msgRows)
        /\ UNCHANGED <<reactions, announced>>
  /\ UNCHANGED <<chatTable, messageTable, receipts, whatsapp, locals, bounds>>

\* handleReceipt: one Put per message of the batch, each of which may fail;
\* the whole batch is announced when any was stored.
HandleReceipt(batch) ==
  /\ "receipt" \in Events
  /\ batch # {} /\ batch \subseteq sent
  /\ op[Dispatcher] = "idle"
  /\ \E stored \in SUBSET (batch \cap msgRows) :
       /\ IF stored = batch \cap msgRows THEN Works ELSE Fails
       /\ receipts' = receipts \cup stored
       /\ IF stored # {} THEN Announce("receipt.received", batch)
                         ELSE UNCHANGED announced
  /\ UNCHANGED <<chatTable, messageTable, reactions, whatsapp, locals, bounds>>

-----------------------------------------------------------------------------
(* handleIncoming, statement by statement.                                 *)

MessageGetChat(p) ==
  /\ At(p, "message", "getChat")
  /\ GetChat(p, ChatOf[arg[p]], "putChat")
  /\ UNCHANGED <<chatTable, messageTable, sideTables, whatsapp, bounds>>

\* unread_count++ on the copy; a failure is logged and the handler goes on.
MessagePutChat(p) ==
  /\ At(p, "message", "putChat")
  /\ \/ Works /\ PutChat(ChatOf[arg[p]], val[p] + 1)
     \/ Fails /\ UNCHANGED chatTable
  /\ Goto(p, "putMessage", 0)
  /\ UNCHANGED <<messageTable, sideTables, whatsapp, bounds>>

\* Fault: a message that was not stored is announced.
MessagePutAnyway(p) ==
  /\ At(p, "message", "putMessage")
  /\ \/ Works /\ ChatExists(arg[p]) /\ PutMessage(arg[p], 0, FALSE)
     \/ (Fails \/ (Works /\ ~ChatExists(arg[p]))) /\ UNCHANGED messageTable
  /\ Goto(p, "emit", 0)
  /\ UNCHANGED <<chatTable, sideTables, whatsapp, bounds>>

\* The row is written as the event has it: unedited and not deleted.
MessagePut(p) ==
  /\ At(p, "message", "putMessage")
  /\ \/ /\ Works /\ ChatExists(arg[p])
        /\ PutMessage(arg[p], 0, FALSE)
        /\ Goto(p, "emit", 0)
     \/ /\ Fails \/ (Works /\ ~ChatExists(arg[p]))
        /\ UNCHANGED messageTable
        /\ End(p)
  /\ UNCHANGED <<chatTable, sideTables, whatsapp, bounds>>

\* Fault: an edit writes the row back as it read it.
EditPutAsRead(p) ==
  /\ At(p, "edit", "putMessage")
  /\ \/ Works /\ PutMessage(arg[p], body[arg[p]], dead[p]) /\ Goto(p, "emit", 0)
     \/ Fails /\ UNCHANGED messageTable /\ End(p)
  /\ UNCHANGED <<chatTable, sideTables, whatsapp, bounds>>

\* The row that was read, with the new text.
EditPut(p) ==
  /\ At(p, "edit", "putMessage")
  /\ \/ Works /\ PutMessage(arg[p], val[p], dead[p]) /\ Goto(p, "emit", 0)
     \/ Fails /\ UNCHANGED messageTable /\ End(p)
  /\ UNCHANGED <<chatTable, sideTables, whatsapp, bounds>>

RevokePut(p) ==
  /\ At(p, "revoke", "softDelete")
  /\ \/ Works /\ SoftDelete(arg[p]) /\ Goto(p, "emit", 0)
     \/ Fails /\ UNCHANGED messageTable /\ End(p)
  /\ UNCHANGED <<chatTable, sideTables, whatsapp, bounds>>

EventType(o) == CASE o = "message" -> "message.received"
                  [] o = "edit"    -> "message.edited"
                  [] o = "revoke"  -> "message.deleted"

\* Emit, after the row is in place.
Emit(p) ==
  /\ op[p] \in {"message", "edit", "revoke"} /\ step[p] = "emit"
  /\ Announce(EventType(op[p]), {arg[p]})
  /\ End(p)
  /\ UNCHANGED <<chatTable, messageTable, reactions, receipts, whatsapp,
                 failures, bounds>>

-----------------------------------------------------------------------------
(* The API operations.  One that is refused before its first effect (bad   *)
(* input, unknown message, no connection, WhatsApp says no) leaves no      *)
(* trace.                                                                  *)

\* SendText: WhatsApp accepts the message.
Send(w, m) ==
  /\ "send" \in Ops /\ online
  /\ m \notin sent /\ ChatOf[m] \in opened
  /\ sent' = sent \cup {m}
  /\ Begin(w, "send", "putMessage", m, 0, FALSE)
  /\ UNCHANGED <<chatTable, messageTable, sideTables, opened, delivered,
                 deliveries, wire, recalled, wireReaction, failures,
                 bounds>>

\* The row first: refused while the chat has no row, and only logged.
SendPutMessage(w) ==
  /\ At(w, "send", "putMessage")
  /\ \/ Works /\ ChatExists(arg[w]) /\ PutMessage(arg[w], 0, FALSE)
     \/ (Fails \/ (Works /\ ~ChatExists(arg[w]))) /\ UNCHANGED messageTable
  /\ Goto(w, "getChat", 0)
  /\ UNCHANGED <<chatTable, sideTables, whatsapp, bounds>>

SendGetChat(w) ==
  /\ At(w, "send", "getChat")
  /\ GetChat(w, ChatOf[arg[w]], "putChat")
  /\ UNCHANGED <<chatTable, messageTable, sideTables, whatsapp, bounds>>

\* Fault: a message of ours counts as unread.
SendPutChatCounted(w) ==
  /\ At(w, "send", "putChat")
  /\ \/ Works /\ PutChat(ChatOf[arg[w]], val[w] + 1)
     \/ Fails /\ UNCHANGED chatTable
  /\ End(w)
  /\ UNCHANGED <<messageTable, sideTables, whatsapp, bounds>>

\* The copy goes back with a new last_msg_at.
SendPutChat(w) ==
  /\ At(w, "send", "putChat")
  /\ \/ Works /\ PutChat(ChatOf[arg[w]], val[w])
     \/ Fails /\ UNCHANGED chatTable
  /\ End(w)
  /\ UNCHANGED <<messageTable, sideTables, whatsapp, bounds>>

\* Fault: the ownership check is missing.
MayChangeAny(m) == m \in msgRows /\ ~deleted[m]

\* EditMessage and DeleteMessage: the row is there, is ours, is not deleted.
\* ownsMessage knows who we are only while there is a connection.
MayChange(m) == m \in msgRows /\ online /\ m \in Ours /\ ~deleted[m]

EditMessage(w, m) ==
  /\ "edit" \in Ops
  /\ MayChange(m)
  /\ Begin(w, "editMessage", "whatsapp", m, 0, deleted[m])
  /\ UNCHANGED <<chatTable, messageTable, sideTables, whatsapp, failures,
                 bounds>>

\* Fault: the edit is stored although WhatsApp refused it.
EditSendAnyway(w) ==
  /\ At(w, "editMessage", "whatsapp")
  /\ \/ /\ wire[arg[w]] < MaxEdits
        /\ wire' = [wire EXCEPT ![arg[w]] = @ + 1]
     \/ UNCHANGED wire
  /\ Goto(w, "putMessage", wire[arg[w]] + 1)
  /\ UNCHANGED <<chatTable, messageTable, sideTables, opened, delivered,
                 deliveries, sent, recalled, wireReaction, failures,
                 bounds>>

\* SendEdit: the error ends the operation.
EditSend(w) ==
  /\ At(w, "editMessage", "whatsapp")
  /\ \/ /\ online /\ wire[arg[w]] < MaxEdits
        /\ wire' = [wire EXCEPT ![arg[w]] = @ + 1]
        /\ Goto(w, "putMessage", wire[arg[w]] + 1)
     \/ UNCHANGED wire /\ End(w)
  /\ UNCHANGED <<chatTable, messageTable, sideTables, opened, delivered,
                 deliveries, sent, recalled, wireReaction, failures,
                 bounds>>

\* The row as it was read, with the new text.
EditPersist(w) ==
  /\ At(w, "editMessage", "putMessage")
  /\ \/ Works /\ PutMessage(arg[w], val[w], dead[w])
     \/ Fails /\ UNCHANGED messageTable
  /\ End(w)
  /\ UNCHANGED <<chatTable, sideTables, whatsapp, bounds>>

DeleteMessage(w, m) ==
  /\ "delete" \in Ops
  /\ MayChange(m)
  /\ Begin(w, "deleteMessage", "whatsapp", m, 0, FALSE)
  /\ UNCHANGED <<chatTable, messageTable, sideTables, whatsapp, failures,
                 bounds>>

DeleteSend(w) ==
  /\ At(w, "deleteMessage", "whatsapp")
  /\ \/ /\ online /\ recalled' = recalled \cup {arg[w]}
        /\ Goto(w, "softDelete", 0)
     \/ UNCHANGED recalled /\ End(w)
  /\ UNCHANGED <<chatTable, messageTable, sideTables, opened, delivered,
                 deliveries, sent, wire, wireReaction, failures,
                 bounds>>

DeletePersist(w) ==
  /\ At(w, "deleteMessage", "softDelete")
  /\ \/ Works /\ SoftDelete(arg[w])
     \/ Fails /\ UNCHANGED messageTable
  /\ End(w)
  /\ UNCHANGED <<chatTable, sideTables, whatsapp, bounds>>

\* SendReaction: the message is known and WhatsApp took the emoji.
React(w, m, e) ==
  /\ "react" \in Ops /\ online
  /\ m \in msgRows
  /\ wireReaction' = [wireReaction EXCEPT ![m] = e]
  /\ cutOff' = cutOff \ {m}
  /\ Begin(w, "react", "putReaction", m, e, FALSE)
  /\ UNCHANGED <<chatTable, messageTable, sideTables, opened, delivered,
                 deliveries, sent, wire, recalled, failures, redeliveries,
                 restarts, online, drops>>

\* Whose row it is, is asked after the call: nobody's, with the empty sender,
\* when the connection has gone meanwhile.
ourJID == IF online THEN "us" ELSE "nobody"

ReactPersist(w) ==
  /\ At(w, "react", "putReaction")
  /\ \/ Works /\ SetReaction(arg[w], ourJID, val[w])
     \/ Fails /\ UNCHANGED reactions
  /\ End(w)
  /\ UNCHANGED <<chatTable, messageTable, receipts, announced, whatsapp,
                 bounds>>

\* MarkMessageRead: the message is known and WhatsApp took the receipt.
MarkRead(w, m) ==
  /\ "read" \in Ops /\ online
  /\ m \in msgRows
  /\ Begin(w, "read", "getChat", m, 0, FALSE)
  /\ UNCHANGED <<chatTable, messageTable, sideTables, whatsapp, failures,
                 bounds>>

\* Fault: the count is not clamped at 0.
ReadGetChatUnclamped(w) ==
  /\ At(w, "read", "getChat")
  /\ \/ Works /\ Goto(w, "putChat", unread[ChatOf[arg[w]]])
     \/ Fails /\ End(w)
  /\ UNCHANGED <<chatTable, messageTable, sideTables, whatsapp, bounds>>

\* Nothing more to do when the chat cannot be read or has none unread.
ReadGetChat(w) ==
  /\ At(w, "read", "getChat")
  /\ \/ Works /\ unread[ChatOf[arg[w]]] > 0
        /\ Goto(w, "putChat", unread[ChatOf[arg[w]]])
     \/ (Fails \/ (Works /\ unread[ChatOf[arg[w]]] = 0)) /\ End(w)
  /\ UNCHANGED <<chatTable, messageTable, sideTables, whatsapp, bounds>>

ReadPutChat(w) ==
  /\ At(w, "read", "putChat")
  /\ \/ Works /\ PutChat(ChatOf[arg[w]], val[w] - 1)
     \/ Fails /\ UNCHANGED chatTable
  /\ End(w)
  /\ UNCHANGED <<messageTable, sideTables, whatsapp, bounds>>

\* CreateGroup: from here on peers can write to the group.
CreateGroup(w, c) ==
  /\ "group" \in Ops /\ online
  /\ c \notin opened
  /\ opened' = opened \cup {c}
  /\ Begin(w, "group", "putChat", c, 0, FALSE)
  /\ UNCHANGED <<chatTable, messageTable, sideTables, delivered, deliveries,
                 sent, wire, recalled, wireReaction, failures, bounds>>

\* A fresh row, whatever is there by now.
GroupPutChat(w) ==
  /\ At(w, "group", "putChat")
  /\ \/ Works /\ PutChat(arg[w], 0)
     \/ Fails /\ UNCHANGED chatTable
  /\ End(w)
  /\ UNCHANGED <<messageTable, sideTables, whatsapp, bounds>>

\* WhatsApp takes what it is sent and the answer is lost: the adapter returns
\* an error, on which the operation ends before it stores anything.
AnswerLost(w) ==
  /\ online /\ Fails
  /\ \/ /\ At(w, "editMessage", "whatsapp") /\ wire[arg[w]] < MaxEdits
        /\ wire' = [wire EXCEPT ![arg[w]] = @ + 1]
        /\ End(w) /\ UNCHANGED <<opened, sent, recalled, wireReaction>>
     \/ /\ At(w, "deleteMessage", "whatsapp")
        /\ recalled' = recalled \cup {arg[w]}
        /\ End(w) /\ UNCHANGED <<opened, sent, wire, wireReaction>>
     \/ /\ op[w] = "idle" /\ UNCHANGED <<locals, wire, recalled>>
        /\ \/ \E m \in Ours :
                /\ "send" \in Ops /\ m \notin sent /\ ChatOf[m] \in opened
                /\ sent' = sent \cup {m} /\ UNCHANGED <<opened, wireReaction>>
           \/ \E m \in msgRows, e \in Emoji \cup {NoEmoji} :
                /\ "react" \in Ops
                /\ wireReaction' = [wireReaction EXCEPT ![m] = e]
                /\ UNCHANGED <<opened, sent>>
           \/ \E c \in Groups \ opened :
                /\ "group" \in Ops
                /\ opened' = opened \cup {c} /\ UNCHANGED <<sent, wireReaction>>
  /\ UNCHANGED <<chatTable, messageTable, sideTables, delivered, deliveries,
                 bounds>>

-----------------------------------------------------------------------------
(* The connection and the process.                                         *)

\* The connection is lost; a reaction that WhatsApp took may still have to be
\* stored.
Disconnect ==
  /\ online /\ drops + restarts < MaxDrops
  /\ online' = FALSE /\ drops' = drops + 1
  /\ cutOff' = cutOff \cup {arg[w] : w \in {v \in Workers : op[v] = "react"}}
  /\ UNCHANGED <<chatTable, messageTable, sideTables, whatsapp, locals,
                 failures, redeliveries, restarts>>

Connect ==
  /\ ~online /\ online' = TRUE
  /\ UNCHANGED <<chatTable, messageTable, sideTables, whatsapp, locals,
                 failures, redeliveries, restarts, cutOff, drops>>

\* The daemon dies between two statements; the database stays.
Restart ==
  /\ restarts < MaxRestarts
  /\ restarts' = restarts + 1
  /\ op' = [p \in Procs |-> "idle"] /\ step' = [p \in Procs |-> "idle"]
  /\ arg' = [p \in Procs |-> NoArg] /\ val' = [p \in Procs |-> 0]
  /\ dead' = [p \in Procs |-> FALSE]
  /\ online' = FALSE /\ cutOff' = {}
  /\ UNCHANGED <<chatTable, messageTable, sideTables, whatsapp, failures,
                 redeliveries, drops>>

\* whatsmeow has an event for the dispatching goroutine.
Incoming ==
  \/ \E m \in Theirs : TakeMessage(m) \/ TakeEdit(m)
  \/ \E m \in Msgs : TakeRevoke(m)
  \/ \E m \in Msgs, e \in Emoji \cup {NoEmoji} : HandleReaction(m, e)
  \/ \E batch \in SUBSET Ours : HandleReceipt(batch)

HandleIncoming(p) ==
  \/ MessageGetChat(p) \/ MessagePutChat(p) \/ MessagePut(p)
  \/ EditPut(p) \/ RevokePut(p) \/ Emit(p)

\* An HTTP request reaches worker w.
Request(w) ==
  \/ \E m \in Ours : Send(w, m)
  \/ \E m \in Msgs : EditMessage(w, m) \/ DeleteMessage(w, m) \/ MarkRead(w, m)
  \/ \E m \in Msgs, e \in Emoji \cup {NoEmoji} : React(w, m, e)
  \/ \E c \in Groups : CreateGroup(w, c)

Perform(w) ==
  \/ SendPutMessage(w) \/ SendGetChat(w) \/ SendPutChat(w)
  \/ EditSend(w) \/ EditPersist(w) \/ DeleteSend(w) \/ DeletePersist(w)
  \/ ReactPersist(w) \/ ReadGetChat(w) \/ ReadPutChat(w) \/ GroupPutChat(w)

Next ==
  \/ Incoming \/ HandleIncoming(Dispatcher)
  \/ \E w \in Workers : Request(w) \/ Perform(w) \/ AnswerLost(w)
  \/ Disconnect \/ Connect \/ Restart

Spec == Init /\ [][Next]_vars

-----------------------------------------------------------------------------
(* Correctness.                                                            *)

Steps == {"idle", "getChat", "putChat", "putMessage", "softDelete", "emit",
          "whatsapp", "putReaction"}
Handlers == {"idle", "message", "edit", "revoke", "send", "editMessage",
             "deleteMessage", "react", "read", "group"}

\* Every variable holds values of its type; unread_count is never negative,
\* whatever the goroutines overwrite.
TypeOK ==
  /\ chatRows \subseteq Jids /\ unread \in [Jids -> Nat]
  /\ msgRows \subseteq Msgs /\ body \in [Msgs -> Nat]
  /\ deleted \in [Msgs -> BOOLEAN]
  /\ reactions \in [Msgs \X Senders -> Emoji \cup {NoEmoji}]
  /\ receipts \subseteq Msgs
  /\ announced \subseteq
       {"message.received", "message.edited", "message.deleted",
        "reaction.received", "receipt.received"} \X SUBSET Msgs
  /\ opened \subseteq Jids /\ delivered \subseteq Theirs
  /\ deliveries \in [Jids -> Nat] /\ sent \subseteq Ours
  /\ wire \in [Msgs -> Nat] /\ recalled \subseteq Msgs
  /\ wireReaction \in [Msgs -> Emoji \cup {NoEmoji}]
  /\ op \in [Procs -> Handlers] /\ step \in [Procs -> Steps]
  /\ arg \in [Procs -> Msgs \cup Jids \cup {NoArg}]
  /\ val \in [Procs -> Nat] /\ dead \in [Procs -> BOOLEAN]
  /\ online \in BOOLEAN /\ cutOff \subseteq Msgs
  /\ failures \in Nat /\ redeliveries \in Nat /\ restarts \in Nat
  /\ drops \in Nat

\* An event is emitted only for what the store took: a received or edited
\* message has its row, and of the messages a receipt event names at least
\* one has its receipt, also when store calls fail and the daemon crashes.
AnnouncedIsStored ==
  \A a \in announced :
    /\ a[1] \in {"message.received", "message.edited"} => a[2] \subseteq msgRows
    /\ a[1] = "receipt.received" => a[2] \cap receipts # {}

\* A chat never shows more unread messages than were delivered to it,
\* however the read-modify-writes of its row interleave.
UnreadNeverOvercounts == \A c \in Jids : unread[c] <= deliveries[c]

\* Neither a store call failed, nor the daemon, nor was an answer lost or a
\* message repeated.  Connections may have been lost.
NothingWentWrong == failures = 0 /\ restarts = 0 /\ redeliveries = 0

\* When nothing went wrong and no event is being handled, the row of every
\* message a peer sent is that message as WhatsApp has it, and it was
\* announced; API operations on other messages and on the chat, two of them
\* at a time, never disturb it.
PeersMirrored ==
  NothingWentWrong /\ op[Dispatcher] = "idle" =>
    \A m \in delivered :
      /\ m \in msgRows
      /\ body[m] = wire[m]
      /\ deleted[m] <=> m \in recalled
      /\ <<"message.received", {m}>> \in announced

\* When nothing went wrong and requests come one at a time, the row of every
\* message of ours that was stored agrees with WhatsApp between requests:
\* text, deletion, and our reaction on any message.  Only a reaction during
\* whose request the connection was lost may have its row under nobody's name.
OursMirrored ==
  NothingWentWrong /\ (\A w \in Workers : op[w] = "idle") =>
    \A m \in msgRows :
      /\ m \in Ours => body[m] = wire[m] /\ (deleted[m] <=> m \in recalled)
      /\ \/ reactions[<<m, "us">>] = wireReaction[m]
         \/ m \in cutOff /\ reactions[<<m, "nobody">>] = wireReaction[m]

-----------------------------------------------------------------------------
(* What docs, comments and tests say of the service.                       *)

\* service.go:179: "persist outbound message failed; whatsmeow echo will
\* heal".  With no request in progress a message WhatsApp accepted is stored.
SentIsStored ==
  (\A p \in Procs : op[p] = "idle") => sent \subseteq msgRows

\* 07a-replies-edits-deletes-design.md:213: "cannot edit a deleted message".
\* A message of ours that was deleted stays deleted.
DeletedStaysDeleted == [][\A m \in Ours : deleted[m] => deleted'[m]]_vars

-----------------------------------------------------------------------------
(* The messages of peers, as the API shows them, implement the mailbox.    *)

Box == INSTANCE Mailbox WITH
         posted <- msgRows \cap Theirs,
         text <- [m \in Theirs |-> body[m]],
         removed <- {m \in Theirs : deleted[m]}

\* Without redelivery: a message appears once, its text only moves on to
\* later edits, and once removed it never comes back, whatever fails.
ImplementsMailbox == Box!MailboxSpec
=============================================================================
