---------------------------- MODULE InboxProofs ----------------------------
(* Theorems about Inbox and their proofs.                                  *)
EXTENDS Inbox, TLAPS

USE DEF NoArg, NoEmoji, Senders, Procs, Msgs, Jids

-----------------------------------------------------------------------------
(* Type correctness.                                                       *)

TypeChats ==
  chatRows \subseteq Jids /\ unread \in [Jids -> Nat]

TypeMessages ==
  /\ msgRows \subseteq Msgs /\ body \in [Msgs -> Nat]
  /\ deleted \in [Msgs -> BOOLEAN]

TypeSide ==
  /\ reactions \in [Msgs \X Senders -> Emoji \cup {NoEmoji}]
  /\ receipts \subseteq Msgs
  /\ announced \subseteq
       {"message.received", "message.edited", "message.deleted",
        "reaction.received", "receipt.received"} \X SUBSET Msgs

TypeWhatsApp ==
  /\ opened \subseteq Jids /\ delivered \subseteq Theirs
  /\ deliveries \in [Jids -> Nat] /\ sent \subseteq Ours
  /\ wire \in [Msgs -> Nat] /\ recalled \subseteq Msgs
  /\ wireReaction \in [Msgs -> Emoji \cup {NoEmoji}]

TypeLocals ==
  /\ op \in [Procs -> Handlers] /\ step \in [Procs -> Steps]
  /\ arg \in [Procs -> Msgs \cup Jids \cup {NoArg}]
  /\ val \in [Procs -> Nat] /\ dead \in [Procs -> BOOLEAN]

TypeBounds ==
  /\ online \in BOOLEAN /\ cutOff \subseteq Msgs
  /\ failures \in Nat /\ redeliveries \in Nat /\ restarts \in Nat
  /\ drops \in Nat

\* The parts of the type invariant, one per table or group of variables.
LEMMA TypeParts ==
  TypeOK <=> /\ TypeChats /\ TypeMessages /\ TypeSide
             /\ TypeWhatsApp /\ TypeLocals /\ TypeBounds
  BY DEF TypeOK, TypeChats, TypeMessages, TypeSide, TypeWhatsApp, TypeLocals,
         TypeBounds

\* What a goroutine has in hand suits the operation it is in: a message, or
\* for CreateGroup a chat; a count above zero when it is to be taken down;
\* an emoji to store.  Type correctness is not inductive without this.
InHand ==
  \A p \in Procs :
    /\ op[p] \notin {"idle", "group"} => arg[p] \in Msgs
    /\ op[p] = "group" => arg[p] \in Jids
    /\ op[p] = "read" /\ step[p] = "putChat" => val[p] > 0
    /\ op[p] = "react" => val[p] \in Emoji \cup {NoEmoji}

\* Beginning an operation with the right thing in hand keeps the locals in
\* type.
LEMMA BeginType ==
  ASSUME TypeLocals, InHand,
         NEW p \in Procs, NEW o \in Handlers, NEW s \in Steps, NEW a,
         NEW v \in Nat, NEW d \in BOOLEAN,
         o \notin {"idle", "group"} => a \in Msgs,
         o = "group" => a \in Jids,
         o # "idle",
         o = "read" => s # "putChat",
         o = "react" => v \in Emoji \cup {NoEmoji},
         Begin(p, o, s, a, v, d)
  PROVE  TypeLocals' /\ InHand'
<1>1. TypeLocals'
  BY DEF TypeLocals, Begin
<1>2. InHand'
  BY DEF TypeLocals, InHand, Begin
<1>3. QED BY <1>1, <1>2

\* So does going on to another call,
LEMMA GotoType ==
  ASSUME TypeLocals, InHand,
         NEW p \in Procs, NEW s \in Steps, NEW v \in Nat,
         op[p] = "read" /\ s = "putChat" => v > 0,
         op[p] # "react",
         Goto(p, s, v)
  PROVE  TypeLocals' /\ InHand'
<1>1. TypeLocals'
  BY DEF TypeLocals, Goto
<1>2. InHand'
  BY DEF TypeLocals, InHand, Goto
<1>3. QED BY <1>1, <1>2

\* and ending the operation.
LEMMA EndType ==
  ASSUME TypeLocals, InHand, NEW p \in Procs, End(p)
  PROVE  TypeLocals' /\ InHand'
<1>1. TypeLocals'
  BY DEF TypeLocals, End, Handlers, Steps
<1>2. InHand'
  BY DEF TypeLocals, InHand, End
<1>3. QED BY <1>1, <1>2

\* Writing a row keeps the messages in type.
LEMMA PutMessageType ==
  ASSUME TypeMessages, NEW m \in Msgs, NEW b \in Nat, NEW d \in BOOLEAN,
         PutMessage(m, b, d)
  PROVE  TypeMessages'
  BY DEF TypeMessages, PutMessage

\* The same of marking a row deleted.
LEMMA SoftDeleteType ==
  ASSUME TypeMessages, NEW m \in Msgs, SoftDelete(m)
  PROVE  TypeMessages'
  BY DEF TypeMessages, SoftDelete

\* Operations that leave the locals alone.
LEMMA SameType ==
  ASSUME TypeLocals, InHand, UNCHANGED locals
  PROVE  TypeLocals' /\ InHand'
  BY DEF TypeLocals, InHand, locals

TypeInv ==
  /\ TypeChats /\ TypeMessages /\ TypeSide
  /\ TypeWhatsApp /\ TypeLocals /\ TypeBounds
  /\ InHand

\* A message, an edit or a revoke is handed over.
LEMMA TypeTake ==
  ASSUME TypeInv, NEW m \in Msgs,
         \/ m \in Theirs /\ (TakeMessage(m) \/ TakeEdit(m))
         \/ TakeRevoke(m)
  PROVE  TypeInv'
<1> USE InboxAssumption DEF TypeInv, Works, Fails, chatTable, messageTable, sideTables, whatsapp, bounds, connection
<1>1. CASE m \in Theirs /\ TakeMessage(m)
  <2>1. TypeLocals' /\ InHand'
    BY <1>1, BeginType DEF TakeMessage, InHand, TypeLocals, Handlers, Steps
  <2>2. TypeChats' /\ TypeMessages' /\ TypeSide'
    BY <1>1 DEF TakeMessage, TypeChats, TypeMessages, TypeSide
  <2>3. TypeWhatsApp' /\ TypeBounds'
    BY <1>1 DEF TakeMessage, TypeBounds, TypeWhatsApp
  <2>4. QED BY <2>1, <2>2, <2>3
<1>2. CASE m \in Theirs /\ TakeEdit(m)
  <2>1. TypeLocals' /\ InHand'
    <3>1. CASE UNCHANGED locals
      BY <3>1, SameType
    <3>2. CASE Begin(Dispatcher, "edit", "putMessage", m, wire[m] + 1, deleted[m])
      <4>1. /\ wire[m] + 1 \in Nat /\ deleted[m] \in BOOLEAN
            /\ "edit" \in Handlers /\ "putMessage" \in Steps
        BY DEF TypeMessages, TypeWhatsApp, Handlers, Steps
      <4>2. QED BY <3>2, <4>1, BeginType
    <3>3. QED BY <1>2, <3>1, <3>2 DEF TakeEdit
  <2>2. TypeChats' /\ TypeMessages' /\ TypeSide'
    BY <1>2 DEF TakeEdit, TypeChats, TypeMessages, TypeSide
  <2>3. TypeWhatsApp' /\ TypeBounds'
    BY <1>2 DEF TakeEdit, TypeBounds, TypeWhatsApp
  <2>4. QED BY <2>1, <2>2, <2>3
<1>3. CASE TakeRevoke(m)
  <2>1. TypeLocals' /\ InHand'
    BY <1>3, BeginType DEF TakeRevoke, InHand, TypeLocals, Handlers, Steps
  <2>2. TypeChats' /\ TypeMessages' /\ TypeSide' /\ TypeBounds'
    BY <1>3 DEF TakeRevoke, TypeChats, TypeMessages, TypeSide, TypeBounds
  <2>3. TypeWhatsApp'
    BY <1>3 DEF TakeRevoke, TypeWhatsApp
  <2>4. QED BY <2>1, <2>2, <2>3
<1>4. QED BY <1>1, <1>2, <1>3

\* A peer's reaction is handled.
LEMMA TypeReaction ==
  ASSUME TypeInv, NEW m \in Msgs, NEW e \in Emoji \cup {NoEmoji},
         HandleReaction(m, e)
  PROVE  TypeInv'
<1> USE InboxAssumption DEF TypeInv, Works, Fails, whatsapp, bounds
<1>1. TypeLocals' /\ InHand'
  BY SameType DEF HandleReaction
<1>2. TypeChats' /\ TypeMessages' /\ TypeWhatsApp'
  BY DEF HandleReaction, chatTable, messageTable, TypeChats, TypeMessages,
         TypeWhatsApp
<1>3. TypeSide' /\ TypeBounds'
  BY DEF HandleReaction, SetReaction, Announce, TypeBounds, TypeSide
<1>4. QED BY <1>1, <1>2, <1>3

\* A batch of receipts is handled.
LEMMA TypeReceipt ==
  ASSUME TypeInv, NEW batch \in SUBSET Ours, HandleReceipt(batch)
  PROVE  TypeInv'
<1> USE InboxAssumption DEF TypeInv, Works, Fails, whatsapp, bounds
<1>1. TypeLocals' /\ InHand'
  BY SameType DEF HandleReceipt
<1>2. TypeChats' /\ TypeMessages' /\ TypeWhatsApp'
  BY DEF HandleReceipt, chatTable, messageTable, TypeChats, TypeMessages,
         TypeWhatsApp
<1>3. TypeSide' /\ TypeBounds'
  BY DEF HandleReceipt, Announce, TypeBounds, TypeSide
<1>4. QED BY <1>1, <1>2, <1>3

\* handleIncoming makes its next call.
LEMMA TypeHandle ==
  ASSUME TypeInv, NEW p \in Procs, HandleIncoming(p)
  PROVE  TypeInv'
<1> USE InboxAssumption DEF TypeInv, Works, Fails, chatTable, messageTable, sideTables, whatsapp, bounds
<1>1. CASE MessageGetChat(p)
  <2>1. TypeLocals' /\ InHand'
    BY <1>1, GotoType DEF MessageGetChat, At, GetChat, InHand, TypeLocals, Handlers, Steps, TypeChats
  <2>2. TypeChats' /\ TypeMessages' /\ TypeSide' /\ TypeWhatsApp'
    BY <1>1 DEF MessageGetChat, TypeChats, TypeMessages, TypeSide, TypeWhatsApp
  <2>3. TypeBounds'
    BY <1>1 DEF MessageGetChat, GetChat, At, InHand, TypeLocals, TypeBounds
  <2>4. QED BY <2>1, <2>2, <2>3
<1>2. CASE MessagePutChat(p)
  <2>1. TypeLocals' /\ InHand'
    BY <1>2, GotoType DEF MessagePutChat, At, InHand, TypeLocals, Handlers, Steps
  <2>2. TypeMessages' /\ TypeSide' /\ TypeWhatsApp'
    BY <1>2 DEF MessagePutChat, TypeMessages, TypeSide, TypeWhatsApp
  <2>3. TypeChats' /\ TypeBounds'
    BY <1>2 DEF MessagePutChat, PutChat, At, InHand, TypeLocals, TypeBounds, TypeChats
  <2>4. QED BY <2>1, <2>2, <2>3
<1>3. CASE MessagePut(p)
  <2>1. op[p] = "message" /\ (Goto(p, "emit", 0) \/ End(p))
    BY <1>3 DEF MessagePut, At
  <2>2. TypeLocals' /\ InHand'
    BY <2>1, GotoType, EndType DEF At, InHand, TypeLocals, Handlers, Steps
  <2>3. TypeChats' /\ TypeSide' /\ TypeWhatsApp'
    BY <1>3 DEF MessagePut, TypeChats, TypeSide, TypeWhatsApp
  <2>4. TypeMessages' /\ TypeBounds'
    <3>1. arg[p] \in Msgs /\ val[p] \in Nat /\ dead[p] \in BOOLEAN
      BY <1>3 DEF MessagePut, At, InHand, TypeLocals
    <3>2. TypeMessages'
      BY <1>3, <3>1, PutMessageType DEF MessagePut, TypeMessages
    <3>3. TypeBounds'
      <4>1. failures' = failures \/ failures' = failures + 1
        BY <1>3, Zenon DEF MessagePut
      <4>2. UNCHANGED bounds
        BY <1>3 DEF MessagePut
      <4>3. QED BY <4>1, <4>2 DEF TypeBounds
    <3>4. QED BY <3>2, <3>3
  <2>5. QED BY <2>2, <2>3, <2>4
<1>4. CASE EditPut(p)
  <2>1. op[p] = "edit" /\ (Goto(p, "emit", 0) \/ End(p))
    BY <1>4 DEF EditPut, At
  <2>2. TypeLocals' /\ InHand'
    BY <2>1, GotoType, EndType DEF At, InHand, TypeLocals, Handlers, Steps
  <2>3. TypeChats' /\ TypeSide' /\ TypeWhatsApp'
    BY <1>4 DEF EditPut, TypeChats, TypeSide, TypeWhatsApp
  <2>4. TypeMessages' /\ TypeBounds'
    <3>1. arg[p] \in Msgs /\ val[p] \in Nat /\ dead[p] \in BOOLEAN
      BY <1>4 DEF EditPut, At, InHand, TypeLocals
    <3>2. TypeMessages'
      BY <1>4, <3>1, PutMessageType DEF EditPut, TypeMessages
    <3>3. TypeBounds'
      BY <1>4 DEF EditPut, TypeBounds
    <3>4. QED BY <3>2, <3>3
  <2>5. QED BY <2>2, <2>3, <2>4
<1>5. CASE RevokePut(p)
  <2>1. op[p] = "revoke" /\ (Goto(p, "emit", 0) \/ End(p))
    BY <1>5 DEF RevokePut, At
  <2>2. TypeLocals' /\ InHand'
    BY <2>1, GotoType, EndType DEF At, InHand, TypeLocals, Handlers, Steps
  <2>3. TypeChats' /\ TypeSide' /\ TypeWhatsApp'
    BY <1>5 DEF RevokePut, TypeChats, TypeSide, TypeWhatsApp
  <2>4. TypeMessages' /\ TypeBounds'
    <3>1. arg[p] \in Msgs /\ val[p] \in Nat /\ dead[p] \in BOOLEAN
      BY <1>5 DEF RevokePut, At, InHand, TypeLocals
    <3>2. TypeMessages'
      BY <1>5, <3>1, SoftDeleteType DEF RevokePut, TypeMessages
    <3>3. TypeBounds'
      BY <1>5 DEF RevokePut, TypeBounds
    <3>4. QED BY <3>2, <3>3
  <2>5. QED BY <2>2, <2>3, <2>4
<1>6. CASE Emit(p)
  <2>1. TypeLocals' /\ InHand'
    BY <1>6, EndType DEF Emit, At, InHand, TypeLocals, Handlers, Steps
  <2>2. TypeChats' /\ TypeMessages' /\ TypeWhatsApp' /\ TypeBounds'
    BY <1>6 DEF Emit, TypeChats, TypeMessages, TypeWhatsApp, TypeBounds
  <2>3. TypeSide'
    BY <1>6 DEF Emit, EventType, Announce, At, InHand, TypeLocals, TypeSide
  <2>4. QED BY <2>1, <2>2, <2>3
<1>7. QED BY <1>1, <1>2, <1>3, <1>4, <1>5, <1>6 DEF HandleIncoming

\* A request begins.
LEMMA TypeRequest ==
  ASSUME TypeInv, NEW w \in Procs, Request(w)
  PROVE  TypeInv'
<1> USE InboxAssumption DEF TypeInv, Works, Fails, chatTable, messageTable, sideTables, whatsapp, bounds
<1>1. CASE \E m \in Ours : Send(w, m)
  <2>0. PICK m \in Ours : Send(w, m)
    BY <1>1
  <2>1. TypeLocals' /\ InHand'
    BY <2>0, BeginType DEF Send, InHand, TypeLocals, Handlers, Steps
  <2>2. TypeChats' /\ TypeMessages' /\ TypeSide' /\ TypeBounds'
    BY <2>0 DEF Send, TypeChats, TypeMessages, TypeSide, TypeBounds
  <2>3. TypeWhatsApp'
    BY <2>0 DEF Send, TypeWhatsApp
  <2>4. QED BY <2>1, <2>2, <2>3
<1>2. CASE \E m \in Msgs : EditMessage(w, m)
  <2>0. PICK m \in Msgs : EditMessage(w, m)
    BY <1>2
  <2>1. TypeLocals' /\ InHand'
    <3>1. Begin(w, "editMessage", "whatsapp", m, 0, deleted[m])
      BY <2>0 DEF EditMessage
    <3>2. /\ deleted[m] \in BOOLEAN /\ 0 \in Nat
          /\ "editMessage" \in Handlers /\ "whatsapp" \in Steps
      BY DEF TypeMessages, Handlers, Steps
    <3>3. QED BY <3>1, <3>2, BeginType
  <2>2. TypeChats' /\ TypeMessages' /\ TypeSide' /\ TypeWhatsApp' /\ TypeBounds'
    BY <2>0 DEF EditMessage, TypeChats, TypeMessages, TypeSide, TypeWhatsApp, TypeBounds
  <2>3. QED BY <2>1, <2>2
<1>3. CASE \E m \in Msgs : DeleteMessage(w, m)
  <2>0. PICK m \in Msgs : DeleteMessage(w, m)
    BY <1>3
  <2>1. TypeLocals' /\ InHand'
    BY <2>0, BeginType DEF DeleteMessage, InHand, TypeLocals, Handlers, Steps
  <2>2. TypeChats' /\ TypeMessages' /\ TypeSide' /\ TypeWhatsApp' /\ TypeBounds'
    BY <2>0 DEF DeleteMessage, TypeChats, TypeMessages, TypeSide, TypeWhatsApp, TypeBounds
  <2>3. QED BY <2>1, <2>2
<1>4. CASE \E m \in Msgs : MarkRead(w, m)
  <2>0. PICK m \in Msgs : MarkRead(w, m)
    BY <1>4
  <2>1. TypeLocals' /\ InHand'
    BY <2>0, BeginType DEF MarkRead, InHand, TypeLocals, Handlers, Steps
  <2>2. TypeChats' /\ TypeMessages' /\ TypeSide' /\ TypeWhatsApp' /\ TypeBounds'
    BY <2>0 DEF MarkRead, TypeChats, TypeMessages, TypeSide, TypeWhatsApp, TypeBounds
  <2>3. QED BY <2>1, <2>2
<1>5. CASE \E m \in Msgs, e \in Emoji \cup {NoEmoji} : React(w, m, e)
  <2>0. PICK m \in Msgs, e \in Emoji \cup {NoEmoji} : React(w, m, e)
    BY <1>5
  <2>1. Begin(w, "react", "putReaction", m, e, FALSE)
    BY <2>0 DEF React
  <2>2. TypeLocals' /\ InHand'
    <3>1. e \in Nat /\ e \in Emoji \cup {NoEmoji}
      OBVIOUS
    <3>2. /\ "react" \in Handlers /\ "putReaction" \in Steps
          /\ FALSE \in BOOLEAN
      BY DEF Handlers, Steps
    <3>3. QED BY <2>1, <3>1, <3>2, BeginType
  <2>3. TypeChats' /\ TypeMessages' /\ TypeSide' /\ TypeBounds'
    BY <2>0 DEF React, TypeChats, TypeMessages, TypeSide, TypeBounds
  <2>4. TypeWhatsApp'
    BY <2>0 DEF React, TypeWhatsApp
  <2>5. QED BY <2>2, <2>3, <2>4
<1>6. CASE \E c \in Groups : CreateGroup(w, c)
  <2>0. PICK c \in Groups : CreateGroup(w, c)
    BY <1>6
  <2>1. TypeLocals' /\ InHand'
    BY <2>0, BeginType DEF CreateGroup, InHand, TypeLocals, Handlers, Steps
  <2>2. TypeChats' /\ TypeMessages' /\ TypeSide' /\ TypeBounds'
    BY <2>0 DEF CreateGroup, TypeChats, TypeMessages, TypeSide, TypeBounds
  <2>3. TypeWhatsApp'
    BY <2>0 DEF CreateGroup, TypeWhatsApp
  <2>4. QED BY <2>1, <2>2, <2>3
<1>7. QED BY <1>1, <1>2, <1>3, <1>4, <1>5, <1>6 DEF Request

\* A request makes its next call.
LEMMA TypePerform ==
  ASSUME TypeInv, NEW w \in Procs, Perform(w)
  PROVE  TypeInv'
<1> USE InboxAssumption DEF TypeInv, Works, Fails, chatTable, messageTable, sideTables, whatsapp, bounds
<1>1. CASE SendPutMessage(w)
  <2>1. op[w] = "send" /\ Goto(w, "getChat", 0)
    BY <1>1 DEF SendPutMessage, At
  <2>2. TypeLocals' /\ InHand'
    BY <2>1, GotoType DEF At, InHand, TypeLocals, Handlers, Steps
  <2>3. TypeChats' /\ TypeSide' /\ TypeWhatsApp'
    BY <1>1 DEF SendPutMessage, TypeChats, TypeSide, TypeWhatsApp
  <2>4. TypeMessages' /\ TypeBounds'
    <3>1. arg[w] \in Msgs /\ val[w] \in Nat /\ dead[w] \in BOOLEAN
      BY <1>1 DEF SendPutMessage, At, InHand, TypeLocals
    <3>2. TypeMessages'
      BY <1>1, <3>1, PutMessageType DEF SendPutMessage, TypeMessages
    <3>3. TypeBounds'
      <4>1. failures' = failures \/ failures' = failures + 1
        BY <1>1, Zenon DEF SendPutMessage
      <4>2. UNCHANGED bounds
        BY <1>1 DEF SendPutMessage
      <4>3. QED BY <4>1, <4>2 DEF TypeBounds
    <3>4. QED BY <3>2, <3>3
  <2>5. QED BY <2>2, <2>3, <2>4
<1>2. CASE SendGetChat(w)
  <2>1. TypeLocals' /\ InHand'
    BY <1>2, GotoType DEF SendGetChat, At, GetChat, InHand, TypeLocals, Handlers, Steps, TypeChats
  <2>2. TypeChats' /\ TypeMessages' /\ TypeSide' /\ TypeWhatsApp'
    BY <1>2 DEF SendGetChat, TypeChats, TypeMessages, TypeSide, TypeWhatsApp
  <2>3. TypeBounds'
    BY <1>2 DEF SendGetChat, GetChat, At, InHand, TypeLocals, TypeBounds
  <2>4. QED BY <2>1, <2>2, <2>3
<1>3. CASE SendPutChat(w)
  <2>1. TypeLocals' /\ InHand'
    BY <1>3, EndType DEF SendPutChat, At, InHand, TypeLocals, Handlers, Steps
  <2>2. TypeMessages' /\ TypeSide' /\ TypeWhatsApp'
    BY <1>3 DEF SendPutChat, TypeMessages, TypeSide, TypeWhatsApp
  <2>3. TypeChats' /\ TypeBounds'
    BY <1>3 DEF SendPutChat, PutChat, At, InHand, TypeLocals, TypeBounds, TypeChats
  <2>4. QED BY <2>1, <2>2, <2>3
<1>4. CASE EditSend(w)
  <2>1. TypeLocals' /\ InHand'
    BY <1>4, GotoType, EndType DEF EditSend, At, InHand, TypeLocals, Handlers, Steps, TypeWhatsApp
  <2>2. TypeChats' /\ TypeMessages' /\ TypeSide' /\ TypeBounds'
    BY <1>4 DEF EditSend, TypeChats, TypeMessages, TypeSide, TypeBounds
  <2>3. TypeWhatsApp'
    BY <1>4 DEF EditSend, At, InHand, TypeLocals, TypeWhatsApp
  <2>4. QED BY <2>1, <2>2, <2>3
<1>5. CASE EditPersist(w)
  <2>1. TypeLocals' /\ InHand'
    BY <1>5, EndType DEF EditPersist, At, InHand, TypeLocals, Handlers, Steps
  <2>2. TypeChats' /\ TypeSide' /\ TypeWhatsApp'
    BY <1>5 DEF EditPersist, TypeChats, TypeSide, TypeWhatsApp
  <2>3. TypeMessages' /\ TypeBounds'
    <3>1. arg[w] \in Msgs /\ val[w] \in Nat /\ dead[w] \in BOOLEAN
      BY <1>5 DEF EditPersist, At, InHand, TypeLocals
    <3>2. TypeMessages'
      BY <1>5, <3>1, PutMessageType DEF EditPersist, TypeMessages
    <3>3. TypeBounds'
      BY <1>5 DEF EditPersist, TypeBounds
    <3>4. QED BY <3>2, <3>3
  <2>4. QED BY <2>1, <2>2, <2>3
<1>6. CASE DeleteSend(w)
  <2>1. TypeLocals' /\ InHand'
    BY <1>6, GotoType, EndType DEF DeleteSend, At, InHand, TypeLocals, Handlers, Steps
  <2>2. TypeChats' /\ TypeMessages' /\ TypeSide' /\ TypeBounds'
    BY <1>6 DEF DeleteSend, TypeChats, TypeMessages, TypeSide, TypeBounds
  <2>3. TypeWhatsApp'
    BY <1>6 DEF DeleteSend, At, InHand, TypeLocals, TypeWhatsApp
  <2>4. QED BY <2>1, <2>2, <2>3
<1>7. CASE DeletePersist(w)
  <2>1. TypeLocals' /\ InHand'
    BY <1>7, EndType DEF DeletePersist, At, InHand, TypeLocals, Handlers, Steps
  <2>2. TypeChats' /\ TypeSide' /\ TypeWhatsApp'
    BY <1>7 DEF DeletePersist, TypeChats, TypeSide, TypeWhatsApp
  <2>3. TypeMessages' /\ TypeBounds'
    <3>1. arg[w] \in Msgs /\ val[w] \in Nat /\ dead[w] \in BOOLEAN
      BY <1>7 DEF DeletePersist, At, InHand, TypeLocals
    <3>2. TypeMessages'
      BY <1>7, <3>1, SoftDeleteType DEF DeletePersist, TypeMessages
    <3>3. TypeBounds'
      BY <1>7 DEF DeletePersist, TypeBounds
    <3>4. QED BY <3>2, <3>3
  <2>4. QED BY <2>1, <2>2, <2>3
<1>8. CASE ReactPersist(w)
  <2>1. TypeLocals' /\ InHand'
    BY <1>8, EndType DEF ReactPersist, At, InHand, TypeLocals, Handlers, Steps
  <2>2. TypeChats' /\ TypeMessages' /\ TypeWhatsApp'
    BY <1>8 DEF ReactPersist, TypeChats, TypeMessages, TypeWhatsApp
  <2>3. TypeSide' /\ TypeBounds'
    BY <1>8 DEF ReactPersist, SetReaction, At, InHand, TypeLocals, TypeBounds, TypeSide
  <2>4. QED BY <2>1, <2>2, <2>3
<1>9. CASE ReadGetChat(w)
  <2>1. TypeLocals' /\ InHand'
    BY <1>9, GotoType, EndType DEF ReadGetChat, At, InHand, TypeLocals, Handlers, Steps, TypeChats
  <2>2. TypeChats' /\ TypeMessages' /\ TypeSide' /\ TypeWhatsApp'
    BY <1>9 DEF ReadGetChat, TypeChats, TypeMessages, TypeSide, TypeWhatsApp
  <2>3. TypeBounds'
    BY <1>9 DEF ReadGetChat, At, InHand, TypeLocals, TypeBounds
  <2>4. QED BY <2>1, <2>2, <2>3
<1>10. CASE ReadPutChat(w)
  <2>1. TypeLocals' /\ InHand'
    BY <1>10, EndType DEF ReadPutChat, At, InHand, TypeLocals, Handlers, Steps
  <2>2. TypeMessages' /\ TypeSide' /\ TypeWhatsApp'
    BY <1>10 DEF ReadPutChat, TypeMessages, TypeSide, TypeWhatsApp
  <2>3. TypeChats' /\ TypeBounds'
    BY <1>10 DEF ReadPutChat, PutChat, At, InHand, TypeLocals, TypeBounds, TypeChats
  <2>4. QED BY <2>1, <2>2, <2>3
<1>11. CASE GroupPutChat(w)
  <2>1. TypeLocals' /\ InHand'
    BY <1>11, EndType DEF GroupPutChat, At, InHand, TypeLocals, Handlers, Steps
  <2>2. TypeMessages' /\ TypeSide' /\ TypeWhatsApp'
    BY <1>11 DEF GroupPutChat, TypeMessages, TypeSide, TypeWhatsApp
  <2>3. TypeChats' /\ TypeBounds'
    BY <1>11 DEF GroupPutChat, PutChat, At, InHand, TypeLocals, TypeBounds, TypeChats
  <2>4. QED BY <2>1, <2>2, <2>3
<1>12. QED BY <1>1, <1>2, <1>3, <1>4, <1>5, <1>6, <1>7, <1>8, <1>9, <1>10, <1>11 DEF Perform

\* WhatsApp takes a request, and its answer is lost.
LEMMA TypeLost ==
  ASSUME TypeInv, NEW w \in Procs, AnswerLost(w)
  PROVE  TypeInv'
<1> USE InboxAssumption DEF TypeInv, Fails, chatTable, messageTable, sideTables, bounds
<1>1. TypeLocals' /\ InHand'
  <2>1. End(w) \/ UNCHANGED locals
    BY DEF AnswerLost
  <2>2. QED BY <2>1, EndType, SameType
<1>2. TypeChats' /\ TypeMessages' /\ TypeSide' /\ TypeBounds'
  BY DEF AnswerLost, TypeChats, TypeMessages, TypeSide, TypeBounds
<1>3. TypeWhatsApp'
  <2>1. op[w] = "editMessage" => arg[w] \in Msgs
    BY DEF InHand
  <2>2. op[w] = "deleteMessage" => arg[w] \in Msgs
    BY DEF InHand
  <2>3. msgRows \subseteq Msgs
    BY DEF TypeMessages
  <2>4. CASE At(w, "editMessage", "whatsapp")
             /\ wire' = [wire EXCEPT ![arg[w]] = @ + 1]
             /\ UNCHANGED <<opened, sent, recalled, wireReaction, delivered,
                            deliveries>>
    BY <2>1, <2>4 DEF At, TypeWhatsApp
  <2>5. CASE At(w, "deleteMessage", "whatsapp")
             /\ recalled' = recalled \cup {arg[w]}
             /\ UNCHANGED <<opened, sent, wire, wireReaction, delivered,
                            deliveries>>
    BY <2>2, <2>5 DEF At, TypeWhatsApp
  <2>6. ASSUME UNCHANGED <<wire, recalled, delivered, deliveries>>,
               \/ /\ \E m \in Ours : sent' = sent \cup {m}
                  /\ UNCHANGED <<opened, wireReaction>>
               \/ /\ \E m \in msgRows, e \in Emoji \cup {NoEmoji} :
                       wireReaction' = [wireReaction EXCEPT ![m] = e]
                  /\ UNCHANGED <<opened, sent>>
               \/ /\ \E c \in Groups : opened' = opened \cup {c}
                  /\ UNCHANGED <<sent, wireReaction>>
        PROVE  TypeWhatsApp'
    BY <2>3, <2>6 DEF TypeWhatsApp
  <2>7. QED BY <2>4, <2>5, <2>6 DEF AnswerLost
<1>4. QED BY <1>1, <1>2, <1>3

\* The connection is lost or comes back.
LEMMA TypeConnection ==
  ASSUME TypeInv, Disconnect \/ Connect
  PROVE  TypeInv'
<1> USE DEF TypeInv, Disconnect, Connect, chatTable, messageTable, sideTables, whatsapp
<1>1. TypeLocals' /\ InHand'
  BY SameType
<1>2. TypeChats' /\ TypeMessages' /\ TypeSide' /\ TypeWhatsApp'
  BY DEF TypeChats, TypeMessages, TypeSide, TypeWhatsApp
<1>3. TypeBounds'
  <2>1. \A w \in Workers : op[w] = "react" => arg[w] \in Msgs
    BY DEF InHand
  <2>2. cutOff \subseteq Msgs => cutOff' \subseteq Msgs
    BY <2>1
  <2>3. /\ online' \in BOOLEAN /\ UNCHANGED <<failures, redeliveries, restarts>>
        /\ drops' = drops \/ drops' = drops + 1
    OBVIOUS
  <2>4. QED BY <2>2, <2>3 DEF TypeBounds
<1>4. QED BY <1>1, <1>2, <1>3

\* The daemon starts over.
LEMMA TypeRestart ==
  ASSUME TypeInv, Restart
  PROVE  TypeInv'
<1> USE DEF TypeInv, Restart, chatTable, messageTable, sideTables, whatsapp
<1>1. TypeLocals' /\ InHand'
  BY DEF TypeLocals, InHand, Handlers, Steps
<1>2. TypeChats' /\ TypeMessages' /\ TypeSide' /\ TypeWhatsApp'
  BY DEF TypeChats, TypeMessages, TypeSide, TypeWhatsApp
<1>3. /\ failures' = failures /\ redeliveries' = redeliveries
      /\ drops' = drops /\ restarts' = restarts + 1
      /\ online' = FALSE /\ cutOff' = {}
  OBVIOUS
<1>4. failures \in Nat /\ redeliveries \in Nat /\ restarts \in Nat
      /\ drops \in Nat
  BY DEF TypeBounds
<1> HIDE DEF TypeInv, Restart
<1>5. restarts + 1 \in Nat
  BY <1>4
<1>6. TypeBounds'
  BY <1>3, <1>4, <1>5, Zenon DEF TypeBounds
<1>7. QED BY <1>1, <1>2, <1>6 DEF TypeInv

\* A fresh database and an idle daemon satisfy the type invariant.
LEMMA TypeInit == Init => TypeInv
<1> USE InboxAssumption DEF Init, TypeInv
<1>1. Init => TypeChats /\ TypeMessages /\ TypeBounds
  BY DEF TypeChats, TypeMessages, TypeBounds
<1>2. Init => TypeSide /\ TypeWhatsApp
  BY DEF TypeSide, TypeWhatsApp
<1>3. Init => TypeLocals /\ InHand
  BY DEF TypeLocals, InHand, Handlers, Steps
<1>4. QED BY <1>1, <1>2, <1>3

\* Every step keeps it.
LEMMA TypeStep == TypeInv /\ [Next]_vars => TypeInv'
<1> SUFFICES ASSUME TypeInv, [Next]_vars PROVE TypeInv'
  OBVIOUS
<1>1. CASE Incoming
  <2>1. CASE \E m \in Theirs : TakeMessage(m) \/ TakeEdit(m)
    BY <2>1, TypeTake
  <2>2. CASE \E m \in Msgs : TakeRevoke(m)
    BY <2>2, TypeTake
  <2>3. CASE \E m \in Msgs, e \in Emoji \cup {NoEmoji} : HandleReaction(m, e)
    BY <2>3, TypeReaction
  <2>4. CASE \E batch \in SUBSET Ours : HandleReceipt(batch)
    BY <2>4, TypeReceipt
  <2>5. QED BY <1>1, <2>1, <2>2, <2>3, <2>4 DEF Incoming
<1>2. CASE HandleIncoming(Dispatcher)
  BY <1>2, TypeHandle
<1>3. CASE \E w \in Workers : Request(w) \/ Perform(w) \/ AnswerLost(w)
  <2> SUFFICES ASSUME NEW w \in Workers,
                      Request(w) \/ Perform(w) \/ AnswerLost(w)
               PROVE  TypeInv'
    BY <1>3
  <2>1. w \in Procs
    OBVIOUS
  <2>2. CASE Perform(w)
    BY <2>1, <2>2, TypePerform
  <2>3. CASE Request(w)
    BY <2>1, <2>3, TypeRequest
  <2>4. CASE AnswerLost(w)
    BY <2>1, <2>4, TypeLost
  <2>5. QED BY <2>2, <2>3, <2>4
<1>4. CASE Disconnect \/ Connect \/ Restart
  BY <1>4, TypeRestart, TypeConnection
<1>5. CASE UNCHANGED vars
  <2>1. TypeLocals' /\ InHand'
    BY <1>5 DEF vars, TypeInv, TypeLocals, InHand
  <2>2. TypeChats' /\ TypeMessages' /\ TypeSide' /\ TypeWhatsApp' /\ TypeBounds'
    BY <1>5 DEF vars, TypeInv, TypeChats, TypeMessages, TypeSide, TypeWhatsApp,
                TypeBounds
  <2>3. QED BY <2>1, <2>2 DEF TypeInv
<1>6. QED BY <1>1, <1>2, <1>3, <1>4, <1>5 DEF Next

\* The strengthened invariant holds in every behaviour.
LEMMA TypeInvAlways == Spec => []TypeInv
  BY TypeInit, TypeStep, PTL DEF Spec

\* The database and the goroutines' locals stay in type; in particular
\* unread_count never goes below zero although MarkMessageRead decrements a
\* copy of the row that other goroutines overwrite.
THEOREM InboxTypeCorrect == Spec => []TypeOK
<1>1. TypeInv => TypeOK
  BY TypeParts DEF TypeInv
<1>2. QED BY <1>1, TypeInvAlways, PTL

-----------------------------------------------------------------------------
(* What is announced is stored.                                            *)

\* A handler that is about to emit a received or edited message has stored
\* it: the half of the argument that AnnouncedIsStored does not state.
EmitStored ==
  \A p \in Procs :
    op[p] \in {"message", "edit"} /\ step[p] = "emit" => arg[p] \in msgRows

StoredInv == AnnouncedIsStored /\ EmitStored

\* No statement deletes a row of messages or of receipts.
LEMMA RowsStay ==
  ASSUME TypeInv, [Next]_vars
  PROVE  msgRows \subseteq msgRows' /\ receipts \subseteq receipts'
<1> USE DEF messageTable, sideTables
<1>1. CASE Incoming
  BY <1>1 DEF Incoming, TakeMessage, TakeEdit, TakeRevoke, HandleReaction,
              HandleReceipt
<1>2. CASE HandleIncoming(Dispatcher)
  BY <1>2 DEF HandleIncoming, MessageGetChat, MessagePutChat, MessagePut,
              EditPut, RevokePut, Emit, PutMessage, SoftDelete
<1>3. CASE \E w \in Workers : Request(w)
  BY <1>3 DEF Request, Send, EditMessage, DeleteMessage, MarkRead, React,
              CreateGroup
<1>4. CASE \E w \in Workers : Perform(w)
  BY <1>4 DEF Perform, SendPutMessage, SendGetChat, SendPutChat, EditSend,
              EditPersist, DeleteSend, DeletePersist, ReactPersist,
              ReadGetChat, ReadPutChat, GroupPutChat, PutMessage, SoftDelete
<1>5. CASE \/ \E w \in Workers : AnswerLost(w)
           \/ Disconnect \/ Connect \/ Restart \/ UNCHANGED vars
  BY <1>5 DEF AnswerLost, Disconnect, Connect, Restart, vars
<1>6. QED BY <1>1, <1>2, <1>3, <1>4, <1>5 DEF Next

\* Only the three emitting steps announce anything, and each announces what
\* is stored by then.
LEMMA AnnouncedStep ==
  ASSUME TypeInv, StoredInv, [Next]_vars
  PROVE  AnnouncedIsStored'
<1>0. msgRows \subseteq msgRows' /\ receipts \subseteq receipts'
  BY RowsStay
<1>1. ASSUME announced' = announced PROVE AnnouncedIsStored'
  BY <1>0, <1>1 DEF StoredInv, AnnouncedIsStored
<1>2. CASE Emit(Dispatcher)
  <2>1. /\ op[Dispatcher] \in {"message", "edit", "revoke"}
        /\ step[Dispatcher] = "emit"
        /\ announced' = announced
              \cup {<<EventType(op[Dispatcher]), {arg[Dispatcher]}>>}
    BY <1>2 DEF Emit, Announce
  <2>2. EventType(op[Dispatcher]) # "receipt.received"
    BY <2>1 DEF EventType
  <2>3. EventType(op[Dispatcher]) \in {"message.received", "message.edited"}
        => op[Dispatcher] \in {"message", "edit"}
    BY <2>1 DEF EventType
  <2>4. op[Dispatcher] \in {"message", "edit"} => arg[Dispatcher] \in msgRows
    BY <2>1 DEF StoredInv, EmitStored
  <2>5. QED
    BY <1>0, <2>1, <2>2, <2>3, <2>4 DEF StoredInv, AnnouncedIsStored
<1>3. ASSUME NEW batch \in SUBSET Ours, HandleReceipt(batch)
      PROVE  AnnouncedIsStored'
  <2>1. PICK stored \in SUBSET (batch \cap msgRows) :
          /\ receipts' = receipts \cup stored
          /\ IF stored # {} THEN Announce("receipt.received", batch)
                            ELSE UNCHANGED announced
    BY <1>3 DEF HandleReceipt
  <2>2. CASE stored = {}
    BY <1>1, <2>1, <2>2
  <2>3. CASE stored # {}
    <3>1. announced' = announced \cup {<<"receipt.received", batch>>}
      BY <2>1, <2>3 DEF Announce
    <3>2. batch \cap receipts' # {}
      BY <2>1, <2>3
    <3>3. QED BY <1>0, <3>1, <3>2 DEF StoredInv, AnnouncedIsStored
  <2>4. QED BY <2>2, <2>3
<1>4. ASSUME NEW m \in Msgs, NEW e \in Emoji \cup {NoEmoji},
             HandleReaction(m, e)
      PROVE  AnnouncedIsStored'
  <2>1. \/ announced' = announced \cup {<<"reaction.received", {m}>>}
        \/ announced' = announced
    BY <1>4 DEF HandleReaction, Announce
  <2>2. QED BY <1>0, <1>1, <2>1 DEF StoredInv, AnnouncedIsStored
<1> USE DEF sideTables
<1>5. CASE \/ \E m \in Theirs : TakeMessage(m) \/ TakeEdit(m)
           \/ \E m \in Msgs : TakeRevoke(m)
  BY <1>1, <1>5 DEF TakeMessage, TakeEdit, TakeRevoke
<1>6. CASE HandleIncoming(Dispatcher) /\ ~Emit(Dispatcher)
  BY <1>1, <1>6 DEF HandleIncoming, MessageGetChat, MessagePutChat,
                    MessagePut, EditPut, RevokePut
<1>7. CASE \E w \in Workers : Request(w)
  BY <1>1, <1>7 DEF Request, Send, EditMessage, DeleteMessage, MarkRead,
                    React, CreateGroup
<1>8. CASE \E w \in Workers : Perform(w)
  BY <1>1, <1>8 DEF Perform, SendPutMessage, SendGetChat, SendPutChat,
              EditSend, EditPersist, DeleteSend, DeletePersist, ReactPersist,
              ReadGetChat, ReadPutChat, GroupPutChat
<1>9. CASE \/ \E w \in Workers : AnswerLost(w)
           \/ Disconnect \/ Connect \/ Restart \/ UNCHANGED vars
  BY <1>1, <1>9 DEF AnswerLost, Disconnect, Connect, Restart, vars
<1>10. QED
  BY <1>2, <1>3, <1>4, <1>5, <1>6, <1>7, <1>8, <1>9 DEF Next, Incoming

\* A goroutine that does nothing, or that comes to any other step, keeps
\* EmitStored.
LEMMA EmitKept ==
  ASSUME StoredInv, msgRows \subseteq msgRows', NEW q \in Procs,
         \A p \in Procs \ {q} :
           op'[p] = op[p] /\ step'[p] = step[p] /\ arg'[p] = arg[p],
         op'[q] \in {"message", "edit"} /\ step'[q] = "emit"
           => arg'[q] \in msgRows'
  PROVE  EmitStored'
  BY DEF StoredInv, EmitStored

\* How a goroutine's step changes its own locals and nobody else's: when it
\* begins an operation,
LEMMA BeginMoves ==
  ASSUME TypeLocals, NEW q \in Procs, NEW o, NEW s, NEW a, NEW v, NEW d,
         Begin(q, o, s, a, v, d)
  PROVE  /\ \A p \in Procs \ {q} : /\ op'[p] = op[p] /\ step'[p] = step[p]
                                   /\ arg'[p] = arg[p] /\ val'[p] = val[p]
         /\ op'[q] = o /\ step'[q] = s /\ arg'[q] = a /\ val'[q] = v
  BY DEF TypeLocals, Begin

\* goes on to another call,
LEMMA GotoMoves ==
  ASSUME TypeLocals, NEW q \in Procs, NEW s, NEW v, Goto(q, s, v)
  PROVE  /\ \A p \in Procs \ {q} : /\ op'[p] = op[p] /\ step'[p] = step[p]
                                   /\ arg'[p] = arg[p] /\ val'[p] = val[p]
         /\ op'[q] = op[q] /\ arg'[q] = arg[q] /\ step'[q] = s /\ val'[q] = v
  BY DEF TypeLocals, Goto

\* or ends the operation.
LEMMA EndMoves ==
  ASSUME TypeLocals, NEW q \in Procs, End(q)
  PROVE  /\ \A p \in Procs \ {q} : /\ op'[p] = op[p] /\ step'[p] = step[p]
                                   /\ arg'[p] = arg[p] /\ val'[p] = val[p]
         /\ op'[q] = "idle" /\ step'[q] = "idle"
  BY DEF TypeLocals, End

\* A handler comes to its emit only by storing the message.
LEMMA EmitStep ==
  ASSUME TypeInv, StoredInv, [Next]_vars
  PROVE  EmitStored'
<1>0. msgRows \subseteq msgRows' /\ TypeLocals
  BY RowsStay DEF TypeInv
<1>1. ASSUME UNCHANGED <<op, step, arg>> PROVE EmitStored'
  BY <1>0, <1>1 DEF StoredInv, EmitStored
  \* begins an operation, elsewhere than at its emit
<1>2. ASSUME NEW q \in Procs, NEW o, NEW s, NEW a, NEW v, NEW d,
             s # "emit", Begin(q, o, s, a, v, d)
      PROVE  EmitStored'
  BY <1>0, <1>2, BeginMoves, GotoMoves, EndMoves, EmitKept
<1>3. ASSUME NEW q \in Procs, End(q) PROVE EmitStored'
  BY <1>0, <1>3, BeginMoves, GotoMoves, EndMoves, EmitKept
<1>4. ASSUME NEW q \in Procs, NEW s, NEW v, Goto(q, s, v),
             s = "emit" /\ op[q] \in {"message", "edit"}
               => arg[q] \in msgRows'
      PROVE  EmitStored'
  BY <1>0, <1>4, BeginMoves, GotoMoves, EndMoves, EmitKept
<1>5. CASE Incoming
  <2>1. ASSUME NEW m \in Theirs, TakeMessage(m) PROVE EmitStored'
    BY <2>1, <1>2 DEF TakeMessage
  <2>2. ASSUME NEW m \in Theirs, TakeEdit(m) PROVE EmitStored'
    BY <2>2, <1>1, <1>2 DEF TakeEdit, locals
  <2>3. ASSUME NEW m \in Msgs, TakeRevoke(m) PROVE EmitStored'
    BY <2>3, <1>2 DEF TakeRevoke
  <2>4. ASSUME NEW m \in Msgs, NEW e \in Emoji \cup {NoEmoji},
               HandleReaction(m, e)
        PROVE  EmitStored'
    BY <2>4, <1>1 DEF HandleReaction, locals
  <2>5. ASSUME NEW batch \in SUBSET Ours, HandleReceipt(batch)
        PROVE  EmitStored'
    BY <2>5, <1>1 DEF HandleReceipt, locals
  <2>6. QED BY <1>5, <2>1, <2>2, <2>3, <2>4, <2>5 DEF Incoming
<1>6. CASE HandleIncoming(Dispatcher)
  <2>0. Dispatcher \in Procs
    OBVIOUS
  <2>1. CASE MessageGetChat(Dispatcher)
    BY <2>0, <2>1, <1>4 DEF MessageGetChat, GetChat
  <2>2. CASE MessagePutChat(Dispatcher)
    BY <2>0, <2>2, <1>4 DEF MessagePutChat
  <2>3. CASE MessagePut(Dispatcher)
    BY <2>0, <2>3, <1>3, <1>4 DEF MessagePut, PutMessage
  <2>4. CASE EditPut(Dispatcher)
    BY <2>0, <2>4, <1>3, <1>4 DEF EditPut, PutMessage
  <2>5. CASE RevokePut(Dispatcher)
    BY <2>0, <2>5, <1>3, <1>4 DEF RevokePut, At
  <2>6. CASE Emit(Dispatcher)
    BY <2>0, <2>6, <1>3 DEF Emit
  <2>7. QED BY <1>6, <2>1, <2>2, <2>3, <2>4, <2>5, <2>6 DEF HandleIncoming
<1>7. ASSUME NEW w \in Workers, Request(w) PROVE EmitStored'
  BY <1>2, <1>7 DEF Request, Send, EditMessage, DeleteMessage, MarkRead,
                    React, CreateGroup
<1>8. ASSUME NEW w \in Workers, Perform(w) PROVE EmitStored'
  <2>0. w \in Procs
    OBVIOUS
  <2>1. CASE SendPutMessage(w) \/ SendGetChat(w) \/ SendPutChat(w)
    BY <2>0, <2>1, <1>3, <1>4 DEF SendPutMessage, SendGetChat, SendPutChat,
                                  GetChat
  <2>2. CASE EditSend(w) \/ EditPersist(w) \/ DeleteSend(w) \/ DeletePersist(w)
    BY <2>0, <2>2, <1>3, <1>4 DEF EditSend, EditPersist, DeleteSend,
                                  DeletePersist
  <2>3. CASE \/ ReactPersist(w) \/ ReadGetChat(w) \/ ReadPutChat(w)
             \/ GroupPutChat(w)
    BY <2>0, <2>3, <1>3, <1>4 DEF ReactPersist, ReadGetChat, ReadPutChat,
                                  GroupPutChat
  <2>4. QED BY <1>8, <2>1, <2>2, <2>3 DEF Perform
<1>9. CASE Restart
  BY <1>9 DEF Restart, EmitStored
<1>10. ASSUME NEW w \in Workers, AnswerLost(w) PROVE EmitStored'
  BY <1>1, <1>3, <1>10 DEF AnswerLost, locals
<1>11. CASE Disconnect \/ Connect \/ UNCHANGED vars
  BY <1>11, <1>1 DEF Disconnect, Connect, locals, vars
<1>12. QED BY <1>5, <1>6, <1>7, <1>8, <1>9, <1>10, <1>11 DEF Next

\* An event is emitted only for what the store took, also when statements
\* fail and the daemon crashes between a statement and the emit.
THEOREM InboxAnnouncesStored == Spec => []AnnouncedIsStored
<1>1. Init => StoredInv
  BY DEF Init, StoredInv, AnnouncedIsStored, EmitStored
<1>2. TypeInv /\ StoredInv /\ [Next]_vars => StoredInv'
  BY AnnouncedStep, EmitStep DEF StoredInv
<1>3. StoredInv => AnnouncedIsStored
  BY DEF StoredInv
<1>4. QED BY <1>1, <1>2, <1>3, TypeInvAlways, PTL DEF Spec

-----------------------------------------------------------------------------
(* unread_count.                                                           *)

\* The messages of each chat that handleIncoming has counted or has given up
\* on: all that were delivered, but for one it is still to count.
settled ==
  [c \in Jids |->
     IF /\ op[Dispatcher] = "message"
        /\ step[Dispatcher] \in {"getChat", "putChat"}
        /\ ChatOf[arg[Dispatcher]] = c
     THEN deliveries[c] - 1 ELSE deliveries[c]]

\* Neither the rows nor the copies of them that goroutines are about to write
\* back show more.  A copy may be old, but deliveries never go down.
CountInv ==
  /\ \A c \in Jids : unread[c] <= settled[c]
  /\ \A p \in Procs :
       op[p] \in {"message", "send", "read"} /\ step[p] = "putChat"
         => val[p] <= settled[ChatOf[arg[p]]]

\* The chat goroutine p works on, when it works on a message.
LEMMA ChatInHand ==
  ASSUME TypeInv, NEW p \in Procs, op[p] \notin {"idle", "group"}
  PROVE  arg[p] \in Msgs /\ ChatOf[arg[p]] \in Jids
  BY InboxAssumption DEF TypeInv, InHand

\* Counts are integers.
LEMMA SettledType ==
  ASSUME TypeInv
  PROVE  settled \in [Jids -> Int] /\ unread \in [Jids -> Nat]
  BY DEF TypeInv, TypeWhatsApp, TypeChats, settled

\* Only what handleIncoming does changes settled.
LEMMA SettledSame ==
  ASSUME deliveries' = deliveries,
         op'[Dispatcher] = op[Dispatcher], step'[Dispatcher] = step[Dispatcher],
         arg'[Dispatcher] = arg[Dispatcher]
  PROVE  settled' = settled
  BY DEF settled

\* A step by q preserves CountInv when the chats it writes and the copy it
\* holds are bounded, and nothing becomes unsettled.
LEMMA CountKept ==
  ASSUME TypeInv, TypeInv', CountInv, NEW q \in Procs,
         \A c \in Jids : settled[c] <= settled'[c],
         \A c \in Jids : unread'[c] = unread[c] \/ unread'[c] <= settled'[c],
         \A p \in Procs \ {q} : /\ op'[p] = op[p] /\ step'[p] = step[p]
                                /\ arg'[p] = arg[p] /\ val'[p] = val[p],
         op'[q] \in {"message", "send", "read"} /\ step'[q] = "putChat"
           => val'[q] <= settled'[ChatOf[arg'[q]]]
  PROVE  CountInv'
<1>0. /\ settled \in [Jids -> Int] /\ unread \in [Jids -> Nat]
      /\ settled' \in [Jids -> Int] /\ unread' \in [Jids -> Nat]
      /\ val \in [Procs -> Nat]
  <2>1. settled \in [Jids -> Int] /\ unread \in [Jids -> Nat]
    BY SettledType
  <2>2. settled' \in [Jids -> Int] /\ unread' \in [Jids -> Nat]
    BY DEF TypeInv, TypeWhatsApp, TypeChats, settled
  <2>3. QED BY <2>1, <2>2 DEF TypeInv, TypeLocals
<1>1. \A c \in Jids : unread'[c] <= settled'[c]
  BY <1>0 DEF CountInv
<1>2. ASSUME NEW p \in Procs, op'[p] \in {"message", "send", "read"},
             step'[p] = "putChat"
      PROVE  val'[p] <= settled'[ChatOf[arg'[p]]]
  <2>1. CASE p = q
    BY <1>2, <2>1
  <2>2. CASE p # q
    <3>1. /\ op[p] \in {"message", "send", "read"} /\ step[p] = "putChat"
          /\ arg'[p] = arg[p] /\ val'[p] = val[p]
      BY <1>2, <2>2
    <3>2. ChatOf[arg[p]] \in Jids
      BY <3>1, ChatInHand
    <3>3. val[p] <= settled[ChatOf[arg[p]]]
      BY <3>1 DEF CountInv
    <3>4. QED BY <1>0, <3>1, <3>2, <3>3
  <2>3. QED BY <2>1, <2>2
<1>3. QED BY <1>1, <1>2 DEF CountInv

\* whatsmeow hands an event over: a new message is not settled yet.
LEMMA CountIncoming ==
  ASSUME TypeInv, TypeInv', CountInv, Incoming
  PROVE  CountInv'
<1> DEFINE D == Dispatcher
<1>0. /\ deliveries \in [Jids -> Nat] /\ op \in [Procs -> Handlers]
      /\ step \in [Procs -> Steps] /\ arg \in [Procs -> Msgs \cup Jids \cup {NoArg}]
      /\ D \in Procs /\ ChatOf \in [Msgs -> Jids]
  BY InboxAssumption DEF TypeInv, TypeWhatsApp, TypeLocals
  \* one that is handled at once, or dropped
<1>1. ASSUME UNCHANGED <<unread, deliveries, op, step, arg, val>>
      PROVE  CountInv'
  BY <1>1 DEF CountInv, settled
  \* one that is taken up
<1>2. ASSUME NEW o, NEW s, NEW a, NEW v, NEW d, Begin(D, o, s, a, v, d),
             s # "putChat", UNCHANGED unread,
             \A c \in Jids : settled[c] <= settled'[c]
      PROVE  CountInv'
  <2>1. TypeLocals
    BY DEF TypeInv
  <2>2. /\ \A p \in Procs \ {D} : /\ op'[p] = op[p] /\ step'[p] = step[p]
                                  /\ arg'[p] = arg[p] /\ val'[p] = val[p]
        /\ step'[D] = s
    BY <1>0, <1>2, <2>1, BeginMoves, GotoMoves, EndMoves
  <2>3. QED BY <1>0, <1>2, <2>2, CountKept
<1>3. ASSUME NEW m \in Theirs, TakeMessage(m) PROVE CountInv'
  <2>1. /\ Begin(D, "message", "getChat", m, 0, FALSE) /\ UNCHANGED unread
        /\ deliveries' = [deliveries EXCEPT ![ChatOf[m]] = @ + 1]
    BY <1>3 DEF TakeMessage, chatTable
  <2>2. \A c \in Jids : settled[c] <= settled'[c]
    <3>1. op[D] = "idle" /\ op'[D] = "message" /\ step'[D] = "getChat"
          /\ arg'[D] = m
      BY <1>0, <2>1 DEF Begin
    <3>2. QED BY <1>0, <2>1, <3>1 DEF settled
  <2>3. QED BY <1>2, <2>1, <2>2
<1>4. ASSUME NEW m \in Theirs, TakeEdit(m) PROVE CountInv'
  <2>1. UNCHANGED <<unread, deliveries>>
    BY <1>4 DEF TakeEdit, chatTable
  <2>2. CASE UNCHANGED locals
    BY <1>1, <2>1, <2>2 DEF locals
  <2>3. CASE Begin(D, "edit", "putMessage", m, wire[m] + 1, deleted[m])
    <3>1. \A c \in Jids : settled[c] <= settled'[c]
      BY <1>0, <2>1, <2>3 DEF settled, Begin
    <3>2. QED BY <1>2, <2>1, <2>3, <3>1
  <2>4. QED BY <1>4, <2>2, <2>3 DEF TakeEdit
<1>5. ASSUME NEW m \in Msgs, TakeRevoke(m) PROVE CountInv'
  <2>1. /\ UNCHANGED <<unread, deliveries>>
        /\ Begin(D, "revoke", "softDelete", m, 0, FALSE)
    BY <1>5 DEF TakeRevoke, chatTable
  <2>2. \A c \in Jids : settled[c] <= settled'[c]
    BY <1>0, <2>1 DEF settled, Begin
  <2>3. QED BY <1>2, <2>1, <2>2
<1>6. ASSUME NEW m \in Msgs, NEW e \in Emoji \cup {NoEmoji},
             HandleReaction(m, e)
      PROVE  CountInv'
  BY <1>1, <1>6 DEF HandleReaction, chatTable, whatsapp, locals
<1>7. ASSUME NEW batch \in SUBSET Ours, HandleReceipt(batch)
      PROVE  CountInv'
  BY <1>1, <1>7 DEF HandleReceipt, chatTable, whatsapp, locals
<1>8. QED BY <1>3, <1>4, <1>5, <1>6, <1>7 DEF Incoming

\* handleIncoming counts the message it was given, on a copy of the row.
LEMMA CountHandle ==
  ASSUME TypeInv, TypeInv', CountInv, HandleIncoming(Dispatcher)
  PROVE  CountInv'
<1> DEFINE D == Dispatcher
<1>0. /\ deliveries \in [Jids -> Nat] /\ op \in [Procs -> Handlers]
      /\ step \in [Procs -> Steps] /\ val \in [Procs -> Nat]
      /\ arg \in [Procs -> Msgs \cup Jids \cup {NoArg}]
      /\ D \in Procs /\ TypeLocals
  BY DEF TypeInv, TypeWhatsApp, TypeLocals
<1>1. settled \in [Jids -> Int] /\ unread \in [Jids -> Nat]
  BY SettledType
<1>2. UNCHANGED deliveries
  BY DEF HandleIncoming, MessageGetChat, MessagePutChat, MessagePut, EditPut,
         RevokePut, Emit, whatsapp
<1>3. \A p \in Procs \ {D} : /\ op'[p] = op[p] /\ step'[p] = step[p]
                             /\ arg'[p] = arg[p] /\ val'[p] = val[p]
  <2>1. (\E s, v : Goto(D, s, v)) \/ End(D)
    BY DEF HandleIncoming, MessageGetChat, GetChat, MessagePutChat,
           MessagePut, EditPut, RevokePut, Emit
  <2>2. QED BY <1>0, <2>1, BeginMoves, GotoMoves, EndMoves
<1>4. CASE MessageGetChat(D)
  <2> DEFINE c0 == ChatOf[arg[D]]
  <2>1. /\ op[D] = "message" /\ step[D] = "getChat" /\ UNCHANGED unread
        /\ \E n \in {0, unread[c0]} : Goto(D, "putChat", n)
    BY <1>4 DEF MessageGetChat, At, GetChat, chatTable
  <2>2. PICK n \in {0, unread[c0]} : Goto(D, "putChat", n)
    BY <2>1
  <2>3. /\ op'[D] = "message" /\ step'[D] = "putChat" /\ arg'[D] = arg[D]
        /\ val'[D] = n
    BY <1>0, <2>1, <2>2, BeginMoves, GotoMoves, EndMoves
  <2>4. settled' = settled
    BY <1>2, <2>1, <2>3 DEF settled
  <2>5. c0 \in Jids
    BY <1>0, <2>1, ChatInHand
  <2>6. n <= settled[c0]
    BY <1>1, <2>2, <2>5 DEF CountInv
  <2>7. QED BY <1>0, <1>1, <1>3, <2>1, <2>3, <2>4, <2>6, CountKept
<1>5. CASE MessagePutChat(D)
  <2> DEFINE c0 == ChatOf[arg[D]]
  <2>1. /\ op[D] = "message" /\ step[D] = "putChat"
        /\ Goto(D, "putMessage", 0)
    BY <1>5 DEF MessagePutChat, At
  <2>2. unread' = unread \/ unread' = [unread EXCEPT ![c0] = val[D] + 1]
    BY <1>5 DEF MessagePutChat, PutChat, chatTable
  <2>3. step'[D] = "putMessage"
    BY <1>0, <2>1, BeginMoves, GotoMoves, EndMoves
  <2>4. c0 \in Jids
    BY <1>0, <2>1, ChatInHand
  <2>5. /\ \A c \in Jids : settled[c] <= settled'[c]
        /\ settled'[c0] = settled[c0] + 1
    BY <1>0, <1>2, <2>1, <2>3, <2>4 DEF settled
  <2>6. val[D] <= settled[c0]
    BY <1>0, <2>1 DEF CountInv
  <2>7. \A c \in Jids : unread'[c] = unread[c] \/ unread'[c] <= settled'[c]
    BY <1>0, <1>1, <2>2, <2>4, <2>5, <2>6
  <2>8. QED BY <1>0, <1>3, <2>3, <2>5, <2>7, CountKept
<1>6. CASE MessagePut(D) \/ EditPut(D) \/ RevokePut(D) \/ Emit(D)
  <2>1. /\ op[D] = "message" => step[D] \notin {"getChat", "putChat"}
        /\ Goto(D, "emit", 0) \/ End(D)
    BY <1>6 DEF MessagePut, EditPut, RevokePut, Emit, At, chatTable
  <2>2. step'[D] \in {"emit", "idle"}
    BY <1>0, <2>1, BeginMoves, GotoMoves, EndMoves
  <2>3. settled' = settled
    BY <1>2, <2>1, <2>2 DEF settled
  <2>4. UNCHANGED unread
    BY <1>6 DEF MessagePut, EditPut, RevokePut, Emit, chatTable
  <2>5. QED BY <1>0, <1>1, <1>3, <2>2, <2>3, <2>4, CountKept
<1>7. QED BY <1>4, <1>5, <1>6 DEF HandleIncoming

\* An API operation writes back a copy it read, or less, and settles nothing.
LEMMA CountApi ==
  ASSUME TypeInv, TypeInv', CountInv, NEW w \in Workers,
         Request(w) \/ Perform(w)
  PROVE  CountInv'
<1>0. /\ op \in [Procs -> Handlers] /\ step \in [Procs -> Steps]
      /\ val \in [Procs -> Nat] /\ arg \in [Procs -> Msgs \cup Jids \cup {NoArg}]
      /\ w \in Procs /\ Dispatcher \in Procs \ {w} /\ TypeLocals
  BY InboxAssumption DEF TypeInv, TypeLocals
<1>1. settled \in [Jids -> Int] /\ unread \in [Jids -> Nat]
  BY SettledType
<1>2. UNCHANGED deliveries
  BY DEF Request, Send, EditMessage, DeleteMessage, MarkRead, React,
         CreateGroup, Perform, SendPutMessage, SendGetChat, SendPutChat,
         EditSend, EditPersist, DeleteSend, DeletePersist, ReactPersist,
         ReadGetChat, ReadPutChat, GroupPutChat, whatsapp
<1>3. ASSUME NEW o, NEW s, NEW a, NEW v, NEW d,
             Begin(w, o, s, a, v, d) \/ Goto(w, s, v) \/ End(w)
      PROVE  /\ settled' = settled
             /\ \A p \in Procs \ {w} : /\ op'[p] = op[p] /\ step'[p] = step[p]
                                       /\ arg'[p] = arg[p] /\ val'[p] = val[p]
  <2>1. \A p \in Procs \ {w} : /\ op'[p] = op[p] /\ step'[p] = step[p]
                               /\ arg'[p] = arg[p] /\ val'[p] = val[p]
    BY <1>0, <1>3, BeginMoves, GotoMoves, EndMoves
  <2>2. QED BY <1>0, <1>2, <2>1, SettledSame
<1>4. ASSUME UNCHANGED unread, settled' = settled,
             \A p \in Procs \ {w} : /\ op'[p] = op[p] /\ step'[p] = step[p]
                                    /\ arg'[p] = arg[p] /\ val'[p] = val[p],
             op'[w] = "group" \/ step'[w] # "putChat"
      PROVE  CountInv'
  BY <1>0, <1>1, <1>4, CountKept
<1>begin. ASSUME NEW o, NEW s, NEW a, NEW v, NEW d, UNCHANGED unread,
             Begin(w, o, s, a, v, d), o = "group" \/ s # "putChat"
      PROVE  CountInv'
  BY <1>0, <1>3, <1>4, <1>begin, BeginMoves
<1>goto. ASSUME NEW s, NEW v, UNCHANGED unread, Goto(w, s, v), s # "putChat"
      PROVE  CountInv'
  BY <1>0, <1>3, <1>4, <1>goto, GotoMoves
<1>end. ASSUME UNCHANGED unread, End(w) PROVE CountInv'
  BY <1>0, <1>3, <1>4, <1>end, EndMoves
<1>5. CASE Request(w)
  <2>0. UNCHANGED unread
    BY <1>5 DEF Request, Send, EditMessage, DeleteMessage, MarkRead, React,
                CreateGroup, chatTable
  <2>1. ASSUME NEW m \in Msgs,
               Send(w, m) \/ EditMessage(w, m) \/ DeleteMessage(w, m)
               \/ MarkRead(w, m)
        PROVE  CountInv'
    BY <1>begin, <2>0, <2>1 DEF Send, EditMessage, DeleteMessage, MarkRead
  <2>2. ASSUME NEW m \in Msgs, NEW e \in Emoji \cup {NoEmoji}, React(w, m, e)
        PROVE  CountInv'
    BY <1>begin, <2>0, <2>2 DEF React
  <2>3. ASSUME NEW c \in Groups, CreateGroup(w, c) PROVE CountInv'
    BY <1>begin, <2>0, <2>3 DEF CreateGroup
  <2>4. QED BY <1>5, <2>1, <2>2, <2>3 DEF Request
<1>6. CASE SendPutMessage(w) \/ EditSend(w) \/ EditPersist(w) \/ DeleteSend(w)
           \/ DeletePersist(w) \/ ReactPersist(w)
  <2>1. UNCHANGED unread
    BY <1>6 DEF SendPutMessage, EditSend, EditPersist, DeleteSend,
                DeletePersist, ReactPersist, chatTable
  <2>2. Goto(w, "getChat", 0) \/ Goto(w, "softDelete", 0) \/ End(w)
        \/ \E v : Goto(w, "putMessage", v)
    BY <1>6 DEF SendPutMessage, EditSend, EditPersist, DeleteSend,
                DeletePersist, ReactPersist
  <2>3. QED BY <1>goto, <1>end, <2>1, <2>2
  \* The copy is the row's count, or 0.
<1>7. CASE SendGetChat(w) \/ ReadGetChat(w)
  <2> DEFINE c0 == ChatOf[arg[w]]
  <2>1. /\ op[w] \in {"send", "read"} /\ UNCHANGED unread
        /\ (\E n \in {0, unread[c0]} : Goto(w, "putChat", n)) \/ End(w)
    BY <1>7 DEF SendGetChat, ReadGetChat, At, GetChat, chatTable
  <2>2. CASE End(w)
    BY <1>end, <2>1, <2>2
  <2>3. ASSUME NEW n \in {0, unread[c0]}, Goto(w, "putChat", n)
        PROVE  CountInv'
    <3>1. /\ op'[w] = op[w] /\ step'[w] = "putChat" /\ arg'[w] = arg[w]
          /\ val'[w] = n
      BY <1>0, <2>3, BeginMoves, GotoMoves, EndMoves
    <3>2. c0 \in Jids
      BY <1>0, <2>1, ChatInHand
    <3>3. n <= settled[c0]
      BY <1>1, <2>3, <3>2 DEF CountInv
    <3>4. /\ settled' = settled
          /\ \A p \in Procs \ {w} : /\ op'[p] = op[p] /\ step'[p] = step[p]
                                    /\ arg'[p] = arg[p] /\ val'[p] = val[p]
      BY <1>3, <2>3
    <3>5. QED BY <1>0, <1>1, <2>1, <3>1, <3>3, <3>4, CountKept
  <2>4. QED BY <2>1, <2>2, <2>3
  \* The copy, or one less, goes back.
<1>8. CASE SendPutChat(w) \/ ReadPutChat(w)
  <2> DEFINE c0 == ChatOf[arg[w]]
  <2>1. /\ op[w] \in {"send", "read"} /\ step[w] = "putChat" /\ End(w)
        /\ \/ unread' = unread
           \/ \E n \in {val[w], val[w] - 1} : unread' = [unread EXCEPT ![c0] = n]
    BY <1>8 DEF SendPutChat, ReadPutChat, At, PutChat, chatTable
  <2>2. c0 \in Jids
    BY <1>0, <2>1, ChatInHand
  <2>3. val[w] <= settled[c0]
    BY <1>0, <2>1 DEF CountInv
  <2>4. settled' = settled /\ op'[w] = "idle"
    BY <1>0, <1>3, <2>1, BeginMoves, GotoMoves, EndMoves
  <2>5. \A c \in Jids : unread'[c] = unread[c] \/ unread'[c] <= settled'[c]
    BY <1>0, <1>1, <2>1, <2>2, <2>3, <2>4
  <2>6. QED BY <1>0, <1>1, <1>3, <2>1, <2>4, <2>5, CountKept
  \* A new group has nothing unread.
<1>9. CASE GroupPutChat(w)
  <2>1. /\ End(w)
        /\ unread' = unread \/ unread' = [unread EXCEPT ![arg[w]] = 0]
    BY <1>9 DEF GroupPutChat, PutChat, chatTable
  <2>2. settled' = settled /\ op'[w] = "idle"
    BY <1>0, <1>3, <2>1, BeginMoves, GotoMoves, EndMoves
  <2>3. \A c \in Jids : 0 <= settled[c]
    BY <1>1 DEF CountInv
  <2>4. \A c \in Jids : unread'[c] = unread[c] \/ unread'[c] <= settled'[c]
    BY <1>1, <2>1, <2>2, <2>3
  <2>5. QED BY <1>0, <1>1, <1>3, <2>1, <2>2, <2>4, CountKept
<1>10. QED BY <1>5, <1>6, <1>7, <1>8, <1>9 DEF Perform

\* A lost answer ends the operation or leaves all as it was, and the
\* connection is no matter.
LEMMA CountLost ==
  ASSUME TypeInv, TypeInv', CountInv,
         \/ \E w \in Workers : AnswerLost(w)
         \/ Disconnect \/ Connect
  PROVE  CountInv'
<1>1. UNCHANGED <<unread, deliveries>>
  BY DEF AnswerLost, Disconnect, Connect, chatTable, whatsapp
<1>2. ASSUME UNCHANGED locals PROVE CountInv'
  BY <1>1, <1>2 DEF CountInv, settled, locals
<1>3. ASSUME NEW w \in Workers, End(w) PROVE CountInv'
  <2>1. TypeLocals /\ w \in Procs /\ Dispatcher \in Procs \ {w}
    BY InboxAssumption DEF TypeInv
  <2>2. /\ op'[w] = "idle"
        /\ \A p \in Procs \ {w} : /\ op'[p] = op[p] /\ step'[p] = step[p]
                                  /\ arg'[p] = arg[p] /\ val'[p] = val[p]
    BY <1>3, <2>1, EndMoves
  <2>3. settled' = settled
    BY <1>1, <2>1, <2>2, SettledSame
  <2>4. settled \in [Jids -> Int]
    BY SettledType
  <2>5. QED BY <1>1, <2>1, <2>2, <2>3, <2>4, CountKept
<1>4. QED BY <1>2, <1>3 DEF AnswerLost, Disconnect, Connect

\* A crash loses copies and leaves every delivery settled.
LEMMA CountRestart ==
  ASSUME TypeInv, CountInv, Restart
  PROVE  CountInv'
<1>1. /\ unread' = unread /\ deliveries' = deliveries
      /\ op' = [p \in Procs |-> "idle"]
  BY DEF Restart, chatTable, whatsapp
<1>2. deliveries \in [Jids -> Nat] /\ unread \in [Jids -> Nat]
  BY DEF TypeInv, TypeWhatsApp, TypeChats
<1>3. \A c \in Jids : settled[c] <= deliveries[c] /\ settled'[c] = deliveries[c]
  BY <1>1, <1>2 DEF settled
<1>4. settled \in [Jids -> Int]
  BY SettledType
<1>5. \A c \in Jids : unread'[c] <= settled'[c]
  BY <1>1, <1>2, <1>3, <1>4 DEF CountInv
<1>6. QED BY <1>1, <1>5 DEF CountInv

\* A chat never shows more unread messages than were delivered to it,
\* however handleIncoming, sends, reads and group creation interleave their
\* unlocked read-modify-writes of its row.
THEOREM InboxNeverOvercounts == Spec => []UnreadNeverOvercounts
<1>1. Init => CountInv
  <2> SUFFICES ASSUME Init PROVE CountInv
    OBVIOUS
  <2>1. op = [p \in Procs |-> "idle"] /\ step = [p \in Procs |-> "idle"]
    BY DEF Init
  <2>2. deliveries = [c \in Jids |-> 0] /\ unread = [c \in Jids |-> 0]
    BY DEF Init
  <2>3. QED BY <2>1, <2>2 DEF CountInv, settled
<1>2. TypeInv /\ TypeInv' /\ CountInv /\ [Next]_vars => CountInv'
  <2> SUFFICES ASSUME TypeInv, TypeInv', CountInv, [Next]_vars
               PROVE  CountInv'
    OBVIOUS
  <2>1. CASE UNCHANGED vars
    BY <2>1 DEF vars, CountInv, settled
  <2>2. QED
    BY <2>1, CountIncoming, CountHandle, CountApi, CountLost, CountRestart
       DEF Next
<1>3. TypeInv /\ CountInv => UnreadNeverOvercounts
  <2> SUFFICES ASSUME TypeInv, CountInv, NEW c \in Jids
               PROVE  unread[c] <= deliveries[c]
    BY DEF UnreadNeverOvercounts
  <2>1. deliveries[c] \in Nat /\ unread[c] \in Nat
    BY DEF TypeInv, TypeWhatsApp, TypeChats
  <2>2. settled[c] \in Int /\ settled[c] <= deliveries[c]
    BY <2>1 DEF settled
  <2>3. unread[c] <= settled[c]
    BY DEF CountInv
  <2>4. QED BY <2>1, <2>2, <2>3
<1>4. QED BY <1>1, <1>2, <1>3, TypeInvAlways, PTL DEF Spec

=============================================================================
