------------------------------- MODULE Paging -------------------------------
(***************************************************************************)
(* The two lists a client pages through: the messages of a chat            *)
(* (GET /v1/chats/{jid}/messages, wa_list_messages) and the chats          *)
(* (GET /v1/chats, wa_list_chats).  A page is cut with the time of its     *)
(* last row, in whole seconds, and the next one is asked for before that   *)
(* time.  Meanwhile the handler of incoming messages adds rows, hands      *)
(* older ones over again, moves chats and hides what is revoked.           *)
(***************************************************************************)
EXTENDS Integers, FiniteSetsExt

CONSTANTS
  Msgs,        \* message ids
  Ours,        \* those that are sent from here
  Chats,       \* chat ids, ordered as their JIDs are
  ChatOf,      \* the chat of a message
  MaxSecond,   \* the last second of the model's clock
  Limit        \* rows per page, standing for the API's 1 .. 100

ASSUME PagingAssumption ==
  /\ Ours \subseteq Msgs /\ Chats \subseteq Nat \ {0}
  /\ ChatOf \in [Msgs -> Chats]
  /\ MaxSecond \in Nat \ {0} /\ Limit \in Nat \ {0}

VARIABLES
  ts,        \* messages.ts, 0 where there is no row
  deleted,   \* messages with deleted_at set
  lastAt,    \* chats.last_msg_at, 0 where there is no row
  handling,  \* what handleIncoming is in the middle of: <<>> or <<m, t>>
  list,      \* what the client walks through: NoList, ChatList or a chat
  cursor,    \* the "before" of its next request
  got,       \* the rows it has been shown
  again,     \* the rows it has been shown more than once
  cuts,      \* the times at which it has cut a page
  still      \* the rows that have not changed since it began

store == <<ts, deleted, lastAt, handling>>
walk  == <<list, cursor, got, again, cuts>>
pagingVars == <<ts, deleted, lastAt, handling, list, cursor, got, again, cuts, still>>

NoList   == -1
ChatList == 0
Seconds  == 1 .. MaxSecond
NoCursor == MaxSecond + 1        \* later than any row: no condition on ts

----------------------------------------------------------------------------
(* The lists.                                                              *)

\* When a row of list l is shown as having happened; 0 hides it.
MessageTime(m) == IF m \in deleted THEN 0 ELSE ts[m]
RowsOf(l) == IF l = ChatList THEN Chats ELSE {m \in Msgs : ChatOf[m] = l}
TimeOf(l, r) == IF l = ChatList THEN lastAt[r] ELSE MessageTime(r)

\* MessageStore.ListByChat orders by ts alone: rows of one second come in any
\* order.  ChatStore.List puts the smaller JID first.
ListedBefore(l, r, q) ==
  \/ TimeOf(l, r) > TimeOf(l, q)
  \/ TimeOf(l, r) = TimeOf(l, q) /\ (l = ChatList => r < q)

\* The condition of both queries on the cursor.
IsBeforeInclusive(l, r, before) == TimeOf(l, r) # 0 /\ TimeOf(l, r) <= before
IsBeforeExcludingNext(l, r, before) == TimeOf(l, r) # 0 /\ TimeOf(l, r) < before - 1
IsBefore(l, r, before) == TimeOf(l, r) # 0 /\ TimeOf(l, r) < before

\* The pages a query may answer with.
Pages(l, before) ==
  LET rows == {r \in RowsOf(l) : IsBefore(l, r, before)}
      size == IF Cardinality(rows) < Limit THEN Cardinality(rows) ELSE Limit
  IN  {p \in SUBSET rows :
         /\ Cardinality(p) = size
         /\ \A r \in p, q \in rows \ p : ListedBefore(l, r, q)}

----------------------------------------------------------------------------
(* What changes the lists from outside.                                    *)

\* A step that changes rows: the walk goes on, and no longer takes for
\* unchanged what it has touched.
Watch ==
  /\ UNCHANGED walk
  /\ still' = {r \in still : TimeOf(list, r)' = TimeOf(list, r)}

\* handleIncoming writes the chat row: last_msg_at is the time of this
\* message, also when it is older than one before.  The message may be new,
\* or handed over again; the statement may fail.
HandleChat(m, t) ==
  /\ handling = <<>> /\ m \notin Ours
  /\ ts[m] \in {0, t}
  /\ \E ok \in BOOLEAN :
       lastAt' = IF ok THEN [lastAt EXCEPT ![ChatOf[m]] = t] ELSE lastAt
  /\ handling' = <<m, t>>
  /\ UNCHANGED <<ts, deleted>>
  /\ Watch

\* ... and then the message row, which needs its chat and takes away a
\* deleted_at that was set.
HandleMessage ==
  /\ handling # <<>>
  /\ LET m == handling[1] IN
       \/ /\ lastAt[ChatOf[m]] # 0
          /\ ts' = [ts EXCEPT ![m] = handling[2]]
          /\ deleted' = deleted \ {m}
       \/ UNCHANGED <<ts, deleted>>
  /\ handling' = <<>>
  /\ UNCHANGED lastAt
  /\ Watch

\* An incoming revoke hides the row, if there is one.
HandleRevoke(m) ==
  /\ handling = <<>> /\ ts[m] # 0
  /\ deleted' = deleted \cup {m}
  /\ UNCHANGED <<ts, lastAt, handling>>
  /\ Watch

Handle ==
  \/ \E m \in Msgs, t \in Seconds : HandleChat(m, t)
  \/ HandleMessage
  \/ \E m \in Msgs : HandleRevoke(m)

----------------------------------------------------------------------------
(* The walk.                                                               *)

\* The client asks for the first page, or for the one before its cursor; a
\* page that is not full is the last one.
NextPage(page) ==
  /\ got' = got \cup page
  /\ again' = again \cup (got \cap page)
  /\ IF Cardinality(page) < Limit
       THEN cursor' = 0 /\ cuts' = cuts
       ELSE /\ cursor' = Min({TimeOf(list, r) : r \in page})
            /\ cuts' = cuts \cup {cursor'}
  /\ UNCHANGED <<store, list, still>>

ReadPage ==
  /\ list # NoList /\ cursor # 0
  /\ \E page \in Pages(list, cursor) : NextPage(page)

StartWalk(l) ==
  /\ list = NoList
  /\ list' = l /\ cursor' = NoCursor
  /\ got' = {} /\ again' = {} /\ cuts' = {}
  /\ still' = RowsOf(l)
  /\ UNCHANGED store

\* The client has what it wanted.
EndWalk ==
  /\ list # NoList /\ cursor = 0
  /\ list' = NoList /\ got' = {} /\ again' = {} /\ cuts' = {} /\ still' = {}
  /\ UNCHANGED <<store, cursor>>

PagingInit ==
  /\ ts = [m \in Msgs |-> 0] /\ deleted = {}
  /\ lastAt = [c \in Chats |-> 0] /\ handling = <<>>
  /\ list = NoList /\ cursor = 0
  /\ got = {} /\ again = {} /\ cuts = {} /\ still = {}

----------------------------------------------------------------------------
(* What the lists promise.                                                 *)

\* A client that has walked through a list has been shown every row that did
\* not change meanwhile, except that rows of a second at which it cut a page
\* may have fallen between two pages (sqlite/messages.go:59).
WalkShowsWhatStayed ==
  list # NoList /\ cursor = 0 =>
    \A r \in still : \/ r \in got
                     \/ TimeOf(list, r) \in cuts \cup {0}

\* No message is shown twice in one walk, whatever happens meanwhile, and a
\* chat only when a message moved it: last_msg_at goes back when an older
\* message comes late, and the chat is then below the cursor again.
ShownAgainOnlyIfMoved == again \subseteq Chats \ still

\* A client that keeps asking comes to the end of the list, however busy the
\* account is: the cursor goes back with every page.
WalksEnd == list # NoList ~> cursor = 0
=============================================================================
