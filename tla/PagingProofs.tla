---------------------------- MODULE PagingProofs ----------------------------
(***************************************************************************)
(* What a client that pages through a list is promised, for any number of  *)
(* messages and chats, any clock and any size of a page: one lemma for     *)
(* each step of Paging.  RequestsProofs puts them together with the steps  *)
(* of requests.                                                            *)
(***************************************************************************)
EXTENDS Paging, FiniteSetTheorems, TLAPS

----------------------------------------------------------------------------
(* The invariant.                                                          *)

PagingType ==
  /\ ts \in [Msgs -> 0 .. MaxSecond] /\ deleted \subseteq Msgs
  /\ lastAt \in [Chats -> 0 .. MaxSecond]
  /\ handling \in {<<>>} \cup (Msgs \X Seconds)
  /\ list \in {NoList, ChatList} \cup Chats /\ cursor \in 0 .. NoCursor
  /\ cuts \subseteq Seconds
  /\ list # NoList => got \cup again \cup still \subseteq RowsOf(list)

\* The tables are finite at any time, however many messages there may be.
Rows == {m \in Msgs : ts[m] # 0}
ChatRows == {c \in Chats : lastAt[c] # 0}
Finite == IsFiniteSet(Rows) /\ IsFiniteSet(ChatRows)

\* A message that is handed over again has the time it had before.
SameTime ==
  handling # <<>> => /\ handling[1] \notin Ours
                     /\ ts[handling[1]] \in {0, handling[2]}

NothingWalked == list = NoList => got = {} /\ again = {} /\ still = {}

\* A row that did not change was shown, or is hidden, or shares its second
\* with the end of a page, or is still to come.
Reached ==
  list # NoList =>
    \A r \in still : \/ r \in got
                     \/ TimeOf(list, r) \in cuts \cup {0}
                     \/ TimeOf(list, r) < cursor

\* What was shown is not below the cursor: a message never again, a chat as
\* long as it does not move.
Behind ==
  list # NoList =>
    \A r \in got : IF list = ChatList THEN r \in still => lastAt[r] >= cursor
                                      ELSE ts[r] >= cursor

WalkInv ==
  /\ Finite /\ SameTime /\ NothingWalked /\ Reached /\ Behind
  /\ ShownAgainOnlyIfMoved /\ (list # ChatList => again = {})

----------------------------------------------------------------------------
(* Sets and times.                                                         *)

\* Natural numbers have a smallest one, and Min is it.
LEMMA Smallest ==
  ASSUME NEW S \in SUBSET Nat, S # {}
  PROVE  Min(S) \in S /\ \A y \in S : Min(S) <= y
<1>1. PICK x \in S : \A y \in S : <<y, x>> \notin OpToRel(<, Nat)
  BY NatLessThanWellFounded, WFMin
<1>2. \A y \in S : ~(y < x)
  BY <1>1 DEF OpToRel
<1>3. \A y \in S : x <= y
  BY <1>2
<1>4. QED BY <1>3 DEF Min

\* One row more, or one that changes, and the table is still finite.
LEMMA OneMore ==
  ASSUME NEW S, IsFiniteSet(S), NEW x, NEW T, T \subseteq S \cup {x}
  PROVE  IsFiniteSet(T)
BY FS_AddElement, FS_Subset

\* A time is a number of seconds.
LEMMA TimeType ==
  ASSUME PagingAssumption, PagingType, list # NoList, NEW r \in RowsOf(list)
  PROVE  TimeOf(list, r) \in 0 .. MaxSecond
BY DEF PagingAssumption, PagingType, TimeOf, RowsOf, MessageTime, NoList, ChatList

\* The rows a page is taken from are finitely many.
LEMMA FiniteRows ==
  ASSUME PagingAssumption, PagingType, list # NoList, Finite, NEW S,
         S \subseteq {r \in RowsOf(list) : TimeOf(list, r) # 0}
  PROVE  IsFiniteSet(S)
<1>1. CASE list = ChatList
  <2>1. S \subseteq ChatRows
    BY <1>1 DEF RowsOf, TimeOf, ChatRows
  <2>2. QED BY <2>1, FS_Subset DEF Finite
<1>2. CASE list # ChatList
  <2>1. S \subseteq Rows
    BY <1>2 DEF RowsOf, TimeOf, MessageTime, Rows
  <2>2. QED BY <2>1, FS_Subset DEF Finite
<1>3. QED BY <1>1, <1>2


----------------------------------------------------------------------------
(* The steps of the walk.                                                  *)

\* A page that is not full has all there is; a full one ends where the next
\* one begins.
LEMMA PageFacts ==
  ASSUME PagingAssumption, PagingType, Finite, list # NoList,
         NEW page \in Pages(list, cursor)
  PROVE  /\ \A r \in page : r \in RowsOf(list) /\ IsBefore(list, r, cursor)
         /\ \A r \in RowsOf(list) \ page :
              IsBefore(list, r, cursor) =>
                /\ Cardinality(page) >= Limit
                /\ \A q \in page : TimeOf(list, r) <= TimeOf(list, q)
         /\ IsFiniteSet(page) /\ Cardinality(page) \in Nat
         /\ Cardinality(page) >= Limit => page # {}
<1> DEFINE rows == {r \in RowsOf(list) : IsBefore(list, r, cursor)}
           size == IF Cardinality(rows) < Limit THEN Cardinality(rows) ELSE Limit
<1>1. /\ page \in SUBSET rows /\ Cardinality(page) = size
      /\ \A r \in page, q \in rows \ page : ListedBefore(list, r, q)
  BY DEF Pages
<1>2. rows \subseteq {r \in RowsOf(list) : TimeOf(list, r) # 0}
  BY DEF IsBefore
<1>3. IsFiniteSet(rows) /\ IsFiniteSet(page)
  <2>1. IsFiniteSet(rows)
    <3> HIDE DEF rows
    <3>1. QED BY <1>2, FiniteRows
  <2>2. QED BY <2>1, <1>1, FS_Subset
<1>4. /\ Cardinality(rows) \in Nat /\ Cardinality(page) \in Nat
      /\ Cardinality(rows) = Cardinality(page) => rows = page
  <2> HIDE DEF rows
  <2>1. QED BY <1>1, <1>3, FS_Subset, FS_CardinalityType
<1>5. Limit \in Nat \ {0}
  BY DEF PagingAssumption
<1>6. Cardinality(page) >= Limit => page # {}
  <2>1. Cardinality({}) = 0
    BY FS_EmptySet
  <2>2. QED BY <2>1, <1>5, <1>4
<1>7. ASSUME NEW r \in rows \ page
      PROVE  Cardinality(page) >= Limit
  <2>1. Cardinality(rows) # Cardinality(page)
    <3> HIDE DEF rows
    <3>1. QED BY <1>4, <1>7
  <2>2. QED BY <2>1, <1>1, <1>4, <1>5
<1>8. ASSUME NEW r \in rows \ page, NEW q \in page
      PROVE  TimeOf(list, r) <= TimeOf(list, q)
  <2>1. TimeOf(list, r) \in Nat /\ TimeOf(list, q) \in Nat
    BY <1>1, <1>8, TimeType DEF PagingAssumption
  <2>2. ListedBefore(list, q, r)
    BY <1>1, <1>8
  <2>3. QED BY <2>1, <2>2 DEF ListedBefore
<1>9. QED BY <1>1, <1>3, <1>4, <1>6, <1>7, <1>8

\* Where a page is cut: at the time of one of its rows, and of none after it.
LEMMA CutFacts ==
  ASSUME PagingAssumption, PagingType, Finite, list # NoList,
         NEW page \in Pages(list, cursor), NextPage(page)
  PROVE  /\ cursor' \in 0 .. NoCursor /\ cuts' \subseteq Seconds
         /\ cuts \subseteq cuts' /\ cursor' <= cursor
         /\ \A r \in page : TimeOf(list, r) >= cursor'
         /\ \A r \in RowsOf(list) \ page :
              IsBefore(list, r, cursor) =>
                TimeOf(list, r) \in cuts' \/ TimeOf(list, r) < cursor'
<1> DEFINE times == {TimeOf(list, r) : r \in page}
<1>0. MaxSecond \in Nat /\ Limit \in Nat /\ cursor \in 0 .. NoCursor /\ cuts \subseteq Seconds
  BY DEF PagingAssumption, PagingType
<1>1. \A r \in page : TimeOf(list, r) \in 1 .. MaxSecond /\ TimeOf(list, r) < cursor
  BY PageFacts, TimeType, <1>0 DEF IsBefore
<1>2. CASE Cardinality(page) < Limit
  <2>1. cursor' = 0 /\ cuts' = cuts
    BY <1>2 DEF NextPage
  <2>2. \A r \in RowsOf(list) \ page : ~IsBefore(list, r, cursor)
    BY <1>2, <1>0, PageFacts
  <2>3. QED BY <2>1, <2>2, <1>0, <1>1 DEF NoCursor
<1>3. CASE ~(Cardinality(page) < Limit)
  <2>1. cursor' = Min(times) /\ cuts' = cuts \cup {cursor'}
    BY <1>3 DEF NextPage
  <2>2. page # {}
    BY <1>3, <1>0, PageFacts
  <2>3. times \in SUBSET Nat /\ times # {}
    BY <1>1, <1>0, <2>2
  <2>4. cursor' \in times /\ \A t \in times : cursor' <= t
    <3> HIDE DEF times
    <3>1. QED BY <2>1, <2>3, Smallest
  <2>5. PICK q \in page : cursor' = TimeOf(list, q)
    BY <2>4
  <2>6. cursor' \in 1 .. MaxSecond /\ cursor' < cursor
    BY <2>5, <1>1
  <2>7. ASSUME NEW r \in RowsOf(list) \ page, IsBefore(list, r, cursor)
        PROVE  TimeOf(list, r) \in cuts' \/ TimeOf(list, r) < cursor'
    <3>1. TimeOf(list, r) <= cursor'
      BY <2>5, <2>7, PageFacts
    <3>2. TimeOf(list, r) \in 0 .. MaxSecond
      BY <2>7, TimeType
    <3>3. CASE TimeOf(list, r) = cursor'
      BY <3>3, <2>1
    <3>4. CASE TimeOf(list, r) # cursor'
      BY <3>4, <3>1, <3>2, <2>6, <1>0
    <3>5. QED BY <3>3, <3>4
  <2>8. \A r \in page : TimeOf(list, r) >= cursor'
    BY <2>4, <1>1, <2>6, <1>0
  <2>9. /\ cursor' \in 0 .. NoCursor /\ cuts' \subseteq Seconds
        /\ cuts \subseteq cuts' /\ cursor' <= cursor
    <3>1. cuts' = cuts \cup {cursor'} /\ cursor' \in Seconds
      BY <2>1, <2>6 DEF Seconds
    <3>2. cursor' \in 0 .. NoCursor /\ cursor' <= cursor
      BY <2>6, <1>0 DEF NoCursor
    <3>3. QED BY <3>1, <3>2, <1>0
  <2>10. QED BY <2>7, <2>8, <2>9
<1>4. QED BY <1>2, <1>3


\* Every page takes the cursor back.
LEMMA ReadPageGoesBack ==
  ASSUME PagingAssumption, PagingType, Finite, ReadPage
  PROVE  cursor' < cursor
<1>1. PICK page \in Pages(list, cursor) : NextPage(page)
  BY DEF ReadPage
<1>2. list # NoList /\ cursor # 0 /\ cursor \in Nat
  BY DEF ReadPage, PagingType, PagingAssumption, NoCursor
<1>3. CASE Cardinality(page) < Limit
  BY <1>1, <1>2, <1>3 DEF NextPage
<1>4. CASE ~(Cardinality(page) < Limit)
  <2>1. PICK q \in page : TRUE
    <3>1. page # {}
      BY <1>2, <1>4, PageFacts DEF PagingAssumption
    <3>2. QED BY <3>1
  <2>2. q \in RowsOf(list) /\ TimeOf(list, q) < cursor
    BY <1>2, PageFacts DEF IsBefore
  <2>3. TimeOf(list, q) >= cursor' /\ cursor' \in Nat
    BY <1>1, <1>2, CutFacts DEF PagingAssumption, NoCursor
  <2>4. TimeOf(list, q) \in Nat
    BY <1>2, <2>2, TimeType DEF PagingAssumption
  <2>5. QED BY <1>2, <2>2, <2>3, <2>4
<1>5. QED BY <1>3, <1>4

\* What a page adds to the walk.
LEMMA ReadPageKeeps ==
  ASSUME PagingAssumption, PagingType, WalkInv, ReadPage
  PROVE  PagingType' /\ WalkInv'
<1>1. PICK page \in Pages(list, cursor) : NextPage(page)
  BY DEF ReadPage
<1>2. /\ list # NoList /\ Finite
      /\ got' = got \cup page /\ again' = again \cup (got \cap page)
      /\ UNCHANGED <<ts, deleted, lastAt, handling, list, still>>
  BY <1>1 DEF ReadPage, NextPage, WalkInv, store
<1>3. /\ \A r \in page : r \in RowsOf(list) /\ IsBefore(list, r, cursor)
      /\ cursor' \in 0 .. NoCursor /\ cuts' \subseteq Seconds
      /\ cuts \subseteq cuts' /\ cursor' <= cursor
      /\ \A r \in page : TimeOf(list, r) >= cursor'
      /\ \A r \in RowsOf(list) \ page :
              IsBefore(list, r, cursor) =>
                TimeOf(list, r) \in cuts' \/ TimeOf(list, r) < cursor'
  BY <1>1, <1>2, PageFacts, CutFacts
<1>4. /\ cursor \in Nat /\ cursor' \in Nat
      /\ list # ChatList => list \in Chats
  BY <1>2, <1>3 DEF PagingType, PagingAssumption, NoCursor
<1>5. PagingType'
  <2>1. (got \cup again \cup still \subseteq RowsOf(list)) /\ page \subseteq RowsOf(list)
    BY <1>2, <1>3 DEF PagingType
  <2>2. (got \cup again \cup still \subseteq RowsOf(list))'
    BY <2>1, <1>2 DEF RowsOf
  <2>3. QED BY <2>2, <1>2, <1>3 DEF PagingType, NoCursor
<1>6. \A r \in RowsOf(list) : TimeOf(list, r) \in 0 .. MaxSecond /\ TimeOf(list, r)' = TimeOf(list, r)
  BY <1>2, TimeType DEF TimeOf, MessageTime
<1>7. Reached'
  <2> SUFFICES ASSUME NEW r \in still, r \notin got', TimeOf(list, r) # 0, TimeOf(list, r) \notin cuts'
               PROVE  TimeOf(list, r) < cursor'
    BY <1>2, <1>6 DEF Reached, PagingType
  <2>1. r \in RowsOf(list) \ page /\ r \notin got
    BY <1>2 DEF PagingType
  <2>2. TimeOf(list, r) < cursor
    BY <2>1, <1>2, <1>3 DEF WalkInv, Reached
  <2>3. QED BY <2>1, <2>2, <1>3 DEF IsBefore
<1>8. Behind'
  <2> SUFFICES ASSUME NEW r \in got'
               PROVE  IF list = ChatList THEN r \in still => lastAt[r] >= cursor'
                                         ELSE ts[r] >= cursor'
    BY <1>2 DEF Behind
  <2>1. CASE r \in got
    <3>1. IF list = ChatList THEN r \in still => lastAt[r] >= cursor
                             ELSE ts[r] >= cursor
      BY <2>1, <1>2 DEF WalkInv, Behind
    <3>2. r \in RowsOf(list)
      BY <2>1, <1>2 DEF PagingType
    <3>3. IF list = ChatList THEN lastAt[r] \in Nat ELSE ts[r] \in Nat
      BY <3>2, <1>4 DEF RowsOf, PagingType, PagingAssumption
    <3>4. QED BY <3>1, <3>3, <1>3, <1>4
  <2>2. CASE r \in page
    <3>1. TimeOf(list, r) >= cursor' /\ TimeOf(list, r) # 0
      BY <2>2, <1>3 DEF IsBefore
    <3>2. QED BY <3>1 DEF TimeOf, MessageTime
  <2>3. QED BY <2>1, <2>2, <1>2
<1>9. ASSUME NEW r \in got \cap page
      PROVE  list = ChatList /\ r \notin still
  <2>1. TimeOf(list, r) # 0 /\ TimeOf(list, r) < cursor /\ TimeOf(list, r) \in 0 .. MaxSecond
    BY <1>9, <1>3, <1>6 DEF IsBefore
  <2>2. IF list = ChatList THEN r \in still => lastAt[r] >= cursor
                           ELSE ts[r] >= cursor
    BY <1>9, <1>2 DEF WalkInv, Behind
  <2>3. TimeOf(list, r) = IF list = ChatList THEN lastAt[r] ELSE ts[r]
    BY <2>1 DEF TimeOf, MessageTime
  <2>4. MaxSecond \in Nat
    BY DEF PagingAssumption
  <2>5. QED BY <2>1, <2>2, <2>3, <2>4, <1>4
<1>10. ShownAgainOnlyIfMoved' /\ (list # ChatList => again = {})'
  <2>1. \A r \in page : list = ChatList => r \in Chats
    BY <1>3 DEF RowsOf
  <2>2. QED BY <2>1, <1>9, <1>2 DEF WalkInv, ShownAgainOnlyIfMoved
<1>11. Finite' /\ SameTime' /\ NothingWalked'
  BY <1>2 DEF WalkInv, Finite, Rows, ChatRows, SameTime, NothingWalked
<1>12. QED BY <1>5, <1>7, <1>8, <1>10, <1>11 DEF WalkInv

\* Before the first page, everything is still to come.
LEMMA StartWalkKeeps ==
  ASSUME PagingAssumption, PagingType, WalkInv,
         NEW l \in Chats \cup {ChatList}, StartWalk(l)
  PROVE  PagingType' /\ WalkInv'
<1>1. /\ list' = l /\ cursor' = NoCursor
      /\ got' = {} /\ again' = {} /\ cuts' = {} /\ still' = RowsOf(l)
      /\ UNCHANGED <<ts, deleted, lastAt, handling>>
  BY DEF StartWalk, store
<1>2. list' # NoList
  BY <1>1 DEF PagingAssumption, NoList, ChatList
<1>3. NoCursor \in 0 .. NoCursor /\ MaxSecond \in Nat
  BY DEF NoCursor, PagingAssumption
<1>4. PagingType'
  BY <1>1, <1>2, <1>3 DEF PagingType, RowsOf
<1>5. \A r \in still' : TimeOf(list, r)' < cursor'
  <2>1. \A r \in RowsOf(l) : TimeOf(l, r) \in 0 .. MaxSecond
    BY DEF PagingType, PagingAssumption, TimeOf, RowsOf, MessageTime, ChatList
  <2>2. \A r : TimeOf(list, r)' = TimeOf(l, r)
    BY <1>1 DEF TimeOf, MessageTime
  <2>3. QED BY <1>1, <1>3, <2>1, <2>2 DEF NoCursor
<1>6. QED
  BY <1>1, <1>2, <1>4, <1>5
  DEF WalkInv, Finite, Rows, ChatRows, SameTime, NothingWalked, Reached, Behind,
      ShownAgainOnlyIfMoved

\* Between walks there is nothing to keep.
LEMMA EndWalkKeeps ==
  ASSUME PagingAssumption, PagingType, WalkInv, EndWalk
  PROVE  PagingType' /\ WalkInv'
BY DEF EndWalk, store, PagingType, WalkInv, Finite, Rows, ChatRows, SameTime,
       NothingWalked, Reached, Behind, ShownAgainOnlyIfMoved


----------------------------------------------------------------------------
(* The steps of the handler of incoming messages.                          *)

\* A step that changes rows, and no time of a message to an earlier one.
LEMMA WatchKeeps ==
  ASSUME PagingAssumption, PagingType, WalkInv, Watch,
         \A m \in Msgs : ts'[m] \in Nat /\ ts'[m] >= ts[m]
  PROVE  /\ NothingWalked' /\ Reached' /\ Behind' /\ ShownAgainOnlyIfMoved'
         /\ (list # ChatList => again = {})' /\ still' \subseteq still
<1>1. /\ UNCHANGED <<list, cursor, got, again, cuts>>
      /\ still' = {r \in still : TimeOf(list, r)' = TimeOf(list, r)}
  BY DEF Watch, walk
<1>2. still' \subseteq still /\ \A r \in still' : TimeOf(list, r)' = TimeOf(list, r)
  BY <1>1
<1>3. Reached'
  BY <1>1, <1>2 DEF WalkInv, Reached
<1>4. Behind'
  <2> SUFFICES ASSUME list # NoList, NEW r \in got
               PROVE  IF list = ChatList THEN r \in still' => lastAt'[r] >= cursor
                                         ELSE ts'[r] >= cursor
    BY <1>1 DEF Behind
  <2>1. IF list = ChatList THEN r \in still => lastAt[r] >= cursor
                           ELSE ts[r] >= cursor
    BY DEF WalkInv, Behind
  <2>2. list = ChatList => TimeOf(list, r) = lastAt[r] /\ TimeOf(list, r)' = lastAt'[r]
    BY <1>1 DEF TimeOf
  <2>3. CASE list = ChatList
    BY <2>1, <2>2, <2>3, <1>2
  <2>4. CASE list # ChatList
    <3>1. r \in Msgs
      BY <2>4 DEF PagingType, RowsOf
    <3>2. ts[r] \in Nat /\ cursor \in Nat
      BY <3>1 DEF PagingType, NoCursor, PagingAssumption
    <3>3. QED BY <3>1, <3>2, <2>1, <2>4
  <2>5. QED BY <2>3, <2>4
<1>5. NothingWalked' /\ ShownAgainOnlyIfMoved' /\ (list # ChatList => again = {})'
  BY <1>1, <1>2 DEF WalkInv, NothingWalked, ShownAgainOnlyIfMoved
<1>6. QED BY <1>2, <1>3, <1>4, <1>5

\* The rows a walk has to do with are rows of its list, before and after.
LEMMA WatchKeepsTypes ==
  ASSUME PagingType, Watch, still' \subseteq still,
         ts' \in [Msgs -> 0 .. MaxSecond], deleted' \subseteq Msgs,
         lastAt' \in [Chats -> 0 .. MaxSecond],
         handling' \in {<<>>} \cup (Msgs \X Seconds)
  PROVE  PagingType'
<1>1. UNCHANGED <<list, cursor, got, again, cuts>>
  BY DEF Watch, walk
<1>2. list # NoList => got \cup again \cup still' \subseteq RowsOf(list)
  BY DEF PagingType
<1>3. RowsOf(list)' = RowsOf(list)
  BY <1>1 DEF RowsOf
<1>4. QED BY <1>1, <1>2, <1>3 DEF PagingType

\* Every step of the handler is one that Watch describes.
LEMMA HandleKeeps ==
  ASSUME PagingAssumption, PagingType, WalkInv, Handle
  PROVE  PagingType' /\ WalkInv'
<1>0. /\ MaxSecond \in Nat /\ ts \in [Msgs -> Nat] /\ lastAt \in [Chats -> Nat]
      /\ ChatOf \in [Msgs -> Chats] /\ Finite /\ SameTime
  BY DEF PagingAssumption, PagingType, WalkInv
<1>1. ASSUME NEW m \in Msgs, NEW t \in Seconds, HandleChat(m, t)
      PROVE  PagingType' /\ WalkInv'
  <2>1. /\ handling' = <<m, t>> /\ m \notin Ours /\ ts[m] \in {0, t} /\ Watch
        /\ ts' = ts /\ deleted' = deleted
    BY <1>1 DEF HandleChat
  <2>2. lastAt' = [lastAt EXCEPT ![ChatOf[m]] = t] \/ lastAt' = lastAt
    BY <1>1 DEF HandleChat
  <2>3. t \in 0 .. MaxSecond /\ ChatOf[m] \in Chats
    BY <1>0 DEF Seconds
  <2>4. lastAt' \in [Chats -> 0 .. MaxSecond]
    BY <2>2, <2>3 DEF PagingType
  <2>5. IsFiniteSet(ChatRows')
    <3>1. ChatRows' \subseteq ChatRows \cup {ChatOf[m]}
      BY <2>2, <2>3, <1>0 DEF ChatRows
    <3>2. QED BY <3>1, <1>0, OneMore DEF Finite
  <2>6. Finite' /\ SameTime'
    BY <2>1, <2>5, <1>0 DEF Finite, Rows, SameTime
  <2>7. /\ NothingWalked' /\ Reached' /\ Behind' /\ ShownAgainOnlyIfMoved'
        /\ (list # ChatList => again = {})' /\ still' \subseteq still
    BY <2>1, <1>0, WatchKeeps
  <2>8. PagingType'
    BY <2>1, <2>4, <2>7, WatchKeepsTypes DEF PagingType
  <2>9. QED BY <2>6, <2>7, <2>8 DEF WalkInv
<1>2. ASSUME HandleMessage
      PROVE  PagingType' /\ WalkInv'
  <2>1. PICK m \in Msgs, t \in Seconds :
          /\ handling = <<m, t>>
          /\ \/ /\ ts' = [ts EXCEPT ![m] = t]
                /\ deleted' = deleted \ {m}
             \/ UNCHANGED <<ts, deleted>>
    BY <1>2 DEF HandleMessage, PagingType
  <2>2. handling' = <<>> /\ lastAt' = lastAt /\ Watch
    BY <1>2 DEF HandleMessage
  <2>3. t \in 0 .. MaxSecond /\ ts[m] \in {0, t}
    BY <2>1, <1>0 DEF Seconds, SameTime
  <2>4. ts' \in [Msgs -> 0 .. MaxSecond] /\ deleted' \subseteq Msgs
    BY <2>1, <2>3 DEF PagingType
  <2>5. IsFiniteSet(Rows')
    <3>1. Rows' \subseteq Rows \cup {m}
      BY <2>1, <1>0 DEF Rows
    <3>2. QED BY <3>1, <1>0, OneMore DEF Finite
  <2>6. Finite' /\ SameTime'
    BY <2>2, <2>5, <1>0 DEF Finite, ChatRows, SameTime
  <2>7. \A k \in Msgs : ts'[k] \in Nat /\ ts'[k] >= ts[k]
    BY <2>1, <2>3, <1>0
  <2>8. /\ NothingWalked' /\ Reached' /\ Behind' /\ ShownAgainOnlyIfMoved'
        /\ (list # ChatList => again = {})' /\ still' \subseteq still
    BY <2>2, <2>7, WatchKeeps
  <2>9. PagingType'
    BY <2>2, <2>4, <2>8, WatchKeepsTypes DEF PagingType
  <2>10. QED BY <2>6, <2>8, <2>9 DEF WalkInv
<1>3. ASSUME NEW m \in Msgs, HandleRevoke(m)
      PROVE  PagingType' /\ WalkInv'
  <2>1. /\ deleted' = deleted \cup {m} /\ UNCHANGED <<ts, lastAt, handling>> /\ Watch
    BY <1>3 DEF HandleRevoke
  <2>2. Finite' /\ SameTime'
    BY <2>1, <1>0 DEF Finite, Rows, ChatRows, SameTime
  <2>3. /\ NothingWalked' /\ Reached' /\ Behind' /\ ShownAgainOnlyIfMoved'
        /\ (list # ChatList => again = {})' /\ still' \subseteq still
    BY <2>1, <1>0, WatchKeeps
  <2>4. PagingType'
    BY <2>1, <2>3, WatchKeepsTypes DEF PagingType
  <2>5. QED BY <2>2, <2>3, <2>4 DEF WalkInv
<1>4. QED BY <1>1, <1>2, <1>3 DEF Handle


----------------------------------------------------------------------------
(* The invariant holds at first, and says what it should.                  *)

\* Empty tables, and no walk.
LEMMA PagingInitOK ==
  ASSUME PagingAssumption, PagingInit
  PROVE  PagingType /\ WalkInv
<1>1. Rows = {} /\ ChatRows = {} /\ list = NoList
  BY DEF PagingInit, Rows, ChatRows
<1>2. NoList # ChatList /\ NoList \notin Chats
  BY DEF NoList, ChatList, PagingAssumption
<1>3. Finite
  BY <1>1, FS_EmptySet DEF Finite
<1>4. PagingType
  BY DEF PagingInit, PagingType, PagingAssumption, NoCursor
<1>5. QED
  BY <1>1, <1>2, <1>3, <1>4
  DEF PagingInit, WalkInv, SameTime, NothingWalked, Reached, Behind, ShownAgainOnlyIfMoved

\* At the end of a walk the cursor is 0, and nothing is still to come.
LEMMA WalkInvShows ==
  ASSUME PagingAssumption, PagingType, WalkInv
  PROVE  WalkShowsWhatStayed
<1> SUFFICES ASSUME list # NoList, cursor = 0, NEW r \in still
             PROVE  r \in got \/ TimeOf(list, r) \in cuts \cup {0}
  BY DEF WalkShowsWhatStayed
<1>1. TimeOf(list, r) \in 0 .. MaxSecond /\ MaxSecond \in Nat
  BY TimeType DEF PagingType, PagingAssumption
<1>2. QED BY <1>1 DEF WalkInv, Reached

=============================================================================
