---------------------------- MODULE MediaProofs ----------------------------
(* Theorems about Media and their proofs.                                  *)
EXTENDS Media, TLAPS

-----------------------------------------------------------------------------
(* Type correctness.                                                       *)

TypeRows ==
  /\ chatRow \in BOOLEAN /\ msgRows \subseteq Msgs /\ mediaRows \subseteq msgRows

TypeFiles ==
  /\ tmp \in [Contents -> Tasks \cup {Nobody}]
  /\ final \in [Contents -> Tasks \cup {Nobody}]
  /\ data \in [Tasks -> {"nothing", "part", "whole"}]
  /\ fd \in [Tasks -> Tasks \cup {Nobody}]

Places == {"idle", "download", "stat", "open", "write", "rename", "remove",
           "putMessage", "putMedia", "putChat", "done"}

TypeTasks ==
  /\ pc \in [Tasks -> Places]
  /\ path \in [Tasks -> BOOLEAN]
  /\ answer \in [Sends -> {0, 201, 400, 409, 500}]

TypeReader ==
  /\ asked \in Msgs \cup {Nobody} /\ open \in Tasks \cup {Nobody}
  /\ served \in {"none", "404", "500", "nothing", "part", "whole"}

TypeHistory ==
  /\ shared \subseteq Contents
  /\ failures \in Nat /\ crashes \in Nat

\* The parts of the type invariant, one per group of variables.
LEMMA TypeParts ==
  TypeOK <=> TypeRows /\ TypeFiles /\ TypeTasks /\ TypeReader /\ TypeHistory
  BY DEF TypeOK, TypeRows, TypeFiles, TypeTasks, TypeReader, TypeHistory, Places

\* Every task has a message with a content.
LEMMA HasContent ==
  /\ \A t \in Tasks : MsgOf[t] \in Msgs /\ Content(t) \in Contents
  /\ \A m \in Msgs : ContentOf[m] \in Contents
  /\ Nobody \notin Tasks /\ Nobody \notin Msgs /\ Sends \subseteq Tasks
  BY MediaAssumption DEF Tasks, Msgs, Contents, Content


\* The tables only change by rows that have a message.
LEMMA TypeRowsStep == TypeRows /\ [Next]_vars => TypeRows'
  <1> SUFFICES ASSUME TypeRows, [Next]_vars PROVE TypeRows'
    OBVIOUS
  <1> USE HasContent DEF TypeRows
  <1>1. ASSUME NEW t \in Tasks, Incoming(t) PROVE TypeRows'
    BY <1>1 DEF Incoming
  <1>2. ASSUME NEW t \in Tasks, SendPutMessage(t) PROVE TypeRows'
    BY <1>2 DEF SendPutMessage
  <1>3. ASSUME NEW t \in Tasks, SendPutChat(t) PROVE TypeRows'
    BY <1>3 DEF SendPutChat
  <1>4. ASSUME NEW t \in Tasks, PutMedia(t) PROVE TypeRows'
    BY <1>4 DEF PutMedia
  <1>5. ASSUME UNCHANGED tables PROVE TypeRows'
    BY <1>5 DEF tables
  <1>6. ASSUME NEW t \in Tasks, Download(t) \/ SendMedia(t) \/ Stat(t) \/ Open(t)
                                \/ Write(t) \/ Rename(t) \/ Remove(t)
        PROVE UNCHANGED tables
    BY <1>6 DEF Download, SendMedia, Stat, Open, Write, Rename, Remove
  <1>7. ASSUME Reader \/ Crash \/ UNCHANGED vars PROVE UNCHANGED tables
    BY <1>7 DEF Reader, Get, GetOpen, GetCopy, Crash, vars, tables
  <1> QED BY <1>1, <1>2, <1>3, <1>4, <1>5, <1>6, <1>7 DEF Next, Task

\* Inodes are called after tasks, whatever happens to the names.
LEMMA TypeFilesStep == TypeOK /\ [Next]_vars => TypeFiles'
  <1> SUFFICES ASSUME TypeFiles, TypeTasks, [Next]_vars PROVE TypeFiles'
    BY TypeParts
  <1> USE HasContent DEF TypeFiles
  <1>1. ASSUME NEW t \in Tasks, Open(t) PROVE TypeFiles'
    <2> DEFINE i == IF tmp[Content(t)] = Nobody THEN t ELSE tmp[Content(t)]
    <2>1. i \in Tasks
      BY HasContent
    <2> HIDE DEF i
    <2>2. CASE UNCHANGED <<tmp, data, fd>>
      BY <1>1, <2>2 DEF Open
    <2>3. CASE /\ tmp' = [tmp EXCEPT ![Content(t)] = i]
               /\ data' = [data EXCEPT ![i] = "nothing"]
               /\ fd' = [fd EXCEPT ![t] = i]
               /\ final' = final
      BY <2>1, <2>3
    <2> QED BY <1>1, <2>2, <2>3 DEF Open, i
  <1>2. ASSUME NEW t \in Tasks, Write(t) PROVE TypeFiles'
    <2>1. \A d \in {"nothing", "part", "whole"} : Short(d) \in {"part", "whole"}
      BY DEF Short
    <2> QED BY <1>2, <2>1 DEF Write
  <1>3. ASSUME NEW t \in Tasks, Rename(t) PROVE TypeFiles'
    BY <1>3 DEF Rename
  <1>4. ASSUME NEW t \in Tasks, Remove(t) PROVE TypeFiles'
    BY <1>4 DEF Remove
  <1>5. ASSUME UNCHANGED files PROVE TypeFiles'
    BY <1>5 DEF files
  <1>6. ASSUME NEW t \in Tasks, Incoming(t) \/ Download(t) \/ SendMedia(t)
               \/ SendPutMessage(t) \/ SendPutChat(t) \/ Stat(t) \/ PutMedia(t)
        PROVE UNCHANGED files
    BY <1>6 DEF Incoming, Download, SendMedia, SendPutMessage, SendPutChat,
                Stat, PutMedia
  <1>7. ASSUME Reader \/ Crash \/ UNCHANGED vars PROVE UNCHANGED files
    BY <1>7 DEF Reader, Get, GetOpen, GetCopy, Crash, vars, files
  <1> QED BY <1>1, <1>2, <1>3, <1>4, <1>5, <1>6, <1>7 DEF Next, Task

\* The callers of Write go on from wherever it returned.
LEMMA ReturnsType ==
  ASSUME TypeTasks, NEW t \in Tasks, NEW from, NEW ok \in BOOLEAN,
         Returns(t, from, ok), UNCHANGED answer
  PROVE  TypeTasks'
  BY DEF Returns, TypeTasks, Places

\* A step to a place, which leaves the result of Write alone.
LEMMA GotoType ==
  ASSUME TypeTasks, NEW t \in Tasks, NEW from, NEW to \in Places,
         Goto(t, from, to), UNCHANGED <<path, answer>>
  PROVE  TypeTasks'
  BY DEF Goto, TypeTasks

\* Write returns to a place of the caller, never to one where it writes.
LEMMA ReturnsAway ==
  ASSUME NEW t, NEW from, NEW ok, Returns(t, from, ok)
  PROVE  \E to : to \notin {"write", "rename"} /\ pc' = [pc EXCEPT ![t] = to]
  <1> DEFINE to == IF t \in Sends THEN "putMessage" ELSE IF ok THEN "putMedia" ELSE "done"
  <1>1. to \notin {"write", "rename"}
    OBVIOUS
  <1>2. pc' = [pc EXCEPT ![t] = to]
    BY DEF Returns
  <1> HIDE DEF to
  <1> QED BY <1>1, <1>2

\* What the steps of Write do to their task.
LEMMA WriteMoves ==
  ASSUME NEW t \in Tasks
  PROVE  /\ Stat(t) => \/ Returns(t, "stat", TRUE)
                       \/ Goto(t, "stat", "open") /\ UNCHANGED path
         /\ Open(t) => \/ Goto(t, "open", "write") /\ UNCHANGED path
                       \/ Returns(t, "open", FALSE)
         /\ Write(t) => \/ Goto(t, "write", "rename") /\ UNCHANGED path
                        \/ Returns(t, "write", FALSE)
         /\ Rename(t) => \/ Returns(t, "rename", TRUE)
                         \/ Goto(t, "rename", "remove") /\ UNCHANGED path
         /\ Remove(t) => Returns(t, "remove", FALSE)
         /\ Stat(t) \/ Open(t) \/ Write(t) \/ Rename(t) \/ Remove(t)
            => UNCHANGED answer
  BY Zenon DEF Stat, Open, Write, Rename, Remove

\* A task moves between the places of its function.
LEMMA TypeTasksStep == TypeTasks /\ [Next]_vars => TypeTasks'
  <1> SUFFICES ASSUME TypeTasks, [Next]_vars PROVE TypeTasks'
    OBVIOUS
  <1> USE HasContent DEF TypeTasks, Places
  <1>1. ASSUME NEW t \in Tasks, Incoming(t) PROVE TypeTasks'
    BY <1>1 DEF Incoming, Goto
  <1>2. ASSUME NEW t \in Tasks, Download(t) PROVE TypeTasks'
    BY <1>2 DEF Download, Goto
  <1>3. ASSUME NEW t \in Tasks, SendMedia(t) PROVE TypeTasks'
    BY <1>3 DEF SendMedia, Goto, Answer
  <1>4. ASSUME NEW t \in Tasks, SendPutMessage(t) \/ PutMedia(t) PROVE TypeTasks'
    BY <1>4 DEF SendPutMessage, PutMedia, Goto
  <1>5. ASSUME NEW t \in Tasks, SendPutChat(t) PROVE TypeTasks'
    BY <1>5 DEF SendPutChat, Goto, Answer
  <1>6. ASSUME NEW t \in Tasks, Stat(t) PROVE TypeTasks'
    BY <1>6, WriteMoves, ReturnsType, GotoType
  <1>7. ASSUME NEW t \in Tasks, Open(t) PROVE TypeTasks'
    BY <1>7, WriteMoves, ReturnsType, GotoType
  <1>8. ASSUME NEW t \in Tasks, Write(t) PROVE TypeTasks'
    BY <1>8, WriteMoves, ReturnsType, GotoType
  <1>9. ASSUME NEW t \in Tasks, Rename(t) \/ Remove(t) PROVE TypeTasks'
    BY <1>9, WriteMoves, ReturnsType, GotoType
  <1>10. ASSUME Crash PROVE TypeTasks'
    BY <1>10 DEF Crash
  <1>11. ASSUME Reader \/ UNCHANGED vars PROVE TypeTasks'
    BY <1>11 DEF Reader, Get, GetOpen, GetCopy, vars, tasks
  <1> QED BY <1>1, <1>2, <1>3, <1>4, <1>5, <1>6, <1>7, <1>8, <1>9, <1>10, <1>11
          DEF Next, Task

\* GET opens an inode and answers with a status or with what it held.
LEMMA TypeReaderStep == TypeOK /\ [Next]_vars => TypeReader'
  <1> SUFFICES ASSUME TypeRows, TypeFiles, TypeReader, [Next]_vars
               PROVE  TypeReader'
    BY TypeParts
  <1> USE HasContent DEF TypeReader
  <1>1. ASSUME NEW m \in Msgs, Get(m) PROVE TypeReader'
    BY <1>1 DEF Get
  <1>2. ASSUME GetOpen PROVE TypeReader'
    BY <1>2 DEF GetOpen, TypeFiles
  <1>3. ASSUME GetCopy PROVE TypeReader'
    BY <1>3 DEF GetCopy, TypeFiles
  <1>4. ASSUME Crash PROVE TypeReader'
    BY <1>4 DEF Crash
  <1>5. ASSUME UNCHANGED reader PROVE TypeReader'
    BY <1>5 DEF reader
  <1>6. ASSUME NEW t \in Tasks, Task(t) PROVE UNCHANGED reader
    BY <1>6 DEF Task, Incoming, Download, SendMedia, SendPutMessage, SendPutChat,
                Stat, Open, Write, Rename, Remove, PutMedia
  <1> QED BY <1>1, <1>2, <1>3, <1>4, <1>5, <1>6 DEF Next, Reader, vars, reader

\* What a step does to the history and the bounds: contents are only ever
\* added to the shared ones, and only by Stat.
LEMMA HistoryStep ==
  ASSUME TypeHistory, [Next]_vars
  PROVE  /\ TypeHistory' /\ shared \subseteq shared'
         /\ failures' >= failures /\ crashes' >= crashes
  <1> USE HasContent DEF TypeHistory, Works, Fails
  <1> DEFINE Goal == /\ TypeHistory' /\ shared \subseteq shared'
                     /\ failures' >= failures /\ crashes' >= crashes
  <1>1. ASSUME NEW t \in Tasks, Stat(t) PROVE Goal
    <2>1. shared' \in {shared, shared \cup {Content(t)}}
      BY <1>1 DEF Stat
    <2>2. UNCHANGED <<failures, crashes>>
      BY <1>1 DEF Stat
    <2> QED BY <2>1, <2>2
  <1>2. ASSUME NEW t \in Tasks, Incoming(t) \/ Download(t) \/ SendMedia(t)
               \/ SendPutMessage(t) \/ SendPutChat(t) \/ PutMedia(t)
        PROVE Goal
    BY <1>2 DEF Incoming, Download, SendMedia, SendPutMessage, SendPutChat,
                PutMedia, history
  <1>3. ASSUME NEW t \in Tasks, Open(t) \/ Write(t) \/ Rename(t) \/ Remove(t)
        PROVE Goal
    <2>1. UNCHANGED <<shared, crashes>>
      BY <1>3, Zenon DEF Open, Write, Rename, Remove, history
    <2>2. Works \/ Fails
      BY <1>3, Zenon DEF Open, Write, Rename, Remove
    <2> QED BY <2>1, <2>2
  <1>4. ASSUME Crash PROVE Goal
    BY <1>4 DEF Crash
  <1>5. ASSUME Reader \/ UNCHANGED vars PROVE Goal
    BY <1>5 DEF Reader, Get, GetOpen, GetCopy, vars, history
  <1> QED BY <1>1, <1>2, <1>3, <1>4, <1>5 DEF Next, Task

\* The initial state is of its type.
LEMMA TypeInit == Init => TypeOK
  BY HasContent DEF Init, TypeOK

\* Every step keeps the type.
LEMMA TypeStep == TypeOK /\ [Next]_vars => TypeOK'
  <1> SUFFICES ASSUME TypeOK, [Next]_vars PROVE TypeOK'
    OBVIOUS
  <1>1. TypeRows' /\ TypeTasks' /\ TypeHistory'
    BY TypeParts, TypeRowsStep, TypeTasksStep, HistoryStep
  <1>2. TypeFiles' /\ TypeReader'
    BY TypeFilesStep, TypeReaderStep
  <1>3. TypeOK' <=> (TypeRows /\ TypeFiles /\ TypeTasks /\ TypeReader /\ TypeHistory)'
    BY TypeParts, PTL
  <1> QED BY <1>1, <1>2, <1>3

\* Type correctness, for any tasks, messages, contents and bounds: in
\* particular a row of the media table never lacks the row of its message.
THEOREM MediaTypeCorrect == Spec => []TypeOK
  BY TypeInit, TypeStep, PTL DEF Spec

-----------------------------------------------------------------------------
(* Files.                                                                  *)

\* A task that has not opened its file yet: no name leads to its inode.
Fresh(t) == pc[t] \in {"idle", "download", "stat", "open"}

\* Inode i belongs to content c, and was created when its task opened it.
InodeOf(i, c) == i \in Tasks /\ Content(i) = c /\ ~Fresh(i)

\* Whatever leads to an inode leads to one of its own content.
NamesSettled ==
  /\ \A c \in Contents : tmp[c] # Nobody => InodeOf(tmp[c], c)
  /\ \A c \in Contents : final[c] # Nobody => InodeOf(final[c], c)
  /\ \A t \in Tasks : fd[t] # Nobody => InodeOf(fd[t], Content(t))
  /\ \A t \in Tasks : pc[t] = "write" => fd[t] # Nobody
  /\ open # Nobody => asked # Nobody /\ InodeOf(open, ContentOf[asked])

\* A content that was never shared has one writer at a time.
OneWriter ==
  \A t, u \in Tasks :
    Writing(t) /\ Writing(u) /\ Content(t) = Content(u) => t = u \/ Content(t) \in shared

\* What that writer has open is the temporary file, and is whole before it
\* is renamed.
WriterOwnsTmp ==
  \A t \in Tasks :
    pc[t] \in {"write", "rename"} /\ Content(t) \notin shared =>
      /\ tmp[Content(t)] # Nobody
      /\ pc[t] = "write" => fd[t] = tmp[Content(t)]
      /\ pc[t] = "rename" => data[tmp[Content(t)]] = "whole"

\* Nobody who writes to the temporary file reaches an inode that is whole
\* under the final name, or that a reader has opened.
Settled(i, c) == data[i] = "whole" /\ tmp[c] # i

FinalSettled ==
  \A c \in Contents : final[c] # Nobody /\ c \notin shared => Settled(final[c], c)

ReaderSettled ==
  open # Nobody /\ ContentOf[asked] \notin shared => Settled(open, ContentOf[asked])

\* A path is returned, and a media row written, for a file that is there.
RowsFollowFiles ==
  /\ \A t \in Tasks : pc[t] = "putMedia" => path[t]
  /\ \A t \in Tasks : path[t] => final[Content(t)] # Nobody
  /\ \A m \in mediaRows : final[ContentOf[m]] # Nobody
  /\ asked # Nobody => asked \in mediaRows

\* Where nothing failed, a file that is not whole is about to be written.
NothingFailed == failures = 0 /\ crashes = 0

Filled(i) == data[i] = "whole" \/ \E t \in Tasks : pc[t] = "write" /\ fd[t] = i

BeingWritten ==
  NothingFailed =>
    \A c \in Contents :
      /\ tmp[c] # Nobody => Filled(tmp[c])
      /\ final[c] # Nobody => Filled(final[c])

\* Where nothing failed, how far a task of an unshared content got decides
\* which rows there are.
RowsFollowTasks ==
  NothingFailed =>
    \A t \in Tasks :
      /\ t \in Sends /\ pc[t] \notin {"putMedia", "putChat", "done"}
           => MsgOf[t] \notin msgRows
      /\ t \in Downloads /\ pc[t] # "idle" => MsgOf[t] \in msgRows
      /\ Content(t) \notin shared =>
           /\ pc[t] # "remove"
           /\ pc[t] = "putMessage" => path[t]
           /\ pc[t] \in {"putChat", "done"} /\ MsgOf[t] \in msgRows
                => MsgOf[t] \in mediaRows

-----------------------------------------------------------------------------
(* What a step does to the places of the tasks.                            *)

\* Where each action of a task takes it from, and where to.
LEMMA TaskGoes ==
  ASSUME TypeTasks, NEW t \in Tasks
  PROVE  /\ Incoming(t) => pc[t] = "idle" /\ pc'[t] \in {"download", "done"}
         /\ Download(t) => pc[t] = "download" /\ pc'[t] \in {"stat", "done"}
         /\ SendMedia(t) => pc[t] = "idle" /\ pc'[t] \in {"stat", "done"}
         /\ Stat(t) => pc[t] = "stat" /\ pc'[t] \in {"open", "putMessage", "putMedia", "done"}
         /\ Open(t) => pc[t] = "open" /\ pc'[t] \in {"write", "putMessage", "done"}
         /\ Write(t) => pc[t] = "write" /\ pc'[t] \in {"rename", "putMessage", "done"}
         /\ Rename(t) => pc[t] = "rename" /\ pc'[t] \in {"remove", "putMessage", "putMedia"}
         /\ Remove(t) => pc[t] = "remove" /\ pc'[t] \in {"putMessage", "done"}
         /\ SendPutMessage(t) => pc[t] = "putMessage" /\ pc'[t] \in {"putMedia", "putChat"}
         /\ PutMedia(t) => pc[t] = "putMedia" /\ pc'[t] \in {"putChat", "done"}
         /\ SendPutChat(t) => pc[t] = "putChat" /\ pc'[t] = "done"
  <1> USE DEF TypeTasks
  <1>1. \A from, to : Goto(t, from, to) => pc[t] = from /\ pc'[t] = to
    BY DEF Goto
  <1>2. \A from : /\ Returns(t, from, TRUE) => pc[t] = from /\ pc'[t] \in {"putMessage", "putMedia"}
                  /\ Returns(t, from, FALSE) => pc[t] = from /\ pc'[t] \in {"putMessage", "done"}
    BY DEF Returns
  <1>3. /\ Incoming(t) => pc[t] = "idle" /\ pc'[t] \in {"download", "done"}
        /\ Download(t) => pc[t] = "download" /\ pc'[t] \in {"stat", "done"}
        /\ SendMedia(t) => pc[t] = "idle" /\ pc'[t] \in {"stat", "done"}
    BY <1>1 DEF Incoming, Download, SendMedia
  <1>4. /\ SendPutMessage(t) => pc[t] = "putMessage" /\ pc'[t] \in {"putMedia", "putChat"}
        /\ PutMedia(t) => pc[t] = "putMedia" /\ pc'[t] \in {"putChat", "done"}
        /\ SendPutChat(t) => pc[t] = "putChat" /\ pc'[t] = "done"
    BY <1>1 DEF SendPutMessage, PutMedia, SendPutChat
  <1>5. /\ Stat(t) => pc[t] = "stat" /\ pc'[t] \in {"open", "putMessage", "putMedia", "done"}
        /\ Open(t) => pc[t] = "open" /\ pc'[t] \in {"write", "putMessage", "done"}
        /\ Write(t) => pc[t] = "write" /\ pc'[t] \in {"rename", "putMessage", "done"}
    BY <1>1, <1>2, WriteMoves
  <1>6. /\ Rename(t) => pc[t] = "rename" /\ pc'[t] \in {"remove", "putMessage", "putMedia"}
        /\ Remove(t) => pc[t] = "remove" /\ pc'[t] \in {"putMessage", "done"}
    BY <1>1, <1>2, WriteMoves
  <1> QED BY <1>3, <1>4, <1>5, <1>6

\* Only a step of its own moves a task, or the end of the process.
LEMMA OthersStay ==
  ASSUME TypeTasks, [Next]_vars, NEW u \in Tasks, pc'[u] # pc[u]
  PROVE  Task(u) \/ (Crash /\ pc'[u] = "done")
  <1> USE DEF TypeTasks
  <1>1. ASSUME NEW t \in Tasks, Task(t) PROVE t = u
    <2>1. PICK x : pc' = [pc EXCEPT ![t] = x]
      <3>1. \A from, to : Goto(t, from, to) => \E x : pc' = [pc EXCEPT ![t] = x]
        BY DEF Goto
      <3>2. \A from, ok : Returns(t, from, ok) => \E x : pc' = [pc EXCEPT ![t] = x]
        BY DEF Returns
      <3>3. (\E from, to : Goto(t, from, to)) \/ (\E from, ok : Returns(t, from, ok))
        <4>1. CASE Stat(t) \/ Open(t) \/ Write(t) \/ Rename(t) \/ Remove(t)
          BY <4>1, WriteMoves, Zenon
        <4>2. CASE Incoming(t) \/ Download(t) \/ SendMedia(t)
          <5>1. \/ Goto(t, "idle", "download") \/ Goto(t, "idle", "done")
                \/ Goto(t, "download", "stat") \/ Goto(t, "download", "done")
                \/ Goto(t, "idle", "stat")
            BY <4>2 DEF Incoming, Download, SendMedia
          <5> QED BY <5>1, Zenon
        <4>3. CASE SendPutMessage(t) \/ SendPutChat(t) \/ PutMedia(t)
          BY <4>3, Zenon DEF SendPutMessage, SendPutChat, PutMedia
        <4> QED BY <1>1, <4>1, <4>2, <4>3, Zenon DEF Task
      <3> QED BY <3>1, <3>2, <3>3, Zenon
    <2> QED BY <2>1
  <1>2. ASSUME Crash PROVE pc'[u] = "done"
    BY <1>2 DEF Crash
  <1>3. ASSUME Reader \/ UNCHANGED vars PROVE FALSE
    BY <1>3 DEF Reader, Get, GetOpen, GetCopy, vars, tasks
  <1>4. (\E t \in Tasks : Task(t)) \/ Reader \/ Crash \/ UNCHANGED vars
    BY DEF Next
  <1> QED BY <1>1, <1>2, <1>3, <1>4

\* A task reaches its steps in the order of the code: it is fresh until it
\* opens its file, which only happens once.
LEMMA Forward ==
  ASSUME TypeTasks, [Next]_vars, NEW u \in Tasks
  PROVE  /\ ~Fresh(u) => ~Fresh(u)'
         /\ pc'[u] = "write" /\ pc[u] # "write" => Open(u) /\ pc[u] = "open"
         /\ pc'[u] = "rename" /\ pc[u] # "rename" => Write(u) /\ pc[u] = "write"
         /\ pc'[u] = "remove" /\ pc[u] # "remove" => Rename(u) /\ pc[u] = "rename"
         /\ Writing(u)' /\ ~Writing(u) => Stat(u) /\ pc[u] = "stat" /\ pc'[u] = "open"
         /\ pc'[u] = "putMessage" /\ pc[u] # "putMessage"
              => Stat(u) \/ Open(u) \/ Write(u) \/ Rename(u) \/ Remove(u)
         /\ pc'[u] = "putMedia" /\ pc[u] # "putMedia"
              => Stat(u) \/ Rename(u) \/ SendPutMessage(u)
  <1>1. CASE pc'[u] = pc[u]
    BY <1>1 DEF Fresh, Writing
  <1>2. CASE pc'[u] # pc[u] /\ pc'[u] = "done"
    BY <1>2 DEF Fresh, Writing
  <1>3. CASE Task(u)
    BY <1>3, TaskGoes DEF Task, Fresh, Writing
  <1> QED BY <1>1, <1>2, <1>3, OthersStay

-----------------------------------------------------------------------------
(* What a step does to the files.                                          *)

\* The inode that Open leads to.
Opened(t) == IF tmp[Content(t)] = Nobody THEN t ELSE tmp[Content(t)]

\* A task opens the temporary file.
Opens(t) ==
  /\ pc[t] = "open" /\ pc' = [pc EXCEPT ![t] = "write"]
  /\ tmp' = [tmp EXCEPT ![Content(t)] = Opened(t)]
  /\ data' = [data EXCEPT ![Opened(t)] = "nothing"]
  /\ fd' = [fd EXCEPT ![t] = Opened(t)]
  /\ UNCHANGED final

\* A task writes all of it.
Writes(t) ==
  /\ pc[t] = "write" /\ pc' = [pc EXCEPT ![t] = "rename"]
  /\ data' = [data EXCEPT ![fd[t]] = "whole"]
  /\ UNCHANGED <<tmp, final, fd>>

\* A task writes a part of it, and gives up.
WritesPart(t) ==
  /\ pc[t] = "write" /\ failures' # 0
  /\ \E to : to \notin {"write", "rename"} /\ pc' = [pc EXCEPT ![t] = to]
  /\ data' = [data EXCEPT ![fd[t]] = Short(@)]
  /\ UNCHANGED <<tmp, final, fd>>

\* A task gives the temporary file its final name.
Renames(t) ==
  /\ pc[t] = "rename" /\ tmp[Content(t)] # Nobody
  /\ \E to : to \notin {"write", "rename"} /\ pc' = [pc EXCEPT ![t] = to]
  /\ final' = [final EXCEPT ![Content(t)] = tmp[Content(t)]]
  /\ tmp' = [tmp EXCEPT ![Content(t)] = Nobody]
  /\ UNCHANGED <<data, fd>>

\* A task removes the temporary file, whoever put it there.
Removes(t) ==
  /\ pc[t] = "remove"
  /\ \E to : to \notin {"write", "rename"} /\ pc' = [pc EXCEPT ![t] = to]
  /\ tmp' = [tmp EXCEPT ![Content(t)] = Nobody]
  /\ UNCHANGED <<final, data, fd>>

\* The files stay as they are, and nobody comes to where they are written.
Quiet ==
  /\ UNCHANGED files
  /\ \A t \in Tasks :
       /\ pc'[t] \in {"write", "rename"} => pc'[t] = pc[t]
       /\ pc[t] = "write" => pc'[t] = "write" \/ crashes' # 0

\* Every step is one of these.
LEMMA FileStep ==
  ASSUME TypeOK, [Next]_vars
  PROVE  \/ Quiet
         \/ \E t \in Tasks : \/ Opens(t) \/ Writes(t) \/ WritesPart(t)
                             \/ Renames(t) \/ Removes(t)
  <1> DEFINE Goal == \/ Quiet
                     \/ \E t \in Tasks : \/ Opens(t) \/ Writes(t) \/ WritesPart(t)
                                         \/ Renames(t) \/ Removes(t)
  <1>0. TypeTasks /\ TypeFiles /\ TypeHistory
    BY TypeParts
  <1>1. ASSUME NEW t \in Tasks, UNCHANGED files, NEW from, NEW to,
               from # "write", to \notin {"write", "rename"},
               pc[t] = from, pc' = [pc EXCEPT ![t] = to]
        PROVE Quiet
    BY <1>0, <1>1 DEF Quiet, TypeTasks
  <1>2. \A t, from, to : Goto(t, from, to) => pc[t] = from /\ pc' = [pc EXCEPT ![t] = to]
    BY DEF Goto
  <1>3. \A t, from, ok : Returns(t, from, ok) => pc[t] = from
    BY DEF Returns
  <1>4. ASSUME NEW t \in Tasks, Incoming(t) \/ Download(t) \/ SendMedia(t)
        PROVE Quiet
    <2>1. UNCHANGED files
      BY <1>4 DEF Incoming, Download, SendMedia
    <2>2. \/ Goto(t, "idle", "download") \/ Goto(t, "idle", "done")
          \/ Goto(t, "download", "stat") \/ Goto(t, "download", "done")
          \/ Goto(t, "idle", "stat")
      BY <1>4 DEF Incoming, Download, SendMedia
    <2> QED BY <1>1, <1>2, <2>1, <2>2
  <1>5. ASSUME NEW t \in Tasks, SendPutMessage(t) \/ SendPutChat(t) \/ PutMedia(t)
        PROVE Quiet
    <2>1. UNCHANGED files
      BY <1>5 DEF SendPutMessage, SendPutChat, PutMedia
    <2>2. \/ Goto(t, "putMessage", IF path[t] THEN "putMedia" ELSE "putChat")
          \/ Goto(t, "putChat", "done")
          \/ Goto(t, "putMedia", IF t \in Sends THEN "putChat" ELSE "done")
      BY <1>5 DEF SendPutMessage, SendPutChat, PutMedia
    <2> QED BY <1>1, <1>2, <2>1, <2>2
  <1>6. ASSUME NEW t \in Tasks, Stat(t) PROVE Quiet
    <2>1. UNCHANGED files
      BY <1>6 DEF Stat
    <2>2. Returns(t, "stat", TRUE) \/ Goto(t, "stat", "open")
      BY <1>6, WriteMoves
    <2>3. CASE Returns(t, "stat", TRUE)
      BY <1>1, <1>3, <2>1, <2>3, ReturnsAway
    <2>4. CASE Goto(t, "stat", "open")
      BY <1>1, <1>2, <2>1, <2>4
    <2> QED BY <2>2, <2>3, <2>4
  <1>7. ASSUME NEW t \in Tasks, Open(t) PROVE Opens(t) \/ Quiet
    <2>1. CASE Goto(t, "open", "write")
      <3>1. /\ tmp' = [tmp EXCEPT ![Content(t)] = Opened(t)]
            /\ data' = [data EXCEPT ![Opened(t)] = "nothing"]
            /\ fd' = [fd EXCEPT ![t] = Opened(t)]
            /\ UNCHANGED final
        <4>1. ~Returns(t, "open", FALSE)
          BY <1>0, <2>1 DEF Goto, Returns, TypeTasks
        <4> QED BY <1>7, <4>1 DEF Open, Opened
      <3> QED BY <2>1, <3>1 DEF Opens, Goto
    <2>2. CASE Returns(t, "open", FALSE)
      <3>1. ~Goto(t, "open", "write")
        BY <1>0, <2>2 DEF Goto, Returns, TypeTasks
      <3>2. UNCHANGED files
        BY <1>7, <3>1 DEF Open, files
      <3> QED BY <1>1, <1>3, <2>2, <3>2, ReturnsAway
    <2> QED BY <1>7, <2>1, <2>2, WriteMoves
  <1>8. ASSUME NEW t \in Tasks, Write(t) PROVE Writes(t) \/ WritesPart(t)
    <2>1. UNCHANGED <<tmp, final, fd>>
      BY <1>8 DEF Write
    <2>2. \/ Goto(t, "write", "rename") /\ data' = [data EXCEPT ![fd[t]] = "whole"]
          \/ Fails /\ Returns(t, "write", FALSE) /\ data' = [data EXCEPT ![fd[t]] = Short(@)]
      BY <1>8 DEF Write
    <2>3. CASE Goto(t, "write", "rename") /\ data' = [data EXCEPT ![fd[t]] = "whole"]
      BY <2>1, <2>3 DEF Writes, Goto
    <2>4. CASE Fails /\ Returns(t, "write", FALSE) /\ data' = [data EXCEPT ![fd[t]] = Short(@)]
      <3>1. pc[t] = "write" /\ failures' # 0
        <4>1. Fails => failures' # 0
          BY <1>0 DEF Fails, TypeHistory
        <4>2. Fails /\ pc[t] = "write"
          BY <2>4, <1>3
        <4> QED BY <4>1, <4>2
      <3>2. \E to : to \notin {"write", "rename"} /\ pc' = [pc EXCEPT ![t] = to]
        BY <2>4, ReturnsAway, Zenon
      <3> QED BY <2>1, <2>4, <3>1, <3>2 DEF WritesPart
    <2> QED BY <2>2, <2>3, <2>4
  <1>9. ASSUME NEW t \in Tasks, Rename(t) PROVE Renames(t) \/ Quiet
    <2>1. UNCHANGED <<data, fd>>
      BY <1>9 DEF Rename
    <2>2. \/ /\ tmp[Content(t)] # Nobody
             /\ final' = [final EXCEPT ![Content(t)] = tmp[Content(t)]]
             /\ tmp' = [tmp EXCEPT ![Content(t)] = Nobody]
             /\ Returns(t, "rename", TRUE)
          \/ Goto(t, "rename", "remove") /\ UNCHANGED <<tmp, final>>
      BY <1>9 DEF Rename
    <2>3. CASE /\ tmp[Content(t)] # Nobody
               /\ final' = [final EXCEPT ![Content(t)] = tmp[Content(t)]]
               /\ tmp' = [tmp EXCEPT ![Content(t)] = Nobody]
               /\ Returns(t, "rename", TRUE)
      <3>1. pc[t] = "rename"
        BY <1>3, <2>3
      <3>2. \E to : to \notin {"write", "rename"} /\ pc' = [pc EXCEPT ![t] = to]
        BY <2>3, ReturnsAway, Zenon
      <3> QED BY <2>1, <2>3, <3>1, <3>2 DEF Renames
    <2>4. CASE Goto(t, "rename", "remove") /\ UNCHANGED <<tmp, final>>
      BY <1>1, <1>2, <2>1, <2>4 DEF files
    <2> QED BY <2>2, <2>3, <2>4
  <1>10. ASSUME NEW t \in Tasks, Remove(t) PROVE Removes(t)
    <2>1. /\ tmp' = [tmp EXCEPT ![Content(t)] = Nobody]
          /\ UNCHANGED <<final, data, fd>>
      BY <1>10 DEF Remove
    <2>2. Returns(t, "remove", FALSE)
      BY <1>10 DEF Remove
    <2>3. \E to : to \notin {"write", "rename"} /\ pc' = [pc EXCEPT ![t] = to]
      BY <2>2, ReturnsAway, Zenon
    <2> QED BY <1>3, <2>1, <2>2, <2>3 DEF Removes
  <1>11. ASSUME Crash PROVE Quiet
    <2>1. UNCHANGED files /\ crashes' # 0
      BY <1>0, <1>11 DEF Crash, TypeHistory
    <2>2. \A t \in Tasks : pc'[t] \in {"idle", "done"}
      BY <1>0, <1>11 DEF Crash
    <2> QED BY <2>1, <2>2 DEF Quiet
  <1>12. ASSUME Reader \/ UNCHANGED vars PROVE Quiet
    <2>1. UNCHANGED <<files, pc>>
      BY <1>12 DEF Reader, Get, GetOpen, GetCopy, vars, tasks, files
    <2> QED BY <2>1 DEF Quiet
  <1> QED BY <1>4, <1>5, <1>6, <1>7, <1>8, <1>9, <1>10, <1>11, <1>12
          DEF Next, Task

\* GET asks for a message with a row, opens what is under the final name,
\* copies what that holds, and leaves.
LEMMA ReaderStep ==
  ASSUME [Next]_vars
  PROVE  \/ UNCHANGED reader
         \/ \E m \in mediaRows : asked = Nobody /\ asked' = m /\ UNCHANGED <<open, served>>
         \/ served' = "404" /\ UNCHANGED <<asked, open>>
         \/ GetOpen
         \/ GetCopy
         \/ asked' = Nobody /\ open' = Nobody /\ UNCHANGED served
  BY Zenon DEF Next, Task, Reader, Incoming, Download, SendMedia, SendPutMessage,
               SendPutChat, Stat, Open, Write, Rename, Remove, PutMedia, Get,
               Crash, vars, reader

-----------------------------------------------------------------------------
(* The invariants about files.                                             *)

\* An inode belongs to its content for good.
LEMMA InodeStays ==
  ASSUME TypeOK, [Next]_vars, NEW i, NEW c, InodeOf(i, c)
  PROVE  InodeOf(i, c)'
  <1>1. TypeTasks
    BY TypeParts
  <1> QED BY <1>1, Forward DEF InodeOf

\* Open leads to an inode of the content, under the temporary name.
LEMMA OpenedInode ==
  ASSUME TypeOK, NamesSettled, [Next]_vars, NEW t \in Tasks, Opens(t),
         NEW j, j = Opened(t)
  PROVE  /\ j \in Tasks /\ InodeOf(j, Content(t))'
         /\ \A c : InodeOf(j, c) => c = Content(t) /\ tmp[c] = j
  <1>1. TypeTasks /\ TypeFiles
    BY TypeParts
  <1>2. CASE tmp[Content(t)] = Nobody
    <2>1. j = t /\ pc[t] = "open" /\ pc'[t] = "write"
      BY <1>1, <1>2 DEF Opened, Opens, TypeTasks
    <2> QED BY <2>1 DEF InodeOf, Fresh
  <1>3. CASE tmp[Content(t)] # Nobody
    <2>1. j = tmp[Content(t)] /\ j \in Tasks
      BY <1>1, <1>3, HasContent DEF Opened, TypeFiles
    <2>2. InodeOf(j, Content(t))
      BY <1>3, <2>1, HasContent DEF NamesSettled
    <2>3. InodeOf(j, Content(t))'
      BY <2>2, InodeStays
    <2>4. \A c : InodeOf(j, c) => c = Content(t)
      BY <2>2 DEF InodeOf
    <2> QED BY <2>1, <2>3, <2>4
  <1> QED BY <1>2, <1>3

\* Names, descriptors and readers keep to the inodes of their content.
LEMMA NamesStep ==
  ASSUME TypeOK, NamesSettled, [Next]_vars
  PROVE  NamesSettled'
  <1>1. TypeTasks /\ TypeFiles /\ TypeReader
    BY TypeParts
  <1>2. \A i, c : InodeOf(i, c) => InodeOf(i, c)'
    BY InodeStays
  <1>3. ASSUME NEW c \in Contents PROVE (tmp[c] # Nobody => InodeOf(tmp[c], c))'
    <2>1. CASE tmp'[c] \in {tmp[c], Nobody}
      BY <1>2, <2>1 DEF NamesSettled, InodeOf, Fresh
    <2>2. ASSUME NEW u \in Tasks, Opens(u), c = Content(u)
          PROVE  InodeOf(tmp[c], c)'
      <3>1. PICK j : j = Opened(u)
        OBVIOUS
      <3>2. tmp'[c] = j
        BY <1>1, <2>2, <3>1 DEF Opens, TypeFiles
      <3>3. InodeOf(j, c)'
        <4>1. InodeOf(j, Content(u))'
          BY <2>2, <3>1, OpenedInode
        <4> QED BY <2>2, <4>1 DEF InodeOf, Content
      <3> QED BY <3>2, <3>3 DEF InodeOf, Fresh
    <2>3. tmp'[c] \in {tmp[c], Nobody} \/ \E u \in Tasks : Opens(u) /\ c = Content(u)
      BY <1>1, FileStep DEF Quiet, Opens, Writes, WritesPart, Renames, Removes,
                            files, TypeFiles
    <2> QED BY <2>1, <2>2, <2>3
  <1>4. ASSUME NEW c \in Contents PROVE (final[c] # Nobody => InodeOf(final[c], c))'
    <2>1. final'[c] \in {final[c], tmp[c]}
      BY <1>1, FileStep DEF Quiet, Opens, Writes, WritesPart, Renames, Removes,
                            files, TypeFiles
    <2> QED BY <1>2, <2>1 DEF NamesSettled, InodeOf, Fresh
  <1>5. ASSUME NEW t \in Tasks
        PROVE (fd[t] # Nobody => InodeOf(fd[t], Content(t)))'
    <2>1. CASE fd'[t] = fd[t]
      BY <1>2, <2>1 DEF NamesSettled, InodeOf, Fresh, Content
    <2>2. CASE Opens(t)
      <3>1. PICK j : j = Opened(t)
        OBVIOUS
      <3>2. fd'[t] = j
        BY <1>1, <2>2, <3>1 DEF Opens, TypeFiles
      <3>3. InodeOf(j, Content(t))'
        BY <2>2, <3>1, OpenedInode
      <3> QED BY <3>2, <3>3 DEF InodeOf, Fresh, Content
    <2>3. fd'[t] = fd[t] \/ Opens(t)
      BY <1>1, FileStep DEF Quiet, Opens, Writes, WritesPart, Renames, Removes,
                            files, TypeFiles
    <2> QED BY <2>1, <2>2, <2>3
  <1>6. ASSUME NEW t \in Tasks, pc'[t] = "write" PROVE fd'[t] # Nobody
    <2>1. CASE Opens(t)
      <3>1. PICK j : j = Opened(t)
        OBVIOUS
      <3>2. fd'[t] = j
        BY <1>1, <2>1, <3>1 DEF Opens, TypeFiles
      <3> QED BY <2>1, <3>1, <3>2, OpenedInode, HasContent
    <2>2. CASE pc[t] = "write" /\ fd'[t] = fd[t]
      BY <2>2 DEF NamesSettled
    <2>3. \A u \in Tasks : Writes(u) \/ WritesPart(u) \/ Renames(u) \/ Removes(u)
                => fd' = fd /\ pc[t] = "write"
      BY <1>1, <1>6 DEF Writes, WritesPart, Renames, Removes, TypeTasks
    <2>4. \A u \in Tasks : Opens(u) /\ u # t => fd'[t] = fd[t] /\ pc[t] = "write"
      BY <1>1, <1>6 DEF Opens, TypeTasks, TypeFiles
    <2>5. Quiet => fd' = fd /\ pc[t] = "write"
      BY <1>6 DEF Quiet, files
    <2> QED BY <2>1, <2>2, <2>3, <2>4, <2>5, FileStep
  <1>7. (open # Nobody => asked # Nobody /\ InodeOf(open, ContentOf[asked]))'
    <2>1. CASE UNCHANGED <<asked, open>>
      <3>1. open # Nobody => InodeOf(open, ContentOf[asked])'
        BY <2>1, <1>2 DEF NamesSettled, InodeOf, Fresh
      <3> QED BY <2>1, <3>1 DEF NamesSettled, InodeOf, Fresh
    <2>2. CASE open' = Nobody
      BY <2>2
    <2>3. CASE GetOpen /\ open' # Nobody
      <3>1. PICK i, c : i = final[ContentOf[asked]] /\ c = ContentOf[asked]
        OBVIOUS
      <3>2. /\ asked # Nobody /\ asked' = asked /\ open' = i
        BY <2>3, <3>1 DEF GetOpen
      <3>3. c \in Contents
        BY <1>1, <3>1, <3>2, HasContent DEF TypeReader
      <3>4. InodeOf(i, c)
        BY <2>3, <3>1, <3>2, <3>3 DEF NamesSettled
      <3>5. InodeOf(i, c)'
        BY <3>4, <1>2
      <3> QED BY <3>1, <3>2, <3>5 DEF InodeOf, Fresh
    <2>4. asked = Nobody => open = Nobody
      BY DEF NamesSettled
    <2>5. GetCopy => open' = Nobody
      BY DEF GetCopy
    <2> QED BY <2>1, <2>2, <2>3, <2>4, <2>5, ReaderStep DEF reader
  <1> QED BY <1>3, <1>4, <1>5, <1>6, <1>7 DEF NamesSettled

\* A second writer is one that Stat lets through, and then the content is
\* shared.
LEMMA OneWriterStep ==
  ASSUME TypeOK, OneWriter, [Next]_vars
  PROVE  OneWriter'
  <1>1. TypeTasks /\ TypeHistory
    BY TypeParts
  <1>2. shared \subseteq shared'
    BY <1>1, HistoryStep
  <1>3. ASSUME NEW t \in Tasks, NEW u \in Tasks, t # u, Writing(t)', Writing(u)',
               Content(t) = Content(u), ~Writing(t)
        PROVE  Content(t) \in shared'
    <2>1. Stat(t) /\ pc[t] = "stat" /\ pc'[t] = "open"
      BY <1>1, <1>3, Forward
    <2>2. ~Returns(t, "stat", TRUE)
      BY <1>1, <2>1 DEF Returns, TypeTasks
    <2>3. /\ pc' = [pc EXCEPT ![t] = "open"]
          /\ shared' = IF \E v \in Tasks : Writing(v) /\ Content(v) = Content(t)
                         THEN shared \cup {Content(t)} ELSE shared
      BY <2>1, <2>2 DEF Stat, Goto
    <2>4. Writing(u)
      BY <1>1, <1>3, <2>3 DEF Writing, TypeTasks
    <2> QED BY <1>3, <2>3, <2>4
  <1> SUFFICES ASSUME NEW t \in Tasks, NEW u \in Tasks, t # u, Writing(t)', Writing(u)',
                      Content(t) = Content(u)
               PROVE  Content(t) \in shared'
    BY DEF OneWriter, Content
  <1>4. CASE Writing(t) /\ Writing(u)
    BY <1>2, <1>4 DEF OneWriter
  <1> QED BY <1>3, <1>4

\* Two tasks that are both about to write or to rename have contents of
\* their own, unless theirs is shared.
LEMMA Apart ==
  ASSUME OneWriter, NEW t \in Tasks, NEW u \in Tasks, t # u,
         Writing(t), Writing(u), Content(t) \notin shared
  PROVE  Content(u) # Content(t)
  BY DEF OneWriter

\* The one writer of an unshared content keeps the temporary file, and fills
\* it before it renames it.
LEMMA OwnsStep ==
  ASSUME TypeOK, NamesSettled, OneWriter, WriterOwnsTmp, [Next]_vars
  PROVE  WriterOwnsTmp'
  <1>1. TypeTasks /\ TypeFiles /\ TypeHistory
    BY TypeParts
  <1>2. shared \subseteq shared'
    BY <1>1, HistoryStep
  <1> SUFFICES ASSUME NEW t \in Tasks, NEW c, c = Content(t), c \notin shared,
                      pc'[t] \in {"write", "rename"}
               PROVE  /\ tmp'[c] # Nobody
                      /\ pc'[t] = "write" => fd'[t] = tmp'[c]
                      /\ pc'[t] = "rename" => data'[tmp'[c]] = "whole"
    BY <1>2 DEF WriterOwnsTmp, Content
  <1>3. c \in Contents
    BY HasContent
  <1>4. pc[t] \in {"write", "rename"} =>
          /\ tmp[c] # Nobody /\ tmp[c] \in Tasks /\ InodeOf(tmp[c], c)
          /\ pc[t] = "write" => fd[t] = tmp[c]
          /\ pc[t] = "rename" => data[tmp[c]] = "whole"
    BY <1>1, <1>3 DEF WriterOwnsTmp, NamesSettled, TypeFiles
  <1>5. CASE Quiet
    BY <1>4, <1>5 DEF Quiet, files
  <1>6. CASE Opens(t)
    <2>1. PICK j : j = Opened(t)
      OBVIOUS
    <2>2. tmp'[c] = j /\ fd'[t] = j /\ pc'[t] = "write"
      BY <1>1, <1>3, <1>6, <2>1 DEF Opens, TypeFiles, TypeTasks
    <2>3. j # Nobody
      BY <1>6, <2>1, OpenedInode, HasContent
    <2> QED BY <2>2, <2>3
  <1>7. CASE Writes(t)
    <2>1. tmp'[c] = fd[t] /\ pc'[t] = "rename" /\ fd[t] \in Tasks
      BY <1>1, <1>4, <1>7 DEF Writes, TypeTasks
    <2>2. data'[fd[t]] = "whole"
      BY <1>1, <1>7, <2>1 DEF Writes, TypeFiles
    <2> QED BY <2>1, <2>2, HasContent
  <1>8. CASE WritesPart(t) \/ Renames(t) \/ Removes(t)
    BY <1>1, <1>8 DEF WritesPart, Renames, Removes, TypeTasks
  <1>9. ASSUME NEW u \in Tasks, u # t,
               Opens(u) \/ Writes(u) \/ WritesPart(u) \/ Renames(u) \/ Removes(u)
        PROVE  /\ tmp'[c] = tmp[c] /\ fd'[t] = fd[t] /\ pc'[t] = pc[t]
               /\ data'[tmp[c]] = data[tmp[c]]
    <2>1. pc'[t] = pc[t]
      BY <1>1, <1>9 DEF Opens, Writes, WritesPart, Renames, Removes, TypeTasks
    <2>2. Content(u) # c
      <3>1. Writing(t) /\ Writing(u)
        BY <1>9, <2>1 DEF Writing, Opens, Writes, WritesPart, Renames, Removes
      <3> QED BY <1>9, <3>1, Apart
    <2>3. tmp'[c] = tmp[c] /\ fd'[t] = fd[t]
      BY <1>1, <1>3, <1>9, <2>2
         DEF Opens, Writes, WritesPart, Renames, Removes, TypeFiles
    <2>4. CASE Opens(u)
      <3>1. PICK j : j = Opened(u)
        OBVIOUS
      <3>2. tmp[c] # j
        BY <1>4, <2>1, <2>2, <2>4, <3>1, OpenedInode
      <3>3. data' = [data EXCEPT ![j] = "nothing"]
        BY <2>4, <3>1 DEF Opens
      <3> QED BY <1>1, <1>4, <2>1, <2>3, <3>2, <3>3 DEF TypeFiles
    <2>5. CASE Writes(u) \/ WritesPart(u)
      <3>1. pc[u] = "write"
        BY <2>5 DEF Writes, WritesPart
      <3>2. InodeOf(fd[u], Content(u))
        BY <3>1 DEF NamesSettled
      <3>3. tmp[c] # fd[u]
        BY <1>4, <2>1, <2>2, <3>2 DEF InodeOf
      <3>4. \E d : data' = [data EXCEPT ![fd[u]] = d]
        BY <2>5 DEF Writes, WritesPart
      <3> QED BY <1>1, <1>4, <2>1, <2>3, <3>3, <3>4 DEF TypeFiles
    <2>6. CASE Renames(u) \/ Removes(u)
      BY <2>1, <2>3, <2>6 DEF Renames, Removes
    <2> QED BY <1>9, <2>1, <2>3, <2>4, <2>5, <2>6
  <1> QED BY <1>4, <1>5, <1>6, <1>7, <1>8, <1>9, FileStep

\* A whole inode that the temporary name has left stays whole: Open empties
\* and Write fills only what has, or gets, the temporary name.
LEMMA SettledStays ==
  ASSUME TypeOK, NamesSettled, [Next]_vars,
         NEW c \in Contents, NEW i, InodeOf(i, c), Settled(i, c)
  PROVE  Settled(i, c)'
  <1>1. TypeFiles /\ i \in Tasks /\ i # Nobody
    BY TypeParts, HasContent DEF InodeOf
  <1>2. CASE Quiet
    BY <1>2 DEF Quiet, files, Settled
  <1>3. ASSUME NEW u \in Tasks, Opens(u) PROVE Settled(i, c)'
    <2>1. PICK j : j = Opened(u)
      OBVIOUS
    <2>2. j # i
      BY <1>3, <2>1, OpenedInode DEF Settled
    <2>3. /\ tmp' = [tmp EXCEPT ![Content(u)] = j]
          /\ data' = [data EXCEPT ![j] = "nothing"]
      BY <1>3, <2>1 DEF Opens
    <2> QED BY <1>1, <2>2, <2>3 DEF Settled, TypeFiles
  <1>4. ASSUME NEW u \in Tasks, Writes(u) PROVE Settled(i, c)'
    BY <1>1, <1>4 DEF Writes, Settled, TypeFiles
  <1>5. ASSUME NEW u \in Tasks, WritesPart(u) PROVE Settled(i, c)'
    BY <1>1, <1>5 DEF WritesPart, Short, Settled, TypeFiles
  <1>6. ASSUME NEW u \in Tasks, Renames(u) \/ Removes(u) PROVE Settled(i, c)'
    <2>1. data' = data /\ tmp' = [tmp EXCEPT ![Content(u)] = Nobody]
      BY <1>6 DEF Renames, Removes
    <2> QED BY <1>1, <2>1 DEF Settled, TypeFiles
  <1> QED BY <1>2, <1>3, <1>4, <1>5, <1>6, FileStep

\* What gets the final name of an unshared content is whole and settled.
LEMMA FinalStep ==
  ASSUME TypeOK, NamesSettled, WriterOwnsTmp, FinalSettled, [Next]_vars
  PROVE  FinalSettled'
  <1>1. TypeFiles /\ TypeHistory
    BY TypeParts
  <1>2. shared \subseteq shared'
    BY <1>1, HistoryStep
  <1> SUFFICES ASSUME NEW c \in Contents, NEW i, i = final'[c], i # Nobody,
                      c \notin shared
               PROVE  Settled(i, c)'
    BY <1>2 DEF FinalSettled, Settled
  <1>3. CASE i = final[c]
    <2>1. InodeOf(i, c) /\ Settled(i, c)
      BY <1>3 DEF NamesSettled, FinalSettled
    <2> QED BY <2>1, SettledStays
  <1>4. CASE i # final[c]
    <2>1. final' # final
      BY <1>4
    <2>2. PICK u \in Tasks : Renames(u)
      BY <2>1, FileStep DEF Quiet, Opens, Writes, WritesPart, Removes, files
    <2>3. c = Content(u) /\ i = tmp[c] /\ tmp'[c] = Nobody
      BY <1>1, <1>4, <2>2 DEF Renames, TypeFiles
    <2>4. data[i] = "whole" /\ data' = data
      BY <2>2, <2>3 DEF WriterOwnsTmp, Renames
    <2> QED BY <2>3, <2>4 DEF Settled
  <1> QED BY <1>3, <1>4

\* A reader opens what is settled, and that is settled still when it copies.
LEMMA ReaderSettledStep ==
  ASSUME TypeOK, NamesSettled, FinalSettled, ReaderSettled, [Next]_vars
  PROVE  ReaderSettled'
  <1>1. TypeReader /\ TypeHistory
    BY TypeParts
  <1>2. shared \subseteq shared'
    BY <1>1, HistoryStep
  <1> SUFFICES ASSUME NEW i, i = open', i # Nobody,
                      NEW c, c = ContentOf[asked'], c \notin shared
               PROVE  Settled(i, c)'
    BY <1>2 DEF ReaderSettled, Settled
  <1>3. CASE asked' = asked /\ open' = open
    <2>1. asked # Nobody /\ InodeOf(i, c) /\ Settled(i, c)
      BY <1>3 DEF NamesSettled, ReaderSettled
    <2>2. c \in Contents
      BY <1>1, <1>3, <2>1, HasContent DEF TypeReader
    <2> QED BY <2>1, <2>2, SettledStays
  <1>4. CASE GetOpen
    <2>1. asked' = asked /\ asked # Nobody /\ i = final[c] /\ UNCHANGED <<tmp, data>>
      BY <1>4 DEF GetOpen, files
    <2>2. c \in Contents
      BY <1>1, <2>1, HasContent DEF TypeReader
    <2>3. Settled(i, c)
      BY <2>1, <2>2 DEF FinalSettled
    <2> QED BY <2>1, <2>3 DEF Settled
  <1>5. asked = Nobody => open = Nobody
    BY DEF NamesSettled
  <1>6. GetCopy => open' = Nobody
    BY DEF GetCopy
  <1> QED BY <1>3, <1>4, <1>5, <1>6, ReaderStep DEF reader

-----------------------------------------------------------------------------
(* The invariants about rows, and about runs in which nothing failed.      *)

\* A final name may come to lead elsewhere, and is never lost.
LEMMA FinalStays ==
  ASSUME TypeOK, [Next]_vars, NEW c \in Contents, final[c] # Nobody
  PROVE  final'[c] # Nobody
  <1>1. TypeFiles
    BY TypeParts
  <1> QED BY <1>1, FileStep DEF Quiet, Opens, Writes, WritesPart, Renames, Removes,
                                files, TypeFiles

\* What happens to the result of Write, and where a task goes with it.
LEMMA PathStep ==
  ASSUME TypeTasks, TypeFiles, TypeHistory, [Next]_vars, NEW u \in Tasks
  PROVE  \/ /\ path'[u] = path[u]
            /\ pc'[u] = "putMedia" => pc[u] = "putMedia" \/ path[u]
            /\ pc'[u] = "putMessage" => pc[u] = "putMessage"
         \/ path'[u] = TRUE /\ There(Content(u)) /\ final' = final
         \/ path'[u] = TRUE /\ final'[Content(u)] # Nobody
         \/ /\ path'[u] = FALSE /\ pc'[u] # "putMedia"
            /\ failures' # 0 \/ pc[u] = "remove"
  <1> DEFINE Kept == /\ path'[u] = path[u]
                     /\ pc'[u] = "putMedia" => pc[u] = "putMedia" \/ path[u]
                     /\ pc'[u] = "putMessage" => pc[u] = "putMessage"
             Lost == /\ path'[u] = FALSE /\ pc'[u] # "putMedia"
                     /\ failures' # 0 \/ pc[u] = "remove"
             Goal == \/ Kept
                     \/ path'[u] = TRUE /\ There(Content(u)) /\ final' = final
                     \/ path'[u] = TRUE /\ final'[Content(u)] # Nobody
                     \/ Lost
  <1> SUFFICES Goal
    OBVIOUS
  <1> USE DEF TypeTasks
  <1>1. \A t, from, to : Goto(t, from, to) => pc[t] = from /\ pc' = [pc EXCEPT ![t] = to]
    BY DEF Goto
  <1>2. \A t, from, ok : Returns(t, from, ok)
          => /\ pc[t] = from /\ path' = [path EXCEPT ![t] = ok]
             /\ \E to : pc' = [pc EXCEPT ![t] = to]
    BY DEF Returns
  <1>3. \A from : Returns(u, from, FALSE) => path'[u] = FALSE /\ pc'[u] # "putMedia"
    BY DEF Returns
  <1>4. \A from : Returns(u, from, TRUE) => path'[u] = TRUE
    BY DEF Returns
  <1>5. ASSUME NEW t \in Tasks, Incoming(t) \/ Download(t) \/ SendMedia(t)
        PROVE Kept
    <2>1. \/ Goto(t, "idle", "download") \/ Goto(t, "idle", "done")
          \/ Goto(t, "download", "stat") \/ Goto(t, "download", "done")
          \/ Goto(t, "idle", "stat")
      BY <1>5 DEF Incoming, Download, SendMedia
    <2>2. UNCHANGED path
      BY <1>5, Zenon DEF Incoming, Download, SendMedia
    <2> QED BY <1>1, <2>1, <2>2
  <1>6. ASSUME NEW t \in Tasks, SendPutMessage(t) \/ SendPutChat(t) \/ PutMedia(t)
        PROVE Kept
    <2>1. \/ Goto(t, "putMessage", IF path[t] THEN "putMedia" ELSE "putChat")
          \/ Goto(t, "putChat", "done")
          \/ Goto(t, "putMedia", IF t \in Sends THEN "putChat" ELSE "done")
      BY <1>6 DEF SendPutMessage, SendPutChat, PutMedia
    <2>2. UNCHANGED path
      BY <1>6, Zenon DEF SendPutMessage, SendPutChat, PutMedia
    <2> QED BY <1>1, <2>1, <2>2
  <1>7. ASSUME NEW t \in Tasks, t # u,
               Stat(t) \/ Open(t) \/ Write(t) \/ Rename(t) \/ Remove(t)
        PROVE Kept
    <2>1. path'[u] = path[u]
      <3>1. (\E from, ok : Returns(t, from, ok)) \/ UNCHANGED path
        BY <1>7, WriteMoves, Zenon
      <3> QED BY <1>2, <1>7, <3>1
    <2>2. pc'[u] = pc[u]
      <3>1. (\E from, to : Goto(t, from, to)) \/ (\E from, ok : Returns(t, from, ok))
        BY <1>7, WriteMoves, Zenon
      <3> QED BY <1>1, <1>2, <1>7, <3>1
    <2> QED BY <2>1, <2>2
  <1>8. ASSUME NEW from, NEW to, Goto(u, from, to), UNCHANGED path,
               to \notin {"putMedia", "putMessage"}
        PROVE Kept
    BY <1>1, <1>8
  <1>9. CASE Stat(u)
    <2>1. CASE There(Content(u))
      BY <1>4, <1>9, <2>1 DEF Stat, files
    <2>2. CASE ~There(Content(u))
      BY <1>8, <1>9, <2>2 DEF Stat
    <2> QED BY <2>1, <2>2
  <1>10. ASSUME Fails PROVE failures' # 0
    BY <1>10 DEF Fails, TypeHistory
  <1>11. CASE Open(u)
    <2>1. \/ Goto(u, "open", "write") /\ UNCHANGED path
          \/ Fails /\ Returns(u, "open", FALSE)
      BY <1>11 DEF Open
    <2>2. CASE Goto(u, "open", "write") /\ UNCHANGED path
      BY <1>8, <2>2
    <2>3. CASE Fails /\ Returns(u, "open", FALSE)
      BY <1>3, <1>10, <2>3
    <2> QED BY <2>1, <2>2, <2>3
  <1>12. CASE Write(u)
    <2>1. \/ Goto(u, "write", "rename") /\ UNCHANGED path
          \/ Fails /\ Returns(u, "write", FALSE)
      BY <1>12 DEF Write
    <2>2. CASE Goto(u, "write", "rename") /\ UNCHANGED path
      BY <1>8, <2>2
    <2>3. CASE Fails /\ Returns(u, "write", FALSE)
      BY <1>3, <1>10, <2>3
    <2> QED BY <2>1, <2>2, <2>3
  <1>13. CASE Rename(u)
    <2>1. CASE Goto(u, "rename", "remove") /\ UNCHANGED path
      BY <1>8, <2>1
    <2>2. CASE /\ Returns(u, "rename", TRUE) /\ tmp[Content(u)] # Nobody
               /\ final' = [final EXCEPT ![Content(u)] = tmp[Content(u)]]
      BY <1>4, <2>2, HasContent DEF TypeFiles
    <2> QED BY <1>13, <2>1, <2>2, Zenon DEF Rename
  <1>14. CASE Remove(u)
    BY <1>2, <1>3, <1>14, WriteMoves
  <1>15. CASE Crash
    BY <1>15 DEF Crash
  <1>16. CASE Reader \/ UNCHANGED vars
    <2>1. UNCHANGED <<pc, path>>
      BY <1>16 DEF Reader, Get, GetOpen, GetCopy, vars, tasks
    <2> QED BY <2>1
  <1> HIDE DEF Kept, Lost
  <1>17. Kept => Goal
    OBVIOUS
  <1> HIDE DEF Goal
  <1>18. ASSUME NEW t \in Tasks, Task(t), t # u PROVE Goal
    BY <1>5, <1>6, <1>7, <1>17, <1>18, Zenon DEF Task
  <1>19. CASE Task(u)
    BY <1>5, <1>6, <1>9, <1>11, <1>12, <1>13, <1>14, <1>17, <1>19, Zenon DEF Task
  <1> QED BY <1>15, <1>16, <1>18, <1>19, Zenon DEF Next

\* Rows are only added: of a message by Incoming and SendPutMessage, of
\* media by PutMedia.
LEMMA RowsStep ==
  ASSUME TypeRows, [Next]_vars
  PROVE  /\ msgRows \subseteq msgRows' /\ mediaRows \subseteq mediaRows'
         /\ \A m \in msgRows' \ msgRows :
              \E t \in Tasks : m = MsgOf[t] /\ (Incoming(t) \/ SendPutMessage(t))
         /\ \A m \in mediaRows' \ mediaRows :
              \E t \in Tasks : m = MsgOf[t] /\ PutMedia(t)
  <1> DEFINE Goal ==
         /\ msgRows \subseteq msgRows' /\ mediaRows \subseteq mediaRows'
         /\ \A m \in msgRows' \ msgRows :
              \E t \in Tasks : m = MsgOf[t] /\ (Incoming(t) \/ SendPutMessage(t))
         /\ \A m \in mediaRows' \ mediaRows :
              \E t \in Tasks : m = MsgOf[t] /\ PutMedia(t)
  <1>1. ASSUME NEW t \in Tasks, Incoming(t) \/ SendPutMessage(t) PROVE Goal
    <2>1. msgRows' \in {msgRows, msgRows \cup {MsgOf[t]}} /\ mediaRows' = mediaRows
      BY <1>1 DEF Incoming, SendPutMessage
    <2> QED BY <1>1, <2>1
  <1>2. ASSUME NEW t \in Tasks, PutMedia(t) PROVE Goal
    <2>1. mediaRows' \in {mediaRows, mediaRows \cup {MsgOf[t]}} /\ msgRows' = msgRows
      BY <1>2 DEF PutMedia
    <2> QED BY <1>2, <2>1
  <1>3. ASSUME UNCHANGED <<msgRows, mediaRows>> PROVE Goal
    BY <1>3
  <1>4. ASSUME NEW t \in Tasks, Download(t) \/ SendMedia(t) \/ Stat(t) \/ Open(t)
                             \/ Write(t) \/ Rename(t) \/ Remove(t) \/ SendPutChat(t)
        PROVE UNCHANGED <<msgRows, mediaRows>>
    BY <1>4 DEF Download, SendMedia, Stat, Open, Write, Rename, Remove, SendPutChat,
                tables
  <1>5. ASSUME Reader \/ Crash \/ UNCHANGED vars PROVE UNCHANGED <<msgRows, mediaRows>>
    BY <1>5 DEF Reader, Get, GetOpen, GetCopy, Crash, vars, tables
  <1> HIDE DEF Goal
  <1>6. Goal
    BY <1>1, <1>2, <1>3, <1>4, <1>5 DEF Next, Task
  <1> QED BY <1>6 DEF Goal

\* Paths and rows stand for files that are there.
LEMMA RowsFollowFilesStep ==
  ASSUME TypeOK, RowsFollowFiles, [Next]_vars
  PROVE  RowsFollowFiles'
  <1>1. TypeTasks /\ TypeFiles /\ TypeHistory /\ TypeRows /\ TypeReader
    BY TypeParts
  <1>2. \A c \in Contents : final[c] # Nobody => final'[c] # Nobody
    BY FinalStays
  <1>3. ASSUME NEW t \in Tasks
        PROVE  /\ pc'[t] = "putMedia" => path'[t]
               /\ path'[t] => final'[Content(t)] # Nobody
    <2>1. CASE /\ path'[t] = path[t]
               /\ pc'[t] = "putMedia" => pc[t] = "putMedia" \/ path[t]
      BY <1>2, <2>1, HasContent DEF RowsFollowFiles
    <2>2. CASE path'[t] = TRUE /\ There(Content(t)) /\ final' = final
      BY <2>2 DEF There
    <2>3. CASE path'[t] = TRUE /\ final'[Content(t)] # Nobody
      BY <2>3
    <2>4. CASE path'[t] = FALSE /\ pc'[t] # "putMedia"
      BY <2>4
    <2> QED BY <1>1, <2>1, <2>2, <2>3, <2>4, PathStep
  <1>4. ASSUME NEW m \in mediaRows' PROVE final'[ContentOf[m]] # Nobody
    <2>1. CASE m \in mediaRows
      BY <1>1, <1>2, <2>1, HasContent DEF RowsFollowFiles, TypeRows
    <2>2. CASE m \notin mediaRows
      <3>1. PICK t \in Tasks : m = MsgOf[t] /\ PutMedia(t)
        BY <1>1, <2>2, RowsStep
      <3>2. pc[t] = "putMedia"
        BY <1>1, <3>1, TaskGoes
      <3>3. final[Content(t)] # Nobody
        BY <3>2 DEF RowsFollowFiles
      <3> QED BY <1>2, <3>1, <3>3, HasContent DEF Content
    <2> QED BY <2>1, <2>2
  <1>5. asked' # Nobody => asked' \in mediaRows'
    <2>1. mediaRows \subseteq mediaRows'
      BY <1>1, RowsStep
    <2>2. GetOpen => asked' \in {asked, Nobody}
      BY DEF GetOpen
    <2>3. GetCopy => asked' = Nobody
      BY DEF GetCopy
    <2> QED BY <2>1, <2>2, <2>3, ReaderStep DEF RowsFollowFiles, reader
  <1> QED BY <1>3, <1>4, <1>5 DEF RowsFollowFiles, Content

\* A run in which nothing failed did not fail before either.
LEMMA NothingFailedBefore ==
  ASSUME TypeOK, [Next]_vars, NothingFailed'
  PROVE  NothingFailed /\ failures' = 0 /\ crashes' = 0
  <1>1. TypeHistory
    BY TypeParts
  <1>2. failures' >= failures /\ crashes' >= crashes
    BY <1>1, HistoryStep
  <1> QED BY <1>1, <1>2 DEF NothingFailed, TypeHistory

\* As long as nothing fails, what is filled or being filled remains so.
LEMMA FilledStays ==
  ASSUME TypeOK, NamesSettled, [Next]_vars, NothingFailed',
         NEW i \in Tasks, Filled(i)
  PROVE  Filled(i)'
  <1>1. TypeTasks /\ TypeFiles /\ failures' = 0 /\ crashes' = 0
    BY TypeParts, NothingFailedBefore
  <1>2. CASE Quiet
    BY <1>1, <1>2 DEF Quiet, files, Filled
  <1>3. ASSUME NEW u \in Tasks, Opens(u) PROVE Filled(i)'
    <2>1. PICK j : j = Opened(u)
      OBVIOUS
    <2>2. /\ data' = [data EXCEPT ![j] = "nothing"]
          /\ fd' = [fd EXCEPT ![u] = j]
          /\ pc[u] = "open" /\ pc' = [pc EXCEPT ![u] = "write"]
      BY <1>3, <2>1 DEF Opens
    <2>3. CASE i = j
      <3>1. pc'[u] = "write" /\ fd'[u] = i
        BY <1>1, <2>2, <2>3 DEF TypeTasks, TypeFiles
      <3> QED BY <3>1 DEF Filled
    <2>4. CASE data[i] = "whole" /\ i # j
      BY <1>1, <2>2, <2>4 DEF Filled, TypeFiles
    <2>5. ASSUME NEW t \in Tasks, pc[t] = "write", fd[t] = i PROVE Filled(i)'
      <3>1. pc'[t] = "write" /\ fd'[t] = i
        BY <1>1, <2>2, <2>5 DEF TypeTasks, TypeFiles
      <3> QED BY <3>1 DEF Filled
    <2> QED BY <2>3, <2>4, <2>5 DEF Filled
  <1>4. ASSUME NEW u \in Tasks, Writes(u) PROVE Filled(i)'
    <2>1. /\ data' = [data EXCEPT ![fd[u]] = "whole"] /\ fd' = fd
          /\ pc' = [pc EXCEPT ![u] = "rename"]
      BY <1>4 DEF Writes
    <2>2. CASE data[i] = "whole" \/ i = fd[u]
      BY <1>1, <2>1, <2>2 DEF Filled, TypeFiles
    <2>3. ASSUME NEW t \in Tasks, pc[t] = "write", fd[t] = i, i # fd[u]
          PROVE  Filled(i)'
      <3>1. pc'[t] = "write" /\ fd'[t] = i
        BY <1>1, <2>1, <2>3 DEF TypeTasks
      <3> QED BY <3>1 DEF Filled
    <2> QED BY <2>2, <2>3 DEF Filled
  <1>5. ASSUME NEW u \in Tasks, Renames(u) \/ Removes(u) PROVE Filled(i)'
    <2>1. data' = data /\ fd' = fd
      BY <1>5 DEF Renames, Removes
    <2>2. ASSUME NEW t \in Tasks, pc[t] = "write" PROVE pc'[t] = "write"
      BY <1>1, <1>5, <2>2 DEF Renames, Removes, TypeTasks
    <2> QED BY <2>1, <2>2 DEF Filled
  <1>6. ASSUME NEW u \in Tasks PROVE ~WritesPart(u)
    BY <1>1 DEF WritesPart
  <1> QED BY <1>2, <1>3, <1>4, <1>5, <1>6, FileStep

\* As long as nothing fails, every name leads to what is filled or being
\* filled.
LEMMA BeingWrittenStep ==
  ASSUME TypeOK, NamesSettled, BeingWritten, [Next]_vars
  PROVE  BeingWritten'
  <1> SUFFICES ASSUME NothingFailed', NEW c \in Contents
               PROVE  /\ (tmp[c] # Nobody => Filled(tmp[c]))'
                      /\ (final[c] # Nobody => Filled(final[c]))'
    BY DEF BeingWritten
  <1>1. TypeTasks /\ TypeFiles /\ NothingFailed
    BY TypeParts, NothingFailedBefore
  <1>2. \A i \in Tasks : Filled(i) => Filled(i)'
    BY FilledStays
  <1>3. /\ tmp[c] # Nobody => tmp[c] \in Tasks /\ Filled(tmp[c])
        /\ final[c] # Nobody => final[c] \in Tasks /\ Filled(final[c])
    BY <1>1 DEF BeingWritten, TypeFiles
  <1>4. ASSUME NEW i, i = tmp'[c], i # Nobody PROVE Filled(i)'
    <2>1. CASE i = tmp[c]
      BY <1>2, <1>3, <1>4, <2>1
    <2>2. ASSUME NEW u \in Tasks, Opens(u), c = Content(u) PROVE Filled(i)'
      <3>1. PICK j : j = Opened(u)
        OBVIOUS
      <3>2. tmp'[c] = j /\ fd'[u] = j /\ pc'[u] = "write"
        BY <1>1, <2>2, <3>1 DEF Opens, TypeFiles, TypeTasks
      <3> QED BY <1>4, <3>2 DEF Filled
    <2>3. i = tmp[c] \/ \E u \in Tasks : Opens(u) /\ c = Content(u)
      BY <1>1, <1>4, FileStep DEF Quiet, Opens, Writes, WritesPart, Renames, Removes,
                                  files, TypeFiles
    <2> QED BY <2>1, <2>2, <2>3
  <1>5. ASSUME NEW i, i = final'[c], i # Nobody PROVE Filled(i)'
    <2>1. i \in {final[c], tmp[c]}
      BY <1>1, <1>5, FileStep DEF Quiet, Opens, Writes, WritesPart, Renames, Removes,
                                  files, TypeFiles
    <2> QED BY <1>2, <1>3, <1>5, <2>1
  <1> QED BY <1>4, <1>5 DEF Filled

\* As long as nothing fails, a task of an unshared content leaves the rows
\* that its place calls for.
LEMMA RowsFollowTasksStep ==
  ASSUME TypeOK, WriterOwnsTmp, RowsFollowFiles, RowsFollowTasks, [Next]_vars
  PROVE  RowsFollowTasks'
  <1> SUFFICES ASSUME NothingFailed'
               PROVE  \A t \in Tasks :
      /\ t \in Sends /\ pc'[t] \notin {"putMedia", "putChat", "done"}
           => MsgOf[t] \notin msgRows'
      /\ t \in Downloads /\ pc'[t] # "idle" => MsgOf[t] \in msgRows'
      /\ Content(t) \notin shared' =>
           /\ pc'[t] # "remove"
           /\ pc'[t] = "putMessage" => path'[t]
           /\ pc'[t] \in {"putChat", "done"} /\ MsgOf[t] \in msgRows'
                => MsgOf[t] \in mediaRows'
    BY DEF RowsFollowTasks, Content
  <1>1. /\ TypeTasks /\ TypeFiles /\ TypeHistory /\ TypeRows
        /\ NothingFailed /\ failures' = 0 /\ crashes' = 0
    BY TypeParts, NothingFailedBefore
  <1>2. /\ shared \subseteq shared' /\ msgRows \subseteq msgRows'
        /\ mediaRows \subseteq mediaRows'
    BY <1>1, HistoryStep, RowsStep
  <1>3. ~Fails /\ ~Crash
    BY <1>1 DEF Fails, Crash, TypeHistory
  <1> TAKE t \in Tasks
  <1>5. pc'[t] # pc[t] => Task(t)
    BY <1>1, <1>3, OthersStay
  <1>6. ASSUME t \in Sends, pc'[t] \notin {"putMedia", "putChat", "done"}
        PROVE  MsgOf[t] \notin msgRows'
    <2>1. pc[t] \notin {"putMedia", "putChat", "done"}
      <3>1. CASE pc'[t] = pc[t]
        BY <1>6, <3>1
      <3>2. CASE Task(t)
        BY <1>1, <1>6, <3>2, TaskGoes DEF Task
      <3> QED BY <1>5, <3>1, <3>2
    <2>2. MsgOf[t] \notin msgRows
      BY <1>1, <1>6, <2>1 DEF RowsFollowTasks
    <2>3. ASSUME NEW u \in Tasks, MsgOf[u] = MsgOf[t], Incoming(u) \/ SendPutMessage(u)
          PROVE  FALSE
      <3>1. u = t
        BY <1>6, <2>3, MediaAssumption
      <3>2. SendPutMessage(t)
        BY <1>6, <2>3, <3>1, MediaAssumption DEF Incoming
      <3>3. pc'[t] \in {"putMedia", "putChat"}
        BY <1>1, <3>2, TaskGoes
      <3> QED BY <1>6, <3>3
    <2> QED BY <1>1, <2>2, <2>3, RowsStep
  <1>7. ASSUME t \in Downloads, pc'[t] # "idle" PROVE MsgOf[t] \in msgRows'
    <2>1. CASE pc[t] # "idle"
      BY <1>1, <1>2, <1>7, <2>1 DEF RowsFollowTasks
    <2>2. CASE pc[t] = "idle"
      <3>1. Task(t)
        BY <1>5, <1>7, <2>2
      <3>2. Incoming(t)
        BY <1>1, <1>7, <2>2, <3>1, TaskGoes, MediaAssumption DEF Task, SendMedia
      <3> QED BY <1>3, <3>2 DEF Incoming
    <2> QED BY <2>1, <2>2
  <1>8. ASSUME Content(t) \notin shared' PROVE pc'[t] # "remove"
    <2>1. Content(t) \notin shared /\ pc[t] # "remove"
      BY <1>1, <1>2, <1>8 DEF RowsFollowTasks
    <2>2. ASSUME pc'[t] = "remove" PROVE FALSE
      <3>1. Rename(t) /\ pc[t] = "rename"
        BY <1>1, <2>1, <2>2, Forward
      <3>2. tmp[Content(t)] # Nobody
        BY <2>1, <3>1 DEF WriterOwnsTmp
      <3>3. Returns(t, "rename", TRUE)
        BY <1>3, <3>1, <3>2, Zenon DEF Rename
      <3> QED BY <1>1, <2>2, <3>3 DEF Returns, TypeTasks
    <2> QED BY <2>2
  <1>9. ASSUME Content(t) \notin shared', pc'[t] = "putMessage" PROVE path'[t]
    <2>1. pc[t] # "remove" /\ (pc[t] = "putMessage" => path[t])
      BY <1>1, <1>2, <1>9 DEF RowsFollowTasks
    <2> QED BY <1>1, <1>9, <2>1, PathStep
  <1>10. ASSUME Content(t) \notin shared', pc'[t] \in {"putChat", "done"},
                MsgOf[t] \in msgRows'
         PROVE  MsgOf[t] \in mediaRows'
    <2>0. Content(t) \notin shared
      BY <1>2, <1>10
    <2>1. CASE pc[t] \in {"putChat", "done"}
      <3>1. MsgOf[t] \in msgRows
        <4>1. SUFFICES ASSUME MsgOf[t] \notin msgRows PROVE FALSE
          OBVIOUS
        <4>2. PICK u \in Tasks : MsgOf[t] = MsgOf[u] /\ (Incoming(u) \/ SendPutMessage(u))
          BY <1>1, <1>10, <4>1, RowsStep
        <4>3. CASE t \in Downloads
          BY <1>1, <2>1, <4>1, <4>3 DEF RowsFollowTasks
        <4>4. CASE t \in Sends
          <5>1. u = t
            BY <4>2, <4>4, MediaAssumption
          <5> QED BY <1>1, <2>1, <4>2, <5>1, TaskGoes
        <4> QED BY <4>3, <4>4 DEF Tasks
      <3> QED BY <1>1, <1>2, <2>0, <2>1, <3>1 DEF RowsFollowTasks
    <2>2. CASE pc[t] \notin {"putChat", "done"}
      <3>1. Task(t)
        BY <1>5, <1>10, <2>2
      <3>2. CASE PutMedia(t)
        <4>1. mediaRows' = mediaRows \cup {MsgOf[t]} \/ MsgOf[t] \notin msgRows
          BY <1>3, <3>2, Zenon DEF PutMedia
        <4>2. msgRows' = msgRows
          BY <3>2 DEF PutMedia
        <4> QED BY <1>10, <4>1, <4>2
      <3>3. CASE SendPutMessage(t)
        <4>1. path[t] /\ Goto(t, "putMessage", IF path[t] THEN "putMedia" ELSE "putChat")
          BY <1>1, <2>0, <3>3, TaskGoes DEF RowsFollowTasks, SendPutMessage
        <4>2. pc'[t] = "putMedia"
          BY <1>1, <4>1 DEF Goto, TypeTasks
        <4> QED BY <1>10, <4>2
      <3>4. ~Remove(t)
        BY <1>1, <2>0, TaskGoes DEF RowsFollowTasks
      <3>5. ~SendPutChat(t)
        BY <1>1, <2>2, TaskGoes
      <3>6. CASE Incoming(t) \/ Download(t) \/ SendMedia(t)
        <4>1. \/ Goto(t, "idle", "download") \/ Goto(t, "download", "stat")
              \/ Goto(t, "idle", "stat")
          BY <1>3, <3>6 DEF Incoming, Download, SendMedia
        <4> QED BY <1>1, <1>10, <4>1 DEF Goto, TypeTasks
      <3>7. CASE Stat(t) \/ Open(t) \/ Write(t) \/ Rename(t)
        <4>1. \/ Returns(t, "stat", TRUE) \/ Goto(t, "stat", "open")
              \/ Goto(t, "open", "write") \/ Goto(t, "write", "rename")
              \/ Returns(t, "rename", TRUE) \/ Goto(t, "rename", "remove")
          <5>1. Open(t) => Goto(t, "open", "write")
            BY <1>3 DEF Open
          <5>2. Write(t) => Goto(t, "write", "rename")
            BY <1>3 DEF Write
          <5> QED BY <3>7, <5>1, <5>2, WriteMoves, Zenon
        <4> QED BY <1>1, <1>10, <4>1 DEF Goto, Returns, TypeTasks
      <3> QED BY <3>1, <3>2, <3>3, <3>4, <3>5, <3>6, <3>7 DEF Task
    <2> QED BY <2>1, <2>2
  <1> QED BY <1>6, <1>7, <1>8, <1>9, <1>10

-----------------------------------------------------------------------------
(* What is promised of files and rows.                                     *)

\* The inductive invariant.
SafeInv ==
  /\ TypeOK /\ NamesSettled /\ OneWriter /\ WriterOwnsTmp
  /\ FinalSettled /\ ReaderSettled
  /\ RowsFollowFiles /\ BeingWritten /\ RowsFollowTasks

\* It holds when nothing was asked for yet.
LEMMA SafeInit == Init => SafeInv
  <1> SUFFICES ASSUME Init PROVE SafeInv
    OBVIOUS
  <1>1. TypeOK
    BY TypeInit
  <1>2. /\ \A c \in Contents : tmp[c] = Nobody /\ final[c] = Nobody
        /\ \A t \in Tasks : pc[t] = "idle" /\ fd[t] = Nobody /\ path[t] = FALSE
        /\ msgRows = {} /\ mediaRows = {} /\ asked = Nobody /\ open = Nobody
    BY DEF Init
  <1>3. \A t \in Tasks : Content(t) \in Contents /\ ~Writing(t)
    BY <1>2, HasContent DEF Writing
  <1>4. NamesSettled /\ OneWriter /\ WriterOwnsTmp
    BY <1>2, <1>3 DEF NamesSettled, OneWriter, WriterOwnsTmp
  <1>5. FinalSettled /\ ReaderSettled /\ BeingWritten
    BY <1>2 DEF FinalSettled, ReaderSettled, BeingWritten
  <1>6. RowsFollowFiles /\ RowsFollowTasks
    BY <1>2 DEF RowsFollowFiles, RowsFollowTasks
  <1> QED BY <1>1, <1>4, <1>5, <1>6 DEF SafeInv

\* Every step keeps it.
LEMMA SafeStep == SafeInv /\ [Next]_vars => SafeInv'
  <1> SUFFICES ASSUME SafeInv, [Next]_vars PROVE SafeInv'
    OBVIOUS
  <1>1. /\ TypeOK /\ NamesSettled /\ OneWriter /\ WriterOwnsTmp
        /\ FinalSettled /\ ReaderSettled
        /\ RowsFollowFiles /\ BeingWritten /\ RowsFollowTasks
    BY DEF SafeInv
  <1>2. TypeOK' /\ NamesSettled' /\ OneWriter' /\ WriterOwnsTmp'
    BY <1>1, TypeStep, NamesStep, OneWriterStep, OwnsStep
  <1>3. FinalSettled' /\ ReaderSettled' /\ RowsFollowFiles'
    BY <1>1, FinalStep, ReaderSettledStep, RowsFollowFilesStep
  <1>4. BeingWritten' /\ RowsFollowTasks'
    BY <1>1, BeingWrittenStep, RowsFollowTasksStep
  <1> QED BY <1>2, <1>3, <1>4 DEF SafeInv

\* It holds throughout.
LEMMA Safe == Spec => []SafeInv
  BY SafeInit, SafeStep, PTL DEF Spec

\* A file under its final name is whole, through full disks, failing renames
\* and crashes, as long as its content never had two writers at once, for any
\* number of tasks, messages, contents, failures and crashes.
THEOREM MediaWhole == Spec => []WholeUnlessShared
  <1>1. SafeInv => WholeUnlessShared
    BY DEF SafeInv, FinalSettled, Settled, WholeUnlessShared
  <1> QED BY Safe, <1>1, PTL

\* A media row always names a file that is there, also where writers of one
\* content race, since Write returns a path only for a final name.
THEOREM MediaRowsHaveFiles == Spec => []RowsHaveFiles
  <1>1. SafeInv => RowsHaveFiles
    BY DEF SafeInv, RowsFollowFiles, RowsHaveFiles
  <1> QED BY Safe, <1>1, PTL

\* Writers that raced leave a whole file once all of them are done, where
\* nothing failed: the last open to empty the inode is followed by a write.
THEOREM MediaSharingHeals == Spec => []SharingHeals
  <1>1. SafeInv => SharingHeals
    <2> SUFFICES ASSUME SafeInv, NothingFailed, NEW c \in Contents,
                        \A t \in Tasks : Content(t) = c => ~Writing(t),
                        final[c] # Nobody
                 PROVE  data[final[c]] = "whole"
      BY DEF SharingHeals, NothingFailed
    <2>1. Filled(final[c]) /\ InodeOf(final[c], c)
      BY DEF SafeInv, BeingWritten, NamesSettled
    <2>2. ASSUME NEW t \in Tasks, pc[t] = "write", fd[t] = final[c] PROVE FALSE
      <3>1. final[c] # Nobody /\ InodeOf(fd[t], Content(t))
        BY <2>2 DEF SafeInv, NamesSettled
      <3>2. Content(t) = c
        BY <2>1, <2>2, <3>1 DEF InodeOf
      <3> QED BY <2>2, <3>2 DEF Writing
    <2> QED BY <2>1, <2>2 DEF Filled
  <1> QED BY Safe, <1>1, PTL

\* Where nothing failed, a task that is over has left the media row of a
\* message that was stored.
THEOREM MediaListed == Spec => []MediaIsListed
  <1>1. SafeInv => MediaIsListed
    BY DEF SafeInv, RowsFollowTasks, NothingFailed, MediaIsListed
  <1> QED BY Safe, <1>1, PTL

\* GET answers with the whole of a stored message's media or with 404, also
\* when the file is replaced between its open and its copy.
THEOREM MediaReadersSeeWhole == Spec => ReadersSeeWhole
  <1> DEFINE Seen == \/ served' \in {"404", "whole"}
                     \/ asked # Nobody /\ ContentOf[asked] \in shared
  <1>1. ASSUME SafeInv, [Next]_vars, served' # served PROVE Seen
    <2>1. TypeReader /\ TypeRows
      BY <1>1, TypeParts DEF SafeInv
    <2>2. CASE served' = "404"
      BY <2>2
    <2>3. CASE GetOpen
      <3>1. final[ContentOf[asked]] # Nobody
        BY <1>1, <2>3 DEF SafeInv, RowsFollowFiles, GetOpen
      <3> QED BY <1>1, <2>3, <3>1 DEF GetOpen
    <2>4. CASE GetCopy
      <3>1. open # Nobody /\ asked # Nobody /\ served' = data[open]
        BY <1>1, <2>4 DEF SafeInv, NamesSettled, GetCopy
      <3> QED BY <1>1, <3>1 DEF SafeInv, ReaderSettled, Settled
    <2> QED BY <1>1, <2>2, <2>3, <2>4, ReaderStep DEF reader
  <1>2. SafeInv /\ [Next]_vars => [served' # served => Seen]_vars
    BY <1>1
  <1> QED BY Safe, <1>2, PTL DEF Spec, ReadersSeeWhole

=============================================================================
