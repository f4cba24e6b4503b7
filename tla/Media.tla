------------------------------- MODULE Media -------------------------------
(***************************************************************************)
(* Media files: the download goroutine of an incoming message and          *)
(* SendMedia, both of which call mediastore.Write, and GET /v1/media.      *)
(*                                                                         *)
(* A content stands for bytes with their MIME type, which together name a  *)
(* final path and the one ".tmp" path beside it.  Names lead to inodes: a  *)
(* rename moves a name, and a goroutine goes on writing to what it opened. *)
(* An inode is called after the task whose open created it, and holds      *)
(* nothing, a part of the content, or the whole.                           *)
(***************************************************************************)
EXTENDS Naturals

CONSTANTS
  Downloads,   \* incoming messages handed over, with media
  Sends,       \* calls of SendMedia
  Nobody,      \* no inode, no message
  MsgOf,       \* the message of each task; redelivery repeats one
  ContentOf,   \* the content of each message
  MaxFailures, \* bound: downloads, files, statements and sends that fail
  MaxCrashes   \* bound: crashes of the daemon

Tasks    == Downloads \cup Sends
Msgs     == {MsgOf[t] : t \in Tasks}
Contents == {ContentOf[m] : m \in Msgs}

\* WhatsApp gives what is sent an id of its own, and the adapter drops the
\* echo, so that no other task is about a message that is sent.
ASSUME MediaAssumption ==
  /\ Nobody \notin Tasks \cup Msgs
  /\ Downloads \cap Sends = {}
  /\ \A s \in Sends, t \in Tasks : MsgOf[s] = MsgOf[t] => s = t
  /\ MaxFailures \in Nat /\ MaxCrashes \in Nat

VARIABLES
  chatRow,    \* chats: the chat of what is sent has a row
  msgRows,    \* messages: the rows there are
  mediaRows,  \* media: the rows there are
  tmp, final, \* the inode behind each content's ".tmp" and final name
  data,       \* what each inode holds
  fd,         \* per task: the inode it has open
  pc,         \* per task: where it is
  path,       \* per task: Write returned a path
  answer,     \* per send: its HTTP status
  asked,      \* GET: the message it asks for
  open,       \* GET: the inode it has open
  served,     \* GET: the last answer, a status, or what the body held
  shared,     \* history: contents that had two writers at once
  failures, crashes

tables  == <<chatRow, msgRows, mediaRows>>
files   == <<tmp, final, data, fd>>
tasks   == <<pc, path, answer>>
reader  == <<asked, open, served>>
history == <<shared, crashes>>
vars == <<chatRow, msgRows, mediaRows, tmp, final, data, fd, pc, path, answer,
          asked, open, served, shared, failures, crashes>>

Content(t) == ContentOf[MsgOf[t]]

Init ==
  /\ chatRow \in BOOLEAN /\ msgRows = {} /\ mediaRows = {}
  /\ tmp = [c \in Contents |-> Nobody] /\ final = [c \in Contents |-> Nobody]
  /\ data = [t \in Tasks |-> "nothing"] /\ fd = [t \in Tasks |-> Nobody]
  /\ pc = [t \in Tasks |-> "idle"] /\ path = [t \in Tasks |-> FALSE]
  /\ answer = [t \in Sends |-> 0]
  /\ asked = Nobody /\ open = Nobody /\ served = "none"
  /\ shared = {} /\ failures = 0 /\ crashes = 0

-----------------------------------------------------------------------------
Works == UNCHANGED failures
Fails == failures < MaxFailures /\ failures' = failures + 1

Goto(t, from, to) == pc[t] = from /\ pc' = [pc EXCEPT ![t] = to]

Writing(t) == pc[t] \in {"open", "write", "rename", "remove"}

-----------------------------------------------------------------------------
(* mediastore.Write.                                                       *)

\* Where the caller goes on: with a path, or without.
Returns(t, from, ok) ==
  /\ path' = [path EXCEPT ![t] = ok]
  /\ pc[t] = from
  /\ pc' = [pc EXCEPT ![t] = IF t \in Sends THEN "putMessage"
                             ELSE IF ok THEN "putMedia" ELSE "done"]

There(c) == final[c] # Nobody /\ data[final[c]] = "whole"

\* Fault: a file that is there already is a reason to leave without a path.
StatReturns(t) ==
  /\ Works
  /\ IF There(Content(t))
       THEN Returns(t, "stat", FALSE) /\ UNCHANGED shared
       ELSE Goto(t, "stat", "open") /\ UNCHANGED <<path, shared>>
  /\ UNCHANGED <<tables, files, answer, reader, crashes>>

\* os.Stat: a file of the right size is taken for the content.
Stat(t) ==
  /\ Works
  /\ IF There(Content(t))
       THEN Returns(t, "stat", TRUE) /\ UNCHANGED shared
       ELSE /\ Goto(t, "stat", "open") /\ UNCHANGED path
            /\ shared' = IF \E u \in Tasks : Writing(u) /\ Content(u) = Content(t)
                           THEN shared \cup {Content(t)} ELSE shared
  /\ UNCHANGED <<tables, files, answer, reader, crashes>>

\* After MkdirAll, os.WriteFile opens with O_CREATE and O_TRUNC: a file of
\* that name, also another writer's, is emptied and written to.
Open(t) ==
  LET i == IF tmp[Content(t)] = Nobody THEN t ELSE tmp[Content(t)] IN
  /\ \/ /\ Works
        /\ Goto(t, "open", "write")
        /\ tmp' = [tmp EXCEPT ![Content(t)] = i]
        /\ data' = [data EXCEPT ![i] = "nothing"]
        /\ fd' = [fd EXCEPT ![t] = i]
        /\ UNCHANGED path
     \/ Fails /\ Returns(t, "open", FALSE) /\ UNCHANGED <<tmp, data, fd>>
  /\ UNCHANGED <<tables, final, answer, reader, history>>

\* A full disk leaves a part of the bytes, or those another writer put there.
Short(d) == IF d = "whole" THEN "whole" ELSE "part"

\* Fault: a short write is not noticed.
WriteUnchecked(t) ==
  /\ Goto(t, "write", "rename")
  /\ \/ Works /\ data' = [data EXCEPT ![fd[t]] = "whole"]
     \/ Fails /\ data' = [data EXCEPT ![fd[t]] = Short(@)]
  /\ UNCHANGED <<tables, tmp, final, fd, path, answer, reader, history>>

\* Fault: nothing is written when the file is there by now.
WriteUnlessThere(t) ==
  /\ Goto(t, "write", "rename")
  /\ Works
  /\ data' = IF There(Content(t)) THEN data ELSE [data EXCEPT ![fd[t]] = "whole"]
  /\ UNCHANGED <<tables, tmp, final, fd, path, answer, reader, history>>

\* The bytes, to the inode it opened.
Write(t) ==
  /\ \/ Works /\ Goto(t, "write", "rename") /\ data' = [data EXCEPT ![fd[t]] = "whole"]
        /\ UNCHANGED path
     \/ Fails /\ Returns(t, "write", FALSE) /\ data' = [data EXCEPT ![fd[t]] = Short(@)]
  /\ UNCHANGED <<tables, tmp, final, fd, answer, reader, history>>

\* os.Rename: whatever the temporary name now stands for.
Rename(t) ==
  /\ \/ /\ tmp[Content(t)] # Nobody
        /\ Works
        /\ final' = [final EXCEPT ![Content(t)] = tmp[Content(t)]]
        /\ tmp' = [tmp EXCEPT ![Content(t)] = Nobody]
        /\ Returns(t, "rename", TRUE)
     \/ /\ Fails \/ (Works /\ tmp[Content(t)] = Nobody)
        /\ Goto(t, "rename", "remove")
        /\ UNCHANGED <<tmp, final, path>>
  /\ UNCHANGED <<tables, data, fd, answer, reader, history>>

\* Fault: the final name is removed with the temporary one.
RemoveBoth(t) ==
  /\ Works
  /\ tmp' = [tmp EXCEPT ![Content(t)] = Nobody]
  /\ final' = [final EXCEPT ![Content(t)] = Nobody]
  /\ Returns(t, "remove", FALSE)
  /\ UNCHANGED <<tables, data, fd, answer, reader, history>>

\* os.Remove after a failed rename, also of another writer's file.
Remove(t) ==
  /\ Works
  /\ tmp' = [tmp EXCEPT ![Content(t)] = Nobody]
  /\ Returns(t, "remove", FALSE)
  /\ UNCHANGED <<tables, final, data, fd, answer, reader, history>>

-----------------------------------------------------------------------------
(* handleIncoming and downloadAndPersistMedia.                             *)

\* The message row and, only if it was stored, the goroutine.
Incoming(t) ==
  /\ t \in Downloads
  /\ \/ Works /\ Goto(t, "idle", "download") /\ msgRows' = msgRows \cup {MsgOf[t]}
     \/ Fails /\ Goto(t, "idle", "done") /\ UNCHANGED msgRows
  /\ UNCHANGED <<chatRow, mediaRows, files, path, answer, reader, history>>

Download(t) ==
  /\ \/ Works /\ Goto(t, "download", "stat")
     \/ Fails /\ Goto(t, "download", "done")
  /\ UNCHANGED <<tables, files, path, answer, reader, history>>

-----------------------------------------------------------------------------
(* SendMedia, from the handler or the tool.                                *)

Answer(t, s) == answer' = [answer EXCEPT ![t] = s]

\* Validation answers 400, a missing connection 409, a failed upload or
\* send 500.
SendMedia(t) ==
  /\ t \in Sends
  /\ \/ Works /\ Goto(t, "idle", "stat") /\ UNCHANGED answer
     \/ /\ \E s \in {400, 409, 500} : Answer(t, s)
        /\ Fails /\ Goto(t, "idle", "done")
  /\ UNCHANGED <<tables, files, path, reader, history>>

\* The message row needs the row of its chat.  The media row is for a path.
SendPutMessage(t) ==
  /\ \/ Works /\ chatRow /\ msgRows' = msgRows \cup {MsgOf[t]}
     \/ Works /\ ~chatRow /\ UNCHANGED msgRows
     \/ Fails /\ UNCHANGED msgRows
  /\ Goto(t, "putMessage", IF path[t] THEN "putMedia" ELSE "putChat")
  /\ UNCHANGED <<chatRow, mediaRows, files, path, answer, reader, history>>

\* Chats.Get and Put; the answer is 201 whatever the stores said.
SendPutChat(t) ==
  /\ Goto(t, "putChat", "done")
  /\ \/ Works /\ chatRow' = TRUE
     \/ Fails /\ UNCHANGED chatRow
  /\ Answer(t, 201)
  /\ UNCHANGED <<msgRows, mediaRows, files, path, reader, history>>

\* Fault: the table has no foreign key.
PutMediaAlways(t) ==
  /\ Goto(t, "putMedia", IF t \in Sends THEN "putChat" ELSE "done")
  /\ \/ Works /\ mediaRows' = mediaRows \cup {MsgOf[t]}
     \/ Fails /\ UNCHANGED mediaRows
  /\ UNCHANGED <<chatRow, msgRows, files, path, answer, reader, history>>

\* MediaStore.Put, for which the row of the message must be there.
PutMedia(t) ==
  /\ Goto(t, "putMedia", IF t \in Sends THEN "putChat" ELSE "done")
  /\ \/ Works /\ MsgOf[t] \in msgRows /\ mediaRows' = mediaRows \cup {MsgOf[t]}
     \/ Works /\ MsgOf[t] \notin msgRows /\ UNCHANGED mediaRows
     \/ Fails /\ UNCHANGED mediaRows
  /\ UNCHANGED <<chatRow, msgRows, files, path, answer, reader, history>>

-----------------------------------------------------------------------------
(* GetMediaHandler.                                                        *)

\* GetMediaRef: 404 without a row.
Get(m) ==
  /\ asked = Nobody
  /\ \/ m \in mediaRows /\ asked' = m /\ UNCHANGED served
     \/ m \notin mediaRows /\ served' = "404" /\ UNCHANGED asked
  /\ UNCHANGED <<tables, files, tasks, open, history, failures>>

GetOpen ==
  /\ asked # Nobody /\ open = Nobody
  /\ IF final[ContentOf[asked]] = Nobody
       THEN served' = "500" /\ asked' = Nobody /\ UNCHANGED open
       ELSE open' = final[ContentOf[asked]] /\ UNCHANGED <<asked, served>>
  /\ UNCHANGED <<tables, files, tasks, history, failures>>

\* io.Copy under a Content-Length taken from the row.
GetCopy ==
  /\ open # Nobody
  /\ served' = data[open]
  /\ asked' = Nobody /\ open' = Nobody
  /\ UNCHANGED <<tables, files, tasks, history, failures>>

-----------------------------------------------------------------------------
\* The process dies: files and rows stay, tasks and requests do not.
Crash ==
  /\ crashes < MaxCrashes /\ crashes' = crashes + 1
  /\ pc' = [t \in Tasks |-> IF pc[t] = "idle" THEN "idle" ELSE "done"]
  /\ asked' = Nobody /\ open' = Nobody
  /\ UNCHANGED <<tables, files, path, answer, served, shared, failures>>

Task(t) ==
  \/ Incoming(t) \/ Download(t)
  \/ SendMedia(t) \/ SendPutMessage(t) \/ SendPutChat(t)
  \/ Stat(t) \/ Open(t) \/ Write(t) \/ Rename(t) \/ Remove(t)
  \/ PutMedia(t)

Reader == (\E m \in Msgs : Get(m)) \/ GetOpen \/ GetCopy

Next == (\E t \in Tasks : Task(t)) \/ Reader \/ Crash

Spec == Init /\ [][Next]_vars

-----------------------------------------------------------------------------
(* Correctness.                                                            *)

\* Every variable holds values of its type.
TypeOK ==
  /\ chatRow \in BOOLEAN /\ msgRows \subseteq Msgs /\ mediaRows \subseteq msgRows
  /\ tmp \in [Contents -> Tasks \cup {Nobody}]
  /\ final \in [Contents -> Tasks \cup {Nobody}]
  /\ data \in [Tasks -> {"nothing", "part", "whole"}]
  /\ fd \in [Tasks -> Tasks \cup {Nobody}]
  /\ pc \in [Tasks -> {"idle", "download", "stat", "open", "write", "rename",
                       "remove", "putMessage", "putMedia", "putChat", "done"}]
  /\ path \in [Tasks -> BOOLEAN]
  /\ answer \in [Sends -> {0, 201, 400, 409, 500}]
  /\ asked \in Msgs \cup {Nobody} /\ open \in Tasks \cup {Nobody}
  /\ served \in {"none", "404", "500", "nothing", "part", "whole"}
  /\ shared \subseteq Contents
  /\ failures \in Nat /\ crashes \in Nat

\* A file under its final name is whole, through full disks, failing renames
\* and crashes that leave a part of it under the temporary name, unless two
\* writers of the content were at work at once.
WholeUnlessShared ==
  \A c \in Contents \ shared :
    final[c] # Nobody => data[final[c]] = "whole"

\* Every media row has a file under the path it names, also when writers
\* were at work at once and removed each other's files.
RowsHaveFiles == \A m \in mediaRows : final[ContentOf[m]] # Nobody

\* GET answers a stored message with the whole of its media, also while the
\* file is written again; otherwise only with 404.
ReadersSeeWhole ==
  [][served' # served =>
       \/ served' \in {"404", "whole"}
       \/ asked # Nobody /\ ContentOf[asked] \in shared]_vars

\* Writers that were at work at once leave a whole file when the last is
\* done, provided nothing failed.
SharingHeals ==
  failures = 0 /\ crashes = 0 =>
    \A c \in Contents :
      (\A t \in Tasks : Content(t) = c => ~Writing(t)) =>
        (final[c] # Nobody => data[final[c]] = "whole")

\* Where nothing went wrong, a task that is over has left the media row of
\* every message that was stored; a send whose chat had no row stores neither.
MediaIsListed ==
  failures = 0 /\ crashes = 0 =>
    \A t \in Tasks :
      pc[t] = "done" /\ MsgOf[t] \in msgRows /\ Content(t) \notin shared =>
        MsgOf[t] \in mediaRows

\* mediastore.go:26: Write "atomically writes the file via a .tmp sibling +
\* rename".
FilesAreWhole ==
  \A c \in Contents : final[c] # Nobody => data[final[c]] = "whole"

=============================================================================
