----------------------------- MODULE EventFeed -----------------------------
(***************************************************************************)
(* What GET /v1/events promises its consumers, with none of the machinery: *)
(* a growing log and, per client, the position up to which it has read.    *)
(* A client moves to the next event of the log, never over one; the only   *)
(* way back is to read the log again from the start.                       *)
(***************************************************************************)
EXTENDS Naturals

CONSTANTS Clients, MaxSeq

VARIABLES
  log,    \* the events logged so far
  pos,    \* per client: the last event it has read, 0 for none
  read    \* per client: the events it has ever received

feedVars == <<log, pos, read>>

FeedInit ==
  /\ log = {}
  /\ pos = [c \in Clients |-> 0]
  /\ read = [c \in Clients |-> {}]

\* An event enters the log behind every other.
Record(n) ==
  /\ \A m \in log : m < n
  /\ log' = log \cup {n}
  /\ UNCHANGED <<pos, read>>

\* The client receives the event that follows the last one it has.
Receive(c, n) ==
  /\ n \in log
  /\ pos[c] < n
  /\ \A m \in log : ~(pos[c] < m /\ m < n)
  /\ pos' = [pos EXCEPT ![c] = n]
  /\ read' = [read EXCEPT ![c] = @ \cup {n}]
  /\ UNCHANGED log

\* Clients start over: their next connection replays the whole log.
Rewind(C) ==
  /\ pos' = [c \in Clients |-> IF c \in C THEN 0 ELSE pos[c]]
  /\ UNCHANGED <<log, read>>

FeedNext ==
  \/ \E n \in 1..MaxSeq : Record(n)
  \/ \E c \in Clients, n \in log : Receive(c, n)
  \/ \E C \in SUBSET Clients : Rewind(C)

FeedSpec == FeedInit /\ [][FeedNext]_feedVars
=============================================================================
