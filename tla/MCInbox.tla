------------------------------ MODULE MCInbox ------------------------------
(* Instances of Inbox for TLC.  Message t1 and ours o1 are in chat k; t2   *)
(* is in chat k too, or in the group g that has yet to be created.         *)
EXTENDS Inbox, TLC

CONSTANTS k, g, t1, t2, o1, o2, w1, w2

OneChat    == {k}
OneGroup   == {g}
None       == {}
OneTheirs  == {t1}
TwoTheirs  == {t1, t2}
OneOurs    == {o1}
TwoOurs    == {o1, o2}
OneWorker  == {w1}
TwoWorkers == {w1, w2}

AllInChat   == [m \in Msgs |-> k]
SomeInGroup == [m \in Msgs |-> IF m = t2 THEN g ELSE k]

=============================================================================
