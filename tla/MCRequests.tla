----------------------------- MODULE MCRequests -----------------------------
(***************************************************************************)
(* A message of ours and two of a peer in one chat, a second chat that a   *)
(* request may create, pages of one row.                                   *)
(***************************************************************************)
EXTENDS Requests

CONSTANTS o1, p1, p2

ThreeMsgs == {o1, p1, p2}
OneOurs   == {o1}
TwoChats  == {1, 2}
InFirst   == [m \in ThreeMsgs |-> 1]
=============================================================================
