------------------------------ MODULE Pairing ------------------------------
(***************************************************************************)
(* What pairing promises, without channels, goroutines or handlers: one    *)
(* login at a time, which shows codes, then at most one outcome, and only  *)
(* a login during which the account was linked ends in success.            *)
(***************************************************************************)
EXTENDS Naturals, Sequences

CONSTANTS Logins, NoLogin

VARIABLES
  holder,  \* the login in progress
  shown,   \* per login: codes, and perhaps an outcome
  over,    \* the logins that have ended
  linkedIn \* the logins during which the account was linked

pairingVars == <<holder, shown, over, linkedIn>>

Ends == {"success", "timeout", "error", "cancelled"}

Ended(l) == \E i \in DOMAIN shown[l] : shown[l][i] \in Ends

PairingInit ==
  /\ holder = NoLogin /\ shown = [l \in Logins |-> <<>>]
  /\ over = {} /\ linkedIn = {}

Take(l) ==
  /\ holder = NoLogin /\ l \notin over
  /\ holder' = l
  /\ UNCHANGED <<shown, over, linkedIn>>

Link(l) ==
  /\ holder = l
  /\ linkedIn' = linkedIn \cup {l}
  /\ UNCHANGED <<holder, shown, over>>

Show(l) ==
  /\ holder = l /\ ~Ended(l)
  /\ shown' = [shown EXCEPT ![l] = Append(@, "code")]
  /\ UNCHANGED <<holder, over, linkedIn>>

Finish(l, o) ==
  /\ holder = l /\ ~Ended(l)
  /\ o = "success" => l \in linkedIn
  /\ shown' = [shown EXCEPT ![l] = Append(@, o)]
  /\ UNCHANGED <<holder, over, linkedIn>>

\* The login in progress makes room for another.
Free(l) ==
  /\ holder = l
  /\ holder' = NoLogin
  /\ over' = over \cup {l}
  /\ UNCHANGED <<shown, linkedIn>>

\* A login is refused: its turn never comes.
Refuse(l) ==
  /\ holder # l
  /\ over' = over \cup {l}
  /\ UNCHANGED <<holder, shown, linkedIn>>

\* The daemon dies: every login it had begun is over.
Die(ls) ==
  /\ holder' = NoLogin
  /\ over' = over \cup ls
  /\ UNCHANGED <<shown, linkedIn>>

PairingNext ==
  \/ \E l \in Logins : Take(l) \/ Link(l) \/ Show(l) \/ Free(l) \/ Refuse(l)
  \/ \E l \in Logins, o \in Ends : Finish(l, o)
  \/ \E ls \in SUBSET Logins : Die(ls)

PairingSpec == PairingInit /\ [][PairingNext]_pairingVars
=============================================================================
