------------------------------ MODULE Mailbox ------------------------------
(***************************************************************************)
(* What a reader of the API sees of the messages peers send: a message     *)
(* appears, its text is replaced by later edits, it is removed for good.   *)
(***************************************************************************)
EXTENDS Naturals

CONSTANTS Theirs, MaxEdits

VARIABLES
  posted,   \* the messages that have appeared
  text,     \* per message: which edit of it is shown
  removed   \* the messages that were revoked

mailVars == <<posted, text, removed>>

MailboxInit ==
  /\ posted = {}
  /\ text = [m \in Theirs |-> 0]
  /\ removed = {}

Post(m) ==
  /\ m \notin posted
  /\ posted' = posted \cup {m}
  /\ UNCHANGED <<text, removed>>

\* An edit that was lost on the way is skipped over.
Change(m) ==
  /\ m \in posted
  /\ \E n \in (text[m] + 1)..MaxEdits : text' = [text EXCEPT ![m] = n]
  /\ UNCHANGED <<posted, removed>>

Remove(m) ==
  /\ m \in posted
  /\ removed' = removed \cup {m}
  /\ UNCHANGED <<posted, text>>

MailboxNext == \E m \in Theirs : Post(m) \/ Change(m) \/ Remove(m)

MailboxSpec == MailboxInit /\ [][MailboxNext]_mailVars
=============================================================================
