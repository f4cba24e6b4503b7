------------------------------ MODULE MCDaemon ------------------------------
(* Instances of Daemon, with the session and its logins, for TLC.          *)
EXTENDS Daemon, TLC

CONSTANTS l1, l2, c1

OneLoginOnly == {l1}
TwoLogins    == {l1, l2}
SameLogins   == Permutations(TwoLogins)

NoClients    == {}
OneClient    == {c1}

=============================================================================
