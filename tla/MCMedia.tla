------------------------------ MODULE MCMedia ------------------------------
(* Instances of Media for TLC: message m1 comes twice, and m2 is sent with *)
(* the same bytes.                                                         *)
EXTENDS Media, TLC

CONSTANTS d1, d2, s2, m1, m2

TwoDownloads == {d1, d2}
OneSend      == {s2}

SameBytes == (d1 :> m1) @@ (d2 :> m1) @@ (s2 :> m2)
Bytes     == (m1 :> "a") @@ (m2 :> "a")

=============================================================================
