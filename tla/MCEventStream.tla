--------------------------- MODULE MCEventStream ---------------------------
(* Instances of EventStream for TLC.                                       *)
EXTENDS EventStream, TLC

CONSTANTS e1, e2, c1, c2

OneEmitter  == {e1}
TwoEmitters == {e1, e2}
OneClient   == {c1}
TwoClients  == {c1, c2}

\* Emitters and clients are interchangeable in every definition.
Symmetry == Permutations(Emitters) \cup Permutations(Clients)

=============================================================================
