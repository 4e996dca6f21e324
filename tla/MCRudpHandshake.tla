--------------------------- MODULE MCRudpHandshake ---------------------------
(* Instances of RudpHandshake for model checking.                           *)
EXTENDS RudpHandshake

CONSTANTS a, b, c

TwoClients == {a, b}
ThreeClients == {a, b, c}

DuplicationOnly == {"dup"}
=============================================================================
