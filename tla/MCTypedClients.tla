--------------------------- MODULE MCTypedClients ---------------------------
(* Small instances of TypedClients for TLC. *)
EXTENDS TypedClients

CONSTANTS a, b, c1, c2

OneName == {a}
TwoNames == {a, b}
OneConsumer == {c1}

=============================================================================
