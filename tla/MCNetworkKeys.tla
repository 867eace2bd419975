---------------------------- MODULE MCNetworkKeys ----------------------------
(* Small instances of NetworkKeys for TLC. *)
EXTENDS NetworkKeys

CONSTANTS alice, bob, carol

Two    == {alice, bob}
Three  == {alice, bob, carol}
Alice  == {alice}
Both   == {alice, bob}

Draws      == [n \in Node |-> IF n = alice THEN {1, 3} ELSE {2}]
EqualDraws == [n \in Node |-> {1}]
SameUptime == [n \in Node |-> 0]
LongUptime == [n \in Node |-> IF n = bob THEN 2 ELSE 0]
=============================================================================
