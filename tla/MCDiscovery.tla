----------------------------- MODULE MCDiscovery -----------------------------
(* Small instances of Discovery for TLC. *)
EXTENDS Discovery

CONSTANTS alice, bob, a1, a2, b1

Two      == {alice, bob}
Ids      == {a1, a2, b1}
Own      == [n \in Node |-> IF n = alice THEN {a1, a2} ELSE {b1}]
OnlyBob  == {<<bob, "u">>}
AliceOperates ==
  [n \in Node |-> IF n = alice THEN EnvironmentKinds \ {"stop"}
                 ELSE {"ports", "identities", "stop", "lose", "message"}]
=============================================================================
