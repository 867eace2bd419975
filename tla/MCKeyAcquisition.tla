-------------------------- MODULE MCKeyAcquisition --------------------------
(* Small instances of KeyAcquisition for TLC. *)
EXTENDS KeyAcquisition

CONSTANTS bob, carol

Bob  == {bob}
Both == {bob, carol}

AnyEvent == [p \in Peer |-> EnvironmentKinds]

Busy ==
  [p \in Peer |->
     IF p = bob
     THEN {"cross", "forget", "stranger", "leave", "duplicate", "late"}
     ELSE {"expire", "forget", "leave", "late"}]

Silent   == [p \in Peer |-> {"silent"}]
Stranger == [p \in Peer |-> {"stranger", "expire"}]
Refusing == [p \in Peer |-> {"refuse"}]
Crossing == [p \in Peer |-> {"cross"}]
=============================================================================
