-------------------------- MODULE MCPeerSecurity --------------------------
(* Instances of PeerSecurity for TLC: alice and bob, or carol as well. *)
EXTENDS PeerSecurity, TLC

CONSTANTS alice, bob, carol

Two   == {alice, bob}
Three == {alice, bob, carol}

\* bob supports only the weaker of the two pairs alice is configured with
Unequal == (alice :> {1, 2}) @@ (bob :> {1})
OnePair == [n \in Node |-> {1}]

\* alice and bob may draw the same priority
Ties == (alice :> {1, 2}) @@ (bob :> {2})
\* carol wins every arbitration and alice loses every one
NoTies == [n \in Node |-> IF n = alice THEN {1} ELSE IF n = bob THEN {2} ELSE {3}]

SameUptime == [n \in Node |-> 0]
\* bob's host was started long before alice's
LongUptime == (alice :> 0) @@ (bob :> 9)
=============================================================================
