--------------------------- MODULE DiscoveryProofs ---------------------------
(***************************************************************************)
(* Proofs about Discovery, for every overlay and configuration.            *)
(*                                                                         *)
(* The inductive invariant has a part for each node (NodeInv): the beacons *)
(* are those the configuration asks for, the timers those of the beacons,  *)
(* and a peer is never idle for longer than what is left until the next    *)
(* check allows.  Punctual relates two nodes: until the next beacon of one *)
(* is due, the other has heard of it recently enough.                      *)
(***************************************************************************)
EXTENDS Discovery, SequenceTheorems, TLAPS

StaticBounded(s) == \A a \in Target : s.static[a] <= MaxStatic

BeaconsRight(s) == s.beacons = Wanted(s)

TimersRight(s) ==
  /\ \A t \in s.timers : t.beacon \in s.beacons /\ t.left <= t.beacon.every
  /\ \A b \in s.beacons : \E t \in s.timers : t.beacon = b
  /\ \A t, u \in s.timers : t.beacon = u.beacon => t = u

SelectedRight(s) ==
  IF s.ids = <<>> THEN s.self = None ELSE Contains(s.ids, s.self)

(* Until the next check a peer can only grow older by what is left of it.  *)
CheckedInTime(s) ==
  /\ s.check <= Check
  /\ \A i \in NodeId :
       s.peers[i] # None => s.peers[i].idle + s.check <= Timeout + Check

NodeInv(s) ==
  /\ s \in State
  /\ StaticBounded(s) /\ BeaconsRight(s) /\ TimersRight(s)
  /\ SelectedRight(s) /\ CheckedInTime(s)

(* A node in state r that can hear the beacon of timer t of a node in      *)
(* state s: it has not been quiet for an interval yet, or the peer in r is *)
(* not older than the interval will be when the timer fires.               *)
Heard(q, t, s, r) ==
  \/ q + t.left <= s.every
  \/ r.peers[s.self] # None /\ r.peers[s.self].idle + t.left <= s.every

Punctual ==
  \A n, m \in Node : \A t \in node[n].timers :
    node[n].up /\ node[n].self # None /\ m \in Hearers(t.beacon.to)
               /\ node[n].every <= Timeout
      => Heard(quiet, t, node[n], node[m])

IInv == TypeOK /\ (\A n \in Node : NodeInv(node[n])) /\ Punctual

-----------------------------------------------------------------------------
(* Beacons and their timers.                                               *)

LEMMA IntervalIsPositive == \A e \in Interval : e \in Nat /\ e > 0
  BY ConstantsAssumption

(* Beacons that are new get one timer each.                                *)
LEMMA AddBeaconsTimers ==
  ASSUME NEW s \in State, TimersRight(s),
         NEW bs \in SUBSET Beacon, bs \cap s.beacons = {}
  PROVE  /\ AddBeacons(s, bs) \in State
         /\ TimersRight(AddBeacons(s, bs))
         /\ AddBeacons(s, bs) = [s EXCEPT !.beacons = @ \cup bs,
                                          !.timers = AddBeacons(s, bs).timers]
PROOF
<1> DEFINE new == {[beacon |-> b, left |-> b.every] : b \in bs}
           r   == AddBeacons(s, bs)
<1>1. new \in SUBSET Timer
  BY IntervalIsPositive DEF Timer, Beacon
<1>2. /\ r.beacons = s.beacons \cup bs
      /\ r.timers = s.timers \cup new
      /\ r = [s EXCEPT !.beacons = @ \cup bs, !.timers = @ \cup new]
  BY DEF AddBeacons, Arm, State
<1>3. r \in State
  BY <1>1, <1>2 DEF State
<1>4. TimersRight(r)
  <2>1. \A t \in r.timers : t.beacon \in r.beacons /\ t.left <= t.beacon.every
    BY <1>2, IntervalIsPositive DEF TimersRight, Beacon
  <2>2. \A b \in r.beacons : \E t \in r.timers : t.beacon = b
    <3>1. ASSUME NEW b \in bs PROVE \E t \in r.timers : t.beacon = b
      <4>1. [beacon |-> b, left |-> b.every] \in r.timers
        BY <1>2
      <4> QED  BY <4>1
    <3>2. ASSUME NEW b \in s.beacons PROVE \E t \in r.timers : t.beacon = b
      BY <1>2 DEF TimersRight
    <3> QED  BY <3>1, <3>2, <1>2
  <2>3. \A t, u \in r.timers : t.beacon = u.beacon => t = u
    <3>1. \A t \in new : t.beacon \in bs /\ t = [beacon |-> t.beacon, left |-> t.beacon.every]
      OBVIOUS
    <3>2. \A t \in s.timers : t.beacon \notin bs
      BY DEF TimersRight
    <3> QED  BY <3>1, <3>2, <1>2 DEF TimersRight
  <2> QED  BY <2>1, <2>2, <2>3 DEF TimersRight
<1> QED  BY <1>2, <1>3, <1>4

(* The timers of the beacons that are removed go with them.                *)
LEMMA RemBeaconsTimers ==
  ASSUME NEW s \in State, TimersRight(s), NEW bs
  PROVE  /\ RemBeacons(s, bs) \in State
         /\ TimersRight(RemBeacons(s, bs))
         /\ RemBeacons(s, bs) = [s EXCEPT !.beacons = @ \ bs,
                                          !.timers = RemBeacons(s, bs).timers]
PROOF
<1> DEFINE r == RemBeacons(s, bs)
<1>1. r = [s EXCEPT !.beacons = @ \ bs, !.timers = {t \in @ : t.beacon \notin bs}]
  BY DEF RemBeacons, Cancel, State
<1>2. r.beacons = s.beacons \ bs /\ r.timers = {t \in s.timers : t.beacon \notin bs}
  BY <1>1 DEF State
<1>3. r \in State
  BY <1>1 DEF State
<1>4. TimersRight(r)
  BY <1>2 DEF TimersRight
<1> QED  BY <1>1, <1>2, <1>3, <1>4

LEMMA MembersOfWanted ==
  ASSUME NEW s \in State, NEW b
  PROVE  b \in Wanted(s) <=>
           /\ b \in [to : Dest, copy : 1 .. MaxStatic + 1, every : {s.every}]
           /\ b.to[1] \in s.ports
           /\ b.copy <= IF b.to[2] = None THEN 1 ELSE s.static[b.to[2]]
  BY DEF Wanted

LEMMA WantedIsTyped ==
  ASSUME NEW s \in State
  PROVE  Wanted(s) \in SUBSET Beacon
  BY ConstantsAssumption DEF Wanted, Beacon, State

LEMMA TargetIsNotNone == None \notin Target
  BY ConstantsAssumption, NoneAssumption DEF Address, Unicast

-----------------------------------------------------------------------------
(* Each operation on a node keeps its part of the invariant.               *)

LEMMA PortBeaconsAreNew ==
  ASSUME NEW s \in State, BeaconsRight(s), NEW p \in Port, p \notin s.ports
  PROVE  /\ PortBeacons(s, p) \in SUBSET Beacon
         /\ PortBeacons(s, p) \cap s.beacons = {}
         /\ \A b \in PortBeacons(s, p) : b.to[1] = p
PROOF
<1>1. CASE p \in Multicast
  <2>1. PortBeacons(s, p) = {[to |-> <<p, None>>, copy |-> 1, every |-> s.every]}
    BY <1>1 DEF PortBeacons
  <2>2. <<p, None>> \in Dest
    BY <1>1 DEF Dest
  <2> QED  BY <2>1, <2>2, MembersOfWanted DEF BeaconsRight, Beacon, State
<1>2. CASE p \notin Multicast
  <2>1. PortBeacons(s, p) =
          {b \in [to : {p} \X Target, copy : 1 .. MaxStatic, every : {s.every}] :
             b.copy <= s.static[b.to[2]]}
    BY <1>2 DEF PortBeacons
  <2>2. {p} \X Target \subseteq Dest
    BY <1>2 DEF Dest, Unicast
  <2> QED  BY <2>1, <2>2, MembersOfWanted, ConstantsAssumption DEF BeaconsRight, Beacon, State
<1> QED  BY <1>1, <1>2

LEMMA AddPortInv ==
  ASSUME NEW s, NodeInv(s), NEW p \in Port, p \notin s.ports
  PROVE  NodeInv(AddPort(s, p))
PROOF
<1> DEFINE s1 == [s EXCEPT !.ports = @ \cup {p}]
           bs == PortBeacons(s, p)
           r  == AddPort(s, p)
<1>1. s \in State /\ BeaconsRight(s) /\ TimersRight(s) /\ StaticBounded(s)
  BY DEF NodeInv
<1>2. s1 \in State /\ TimersRight(s1) /\ s1.beacons = s.beacons
  BY <1>1 DEF State, TimersRight
<1>3. bs \in SUBSET Beacon /\ bs \cap s1.beacons = {} /\ r = AddBeacons(s1, bs)
  BY <1>1, <1>2, PortBeaconsAreNew DEF AddPort
<1>4. /\ r \in State /\ TimersRight(r)
      /\ r = [s1 EXCEPT !.beacons = @ \cup bs, !.timers = r.timers]
  BY <1>2, <1>3, AddBeaconsTimers
<1>5. /\ r.ports = s.ports \cup {p} /\ r.every = s.every /\ r.static = s.static
      /\ r.beacons = s.beacons \cup bs /\ r.ids = s.ids /\ r.self = s.self
      /\ r.check = s.check /\ r.peers = s.peers
  BY <1>1, <1>4 DEF State
<1>6. \A b : b \in bs <=>
        /\ b \in [to : Dest, copy : 1 .. MaxStatic + 1, every : {s.every}]
        /\ b.to[1] = p
        /\ b.copy <= IF b.to[2] = None THEN 1 ELSE s.static[b.to[2]]
  <2>1. CASE p \in Multicast
    <3>1. bs = {[to |-> <<p, None>>, copy |-> 1, every |-> s.every]}
      BY <2>1 DEF PortBeacons
    <3>2. \A d \in Dest : d[1] = p => d = <<p, None>>
      BY <2>1 DEF Dest, Unicast
    <3>3. <<p, None>> \in Dest
      BY <2>1 DEF Dest
    <3> QED  BY <3>1, <3>2, <3>3, ConstantsAssumption
  <2>2. CASE p \notin Multicast
    <3>1. bs = {b \in [to : {p} \X Target, copy : 1 .. MaxStatic, every : {s.every}] :
                  b.copy <= s.static[b.to[2]]}
      BY <2>2 DEF PortBeacons
    <3>2. \A d : d \in {p} \X Target <=> d \in Dest /\ d[1] = p
      BY <2>2 DEF Dest, Unicast
    <3>3. \A d \in {p} \X Target : d[2] # None /\ s.static[d[2]] \in 0 .. MaxStatic
      BY <1>1, TargetIsNotNone DEF StaticBounded, State
    <3> QED  BY <3>1, <3>2, <3>3, ConstantsAssumption
  <2> QED  BY <2>1, <2>2
<1>7. BeaconsRight(r)
  <2>1. \A b : b \in Wanted(r) <=> b \in Wanted(s) \/ b \in bs
    BY <1>1, <1>4, <1>5, <1>6, MembersOfWanted
  <2> QED  BY <1>1, <1>5, <2>1 DEF BeaconsRight
<1> QED  BY <1>4, <1>5, <1>7 DEF NodeInv, StaticBounded, SelectedRight, CheckedInTime

LEMMA RemPortInv ==
  ASSUME NEW s, NodeInv(s), NEW p \in Port
  PROVE  NodeInv(RemPort(s, p))
PROOF
<1> DEFINE s1 == [s EXCEPT !.ports = @ \ {p}]
           bs == {b \in s.beacons : b.to[1] = p}
           r  == RemPort(s, p)
<1>1. s \in State /\ BeaconsRight(s) /\ TimersRight(s) /\ StaticBounded(s)
  BY DEF NodeInv
<1>2. s1 \in State /\ TimersRight(s1) /\ s1.beacons = s.beacons
  BY <1>1 DEF State, TimersRight
<1>4. /\ r \in State /\ TimersRight(r)
      /\ r = [s1 EXCEPT !.beacons = @ \ bs, !.timers = r.timers]
  BY <1>2, RemBeaconsTimers DEF RemPort
<1>5. /\ r.ports = s.ports \ {p} /\ r.every = s.every /\ r.static = s.static
      /\ r.beacons = s.beacons \ bs /\ r.ids = s.ids /\ r.self = s.self
      /\ r.check = s.check /\ r.peers = s.peers
  BY <1>1, <1>4 DEF State
<1>7. BeaconsRight(r)
  <2>1. \A b : b \in Wanted(r) <=> b \in Wanted(s) /\ b.to[1] # p
    BY <1>1, <1>4, <1>5, MembersOfWanted
  <2> QED  BY <1>1, <1>5, <2>1 DEF BeaconsRight
<1> QED  BY <1>1, <1>4, <1>5, <1>7 DEF NodeInv, StaticBounded, SelectedRight, CheckedInTime

LEMMA AddStaticPeerInv ==
  ASSUME NEW s, NodeInv(s), NEW a \in Target, s.static[a] < MaxStatic
  PROVE  NodeInv(AddStaticPeer(s, a))
PROOF
<1> DEFINE k  == s.static[a] + 1
           s1 == [s EXCEPT !.static[a] = @ + 1]
           bs == {[to |-> <<p, a>>, copy |-> k, every |-> s.every] :
                    p \in s.ports \cap Unicast}
           r  == AddStaticPeer(s, a)
<1>1. s \in State /\ BeaconsRight(s) /\ TimersRight(s) /\ StaticBounded(s)
  BY DEF NodeInv
<1>2. /\ s1 \in State /\ TimersRight(s1) /\ s1.beacons = s.beacons
      /\ s1.static = [s.static EXCEPT ![a] = k] /\ k \in 1 .. MaxStatic
  <2>1. s.static \in [Target -> Nat] /\ s.static[a] \in Nat
    BY <1>1 DEF State
  <2>2. MaxStatic \in Nat
    BY ConstantsAssumption
  <2>3. k \in 1 .. MaxStatic /\ k \in Nat
    BY <2>1, <2>2
  <2>4. [s.static EXCEPT ![a] = k] \in [Target -> Nat]
    BY <2>1, <2>3
  <2>5. s1 = [s EXCEPT !.static = [s.static EXCEPT ![a] = k]]
    BY <1>1 DEF State
  <2>6. s1 \in State
    BY <1>1, <2>4, <2>5 DEF State
  <2>7. s1.static = [s.static EXCEPT ![a] = k] /\ s1.beacons = s.beacons
        /\ s1.timers = s.timers
    BY <1>1, <2>5 DEF State
  <2> QED  BY <1>1, <2>3, <2>6, <2>7 DEF TimersRight
<1>3. \A p \in s.ports \cap Unicast : <<p, a>> \in Dest
  BY DEF Dest
<1>4. \A b : b \in bs <=>
        /\ b \in [to : Dest, copy : {k}, every : {s.every}]
        /\ b.to[1] \in s.ports /\ b.to[2] = a
  <2>1. \A d \in Dest : d[2] = a => d[1] \in Unicast /\ d = <<d[1], a>>
    BY TargetIsNotNone DEF Dest
  <2> QED  BY <2>1, <1>3
<1>5. bs \in SUBSET Beacon
  <2>1. s.every \in Interval /\ k \in Nat \ {0}
    BY <1>1, <1>2, ConstantsAssumption DEF State
  <2> QED  BY <2>1, <1>4 DEF Beacon
<1>6. bs \cap s1.beacons = {}
  <2>1. ASSUME NEW b \in bs, b \in Wanted(s) PROVE FALSE
    <3>1. b.copy = s.static[a] + 1 /\ b.to[2] = a
      BY <1>4, <2>1
    <3>2. b.copy <= s.static[a]
      BY <3>1, <1>1, <2>1, MembersOfWanted, TargetIsNotNone
    <3>3. s.static[a] \in Nat
      BY <1>1 DEF State
    <3> QED  BY <3>1, <3>2, <3>3
  <2> QED  BY <1>1, <1>2, <2>1 DEF BeaconsRight
<1>7. /\ r \in State /\ TimersRight(r)
      /\ r = [s1 EXCEPT !.beacons = @ \cup bs, !.timers = r.timers]
  <2>1. r = AddBeacons(s1, bs)
    BY DEF AddStaticPeer
  <2> HIDE DEF s1, bs, r
  <2> QED  BY <1>2, <1>5, <1>6, <2>1, AddBeaconsTimers
<1>8. /\ r.ports = s.ports /\ r.every = s.every
      /\ r.static = [s.static EXCEPT ![a] = k]
      /\ r.beacons = s.beacons \cup bs /\ r.ids = s.ids /\ r.self = s.self
      /\ r.check = s.check /\ r.peers = s.peers
  BY <1>1, <1>7 DEF State
<1>9. BeaconsRight(r)
  <2>1. \A b : b \in Wanted(r) <=> b \in Wanted(s) \/ b \in bs
    <3> TAKE b
    <3>1. CASE b \notin [to : Dest, copy : 1 .. MaxStatic + 1, every : {s.every}]
      <4>1. 1 .. MaxStatic \subseteq 1 .. MaxStatic + 1
        BY ConstantsAssumption
      <4>2. b \notin bs
        BY <3>1, <4>1, <1>2, <1>4
      <4> QED  BY <3>1, <4>2, <1>1, <1>7, <1>8, MembersOfWanted
    <3>2. CASE /\ b \in [to : Dest, copy : 1 .. MaxStatic + 1, every : {s.every}]
               /\ b.to[2] # a
      <4>1. b.to[2] # None => b.to[2] \in Target
        BY <3>2 DEF Dest
      <4>2. b.to[2] # None => r.static[b.to[2]] = s.static[b.to[2]]
        BY <3>2, <4>1, <1>1, <1>8 DEF State
      <4> QED  BY <3>2, <4>2, <1>1, <1>4, <1>7, <1>8, MembersOfWanted
    <3>3. CASE /\ b \in [to : Dest, copy : 1 .. MaxStatic + 1, every : {s.every}]
               /\ b.to[2] = a
      <4>1. r.static[a] = s.static[a] + 1 /\ s.static[a] \in Nat
        BY <1>1, <1>8 DEF State
      <4>2. b.copy <= r.static[a] <=> b.copy <= s.static[a] \/ b.copy = k
        BY <3>3, <4>1, ConstantsAssumption
      <4> HIDE DEF k, s1, bs, r
      <4>3. b \in Wanted(s) <=> b.to[1] \in s.ports /\ b.copy <= s.static[a]
        BY <3>3, <1>1, MembersOfWanted, TargetIsNotNone
      <4>4. b \in Wanted(r) <=> b.to[1] \in s.ports /\ b.copy <= r.static[a]
        BY <3>3, <1>7, <1>8, MembersOfWanted, TargetIsNotNone
      <4>5. b \in bs <=> b.to[1] \in s.ports /\ b.copy = k
        BY <3>3, <1>2, <1>4
      <4> QED  BY <4>2, <4>3, <4>4, <4>5
    <3> QED  BY <3>1, <3>2, <3>3
  <2> QED  BY <1>1, <1>8, <2>1 DEF BeaconsRight
<1>10. StaticBounded(r)
  BY <1>1, <1>2, <1>8 DEF StaticBounded, State
<1> QED  BY <1>7, <1>8, <1>9, <1>10 DEF NodeInv, SelectedRight, CheckedInTime

LEMMA RemStaticPeerInv ==
  ASSUME NEW s, NodeInv(s), NEW a \in Target
  PROVE  NodeInv(RemStaticPeer(s, a))
PROOF
<1> DEFINE s1 == [s EXCEPT !.static[a] = 0]
           bs == {b \in s.beacons : b.to[2] = a}
           r  == RemStaticPeer(s, a)
<1>1. s \in State /\ BeaconsRight(s) /\ TimersRight(s) /\ StaticBounded(s)
  BY DEF NodeInv
<1>2. s1 \in State /\ TimersRight(s1) /\ s1.beacons = s.beacons
  BY <1>1 DEF State, TimersRight
<1>3. /\ r \in State /\ TimersRight(r)
      /\ r = [s1 EXCEPT !.beacons = @ \ bs, !.timers = r.timers]
  BY <1>2, RemBeaconsTimers DEF RemStaticPeer
<1>4. /\ r.ports = s.ports /\ r.every = s.every
      /\ r.static = [s.static EXCEPT ![a] = 0]
      /\ r.beacons = s.beacons \ bs /\ r.ids = s.ids /\ r.self = s.self
      /\ r.check = s.check /\ r.peers = s.peers
  BY <1>1, <1>3 DEF State
<1>5. BeaconsRight(r)
  <2>1. \A b : b \in Wanted(r) <=> b \in Wanted(s) /\ b.to[2] # a
    <3> TAKE b
    <3>1. CASE b \notin [to : Dest, copy : 1 .. MaxStatic + 1, every : {s.every}]
      BY <3>1, <1>1, <1>3, <1>4, MembersOfWanted
    <3>2. CASE /\ b \in [to : Dest, copy : 1 .. MaxStatic + 1, every : {s.every}]
               /\ b.to[2] # a
      <4>1. b.to[2] # None => b.to[2] \in Target
        BY <3>2 DEF Dest
      <4>2. b.to[2] # None => r.static[b.to[2]] = s.static[b.to[2]]
        BY <3>2, <4>1, <1>1, <1>4 DEF State
      <4> QED  BY <3>2, <4>2, <1>1, <1>3, <1>4, MembersOfWanted
    <3>3. CASE /\ b \in [to : Dest, copy : 1 .. MaxStatic + 1, every : {s.every}]
               /\ b.to[2] = a
      <4>1. r.static[a] = 0
        BY <1>1, <1>4 DEF State
      <4>2. ~(b.copy <= 0)
        BY <3>3
      <4> QED  BY <3>3, <4>1, <4>2, <1>3, MembersOfWanted, TargetIsNotNone
    <3> QED  BY <3>1, <3>2, <3>3
  <2> QED  BY <1>1, <1>4, <2>1 DEF BeaconsRight
<1>6. StaticBounded(r)
  BY <1>1, <1>4, ConstantsAssumption DEF StaticBounded, State
<1> QED  BY <1>3, <1>4, <1>5, <1>6 DEF NodeInv, SelectedRight, CheckedInTime

LEMMA ReconfigureInv ==
  ASSUME NEW s, NodeInv(s), NEW every \in Interval
  PROVE  NodeInv(Reconfigure(s, every))
PROOF
<1> DEFINE s0 == [s EXCEPT !.every = every]
           s1 == RemBeacons(s0, s.beacons)
           bs == Reset(s.beacons, every)
           r  == Reconfigure(s, every)
<1>1. s \in State /\ BeaconsRight(s) /\ TimersRight(s) /\ StaticBounded(s)
  BY DEF NodeInv
<1>2. s0 \in State /\ TimersRight(s0) /\ s0.beacons = s.beacons
  BY <1>1 DEF State, TimersRight
<1>3. /\ s1 \in State /\ TimersRight(s1)
      /\ s1 = [s0 EXCEPT !.beacons = @ \ s.beacons, !.timers = s1.timers]
  BY <1>2, RemBeaconsTimers
<1>4. s1.beacons = {}
  BY <1>1, <1>2, <1>3 DEF State
<1>5. \A b : b \in bs <=>
        /\ b \in [to : Dest, copy : Nat \ {0}, every : {every}]
        /\ [b EXCEPT !.every = s.every] \in s.beacons
  <2>1. \A b \in s.beacons : b \in Beacon /\ b.every = s.every
    BY <1>1, MembersOfWanted DEF BeaconsRight, State
  <2>2. ASSUME NEW b \in bs
        PROVE  /\ b \in [to : Dest, copy : Nat \ {0}, every : {every}]
               /\ [b EXCEPT !.every = s.every] \in s.beacons
    <3>1. PICK c \in s.beacons : b = [c EXCEPT !.every = every]
      BY DEF Reset
    <3>2. [b EXCEPT !.every = s.every] = c
      BY <3>1, <2>1 DEF Beacon
    <3> QED  BY <3>1, <3>2, <2>1 DEF Beacon
  <2>3. ASSUME NEW b \in [to : Dest, copy : Nat \ {0}, every : {every}],
               [b EXCEPT !.every = s.every] \in s.beacons
        PROVE  b \in bs
    <3> DEFINE c == [b EXCEPT !.every = s.every]
    <3>1. b = [c EXCEPT !.every = every]
      OBVIOUS
    <3> QED  BY <3>1, <2>3 DEF Reset
  <2> QED  BY <2>2, <2>3
<1>6. bs \in SUBSET Beacon
  <2>1. [to : Dest, copy : Nat \ {0}, every : {every}] \subseteq Beacon
    BY DEF Beacon
  <2> QED  BY <1>5, <2>1
<1>7. /\ r \in State /\ TimersRight(r)
      /\ r = [s1 EXCEPT !.beacons = @ \cup bs, !.timers = r.timers]
  <2>1. r = AddBeacons(s1, bs)
    BY DEF Reconfigure
  <2>2. bs \cap s1.beacons = {}
    BY <1>4
  <2> HIDE DEF s0, s1, bs, r
  <2>3. /\ AddBeacons(s1, bs) \in State
        /\ TimersRight(AddBeacons(s1, bs))
        /\ AddBeacons(s1, bs) = [s1 EXCEPT !.beacons = @ \cup bs,
                                   !.timers = AddBeacons(s1, bs).timers]
    BY <1>3, <1>6, <2>2, AddBeaconsTimers
  <2> QED  BY <2>1, <2>3
<1>8. /\ r.ports = s.ports /\ r.every = every /\ r.static = s.static
      /\ r.beacons = bs /\ r.ids = s.ids /\ r.self = s.self
      /\ r.check = s.check /\ r.peers = s.peers
  <2>1. /\ s1.ports = s.ports /\ s1.every = every /\ s1.static = s.static
        /\ s1.ids = s.ids /\ s1.self = s.self
        /\ s1.check = s.check /\ s1.peers = s.peers
    BY <1>1, <1>3 DEF State
  <2> HIDE DEF s1, bs, r
  <2>2. /\ r.ports = s1.ports /\ r.every = s1.every /\ r.static = s1.static
        /\ r.ids = s1.ids /\ r.self = s1.self
        /\ r.check = s1.check /\ r.peers = s1.peers
    BY <1>3, <1>7 DEF State
  <2>3. r.beacons = s1.beacons \cup bs
    BY <1>3, <1>7 DEF State
  <2> QED  BY <2>1, <2>2, <2>3, <1>4
<1>9. BeaconsRight(r)
  <2>1. ASSUME NEW b PROVE b \in Wanted(r) <=> b \in bs
    <3> DEFINE c == [b EXCEPT !.every = s.every]
    <3>1. CASE b \in [to : Dest, copy : Nat \ {0}, every : {every}]
      <4>1. c.to = b.to /\ c.copy = b.copy /\ c.every = s.every
        BY <3>1
      <4>2. c \in [to : Dest, copy : 1 .. MaxStatic + 1, every : {s.every}]
              <=> b \in [to : Dest, copy : 1 .. MaxStatic + 1, every : {every}]
        BY <3>1, <4>1
      <4>3. c \in Wanted(s) <=> b \in Wanted(r)
        BY <4>1, <4>2, <1>1, <1>7, <1>8, MembersOfWanted
      <4> QED  BY <3>1, <4>3, <1>1, <1>5 DEF BeaconsRight
    <3>2. CASE b \notin [to : Dest, copy : Nat \ {0}, every : {every}]
      <4>1. 1 .. MaxStatic + 1 \subseteq Nat \ {0}
        BY ConstantsAssumption
      <4>2. b \notin [to : Dest, copy : 1 .. MaxStatic + 1, every : {every}]
        BY <3>2, <4>1
      <4> QED  BY <3>2, <4>2, <1>5, <1>7, <1>8, MembersOfWanted
    <3> QED  BY <3>1, <3>2
  <2> QED  BY <1>8, <2>1 DEF BeaconsRight
<1> QED  BY <1>1, <1>7, <1>8, <1>9 DEF NodeInv, StaticBounded, SelectedRight, CheckedInTime

(* What is left of a list of identities without one of them.               *)
LEMMA RemoveAtKeepsOthers ==
  ASSUME NEW S, NEW q \in Seq(S), NEW k \in 1 .. Len(q)
  PROVE  /\ RemoveAt(q, k) \in Seq(S)
         /\ \A j \in 1 .. Len(q) : j # k => Contains(RemoveAt(q, k), q[j])
PROOF
<1> DEFINE a == SubSeq(q, 1, k - 1)
           b == SubSeq(q, k + 1, Len(q))
<1>0. Len(q) \in Nat /\ k \in Int /\ k >= 1 /\ k <= Len(q)
      /\ \A j \in 1 .. Len(q) : q[j] \in S
  OBVIOUS
<1>1. /\ a \in Seq(S) /\ Len(a) = k - 1
      /\ \A j \in 1 .. k - 1 : a[j] = q[j]
  <2>1. \A j \in 1 .. k - 1 : q[j] \in S
    BY <1>0
  <2>2. /\ a \in Seq(S)
        /\ Len(a) = IF 1 <= k - 1 THEN (k - 1) - 1 + 1 ELSE 0
        /\ \A j \in 1 .. (k - 1) - 1 + 1 : a[j] = q[1 + j - 1]
    BY <1>0, <2>1, SubSeqProperties
  <2> HIDE DEF a
  <2>3. \A j \in 1 .. k - 1 : j \in 1 .. (k - 1) - 1 + 1 /\ 1 + j - 1 = j
    BY <1>0
  <2>4. Len(a) = k - 1
    BY <1>0, <2>2
  <2>5. ASSUME NEW j \in 1 .. k - 1 PROVE a[j] = q[j]
    BY <2>2, <2>3
  <2> QED  BY <2>2, <2>4, <2>5
<1>2. /\ b \in Seq(S) /\ Len(b) = Len(q) - k
      /\ \A j \in 1 .. Len(q) - k : b[j] = q[k + j]
  <2>1. \A j \in k + 1 .. Len(q) : q[j] \in S
    BY <1>0
  <2>2. /\ b \in Seq(S)
        /\ Len(b) = IF k + 1 <= Len(q) THEN Len(q) - (k + 1) + 1 ELSE 0
        /\ \A j \in 1 .. Len(q) - (k + 1) + 1 : b[j] = q[(k + 1) + j - 1]
    BY <1>0, <2>1, SubSeqProperties
  <2> HIDE DEF b
  <2>3. \A j \in 1 .. Len(q) - k :
          j \in 1 .. Len(q) - (k + 1) + 1 /\ (k + 1) + j - 1 = k + j
    BY <1>0
  <2>4. Len(b) = Len(q) - k
    BY <1>0, <2>2
  <2>5. ASSUME NEW j \in 1 .. Len(q) - k PROVE b[j] = q[k + j]
    BY <2>2, <2>3
  <2> QED  BY <2>2, <2>4, <2>5
<1>3. RemoveAt(q, k) = a \o b
  BY DEF RemoveAt
<1> HIDE DEF a, b
<1>4. /\ a \o b \in Seq(S) /\ Len(a \o b) = Len(a) + Len(b)
      /\ \A j \in 1 .. Len(a) + Len(b) :
           (a \o b)[j] = IF j <= Len(a) THEN a[j] ELSE b[j - Len(a)]
  BY <1>1, <1>2, ConcatProperties
<1>5. Len(a \o b) = Len(q) - 1
  BY <1>0, <1>1, <1>2, <1>4
<1>6. ASSUME NEW j \in 1 .. Len(q), j # k PROVE Contains(a \o b, q[j])
  <2>1. CASE j < k
    <3>1. j \in 1 .. Len(a) + Len(b) /\ j <= Len(a) /\ j \in 1 .. k - 1
      BY <2>1, <1>0, <1>1, <1>2
    <3>2. (a \o b)[j] = q[j]
      BY <3>1, <1>1, <1>4
    <3> QED  BY <3>1, <3>2, <1>4 DEF Contains
  <2>2. CASE j > k
    <3>1. /\ j - 1 \in 1 .. Len(a) + Len(b) /\ ~(j - 1 <= Len(a))
          /\ j - k \in 1 .. Len(q) - k /\ (j - 1) - Len(a) = j - k /\ k + (j - k) = j
      BY <2>2, <1>0, <1>1, <1>2
    <3>2. (a \o b)[j - 1] = q[j]
      BY <3>1, <1>2, <1>4
    <3> QED  BY <3>1, <3>2, <1>4 DEF Contains
  <2> QED  BY <2>1, <2>2, <1>6, <1>0
<1> QED  BY <1>3, <1>4, <1>6

LEMMA WithoutKeepsOthers ==
  ASSUME NEW q \in Seq(NodeId), NEW i
  PROVE  /\ Without(q, i) \in Seq(NodeId)
         /\ \A j : Contains(q, j) /\ j # i => Contains(Without(q, i), j)
PROOF
<1>1. CASE ~Contains(q, i)
  BY <1>1 DEF Without
<1>2. CASE Contains(q, i)
  <2> DEFINE k == CHOOSE x \in 1 .. Len(q) : q[x] = i
  <2>1. k \in 1 .. Len(q) /\ q[k] = i
    BY <1>2 DEF Contains
  <2>2. Without(q, i) = RemoveAt(q, k)
    BY <1>2 DEF Without
  <2> HIDE DEF k
  <2>3. /\ RemoveAt(q, k) \in Seq(NodeId)
        /\ \A j \in 1 .. Len(q) : j # k => Contains(RemoveAt(q, k), q[j])
    BY <2>1, RemoveAtKeepsOthers
  <2>4. ASSUME NEW j, Contains(q, j), j # i PROVE Contains(Without(q, i), j)
    <3>1. PICK x \in 1 .. Len(q) : q[x] = j
      BY <2>4 DEF Contains
    <3> QED  BY <3>1, <2>1, <2>2, <2>3, <2>4
  <2> QED  BY <2>2, <2>3, <2>4
<1> QED  BY <1>1, <1>2

LEMMA EmptyContainsNothing == \A j : ~Contains(<<>>, j)
  BY DEF Contains

LEMMA HeadIsContained ==
  ASSUME NEW q \in Seq(NodeId), q # <<>>
  PROVE  Head(q) \in NodeId /\ Contains(q, Head(q))
PROOF
<1>1. Head(q) = q[1] /\ 1 \in 1 .. Len(q)
  OBVIOUS
<1> QED  BY <1>1 DEF Contains

(* Identities do not touch beacons and timers.                             *)
LEMMA SelectionInv ==
  ASSUME NEW s, NodeInv(s), NEW ids \in Seq(NodeId),
         NEW self \in NodeId \cup {None},
         IF ids = <<>> THEN self = None ELSE Contains(ids, self)
  PROVE  NodeInv([s EXCEPT !.ids = ids, !.self = self])
PROOF
<1> DEFINE r == [s EXCEPT !.ids = ids, !.self = self]
<1>1. s \in State
  BY DEF NodeInv
<1>2. /\ r \in State
      /\ r.ports = s.ports /\ r.every = s.every /\ r.static = s.static
      /\ r.beacons = s.beacons /\ r.timers = s.timers
      /\ r.check = s.check /\ r.peers = s.peers
      /\ r.ids = ids /\ r.self = self
  BY <1>1 DEF State
<1>3. Wanted(r) = Wanted(s)
  BY <1>2 DEF Wanted
<1> QED
  BY <1>2, <1>3 DEF NodeInv, StaticBounded, BeaconsRight, TimersRight,
                    SelectedRight, CheckedInTime

LEMMA AddIdentityInv ==
  ASSUME NEW s, NodeInv(s), NEW i \in NodeId
  PROVE  NodeInv(AddIdentity(s, i))
PROOF
<1> DEFINE ids  == IF Contains(s.ids, i) THEN s.ids ELSE Append(s.ids, i)
           self == IF s.self = None THEN i ELSE s.self
<1>1. s \in State /\ SelectedRight(s) /\ s.ids \in Seq(NodeId)
      /\ s.self \in NodeId \cup {None}
  BY DEF NodeInv, State
<1>2. AddIdentity(s, i) = [s EXCEPT !.ids = ids, !.self = self]
  BY <1>1 DEF AddIdentity, State
<1>3. /\ ids \in Seq(NodeId) /\ ids # <<>> /\ Contains(ids, i)
      /\ \A j : Contains(s.ids, j) => Contains(ids, j)
  <2>1. CASE Contains(s.ids, i)
    BY <2>1, <1>1, EmptyContainsNothing
  <2>2. CASE ~Contains(s.ids, i)
    <3>1. /\ Append(s.ids, i) \in Seq(NodeId)
          /\ Append(s.ids, i) # <<>>
          /\ Len(Append(s.ids, i)) = Len(s.ids) + 1
          /\ \A x \in 1 .. Len(s.ids) : Append(s.ids, i)[x] = s.ids[x]
          /\ Append(s.ids, i)[Len(s.ids) + 1] = i
      BY <1>1, AppendProperties
    <3>2. Len(s.ids) \in Nat
      BY <1>1
    <3>3. Contains(Append(s.ids, i), i)
      <4>1. Len(s.ids) + 1 \in 1 .. Len(Append(s.ids, i))
        BY <3>1, <3>2
      <4> QED  BY <4>1, <3>1 DEF Contains
    <3>4. ASSUME NEW j, Contains(s.ids, j) PROVE Contains(Append(s.ids, i), j)
      <4>1. PICK x \in 1 .. Len(s.ids) : s.ids[x] = j
        BY <3>4 DEF Contains
      <4>2. x \in 1 .. Len(Append(s.ids, i))
        BY <3>1, <3>2
      <4> QED  BY <4>1, <4>2, <3>1 DEF Contains
    <3> QED  BY <2>2, <3>1, <3>3, <3>4
  <2> QED  BY <2>1, <2>2
<1>4. self \in NodeId \cup {None} /\ Contains(ids, self)
  BY <1>1, <1>3 DEF SelectedRight
<1> HIDE DEF ids, self
<1>5. IF ids = <<>> THEN self = None ELSE Contains(ids, self)
  BY <1>3, <1>4
<1>6. NodeInv([s EXCEPT !.ids = ids, !.self = self])
  BY <1>3, <1>4, <1>5, SelectionInv, Zenon
<1> QED  BY <1>2, <1>6

LEMMA RemIdentityInv ==
  ASSUME NEW s, NodeInv(s), NEW i \in NodeId
  PROVE  NodeInv(RemIdentity(s, i))
PROOF
<1> DEFINE rest == Without(s.ids, i)
           self == IF s.self # i THEN s.self
                   ELSE IF rest = <<>> THEN None ELSE Head(rest)
<1>1. s \in State /\ SelectedRight(s) /\ s.ids \in Seq(NodeId)
      /\ s.self \in NodeId \cup {None}
  BY DEF NodeInv, State
<1>2. RemIdentity(s, i) = [s EXCEPT !.ids = rest, !.self = self]
  BY <1>1 DEF RemIdentity, State
<1>3. /\ rest \in Seq(NodeId)
      /\ \A j : Contains(s.ids, j) /\ j # i => Contains(rest, j)
  BY <1>1, WithoutKeepsOthers
<1>4. s.ids = <<>> => rest = <<>>
  BY EmptyContainsNothing DEF Without
<1> HIDE DEF rest
<1>5. self \in NodeId \cup {None}
  BY <1>1, <1>3, HeadIsContained
<1>6. IF rest = <<>> THEN self = None ELSE Contains(rest, self)
  <2>1. CASE s.self = i
    BY <2>1, <1>3, HeadIsContained
  <2>2. CASE s.self # i
    BY <2>2, <1>1, <1>3, <1>4, EmptyContainsNothing DEF SelectedRight
  <2> QED  BY <2>1, <2>2
<1> HIDE DEF self
<1>7. NodeInv([s EXCEPT !.ids = rest, !.self = self])
  BY <1>3, <1>5, <1>6, SelectionInv, Zenon
<1> QED  BY <1>2, <1>7

LEMMA SelectIdentityInv ==
  ASSUME NEW s, NodeInv(s), NEW i \in NodeId, Contains(s.ids, i)
  PROVE  NodeInv([s EXCEPT !.self = i])
PROOF
<1>1. s \in State /\ s.ids \in Seq(NodeId)
  BY DEF NodeInv, State
<1>2. s.ids # <<>>
  BY EmptyContainsNothing
<1>3. [s EXCEPT !.self = i] = [s EXCEPT !.ids = s.ids, !.self = i]
  BY <1>1 DEF State
<1> QED  BY <1>1, <1>2, <1>3, SelectionInv

(* A node that has stopped, or has just started.                           *)
LEMMA DownInv ==
  ASSUME NEW up \in BOOLEAN
  PROVE  NodeInv([Down EXCEPT !.up = up])
PROOF
<1> DEFINE r == [Down EXCEPT !.up = up]
<1>1. /\ r.up = up /\ r.ids = <<>> /\ r.self = None /\ r.ports = {}
      /\ r.static = [a \in Target |-> 0] /\ r.every = DefaultInterval
      /\ r.beacons = {} /\ r.timers = {} /\ r.check = Check /\ r.peers = NoPeers
  BY DEF Down
<1>2. r \in State
  <2>1. <<>> \in Seq(NodeId) /\ DefaultInterval \in Interval /\ Check \in Nat
    BY ConstantsAssumption
  <2> QED  BY <2>1 DEF Down, State, NoPeers
<1>3. BeaconsRight(r)
  BY <1>1 DEF BeaconsRight, Wanted
<1>4. StaticBounded(r) /\ SelectedRight(r) /\ TimersRight(r)
  BY <1>1, ConstantsAssumption DEF StaticBounded, SelectedRight, TimersRight
<1>5. CheckedInTime(r)
  BY <1>1, ConstantsAssumption DEF CheckedInTime, NoPeers
<1> QED  BY <1>2, <1>3, <1>4, <1>5 DEF NodeInv

(* A node that hears of a peer.                                            *)
LEMMA HeardInv ==
  ASSUME NEW s, NodeInv(s), NEW i \in NodeId, NEW via \in Path
  PROVE  NodeInv([s EXCEPT !.peers[i] = [idle |-> 0, via |-> via]])
PROOF
<1> DEFINE e == [idle |-> 0, via |-> via]
           r == [s EXCEPT !.peers[i] = e]
<1>1. s \in State /\ CheckedInTime(s)
  BY DEF NodeInv
<1>2. e \in PeerEntry
  BY DEF PeerEntry
<1>3. [s.peers EXCEPT ![i] = e] \in [NodeId -> PeerEntry \cup {None}]
  BY <1>1, <1>2 DEF State
<1>4. r = [s EXCEPT !.peers = [s.peers EXCEPT ![i] = e]]
  BY <1>1 DEF State
<1>5. /\ r \in State
      /\ r.ports = s.ports /\ r.every = s.every /\ r.static = s.static
      /\ r.beacons = s.beacons /\ r.timers = s.timers /\ r.check = s.check
      /\ r.peers = [s.peers EXCEPT ![i] = e]
      /\ r.ids = s.ids /\ r.self = s.self
  BY <1>1, <1>3, <1>4 DEF State
<1>6. CheckedInTime(r)
  <2>1. Timeout \in Nat /\ Check \in Nat /\ s.check \in Nat
        /\ s.peers \in [NodeId -> PeerEntry \cup {None}]
    BY <1>1, ConstantsAssumption DEF State
  <2>2. e.idle = 0
    OBVIOUS
  <2> HIDE DEF e, r
  <2> QED  BY <1>1, <1>5, <2>1, <2>2 DEF CheckedInTime
<1> HIDE DEF r
<1>7. Wanted(r) = Wanted(s)
  BY <1>5 DEF Wanted
<1>8. NodeInv(r)
  BY <1>5, <1>6, <1>7 DEF NodeInv, StaticBounded, BeaconsRight, TimersRight,
                          SelectedRight
<1> QED  BY <1>8 DEF r

(* What a node hears adds a peer, or makes a peer it has younger.          *)
Fresher(s, r) ==
  /\ r.up = s.up /\ r.self = s.self /\ r.ports = s.ports /\ r.every = s.every
  /\ \A i \in NodeId :
       s.peers[i] # None =>
         r.peers[i] # None /\ r.peers[i].idle <= s.peers[i].idle

LEMMA FresherThanItself ==
  ASSUME NEW s \in State
  PROVE  Fresher(s, s)
PROOF
<1>1. \A i \in NodeId : s.peers[i] # None => s.peers[i].idle \in Nat
  BY DEF State, PeerEntry
<1> QED  BY <1>1 DEF Fresher

LEMMA HeardIsFresher ==
  ASSUME NEW s \in State, NEW i \in NodeId, NEW via \in Path
  PROVE  LET r == [s EXCEPT !.peers[i] = [idle |-> 0, via |-> via]]
         IN  /\ Fresher(s, r) /\ r.timers = s.timers
             /\ r.peers[i] # None /\ r.peers[i].idle = 0
PROOF
<1> DEFINE e == [idle |-> 0, via |-> via]
           r == [s EXCEPT !.peers[i] = e]
<1>1. e \in PeerEntry /\ e # None /\ e.idle = 0
  BY NoneIsNoEntry DEF PeerEntry
<1>2. /\ r.up = s.up /\ r.ids = s.ids /\ r.self = s.self /\ r.ports = s.ports
      /\ r.every = s.every /\ r.beacons = s.beacons /\ r.timers = s.timers
      /\ r.peers = [s.peers EXCEPT ![i] = e]
  BY DEF State
<1>3. s.peers \in [NodeId -> PeerEntry \cup {None}]
  BY DEF State
<1>4. \A j \in NodeId : s.peers[j] # None => s.peers[j].idle \in Nat
  BY <1>3 DEF PeerEntry
<1> HIDE DEF e, r
<1>5. r.peers[i] = e /\ \A j \in NodeId : j # i => r.peers[j] = s.peers[j]
  BY <1>2, <1>3
<1>6. ASSUME NEW j \in NodeId, s.peers[j] # None
      PROVE  r.peers[j] # None /\ r.peers[j].idle <= s.peers[j].idle
  <2>1. CASE j = i
    BY <2>1, <1>1, <1>4, <1>5, <1>6
  <2>2. CASE j # i
    BY <2>2, <1>4, <1>5, <1>6
  <2> QED  BY <2>1, <2>2
<1>7. /\ Fresher(s, r) /\ r.timers = s.timers
      /\ r.peers[i] # None /\ r.peers[i].idle = 0
  BY <1>1, <1>2, <1>5, <1>6 DEF Fresher
<1> QED  BY <1>7 DEF r, e

LEMMA HandleBeaconInv ==
  ASSUME NEW s, NodeInv(s), NEW i \in NodeId, NEW via \in Path
  PROVE  /\ NodeInv(HandleBeacon(s, i, via))
         /\ Fresher(s, HandleBeacon(s, i, via))
         /\ HandleBeacon(s, i, via).timers = s.timers
         /\ HandleBeacon(s, i, via).peers[i] # None
         /\ HandleBeacon(s, i, via).peers[i].idle = 0
PROOF
<1> DEFINE to == IF s.peers[i] = None THEN via ELSE s.peers[i].via
           r  == [s EXCEPT !.peers[i] = [idle |-> 0, via |-> to]]
<1>1. s \in State /\ s.peers[i] \in PeerEntry \cup {None}
  BY DEF NodeInv, State
<1>2. to \in Path
  BY <1>1 DEF PeerEntry
<1>3. HandleBeacon(s, i, via) = r
  <2>1. CASE s.peers[i] = None
    BY <2>1, <1>1 DEF HandleBeacon, State
  <2>2. CASE s.peers[i] # None
    <3>1. [s.peers[i] EXCEPT !.idle = 0] = [idle |-> 0, via |-> s.peers[i].via]
      BY <2>2, <1>1 DEF PeerEntry
    <3> QED  BY <2>2, <3>1, <1>1 DEF HandleBeacon, State
  <2> QED  BY <2>1, <2>2
<1> HIDE DEF to
<1>4. NodeInv(r)
  BY <1>2, HeardInv
<1>5. /\ Fresher(s, r) /\ r.timers = s.timers
      /\ r.peers[i] # None /\ r.peers[i].idle = 0
  BY <1>1, <1>2, HeardIsFresher
<1> QED  BY <1>3, <1>4, <1>5

LEMMA HandleMessageInv ==
  ASSUME NEW s, NodeInv(s), NEW i \in NodeId, NEW via \in Path
  PROVE  /\ NodeInv(HandleMessage(s, i, via))
         /\ Fresher(s, HandleMessage(s, i, via))
         /\ HandleMessage(s, i, via).timers = s.timers
PROOF
<1>1. s \in State
  BY DEF NodeInv
<1> QED  BY <1>1, HeardInv, HeardIsFresher, FresherThanItself DEF HandleMessage

(* A beacon whose timer has fired gets a new one.                          *)
LEMMA FireInv ==
  ASSUME NEW s, NodeInv(s), NEW t \in s.timers
  PROVE  LET r == Arm([s EXCEPT !.timers = @ \ {t}], {t.beacon})
         IN  /\ NodeInv(r)
             /\ r.up = s.up /\ r.self = s.self /\ r.ports = s.ports
             /\ r.every = s.every /\ r.peers = s.peers
             /\ r.timers = (s.timers \ {t})
                             \cup {[beacon |-> t.beacon, left |-> t.beacon.every]}
PROOF
<1> DEFINE new == [beacon |-> t.beacon, left |-> t.beacon.every]
           r   == [s EXCEPT !.timers = (s.timers \ {t}) \cup {new}]
<1>1. s \in State /\ TimersRight(s)
  BY DEF NodeInv
<1>2. Arm([s EXCEPT !.timers = @ \ {t}], {t.beacon}) = r
  BY <1>1 DEF Arm, State
<1>3. new \in Timer /\ t \in Timer /\ t.beacon \in s.beacons
      /\ t.beacon.every \in Nat
  <2>1. t \in Timer /\ t.beacon \in s.beacons
    BY <1>1 DEF State, TimersRight
  <2>2. t.beacon \in Beacon
    BY <2>1 DEF Timer
  <2>3. t.beacon.every \in Nat
    BY <2>2, IntervalIsPositive DEF Beacon
  <2> QED  BY <2>1, <2>2, <2>3 DEF Timer
<1>4. /\ r \in State
      /\ r.ports = s.ports /\ r.every = s.every /\ r.static = s.static
      /\ r.beacons = s.beacons /\ r.check = s.check /\ r.peers = s.peers
      /\ r.ids = s.ids /\ r.self = s.self /\ r.up = s.up
      /\ r.timers = (s.timers \ {t}) \cup {new}
  BY <1>1, <1>3 DEF State
<1>5. new.beacon = t.beacon /\ new.left = t.beacon.every
  OBVIOUS
<1> HIDE DEF new, r
<1>6. TimersRight(r)
  <2>1. \A u \in r.timers : u.beacon \in r.beacons /\ u.left <= u.beacon.every
    BY <1>1, <1>3, <1>4, <1>5 DEF TimersRight
  <2>2. ASSUME NEW b \in r.beacons PROVE \E u \in r.timers : u.beacon = b
    <3>1. PICK u \in s.timers : u.beacon = b
      BY <1>1, <1>4 DEF TimersRight
    <3> QED  BY <3>1, <1>4, <1>5
  <2>3. \A u, v \in r.timers : u.beacon = v.beacon => u = v
    BY <1>1, <1>4, <1>5 DEF TimersRight
  <2> QED  BY <2>1, <2>2, <2>3 DEF TimersRight
<1>7. Wanted(r) = Wanted(s)
  BY <1>4 DEF Wanted
<1>8. NodeInv(r)
  BY <1>4, <1>6, <1>7 DEF NodeInv, StaticBounded, BeaconsRight, SelectedRight,
                          CheckedInTime
<1> QED  BY <1>2, <1>4, <1>8 DEF new

(* The check leaves those that were heard of within the timeout.           *)
LEMMA CheckActivityInv ==
  ASSUME NEW s, NodeInv(s)
  PROVE  LET r == CheckActivity(s)
         IN  /\ NodeInv(r)
             /\ r.up = s.up /\ r.self = s.self /\ r.ports = s.ports
             /\ r.every = s.every /\ r.timers = s.timers
             /\ r.peers = [i \in NodeId |-> IF i \in Silent(s) THEN None
                                            ELSE s.peers[i]]
PROOF
<1> DEFINE left == [i \in NodeId |-> IF i \in Silent(s) THEN None ELSE s.peers[i]]
           r    == [s EXCEPT !.check = Check, !.peers = left]
<1>1. s \in State
  BY DEF NodeInv
<1>2. CheckActivity(s) = r
  BY <1>1 DEF CheckActivity, State
<1>3. Check \in Nat /\ Timeout \in Nat
      /\ s.peers \in [NodeId -> PeerEntry \cup {None}]
  BY <1>1, ConstantsAssumption DEF State
<1>4. left \in [NodeId -> PeerEntry \cup {None}]
  BY <1>3
<1>5. /\ r \in State
      /\ r.ports = s.ports /\ r.every = s.every /\ r.static = s.static
      /\ r.beacons = s.beacons /\ r.timers = s.timers /\ r.check = Check
      /\ r.peers = left /\ r.ids = s.ids /\ r.self = s.self /\ r.up = s.up
  BY <1>1, <1>3, <1>4 DEF State
<1>6. CheckedInTime(r)
  <2>1. ASSUME NEW i \in NodeId, left[i] # None
        PROVE  left[i].idle + Check <= Timeout + Check
    <3>1. left[i] = s.peers[i] /\ i \notin Silent(s)
      BY <2>1
    <3>2. s.peers[i].idle \in Nat
      BY <3>1, <2>1, <1>3 DEF PeerEntry
    <3>3. ~(s.peers[i].idle > Timeout)
      BY <3>1, <2>1 DEF Silent
    <3> QED  BY <3>1, <3>2, <3>3, <1>3
  <2> QED  BY <1>3, <1>5, <2>1 DEF CheckedInTime
<1> HIDE DEF left, r
<1>7. Wanted(r) = Wanted(s)
  BY <1>5 DEF Wanted
<1>8. NodeInv(r)
  BY <1>5, <1>6, <1>7 DEF NodeInv, StaticBounded, BeaconsRight, TimersRight,
                          SelectedRight
<1> QED  BY <1>2, <1>5, <1>8 DEF left

(* A unit of time, when nothing is due.                                    *)
LEMMA OlderInv ==
  ASSUME NEW s, NodeInv(s), s.up, ~Due(s)
  PROVE  LET r == Older(s)
         IN  /\ NodeInv(r)
             /\ r.up = s.up /\ r.self = s.self /\ r.ports = s.ports
             /\ r.every = s.every
             /\ \A t \in r.timers : \E u \in s.timers :
                  t.beacon = u.beacon /\ t.left = u.left - 1
             /\ \A i \in NodeId :
                  /\ s.peers[i] = None => r.peers[i] = None
                  /\ s.peers[i] # None => r.peers[i] # None
                                          /\ r.peers[i].idle = s.peers[i].idle + 1
PROOF
<1> DEFINE older(t) == [t EXCEPT !.left = @ - 1]
           timers == {older(t) : t \in s.timers}
           peers  == [i \in NodeId |-> IF s.peers[i] = None THEN None
                                       ELSE [s.peers[i] EXCEPT !.idle = @ + 1]]
           r == [s EXCEPT !.check = s.check - 1, !.timers = timers, !.peers = peers]
<1>1. s \in State /\ TimersRight(s) /\ CheckedInTime(s)
  BY DEF NodeInv
<1>2. Older(s) = r
  BY DEF Older
<1>3. /\ s.check \in Nat /\ s.check # 0 /\ Timeout \in Nat /\ Check \in Nat
      /\ s.peers \in [NodeId -> PeerEntry \cup {None}]
      /\ s.timers \in SUBSET Timer
      /\ \A t \in s.timers : t.left # 0
  BY <1>1, ConstantsAssumption DEF State, Due
<1>4. \A t \in s.timers : /\ older(t) \in Timer /\ older(t).beacon = t.beacon
                          /\ older(t).left = t.left - 1
                          /\ t = [beacon |-> t.beacon, left |-> t.left]
                          /\ t.left \in Nat /\ t.beacon.every \in Nat
  BY <1>3, IntervalIsPositive DEF Timer, Beacon
<1>5. /\ peers \in [NodeId -> PeerEntry \cup {None}]
      /\ \A i \in NodeId :
           /\ s.peers[i] = None => peers[i] = None
           /\ s.peers[i] # None => /\ peers[i] # None /\ s.peers[i].idle \in Nat
                                   /\ peers[i].idle = s.peers[i].idle + 1
  <2>1. ASSUME NEW i \in NodeId, s.peers[i] # None
        PROVE  /\ [s.peers[i] EXCEPT !.idle = @ + 1] \in PeerEntry
               /\ [s.peers[i] EXCEPT !.idle = @ + 1].idle = s.peers[i].idle + 1
               /\ s.peers[i].idle \in Nat
    <3>1. s.peers[i] \in PeerEntry
      BY <2>1, <1>3
    <3> QED  BY <3>1 DEF PeerEntry
  <2> QED  BY <2>1, <1>3, NoneIsNoEntry
<1> HIDE DEF older, peers
<1>6. /\ r \in State
      /\ r.ports = s.ports /\ r.every = s.every /\ r.static = s.static
      /\ r.beacons = s.beacons /\ r.timers = timers /\ r.check = s.check - 1
      /\ r.peers = peers /\ r.ids = s.ids /\ r.self = s.self /\ r.up = s.up
  <2>1. timers \in SUBSET Timer /\ s.check - 1 \in Nat
    BY <1>3, <1>4
  <2> HIDE DEF timers
  <2> QED  BY <1>1, <1>5, <2>1 DEF State
<1> HIDE DEF r
<1>7. TimersRight(r)
  <2>1. \A t \in r.timers : t.beacon \in r.beacons /\ t.left <= t.beacon.every
    BY <1>1, <1>4, <1>6 DEF TimersRight
  <2>2. ASSUME NEW b \in r.beacons PROVE \E t \in r.timers : t.beacon = b
    <3>1. PICK t \in s.timers : t.beacon = b
      BY <1>1, <1>6 DEF TimersRight
    <3>2. older(t) \in r.timers
      BY <1>6
    <3> QED  BY <3>1, <3>2, <1>4
  <2>3. \A t, u \in r.timers : t.beacon = u.beacon => t = u
    <3>1. TAKE v, w \in r.timers
    <3>2. PICK t \in s.timers : v = older(t)
      BY <1>6
    <3>3. PICK u \in s.timers : w = older(u)
      BY <1>6
    <3>4. t.beacon = u.beacon => t = u
      BY <1>1 DEF TimersRight
    <3> QED  BY <3>2, <3>3, <3>4, <1>4
  <2> QED  BY <2>1, <2>2, <2>3 DEF TimersRight
<1>8. CheckedInTime(r)
  <2>1. ASSUME NEW i \in NodeId, peers[i] # None
        PROVE  peers[i].idle + (s.check - 1) <= Timeout + Check
    <3>1. s.peers[i].idle + s.check <= Timeout + Check
      BY <2>1, <1>1, <1>5 DEF CheckedInTime
    <3>2. peers[i].idle = s.peers[i].idle + 1 /\ s.peers[i].idle \in Nat
      BY <2>1, <1>5
    <3> QED  BY <3>1, <3>2, <1>3
  <2> QED  BY <2>1, <1>1, <1>3, <1>6 DEF CheckedInTime
<1>9. Wanted(r) = Wanted(s)
  BY <1>6 DEF Wanted
<1>10. NodeInv(r)
  BY <1>6, <1>7, <1>8, <1>9 DEF NodeInv, StaticBounded, BeaconsRight, SelectedRight
<1>11. \A t \in r.timers : \E u \in s.timers :
         t.beacon = u.beacon /\ t.left = u.left - 1
  BY <1>4, <1>6
<1> HIDE DEF timers
<1> QED  BY <1>2, <1>5, <1>6, <1>10, <1>11

-----------------------------------------------------------------------------
(* The steps of the overlay.                                               *)

LEMMA TimersRunWithinInterval ==
  ASSUME NEW s, NodeInv(s), NEW t \in s.timers
  PROVE  /\ t \in Timer /\ t.left \in Nat /\ s.every \in Nat /\ t.left <= s.every
         /\ t.beacon \in s.beacons /\ t.beacon.to \in Dest
         /\ t.beacon.every = s.every
PROOF
<1>1. s \in State /\ BeaconsRight(s) /\ TimersRight(s)
  BY DEF NodeInv
<1>2. t \in Timer /\ s.every \in Nat
  BY <1>1, IntervalIsPositive DEF State
<1>3. t.left \in Nat /\ t.beacon \in Beacon
  BY <1>2 DEF Timer
<1>4. t.beacon \in s.beacons /\ t.left <= t.beacon.every
  BY <1>1 DEF TimersRight
<1>5. t.beacon.every = s.every
  BY <1>1, <1>4, MembersOfWanted DEF BeaconsRight
<1> QED  BY <1>2, <1>3, <1>4, <1>5 DEF Beacon

LEMMA PathsAreTyped ==
  ASSUME NEW n \in Node
  PROVE  /\ \A to \in Dest : <<Ear(to), <<n, to[1]>>>> \in Path
         /\ \A to \in Path : <<Ear(to), <<n, to[1]>>>> \in Path
PROOF
<1>1. ASSUME NEW to \in Dest PROVE <<Ear(to), <<n, to[1]>>>> \in Path
  <2>1. CASE to \in Multicast \X {None}
    BY <2>1, ConstantsAssumption DEF Ear, Path, Address
  <2>2. CASE to \in Unicast \X Target
    BY <2>2, TargetIsNotNone, ConstantsAssumption DEF Ear, Path, Address, Unicast
  <2> QED  BY <2>1, <2>2 DEF Dest
<1>2. ASSUME NEW to \in Path PROVE <<Ear(to), <<n, to[1]>>>> \in Path
  BY NoneAssumption DEF Ear, Path, Address
<1> QED  BY <1>1, <1>2

LEMMA DownIsInv == NodeInv(Down)
PROOF
<1>1. Down = [Down EXCEPT !.up = FALSE]
  <2>1. <<>> \in Seq(NodeId) /\ DefaultInterval \in Interval /\ Check \in Nat
    BY ConstantsAssumption
  <2>2. Down \in State /\ Down.up = FALSE
    BY <2>1 DEF Down, State, NoPeers
  <2> QED  BY <2>2 DEF State
<1> QED  BY <1>1, DownInv

LEMMA InitIsInv == Init => IInv
PROOF
<1> SUFFICES ASSUME Init PROVE IInv
  OBVIOUS
<1>2. NodeInv(Down)
  BY DownIsInv
<1>3. TypeOK
  BY <1>2, ConstantsAssumption DEF Init, TypeOK, NodeInv
<1>4. Punctual
  BY DEF Init, Punctual, Down
<1> QED  BY <1>2, <1>3, <1>4 DEF Init, IInv

(* A disturbance starts the time of quiet over.                            *)
LEMMA DisturbedIsPunctual ==
  ASSUME quiet' = 0, \A n \in Node : NodeInv(node[n])'
  PROVE  Punctual'
PROOF
<1>1. ASSUME NEW n \in Node, NEW m \in Node, NEW t \in node'[n].timers
      PROVE  Heard(quiet', t, node'[n], node'[m])
  <2>1. NodeInv(node'[n])
    OBVIOUS
  <2>2. t.left \in Nat /\ t.left <= node'[n].every /\ node'[n].every \in Nat
    BY <2>1, TimersRunWithinInterval
  <2> QED  BY <2>2 DEF Heard
<1> QED  BY <1>1 DEF Punctual

LEMMA BecomeKeepsInv ==
  ASSUME IInv, NEW n \in Node, NEW s, NodeInv(s), Become(n, s)
  PROVE  IInv'
PROOF
<1>1. s \in State /\ node \in [Node -> State] /\ node' = [node EXCEPT ![n] = s]
  BY DEF NodeInv, IInv, TypeOK, Become
<1>2. \A m \in Node : NodeInv(node'[m])
  BY <1>1 DEF IInv
<1>3. TypeOK'
  BY <1>1, ConstantsAssumption DEF IInv, TypeOK, Become
<1>4. Punctual'
  BY <1>2, DisturbedIsPunctual DEF Become
<1> QED  BY <1>2, <1>3, <1>4 DEF IInv

(* What hearing changes does not make a timer late that was there.         *)
LEMMA FresherStaysPunctual ==
  ASSUME IInv, quiet' = quiet,
         \A n \in Node : NodeInv(node'[n]) /\ Fresher(node[n], node'[n]),
         NEW n \in Node, NEW m \in Node, NEW t \in node[n].timers,
         node'[n].up, node'[n].self # None, m \in Hearers(t.beacon.to)',
         node'[n].every <= Timeout
  PROVE  Heard(quiet', t, node'[n], node'[m])
PROOF
<1>1. /\ node[n].up /\ node[n].self # None /\ node[n].every <= Timeout
      /\ node'[n].self = node[n].self /\ node'[n].every = node[n].every
  BY DEF Fresher
<1>2. m \in Hearers(t.beacon.to)
  BY DEF Hearers, Fresher
<1>3. Heard(quiet, t, node[n], node[m])
  BY <1>1, <1>2 DEF IInv, Punctual
<1>4. NodeInv(node[n]) /\ NodeInv(node[m]) /\ node[m] \in State /\ node[n] \in State
  BY DEF IInv, NodeInv
<1>5. t.left \in Nat /\ node[n].every \in Nat
  BY <1>4, TimersRunWithinInterval
<1>6. node[n].self \in NodeId
  BY <1>1, <1>4 DEF State
<1>7. ASSUME node[m].peers[node[n].self] # None
      PROVE  /\ node[m].peers[node[n].self].idle \in Nat
             /\ node'[m].peers[node[n].self] # None
             /\ node'[m].peers[node[n].self].idle <= node[m].peers[node[n].self].idle
  BY <1>4, <1>6, <1>7 DEF State, PeerEntry, Fresher
<1>8. CASE quiet + t.left <= node[n].every
  BY <1>1, <1>8 DEF Heard
<1>9. CASE /\ node[m].peers[node[n].self] # None
           /\ node[m].peers[node[n].self].idle + t.left <= node[n].every
  <2>1. node'[m].peers[node[n].self].idle \in Nat
    <3>1. NodeInv(node'[m])
      OBVIOUS
    <3> QED  BY <3>1, <1>6, <1>7, <1>9 DEF NodeInv, State, PeerEntry
  <2>2. node'[m].peers[node[n].self].idle + t.left <= node[n].every
    BY <2>1, <1>5, <1>7, <1>9
  <2> QED  BY <2>2, <1>1, <1>7, <1>9 DEF Heard
<1> QED  BY <1>3, <1>8, <1>9 DEF Heard

LEMMA BeaconTimerKeepsInv ==
  ASSUME IInv, NEW n \in Node, BeaconTimer(n)
  PROVE  /\ IInv'
         /\ \A m \in Node : /\ Fresher(node[m], node'[m])
                            /\ ~node[m].up => node'[m].peers = node[m].peers
PROOF
<1>1. PICK t \in node[n].timers, got \in SUBSET Node :
        LET s    == node[n]
            next == [node EXCEPT ![n] = Arm([s EXCEPT !.timers = @ \ {t}], {t.beacon})]
            to   == t.beacon.to
            all  == IF s.self = None THEN {} ELSE Hearers(to)
            path == <<Ear(to), <<n, to[1]>>>>
        IN  /\ t.left = 0
            /\ got \subseteq all
            /\ node' = [m \in Node |-> IF m \in got
                                       THEN HandleBeacon(next[m], s.self, path)
                                       ELSE next[m]]
            /\ quiet' = IF got = all THEN quiet ELSE 0
            /\ changes' = changes
  BY DEF BeaconTimer, Hearers
<1> DEFINE s    == node[n]
           new  == [beacon |-> t.beacon, left |-> t.beacon.every]
           next == [node EXCEPT ![n] = Arm([s EXCEPT !.timers = @ \ {t}], {t.beacon})]
           to   == t.beacon.to
           all  == IF s.self = None THEN {} ELSE Hearers(to)
           path == <<Ear(to), <<n, to[1]>>>>
<1>2. /\ got \subseteq all
      /\ node' = [m \in Node |-> IF m \in got THEN HandleBeacon(next[m], s.self, path)
                                 ELSE next[m]]
      /\ quiet' = IF got = all THEN quiet ELSE 0
      /\ changes' = changes
  BY <1>1
<1>3. /\ node \in [Node -> State] /\ \A m \in Node : NodeInv(node[m])
      /\ s \in State
  BY DEF IInv, TypeOK
<1>4. to \in Dest /\ t.beacon.every = s.every /\ path \in Path
  BY <1>3, TimersRunWithinInterval, PathsAreTyped
<1>5. ASSUME NEW m \in Node
      PROVE  /\ NodeInv(next[m])
             /\ next[m].up = node[m].up /\ next[m].self = node[m].self
             /\ next[m].ports = node[m].ports /\ next[m].every = node[m].every
             /\ next[m].peers = node[m].peers
             /\ next[m].timers = IF m = n THEN (s.timers \ {t}) \cup {new}
                                 ELSE node[m].timers
  <2>1. CASE m = n
    BY <2>1, <1>3, FireInv
  <2>2. CASE m # n
    BY <2>2, <1>3
  <2> QED  BY <2>1, <2>2
<1>6. got # {} => s.self \in NodeId
  BY <1>2, <1>3 DEF State
<1> HIDE DEF next, path, new, to, all
<1>7. ASSUME NEW m \in Node
      PROVE  /\ NodeInv(node'[m]) /\ Fresher(node[m], node'[m])
             /\ node'[m].timers = next[m].timers
             /\ m \in got => /\ node'[m].peers[s.self] # None
                             /\ node'[m].peers[s.self].idle = 0
             /\ ~node[m].up => node'[m].peers = node[m].peers
  <2>1. next[m] \in State
    BY <1>5 DEF NodeInv
  <2>2. CASE m \in got
    <3>1. node'[m] = HandleBeacon(next[m], s.self, path) /\ s.self \in NodeId
      BY <2>2, <1>2, <1>6
    <3>2. /\ NodeInv(node'[m]) /\ Fresher(next[m], node'[m])
          /\ node'[m].timers = next[m].timers
          /\ node'[m].peers[s.self] # None /\ node'[m].peers[s.self].idle = 0
      BY <3>1, <1>4, <1>5, HandleBeaconInv
    <3>3. node[m].up
      BY <2>2, <1>2 DEF all, Hearers
    <3> QED  BY <3>2, <3>3, <1>5 DEF Fresher
  <2>3. CASE m \notin got
    <3>1. node'[m] = next[m]
      BY <2>3, <1>2
    <3> QED  BY <2>1, <2>3, <3>1, <1>5, FresherThanItself DEF Fresher
  <2> QED  BY <2>2, <2>3
<1>8. TypeOK'
  <2>1. node' \in [Node -> State]
    BY <1>2, <1>7 DEF NodeInv
  <2> QED  BY <2>1, <1>2, ConstantsAssumption DEF IInv, TypeOK
<1>9. Punctual'
  <2>1. CASE quiet' = 0
    BY <2>1, <1>7, DisturbedIsPunctual
  <2>2. CASE quiet' = quiet /\ got = all
    <3> SUFFICES ASSUME NEW a \in Node, NEW m \in Node, NEW u \in node'[a].timers,
                        node'[a].up, node'[a].self # None,
                        m \in Hearers(u.beacon.to)', node'[a].every <= Timeout
                 PROVE  Heard(quiet', u, node'[a], node'[m])
      BY DEF Punctual
    <3>1. CASE u \in node[a].timers
      BY <3>1, <2>2, <1>7, FresherStaysPunctual
    <3>2. CASE u \notin node[a].timers
      <4>1. a = n /\ u = new
        BY <3>2, <1>5, <1>7
      <4>2. u.beacon.to = to /\ u.left = s.every
        BY <4>1, <1>4 DEF new, to
      <4>3. m \in Hearers(to)
        BY <4>2, <1>7 DEF Hearers, Fresher
      <4>4. s.self # None /\ node'[a].self = s.self /\ node'[a].every = s.every
        BY <4>1, <1>7 DEF Fresher
      <4>5. m \in got
        BY <2>2, <4>3, <4>4 DEF all
      <4>6. s.every \in Nat
        BY <1>3, IntervalIsPositive DEF State
      <4> QED  BY <4>2, <4>4, <4>5, <4>6, <1>7 DEF Heard
    <3> QED  BY <3>1, <3>2
  <2> QED  BY <2>1, <2>2, <1>2
<1> QED  BY <1>7, <1>8, <1>9 DEF IInv

LEMMA SendMessageKeepsInv ==
  ASSUME IInv, NEW n \in Node, SendMessage(n)
  PROVE  /\ IInv'
         /\ \A m \in Node : /\ Fresher(node[m], node'[m])
                            /\ ~node[m].up => node'[m].peers = node[m].peers
PROOF
<1>1. PICK i \in NodeId :
        LET via == node[n].peers[i].via
        IN  /\ node[n].peers[i] # None
            /\ node' = [m \in Node |->
                 IF m \in Hearers(via)
                 THEN HandleMessage(node[m], node[n].self, <<Ear(via), <<n, via[1]>>>>)
                 ELSE node[m]]
  BY DEF SendMessage
<1> DEFINE via  == node[n].peers[i].via
           path == <<Ear(via), <<n, via[1]>>>>
<1>2. quiet' = quiet /\ changes' = changes /\ node[n].self # None
  BY DEF SendMessage
<1>3. /\ node \in [Node -> State] /\ \A m \in Node : NodeInv(node[m])
  BY DEF IInv, TypeOK
<1>4. via \in Path /\ node[n].self \in NodeId
  <2>1. node[n] \in State /\ node[n].peers[i] \in PeerEntry
    BY <1>1, <1>3 DEF State
  <2> QED  BY <2>1, <1>2 DEF PeerEntry, State
<1>5. node' = [m \in Node |-> IF m \in Hearers(via)
                              THEN HandleMessage(node[m], node[n].self, path)
                              ELSE node[m]]
  BY <1>1
<1> HIDE DEF via
<1>6. path \in Path
  BY <1>4, PathsAreTyped
<1> HIDE DEF path
<1>7. ASSUME NEW m \in Node
      PROVE  /\ NodeInv(node'[m]) /\ Fresher(node[m], node'[m])
             /\ node'[m].timers = node[m].timers
             /\ ~node[m].up => node'[m].peers = node[m].peers
  <2>1. node[m] \in State
    BY <1>3
  <2>2. CASE m \in Hearers(via)
    <3>1. node[m].up
      BY <2>2 DEF Hearers
    <3> QED  BY <2>2, <3>1, <1>3, <1>4, <1>5, <1>6, HandleMessageInv
  <2>3. CASE m \notin Hearers(via)
    BY <2>1, <2>3, <1>3, <1>5, FresherThanItself
  <2> QED  BY <2>2, <2>3
<1>8. TypeOK'
  <2>1. node' \in [Node -> State]
    BY <1>5, <1>7 DEF NodeInv
  <2> QED  BY <2>1, <1>2 DEF IInv, TypeOK
<1>9. Punctual'
  BY <1>2, <1>7, FresherStaysPunctual DEF Punctual
<1> QED  BY <1>7, <1>8, <1>9 DEF IInv

LEMMA ActivityTimerKeepsInv ==
  ASSUME IInv, NEW n \in Node, ActivityTimer(n)
  PROVE  IInv'
PROOF
<1> DEFINE s == node[n]
           r == CheckActivity(s)
<1>1. /\ node' = [node EXCEPT ![n] = r] /\ quiet' = quiet /\ changes' = changes
      /\ node \in [Node -> State] /\ \A m \in Node : NodeInv(node[m])
  BY DEF ActivityTimer, IInv, TypeOK
<1>2. /\ NodeInv(r)
      /\ r.up = s.up /\ r.self = s.self /\ r.ports = s.ports
      /\ r.every = s.every /\ r.timers = s.timers
      /\ r.peers = [i \in NodeId |-> IF i \in Silent(s) THEN None ELSE s.peers[i]]
  BY <1>1, CheckActivityInv
<1> HIDE DEF r
<1>3. \A m \in Node : NodeInv(node'[m])
  BY <1>1, <1>2
<1>4. TypeOK'
  BY <1>1, <1>2 DEF IInv, TypeOK, NodeInv
<1>5. Punctual'
  <2> SUFFICES ASSUME NEW a \in Node, NEW m \in Node, NEW t \in node'[a].timers,
                      node'[a].up, node'[a].self # None,
                      m \in Hearers(t.beacon.to)', node'[a].every <= Timeout
               PROVE  Heard(quiet', t, node'[a], node'[m])
    BY DEF Punctual
  <2>1. \A x \in Node : /\ node'[x].up = node[x].up /\ node'[x].self = node[x].self
                        /\ node'[x].ports = node[x].ports
                        /\ node'[x].every = node[x].every
                        /\ node'[x].timers = node[x].timers
    BY <1>1, <1>2
  <2>2. m \in Hearers(t.beacon.to)
    BY <2>1 DEF Hearers
  <2>3. Heard(quiet, t, node[a], node[m])
    BY <2>1, <2>2 DEF IInv, Punctual
  <2>4. t.left \in Nat /\ node[a].every \in Nat /\ node[a].self \in NodeId
        /\ Timeout \in Nat
    <3>1. node[a] \in State
      BY <1>1
    <3> QED  BY <3>1, <2>1, <1>1, TimersRunWithinInterval, ConstantsAssumption DEF State
  <2>5. CASE node'[m].peers[node[a].self] = node[m].peers[node[a].self]
    BY <2>1, <2>3, <2>5, <1>1 DEF Heard
  <2>6. CASE node'[m].peers[node[a].self] # node[m].peers[node[a].self]
    <3>1. m = n /\ node[a].self \in Silent(s)
      BY <2>4, <2>6, <1>1, <1>2
    <3>2. s.peers[node[a].self] # None /\ s.peers[node[a].self].idle > Timeout
      BY <3>1 DEF Silent
    <3>3. s.peers[node[a].self].idle \in Nat
      BY <3>2, <2>4, <1>1 DEF State, PeerEntry
    <3>4. quiet + t.left <= node[a].every
      BY <3>1, <3>2, <3>3, <2>1, <2>3, <2>4 DEF Heard
    <3> QED  BY <3>4, <2>1, <1>1 DEF Heard
  <2> QED  BY <2>5, <2>6
<1> QED  BY <1>3, <1>4, <1>5 DEF IInv

LEMMA TickKeepsInv ==
  ASSUME IInv, Tick
  PROVE  IInv'
PROOF
<1>1. /\ node \in [Node -> State] /\ \A n \in Node : NodeInv(node[n])
      /\ \A n \in Node : ~Due(node[n])
      /\ node' = [n \in Node |-> Older(node[n])]
      /\ quiet \in 0 .. MaxQuiet /\ MaxQuiet \in Nat
      /\ quiet' = IF quiet < MaxQuiet THEN quiet + 1 ELSE MaxQuiet
      /\ changes' = changes
  BY ConstantsAssumption DEF IInv, TypeOK, Tick
<1>2. quiet' \in 0 .. MaxQuiet /\ quiet' <= quiet + 1 /\ quiet \in Nat /\ quiet' \in Nat
  BY <1>1
<1>3. ASSUME NEW n \in Node, ~node[n].up PROVE node'[n] = node[n]
  BY <1>1, <1>3 DEF Older
<1>4. ASSUME NEW n \in Node, node[n].up
      PROVE  /\ NodeInv(node'[n])
             /\ node'[n].up = node[n].up /\ node'[n].self = node[n].self
             /\ node'[n].ports = node[n].ports /\ node'[n].every = node[n].every
             /\ \A t \in node'[n].timers : \E u \in node[n].timers :
                  t.beacon = u.beacon /\ t.left = u.left - 1
             /\ \A i \in NodeId :
                  node[n].peers[i] # None =>
                    /\ node'[n].peers[i] # None
                    /\ node'[n].peers[i].idle = node[n].peers[i].idle + 1
  BY <1>1, <1>4, OlderInv
<1>5. \A n \in Node : NodeInv(node'[n])
  BY <1>1, <1>3, <1>4
<1>6. TypeOK'
  <2>1. node' \in [Node -> State]
    BY <1>1, <1>5 DEF NodeInv
  <2> QED  BY <2>1, <1>1, <1>2 DEF IInv, TypeOK
<1>7. Punctual'
  <2> SUFFICES ASSUME NEW n \in Node, NEW m \in Node, NEW t \in node'[n].timers,
                      node'[n].up, node'[n].self # None,
                      m \in Hearers(t.beacon.to)', node'[n].every <= Timeout
               PROVE  Heard(quiet', t, node'[n], node'[m])
    BY DEF Punctual
  <2>1. node[n].up /\ node[m].up
    BY <1>3 DEF Hearers
  <2>2. PICK u \in node[n].timers : t.beacon = u.beacon /\ t.left = u.left - 1
    BY <1>4, <2>1
  <2>3. m \in Hearers(u.beacon.to)
    BY <1>4, <2>1, <2>2 DEF Hearers
  <2>4. node'[n].self = node[n].self /\ node'[n].every = node[n].every
    BY <1>4, <2>1
  <2>5. Heard(quiet, u, node[n], node[m])
    BY <2>1, <2>3, <2>4 DEF IInv, Punctual
  <2>6. u.left \in Nat /\ node[n].every \in Nat
    BY <1>1, TimersRunWithinInterval
  <2>7. CASE quiet + u.left <= node[n].every
    <3>1. quiet' + t.left <= node[n].every
      BY <1>2, <2>2, <2>6, <2>7
    <3> QED  BY <3>1, <2>4 DEF Heard
  <2>8. CASE /\ node[m].peers[node[n].self] # None
             /\ node[m].peers[node[n].self].idle + u.left <= node[n].every
    <3> DEFINE i == node[n].self
    <3>1. node[n] \in State /\ node[m] \in State
      BY <1>1
    <3>2. i \in NodeId
      BY <3>1, <2>4 DEF State
    <3>3. node[m].peers[i].idle \in Nat
      BY <3>1, <3>2, <2>8 DEF State, PeerEntry
    <3>4. /\ node'[m].peers[i] # None
          /\ node'[m].peers[i].idle = node[m].peers[i].idle + 1
      BY <3>2, <2>1, <2>8, <1>4
    <3>5. node'[m].peers[i].idle + t.left <= node[n].every
      BY <3>3, <3>4, <2>2, <2>6, <2>8
    <3> QED  BY <3>4, <3>5, <2>4 DEF Heard
  <2> QED  BY <2>5, <2>7, <2>8 DEF Heard
<1> QED  BY <1>5, <1>6, <1>7 DEF IInv

LEMMA NextKeepsInv ==
  ASSUME IInv, [Next]_vars
  PROVE  IInv'
PROOF
<1>0. ASSUME NEW n \in Node PROVE NodeInv(node[n]) /\ node[n] \in State
  BY DEF IInv, NodeInv
<1>1. CASE Tick
  BY <1>1, TickKeepsInv
<1>2. ASSUME NEW n \in Node, NodeStep(n) PROVE IInv'
  <2>1. CASE Start(n)
    <3>1. NodeInv([Down EXCEPT !.up = TRUE])
      BY DownInv
    <3> QED  BY <2>1, <3>1, BecomeKeepsInv DEF Start
  <2>2. CASE Stop(n)
    <3>1. NodeInv(Down)
      BY DownIsInv
    <3> QED  BY <2>2, <3>1, BecomeKeepsInv DEF Stop
  <2>3. CASE ConfigurePorts(n)
    <3>1. PICK p \in Port :
            \/ p \notin node[n].ports /\ Become(n, AddPort(node[n], p))
            \/ p \in node[n].ports /\ Become(n, RemPort(node[n], p))
      BY <2>3 DEF ConfigurePorts
    <3>2. CASE p \notin node[n].ports /\ Become(n, AddPort(node[n], p))
      <4>1. NodeInv(AddPort(node[n], p))
        BY <3>2, <1>0, AddPortInv
      <4> QED  BY <3>2, <4>1, BecomeKeepsInv
    <3>3. CASE Become(n, RemPort(node[n], p))
      <4>1. NodeInv(RemPort(node[n], p))
        BY <1>0, RemPortInv
      <4> QED  BY <3>3, <4>1, BecomeKeepsInv
    <3> QED  BY <3>1, <3>2, <3>3
  <2>4. CASE ConfigurePeers(n)
    <3>1. PICK a \in Target :
            \/ /\ node[n].static[a] < MaxStatic
               /\ Become(n, AddStaticPeer(node[n], a))
            \/ Become(n, RemStaticPeer(node[n], a))
      BY <2>4 DEF ConfigurePeers
    <3>2. CASE node[n].static[a] < MaxStatic /\ Become(n, AddStaticPeer(node[n], a))
      <4>1. NodeInv(AddStaticPeer(node[n], a))
        BY <3>2, <1>0, AddStaticPeerInv
      <4> QED  BY <3>2, <4>1, BecomeKeepsInv
    <3>3. CASE Become(n, RemStaticPeer(node[n], a))
      <4>1. NodeInv(RemStaticPeer(node[n], a))
        BY <1>0, RemStaticPeerInv
      <4> QED  BY <3>3, <4>1, BecomeKeepsInv
    <3> QED  BY <3>1, <3>2, <3>3
  <2>5. CASE ConfigureIdentities(n)
    <3>1. PICK i \in OwnId[n] :
            \/ Become(n, AddIdentity(node[n], i))
            \/ Become(n, RemIdentity(node[n], i))
            \/ /\ Contains(node[n].ids, i)
               /\ Become(n, [node[n] EXCEPT !.self = i])
      BY <2>5 DEF ConfigureIdentities
    <3>2. i \in NodeId
      BY ConstantsAssumption
    <3>3. CASE Become(n, AddIdentity(node[n], i))
      <4>1. NodeInv(AddIdentity(node[n], i))
        BY <3>2, <1>0, AddIdentityInv
      <4> QED  BY <3>3, <4>1, BecomeKeepsInv
    <3>4. CASE Become(n, RemIdentity(node[n], i))
      <4>1. NodeInv(RemIdentity(node[n], i))
        BY <3>2, <1>0, RemIdentityInv
      <4> QED  BY <3>4, <4>1, BecomeKeepsInv
    <3>5. CASE Contains(node[n].ids, i) /\ Become(n, [node[n] EXCEPT !.self = i])
      <4>1. NodeInv([node[n] EXCEPT !.self = i])
        BY <3>2, <3>5, <1>0, SelectIdentityInv
      <4> QED  BY <3>5, <4>1, BecomeKeepsInv
    <3> QED  BY <3>1, <3>3, <3>4, <3>5
  <2>6. CASE SetConfig(n)
    <3>1. PICK every \in Interval : Become(n, Reconfigure(node[n], every))
      BY <2>6 DEF SetConfig
    <3>2. NodeInv(Reconfigure(node[n], every))
      BY <1>0, ReconfigureInv
    <3> QED  BY <3>1, <3>2, BecomeKeepsInv
  <2>7. CASE BeaconTimer(n)
    BY <2>7, BeaconTimerKeepsInv
  <2>8. CASE ActivityTimer(n)
    BY <2>8, ActivityTimerKeepsInv
  <2>9. CASE SendMessage(n)
    BY <2>9, SendMessageKeepsInv
  <2> QED
    BY <1>2, <2>1, <2>2, <2>3, <2>4, <2>5, <2>6, <2>7, <2>8, <2>9 DEF NodeStep
<1>3. CASE UNCHANGED vars
  BY <1>3 DEF vars, IInv, TypeOK, Punctual, Hearers
<1> QED  BY <1>1, <1>2, <1>3 DEF Next

(* What the operator does keeps the peers.                                 *)
LEMMA OperationsKeepPeers ==
  ASSUME NEW s \in State, NEW r,
         \/ \E p \in Port : r = AddPort(s, p) \/ r = RemPort(s, p)
         \/ \E a \in Target : r = AddStaticPeer(s, a) \/ r = RemStaticPeer(s, a)
         \/ \E i \in NodeId : \/ r = AddIdentity(s, i) \/ r = RemIdentity(s, i)
                              \/ r = [s EXCEPT !.self = i]
         \/ \E every \in Interval : r = Reconfigure(s, every)
  PROVE  r.up = s.up /\ r.peers = s.peers
PROOF
<1>1. ASSUME NEW p \in Port, r = AddPort(s, p) \/ r = RemPort(s, p)
      PROVE  r.up = s.up /\ r.peers = s.peers
  BY <1>1 DEF AddPort, RemPort, AddBeacons, RemBeacons, Arm, Cancel, State
<1>2. ASSUME NEW a \in Target, r = AddStaticPeer(s, a) \/ r = RemStaticPeer(s, a)
      PROVE  r.up = s.up /\ r.peers = s.peers
  BY <1>2 DEF AddStaticPeer, RemStaticPeer, AddBeacons, RemBeacons, Arm, Cancel, State
<1>3. ASSUME NEW i \in NodeId,
             \/ r = AddIdentity(s, i) \/ r = RemIdentity(s, i)
             \/ r = [s EXCEPT !.self = i]
      PROVE  r.up = s.up /\ r.peers = s.peers
  BY <1>3 DEF AddIdentity, RemIdentity, State
<1>4. ASSUME NEW every \in Interval, r = Reconfigure(s, every)
      PROVE  r.up = s.up /\ r.peers = s.peers
  BY <1>4 DEF Reconfigure, AddBeacons, RemBeacons, Arm, Cancel, State
<1> QED  BY <1>1, <1>2, <1>3, <1>4

(* A node that does not run knows no peers.                                *)
DownIsEmpty == \A n \in Node : ~node[n].up => node[n].peers = NoPeers

Forgets(n) ==
  \A i \in NodeId :
    node[n].peers[i] # None /\ node'[n].peers[i] = None
      => node[n].peers[i].idle > Timeout \/ ~node'[n].up

LEMMA NextForgetsTheSilent ==
  ASSUME IInv, DownIsEmpty, [Next]_vars
  PROVE  DownIsEmpty' /\ \A n \in Node : Forgets(n)
PROOF
<1>0. /\ node \in [Node -> State] /\ \A m \in Node : NodeInv(node[m])
      /\ \A m \in Node : node[m].up \in BOOLEAN
  BY DEF IInv, TypeOK, State
<1>1. ASSUME NEW n \in Node, NEW s, Become(n, s),
             \/ s = Down
             \/ ~node[n].up /\ s = [Down EXCEPT !.up = TRUE]
             \/ node[n].up /\ s.up = node[n].up /\ s.peers = node[n].peers
      PROVE  DownIsEmpty' /\ \A m \in Node : Forgets(m)
  <2>1. node' = [node EXCEPT ![n] = s]
    BY <1>1 DEF Become
  <2>2. \A m \in Node : m # n => node'[m] = node[m]
    BY <2>1, <1>0
  <2>3. node'[n] = s
    BY <2>1, <1>0
  <2>4. Down.up = FALSE /\ Down.peers = NoPeers
        /\ [Down EXCEPT !.up = TRUE].up = TRUE
    BY DEF Down
  <2>5. ~node[n].up => \A i \in NodeId : node[n].peers[i] = None
    BY DEF DownIsEmpty, NoPeers
  <2>6. ~s.up => s.peers = NoPeers
    BY <1>1, <2>4
  <2>7. Forgets(n)
    BY <1>1, <2>3, <2>4, <2>5 DEF Forgets
  <2> QED  BY <2>2, <2>3, <2>6, <2>7 DEF DownIsEmpty, Forgets
<1>2. ASSUME \A n \in Node : /\ Fresher(node[n], node'[n])
                             /\ ~node[n].up => node'[n].peers = node[n].peers
      PROVE  DownIsEmpty' /\ \A n \in Node : Forgets(n)
  BY <1>2 DEF Fresher, DownIsEmpty, Forgets
<1>3. CASE Tick
  <2>1. \A n \in Node : ~Due(node[n]) /\ node'[n] = Older(node[n])
    BY <1>3 DEF Tick
  <2>2. ASSUME NEW n \in Node, ~node[n].up
        PROVE  node'[n] = node[n]
    BY <2>1, <2>2 DEF Older
  <2>3. ASSUME NEW n \in Node, node[n].up
        PROVE  node'[n].up /\ Forgets(n)
    <3> DEFINE r == Older(node[n])
    <3>1. /\ r.up = node[n].up
          /\ \A i \in NodeId : node[n].peers[i] # None => r.peers[i] # None
      <4>1. NodeInv(node[n]) /\ node[n].up /\ ~Due(node[n])
        BY <2>1, <2>3, <1>0
      <4> QED  BY <4>1, OlderInv
    <3>2. node'[n] = r
      BY <2>1
    <3> HIDE DEF r
    <3> QED  BY <3>1, <3>2, <2>3 DEF Forgets
  <2> QED  BY <2>2, <2>3 DEF DownIsEmpty, Forgets
<1>4. ASSUME NEW n \in Node, NodeStep(n)
      PROVE  DownIsEmpty' /\ \A m \in Node : Forgets(m)
  <2>1. CASE Start(n)
    BY <2>1, <1>1 DEF Start
  <2>2. CASE Stop(n)
    BY <2>2, <1>1 DEF Stop
  <2>3. CASE ConfigurePorts(n) \/ ConfigurePeers(n) \/ ConfigureIdentities(n) \/ SetConfig(n)
    <3>1. node[n].up /\ node[n] \in State
      BY <2>3, <1>0 DEF ConfigurePorts, ConfigurePeers, ConfigureIdentities, SetConfig
    <3>2. OwnId[n] \subseteq NodeId
      BY ConstantsAssumption
    <3>3. CASE ConfigurePorts(n)
      <4>1. PICK p \in Port : \/ Become(n, AddPort(node[n], p))
                              \/ Become(n, RemPort(node[n], p))
        BY <3>3 DEF ConfigurePorts
      <4> QED  BY <4>1, <3>1, <1>1, OperationsKeepPeers
    <3>4. CASE ConfigurePeers(n)
      <4>1. PICK a \in Target : \/ Become(n, AddStaticPeer(node[n], a))
                                \/ Become(n, RemStaticPeer(node[n], a))
        BY <3>4 DEF ConfigurePeers
      <4> QED  BY <4>1, <3>1, <1>1, OperationsKeepPeers
    <3>5. CASE ConfigureIdentities(n)
      <4>1. PICK i \in NodeId : \/ Become(n, AddIdentity(node[n], i))
                                \/ Become(n, RemIdentity(node[n], i))
                                \/ Become(n, [node[n] EXCEPT !.self = i])
        BY <3>2, <3>5 DEF ConfigureIdentities
      <4> QED  BY <4>1, <3>1, <1>1, OperationsKeepPeers
    <3>6. CASE SetConfig(n)
      <4>1. PICK every \in Interval : Become(n, Reconfigure(node[n], every))
        BY <3>6 DEF SetConfig
      <4> QED  BY <4>1, <3>1, <1>1, OperationsKeepPeers
    <3> QED  BY <2>3, <3>3, <3>4, <3>5, <3>6
  <2>4. CASE BeaconTimer(n)
    BY <2>4, <1>2, BeaconTimerKeepsInv
  <2>5. CASE SendMessage(n)
    BY <2>5, <1>2, SendMessageKeepsInv
  <2>6. CASE ActivityTimer(n)
    <3> DEFINE r == CheckActivity(node[n])
    <3>1. node' = [node EXCEPT ![n] = r] /\ node[n].up
      BY <2>6 DEF ActivityTimer
    <3>2. /\ r.up = node[n].up
          /\ r.peers = [i \in NodeId |-> IF i \in Silent(node[n]) THEN None
                                         ELSE node[n].peers[i]]
      BY <1>0, CheckActivityInv
    <3> HIDE DEF r
    <3>3. node'[n] = r /\ \A m \in Node : m # n => node'[m] = node[m]
      BY <3>1, <1>0
    <3>4. Forgets(n)
      BY <3>2, <3>3 DEF Forgets, Silent
    <3> QED  BY <3>1, <3>2, <3>3, <3>4 DEF DownIsEmpty, Forgets
  <2> QED  BY <1>4, <2>1, <2>2, <2>3, <2>4, <2>5, <2>6 DEF NodeStep
<1>5. CASE UNCHANGED vars
  BY <1>5 DEF vars, DownIsEmpty, Forgets
<1> QED  BY <1>3, <1>4, <1>5 DEF Next

-----------------------------------------------------------------------------
(* The theorems.                                                           *)

(* In every reachable state each node has the beacons and timers it should *)
(* have, and of two nodes that can hear each other Punctual holds.         *)
THEOREM Invariant == Spec => []IInv
PROOF
<1>1. Init => IInv
  BY InitIsInv
<1>2. IInv /\ [Next]_vars => IInv'
  BY NextKeepsInv
<1> QED  BY <1>1, <1>2, PTL DEF Spec

(* The state of every node is of its type.                                 *)
THEOREM TypeCorrect == Spec => []TypeOK
PROOF
<1>1. IInv => TypeOK
  BY DEF IInv
<1> QED  BY <1>1, Invariant, PTL

(* The beacons of a node are those its ports, static peers and interval    *)
(* ask for, after any sequence of operations.                              *)
THEOREM BeaconsFollow == Spec => []BeaconsMatch
PROOF
<1>1. IInv => BeaconsMatch
  BY DEF IInv, NodeInv, BeaconsRight, BeaconsMatch
<1> QED  BY <1>1, Invariant, PTL

(* Each beacon has one timer and no timer outlives its beacon.             *)
THEOREM TimersFollow == Spec => []TimersMatchBeacons
PROOF
<1>1. IInv => TimersMatchBeacons
  BY DEF IInv, NodeInv, TimersRight, TimersMatchBeacons
<1> QED  BY <1>1, Invariant, PTL

(* A node that has identities uses one of them.                            *)
THEOREM SelectionConfigured == Spec => []SelectedIsConfigured
PROOF
<1>1. IInv => SelectedIsConfigured
  BY DEF IInv, NodeInv, SelectedRight, SelectedIsConfigured
<1> QED  BY <1>1, Invariant, PTL

(* No peer is kept that was not heard of for the timeout and one round of  *)
(* the check.                                                              *)
THEOREM SilentPeersGo == Spec => []SilentPeersGoAway
PROOF
<1>1. ASSUME IInv PROVE SilentPeersGoAway
  <2>1. ASSUME NEW n \in Node, NEW i \in NodeId, node[n].peers[i] # None
        PROVE  node[n].peers[i].idle <= Timeout + Check
    <3>1. node[n] \in State /\ CheckedInTime(node[n])
      BY <1>1 DEF IInv, NodeInv
    <3>2. /\ node[n].peers[i].idle \in Nat /\ node[n].check \in Nat
          /\ node[n].peers[i].idle + node[n].check <= Timeout + Check
      BY <2>1, <3>1 DEF State, PeerEntry, CheckedInTime
    <3> QED  BY <3>2, ConstantsAssumption
  <2> QED  BY <2>1 DEF SilentPeersGoAway
<1> QED  BY <1>1, Invariant, PTL

(* When it has been quiet for longer than the interval, a node that sends  *)
(* beacons to another is known there.                                      *)
THEOREM AnnouncedKnown == Spec => []AnnouncedNodesAreKnown
PROOF
<1>1. ASSUME IInv PROVE AnnouncedNodesAreKnown
  <2> SUFFICES ASSUME NEW n \in Node, NEW m \in Node, Announces(n, m),
                      quiet > node[n].every, node[n].every <= Timeout
               PROVE  /\ node[m].peers[node[n].self] # None
                      /\ node[m].peers[node[n].self].idle <= node[n].every
    BY DEF AnnouncedNodesAreKnown
  <2>1. PICK b \in node[n].beacons : m \in Hearers(b.to)
    BY DEF Announces
  <2>2. NodeInv(node[n]) /\ node[n] \in State /\ node[m] \in State
    BY <1>1 DEF IInv, NodeInv
  <2>3. PICK t \in node[n].timers : t.beacon = b
    BY <2>2 DEF NodeInv, TimersRight
  <2>4. t.left \in Nat /\ node[n].every \in Nat /\ quiet \in Nat
    BY <1>1, <2>2, TimersRunWithinInterval, ConstantsAssumption DEF IInv, TypeOK
  <2>5. Heard(quiet, t, node[n], node[m])
    BY <1>1, <2>1, <2>3 DEF IInv, Punctual, Announces
  <2>6. /\ node[m].peers[node[n].self] # None
        /\ node[m].peers[node[n].self].idle + t.left <= node[n].every
    BY <2>4, <2>5 DEF Heard
  <2>7. node[m].peers[node[n].self].idle \in Nat
    BY <2>2, <2>6 DEF State, PeerEntry, Announces
  <2> QED  BY <2>4, <2>6, <2>7
<1> QED  BY <1>1, Invariant, PTL

(* No peer is forgotten that was heard of within the timeout, unless the   *)
(* node stops.                                                             *)
THEOREM ForgottenWhenSilent == Spec => ForgottenOnlyWhenSilent
PROOF
<1> DEFINE Step == \A n \in Node : Forgets(n)
<1>1. Init => DownIsEmpty
  BY DEF Init, DownIsEmpty, Down
<1>2. IInv /\ DownIsEmpty /\ [Next]_vars => DownIsEmpty' /\ Step
  BY NextForgetsTheSilent
<1>3. Step => \A n \in Node : \A i \in NodeId :
         node[n].peers[i] # None /\ node'[n].peers[i] = None
           => node[n].peers[i].idle > Timeout \/ ~node'[n].up
  BY DEF Forgets
<1> HIDE DEF Step
<1> QED  BY <1>1, <1>2, <1>3, Invariant, PTL DEF Spec, ForgottenOnlyWhenSilent
=============================================================================
