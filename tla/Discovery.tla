------------------------------ MODULE Discovery ------------------------------
(***************************************************************************)
(* How the nodes of an overlay find and forget each other (node.cpp): the  *)
(* ports, static peers and identities an operator configures, the beacons  *)
(* that follow from them with their timers, the table of peers that the    *)
(* beacons of others fill, and the periodic check that empties it.         *)
(*                                                                         *)
(* All operations of a node run on its cv_reactor thread (dispatch_sync),  *)
(* each in one piece.  Time is in steps of one unit; a timer that is due   *)
(* fires before time goes on.  A beacon is lost or arrives within the unit *)
(* in which it was sent.                                                   *)
(***************************************************************************)
EXTENDS Integers, Sequences, FiniteSets, SequencesExt

CONSTANTS
  Node,
  Port,          \* names of ports: the transports of the same name can meet
  Multicast,     \* the ports of type MULTICAST
  NodeId,
  OwnId,         \* [Node -> SUBSET NodeId]: identities its operator may add
  Target,        \* the addresses that may be added as static peers
  Interval,      \* beacon_interval_ms an operator may set
  DefaultInterval,
  Timeout,       \* default_peer_timeout_s
  Check,         \* check_peer_activity_interval_ms
  Environment,   \* [Node -> SUBSET EnvironmentKinds]: what may happen to a node
  MaxStatic,     \* bounds: entries of one address among the static peers,
  MaxQuiet,      \*   length of the history of quiet time,
  MaxChanges,    \*   operations, starts and stops
  None

EnvironmentKinds == {"lose", "message", "stop", "ports", "peers", "identities",
                     "config"}

(* The socket of a port of a node.                                         *)
Address == Node \X Port
Unicast == Port \ Multicast

ASSUME ConstantsAssumption ==
  /\ Multicast \subseteq Port
  /\ OwnId \in [Node -> SUBSET NodeId]
  /\ Target \subseteq Node \X Unicast
  /\ Interval \subseteq Nat \ {0} /\ DefaultInterval \in Interval
  /\ Timeout \in Nat /\ Check \in Nat \ {0}
  /\ Environment \in [Node -> SUBSET EnvironmentKinds]
  /\ MaxStatic \in Nat /\ MaxQuiet \in Nat /\ MaxChanges \in Nat

ASSUME NoneAssumption == None \notin NodeId /\ None \notin Address

(* A destination of beacons: a port and the static peer it is for; None    *)
(* (sockaddr_none) is the group of a multicast port.                       *)
Dest == (Multicast \X {None}) \cup (Unicast \X Target)

Beacon == [to : Dest,
           copy : Nat \ {0},      \* tells beacons for one destination apart
           every : Interval]      \* beacon_interval_ms

(* A pending beacon_timer_id; its callback holds the beacon.               *)
Timer == [beacon : Beacon, left : Nat]

Path == Port \X Address

PeerEntry == [idle : Nat,    \* time since last_activity_time_s
              via : Path]    \* preferred_peer_address

ASSUME NoneIsNoEntry == None \notin PeerEntry

State ==
  [up : BOOLEAN,                             \* is_initialized
   ids : Seq(NodeId),                        \* downstream_identities
   self : NodeId \cup {None},                \* selected_downstream_identity
   ports : SUBSET Port,
   static : [Target -> Nat],                 \* static_peers: how often each
   every : Interval,                         \* config.beacon_interval_ms
   beacons : SUBSET Beacon,
   timers : SUBSET Timer,
   check : Nat,                              \* check_peer_activity_timer_id
   peers : [NodeId -> PeerEntry \cup {None}]]

VARIABLES
  node,    \* [Node -> State]
  quiet,   \* history: time since an operation, a loss, a start or a stop
  changes  \* operations, starts and stops so far

vars == <<node, quiet, changes>>

TypeOK ==
  /\ node \in [Node -> State]
  /\ quiet \in 0 .. MaxQuiet
  /\ changes \in 0 .. MaxChanges

NoPeers == [i \in NodeId |-> None]

Down ==
  [up |-> FALSE, ids |-> <<>>, self |-> None, ports |-> {},
   static |-> [a \in Target |-> 0], every |-> DefaultInterval,
   beacons |-> {}, timers |-> {}, check |-> Check, peers |-> NoPeers]

Init == node = [n \in Node |-> Down] /\ quiet = 0 /\ changes = 0

-----------------------------------------------------------------------------
(* Beacons.                                                                *)

(* on_beacon_timer_expired arms the timer of a beacon.                     *)
Arm(s, bs) ==
  [s EXCEPT !.timers = @ \cup {[beacon |-> b, left |-> b.every] : b \in bs}]

Cancel(s, bs) == [s EXCEPT !.timers = {t \in @ : t.beacon \notin bs}]

AddBeacons(s, bs) == Arm([s EXCEPT !.beacons = @ \cup bs], bs)

RemBeacons(s, bs) == Cancel([s EXCEPT !.beacons = @ \ bs], bs)

-----------------------------------------------------------------------------
(* Operations of the operator on the state s of a node.                    *)

(* Mutant: a port gets no beacons for the static peers that are there.     *)
PortBeacons_NoStatic(s, p) ==
  IF p \in Multicast THEN {[to |-> <<p, None>>, copy |-> 1, every |-> s.every]}
  ELSE {}

(* The beacons of a new port: one for the group, or one for every entry of *)
(* static_peers.                                                           *)
PortBeacons(s, p) ==
  IF p \in Multicast THEN {[to |-> <<p, None>>, copy |-> 1, every |-> s.every]}
  ELSE {b \in [to : {p} \X Target, copy : 1 .. MaxStatic, every : {s.every}] :
          b.copy <= s.static[b.to[2]]}

AddPort(s, p) ==
  AddBeacons([s EXCEPT !.ports = @ \cup {p}], PortBeacons(s, p))

RemPort(s, p) ==
  RemBeacons([s EXCEPT !.ports = @ \ {p}], {b \in s.beacons : b.to[1] = p})

(* One more entry in static_peers, and a beacon on each unicast port.      *)
AddStaticPeer(s, a) ==
  AddBeacons([s EXCEPT !.static[a] = @ + 1],
             {[to |-> <<p, a>>, copy |-> s.static[a] + 1, every |-> s.every] :
                p \in s.ports \cap Unicast})

(* All entries of the address go, and its beacons on all ports.            *)
RemStaticPeer(s, a) ==
  RemBeacons([s EXCEPT !.static[a] = 0], {b \in s.beacons : b.to[2] = a})

Reset(bs, every) == {[b EXCEPT !.every = every] : b \in bs}

(* Mutant: the timers are armed again and not cancelled. *)
Reconfigure_NoCancel(s, every) ==
  Arm([s EXCEPT !.every = every, !.beacons = Reset(@, every)],
      Reset(s.beacons, every))

(* set_node_config and reconfigure: every beacon starts over.              *)
Reconfigure(s, every) ==
  AddBeacons(RemBeacons([s EXCEPT !.every = every], s.beacons),
             Reset(s.beacons, every))

(* add_downstream_identity: an identity of the same id is replaced, and    *)
(* the first one is selected.                                              *)
AddIdentity(s, i) ==
  [s EXCEPT !.ids = IF Contains(@, i) THEN @ ELSE Append(@, i),
            !.self = IF @ = None THEN i ELSE @]

Without(ids, i) ==
  IF Contains(ids, i) THEN RemoveAt(ids, CHOOSE k \in 1 .. Len(ids) : ids[k] = i)
  ELSE ids

(* Mutant: the selection is taken from the list before the removal. *)
RemIdentity_FrontFirst(s, i) ==
  [s EXCEPT !.ids = Without(@, i), !.self = IF @ # i THEN @ ELSE Head(s.ids)]

(* rem_downstream_identity: the first that is left takes over.  The list   *)
(* holds an id once.                                                       *)
RemIdentity(s, i) ==
  LET rest == Without(s.ids, i)
  IN  [s EXCEPT !.ids = rest,
                !.self = IF @ # i THEN @
                         ELSE IF rest = <<>> THEN None ELSE Head(rest)]

-----------------------------------------------------------------------------
(* What a node hears.                                                      *)

(* Mutant: the beacons of a known peer are ignored. *)
HandleBeacon_NoTouch(s, i, via) ==
  [s EXCEPT !.peers[i] = IF @ = None THEN [idle |-> 0, via |-> via] ELSE @]

(* handle_beacon: a new source becomes a peer, of a known one only the     *)
(* time of its last activity is updated.                                   *)
HandleBeacon(s, i, via) ==
  [s EXCEPT !.peers[i] = IF @ = None THEN [idle |-> 0, via |-> via]
                         ELSE [@ EXCEPT !.idle = 0]]

(* handle_btp_message of a request of the bootstrap protocol (MSG1, query, *)
(* keys request): peer_lookup makes no peer, and moves the preferred path  *)
(* of a known one to where the request came from.                          *)
HandleMessage(s, i, via) ==
  IF s.self = None \/ s.peers[i] = None THEN s
  ELSE [s EXCEPT !.peers[i] = [idle |-> 0, via |-> via]]

(* Mutants: a peer goes one unit early; the check looks at one timeout     *)
(* more than it should.                                                    *)
Silent_Early(s) ==
  {i \in NodeId : s.peers[i] # None /\ s.peers[i].idle >= Timeout}
Silent_Late(s) ==
  {i \in NodeId : s.peers[i] # None /\ s.peers[i].idle > Timeout + Timeout}

Silent(s) == {i \in NodeId : s.peers[i] # None /\ s.peers[i].idle > Timeout}

(* The timer of peer_schedule_check_activity.                              *)
CheckActivity(s) ==
  [s EXCEPT !.check = Check,
            !.peers = [i \in NodeId |-> IF i \in Silent(s) THEN None ELSE @[i]]]

(* The port on which a datagram for `to` is heard, and the nodes that hear *)
(* it: those with a socket in the group, of which the sender is one, or    *)
(* the owner of the address.                                               *)
Ear(to) == IF to[2] = None THEN to[1] ELSE to[2][2]

Hearers(to) == {m \in Node : /\ node[m].up /\ Ear(to) \in node[m].ports
                             /\ to[2] = None \/ to[2][1] = m}

-----------------------------------------------------------------------------
(* Actions.                                                                *)

Become(n, s) ==
  /\ changes < MaxChanges
  /\ node' = [node EXCEPT ![n] = s]
  /\ quiet' = 0
  /\ changes' = changes + 1

(* node_runtime::start and node::initialize. *)
Start(n) == ~node[n].up /\ Become(n, [Down EXCEPT !.up = TRUE])

(* node::uninitialize, the last thing before the process ends. *)
Stop(n) == "stop" \in Environment[n] /\ node[n].up /\ Become(n, Down)

ConfigurePorts(n) ==
  /\ "ports" \in Environment[n]
  /\ node[n].up
  /\ \E p \in Port :
       \/ p \notin node[n].ports /\ Become(n, AddPort(node[n], p))
       \/ p \in node[n].ports /\ Become(n, RemPort(node[n], p))

ConfigurePeers(n) ==
  /\ "peers" \in Environment[n]
  /\ node[n].up
  /\ \E a \in Target :
       \/ /\ node[n].static[a] < MaxStatic
          /\ Become(n, AddStaticPeer(node[n], a))
       \/ Become(n, RemStaticPeer(node[n], a))

ConfigureIdentities(n) ==
  /\ "identities" \in Environment[n]
  /\ node[n].up
  /\ \E i \in OwnId[n] :
       \/ Become(n, AddIdentity(node[n], i))
       \/ Become(n, RemIdentity(node[n], i))
       \/ /\ Contains(node[n].ids, i)      \* select_downstream_identity
          /\ Become(n, [node[n] EXCEPT !.self = i])

SetConfig(n) ==
  /\ "config" \in Environment[n]
  /\ node[n].up
  /\ \E every \in Interval : Become(n, Reconfigure(node[n], every))

(* The timer of a beacon fires: send_beacon, unless no identity is         *)
(* selected, and the timer is armed again.                                 *)
BeaconTimer(n) ==
  \E t \in node[n].timers :
    LET s    == node[n]
        next == [node EXCEPT ![n] = Arm([s EXCEPT !.timers = @ \ {t}], {t.beacon})]
        to   == t.beacon.to
        all  == IF s.self = None THEN {} ELSE Hearers(to)
        path == <<Ear(to), <<n, to[1]>>>>
    IN  /\ t.left = 0
        /\ \E got \in SUBSET all :
             /\ got = all \/ "lose" \in Environment[n]
             /\ node' = [m \in Node |-> IF m \in got
                                        THEN HandleBeacon(next[m], s.self, path)
                                        ELSE next[m]]
             /\ quiet' = IF got = all THEN quiet ELSE 0
        /\ UNCHANGED changes

(* A message of the bootstrap protocol to a peer, over the preferred path; *)
(* if the port is gone it is pushed to a queue that nobody reads.          *)
SendMessage(n) ==
  /\ "message" \in Environment[n]
  /\ node[n].up /\ node[n].self # None
  /\ \E i \in NodeId :
       LET via == node[n].peers[i].via
       IN  /\ node[n].peers[i] # None
           /\ via[1] \in node[n].ports
           /\ node' = [m \in Node |->
                IF m \in Hearers(via)
                THEN HandleMessage(node[m], node[n].self,
                                   <<Ear(via), <<n, via[1]>>>>)
                ELSE node[m]]
  /\ UNCHANGED <<quiet, changes>>

ActivityTimer(n) ==
  /\ node[n].up /\ node[n].check = 0
  /\ node' = [node EXCEPT ![n] = CheckActivity(node[n])]
  /\ UNCHANGED <<quiet, changes>>

(* Mutant of Due: the activity check is not waited for. *)
Due_NoCheck(s) == s.up /\ \E t \in s.timers : t.left = 0

Due(s) == s.up /\ (s.check = 0 \/ \E t \in s.timers : t.left = 0)

Older(s) ==
  IF ~s.up THEN s
  ELSE [s EXCEPT !.check = s.check - 1,
                 !.timers = {[t EXCEPT !.left = @ - 1] : t \in s.timers},
                 !.peers = [i \in NodeId |-> IF s.peers[i] = None THEN None
                                             ELSE [s.peers[i] EXCEPT !.idle = @ + 1]]]

Tick ==
  /\ \A n \in Node : ~Due(node[n])
  /\ node' = [n \in Node |-> Older(node[n])]
  /\ quiet' = IF quiet < MaxQuiet THEN quiet + 1 ELSE MaxQuiet
  /\ UNCHANGED changes

NodeStep(n) ==
  \/ Start(n) \/ Stop(n)
  \/ ConfigurePorts(n) \/ ConfigurePeers(n) \/ ConfigureIdentities(n)
  \/ SetConfig(n)
  \/ BeaconTimer(n) \/ ActivityTimer(n) \/ SendMessage(n)

Next == Tick \/ \E n \in Node : NodeStep(n)

Spec == Init /\ [][Next]_vars

-----------------------------------------------------------------------------
(* Properties.                                                             *)

Wanted(s) ==
  {b \in [to : Dest, copy : 1 .. MaxStatic + 1, every : {s.every}] :
     /\ b.to[1] \in s.ports
     /\ b.copy <= IF b.to[2] = None THEN 1 ELSE s.static[b.to[2]]}

(* In whatever order ports and static peers are added and removed and the  *)
(* interval is changed, the beacons are one for the group of each          *)
(* multicast port and one for each entry of static_peers on each unicast   *)
(* port, all with the configured interval (add_port, rem_port,             *)
(* add_static_peer, rem_static_peer, reconfigure).                         *)
BeaconsMatch == \A n \in Node : node[n].beacons = Wanted(node[n])

(* Each beacon has one pending timer, due within its interval, and no      *)
(* timer is pending for a beacon that was removed: it would send on for    *)
(* ever (rem_beacon, reconfigure, on_beacon_timer_expired).                *)
TimersMatchBeacons ==
  \A n \in Node :
    /\ \A t \in node[n].timers : t.beacon \in node[n].beacons
                                 /\ t.left <= t.beacon.every
    /\ \A b \in node[n].beacons : \E t \in node[n].timers : t.beacon = b
    /\ \A t, u \in node[n].timers : t.beacon = u.beacon => t = u

(* The selected identity is one of the configured ones, and there is one   *)
(* whenever there are identities: a node goes on under a removed id, or    *)
(* falls silent, otherwise (rem_downstream_identity).                      *)
SelectedIsConfigured ==
  \A n \in Node : IF node[n].ids = <<>> THEN node[n].self = None
                  ELSE Contains(node[n].ids, node[n].self)

(* A peer that has fallen silent is gone after its timeout and one round   *)
(* of the check (peer_schedule_check_activity).                            *)
SilentPeersGoAway ==
  \A n \in Node : \A i \in NodeId :
    node[n].peers[i] # None => node[n].peers[i].idle <= Timeout + Check

(* A peer is forgotten only when it was not heard of for the timeout, or   *)
(* when the node stops (peer_schedule_check_activity).                     *)
ForgottenOnlyWhenSilent ==
  [][\A n \in Node : \A i \in NodeId :
       node[n].peers[i] # None /\ node'[n].peers[i] = None
         => node[n].peers[i].idle > Timeout \/ ~node'[n].up]_vars

Announces(n, m) ==
  /\ node[n].up /\ node[n].self # None
  /\ \E b \in node[n].beacons : m \in Hearers(b.to)

(* When nothing was configured, started, stopped or lost for longer than   *)
(* the interval, a node that has a beacon for another is in the table of   *)
(* that other and stays there, if its interval is not longer than the      *)
(* timeout (behavior.md, Peer Creation and Deletion).                      *)
AnnouncedNodesAreKnown ==
  \A n, m \in Node :
    Announces(n, m) /\ quiet > node[n].every /\ node[n].every <= Timeout
      => /\ node[m].peers[node[n].self] # None
         /\ node[m].peers[node[n].self].idle <= node[n].every
=============================================================================
