----------------------------- MODULE NetworkKeys -----------------------------
(***************************************************************************)
(* The network key of bfc-tunnel (node.cpp): how nodes seed, hand on,      *)
(* replace and expire it, the periodic refresh that is protected with it,  *)
(* and the check of sequence numbers on what is received under it.         *)
(*                                                                         *)
(* network_security_contexts is a deque of keys by sec_ctx, but the only   *)
(* place that makes a key, network_seed_keys, gives it sec_ctx 1, so a     *)
(* node holds one key or none, the key it selects is the one it exports,   *)
(* and a refresh carries the key it is protected with.                     *)
(*                                                                         *)
(* The acquisition is modelled by its phases (idle, looking for a peer,    *)
(* waiting for a peer's answer); KeyAcquisition is its detail.             *)
(***************************************************************************)
EXTENDS Integers, Sequences, FiniteSets

CONSTANTS
  Node,
  Seeder,        \* the nodes with network_key_seeder set
  Priority,      \* [Node -> SUBSET Nat]: what random_u64 can draw at a node
  Timeout,       \* security_ctx_timeout_s
  Grace,         \* security_ctx_grace_period_s
  Sns,           \* sequence numbers are modulo Sns; 2^32 in the code
  Uptime,        \* [Node -> Nat]: the node's steady clock when the model starts
  Environment,   \* which of EnvironmentKinds may happen
  MaxTime, MaxKeys, MaxSn, MaxInFlight,   \* bounds: time, keys, sequence
                                          \* number, socket buffer
  None, Query

EnvironmentKinds ==
  {"lose", "duplicate", "reorder", "late", "fail", "restart", "operator"}

ASSUME ConstantsAssumption ==
  /\ Seeder \subseteq Node
  /\ Priority \in [Node -> SUBSET Nat]
  /\ Timeout \in Nat /\ Grace \in Nat /\ Sns \in Nat \ {0}
  /\ Uptime \in [Node -> Nat]
  /\ Environment \subseteq EnvironmentKinds
  /\ MaxTime \in Nat /\ MaxKeys \in Nat /\ MaxSn \in Nat /\ MaxInFlight \in Nat

Link == {l \in Node \X Node : l[1] # l[2]}

NetKey == [key : Nat, prio : Nat, exp : Nat]

Timer == [cid : {0, 1}, at : Nat]

Context == [net : NetKey, cid : {0, 1},
            success : BOOLEAN,                  \* integrity_success > 0
            last : [Node -> Nat \cup {None}],   \* last_rx_sn_by_src
            timer : Timer]

State == [up : BOOLEAN,                 \* is_initialized
          held : Context \cup {None},   \* network_security_contexts
          timers : SUBSET Timer,        \* pending expiration timers
          refresh : BOOLEAN,            \* network_key_refresh_timer_id pending
          sn : Nat,                     \* network_tx_sn
          asking : Node \cup {None, Query}]

Refresh  == [type : {"refresh"}, sn : Nat, net : NetKey]
Request  == [type : {"request"}]
Response == [type : {"response"}, net : NetKey]
Message  == Refresh \cup Request \cup Response

ASSUME NoneAssumption ==
  None \notin Context /\ None \notin NetKey /\ None \notin Nat
  /\ None \notin Node /\ Query \notin Node /\ None # Query

VARIABLES
  now,       \* seconds since the model started
  drawn,     \* keys drawn so far
  node,      \* [Node -> State]
  inbox,     \* [Link -> Seq(Message)]: frames from l[2] on their way to l[1]
  accepted   \* history: <<source, key, sn>> a node accepted since it started

vars == <<now, drawn, node, inbox, accepted>>

TypeOK ==
  /\ now \in Nat
  /\ drawn \in Nat
  /\ node \in [Node -> State]
  /\ inbox \in [Link -> Seq(Message)]
  /\ accepted \in [Node -> SUBSET (Node \X Nat \X Nat)]

Clock(n) == now + Uptime[n]

Down == [up |-> FALSE, held |-> None, timers |-> {}, refresh |-> FALSE,
         sn |-> 0, asking |-> None]

Init ==
  /\ now = 0
  /\ drawn = 0
  /\ node = [n \in Node |-> Down]
  /\ inbox = [l \in Link |-> <<>>]
  /\ accepted = [n \in Node |-> {}]

-----------------------------------------------------------------------------
(* The key store.                                                          *)

Expiring(k, t) == k.exp < t + Grace

(* Mutants: a key is replaced by an equal one; the priority of the keys is *)
(* not compared.                                                           *)
Better_OrEqual(k, old, t) ==
  IF Expiring(k, t) # Expiring(old, t) THEN ~Expiring(k, t)
  ELSE k.exp < old.exp \/ (k.exp = old.exp /\ k.prio >= old.prio)
Better_NoPriority(k, old, t) ==
  IF Expiring(k, t) # Expiring(old, t) THEN ~Expiring(k, t) ELSE k.exp < old.exp

(* key_preference_is_better *)
Better(k, old, t) ==
  IF Expiring(k, t) # Expiring(old, t) THEN ~Expiring(k, t)
  ELSE k.exp < old.exp \/ (k.exp = old.exp /\ k.prio > old.prio)

(* Mutant: creation ids count from 1. *)
NextCreationId_FromOne(s) == IF s.held # None /\ s.held.cid = 1 THEN 2 ELSE 1

(* network_get_next_creation_id: computed before the old key is erased *)
NextCreationId(s) == IF s.held # None /\ s.held.cid = 0 THEN 1 ELSE 0

Entry(s, k) ==
  [net |-> k, cid |-> NextCreationId(s), success |-> FALSE,
   last |-> [n \in Node |-> None],
   timer |-> [cid |-> NextCreationId(s), at |-> k.exp]]

(* Mutants: the timer of the replaced key is left running; a key is        *)
(* replaced by any other.                                                  *)
InstallKey_NoCancel(s, k, t) ==
  IF k.exp <= t \/ (s.held # None /\ ~Better(k, s.held.net, t)) THEN s
  ELSE [s EXCEPT !.held = Entry(s, k), !.timers = @ \cup {Entry(s, k).timer}]
InstallKey_Any(s, k, t) ==
  IF k.exp <= t \/ (s.held # None /\ s.held.net = k) THEN s
  ELSE [s EXCEPT !.held = Entry(s, k), !.timers = {Entry(s, k).timer}]

InstallKey(s, k, t) ==
  LET cancelled == IF s.held = None THEN {} ELSE {s.held.timer}
  IN  IF k.exp <= t \/ (s.held # None /\ ~Better(k, s.held.net, t)) THEN s
      ELSE [s EXCEPT !.held = Entry(s, k),
                     !.timers = (@ \ cancelled) \cup {Entry(s, k).timer}]

(* network_schedule_key_refresh cancels the timer and arms it again while  *)
(* there is a key; the interval is not 0.                                  *)
ScheduleRefresh(s) == [s EXCEPT !.refresh = s.held # None]

(* network_acquire_keys: nothing if an acquisition is in progress *)
Acquire(s) == [s EXCEPT !.asking = IF @ = None THEN Query ELSE @]

(* network_seed_keys: a key only if there is none *)
Seeds(n, s) == n \in Seeder /\ s.held = None

SeedKeys(n, s, prio) ==
  IF Seeds(n, s)
  THEN InstallKey(s, [key |-> drawn + 1, prio |-> prio, exp |-> Clock(n) + Timeout],
                  Clock(n))
  ELSE s

-----------------------------------------------------------------------------
(* Steps.                                                                  *)

RemoveIndex(q, k) == SubSeq(q, 1, k - 1) \o SubSeq(q, k + 1, Len(q))

(* One frame to some of the nodes; a node that is down has no socket, and  *)
(* a full buffer drops the frame.                                          *)
Transmit(box, src, to, m) ==
  [l \in Link |-> IF /\ l[2] = src /\ l[1] \in to /\ node[l[1]].up
                     /\ Len(box[l]) < MaxInFlight
                  THEN Append(box[l], m) ELSE box[l]]

Set(n, s) == node' = [node EXCEPT ![n] = s]

DrawIf(seeds) ==
  /\ seeds => drawn < MaxKeys
  /\ drawn' = IF seeds THEN drawn + 1 ELSE drawn

(* initialize, or ensure_initialized_unlocked: seed, acquire, refresh *)
Initialize(n) ==
  /\ ~node[n].up
  /\ LET s == [Down EXCEPT !.up = TRUE] IN
     /\ \E prio \in Priority[n] :
          Set(n, ScheduleRefresh(Acquire(SeedKeys(n, s, prio))))
     /\ DrawIf(Seeds(n, s))
  /\ UNCHANGED <<now, inbox, accepted>>

(* The process ends, through uninitialize or by a crash. *)
Stop(n) ==
  /\ "restart" \in Environment
  /\ node[n].up
  /\ Set(n, Down)
  /\ inbox' = [l \in Link |-> IF l[1] = n THEN <<>> ELSE inbox[l]]
  /\ accepted' = [accepted EXCEPT ![n] = {}]
  /\ UNCHANGED <<now, drawn>>

(* set_node_config at run time *)
Reconfigure(n) ==
  /\ "operator" \in Environment
  /\ node[n].up
  /\ \E prio \in Priority[n] : Set(n, ScheduleRefresh(SeedKeys(n, node[n], prio)))
  /\ DrawIf(Seeds(n, node[n]))
  /\ UNCHANGED <<now, inbox, accepted>>

(* The refresh timer: network_send_key_refresh on the beacon destination,  *)
(* which every other node hears, then network_schedule_key_refresh.        *)
(* Without "late" frames arrive within the interval of a second or more.   *)
RefreshTimer(n) ==
  LET s     == node[n]
      sends == s.held # None /\ s.held.net.exp > Clock(n)
  IN  /\ s.refresh
      /\ "late" \notin Environment =>
           \A l \in Link : l[2] = n =>
             \A k \in 1 .. Len(inbox[l]) : inbox[l][k].type # "refresh"
      /\ IF sends
         THEN /\ s.sn < MaxSn
              /\ inbox' = Transmit(inbox, n, Node,
                            [type |-> "refresh", sn |-> s.sn, net |-> s.held.net])
              /\ Set(n, ScheduleRefresh([s EXCEPT !.sn = (@ + 1) % Sns]))
         ELSE /\ Set(n, ScheduleRefresh(s))
              /\ UNCHANGED inbox
      /\ UNCHANGED <<now, drawn, accepted>>

(* network_accept_rx: is the sequence number new, does the MAC verify *)
NewSn(c, src, sn) == c.last[src] = None \/ sn > c.last[src]
Verifies(c, m) == c.net.key = m.net.key

(* Mutant: the next sequence number expected is remembered as the last.    *)
Accept_Expected(c, src, sn) == [c EXCEPT !.success = TRUE, !.last[src] = sn + 1]

Accept(c, src, sn) == [c EXCEPT !.success = TRUE, !.last[src] = sn]

(* A frame that does not verify starts an acquisition unless the key held  *)
(* has verified one before.                                                *)
ReceiveRefresh(n, src, m) ==
  LET s == node[n]
  IN  IF s.held = None THEN Set(n, Acquire(s)) /\ UNCHANGED accepted
      ELSE IF ~NewSn(s.held, src, m.sn) THEN UNCHANGED <<node, accepted>>
      ELSE IF ~Verifies(s.held, m)
      THEN /\ Set(n, IF s.held.success THEN s ELSE Acquire(s))
           /\ UNCHANGED accepted
      ELSE /\ Set(n, InstallKey([s EXCEPT !.held = Accept(s.held, src, m.sn)],
                                m.net, Clock(n)))
           /\ accepted' = [accepted EXCEPT ![n] = @ \cup {<<src, m.net.key, m.sn>>}]

(* Mutant: the refresh timer is not armed for an acquired key. *)
ReceiveResponse_NoSchedule(n, src, m) ==
  LET s == node[n]
  IN  /\ UNCHANGED accepted
      /\ IF s.asking = src
         THEN \E next \in {None, Query} :
                Set(n, InstallKey([s EXCEPT !.asking = next], m.net, Clock(n)))
         ELSE UNCHANGED node

(* network_keys_response: install, arm the refresh, and go on with the     *)
(* next candidate or end the acquisition.                                  *)
ReceiveResponse(n, src, m) ==
  LET s == node[n]
  IN  /\ UNCHANGED accepted
      /\ IF s.asking = src
         THEN \E next \in {None, Query} :
                Set(n, ScheduleRefresh(InstallKey([s EXCEPT !.asking = next],
                                                  m.net, Clock(n))))
         ELSE UNCHANGED node

Receive(l, k) ==
  LET n   == l[1]
      m   == inbox[l][k]
      box == [inbox EXCEPT ![l] = RemoveIndex(@, k)]
  IN  /\ k \in 1 .. Len(inbox[l])
      /\ "reorder" \in Environment \/ k = 1
      /\ \/ /\ m.type = "refresh"
            /\ ReceiveRefresh(n, l[2], m)
            /\ inbox' = box
         \/ /\ m.type = "request"
            /\ inbox' = IF node[n].held = None THEN box
                        ELSE Transmit(box, n, {l[2]},
                               [type |-> "response", net |-> node[n].held.net])
            /\ UNCHANGED <<node, accepted>>
         \/ /\ m.type = "response"
            /\ ReceiveResponse(n, l[2], m)
            /\ inbox' = box
      /\ UNCHANGED <<now, drawn>>

(* A peer that advertised a key not expired by the clock of n is asked.    *)
Candidate(n, m) ==
  /\ m # n /\ node[m].up
  /\ node[m].held # None /\ node[m].held.net.exp > Clock(n)

Ask(n, m) ==
  /\ node[n].asking = Query
  /\ Candidate(n, m)
  /\ Set(n, [node[n] EXCEPT !.asking = m])
  /\ inbox' = Transmit(inbox, n, {m}, [type |-> "request"])
  /\ UNCHANGED <<now, drawn, accepted>>

(* The acquisition ends without a key. *)
GiveUp(n) ==
  /\ \/ node[n].asking = Query /\ \A m \in Node : ~Candidate(n, m)
     \/ node[n].asking # None /\ "fail" \in Environment
  /\ Set(n, [node[n] EXCEPT !.asking = None])
  /\ UNCHANGED <<now, drawn, inbox, accepted>>

(* network_expire_key *)
ExpireKey(s, tm) ==
  [s EXCEPT !.timers = @ \ {tm},
            !.held = IF s.held # None /\ s.held.cid = tm.cid THEN None ELSE @]

ExpirationTimer(n, tm) ==
  /\ tm \in node[n].timers
  /\ tm.at <= Clock(n)
  /\ Set(n, ExpireKey(node[n], tm))
  /\ UNCHANGED <<now, drawn, inbox, accepted>>

Lose(l, k) ==
  /\ "lose" \in Environment
  /\ k \in 1 .. Len(inbox[l])
  /\ inbox' = [inbox EXCEPT ![l] = RemoveIndex(@, k)]
  /\ UNCHANGED <<now, drawn, node, accepted>>

Duplicate(l, k) ==
  /\ "duplicate" \in Environment
  /\ k \in 1 .. Len(inbox[l])
  /\ Len(inbox[l]) < MaxInFlight
  /\ inbox' = [inbox EXCEPT ![l] = Append(@, @[k])]
  /\ UNCHANGED <<now, drawn, node, accepted>>

(* Without "late" frames and timers take less than a second. *)
Tick ==
  /\ now < MaxTime
  /\ "late" \notin Environment =>
       /\ \A l \in Link : inbox[l] = <<>>
       /\ \A n \in Node : \A tm \in node[n].timers : tm.at > Clock(n)
  /\ now' = now + 1
  /\ UNCHANGED <<drawn, node, inbox, accepted>>

Next ==
  \/ Tick
  \/ \E n \in Node :
       \/ Initialize(n)
       \/ Stop(n)
       \/ Reconfigure(n)
       \/ RefreshTimer(n)
       \/ GiveUp(n)
       \/ \E m \in Node : Ask(n, m)
       \/ \E tm \in node[n].timers : ExpirationTimer(n, tm)
  \/ \E l \in Link : \E k \in 1 .. Len(inbox[l]) :
       Receive(l, k) \/ Lose(l, k) \/ Duplicate(l, k)

Spec == Init /\ [][Next]_vars

-----------------------------------------------------------------------------
(* Safety.                                                                 *)

(* Exactly the expiration timer of the held key is pending, and it is due  *)
(* when the key expires: the timer of a replaced key never runs.           *)
TimerMatchesKey(s) ==
  /\ s.timers = IF s.held = None THEN {} ELSE {s.held.timer}
  /\ s.held # None => s.held.timer = [cid |-> s.held.cid, at |-> s.held.net.exp]
TimersMatchKeys == \A n \in Node : TimerMatchesKey(node[n])

(* A node that holds a key goes on refreshing: the timer, which is not     *)
(* armed again while there is no key, is armed whenever a key comes.       *)
RefreshKeepsRunning == \A n \in Node : node[n].held # None => node[n].refresh

(* A key is given up for a better one, when it expires, or with the        *)
(* process, and for no other reason.                                       *)
GivenUpForAReason ==
  [][\A n \in Node :
       LET old == node[n].held
           new == node'[n].held
       IN  old # None =>
             \/ new # None /\ (new.net = old.net \/ Better(new.net, old.net, Clock(n)))
             \/ new = None /\ old.net.exp <= Clock(n)
             \/ ~node'[n].up]_vars

(* A frame is accepted once while its key is held: what was accepted is    *)
(* not acceptable afterwards, and the receive window only ever closes,     *)
(* also when the refresh hands on the very key it was protected with.      *)
AcceptedOnceWhileHeld ==
  [][\A n \in Node :
       LET old == node[n].held
           new == node'[n].held
       IN  old # None /\ new # None /\ new.net = old.net =>
             /\ \A src \in Node :
                  old.last[src] # None =>
                    new.last[src] # None /\ new.last[src] >= old.last[src]
             /\ \A a \in accepted'[n] \ accepted[n] : ~NewSn(new, a[1], a[3])]_vars

(* Whatever a node accepted under the key it holds is below its receive    *)
(* window, so it will not be accepted again.                               *)
WindowCoversAccepted ==
  \A n \in Node : node[n].held # None =>
    \A a \in accepted[n] :
      a[2] = node[n].held.net.key => ~NewSn(node[n].held, a[1], a[3])

(* A refresh under way to a node that holds its key will be accepted.      *)
RefreshAcceptable ==
  \A l \in Link : node[l[1]].held # None =>
    \A k \in 1 .. Len(inbox[l]) :
      LET m == inbox[l][k] IN
      m.type = "refresh" /\ Verifies(node[l[1]].held, m)
        => NewSn(node[l[1]].held, l[2], m.sn)

-----------------------------------------------------------------------------
(* Liveness.  The reactor serves every timer and readable socket, and an   *)
(* acquisition that can ask a peer does.                                   *)
Fairness ==
  /\ \A n \in Node : /\ WF_vars(RefreshTimer(n))
                     /\ WF_vars(\E m \in Node : Ask(n, m))
                     /\ WF_vars(GiveUp(n))
                     /\ WF_vars(\E tm \in node[n].timers : ExpirationTimer(n, tm))
  /\ \A l \in Link : WF_vars(\E k \in 1 .. Len(inbox[l]) : Receive(l, k))

FairSpec == Spec /\ Fairness

SameKey(n, m) ==
  /\ node[n].held # None /\ node[m].held # None
  /\ node[n].held.net = node[m].held.net

(* Two nodes that are up, one with a key that has time left, come to hold  *)
(* the same key, also when each seeded one of its own.                     *)
KeysConverge ==
  \A l \in Link : node[l[1]].held # None /\ node[l[2]].up ~> SameKey(l[1], l[2])
=============================================================================
