---------------------------- MODULE PeerSecurity ----------------------------
(***************************************************************************)
(* Peer security of bfc-tunnel (node.cpp): how two nodes that hear each    *)
(* other's beacons agree on a peer security context with MSG1 / MSG2, how  *)
(* concurrent handshakes are arbitrated, and how contexts are renewed,     *)
(* expired and torn down.                                                  *)
(*                                                                         *)
(* A link l = <<n, m>> stands for the peer_s that node n keeps for node m. *)
(* The node runs on one reactor thread, so a handler is one action.  Every *)
(* handler is an operator on the peer record; it returns the record after  *)
(* the whole handler, the message it sent and the ephemeral keys it drew.  *)
(*                                                                         *)
(* Procedures are started here without a completion callback, as           *)
(* peer_send_message and the renewal timer start them, and the security    *)
(* transaction is the only kind on the queue; KeyAcquisition adds the      *)
(* other kind.  Frame encoding, link statistics and logging are left out.  *)
(***************************************************************************)
EXTENDS Integers, Sequences, FiniteSets

CONSTANTS
  Node,
  NumCtx,        \* context ids are 1 .. NumCtx; 15 in the code
  Trids,         \* transaction ids are modulo Trids; 256 in the code
  NumPairs,      \* algorithm pairs are 1 .. NumPairs, in the order of std::set
  Supports,      \* [Node -> SUBSET Pair]: what a node is configured with
  Priority,      \* [Node -> SUBSET Nat]: what random_u64 can draw at a node
  Timeout,       \* security_ctx_timeout_s
  Grace,         \* security_ctx_grace_period_s
  PeerTimeout,   \* default_peer_timeout_s
  Uptime,        \* [Node -> Nat]: the node's steady clock when the model starts
  Multicast,     \* TRUE when frames go to a multicast group
  Environment,   \* which of EnvironmentKinds may happen
  MaxTime, MaxEph, MaxInFlight,    \* bounds: time, ephemeral keys, socket buffer
  None

EnvironmentKinds ==
  {"lose", "duplicate", "reorder", "late", "silence", "restart", "operator"}

Pair  == 1 .. NumPairs
CtxId == 1 .. NumCtx
Trid  == 0 .. Trids - 1

ASSUME ConstantsAssumption ==
  /\ NumCtx \in Nat \ {0}
  /\ Trids \in Nat \ {0}
  /\ NumPairs \in Nat
  /\ Supports \in [Node -> SUBSET Pair]
  /\ Priority \in [Node -> SUBSET Nat]
  /\ Timeout \in Nat /\ Grace \in Nat /\ PeerTimeout \in Nat
  /\ Uptime \in [Node -> Nat]
  /\ Multicast \in BOOLEAN
  /\ Environment \subseteq EnvironmentKinds
  /\ MaxTime \in Nat /\ MaxEph \in Nat /\ MaxInFlight \in Nat

Link  == {l \in Node \X Node : l[1] # l[2]}
Back(l) == <<l[2], l[1]>>

(* A key stands for what both Diffie-Hellman sides derive: it is fixed by  *)
(* the static keys and the ephemeral keys of initiator and responder.      *)
Key == [initiator : Node, responder : Node, e : Nat, f : Nat]

Timer == [id : CtxId, cid : Nat, kind : {"renew", "expire"}, at : Nat]

Context == [cid : Nat, key : Key, pair : Pair, exp : Nat, expiring : BOOLEAN,
            timer : Timer]

Procedure == [id : CtxId, cid : Nat, mid : Trid, eph : Nat, exp : Nat,
              prio : Nat, pair : Pair, retries : Nat]

Msg1 == [type : {"msg1"}, id : Trid, ctx : CtxId, eph : Nat, exp : Nat,
         prio : Nat, pair : Pair]
Msg2 == [type : {"msg2"}, id : Trid, eph : Nat,
         status : {"OK", "UNSUPPORTED", "VERIFICATION_FAILED"}]
Message == Msg1 \cup Msg2

Peer == [present : BOOLEAN,           \* the node has an entry for the peer
         key : BOOLEAN,               \* peer->public_key is set
         proc : Procedure \cup {None},
         current : Trid \cup {None},  \* current_transaction's id
         trid : Trid,
         armed : BOOLEAN,             \* transaction_timer_id is pending
         orphans : Nat,               \* transaction timers whose id was lost
         contexts : [CtxId -> Context \cup {None}],
         timers : SUBSET Timer,       \* pending context timers
         supported : SUBSET Pair,     \* supported_algorithm_pairs
         test : SUBSET Pair,          \* test_algorithm_pairs
         active : Nat]                \* last_activity_time_s

ASSUME NoneAssumption ==
  None \notin Context /\ None \notin Procedure /\ None \notin Message /\ None \notin Trid

VARIABLES
  now,      \* seconds since the model started
  fresh,    \* ephemeral keys drawn so far, by all nodes
  known,    \* links whose owner has the other node's public key configured
  peer,     \* [Link -> Peer]
  inbox     \* [Link -> Seq(Message)]: frames from l[2] on their way to l[1]

vars == <<now, fresh, known, peer, inbox>>

TypeOK ==
  /\ now \in Nat
  /\ fresh \in Nat
  /\ known \subseteq Link
  /\ peer \in [Link -> Peer]
  /\ inbox \in [Link -> Seq(Message)]

Clock(l) == now + Uptime[l[1]]          \* now_s() at the owner of l

Absent ==
  [present |-> FALSE, key |-> FALSE, proc |-> None, current |-> None,
   trid |-> 0, armed |-> FALSE, orphans |-> 0,
   contexts |-> [i \in CtxId |-> None], timers |-> {},
   supported |-> {}, test |-> {}, active |-> 0]

Init ==
  /\ now = 0
  /\ fresh = 0
  /\ known = Link
  /\ peer = [l \in Link |-> Absent]
  /\ inbox = [l \in Link |-> <<>>]

-----------------------------------------------------------------------------
(* The context table of one peer.                                          *)

Held(p) == {i \in CtxId : p.contexts[i] # None}

Least(S) == CHOOSE x \in S : \A y \in S : x <= y
Greatest(S) == CHOOSE x \in S : \A y \in S : y <= x

NextSecCtxId(p) == IF Held(p) = CtxId THEN 1 ELSE Least(CtxId \ Held(p))

UsedCreationIds(p) ==
  {p.contexts[i].cid : i \in Held(p)}
    \cup (IF p.proc = None THEN {} ELSE {p.proc.cid})

(* Mutant: the ids of the contexts are taken for creation ids. *)
NextCreationId_SecCtxId(p) == Least((0 .. NumCtx + 1) \ Held(p))

NextCreationId(p) == Least((0 .. NumCtx + 1) \ UsedCreationIds(p))

Usable(c, t) == ~c.expiring /\ c.exp > t + Grace

(* The contexts peer_select_sec_ctx may return; the code takes the first   *)
(* one in the order of the deque, which the model leaves out.              *)
Selectable(p, t) ==
  LET usable == {i \in Held(p) : Usable(p.contexts[i], t)}
  IN  IF usable # {} THEN usable ELSE {i \in Held(p) : p.contexts[i].exp > t}

(* Mutants: the replaced context's timer is left running; the renewal is   *)
(* scheduled for the expiration itself.                                    *)
Install_NoCancel(p, t, id, cid, key, pair, exp) ==
  LET timer == [id |-> id, cid |-> cid, kind |-> "renew",
                at |-> IF exp > t + Grace THEN exp - Grace ELSE t]
  IN  [p EXCEPT !.contexts = [@ EXCEPT ![id] =
                   [cid |-> cid, key |-> key, pair |-> pair, exp |-> exp,
                    expiring |-> FALSE, timer |-> timer]],
                !.timers = @ \cup {timer},
                !.supported = @ \cup {pair}]
RenewalWait_NoGrace(exp, t) == IF exp > t THEN exp - t ELSE 0

(* peer_schedule_sec_ctx_renewal_timer *)
RenewalWait(exp, t) == IF exp > t + Grace THEN exp - t - Grace ELSE 0

(* What both handlers do once the keys are derived: fill the context and   *)
(* arm its renewal timer, cancelling the timer of the context it replaces. *)
Install(p, t, id, cid, key, pair, exp) ==
  LET timer     == [id |-> id, cid |-> cid, kind |-> "renew",
                    at |-> t + RenewalWait(exp, t)]
      old       == p.contexts[id]
      cancelled == IF old = None THEN {} ELSE {old.timer}
      context   == [cid |-> cid, key |-> key, pair |-> pair, exp |-> exp,
                    expiring |-> FALSE, timer |-> timer]
  IN  [p EXCEPT !.contexts = [@ EXCEPT ![id] = context],
                !.timers = (@ \ cancelled) \cup {timer},
                !.supported = @ \cup {pair}]

-----------------------------------------------------------------------------
(* The security procedure and its transaction.  A handler's result is the  *)
(* peer, the message sent (None for no message), and the number of         *)
(* ephemeral keys drawn.                                                   *)

Result(p, out, ephs) == [peer |-> p, out |-> out, ephs |-> ephs]
Quiet(p) == Result(p, None, 0)

(* Mutant: the transaction is not reset. *)
AbortSender_KeepsTransaction(p) == [p EXCEPT !.proc = None, !.armed = FALSE]

(* Also what peer_complete_transaction leaves: done_cb finishes the        *)
(* procedure, the timer is cancelled, the transaction is reset.            *)
AbortSender(p) ==
  [p EXCEPT !.proc = None, !.current = None, !.armed = FALSE]

CompleteTransaction(p, id) == IF p.current = id THEN AbortSender(p) ELSE p

(* trid_ctr is bumped when the transaction is queued and when it is taken  *)
(* from the queue.  Mutant: the counter is wider than its field.           *)
Bump_NoWrap(trid) == trid + 2
Bump(trid) == (trid + 2) % Trids

(* wait_ms overwrites transaction_timer_id: a timer that was still pending *)
(* keeps running and can no longer be cancelled.                           *)
ArmTransactionTimer(p) ==
  [p EXCEPT !.orphans = IF p.armed THEN @ + 1 ELSE @, !.armed = TRUE]

Msg1Of(proc) ==
  [type |-> "msg1", id |-> proc.mid, ctx |-> proc.id, eph |-> proc.eph,
   exp |-> proc.exp, prio |-> proc.prio, pair |-> proc.pair]

(* peer_start_security_procedure up to and including the first run of its  *)
(* do_cb.  The queue is empty whenever no procedure is in progress (see    *)
(* ProcedureOwnsTransaction), so the transaction is processed at once.     *)
(* When no algorithm pair is left do_cb completes the transaction, but the *)
(* caller still arms the transaction timer.                                *)
StartSecurity(p, t, force, prio, eph) ==
  LET blocked == \/ ~p.key
                 \/ ~force /\ \E i \in Held(p) : Usable(p.contexts[i], t)
                 \/ p.proc # None
      mid   == (p.trid + 1) % Trids
      pairs == IF p.supported # {} THEN p.supported ELSE p.test
      pair  == Greatest(pairs)
      proc  == [id |-> NextSecCtxId(p), cid |-> NextCreationId(p), mid |-> mid,
                eph |-> eph, exp |-> t + Timeout, prio |-> prio, pair |-> pair,
                retries |-> 1]
      bumped == [p EXCEPT !.trid = Bump(@)]
  IN  IF blocked THEN Quiet(p)
      ELSE IF pairs = {}
      THEN Result(ArmTransactionTimer(AbortSender(bumped)), None, 1)
      ELSE Result([ArmTransactionTimer(bumped) EXCEPT !.proc = proc, !.current = mid,
                     !.test = IF p.supported = {} THEN @ \ {pair} ELSE @],
                  Msg1Of(proc), 1)

(* expiration_cb: the timer is one-shot and the retry does not re-arm it.  *)
(* The completion on the retry limit names transaction 0.                  *)
ExpireTransaction(p) ==
  IF p.proc = None THEN Quiet(CompleteTransaction(p, 0))
  ELSE IF p.proc.mid # p.current THEN Quiet(p)
  ELSE IF p.proc.retries >= 3 THEN Quiet(CompleteTransaction(p, 0))
  ELSE Result([p EXCEPT !.proc.retries = @ + 1],
              Msg1Of(p.proc), 0)

-----------------------------------------------------------------------------
(* The message handlers.                                                   *)

(* peer_lookup and peer_update_link_activity *)
Touch(p, l, t) == [p EXCEPT !.key = @ \/ l \in known, !.active = t]

Reply(p, m, status, eph) ==
  Result(p, [type |-> "msg2", id |-> m.id, eph |-> eph, status |-> status],
         IF status = "OK" THEN 1 ELSE 0)

(* Mutant: the expiration time is compared the wrong way round. *)
Respond_Reversed(p, l, m, t, eph) ==
  LET key == [initiator |-> l[2], responder |-> l[1], e |-> m.eph, f |-> eph]
  IN  IF m.exp >= t THEN Reply(p, m, "VERIFICATION_FAILED", 0)
      ELSE Reply(Install(p, t, m.ctx, NextCreationId(p), key, m.pair, m.exp),
                 m, "OK", eph)

(* The responder's part once arbitration let the MSG1 through. *)
Respond(p, l, m, t, eph) ==
  LET key == [initiator |-> l[2], responder |-> l[1], e |-> m.eph, f |-> eph]
  IN  IF m.exp <= t THEN Reply(p, m, "VERIFICATION_FAILED", 0)
      ELSE IF m.pair \notin Supports[l[1]] THEN Reply(p, m, "UNSUPPORTED", 0)
      ELSE Reply(Install(p, t, m.ctx, NextCreationId(p), key, m.pair, m.exp),
                 m, "OK", eph)

(* Mutant: the responder also gives way on equal priorities. *)
HandleMsg1_TieYields(l, m, prio) ==
  LET t == Clock(l)
      p == Touch(peer[l], l, t)
  IN  IF ~peer[l].present THEN Quiet(peer[l])
      ELSE IF ~p.key THEN Quiet(p)
      ELSE IF p.proc = None THEN Respond(p, l, m, t, fresh)
      ELSE IF m.prio >= p.proc.prio THEN Respond(AbortSender(p), l, m, t, fresh)
      ELSE Quiet(p)

HandleMsg1(l, m, prio) ==
  LET t == Clock(l)
      p == Touch(peer[l], l, t)
  IN  IF ~peer[l].present THEN Quiet(peer[l])
      ELSE IF ~p.key THEN Quiet(p)
      ELSE IF p.proc = None THEN Respond(p, l, m, t, fresh)
      ELSE IF m.prio > p.proc.prio THEN Respond(AbortSender(p), l, m, t, fresh)
      ELSE IF m.prio < p.proc.prio THEN Quiet(p)
      ELSE StartSecurity(AbortSender(p), t, TRUE, prio, fresh)

(* Mutants: the initiator installs under the next free id instead of the   *)
(* one it announced; it does not try another pair after UNSUPPORTED.       *)
HandleMsg2_NextId(l, m, prio) ==
  LET t == Clock(l)
      p == [peer[l] EXCEPT !.active = t]
      pr == p.proc
      key == [initiator |-> l[1], responder |-> l[2], e |-> pr.eph, f |-> m.eph]
  IN  IF ~p.present THEN Quiet(peer[l])
      ELSE IF pr = None \/ ~p.key \/ m.status # "OK"
      THEN Quiet(CompleteTransaction(p, m.id))
      ELSE Quiet(CompleteTransaction(
             Install(p, t, NextSecCtxId(p), pr.cid, key, pr.pair, pr.exp), m.id))

HandleMsg2_NoFallback(l, m, prio) ==
  LET t == Clock(l)
      p == [peer[l] EXCEPT !.active = t]
      pr == p.proc
      key == [initiator |-> l[1], responder |-> l[2], e |-> pr.eph, f |-> m.eph]
  IN  IF ~p.present THEN Quiet(peer[l])
      ELSE IF pr = None \/ ~p.key \/ m.status # "OK"
      THEN Quiet(CompleteTransaction(p, m.id))
      ELSE Quiet(CompleteTransaction(
                   Install(p, t, pr.id, pr.cid, key, pr.pair, pr.exp), m.id))

(* msg.id is looked at by peer_complete_transaction only. *)
HandleMsg2(l, m, prio) ==
  LET t == Clock(l)
      p == [peer[l] EXCEPT !.active = t]
      pr == p.proc
      key == [initiator |-> l[1], responder |-> l[2], e |-> pr.eph, f |-> m.eph]
  IN  IF ~p.present THEN Quiet(peer[l])
      ELSE IF pr = None \/ ~p.key THEN Quiet(CompleteTransaction(p, m.id))
      ELSE IF m.status = "UNSUPPORTED"
      THEN LET q == [p EXCEPT !.supported = @ \ {pr.pair}, !.test = @ \ {pr.pair}]
           IN  StartSecurity(CompleteTransaction(q, m.id), t, TRUE, prio, fresh)
      ELSE IF m.status = "VERIFICATION_FAILED"
      THEN Quiet([CompleteTransaction(p, m.id) EXCEPT !.key = FALSE])
      ELSE Quiet(CompleteTransaction(
                   Install(p, t, pr.id, pr.cid, key, pr.pair, pr.exp), m.id))

-----------------------------------------------------------------------------
(* Steps.                                                                  *)

RemoveIndex(s, k) == SubSeq(s, 1, k - 1) \o SubSeq(s, k + 1, Len(s))

Hearers(l) == IF Multicast THEN Node \ {l[1]} ELSE {l[2]}

(* A frame sent on link l; a full socket buffer drops it.  No handler      *)
(* looks at the destination of a frame, so every hearer is given it.       *)
Transmit(box, l, m) ==
  [k \in Link |-> IF /\ m # None
                     /\ k[2] = l[1] /\ k[1] \in Hearers(l)
                     /\ Len(box[k]) < MaxInFlight
                  THEN Append(box[k], m) ELSE box[k]]

Apply(l, r, box) ==
  /\ fresh + r.ephs <= MaxEph
  /\ fresh' = fresh + r.ephs
  /\ peer' = [peer EXCEPT ![l] = r.peer]
  /\ inbox' = Transmit(box, l, r.out)

HandleBeacon(l) ==
  /\ peer' = [peer EXCEPT ![l] =
       IF @.present THEN Touch(@, l, Clock(l))
       ELSE Touch([Absent EXCEPT !.present = TRUE, !.test = Supports[l[1]]],
                  l, Clock(l))]
  /\ UNCHANGED <<now, fresh, known, inbox>>

Receive(l, k) ==
  /\ k \in 1 .. Len(inbox[l])
  /\ "reorder" \in Environment \/ k = 1
  /\ LET m == inbox[l][k] IN
     \E prio \in Priority[l[1]] :
       /\ Apply(l, IF m.type = "msg1" THEN HandleMsg1(l, m, prio)
                                      ELSE HandleMsg2(l, m, prio),
                [inbox EXCEPT ![l] = RemoveIndex(@, k)])
       /\ known' = IF /\ m.type = "msg2" /\ m.status = "VERIFICATION_FAILED"
                      /\ peer[l].present /\ peer[l].proc # None /\ peer[l].key
                   THEN known \ {l} ELSE known
  /\ UNCHANGED now

(* peer_send_message finds no context to send with. *)
SendWithoutContext(l) ==
  /\ peer[l].present
  /\ Selectable(peer[l], Clock(l)) = {}
  /\ \E prio \in Priority[l[1]] :
       Apply(l, StartSecurity(peer[l], Clock(l), FALSE, prio, fresh), inbox)
  /\ UNCHANGED <<now, known>>

(* Without "late" an answer comes within transaction_timeout_ms, so the    *)
(* timer fires only when nothing is under way on the link.                 *)
TransactionTimeout(l) ==
  /\ "late" \in Environment \/ (inbox[l] = <<>> /\ inbox[Back(l)] = <<>>)
  /\ \/ /\ peer[l].armed
        /\ Apply(l, ExpireTransaction([peer[l] EXCEPT !.armed = FALSE]), inbox)
     \/ /\ peer[l].orphans > 0
        /\ Apply(l, ExpireTransaction([peer[l] EXCEPT !.orphans = @ - 1]), inbox)
  /\ UNCHANGED <<now, known>>

(* Mutant: the expiry timer is armed with the renewal deadline. *)
ExpiryDeadline_Renewal(c, t) == IF c.exp - Grace > t THEN c.exp - Grace ELSE t
ExpiryDeadline(c, t) == IF c.exp > t THEN c.exp ELSE t

(* peer_mark_sec_ctx_expiring: re-arm for the expiry, start a renewal. *)
MarkExpiring(p, tm, t, prio) ==
  LET c    == p.contexts[tm.id]
      next == [id |-> tm.id, cid |-> tm.cid, kind |-> "expire",
               at |-> ExpiryDeadline(c, t)]
  IN  IF c = None THEN Quiet(p)
      ELSE IF c.cid # tm.cid \/ c.expiring THEN Quiet(p)
      ELSE StartSecurity(
             [p EXCEPT !.contexts = [@ EXCEPT ![tm.id] =
                          [c EXCEPT !.expiring = TRUE, !.timer = next]],
                       !.timers = (@ \ {c.timer}) \cup {next}],
             t, FALSE, prio, fresh)

(* peer_expire_security_context *)
ExpireContext(p, tm) ==
  LET c == p.contexts[tm.id]
  IN  IF c = None THEN Quiet(p)
      ELSE IF c.cid # tm.cid THEN Quiet(p)
      ELSE Quiet([p EXCEPT !.contexts = [@ EXCEPT ![tm.id] = None],
                           !.timers = @ \ {c.timer}])

ContextTimer(l, tm) ==
  /\ tm \in peer[l].timers
  /\ tm.at <= Clock(l)
  /\ LET p == [peer[l] EXCEPT !.timers = @ \ {tm}] IN
     \E prio \in Priority[l[1]] :
       Apply(l, IF tm.kind = "renew" THEN MarkExpiring(p, tm, Clock(l), prio)
                                     ELSE ExpireContext(p, tm), inbox)
  /\ UNCHANGED <<now, known>>

(* Mutant: a deleted peer leaves its context timers behind. *)
Cleanup_KeepsTimers(p) == [Absent EXCEPT !.timers = p.timers]

(* peer_schedule_check_activity with peer_cleanup: timers are cancelled,   *)
(* procedure, transaction and contexts dropped, the entry erased.          *)
Cleanup(p) == Absent

CheckActivity(l) ==
  /\ peer[l].present
  /\ Clock(l) > peer[l].active + PeerTimeout
  /\ peer' = [peer EXCEPT ![l] = Cleanup(@)]
  /\ UNCHANGED <<now, fresh, known, inbox>>

AddPublicKey(l) ==
  /\ "operator" \in Environment
  /\ known' = known \cup {l}
  /\ peer' = [peer EXCEPT ![l].key = peer[l].present]
  /\ UNCHANGED <<now, fresh, inbox>>

(* rem_public_key leaves the copy in the peer entry. *)
RemPublicKey(l) ==
  /\ "operator" \in Environment
  /\ known' = known \ {l}
  /\ UNCHANGED <<now, fresh, peer, inbox>>

(* The process of node n is restarted; its public keys are configuration. *)
Restart(n) ==
  /\ "restart" \in Environment
  /\ known' = known \cup {l \in Link : l[1] = n}
  /\ peer' = [l \in Link |-> IF l[1] = n THEN Absent ELSE peer[l]]
  /\ inbox' = [l \in Link |-> IF l[1] = n THEN <<>> ELSE inbox[l]]
  /\ UNCHANGED <<now, fresh>>

Lose(l, k) ==
  /\ "lose" \in Environment
  /\ k \in 1 .. Len(inbox[l])
  /\ inbox' = [inbox EXCEPT ![l] = RemoveIndex(@, k)]
  /\ UNCHANGED <<now, fresh, known, peer>>

Duplicate(l, k) ==
  /\ "duplicate" \in Environment
  /\ k \in 1 .. Len(inbox[l])
  /\ Len(inbox[l]) < MaxInFlight
  /\ inbox' = [inbox EXCEPT ![l] = Append(@, @[k])]
  /\ UNCHANGED <<now, fresh, known, peer>>

(* Without "late" messages and timers take less than a second, and without *)
(* "silence" every peer is heard from once a second at least.              *)
Tick ==
  /\ now < MaxTime
  /\ "late" \notin Environment =>
       \A l \in Link : /\ inbox[l] = <<>>
                       /\ \A tm \in peer[l].timers : tm.at > Clock(l)
  /\ "silence" \notin Environment =>
       \A l \in Link : peer[l].present => peer[l].active = Clock(l)
  /\ now' = now + 1
  /\ UNCHANGED <<fresh, known, peer, inbox>>

Next ==
  \/ Tick
  \/ \E l \in Link :
       \/ HandleBeacon(l)
       \/ SendWithoutContext(l)
       \/ TransactionTimeout(l)
       \/ CheckActivity(l)
       \/ AddPublicKey(l)
       \/ RemPublicKey(l)
       \/ \E tm \in peer[l].timers : ContextTimer(l, tm)
       \/ \E k \in 1 .. Len(inbox[l]) :
            Receive(l, k) \/ Lose(l, k) \/ Duplicate(l, k)
  \/ \E n \in Node : Restart(n)

Spec == Init /\ [][Next]_vars

-----------------------------------------------------------------------------
(* Safety.                                                                 *)

(* The renewal and expiry callbacks find their context by (id, creation    *)
(* id), and creation ids are reused: no two contexts of a peer share one,  *)
(* and a running procedure shares its own at most with the context it will *)
(* replace.  (peer_get_next_creation_id and both install sites.)           *)
UniqueCreationIds(p) ==
  /\ \A i, j \in Held(p) : p.contexts[i].cid = p.contexts[j].cid => i = j
  /\ p.proc # None =>
       \A i \in Held(p) : p.contexts[i].cid = p.proc.cid => i = p.proc.id
CreationIdsUnique == \A l \in Link : UniqueCreationIds(peer[l])

(* Every context has exactly one pending timer, the one its timer_id       *)
(* names: a renewal timer until the context is marked expiring, then an    *)
(* expiry timer that is not due before the expiration time.  No timer      *)
(* outlives its context.                                                   *)
OneTimerPerContext(p) ==
  /\ p.timers = {p.contexts[i].timer : i \in Held(p)}
  /\ \A i \in Held(p) :
       LET c == p.contexts[i] IN
       /\ c.timer.id = i /\ c.timer.cid = c.cid
       /\ c.timer.kind = IF c.expiring THEN "expire" ELSE "renew"
       /\ c.expiring => c.timer.at >= c.exp
TimersMatchContexts == \A l \in Link : OneTimerPerContext(peer[l])

(* The security transaction is current exactly while its procedure runs,   *)
(* and carries the transaction id that went out in MSG1.                   *)
CurrentIsProcedure(p) ==
  /\ p.proc = None <=> p.current = None
  /\ p.proc # None => p.proc.mid = p.current
ProcedureOwnsTransaction == \A l \in Link : CurrentIsProcedure(peer[l])

(* No two contexts of a peer hold the same derived key, so that resetting  *)
(* the receive window of one (has_rx_sn) never re-admits frames of another *)
(* one.                                                                    *)
NoKeyInTwoContexts ==
  \A l \in Link : \A i, j \in Held(peer[l]) :
    peer[l].contexts[i].key = peer[l].contexts[j].key => i = j

(* A context is given up only at its expiration time or with its peer; in  *)
(* particular no timer of an earlier context with the same id and creation *)
(* id ever removes it.                                                     *)
NoEarlyExpiry ==
  [][\A l \in Link : \A i \in CtxId :
       /\ peer[l].contexts[i] # None
       /\ peer'[l].contexts[i] = None
       => \/ peer[l].contexts[i].exp <= Clock(l)
          \/ ~peer'[l].present]_vars

(* Nothing is under way between the two ends of l. *)
Settled(l) ==
  /\ inbox[l] = <<>> /\ inbox[Back(l)] = <<>>
  /\ peer[l].proc = None /\ peer[Back(l)].proc = None

SameKey(l, i) ==
  /\ peer[Back(l)].contexts[i] # None
  /\ peer[l].contexts[i].key = peer[Back(l)].contexts[i].key

(* When nothing is under way, contexts with one id at both ends hold one   *)
(* key: the handshake left both sides with the same Diffie-Hellman result. *)
KeysAgree ==
  \A l \in Link : Settled(l) =>
    \A i \in Held(peer[l]) \cap Held(peer[Back(l)]) : SameKey(l, i)

(* Whatever context a node would protect its next frame with, its peer can *)
(* verify it, once the messages under way have arrived.                    *)
SelectedContextShared ==
  \A l \in Link : inbox[l] = <<>> /\ inbox[Back(l)] = <<>> =>
    \A i \in Selectable(peer[l], Clock(l)) : SameKey(l, i)

(* Renewal overlaps: once both ends share a context that has not expired   *)
(* they keep sharing one.                                                  *)
Secured(l) == \E i \in Held(peer[l]) :
                peer[l].contexts[i].exp > Clock(l) /\ SameKey(l, i)
SeamlessRenewal == [][\A l \in Link : Secured(l) => Secured(l)']_vars

(* A node forgets a configured public key only over a handshake that had   *)
(* expired by its own clock.                                               *)
KeyForgottenOnlyWhenExpired ==
  [][\A l \in known \ known' : peer[l].proc # None =>
       peer[l].proc.exp <= Clock(l)]_vars
-----------------------------------------------------------------------------
(* Liveness.  The reactor serves every readable socket and every timer     *)
(* that is due; nothing makes a node send, and time need not pass.         *)
Fairness ==
  \A l \in Link : /\ WF_vars(\E k \in 1 .. Len(inbox[l]) : Receive(l, k))
                  /\ WF_vars(TransactionTimeout(l))
                  /\ WF_vars(\E tm \in peer[l].timers : ContextTimer(l, tm))

FairSpec == Spec /\ Fairness

(* The MSG1 of the owner of l is on its way to a node that knows the owner *)
(* as a peer and has its public key.                                       *)
Asked(l) ==
  LET there == peer[Back(l)] IN
  /\ peer[l].proc # None /\ peer[l].key
  /\ there.present /\ (there.key \/ Back(l) \in known)
  /\ \E k \in 1 .. Len(inbox[Back(l)]) : inbox[Back(l)][k] = Msg1Of(peer[l].proc)

(* A MSG1 that reaches an idle peer, or crosses the peer's own MSG1, leads *)
(* to a context shared by both: through arbitration, restarts after a tie  *)
(* and the fallback to an algorithm pair both support.                     *)
HandshakeCompletes ==
  \A l \in Link :
    (Asked(l) /\ (peer[Back(l)].proc = None \/ Asked(Back(l)))) ~> Secured(l)

(* The same for every MSG1 that reaches a peer, also one whose own         *)
(* procedure waits for an answer that will not come.                       *)
EveryHandshakeCompletes == \A l \in Link : Asked(l) ~> Secured(l)
=============================================================================
