--------------------------- MODULE PeerKeysProofs ---------------------------
(***************************************************************************)
(* The keys of the two ends of a link.                                     *)
(*                                                                         *)
(* No key is ever in two contexts of a peer.  Every handshake a node takes *)
(* part in gets an ephemeral key that the node drew for it, as initiator   *)
(* or as responder; the numbers of these are the argument: those of the    *)
(* contexts of one peer differ, and a procedure in progress shares its     *)
(* number at most with the context it will replace.                        *)
(*                                                                         *)
(* Where nothing is lost, repeated, reordered or late, and no node         *)
(* restarts, the two ends also agree: on the keys, on which contexts there *)
(* are, and on the public keys.  The argument has three layers: what can   *)
(* be under way between two ends (FInv), that both will hold one key       *)
(* (KInv), and that both will hold a context until it expires (SInv).      *)
(***************************************************************************)
EXTENDS PeerSecurityProofs

(* The ephemeral key that the owner of l drew for a key of the peer. *)
Drawn(l, key) == IF key.initiator = l[1] THEN key.e ELSE key.f

(* n numbers have been drawn so far. *)
UniqueDraws(l, p, n) ==
  /\ \A i \in Held(p) : Drawn(l, p.contexts[i].key) < n
  /\ \A i, j \in Held(p) :
       Drawn(l, p.contexts[i].key) = Drawn(l, p.contexts[j].key) => i = j
  /\ p.proc # None =>
       /\ p.proc.eph < n
       /\ \A i \in Held(p) :
            Drawn(l, p.contexts[i].key) = p.proc.eph => i = p.proc.id

Draws == \A l \in Link : UniqueDraws(l, peer[l], fresh)

(* What a handler of the peer of l leaves. *)
DrawnResult(l, r) == UniqueDraws(l, r.peer, fresh + r.ephs)

-----------------------------------------------------------------------------
(* The context table.                                                      *)

LEMMA DrawnType ==
  ASSUME NEW l, NEW key \in Key
  PROVE  Drawn(l, key) \in Nat
BY DEF Drawn, Key

LEMMA HeldKeys ==
  ASSUME NEW p \in Peer, NEW i \in Held(p)
  PROVE  i \in CtxId /\ p.contexts[i] \in Context /\ p.contexts[i].key \in Key
<1>1. i \in CtxId /\ p.contexts[i] # None
  BY DEF Held
<1>2. p.contexts[i] \in Context
  BY <1>1 DEF Peer
<1> QED
  BY <1>1, <1>2 DEF Context

(* A handler that leaves the contexts alone and does not begin a procedure. *)
LEMMA SameDraws ==
  ASSUME NEW l, NEW p \in Peer, NEW q, NEW n \in Nat, NEW k \in Nat,
         UniqueDraws(l, p, n), q.contexts = p.contexts,
         \/ q.proc = None
         \/ p.proc # None /\ q.proc.eph = p.proc.eph /\ q.proc.id = p.proc.id
  PROVE  UniqueDraws(l, q, n + k)
<1>1. Held(q) = Held(p)
  BY DEF Held
<1>2. ASSUME NEW x \in Nat, x < n PROVE x < n + k
  BY <1>2
<1>3. \A i \in Held(q) : Drawn(l, q.contexts[i].key) < n + k
  BY <1>1, <1>2, HeldKeys, DrawnType DEF UniqueDraws
<1>4. ASSUME q.proc # None
      PROVE  /\ q.proc.eph < n + k
             /\ \A i \in Held(q) :
                  Drawn(l, q.contexts[i].key) = q.proc.eph => i = q.proc.id
  <2>1. p.proc \in Procedure /\ p.proc # None
    BY <1>4 DEF Peer
  <2>2. p.proc.eph \in Nat
    BY <2>1 DEF Procedure
  <2> QED
    BY <1>1, <1>2, <1>4, <2>1, <2>2 DEF UniqueDraws
<1> QED
  BY <1>1, <1>3, <1>4 DEF UniqueDraws

(* A context gets a key that was drawn for it. *)
LEMMA InstallDraws ==
  ASSUME NEW l, NEW p \in Peer, NEW n \in Nat, NEW k \in Nat,
         UniqueDraws(l, p, n),
         NEW t \in Nat, NEW id \in CtxId, NEW cid \in Nat, NEW key \in Key,
         NEW pair \in Pair, NEW exp \in Nat,
         Drawn(l, key) < n + k,
         \A i \in Held(p) : Drawn(l, p.contexts[i].key) = Drawn(l, key) => i = id,
         p.proc # None /\ p.proc.eph = Drawn(l, key) => id = p.proc.id
  PROVE  UniqueDraws(l, Install(p, t, id, cid, key, pair, exp), n + k)
<1> DEFINE timer     == [id |-> id, cid |-> cid, kind |-> "renew",
                         at |-> t + RenewalWait(exp, t)]
           cancelled == IF p.contexts[id] = None THEN {} ELSE {p.contexts[id].timer}
           c == [cid |-> cid, key |-> key, pair |-> pair, exp |-> exp,
                 expiring |-> FALSE, timer |-> timer]
           q == Install(p, t, id, cid, key, pair, exp)
<1>1. c \in Context /\ c.key = key
  <2>1. timer \in Timer
    BY ConstantsAssumption DEF Timer, RenewalWait
  <2> HIDE DEF timer
  <2> QED
    BY <2>1 DEF Context
<1>2. q = [p EXCEPT !.contexts = [@ EXCEPT ![id] = c],
                    !.timers = (@ \ cancelled) \cup {timer},
                    !.supported = @ \cup {pair}]
  BY Zenon DEF Install
<1> HIDE DEF c, cancelled, timer
<1>3. /\ q.contexts = [p.contexts EXCEPT ![id] = c] /\ q.proc = p.proc
  BY <1>2 DEF Peer
<1> HIDE DEF q
<1>4. /\ q.contexts[id] = c
      /\ \A i \in CtxId : i # id => q.contexts[i] = p.contexts[i]
  BY <1>3 DEF Peer
<1>5. c # None
  BY <1>1, NoneAssumption
<1>6. Held(q) = Held(p) \cup {id}
  BY <1>4, <1>5 DEF Held
<1>7. \A i \in Held(q) : i # id => i \in Held(p) /\ q.contexts[i] = p.contexts[i]
  BY <1>4, <1>6 DEF Held
<1>8. \A i \in Held(p) : /\ Drawn(l, p.contexts[i].key) \in Nat
                         /\ Drawn(l, p.contexts[i].key) < n + k
  BY HeldKeys, DrawnType DEF UniqueDraws
<1>9. \A i \in Held(q) : Drawn(l, q.contexts[i].key) < n + k
  BY <1>1, <1>4, <1>7, <1>8
<1>10. \A i, j \in Held(q) :
         Drawn(l, q.contexts[i].key) = Drawn(l, q.contexts[j].key) => i = j
  BY <1>1, <1>4, <1>7 DEF UniqueDraws
<1>11. ASSUME q.proc # None
       PROVE  /\ q.proc.eph < n + k
              /\ \A i \in Held(q) :
                   Drawn(l, q.contexts[i].key) = q.proc.eph => i = q.proc.id
  <2>1. p.proc # None /\ p.proc \in Procedure
    BY <1>3, <1>11 DEF Peer
  <2>2. p.proc.eph \in Nat /\ p.proc.eph < n + k
    BY <2>1 DEF Procedure, UniqueDraws
  <2> QED
    BY <1>1, <1>3, <1>4, <1>7, <2>1, <2>2 DEF UniqueDraws
<1> QED
  BY <1>9, <1>10, <1>11 DEF UniqueDraws, q

-----------------------------------------------------------------------------
(* The procedure.                                                          *)

LEMMA AbortSenderDraws ==
  ASSUME NEW l, NEW p \in Peer, NEW n \in Nat, UniqueDraws(l, p, n)
  PROVE  UniqueDraws(l, AbortSender(p), n)
<1> DEFINE q == AbortSender(p)
<1>1. q.contexts = p.contexts /\ q.proc = None
  BY DEF AbortSender, Peer
<1> HIDE DEF q
<1>2. UniqueDraws(l, q, n + 0)
  BY <1>1, SameDraws
<1> QED
  BY <1>2 DEF q

LEMMA CompleteTransactionDraws ==
  ASSUME NEW l, NEW p \in Peer, NEW n \in Nat, UniqueDraws(l, p, n), NEW id
  PROVE  UniqueDraws(l, CompleteTransaction(p, id), n)
BY AbortSenderDraws DEF CompleteTransaction

LEMMA QuietDraws ==
  ASSUME NEW l, NEW q, fresh \in Nat, UniqueDraws(l, q, fresh)
  PROVE  DrawnResult(l, Quiet(q))
BY DEF DrawnResult, Quiet, Result

(* A procedure begins with a number nobody has drawn before. *)
LEMMA StartSecurityDraws ==
  ASSUME NEW l, NEW p \in Peer, fresh \in Nat, UniqueDraws(l, p, fresh),
         NEW t \in Nat, NEW force \in BOOLEAN, NEW prio \in Nat
  PROVE  DrawnResult(l, StartSecurity(p, t, force, prio, fresh))
<1> DEFINE blocked == \/ ~p.key
                      \/ ~force /\ \E i \in Held(p) : Usable(p.contexts[i], t)
                      \/ p.proc # None
           mid   == (p.trid + 1) % Trids
           pairs == IF p.supported # {} THEN p.supported ELSE p.test
           pair  == Greatest(pairs)
           proc  == [id |-> NextSecCtxId(p), cid |-> NextCreationId(p),
                     mid |-> mid, eph |-> fresh, exp |-> t + Timeout,
                     prio |-> prio, pair |-> pair, retries |-> 1]
           bumped == [p EXCEPT !.trid = Bump(@)]
           armed  == ArmTransactionTimer(bumped)
           test   == IF p.supported = {} THEN armed.test \ {pair} ELSE armed.test
<1>1. CASE blocked
  <2>1. StartSecurity(p, t, force, prio, fresh) = Quiet(p)
    BY <1>1 DEF StartSecurity
  <2> QED
    BY <2>1, QuietDraws
<1>2. CASE ~blocked /\ pairs = {}
  <2> DEFINE q == ArmTransactionTimer(AbortSender(bumped))
  <2>1. StartSecurity(p, t, force, prio, fresh) = Result(q, None, 1)
    BY <1>2 DEF StartSecurity
  <2>2. q.contexts = p.contexts /\ q.proc = None
    BY DEF ArmTransactionTimer, AbortSender, Peer
  <2> HIDE DEF q
  <2>3. UniqueDraws(l, q, fresh + 1)
    BY <2>2, SameDraws
  <2> QED
    BY <2>1, <2>3 DEF DrawnResult, Result
<1>3. CASE ~blocked /\ pairs # {}
  <2> DEFINE q == [armed EXCEPT !.proc = proc, !.current = mid, !.test = test]
  <2>1. StartSecurity(p, t, force, prio, fresh) = Result(q, Msg1Of(proc), 1)
    BY <1>3, Zenon DEF StartSecurity
  <2>2. proc.eph = fresh
    OBVIOUS
  <2> HIDE DEF proc, mid
  <2>3. armed.contexts = p.contexts /\ DOMAIN armed = DOMAIN p
    BY DEF ArmTransactionTimer, Peer
  <2> HIDE DEF test
  <2>4. q.contexts = p.contexts /\ q.proc = proc
    BY DEF ArmTransactionTimer, Peer
  <2> HIDE DEF armed, q
  <2>5. Held(q) = Held(p)
    BY <2>4 DEF Held
  <2>6. \A i \in Held(p) : /\ Drawn(l, p.contexts[i].key) \in Nat
                           /\ Drawn(l, p.contexts[i].key) < fresh
    BY HeldKeys, DrawnType DEF UniqueDraws
  <2>7. \A i \in Held(p) : /\ Drawn(l, p.contexts[i].key) < fresh + 1
                           /\ Drawn(l, p.contexts[i].key) # fresh
    BY <2>6
  <2>8. UniqueDraws(l, q, fresh + 1)
    BY <2>2, <2>4, <2>5, <2>7 DEF UniqueDraws
  <2> QED
    BY <2>1, <2>8 DEF DrawnResult, Result
<1> QED
  BY <1>1, <1>2, <1>3

LEMMA ExpireTransactionDraws ==
  ASSUME NEW l, NEW p \in Peer, fresh \in Nat, UniqueDraws(l, p, fresh)
  PROVE  DrawnResult(l, ExpireTransaction(p))
<1>1. CASE \/ p.proc = None
           \/ p.proc # None /\ p.proc.mid = p.current /\ p.proc.retries >= 3
  <2>1. ExpireTransaction(p) = Quiet(CompleteTransaction(p, 0))
    BY <1>1 DEF ExpireTransaction
  <2> QED
    BY <2>1, CompleteTransactionDraws, QuietDraws
<1>2. CASE p.proc # None /\ p.proc.mid # p.current
  BY <1>2, QuietDraws DEF ExpireTransaction
<1>3. CASE p.proc # None /\ p.proc.mid = p.current /\ ~(p.proc.retries >= 3)
  <2> DEFINE q == [p EXCEPT !.proc.retries = @ + 1]
  <2>1. ExpireTransaction(p) = Result(q, Msg1Of(p.proc), 0)
    BY <1>3 DEF ExpireTransaction
  <2>2. p.proc \in Procedure
    BY <1>3 DEF Peer
  <2>3. /\ q.contexts = p.contexts
        /\ q.proc = [p.proc EXCEPT !.retries = @ + 1]
    BY DEF Peer
  <2> HIDE DEF q
  <2>4. q.proc.eph = p.proc.eph /\ q.proc.id = p.proc.id
    BY <2>2, <2>3 DEF Procedure
  <2>5. UniqueDraws(l, q, fresh + 0)
    BY <1>3, <2>3, <2>4, SameDraws
  <2> QED
    BY <2>1, <2>5 DEF DrawnResult, Result
<1> QED
  BY <1>1, <1>2, <1>3

-----------------------------------------------------------------------------
(* The handlers.                                                           *)

LEMMA TouchDraws ==
  ASSUME NEW l, NEW p \in Peer, NEW k, NEW t, NEW n \in Nat, UniqueDraws(l, p, n)
  PROVE  UniqueDraws(l, Touch(p, k, t), n)
<1> DEFINE q == Touch(p, k, t)
<1>1. q.contexts = p.contexts /\ q.proc = p.proc
  BY DEF Touch, Peer
<1> HIDE DEF q
<1>2. UniqueDraws(l, q, n + 0)
  BY <1>1, SameDraws
<1> QED
  BY <1>2 DEF q

(* The responder draws the second ephemeral key. *)
LEMMA RespondDraws ==
  ASSUME NEW l \in Link, NEW p \in Peer, fresh \in Nat, UniqueDraws(l, p, fresh),
         p.proc = None, NEW m \in Msg1, NEW t \in Nat
  PROVE  DrawnResult(l, Respond(p, l, m, t, fresh))
<1> DEFINE key == [initiator |-> l[2], responder |-> l[1], e |-> m.eph, f |-> fresh]
           q == Install(p, t, m.ctx, NextCreationId(p), key, m.pair, m.exp)
<1>1. m.eph \in Nat /\ m.ctx \in CtxId /\ m.pair \in Pair /\ m.exp \in Nat
  BY DEF Msg1
<1>2. key \in Key /\ Drawn(l, key) = fresh
  BY <1>1 DEF Key, Link, Drawn
<1> HIDE DEF key
<1>3. NextCreationId(p) \in Nat
  BY NextCreationIdFresh
<1>4. \A i \in Held(p) : Drawn(l, p.contexts[i].key) # Drawn(l, key)
  BY <1>2, HeldKeys, DrawnType DEF UniqueDraws
<1>5. UniqueDraws(l, q, fresh + 1)
  <2>1. Drawn(l, key) < fresh + 1
    BY <1>2
  <2> DEFINE cid == NextCreationId(p)
  <2>2. cid \in Nat
    BY <1>3
  <2> HIDE DEF cid
  <2>3. UniqueDraws(l, Install(p, t, m.ctx, cid, key, m.pair, m.exp), fresh + 1)
    BY <1>1, <1>2, <1>4, <2>1, <2>2, InstallDraws
  <2> QED
    BY <2>3 DEF cid
<1> HIDE DEF q
<1>6. UniqueDraws(l, p, fresh + 0)
  BY SameDraws
<1>7. CASE m.exp <= t
  BY <1>6, <1>7 DEF Respond, Reply, Result, DrawnResult
<1>8. CASE ~(m.exp <= t) /\ m.pair \notin Supports[l[1]]
  BY <1>6, <1>8 DEF Respond, Reply, Result, DrawnResult
<1>9. CASE ~(m.exp <= t) /\ m.pair \in Supports[l[1]]
  <2>1. Respond(p, l, m, t, fresh) = Reply(q, m, "OK", fresh)
    BY <1>9 DEF Respond, key, q
  <2> QED
    BY <1>5, <2>1 DEF Reply, Result, DrawnResult
<1> QED
  BY <1>7, <1>8, <1>9

LEMMA HandleMsg1Draws ==
  ASSUME NEW l \in Link, NEW m \in Msg1, NEW prio \in Nat,
         now \in Nat, fresh \in Nat, Sound(peer[l]), UniqueDraws(l, peer[l], fresh)
  PROVE  DrawnResult(l, HandleMsg1(l, m, prio))
<1> DEFINE t == Clock(l)
           p == Touch(peer[l], l, t)
           a == AbortSender(p)
<1>1. t \in Nat
  BY ClockType
<1> HIDE DEF t
<1>2. p \in Peer /\ Sound(p) /\ UniqueDraws(l, p, fresh)
  BY <1>1, TouchSound, TouchDraws DEF Sound
<1> HIDE DEF p
<1>3. a \in Peer /\ a.proc = None /\ UniqueDraws(l, a, fresh)
  BY <1>2, AbortSenderSound, AbortSenderDraws DEF Sound
<1> HIDE DEF a
<1>4. CASE ~peer[l].present
  BY <1>4, QuietDraws DEF HandleMsg1
<1>5. CASE \/ peer[l].present /\ ~p.key
           \/ peer[l].present /\ p.key /\ p.proc # None /\ m.prio < p.proc.prio
  <2>1. p.proc # None => p.proc.prio \in Nat /\ m.prio \in Nat
    BY <1>2 DEF Peer, Procedure, Msg1
  <2>2. p.proc # None /\ m.prio < p.proc.prio => ~(m.prio > p.proc.prio)
    BY <2>1
  <2>3. HandleMsg1(l, m, prio) = Quiet(p)
    BY <1>5, <2>2 DEF HandleMsg1, p, t
  <2> QED
    BY <1>2, <2>3, QuietDraws
<1>6. CASE peer[l].present /\ p.key /\ p.proc = None
  <2>1. HandleMsg1(l, m, prio) = Respond(p, l, m, t, fresh)
    BY <1>6 DEF HandleMsg1, p, t
  <2> QED
    BY <1>1, <1>2, <1>6, <2>1, RespondDraws
<1>7. CASE peer[l].present /\ p.key /\ p.proc # None /\ m.prio > p.proc.prio
  <2>1. HandleMsg1(l, m, prio) = Respond(a, l, m, t, fresh)
    BY <1>7 DEF HandleMsg1, p, t, a
  <2> QED
    BY <1>1, <1>3, <2>1, RespondDraws
<1>8. CASE /\ peer[l].present /\ p.key /\ p.proc # None
           /\ ~(m.prio > p.proc.prio) /\ ~(m.prio < p.proc.prio)
  <2>1. HandleMsg1(l, m, prio) = StartSecurity(a, t, TRUE, prio, fresh)
    BY <1>8 DEF HandleMsg1, p, t, a
  <2> QED
    BY <1>1, <1>3, <2>1, StartSecurityDraws
<1> QED
  BY <1>4, <1>5, <1>6, <1>7, <1>8

(* The initiator installs what it drew when the procedure began, however   *)
(* often and however late the answer comes.                                *)
LEMMA HandleMsg2Draws ==
  ASSUME NEW l \in Link, NEW m \in Msg2, NEW prio \in Nat,
         now \in Nat, fresh \in Nat, Sound(peer[l]), UniqueDraws(l, peer[l], fresh)
  PROVE  DrawnResult(l, HandleMsg2(l, m, prio))
<1> DEFINE t == Clock(l)
           p == [peer[l] EXCEPT !.active = t]
           pr == p.proc
           key == [initiator |-> l[1], responder |-> l[2], e |-> pr.eph, f |-> m.eph]
<1>1. t \in Nat
  BY ClockType
<1> HIDE DEF t
<1>2. p \in Peer /\ Sound(p) /\ UniqueDraws(l, p, fresh)
  <2>1. /\ p \in Peer /\ p.contexts = peer[l].contexts /\ p.proc = peer[l].proc
        /\ p.timers = peer[l].timers /\ p.current = peer[l].current
        /\ p.present = peer[l].present
    BY <1>1 DEF Sound, Peer
  <2> HIDE DEF p
  <2>3. Sound(p)
    BY <2>1, SameBooks
  <2>2. UniqueDraws(l, p, fresh + 0)
    BY <2>1, SameDraws DEF Sound
  <2> QED
    BY <2>1, <2>2, <2>3
<1> HIDE DEF p
<1>3. CASE ~p.present
  <2>1. HandleMsg2(l, m, prio) = Quiet(peer[l])
    BY <1>3 DEF HandleMsg2, p, t
  <2> QED
    BY <2>1, QuietDraws
<1>4. CASE p.present /\ (p.proc = None \/ ~p.key)
  <2>1. HandleMsg2(l, m, prio) = Quiet(CompleteTransaction(p, m.id))
    BY <1>4 DEF HandleMsg2, p, t
  <2> QED
    BY <1>2, <2>1, CompleteTransactionDraws, QuietDraws
<1>5. CASE p.present /\ p.proc # None /\ p.key /\ m.status = "UNSUPPORTED"
  <2> DEFINE q == [p EXCEPT !.supported = @ \ {pr.pair}, !.test = @ \ {pr.pair}]
             c == CompleteTransaction(q, m.id)
  <2>1. HandleMsg2(l, m, prio) = StartSecurity(c, t, TRUE, prio, fresh)
    BY <1>5, Zenon DEF HandleMsg2, p, t
  <2>2. q \in Peer /\ q.contexts = p.contexts /\ q.proc = p.proc
    BY <1>2 DEF Peer
  <2> HIDE DEF q
  <2>3. UniqueDraws(l, q, fresh + 0)
    BY <1>2, <2>2, SameDraws
  <2>4. c \in Peer
    BY <2>2 DEF CompleteTransaction, AbortSender, Peer
  <2>5. UniqueDraws(l, c, fresh)
    BY <2>2, <2>3, CompleteTransactionDraws
  <2> HIDE DEF c
  <2> QED
    BY <1>1, <2>1, <2>4, <2>5, StartSecurityDraws
<1>6. CASE p.present /\ p.proc # None /\ p.key /\ m.status = "VERIFICATION_FAILED"
  <2> DEFINE c == CompleteTransaction(p, m.id)
             q == [c EXCEPT !.key = FALSE]
  <2>1. HandleMsg2(l, m, prio) = Quiet(q)
    BY <1>6 DEF HandleMsg2, p, t
  <2>2. c \in Peer
    BY <1>2 DEF CompleteTransaction, AbortSender, Peer
  <2>3. UniqueDraws(l, c, fresh)
    BY <1>2, CompleteTransactionDraws
  <2> HIDE DEF c
  <2>4. q.contexts = c.contexts /\ q.proc = c.proc
    BY <2>2 DEF Peer
  <2> HIDE DEF q
  <2>5. UniqueDraws(l, q, fresh + 0)
    BY <2>2, <2>3, <2>4, SameDraws
  <2> QED
    BY <2>1, <2>5, QuietDraws
<1>7. CASE p.present /\ p.proc # None /\ p.key /\ m.status = "OK"
  <2> DEFINE q == Install(p, t, pr.id, pr.cid, key, pr.pair, pr.exp)
             c == CompleteTransaction(q, m.id)
  <2>1. HandleMsg2(l, m, prio) = Quiet(c)
    BY <1>7, Zenon DEF HandleMsg2, p, t
  <2>2. p.proc \in Procedure
    BY <1>2, <1>7 DEF Peer
  <2>3. /\ pr.id \in CtxId /\ pr.cid \in Nat /\ pr.pair \in Pair
        /\ pr.exp \in Nat /\ pr.eph \in Nat
    BY <2>2 DEF Procedure
  <2>4. key \in Key /\ Drawn(l, key) = pr.eph
    BY <2>3 DEF Key, Link, Msg2, Drawn
  <2> HIDE DEF key
  <2>5. UniqueDraws(l, q, fresh + 0)
    <3>1. pr.eph < fresh + 0
      BY <1>2, <1>7, <2>3 DEF UniqueDraws
    <3>2. \A i \in Held(p) : Drawn(l, p.contexts[i].key) = Drawn(l, key) => i = pr.id
      BY <1>2, <1>7, <2>4 DEF UniqueDraws
    <3> QED
      BY <1>1, <1>2, <2>3, <2>4, <3>1, <3>2, InstallDraws
  <2>6. q \in Peer
    <3>1. /\ \A i \in Held(p) : p.contexts[i].cid = pr.cid => i = pr.id
          /\ p.proc # None /\ p.proc.cid = pr.cid => p.proc.id = pr.id
      BY <1>2, <1>7 DEF Sound, Books, UniqueCreationIds
    <3>2. Sound(q)
      BY <1>1, <1>2, <1>7, <2>3, <2>4, <3>1, InstallSound
    <3> QED
      BY <3>2 DEF Sound
  <2> HIDE DEF q
  <2>7. UniqueDraws(l, c, fresh)
    BY <2>5, <2>6, CompleteTransactionDraws
  <2> QED
    BY <2>1, <2>7, QuietDraws
<1>8. m.status \in {"OK", "UNSUPPORTED", "VERIFICATION_FAILED"}
  BY DEF Msg2
<1> QED
  BY <1>3, <1>4, <1>5, <1>6, <1>7, <1>8

(* The renewal callback keeps the key and begins a procedure. *)
LEMMA MarkExpiringDraws ==
  ASSUME NEW l, NEW p, Sound(p), NEW tm \in p.timers, NEW t \in Nat,
         NEW prio \in Nat, fresh \in Nat, UniqueDraws(l, p, fresh)
  PROVE  DrawnResult(l, MarkExpiring([p EXCEPT !.timers = @ \ {tm}], tm, t, prio))
<1> DEFINE q == [p EXCEPT !.timers = @ \ {tm}]
           c == p.contexts[tm.id]
           next == [id |-> tm.id, cid |-> tm.cid, kind |-> "expire",
                    at |-> ExpiryDeadline(c, t)]
           d == [c EXCEPT !.expiring = TRUE, !.timer = next]
           r == [q EXCEPT !.contexts = [@ EXCEPT ![tm.id] = d],
                          !.timers = (@ \ {c.timer}) \cup {next}]
<1>1. /\ tm \in Timer /\ tm.id \in Held(p) /\ tm.id \in CtxId
      /\ c \in Context /\ c # None /\ c.timer = tm /\ c.cid = tm.cid
      /\ p \in Peer
  BY TimerFindsContext DEF Sound
<1>2. q \in Peer /\ q.contexts = p.contexts /\ q.proc = p.proc
  BY <1>1 DEF Peer
<1>3. CASE c.expiring
  <2>1. MarkExpiring(q, tm, t, prio) = Quiet(q)
    BY <1>1, <1>2, <1>3 DEF MarkExpiring
  <2> HIDE DEF q
  <2>2. UniqueDraws(l, q, fresh + 0)
    BY <1>1, <1>2, SameDraws
  <2> QED
    BY <2>1, <2>2, QuietDraws DEF q
<1>4. CASE ~c.expiring
  <2>1. MarkExpiring(q, tm, t, prio) = StartSecurity(r, t, FALSE, prio, fresh)
    BY <1>1, <1>2, <1>4 DEF MarkExpiring
  <2>2. next \in Timer
    BY <1>1 DEF Timer, Context, ExpiryDeadline
  <2> HIDE DEF next
  <2>3. d \in Context /\ d.key = c.key
    BY <1>1, <2>2 DEF Context
  <2> HIDE DEF d
  <2>4. d # None
    BY <2>3, NoneAssumption
  <2>5. /\ r \in Peer
        /\ r.contexts = [p.contexts EXCEPT ![tm.id] = d]
        /\ r.proc = p.proc
    BY <1>1, <1>2, <2>2, <2>3 DEF Peer
  <2> HIDE DEF r, q
  <2>6. \A i \in CtxId : r.contexts[i] = IF i = tm.id THEN d ELSE p.contexts[i]
    BY <1>1, <2>5 DEF Peer
  <2>7. Held(r) = Held(p) /\ \A i \in Held(p) : r.contexts[i].key = p.contexts[i].key
    BY <1>1, <2>3, <2>4, <2>6 DEF Held
  <2>8. UniqueDraws(l, r, fresh)
    BY <2>5, <2>7 DEF UniqueDraws
  <2>9. DrawnResult(l, StartSecurity(r, t, FALSE, prio, fresh))
    BY <2>5, <2>8, StartSecurityDraws
  <2> QED
    BY <2>1, <2>9 DEF q
<1> QED
  BY <1>3, <1>4

LEMMA ExpireContextDraws ==
  ASSUME NEW l, NEW p, Sound(p), NEW tm \in p.timers, fresh \in Nat,
         UniqueDraws(l, p, fresh)
  PROVE  DrawnResult(l, ExpireContext([p EXCEPT !.timers = @ \ {tm}], tm))
<1> DEFINE q == [p EXCEPT !.timers = @ \ {tm}]
           c == p.contexts[tm.id]
           r == [q EXCEPT !.contexts = [@ EXCEPT ![tm.id] = None],
                          !.timers = @ \ {c.timer}]
<1>1. tm.id \in CtxId /\ c # None /\ c.cid = tm.cid /\ p \in Peer
  BY TimerFindsContext DEF Sound
<1>2. q \in Peer /\ q.contexts = p.contexts /\ q.proc = p.proc
  BY <1>1 DEF Peer
<1>3. ExpireContext(q, tm) = Quiet(r)
  BY <1>1, <1>2 DEF ExpireContext
<1>4. r.contexts = [p.contexts EXCEPT ![tm.id] = None] /\ r.proc = p.proc
  BY <1>1, <1>2 DEF Peer
<1> HIDE DEF r, q
<1>5. \A i \in CtxId : r.contexts[i] = IF i = tm.id THEN None ELSE p.contexts[i]
  BY <1>1, <1>4 DEF Peer
<1>6. Held(r) = Held(p) \ {tm.id}
      /\ \A i \in Held(r) : r.contexts[i] = p.contexts[i]
  BY <1>5 DEF Held
<1>7. UniqueDraws(l, r, fresh)
  BY <1>4, <1>6 DEF UniqueDraws
<1> QED
  BY <1>3, <1>7, QuietDraws DEF q

-----------------------------------------------------------------------------
(* Steps.                                                                  *)

DInv == IInv /\ Draws

(* Other peers of the step are left with numbers below the new bound. *)
LEMMA OneDrawStep ==
  ASSUME DInv, NEW l \in Link, NEW p, NEW k \in Nat,
         peer' = [peer EXCEPT ![l] = p], fresh' = fresh + k,
         UniqueDraws(l, p, fresh + k)
  PROVE  Draws'
<1>1. peer \in [Link -> Peer] /\ fresh \in Nat
  BY DEF DInv, IInv, TypeOK
<1>2. peer'[l] = p /\ \A j \in Link : j # l => peer'[j] = peer[j]
  BY <1>1
<1>3. ASSUME NEW j \in Link, j # l PROVE UniqueDraws(j, peer[j], fresh + k)
  BY <1>1, SameDraws DEF DInv, Draws
<1>4. \A j \in Link : UniqueDraws(j, peer'[j], fresh')
  BY <1>2, <1>3
<1> QED
  BY <1>4 DEF Draws, UniqueDraws, Held

LEMMA ApplyDraws ==
  ASSUME DInv, NEW l \in Link, NEW r, NEW box, Apply(l, r, box),
         DrawnResult(l, r), r.ephs \in Nat
  PROVE  Draws'
BY OneDrawStep DEF Apply, DrawnResult

(* Steps that touch neither the contexts nor the procedures. *)
LEMMA NoDrawStep ==
  ASSUME DInv, UNCHANGED fresh,
         \A l \in Link : \/ peer'[l] = Absent
                         \/ /\ peer'[l].contexts = peer[l].contexts
                            /\ peer'[l].proc = peer[l].proc
  PROVE  Draws'
<1> SUFFICES ASSUME NEW l \in Link PROVE UniqueDraws(l, peer'[l], fresh)
  BY DEF Draws, UniqueDraws, Held
<1>1. peer[l] \in Peer /\ fresh \in Nat /\ UniqueDraws(l, peer[l], fresh)
  BY DEF DInv, IInv, TypeOK, Draws
<1>2. CASE peer'[l] = Absent
  BY <1>2 DEF UniqueDraws, Absent, Held
<1>3. CASE peer'[l].contexts = peer[l].contexts /\ peer'[l].proc = peer[l].proc
  <2>1. UniqueDraws(l, peer'[l], fresh + 0)
    BY <1>1, <1>3, SameDraws
  <2> QED
    BY <1>1, <2>1
<1> QED
  BY <1>2, <1>3

LEMMA BeaconDraws ==
  ASSUME DInv, NEW l \in Link, HandleBeacon(l)
  PROVE  Draws'
<1> DEFINE first == [Absent EXCEPT !.present = TRUE, !.test = Supports[l[1]]]
           q == Touch(first, l, Clock(l))
           p == Touch(peer[l], l, Clock(l))
<1>1. /\ peer \in [Link -> Peer] /\ fresh \in Nat /\ peer[l] \in Peer
      /\ UniqueDraws(l, peer[l], fresh)
  BY DEF DInv, IInv, TypeOK, Draws
<1>2. UniqueDraws(l, p, fresh)
  BY <1>1, TouchDraws
<1>3. UniqueDraws(l, q, fresh)
  <2>1. Supports[l[1]] \in SUBSET Pair
    BY ConstantsAssumption DEF Link
  <2>2. /\ first \in Peer /\ first.proc = None
        /\ first.contexts = [i \in CtxId |-> None]
    <3>1. Absent \in Peer
      BY AbsentSound DEF Sound
    <3>2. Absent.proc = None /\ Absent.contexts = [i \in CtxId |-> None]
      BY DEF Absent
    <3> QED
      BY <2>1, <3>1, <3>2 DEF Peer
  <2> HIDE DEF first
  <2>3. UniqueDraws(l, first, fresh)
    BY <2>2 DEF UniqueDraws, Held
  <2> QED
    BY <1>1, <2>2, <2>3, TouchDraws
<1>4. peer' = [peer EXCEPT ![l] = IF peer[l].present THEN p ELSE q]
  BY <1>1, Zenon DEF HandleBeacon
<1>6. fresh' = fresh + 0
  BY <1>1 DEF HandleBeacon
<1> HIDE DEF p, q
<1>5. UniqueDraws(l, IF peer[l].present THEN p ELSE q, fresh + 0)
  BY <1>1, <1>2, <1>3
<1> QED
  BY <1>4, <1>5, <1>6, OneDrawStep

LEMMA ReceiveDraws ==
  ASSUME DInv, NEW l \in Link, NEW k \in 1 .. Len(inbox[l]), Receive(l, k)
  PROVE  Draws'
<1> DEFINE m == inbox[l][k]
           box == [inbox EXCEPT ![l] = RemoveIndex(@, k)]
           r(prio) == IF m.type = "msg1" THEN HandleMsg1(l, m, prio)
                                         ELSE HandleMsg2(l, m, prio)
<1>1. PICK prio \in Priority[l[1]] : Apply(l, r(prio), box)
  BY Zenon DEF Receive
<1>2. prio \in Nat
  BY <1>1, ConstantsAssumption DEF Link
<1>3. /\ Sound(peer[l]) /\ inbox[l] \in Seq(Message) /\ now \in Nat /\ fresh \in Nat
      /\ UniqueDraws(l, peer[l], fresh)
  BY IInvIsSound DEF DInv, Draws
<1>4. m \in Message
  BY <1>3, ElementOfSeq
<1> HIDE DEF m, box
<1>5. r(prio).ephs \in Nat /\ DrawnResult(l, r(prio))
  <2>1. CASE m \in Msg1
    <3>1. m.type = "msg1"
      BY <2>1 DEF Msg1
    <3> QED
      BY <1>2, <1>3, <2>1, <3>1, HandleMsg1Sound, HandleMsg1Draws DEF SoundResult
  <2>2. CASE m \in Msg2
    <3>1. m.type # "msg1"
      BY <2>2 DEF Msg2
    <3> QED
      BY <1>2, <1>3, <2>2, <3>1, HandleMsg2Sound, HandleMsg2Draws DEF SoundResult
  <2> QED
    BY <1>4, <2>1, <2>2 DEF Message
<1> HIDE DEF r
<1> QED
  BY <1>1, <1>5, ApplyDraws

LEMMA SendWithoutContextDraws ==
  ASSUME DInv, NEW l \in Link, SendWithoutContext(l)
  PROVE  Draws'
<1>1. PICK prio \in Priority[l[1]] :
        Apply(l, StartSecurity(peer[l], Clock(l), FALSE, prio, fresh), inbox)
  BY DEF SendWithoutContext
<1>2. prio \in Nat
  BY <1>1, ConstantsAssumption DEF Link
<1>3. /\ Sound(peer[l]) /\ peer[l] \in Peer /\ Clock(l) \in Nat /\ fresh \in Nat
      /\ UniqueDraws(l, peer[l], fresh)
  BY ClockType, IInvIsSound DEF DInv, Draws, Sound
<1> DEFINE r == StartSecurity(peer[l], Clock(l), FALSE, prio, fresh)
<1>4. r.ephs \in Nat
  <2>1. SoundResult(StartSecurity(peer[l], Clock(l), FALSE, prio, fresh), peer[l])
    BY <1>2, <1>3, StartSecuritySound
  <2> HIDE DEF r
  <2>2. SoundResult(r, peer[l])
    BY <2>1 DEF r
  <2> QED
    BY <2>2 DEF SoundResult
<1>5. DrawnResult(l, r)
  BY <1>2, <1>3, StartSecurityDraws
<1> HIDE DEF r
<1>6. Apply(l, r, inbox)
  BY <1>1 DEF r
<1> QED
  BY <1>4, <1>5, <1>6, ApplyDraws

LEMMA TransactionTimeoutDraws ==
  ASSUME DInv, NEW l \in Link, TransactionTimeout(l)
  PROVE  Draws'
<1>1. /\ Sound(peer[l]) /\ peer[l] \in Peer /\ fresh \in Nat
      /\ UniqueDraws(l, peer[l], fresh)
  BY IInvIsSound DEF DInv, Draws, Sound
<1>2. ASSUME NEW p \in Peer, p.contexts = peer[l].contexts, p.proc = peer[l].proc,
             p.timers = peer[l].timers, p.current = peer[l].current,
             p.present = peer[l].present,
             Apply(l, ExpireTransaction(p), inbox)
      PROVE  Draws'
  <2> DEFINE r == ExpireTransaction(p)
  <2>1. Sound(p)
    BY <1>1, <1>2, SameBooks
  <2>2. r.ephs \in Nat
    BY <2>1, ExpireTransactionSound DEF SoundResult
  <2>3. UniqueDraws(l, p, fresh + 0)
    BY <1>1, <1>2, SameDraws
  <2>4. DrawnResult(l, r)
    BY <1>1, <2>3, ExpireTransactionDraws
  <2> HIDE DEF r
  <2>5. Apply(l, r, inbox)
    BY <1>2 DEF r
  <2> QED
    BY <2>2, <2>4, <2>5, ApplyDraws
<1>3. CASE /\ peer[l].armed
           /\ Apply(l, ExpireTransaction([peer[l] EXCEPT !.armed = FALSE]), inbox)
  <2> DEFINE p == [peer[l] EXCEPT !.armed = FALSE]
  <2>1. /\ p \in Peer /\ p.contexts = peer[l].contexts /\ p.timers = peer[l].timers
        /\ p.proc = peer[l].proc /\ p.current = peer[l].current
        /\ p.present = peer[l].present
    BY <1>1 DEF Peer
  <2>2. Apply(l, ExpireTransaction(p), inbox)
    BY <1>3
  <2> HIDE DEF p
  <2> QED
    BY <1>2, <2>1, <2>2
<1>4. CASE /\ peer[l].orphans > 0
           /\ Apply(l, ExpireTransaction([peer[l] EXCEPT !.orphans = @ - 1]), inbox)
  <2> DEFINE p == [peer[l] EXCEPT !.orphans = @ - 1]
  <2>1. peer[l].orphans - 1 \in Nat
    BY <1>1, <1>4 DEF Peer
  <2>2. /\ p \in Peer /\ p.contexts = peer[l].contexts /\ p.timers = peer[l].timers
        /\ p.proc = peer[l].proc /\ p.current = peer[l].current
        /\ p.present = peer[l].present
    BY <1>1, <2>1 DEF Peer
  <2>3. Apply(l, ExpireTransaction(p), inbox)
    BY <1>4
  <2> HIDE DEF p
  <2> QED
    BY <1>2, <2>2, <2>3
<1> QED
  BY <1>3, <1>4 DEF TransactionTimeout

LEMMA ContextTimerDraws ==
  ASSUME DInv, NEW l \in Link, NEW tm \in peer[l].timers, ContextTimer(l, tm)
  PROVE  Draws'
<1> DEFINE p == [peer[l] EXCEPT !.timers = @ \ {tm}]
           r(prio) == IF tm.kind = "renew" THEN MarkExpiring(p, tm, Clock(l), prio)
                                           ELSE ExpireContext(p, tm)
<1>1. PICK prio \in Priority[l[1]] : Apply(l, r(prio), inbox)
  BY Zenon DEF ContextTimer
<1>2. prio \in Nat
  BY <1>1, ConstantsAssumption DEF Link
<1>3. /\ Sound(peer[l]) /\ Clock(l) \in Nat /\ fresh \in Nat
      /\ UniqueDraws(l, peer[l], fresh)
  BY ClockType, IInvIsSound DEF DInv, Draws
<1>4. tm.kind \in {"renew", "expire"} /\ tm.at <= Clock(l)
  BY <1>3, TimerFindsContext DEF Timer, ContextTimer
<1>5. r(prio).ephs \in Nat /\ DrawnResult(l, r(prio))
  <2>1. CASE tm.kind = "renew"
    <3> DEFINE e == MarkExpiring(p, tm, Clock(l), prio)
    <3>1. e.ephs \in Nat
      BY <1>2, <1>3, <2>1, MarkExpiringSound DEF SoundResult
    <3>2. DrawnResult(l, e)
      BY <1>2, <1>3, MarkExpiringDraws
    <3>3. r(prio) = e
      BY <2>1
    <3> HIDE DEF e, r
    <3> QED
      BY <3>1, <3>2, <3>3
  <2>2. CASE tm.kind = "expire"
    <3> DEFINE e == ExpireContext(p, tm)
    <3>1. e.ephs = 0
      BY <1>3, <1>4, <2>2, ExpireContextSound
    <3>2. DrawnResult(l, e)
      BY <1>3, ExpireContextDraws
    <3>3. r(prio) = e
      BY <2>2
    <3> HIDE DEF e, r
    <3> QED
      BY <3>1, <3>2, <3>3
  <2> QED
    BY <1>4, <2>1, <2>2
<1> HIDE DEF r
<1> QED
  BY <1>1, <1>5, ApplyDraws

(* Steps without a handler of MSG1, MSG2 or of a timer. *)
LEMMA OtherDraws ==
  ASSUME DInv,
         \/ Tick
         \/ UNCHANGED vars
         \/ \E l \in Link : \/ CheckActivity(l)
                            \/ AddPublicKey(l)
                            \/ RemPublicKey(l)
         \/ \E l \in Link : \E k \in 1 .. Len(inbox[l]) : Lose(l, k) \/ Duplicate(l, k)
         \/ \E n \in Node : Restart(n)
  PROVE  Draws'
<1>1. peer \in [Link -> Peer]
  BY DEF DInv, IInv, TypeOK
<1>2. CASE \/ Tick
           \/ UNCHANGED vars
           \/ \E l \in Link : RemPublicKey(l)
           \/ \E l \in Link : \E k \in 1 .. Len(inbox[l]) : Lose(l, k) \/ Duplicate(l, k)
  <2>1. UNCHANGED <<fresh, peer>>
    BY <1>2 DEF Tick, vars, RemPublicKey, Lose, Duplicate
  <2> QED
    BY <2>1, NoDrawStep
<1>3. ASSUME NEW l \in Link, CheckActivity(l) PROVE Draws'
  BY <1>1, <1>3, NoDrawStep DEF CheckActivity, Cleanup
<1>4. ASSUME NEW l \in Link, AddPublicKey(l) PROVE Draws'
  <2> DEFINE p == [peer[l] EXCEPT !.key = peer[l].present]
  <2>1. p.contexts = peer[l].contexts /\ p.proc = peer[l].proc
    BY <1>1 DEF Peer
  <2>2. peer' = [peer EXCEPT ![l] = p] /\ UNCHANGED fresh
    BY <1>1, <1>4 DEF AddPublicKey
  <2> HIDE DEF p
  <2> QED
    BY <1>1, <2>1, <2>2, NoDrawStep
<1>5. ASSUME NEW n \in Node, Restart(n) PROVE Draws'
  BY <1>5, NoDrawStep DEF Restart
<1> QED
  BY <1>2, <1>3, <1>4, <1>5

LEMMA DrawsInit == Init => Draws
BY DEF Init, Draws, UniqueDraws, Absent, Held

LEMMA DrawsStep == DInv /\ [Next]_vars => DInv'
<1> SUFFICES ASSUME DInv, [Next]_vars PROVE Draws'
  BY InvariantStep DEF DInv
<1>1. ASSUME NEW l \in Link, HandleBeacon(l) PROVE Draws'
  BY <1>1, BeaconDraws
<1>2. ASSUME NEW l \in Link, SendWithoutContext(l) PROVE Draws'
  BY <1>2, SendWithoutContextDraws
<1>3. ASSUME NEW l \in Link, TransactionTimeout(l) PROVE Draws'
  BY <1>3, TransactionTimeoutDraws
<1>4. ASSUME NEW l \in Link, NEW tm \in peer[l].timers, ContextTimer(l, tm)
      PROVE  Draws'
  BY <1>4, ContextTimerDraws
<1>5. ASSUME NEW l \in Link, NEW k \in 1 .. Len(inbox[l]), Receive(l, k)
      PROVE  Draws'
  BY <1>5, ReceiveDraws
<1> QED
  BY <1>1, <1>2, <1>3, <1>4, <1>5, OtherDraws DEF Next

LEMMA DrawsInvariant == Spec => []DInv
<1>1. Init => DInv
  BY InvariantInit, DrawsInit DEF DInv
<1> QED
  BY <1>1, DrawsStep, PTL DEF Spec

(* No two contexts of a peer hold one Diffie-Hellman result, through       *)
(* retransmitted, duplicated, reordered and late MSG1s and MSG2s: what     *)
(* peer_update_security_context resets with a new context is never the     *)
(* receive window of a key that another context still accepts frames of.   *)
THEOREM KeysAreUnique == Spec => []NoKeyInTwoContexts
<1>1. DInv => NoKeyInTwoContexts
  BY DEF DInv, Draws, UniqueDraws, NoKeyInTwoContexts
<1> QED
  BY <1>1, DrawsInvariant, PTL

-----------------------------------------------------------------------------
(* What is under way between two ends that lose nothing.  x and y are the  *)
(* procedures of the two ends, or None.                                    *)

(* What a message is to the end that it is on its way to: the answer to    *)
(* its MSG1, or a MSG1 that ties with its own or loses against it; or, to  *)
(* the other end, the MSG1 of its procedure.                               *)
IsAnswer(m, x) == x # None /\ m.type = "msg2" /\ m.id = x.mid
IsTied(m, x)   == x # None /\ m.type = "msg1" /\ m.prio = x.prio
IsBeaten(m, x) == x # None /\ m.type = "msg1" /\ m.prio < x.prio
IsLive(m, y)   == y # None /\ m = Msg1Of(y)

(* A box on its way to the end with x: e messages that end its procedure,  *)
(* then perhaps the MSG1 of the other end.  A MSG1 that is overtaken by    *)
(* its own answer has lost.                                                *)
Shape(box, x, y, e) ==
  /\ Len(box) \in {e, e + 1}
  /\ Len(box) = e + 1 => IsLive(box[e + 1], y)
  /\ e = 1 => IsAnswer(box[1], x) \/ IsTied(box[1], x)
  /\ e = 2 => IsBeaten(box[1], x) /\ IsAnswer(box[2], x)

(* Nothing is on its way back while such messages are.                     *)
Channel(x, y, bx, by) ==
  \E e \in 0 .. 2 : Shape(bx, x, y, e) /\ (e > 0 => Len(by) = 0)

Channels(x, y, bx, by) == Channel(x, y, bx, by) /\ Channel(y, x, by, bx)

(* The answers of one kind in a box.                                       *)
Answers(box, s) ==
  {m \in {box[k] : k \in 1 .. Len(box)} : m.type = "msg2" /\ m.status = s}

NoAnswers(box) == \A s : Answers(box, s) = {}

Proc == Procedure \cup {None}

LEMMA ProcType ==
  ASSUME NEW x \in Proc, x # None
  PROVE  /\ x \in Procedure /\ x.mid \in Trid /\ x.prio \in Nat /\ x.id \in CtxId
         /\ x.eph \in Nat /\ x.exp \in Nat
BY DEF Proc, Procedure

LEMMA MessageType ==
  ASSUME NEW m \in Message
  PROVE  /\ m.type \in {"msg1", "msg2"}
         /\ m \in Msg1 <=> m.type = "msg1"
         /\ m \in Msg2 <=> m.type = "msg2"
         /\ m.type = "msg1" => m.prio \in Nat
BY DEF Message, Msg1, Msg2

LEMMA LiveType ==
  ASSUME NEW y \in Procedure
  PROVE  /\ Msg1Of(y) \in Message /\ Msg1Of(y).type = "msg1"
         /\ Msg1Of(y).prio = y.prio /\ Msg1Of(y).id = y.mid /\ Msg1Of(y).ctx = y.id
         /\ Msg1Of(y).eph = y.eph /\ Msg1Of(y).exp = y.exp
BY Msg1OfType DEF Msg1Of

LEMMA FirstRemoved ==
  ASSUME NEW s \in Seq(Message), Len(s) > 0
  PROVE  /\ RemoveIndex(s, 1) \in Seq(Message)
         /\ Len(RemoveIndex(s, 1)) = Len(s) - 1
         /\ \A i \in 1 .. Len(s) - 1 : RemoveIndex(s, 1)[i] = s[i + 1]
<1> DEFINE a == SubSeq(s, 1, 0)
           b == SubSeq(s, 2, Len(s))
<1>1. Len(s) \in Nat
  BY LenProperties
<1>2. a = <<>>
  BY SubSeqEmpty
<1>3. \A i \in 2 .. Len(s) : s[i] \in Message
  BY <1>1, ElementOfSeq
<1>4. /\ b \in Seq(Message) /\ Len(b) = Len(s) - 1
      /\ \A i \in 1 .. Len(s) - 1 : b[i] = s[i + 1]
  <2>1. /\ SubSeq(s, 2, Len(s)) \in Seq(Message)
        /\ Len(SubSeq(s, 2, Len(s))) = IF 2 <= Len(s) THEN Len(s) - 2 + 1 ELSE 0
        /\ \A i \in 1 .. Len(s) - 2 + 1 : SubSeq(s, 2, Len(s))[i] = s[2 + i - 1]
    BY <1>1, <1>3, SubSeqProperties
  <2> DEFINE n == Len(s)
  <2>2. n \in Nat /\ n > 0
    BY <1>1
  <2> HIDE DEF n
  <2>3. (IF 2 <= n THEN n - 2 + 1 ELSE 0) = n - 1
    BY <2>2
  <2>4. 1 .. n - 1 = 1 .. n - 2 + 1
    BY <2>2
  <2>5. \A i \in 1 .. n - 1 : 2 + i - 1 = i + 1
    BY <2>2
  <2> QED
    BY <2>1, <2>3, <2>4, <2>5, Zenon DEF n
<1>5. RemoveIndex(s, 1) = a \o b
  BY DEF RemoveIndex
<1> HIDE DEF a, b
<1>6. RemoveIndex(s, 1) = b
  BY <1>2, <1>4, <1>5, ConcatEmptySeq
<1> QED
  BY <1>4, <1>6

(* The answers in a box that gets a message, and in one that loses its     *)
(* first.                                                                  *)
LEMMA AnswersAppend ==
  ASSUME NEW b \in Seq(Message), NEW m \in Message, NEW s
  PROVE  Answers(Append(b, m), s) =
           Answers(b, s) \cup (IF m.type = "msg2" /\ m.status = s THEN {m} ELSE {})
<1> DEFINE c == Append(b, m)
<1>1. /\ Len(b) \in Nat /\ Len(c) = Len(b) + 1 /\ c[Len(b) + 1] = m
      /\ \A i \in 1 .. Len(b) : c[i] = b[i]
  BY LenProperties, AppendProperties
<1> HIDE DEF c
<1>2. {c[k] : k \in 1 .. Len(c)} = {b[k] : k \in 1 .. Len(b)} \cup {m}
  <2>1. 1 .. Len(c) = 1 .. Len(b) \cup {Len(b) + 1}
    BY <1>1
  <2> QED
    BY <1>1, <2>1
<1>3. Answers(c, s) = {n \in {b[k] : k \in 1 .. Len(b)} \cup {m} : n.type = "msg2" /\ n.status = s}
  BY <1>2 DEF Answers
<1>4. Answers(b, s) = {n \in {b[k] : k \in 1 .. Len(b)} : n.type = "msg2" /\ n.status = s}
  BY DEF Answers
<1> QED
  BY <1>3, <1>4 DEF c

LEMMA AnswersFirst ==
  ASSUME NEW b \in Seq(Message), Len(b) > 0, NEW s
  PROVE  Answers(b, s) = Answers(RemoveIndex(b, 1), s)
           \cup (IF b[1].type = "msg2" /\ b[1].status = s THEN {b[1]} ELSE {})
<1> DEFINE c == RemoveIndex(b, 1)
<1>1. /\ Len(b) \in Nat /\ Len(c) = Len(b) - 1
      /\ \A i \in 1 .. Len(b) - 1 : c[i] = b[i + 1]
  BY LenProperties, FirstRemoved
<1> HIDE DEF c
<1>2. {b[k] : k \in 1 .. Len(b)} = {c[k] : k \in 1 .. Len(c)} \cup {b[1]}
  <2>1. \A k \in 1 .. Len(b) : k = 1 \/ (k - 1 \in 1 .. Len(c) /\ c[k - 1] = b[k])
    BY <1>1
  <2>2. \A k \in 1 .. Len(c) : k + 1 \in 1 .. Len(b) /\ c[k] = b[k + 1]
    BY <1>1
  <2>3. 1 \in 1 .. Len(b)
    BY <1>1
  <2>4. ASSUME NEW k \in 1 .. Len(b)
        PROVE  b[k] \in {c[j] : j \in 1 .. Len(c)} \cup {b[1]}
    <3>1. CASE k = 1
      BY <3>1
    <3>2. CASE k - 1 \in 1 .. Len(c) /\ c[k - 1] = b[k]
      BY <3>2
    <3> QED
      BY <2>1, <3>1, <3>2
  <2>5. ASSUME NEW k \in 1 .. Len(c)
        PROVE  c[k] \in {b[j] : j \in 1 .. Len(b)}
    <3>1. k + 1 \in 1 .. Len(b) /\ c[k] = b[k + 1]
      BY <2>2
    <3> QED
      BY <3>1
  <2>6. b[1] \in {b[j] : j \in 1 .. Len(b)}
    BY <2>3
  <2> QED
    BY <2>4, <2>5, <2>6, Zenon
<1>3. Answers(b, s) =
        {n \in {c[k] : k \in 1 .. Len(c)} \cup {b[1]} : n.type = "msg2" /\ n.status = s}
  BY <1>2 DEF Answers
<1>4. Answers(c, s) = {n \in {c[k] : k \in 1 .. Len(c)} : n.type = "msg2" /\ n.status = s}
  BY DEF Answers
<1> QED
  BY <1>3, <1>4 DEF c

(* Other messages do not change the answers of one kind. *)
LEMMA OtherAppended ==
  ASSUME NEW b \in Seq(Message), NEW m \in Message, NEW s,
         ~(m.type = "msg2" /\ m.status = s)
  PROVE  Answers(Append(b, m), s) = Answers(b, s)
<1> DEFINE more == IF m.type = "msg2" /\ m.status = s THEN {m} ELSE {}
<1>1. Answers(Append(b, m), s) = Answers(b, s) \cup more
  BY AnswersAppend, Zenon
<1>2. more = {}
  OBVIOUS
<1> HIDE DEF more
<1> QED
  BY <1>1, <1>2

LEMMA OtherFirst ==
  ASSUME NEW b \in Seq(Message), Len(b) > 0, NEW s,
         ~(b[1].type = "msg2" /\ b[1].status = s)
  PROVE  Answers(b, s) = Answers(RemoveIndex(b, 1), s)
<1> DEFINE first == IF b[1].type = "msg2" /\ b[1].status = s THEN {b[1]} ELSE {}
<1>1. Answers(b, s) = Answers(RemoveIndex(b, 1), s) \cup first
  BY AnswersFirst, Zenon
<1>2. first = {}
  OBVIOUS
<1> HIDE DEF first
<1> QED
  BY <1>1, <1>2

LEMMA FirstIsAnswer ==
  ASSUME NEW b \in Seq(Message), Len(b) > 0, NEW s, b[1].type = "msg2", b[1].status = s
  PROVE  b[1] \in Answers(b, s)
<1>1. 1 \in 1 .. Len(b)
  BY LenProperties
<1>2. b[1] \in {b[k] : k \in 1 .. Len(b)}
  BY <1>1
<1> QED
  BY <1>2 DEF Answers

LEMMA AnswersEmpty ==
  ASSUME NEW b, Len(b) = 0
  PROVE  NoAnswers(b)
BY DEF NoAnswers, Answers

(* A box with no answer in front of a MSG1 has none at all.                *)
LEMMA ShapeAnswers ==
  ASSUME NEW x \in Proc, NEW y \in Proc, NEW b \in Seq(Message), NEW e \in 0 .. 2,
         Shape(b, x, y, e), e = 0 \/ (e = 1 /\ b[1].type = "msg1")
  PROVE  NoAnswers(b)
<1>1. \A k \in 1 .. Len(b) : b[k].type = "msg1"
  <2>1. Len(b) = e + 1 => b[e + 1].type = "msg1"
    BY LiveType DEF Shape, IsLive, Proc
  <2>2. CASE e = 0
    BY <2>1, <2>2, LenProperties DEF Shape
  <2>3. CASE e = 1
    <3>1. Len(b) \in {1, 2}
      BY <2>3 DEF Shape
    <3> QED
      BY <2>1, <2>3, <3>1
  <2> QED
    BY <2>2, <2>3
<1> QED
  BY <1>1 DEF NoAnswers, Answers

(* Nothing under way to an idle node ends a procedure.                     *)
LEMMA IdleShape ==
  ASSUME NEW y \in Proc, NEW b \in Seq(Message), NEW e \in 0 .. 2, Shape(b, None, y, e)
  PROVE  e = 0
BY DEF Shape, IsAnswer, IsTied, IsBeaten
-----------------------------------------------------------------------------
(* What the steps of one end do to the messages under way.                 *)

LEMMA EmptyChannels ==
  ASSUME NEW x, NEW y, NEW bx, NEW by, Len(bx) = 0, Len(by) = 0
  PROVE  Channels(x, y, bx, by)
<1>1. Shape(bx, x, y, 0) /\ Shape(by, y, x, 0)
  BY DEF Shape
<1> QED
  BY <1>1 DEF Channels, Channel

(* A MSG1 is sent while nothing is under way. *)
LEMMA MSG1Sent ==
  ASSUME NEW x \in Procedure, NEW y, NEW bx, NEW by \in Seq(Message), Len(bx) = 0, Len(by) = 0
  PROVE  Channels(x, y, bx, Append(by, Msg1Of(x)))
<1> DEFINE b == Append(by, Msg1Of(x))
<1>1. Len(b) = 1 /\ b[1] = Msg1Of(x)
  BY AppendProperties, Msg1OfType
<1> HIDE DEF b
<1>2. x # None
  BY NoneAssumption
<1>3. Shape(bx, x, y, 0)
  BY DEF Shape
<1>4. Shape(b, y, x, 0)
  BY <1>1, <1>2 DEF Shape, IsLive
<1> QED
  BY <1>3, <1>4 DEF Channels, Channel, b

(* An idle end begins a procedure. *)
LEMMA Starts ==
  ASSUME NEW y \in Proc, NEW bx \in Seq(Message), NEW by \in Seq(Message),
         Channels(None, y, bx, by), NEW x \in Procedure
  PROVE  /\ Len(by) <= 2 /\ NoAnswers(bx)
         /\ Channels(x, y, bx, Append(by, Msg1Of(x)))
<1> DEFINE b == Append(by, Msg1Of(x))
<1>1. PICK e \in 0 .. 2 : Shape(bx, None, y, e) /\ (e > 0 => Len(by) = 0)
  BY DEF Channels, Channel
<1>2. PICK f \in 0 .. 2 : Shape(by, y, None, f) /\ (f > 0 => Len(bx) = 0)
  BY DEF Channels, Channel
<1>3. e = 0 /\ NoAnswers(bx)
  <2>1. None \in Proc
    BY DEF Proc
  <2>2. e = 0
    BY <1>1, IdleShape
  <2>3. Shape(bx, None, y, 0) /\ 0 \in 0 .. 2
    BY <1>1, <2>2
  <2> QED
    BY <2>1, <2>2, <2>3, ShapeAnswers, Zenon
<1>4. Len(by) = f
  BY <1>2 DEF Shape, IsLive
<1>5. /\ Len(b) = f + 1 /\ b[f + 1] = Msg1Of(x) /\ \A i \in 1 .. f : b[i] = by[i]
  BY <1>4, AppendProperties, Msg1OfType
<1> HIDE DEF b
<1>6. Shape(b, y, x, f)
  <2>1. Len(b) = f + 1 /\ IsLive(b[f + 1], x)
    BY <1>5, NoneAssumption DEF IsLive
  <2>2. f = 1 => IsAnswer(b[1], y) \/ IsTied(b[1], y)
    BY <1>2, <1>5 DEF Shape
  <2>3. f = 2 => IsBeaten(b[1], y) /\ IsAnswer(b[2], y)
    BY <1>2, <1>5 DEF Shape
  <2> QED
    BY <2>1, <2>2, <2>3 DEF Shape
<1>7. Shape(bx, x, y, 0)
  BY <1>1, <1>3 DEF Shape
<1>8. Channel(x, y, bx, b)
  BY <1>7 DEF Channel
<1>9. Channel(y, x, b, bx)
  BY <1>2, <1>6 DEF Channel
<1> QED
  BY <1>3, <1>4, <1>8, <1>9 DEF Channels, b

(* A MSG1 that loses, or that comes when there is no procedure, is dropped. *)
LEMMA Drops ==
  ASSUME NEW x \in Proc, NEW y \in Proc, NEW bx \in Seq(Message), NEW by \in Seq(Message),
         Channels(x, y, bx, by), Len(bx) > 0, bx[1].type = "msg1",
         x # None => bx[1].prio < x.prio
  PROVE  Channels(x, y, RemoveIndex(bx, 1), by)
<1> DEFINE b == RemoveIndex(bx, 1)
<1>1. PICK e \in 0 .. 2 : Shape(bx, x, y, e) /\ (e > 0 => Len(by) = 0)
  BY DEF Channels, Channel
<1>2. PICK f \in 0 .. 2 : Shape(by, y, x, f) /\ (f > 0 => Len(bx) = 0)
  BY DEF Channels, Channel
<1>3. f = 0
  BY <1>2
<1>4. Len(b) = Len(bx) - 1 /\ \A i \in 1 .. Len(bx) - 1 : b[i] = bx[i + 1]
  BY FirstRemoved
<1> HIDE DEF b
<1>5. e # 1
  <2>1. SUFFICES ASSUME e = 1 PROVE FALSE
    OBVIOUS
  <2>2. IsTied(bx[1], x)
    BY <1>1, <2>1 DEF Shape, IsAnswer
  <2>3. x # None /\ x.prio \in Nat
    BY <2>2, ProcType DEF IsTied
  <2> QED
    BY <2>2, <2>3 DEF IsTied
<1>6. Channel(x, y, b, by)
  <2>1. CASE e = 0
    <3>1. Len(bx) = 1
      BY <1>1, <2>1 DEF Shape
    <3>2. Shape(b, x, y, 0)
      BY <1>4, <3>1 DEF Shape
    <3> QED
      BY <3>2 DEF Channel
  <2>2. CASE e = 2
    <3>1. /\ Len(bx) \in {2, 3} /\ IsAnswer(bx[2], x)
          /\ Len(bx) = 3 => IsLive(bx[3], y)
      BY <1>1, <2>2 DEF Shape
    <3>2. Len(b) \in {1, 2} /\ IsAnswer(b[1], x) /\ (Len(b) = 2 => IsLive(b[2], y))
      BY <1>4, <3>1
    <3>3. Shape(b, x, y, 1)
      BY <3>2 DEF Shape
    <3> QED
      BY <1>1, <2>2, <3>3 DEF Channel
  <2> QED
    BY <1>5, <2>1, <2>2
<1>7. Channel(y, x, by, b)
  BY <1>2, <1>3 DEF Channel
<1> QED
  BY <1>6, <1>7 DEF Channels, b

(* A MSG1 is answered: it wins, or comes when there is no procedure.  The  *)
(* answer follows the MSG1 that has lost, if that is still under way.      *)
LEMMA AnswerSent ==
  ASSUME NEW x \in Proc, NEW y \in Proc, NEW bx \in Seq(Message), NEW by \in Seq(Message),
         Channels(x, y, bx, by), Len(bx) > 0, bx[1].type = "msg1",
         x # None => bx[1].prio > x.prio, NEW r \in Msg2, r.id = bx[1].id
  PROVE  /\ y # None /\ bx[1] = Msg1Of(y)
         /\ NoAnswers(bx) /\ NoAnswers(by) /\ NoAnswers(RemoveIndex(bx, 1))
         /\ Len(by) <= 1
         /\ Channels(None, y, RemoveIndex(bx, 1), Append(by, r))
<1> DEFINE b == RemoveIndex(bx, 1)
           c == Append(by, r)
<1>0. r \in Message /\ r.type = "msg2"
  BY DEF Message, Msg2
<1>1. PICK e \in 0 .. 2 : Shape(bx, x, y, e) /\ (e > 0 => Len(by) = 0)
  BY DEF Channels, Channel
<1>2. PICK f \in 0 .. 2 : Shape(by, y, x, f) /\ (f > 0 => Len(bx) = 0)
  BY DEF Channels, Channel
<1>3. f = 0 /\ Len(by) \in {0, 1} /\ (Len(by) = 1 => IsLive(by[1], x))
  <2>1. f = 0
    BY <1>2
  <2> QED
    BY <1>2, <2>1 DEF Shape
<1>4. Len(b) = Len(bx) - 1
  BY FirstRemoved
<1>5. /\ Len(c) = Len(by) + 1 /\ c[Len(by) + 1] = r
      /\ \A i \in 1 .. Len(by) : c[i] = by[i]
  BY <1>0, AppendProperties
<1> HIDE DEF b, c
<1>6. e = 0
  <2>1. SUFFICES ASSUME e # 0 PROVE FALSE
    OBVIOUS
  <2>2. IsTied(bx[1], x) \/ IsBeaten(bx[1], x)
    BY <1>1, <2>1 DEF Shape, IsAnswer
  <2>3. x # None
    BY <2>2 DEF IsTied, IsBeaten
  <2>4. x.prio \in Nat /\ bx[1].prio \in Nat
    <3>1. bx[1] \in Message
      BY ElementOfSeq, LenProperties
    <3> QED
      BY <2>3, <3>1, ProcType, MessageType
  <2> QED
    BY <2>2, <2>3, <2>4 DEF IsTied, IsBeaten
<1>7. Len(bx) = 1 /\ IsLive(bx[1], y)
  BY <1>1, <1>6 DEF Shape
<1>8. y # None /\ bx[1] = Msg1Of(y) /\ y \in Procedure
  BY <1>7 DEF IsLive, Proc
<1>9. r.id = y.mid /\ bx[1].prio = y.prio
  BY <1>8, LiveType
<1>10. IsAnswer(r, y)
  BY <1>0, <1>8, <1>9 DEF IsAnswer
<1>11. Shape(b, None, y, 0) /\ Len(b) = 0
  BY <1>4, <1>7 DEF Shape
<1>12. \E g \in 0 .. 2 : Shape(c, y, None, g)
  <2>1. CASE Len(by) = 0
    <3>1. Len(c) = 1 /\ IsAnswer(c[1], y)
      BY <1>5, <1>10, <2>1
    <3>2. Shape(c, y, None, 1)
      BY <3>1 DEF Shape
    <3> QED
      BY <3>2
  <2>2. CASE Len(by) = 1
    <3>1. x # None /\ by[1] = Msg1Of(x) /\ x \in Procedure
      BY <1>3, <2>2 DEF IsLive, Proc
    <3>2. by[1].type = "msg1" /\ by[1].prio < y.prio
      BY <1>9, <3>1, LiveType
    <3>3. Len(c) = 2 /\ IsBeaten(c[1], y) /\ IsAnswer(c[2], y)
      BY <1>5, <1>8, <1>10, <2>2, <3>2 DEF IsBeaten
    <3>4. Shape(c, y, None, 2)
      BY <3>3 DEF Shape
    <3> QED
      BY <3>4
  <2> QED
    BY <1>3, <2>1, <2>2
<1>13. Channel(None, y, b, c) /\ Channel(y, None, c, b)
  BY <1>11, <1>12 DEF Channel
<1>14. NoAnswers(bx) /\ NoAnswers(by) /\ NoAnswers(b)
  <2>1. NoAnswers(bx)
    BY <1>1, <1>6, ShapeAnswers
  <2>2. NoAnswers(by)
    <3>1. Shape(by, y, x, 0) /\ 0 \in 0 .. 2
      BY <1>2, <1>3
    <3> QED
      BY <3>1, ShapeAnswers, Zenon
  <2>3. b \in Seq(Message)
    BY FirstRemoved DEF b
  <2> QED
    BY <1>11, <2>1, <2>2, <2>3, AnswersEmpty
<1>15. Len(by) <= 1
  <2> DEFINE n == Len(by)
  <2>1. n = 0 \/ n = 1
    BY <1>3
  <2> HIDE DEF n
  <2>2. n <= 1
    BY <2>1
  <2> QED
    BY <2>2 DEF n
<1> QED
  BY <1>8, <1>13, <1>14, <1>15, Zenon DEF Channels, b, c

(* An answer ends the procedure, and so does a tie, which may begin it     *)
(* again.                                                                  *)
LEMMA Ends ==
  ASSUME NEW x \in Proc, NEW y \in Proc, NEW bx \in Seq(Message), NEW by \in Seq(Message),
         Channels(x, y, bx, by), Len(bx) > 0,
         bx[1].type = "msg1" => x # None /\ bx[1].prio = x.prio
  PROVE  /\ bx[1].type = "msg2" => IsAnswer(bx[1], x)
         /\ bx[1].type = "msg1" => NoAnswers(bx)
         /\ NoAnswers(by) /\ NoAnswers(RemoveIndex(bx, 1))
         /\ Channels(None, y, RemoveIndex(bx, 1), by)
<1> DEFINE b == RemoveIndex(bx, 1)
<1>1. PICK e \in 0 .. 2 : Shape(bx, x, y, e) /\ (e > 0 => Len(by) = 0)
  BY DEF Channels, Channel
<1>2. PICK f \in 0 .. 2 : Shape(by, y, x, f) /\ (f > 0 => Len(bx) = 0)
  BY DEF Channels, Channel
<1>3. f = 0 /\ Len(by) \in {0, 1} /\ (Len(by) = 1 => IsLive(by[1], x))
  <2>1. f = 0
    BY <1>2
  <2> QED
    BY <1>2, <2>1 DEF Shape
<1>4. /\ b \in Seq(Message) /\ Len(b) = Len(bx) - 1
      /\ \A i \in 1 .. Len(bx) - 1 : b[i] = bx[i + 1]
  BY FirstRemoved
<1> HIDE DEF b
<1>5. bx[1] \in Message /\ bx[1].type \in {"msg1", "msg2"}
  BY ElementOfSeq, LenProperties, MessageType
<1>6. e = 0 \/ e = 1
  <2>1. SUFFICES ASSUME e = 2 PROVE FALSE
    OBVIOUS
  <2>2. IsBeaten(bx[1], x)
    BY <1>1, <2>1 DEF Shape
  <2>3. x # None /\ x.prio \in Nat
    BY <2>2, ProcType DEF IsBeaten
  <2> QED
    BY <2>2, <2>3 DEF IsBeaten
<1>7. NoAnswers(by)
  <2>1. Shape(by, y, x, 0) /\ 0 \in 0 .. 2
    BY <1>2, <1>3
  <2> QED
    BY <2>1, ShapeAnswers, Zenon
<1>8. Shape(b, None, y, 0)
  <2>1. CASE e = 0
    BY <1>1, <1>4, <2>1 DEF Shape
  <2>2. CASE e = 1
    BY <1>1, <1>4, <2>2 DEF Shape
  <2> QED
    BY <1>6, <2>1, <2>2
<1>9. NoAnswers(b)
  <2>1. None \in Proc
    BY DEF Proc
  <2>2. 0 \in 0 .. 2
    OBVIOUS
  <2> QED
    BY <1>4, <1>8, <2>1, <2>2, ShapeAnswers, Zenon
<1>10. ASSUME bx[1].type = "msg2" PROVE IsAnswer(bx[1], x)
  <2>1. CASE e = 0
    <3>1. IsLive(bx[1], y)
      BY <1>1, <2>1 DEF Shape
    <3>2. bx[1].type = "msg1"
      BY <3>1, LiveType DEF IsLive, Proc
    <3> QED
      BY <1>10, <3>2
  <2>2. CASE e = 1
    BY <1>1, <1>10, <2>2 DEF Shape, IsTied
  <2> QED
    BY <1>6, <2>1, <2>2
<1>11. bx[1].type = "msg1" => NoAnswers(bx)
  BY <1>1, <1>6, ShapeAnswers
<1>12. \E g \in 0 .. 2 : Shape(by, y, None, g) /\ (g > 0 => Len(b) = 0)
  <2>1. CASE Len(by) = 0
    <3>1. Shape(by, y, None, 0)
      BY <2>1 DEF Shape
    <3> QED
      BY <3>1
  <2>2. CASE Len(by) = 1
    <3>1. e = 0
      BY <1>1, <2>2
    <3>2. Len(b) = 0 /\ IsLive(bx[1], y)
      BY <1>1, <1>4, <3>1 DEF Shape
    <3>3. y # None /\ y \in Procedure /\ bx[1] = Msg1Of(y)
      BY <3>2 DEF IsLive, Proc
    <3>4. x # None /\ x \in Procedure /\ by[1] = Msg1Of(x)
      BY <1>3, <2>2 DEF IsLive, Proc
    <3>5. bx[1].type = "msg1" /\ bx[1].prio = y.prio /\ by[1].type = "msg1" /\ by[1].prio = x.prio
      BY <3>3, <3>4, LiveType
    <3>6. IsTied(by[1], y)
      BY <3>3, <3>5 DEF IsTied
    <3>7. Shape(by, y, None, 1)
      BY <2>2, <3>6 DEF Shape
    <3> QED
      BY <3>2, <3>7
  <2> QED
    BY <1>3, <2>1, <2>2
<1>13. Channel(None, y, b, by) /\ Channel(y, None, by, b)
  BY <1>8, <1>12 DEF Channel
<1> QED
  BY <1>7, <1>9, <1>10, <1>11, <1>13 DEF Channels, b
-----------------------------------------------------------------------------
(* What the handlers do to contexts and procedure, and what they send.     *)

(* The entry is that of p but for the procedure, its transaction, the      *)
(* algorithm pairs and the timers.                                         *)
SameEntry(p, q) == /\ q.contexts = p.contexts /\ q.present = p.present
                   /\ q.key = p.key /\ q.active = p.active

(* Nothing begins, or a procedure whose MSG1 is sent. *)
Begins(p, r) ==
  \/ r.out = None /\ r.peer.proc = p.proc
  \/ /\ p.proc = None /\ p.key
     /\ r.peer.proc \in Procedure /\ r.out = Msg1Of(r.peer.proc)

LEMMA StartSecurityBegins ==
  ASSUME NEW p, Sound(p), NEW t \in Nat, NEW force \in BOOLEAN,
         NEW prio \in Nat, NEW eph \in Nat
  PROVE  /\ SameEntry(p, StartSecurity(p, t, force, prio, eph).peer)
         /\ Begins(p, StartSecurity(p, t, force, prio, eph))
<1> DEFINE blocked == \/ ~p.key
                      \/ ~force /\ \E i \in Held(p) : Usable(p.contexts[i], t)
                      \/ p.proc # None
           mid   == (p.trid + 1) % Trids
           pairs == IF p.supported # {} THEN p.supported ELSE p.test
           pair  == Greatest(pairs)
           proc  == [id |-> NextSecCtxId(p), cid |-> NextCreationId(p),
                     mid |-> mid, eph |-> eph, exp |-> t + Timeout,
                     prio |-> prio, pair |-> pair, retries |-> 1]
           bumped == [p EXCEPT !.trid = Bump(@)]
           armed  == ArmTransactionTimer(bumped)
           test   == IF p.supported = {} THEN armed.test \ {pair} ELSE armed.test
           r      == StartSecurity(p, t, force, prio, eph)
<1>0. p \in Peer
  BY DEF Sound
<1>1. CASE blocked
  <2>1. r = Quiet(p)
    BY <1>1 DEF StartSecurity
  <2> HIDE DEF r
  <2>2. r.peer = p /\ r.out = None
    BY <2>1 DEF Quiet, Result
  <2> QED
    BY <2>2 DEF SameEntry, Begins, r
<1>2. CASE ~blocked /\ pairs = {}
  <2> DEFINE q == ArmTransactionTimer(AbortSender(bumped))
  <2>1. r = Result(q, None, 1)
    BY <1>2 DEF StartSecurity
  <2>2. SameEntry(p, q) /\ q.proc = None
    BY <1>0 DEF ArmTransactionTimer, AbortSender, Peer, SameEntry
  <2>3. p.proc = None
    BY <1>2
  <2> HIDE DEF q, r
  <2>4. r.peer = q /\ r.out = None
    BY <2>1 DEF Result
  <2> QED
    BY <2>2, <2>3, <2>4 DEF Begins, r
<1>3. CASE ~blocked /\ pairs # {}
  <2> DEFINE q == [armed EXCEPT !.proc = proc, !.current = mid, !.test = test]
  <2>1. r = Result(q, Msg1Of(proc), 1)
    BY <1>3, Zenon DEF StartSecurity
  <2>2. mid \in Trid
    BY <1>0, CountersTyped
  <2>3. p.key /\ p.proc = None
    BY <1>3
  <2> HIDE DEF proc, mid
  <2>4. SameEntry(p, armed) /\ DOMAIN armed = DOMAIN p
    BY <1>0 DEF ArmTransactionTimer, Peer, SameEntry
  <2> HIDE DEF test
  <2>5. SameEntry(p, q) /\ q.proc = proc /\ q.current = mid
    BY <1>0, <2>4 DEF ArmTransactionTimer, Peer, SameEntry
  <2> HIDE DEF armed, q
  <2>6. SoundResult(r, p)
    BY StartSecuritySound
  <2> HIDE DEF r
  <2>7. r.peer = q /\ r.out = Msg1Of(proc)
    BY <2>1 DEF Result
  <2>8. q \in Peer /\ CurrentIsProcedure(q)
    BY <2>6, <2>7 DEF SoundResult, Sound, Books
  <2>9. proc \in Procedure
    BY <2>2, <2>5, <2>8, NoneAssumption DEF CurrentIsProcedure, Peer
  <2> QED
    BY <2>3, <2>5, <2>7, <2>9 DEF Begins, r
<1> QED
  BY <1>1, <1>2, <1>3

(* What a responder installs for m, and what it answers.                   *)
Responds(p, r, l, m, t) ==
  /\ r.peer.present = p.present /\ r.peer.key = p.key /\ r.peer.active = p.active
  /\ r.peer.proc = p.proc
  /\ r.out \in Msg2 /\ r.out.id = m.id
  /\ r.out.status = "VERIFICATION_FAILED" => m.exp <= t
  /\ IF r.out.status = "OK"
     THEN \E c \in Context :
            /\ r.peer.contexts = [p.contexts EXCEPT ![m.ctx] = c]
            /\ c.key = [initiator |-> l[2], responder |-> l[1], e |-> m.eph, f |-> r.out.eph]
            /\ c.exp = m.exp /\ m.exp > t
     ELSE r.peer.contexts = p.contexts

(* q is p with a new context.                                              *)
Installs(p, q, id, key, exp) ==
  /\ q.present = p.present /\ q.key = p.key /\ q.active = p.active /\ q.proc = p.proc
  /\ \E c \in Context : /\ q.contexts = [p.contexts EXCEPT ![id] = c]
                        /\ c.key = key /\ c.exp = exp

LEMMA InstallIs ==
  ASSUME NEW p \in Peer, NEW t \in Nat, NEW id \in CtxId, NEW cid \in Nat,
         NEW key \in Key, NEW pair \in Pair, NEW exp \in Nat
  PROVE  Installs(p, Install(p, t, id, cid, key, pair, exp), id, key, exp)
<1> DEFINE timer     == [id |-> id, cid |-> cid, kind |-> "renew",
                         at |-> t + RenewalWait(exp, t)]
           cancelled == IF p.contexts[id] = None THEN {} ELSE {p.contexts[id].timer}
           c == [cid |-> cid, key |-> key, pair |-> pair, exp |-> exp,
                 expiring |-> FALSE, timer |-> timer]
           q == Install(p, t, id, cid, key, pair, exp)
<1>1. c \in Context /\ c.key = key /\ c.exp = exp
  <2>1. timer \in Timer
    BY ConstantsAssumption DEF Timer, RenewalWait
  <2> HIDE DEF timer
  <2> QED
    BY <2>1 DEF Context
<1>2. q = [p EXCEPT !.contexts = [@ EXCEPT ![id] = c],
                    !.timers = (@ \ cancelled) \cup {timer},
                    !.supported = @ \cup {pair}]
  BY Zenon DEF Install
<1> HIDE DEF c, cancelled, timer
<1>3. /\ q.contexts = [p.contexts EXCEPT ![id] = c] /\ q.proc = p.proc
      /\ q.present = p.present /\ q.key = p.key /\ q.active = p.active
  BY <1>2 DEF Peer
<1> HIDE DEF q
<1> QED
  BY <1>1, <1>3 DEF Installs, q

LEMMA ReplyIs ==
  ASSUME NEW q, NEW m \in Msg1, NEW eph \in Nat,
         NEW status \in {"OK", "UNSUPPORTED", "VERIFICATION_FAILED"}
  PROVE  LET r == Reply(q, m, status, eph) IN
         /\ r.peer = q /\ r.out \in Msg2 /\ r.out.id = m.id
         /\ r.out.status = status /\ r.out.eph = eph
BY DEF Reply, Result, Msg1, Msg2

LEMMA RespondResponds ==
  ASSUME NEW p, Sound(p), NEW l \in Link, NEW m \in Msg1, NEW t \in Nat, NEW eph \in Nat
  PROVE  Responds(p, Respond(p, l, m, t, eph), l, m, t)
<1> DEFINE key == [initiator |-> l[2], responder |-> l[1], e |-> m.eph, f |-> eph]
           cid == NextCreationId(p)
           q == Install(p, t, m.ctx, cid, key, m.pair, m.exp)
           r == Respond(p, l, m, t, eph)
<1>0. p \in Peer
  BY DEF Sound
<1>1. m.eph \in Nat /\ m.ctx \in CtxId /\ m.pair \in Pair /\ m.exp \in Nat
  BY DEF Msg1
<1>2. key \in Key
  BY <1>1 DEF Key, Link
<1>3. cid \in Nat
  BY <1>0, NextCreationIdFresh
<1>4. CASE m.exp <= t
  <2>1. r = Reply(p, m, "VERIFICATION_FAILED", 0)
    BY <1>4 DEF Respond
  <2> HIDE DEF r
  <2>2. /\ r.peer = p /\ r.out \in Msg2 /\ r.out.id = m.id
        /\ r.out.status = "VERIFICATION_FAILED"
    BY <2>1, ReplyIs
  <2> QED
    BY <1>4, <2>2 DEF Responds, r
<1>5. CASE ~(m.exp <= t) /\ m.pair \notin Supports[l[1]]
  <2>1. r = Reply(p, m, "UNSUPPORTED", 0)
    BY <1>5 DEF Respond
  <2> HIDE DEF r
  <2>2. /\ r.peer = p /\ r.out \in Msg2 /\ r.out.id = m.id
        /\ r.out.status = "UNSUPPORTED"
    BY <2>1, ReplyIs
  <2> QED
    BY <2>2 DEF Responds, r
<1>6. CASE ~(m.exp <= t) /\ m.pair \in Supports[l[1]]
  <2>1. r = Reply(q, m, "OK", eph)
    BY <1>6 DEF Respond
  <2>2. m.exp > t
    BY <1>1, <1>6
  <2> HIDE DEF r, key, cid
  <2>3. Installs(p, q, m.ctx, key, m.exp)
    BY <1>0, <1>1, <1>2, <1>3, InstallIs
  <2> HIDE DEF q
  <2>4. /\ r.peer = q /\ r.out \in Msg2 /\ r.out.id = m.id
        /\ r.out.status = "OK" /\ r.out.eph = eph
    BY <2>1, ReplyIs
  <2> QED
    BY <2>2, <2>3, <2>4 DEF Responds, Installs, r, key
<1> QED
  BY <1>4, <1>5, <1>6
-----------------------------------------------------------------------------
(* What a step of one end is to both.                                      *)

(* What the proof needs of the network: nothing is lost, repeated,         *)
(* reordered or late, nodes go on, each frame has one receiver, and there  *)
(* is room for the messages that can be under way.                         *)
Reliable == /\ Environment \subseteq {"operator"} /\ ~Multicast
            /\ MaxInFlight >= 3 /\ PeerTimeout >= 1

(* Who has a procedure can end it, and a peer was heard of a second ago.   *)
Ready(p, t) == /\ p.proc # None => p.present /\ p.key
               /\ p.present => p.active <= t /\ t <= p.active + 1

FInv == /\ IInv
        /\ \A l \in Link : Ready(peer[l], Clock(l))
        /\ \A l \in Link : Channels(peer[l].proc, peer[Back(l)].proc, inbox[l], inbox[Back(l)])

(* Contexts stay as they are, or expire.                                   *)
Fades(p, q, t) ==
  \A i \in CtxId :
    IF q.contexts[i] = None THEN p.contexts[i] = None \/ p.contexts[i].exp <= t
    ELSE /\ p.contexts[i] # None
         /\ q.contexts[i].key = p.contexts[i].key /\ q.contexts[i].exp = p.contexts[i].exp

(* The three kinds of steps of an end that goes from p to q while the      *)
(* boxes to and from it go from bx to bx2 and from by to by2: no OK is     *)
(* sent or taken,                                                          *)
Keeping(p, q, bx, bx2, by, by2, t) ==
  /\ Fades(p, q, t)
  /\ \A s : Answers(by2, s) = Answers(by, s)
  /\ \/ q.proc = p.proc /\ \A s : Answers(bx2, s) = Answers(bx, s)
     \/ Answers(bx, "OK") = {} /\ NoAnswers(bx2)

(* a MSG1 of y, the procedure at the other end, is answered,               *)
Answering(l, p, q, y, bx, bx2, by, by2, t) ==
  /\ y \in Procedure /\ q.proc = None
  /\ NoAnswers(bx) /\ NoAnswers(bx2) /\ NoAnswers(by)
  /\ \E r \in Msg2 :
       /\ \A s : Answers(by2, s) = IF r.status = s THEN {r} ELSE {}
       /\ r.status = "VERIFICATION_FAILED" => y.exp <= t
       /\ IF r.status = "OK"
          THEN \E c \in Context :
                 /\ q.contexts = [p.contexts EXCEPT ![y.id] = c]
                 /\ c.key = [initiator |-> l[2], responder |-> l[1], e |-> y.eph, f |-> r.eph]
                 /\ c.exp = y.exp /\ y.exp > t
          ELSE q.contexts = p.contexts

(* or an OK is taken.                                                      *)
Accepting(l, p, q, bx, bx2, by, by2) ==
  /\ p.proc \in Procedure /\ q.proc = None
  /\ NoAnswers(bx2) /\ NoAnswers(by) /\ NoAnswers(by2)
  /\ \E m \in Answers(bx, "OK"), c \in Context :
       /\ q.contexts = [p.contexts EXCEPT ![p.proc.id] = c]
       /\ c.key = [initiator |-> l[1], responder |-> l[2], e |-> p.proc.eph, f |-> m.eph]
       /\ c.exp = p.proc.exp

Moves(l, p, q, y, bx, bx2, by, by2, t) ==
  \/ Keeping(p, q, bx, bx2, by, by2, t)
  \/ Answering(l, p, q, y, bx, bx2, by, by2, t)
  \/ Accepting(l, p, q, bx, bx2, by, by2)

(* A box that is sent what a handler returns.                              *)
Sent(box, m) == IF m = None THEN box ELSE Append(box, m)

(* A handler at l with the result r leaves bx2 in its box.                 *)
Outcome(l, r, bx2) ==
  /\ r.out # None => Len(inbox[Back(l)]) <= 2
  /\ Ready(r.peer, Clock(l))
  /\ Channels(r.peer.proc, peer[Back(l)].proc, bx2, Sent(inbox[Back(l)], r.out))
  /\ Moves(l, peer[l], r.peer, peer[Back(l)].proc, inbox[l], bx2,
           inbox[Back(l)], Sent(inbox[Back(l)], r.out), Clock(l))

(* What a step at l does to the two ends, and to no other.                 *)
StepAt(l) ==
  /\ now' = now
  /\ \A k \in Link : k # l => peer'[k] = peer[k]
  /\ \A k \in Link : k # l /\ k # Back(l) => inbox'[k] = inbox[k]
  /\ Ready(peer'[l], Clock(l))
  /\ Channels(peer'[l].proc, peer[Back(l)].proc, inbox'[l], inbox'[Back(l)])
  /\ Moves(l, peer[l], peer'[l], peer[Back(l)].proc, inbox[l], inbox'[l],
           inbox[Back(l)], inbox'[Back(l)], Clock(l))

LEMMA BackIsLink ==
  ASSUME NEW l \in Link
  PROVE  /\ Back(l) \in Link /\ Back(l) # l /\ Back(Back(l)) = l
         /\ \A k \in Link : k[2] = l[1] /\ k[1] = l[2] => k = Back(l)
         /\ Back(l)[1] = l[2] /\ Back(l)[2] = l[1]
BY DEF Link, Back

LEMMA FInvTypes ==
  ASSUME FInv, NEW l \in Link
  PROVE  /\ peer \in [Link -> Peer] /\ inbox \in [Link -> Seq(Message)]
         /\ now \in Nat /\ fresh \in Nat /\ Clock(l) \in Nat
         /\ Back(l) \in Link
         /\ Sound(peer[l]) /\ peer[l] \in Peer /\ peer[l].proc \in Proc
         /\ peer[Back(l)].proc \in Proc
         /\ inbox[l] \in Seq(Message) /\ inbox[Back(l)] \in Seq(Message)
         /\ Ready(peer[l], Clock(l))
         /\ Channels(peer[l].proc, peer[Back(l)].proc, inbox[l], inbox[Back(l)])
<1>1. IInv /\ Back(l) \in Link
  BY BackIsLink DEF FInv
<1>2. /\ peer \in [Link -> Peer] /\ inbox \in [Link -> Seq(Message)]
      /\ now \in Nat /\ fresh \in Nat /\ \A k \in Link : Sound(peer[k])
  BY <1>1, IInvIsSound
<1>3. \A k \in Link : peer[k] \in Peer /\ inbox[k] \in Seq(Message) /\ peer[k].proc \in Proc
  BY <1>2 DEF Peer, Proc
<1> QED
  BY <1>1, <1>2, <1>3, ClockType DEF FInv

LEMMA OutcomeSteps ==
  ASSUME FInv, Reliable, NEW l \in Link, NEW r, r.out \in Message \cup {None},
         NEW box \in [Link -> Seq(Message)], \A k \in Link : k # l => box[k] = inbox[k],
         Apply(l, r, box), now' = now, Outcome(l, r, box[l])
  PROVE  StepAt(l)
<1>1. /\ peer \in [Link -> Peer] /\ Back(l) \in Link /\ Back(l) # l
      /\ \A k \in Link : k[2] = l[1] /\ k[1] = l[2] => k = Back(l)
      /\ Back(l)[1] = l[2] /\ Back(l)[2] = l[1] /\ l[1] # l[2]
  BY FInvTypes, BackIsLink DEF Link
<1>2. peer'[l] = r.peer /\ \A k \in Link : k # l => peer'[k] = peer[k]
  BY <1>1 DEF Apply
<1>3. Hearers(l) = {l[2]}
  BY DEF Hearers, Reliable
<1>4. /\ \A k \in Link : k # Back(l) => inbox'[k] = box[k]
      /\ inbox'[Back(l)] = IF r.out # None /\ Len(box[Back(l)]) < MaxInFlight
                           THEN Append(box[Back(l)], r.out) ELSE box[Back(l)]
  BY <1>1, <1>3 DEF Apply, Transmit
<1>5. r.out # None => Len(box[Back(l)]) < MaxInFlight
  <2>1. ASSUME r.out # None PROVE Len(box[Back(l)]) <= 2
    BY <1>1, <2>1 DEF Outcome
  <2>2. Len(box[Back(l)]) \in Nat /\ MaxInFlight \in Nat /\ MaxInFlight >= 3
    BY <1>1, LenProperties, ConstantsAssumption DEF Reliable
  <2> QED
    BY <2>1, <2>2
<1>6. /\ inbox'[l] = box[l] /\ inbox'[Back(l)] = Sent(inbox[Back(l)], r.out)
      /\ \A k \in Link : k # l /\ k # Back(l) => inbox'[k] = inbox[k]
  BY <1>1, <1>4, <1>5 DEF Sent
<1> QED
  BY <1>2, <1>6 DEF Outcome, StepAt

(* A step that takes no OK, and perhaps begins a procedure: a is the entry *)
(* before it begins, and bx the box of which the first message may be gone. *)
LEMMA BeginOutcome ==
  ASSUME FInv, NEW l \in Link, NEW a, NEW bx \in Seq(Message),
         a.present, Ready(a, Clock(l)), Fades(peer[l], a, Clock(l)),
         Channels(a.proc, peer[Back(l)].proc, bx, inbox[Back(l)]),
         \/ a.proc = peer[l].proc /\ bx = inbox[l]
         \/ a.proc = None /\ Answers(inbox[l], "OK") = {} /\ NoAnswers(bx),
         NEW r, SameEntry(a, r.peer), Begins(a, r)
  PROVE  Outcome(l, r, bx)
<1> DEFINE by == inbox[Back(l)]
           y == peer[Back(l)].proc
           by2 == Sent(by, r.out)
           x == r.peer.proc
<1>1. by \in Seq(Message) /\ y \in Proc
  BY FInvTypes
<1>2. Fades(peer[l], r.peer, Clock(l))
  BY DEF SameEntry, Fades
<1>3. CASE r.out = None /\ r.peer.proc = a.proc
  <2>1. by2 = by
    BY <1>3 DEF Sent
  <2>2. Ready(r.peer, Clock(l))
    BY <1>3 DEF Ready, SameEntry
  <2>3. Keeping(peer[l], r.peer, inbox[l], bx, by, by2, Clock(l))
    BY <1>2, <1>3, <2>1 DEF Keeping
  <2> QED
    BY <1>3, <2>1, <2>2, <2>3 DEF Outcome, Moves
<1>4. CASE a.proc = None /\ a.key /\ x \in Procedure /\ r.out = Msg1Of(x)
  <2> HIDE DEF by, y, x
  <2>1. Channels(None, y, bx, by)
    BY <1>4 DEF by, y
  <2>2. /\ Len(by) <= 2 /\ NoAnswers(bx)
        /\ Channels(x, y, bx, Append(by, Msg1Of(x)))
    BY <1>1, <1>4, <2>1, Starts
  <2>3. Msg1Of(x) \in Message /\ Msg1Of(x).type = "msg1" /\ Msg1Of(x) # None
    BY <1>4, LiveType, NoneAssumption
  <2>4. by2 = Append(by, Msg1Of(x))
    BY <1>4, <2>3 DEF Sent
  <2> HIDE DEF by2
  <2>5. \A s : Answers(by2, s) = Answers(by, s)
    <3>1. Msg1Of(x).type # "msg2"
      BY <2>3
    <3> QED
      BY <1>1, <2>3, <2>4, <3>1, OtherAppended, Zenon
  <2>6. Answers(inbox[l], "OK") = {}
    BY <2>2 DEF NoAnswers
  <2>7. Ready(r.peer, Clock(l))
    BY <1>4 DEF Ready, SameEntry
  <2>8. Keeping(peer[l], r.peer, inbox[l], bx, by, by2, Clock(l))
    BY <1>2, <2>2, <2>5, <2>6 DEF Keeping
  <2>9. Channels(x, y, bx, by2)
    BY <2>2, <2>4
  <2> QED
    BY <2>2, <2>7, <2>8, <2>9 DEF Outcome, Moves, by, y, x, by2
<1> QED
  BY <1>3, <1>4 DEF Begins

LEMMA SendWithoutContextAt ==
  ASSUME FInv, Reliable, NEW l \in Link, SendWithoutContext(l)
  PROVE  StepAt(l)
<1>1. PICK prio \in Priority[l[1]] :
        Apply(l, StartSecurity(peer[l], Clock(l), FALSE, prio, fresh), inbox)
  BY DEF SendWithoutContext
<1>2. prio \in Nat
  BY <1>1, ConstantsAssumption DEF Link
<1>3. /\ Sound(peer[l]) /\ Clock(l) \in Nat /\ fresh \in Nat
      /\ inbox \in [Link -> Seq(Message)] /\ inbox[l] \in Seq(Message)
      /\ Ready(peer[l], Clock(l))
      /\ Channels(peer[l].proc, peer[Back(l)].proc, inbox[l], inbox[Back(l)])
  BY FInvTypes
<1> DEFINE r == StartSecurity(peer[l], Clock(l), FALSE, prio, fresh)
<1>4. SoundResult(r, peer[l])
  BY <1>2, <1>3, StartSecuritySound
<1>5. SameEntry(peer[l], r.peer) /\ Begins(peer[l], r)
  BY <1>2, <1>3, StartSecurityBegins
<1>6. Apply(l, r, inbox)
  BY <1>1
<1> HIDE DEF r
<1>7. peer[l].present /\ now' = now
  BY DEF SendWithoutContext
<1>8. Fades(peer[l], peer[l], Clock(l))
  BY DEF Fades
<1>9. Outcome(l, r, inbox[l])
  BY <1>3, <1>5, <1>7, <1>8, BeginOutcome
<1>10. r.out \in Message \cup {None}
  BY <1>4 DEF SoundResult
<1> QED
  BY <1>3, <1>6, <1>7, <1>9, <1>10, OutcomeSteps

\* Renewing the context timer tm of p is StartSecurity from the entry a.
StartsMarked(p, tm, t, prio, a) ==
  /\ Marked(p, a)
  /\ MarkExpiring([p EXCEPT !.timers = @ \ {tm}], tm, t, prio)
       = StartSecurity(a, t, FALSE, prio, fresh)

\* The timer's renewal marks the context and starts a new exchange.
LEMMA MarkedStart ==
  ASSUME NEW p, Sound(p), NEW tm \in p.timers, tm.kind = "renew",
         NEW t \in Nat, NEW prio \in Nat, fresh \in Nat
  PROVE  \E a : StartsMarked(p, tm, t, prio, a)
BY MarkExpiringStarts DEF StartsMarked

LEMMA ContextTimerAt ==
  ASSUME FInv, Reliable, NEW l \in Link, NEW tm \in peer[l].timers, ContextTimer(l, tm)
  PROVE  StepAt(l)
<1> DEFINE p == [peer[l] EXCEPT !.timers = @ \ {tm}]
           t == Clock(l)
           h(prio) == IF tm.kind = "renew" THEN MarkExpiring(p, tm, t, prio)
                                           ELSE ExpireContext(p, tm)
<1>1. PICK prio \in Priority[l[1]] : Apply(l, h(prio), inbox)
  BY Zenon DEF ContextTimer
<1>2. prio \in Nat
  BY <1>1, ConstantsAssumption DEF Link
<1>3. /\ Sound(peer[l]) /\ t \in Nat /\ fresh \in Nat
      /\ inbox \in [Link -> Seq(Message)] /\ inbox[l] \in Seq(Message)
      /\ Ready(peer[l], t)
      /\ Channels(peer[l].proc, peer[Back(l)].proc, inbox[l], inbox[Back(l)])
  BY FInvTypes
<1>4. /\ tm.kind \in {"renew", "expire"} /\ tm.id \in Held(peer[l])
      /\ tm.at <= t /\ now' = now
  BY <1>3, TimerFindsContext DEF Timer, ContextTimer
<1>5. peer[l].present
  BY <1>3, <1>4 DEF Sound, Books, AbsentIsEmpty
<1>6. CASE tm.kind = "renew"
  <2>1. PICK a : /\ Marked(peer[l], a)
                 /\ MarkExpiring(p, tm, t, prio) = StartSecurity(a, t, FALSE, prio, fresh)
    <3>1. /\ Sound(peer[l]) /\ tm \in peer[l].timers /\ tm.kind = "renew"
          /\ t \in Nat /\ prio \in Nat /\ fresh \in Nat
      BY <1>2, <1>3, <1>6
    <3>2. \E a : StartsMarked(peer[l], tm, t, prio, a)
      <4> HIDE DEF t
      <4> QED
        BY <3>1, MarkedStart
    <3> QED
      BY <3>2 DEF StartsMarked
  <2>2. /\ Sound(a) /\ a.proc = peer[l].proc /\ a.key = peer[l].key
        /\ a.active = peer[l].active /\ a.present = peer[l].present
        /\ Fades(peer[l], a, t)
    BY <2>1 DEF Marked, Keeps, Fades
  <2> DEFINE r == StartSecurity(a, t, FALSE, prio, fresh)
  <2>3. SoundResult(r, a)
    BY <1>2, <1>3, <2>2, StartSecuritySound
  <2>4. SameEntry(a, r.peer) /\ Begins(a, r)
    BY <1>2, <1>3, <2>2, StartSecurityBegins
  <2>5. Apply(l, r, inbox)
    BY <1>1, <1>6, <2>1
  <2> HIDE DEF r
  <2>6. Ready(a, t)
    BY <1>3, <2>2 DEF Ready
  <2>7. Outcome(l, r, inbox[l])
    BY <1>3, <1>5, <2>2, <2>4, <2>6, BeginOutcome
  <2>8. r.out \in Message \cup {None}
    BY <2>3 DEF SoundResult
  <2> QED
    BY <1>3, <1>4, <2>5, <2>7, <2>8, OutcomeSteps
<1>7. CASE tm.kind = "expire"
  <2> DEFINE r == ExpireContext(p, tm)
  <2>1. /\ r.out = None /\ r.peer.proc = peer[l].proc /\ r.peer.present = peer[l].present
        /\ r.peer.key = peer[l].key /\ r.peer.active = peer[l].active
        /\ \A i \in CtxId : r.peer.contexts[i] \in {peer[l].contexts[i], None}
        /\ \A i \in CtxId : peer[l].contexts[i] # None /\ r.peer.contexts[i] = None
                              => peer[l].contexts[i].exp <= t
    BY <1>3, <1>4, <1>7, ExpireContextSound
  <2>2. Apply(l, r, inbox)
    BY <1>1, <1>7
  <2> HIDE DEF r, p
  <2>3. Fades(peer[l], r.peer, t)
    BY <2>1 DEF Fades
  <2>4. Ready(r.peer, t)
    BY <1>3, <2>1 DEF Ready
  <2>5. Sent(inbox[Back(l)], r.out) = inbox[Back(l)]
    BY <2>1 DEF Sent
  <2>6. Keeping(peer[l], r.peer, inbox[l], inbox[l], inbox[Back(l)], inbox[Back(l)], t)
    BY <2>1, <2>3 DEF Keeping
  <2>7. Outcome(l, r, inbox[l])
    BY <1>3, <2>1, <2>4, <2>5, <2>6 DEF Outcome, Moves
  <2> QED
    BY <1>3, <1>4, <2>1, <2>2, <2>7, OutcomeSteps
<1> QED
  BY <1>4, <1>6, <1>7

LEMMA ExpireTransactionIs ==
  ASSUME NEW p \in Peer
  PROVE  LET r == ExpireTransaction(p) IN
         /\ SameEntry(p, r.peer)
         /\ \/ r.out = None /\ r.peer.proc \in {p.proc, None}
            \/ /\ p.proc # None
               /\ r.peer.proc \in Procedure /\ r.out = Msg1Of(r.peer.proc)
<1> DEFINE q == [p EXCEPT !.proc.retries = @ + 1]
           c == CompleteTransaction(p, 0)
           r == ExpireTransaction(p)
<1>1. SameEntry(p, c) /\ c.proc \in {p.proc, None}
  BY DEF CompleteTransaction, AbortSender, SameEntry, Peer
<1> HIDE DEF c
<1>2. CASE r = Quiet(c)
  <2> HIDE DEF r
  <2>1. r.peer = c /\ r.out = None
    BY <1>2 DEF Quiet, Result
  <2> QED
    BY <1>1, <2>1 DEF r
<1>3. CASE r = Quiet(p)
  <2> HIDE DEF r
  <2>1. r.peer = p /\ r.out = None
    BY <1>3 DEF Quiet, Result
  <2> QED
    BY <2>1 DEF SameEntry, r
<1>4. CASE p.proc # None /\ r = Result(q, Msg1Of(p.proc), 0)
  <2>1. p.proc \in Procedure
    BY <1>4 DEF Peer
  <2> DEFINE pr == [p.proc EXCEPT !.retries = @ + 1]
  <2>2. pr \in Procedure /\ Msg1Of(pr) = Msg1Of(p.proc)
    BY <2>1 DEF Procedure, Msg1Of
  <2>3. q = [p EXCEPT !.proc = pr]
    BY DEF Peer
  <2> HIDE DEF pr, q
  <2>4. SameEntry(p, q) /\ q.proc = pr
    BY <2>3 DEF SameEntry, Peer
  <2> HIDE DEF r
  <2>5. r.peer = q /\ r.out = Msg1Of(p.proc)
    BY <1>4 DEF Result
  <2> QED
    BY <1>4, <2>2, <2>4, <2>5 DEF r
<1>5. r = Quiet(c) \/ r = Quiet(p) \/ (p.proc # None /\ r = Result(q, Msg1Of(p.proc), 0))
  BY Zenon DEF ExpireTransaction, c
<1> QED
  BY <1>2, <1>3, <1>4, <1>5

LEMMA TransactionTimeoutAt ==
  ASSUME FInv, Reliable, NEW l \in Link, TransactionTimeout(l)
  PROVE  StepAt(l)
<1>1. /\ peer[l] \in Peer /\ inbox \in [Link -> Seq(Message)]
      /\ inbox[l] \in Seq(Message) /\ inbox[Back(l)] \in Seq(Message)
      /\ Ready(peer[l], Clock(l))
  BY FInvTypes
<1>2. Len(inbox[l]) = 0 /\ Len(inbox[Back(l)]) = 0 /\ now' = now
  <2>1. "late" \notin Environment
    BY DEF Reliable
  <2> QED
    BY <2>1 DEF TransactionTimeout
<1>3. ASSUME NEW p \in Peer, SameEntry(peer[l], p), p.proc = peer[l].proc,
             Apply(l, ExpireTransaction(p), inbox)
      PROVE  StepAt(l)
  <2> DEFINE r == ExpireTransaction(p)
             x == r.peer.proc
             y == peer[Back(l)].proc
             bx == inbox[l]
             by == inbox[Back(l)]
             by2 == Sent(by, r.out)
  <2>1. /\ SameEntry(p, r.peer)
        /\ \/ r.out = None /\ x \in {p.proc, None}
           \/ p.proc # None /\ x \in Procedure /\ r.out = Msg1Of(x)
    BY ExpireTransactionIs
  <2>2. Apply(l, r, inbox)
    BY <1>3
  <2> HIDE DEF r
  <2>3. Fades(peer[l], r.peer, Clock(l))
    BY <1>3, <2>1 DEF SameEntry, Fades
  <2>4. Ready(r.peer, Clock(l))
    BY <1>1, <1>3, <2>1 DEF SameEntry, Ready
  <2>5. NoAnswers(bx)
    BY <1>1, <1>2, AnswersEmpty
  <2>6. /\ r.out \in Message \cup {None}
        /\ Channels(x, y, bx, by2) /\ \A s : Answers(by2, s) = Answers(by, s)
    <3>1. CASE r.out = None
      <4>1. by2 = by
        BY <3>1 DEF Sent
      <4> QED
        BY <1>2, <3>1, <4>1, EmptyChannels
    <3>2. CASE x \in Procedure /\ r.out = Msg1Of(x)
      <4>1. Msg1Of(x) \in Message /\ Msg1Of(x).type = "msg1" /\ Msg1Of(x) # None
        BY <3>2, LiveType, NoneAssumption
      <4>2. by2 = Append(by, Msg1Of(x))
        BY <3>2, <4>1 DEF Sent
      <4> HIDE DEF by2, x, by, bx, y
      <4>3. Channels(x, y, bx, by2)
        BY <1>1, <1>2, <3>2, <4>2, MSG1Sent DEF by, bx
      <4>4. ASSUME NEW s PROVE Answers(by2, s) = Answers(by, s)
        <5>1. Msg1Of(x).type # "msg2" /\ by \in Seq(Message)
          BY <1>1, <4>1 DEF by
        <5> QED
          BY <4>1, <4>2, <5>1, OtherAppended, Zenon
      <4> QED
        BY <3>2, <4>1, <4>3, <4>4
    <3> QED
      BY <2>1, <3>1, <3>2
  <2>7. Keeping(peer[l], r.peer, bx, bx, by, by2, Clock(l))
    BY <2>3, <2>5, <2>6 DEF Keeping, NoAnswers
  <2>8. Len(inbox[Back(l)]) <= 2
    BY <1>2
  <2>9. Outcome(l, r, inbox[l])
    BY <2>4, <2>6, <2>7, <2>8 DEF Outcome, Moves
  <2> QED
    BY <1>1, <1>2, <2>2, <2>6, <2>9, OutcomeSteps
<1>4. CASE /\ peer[l].armed
           /\ Apply(l, ExpireTransaction([peer[l] EXCEPT !.armed = FALSE]), inbox)
  <2> DEFINE p == [peer[l] EXCEPT !.armed = FALSE]
  <2>1. p \in Peer /\ SameEntry(peer[l], p) /\ p.proc = peer[l].proc
    BY <1>1 DEF Peer, SameEntry
  <2>2. Apply(l, ExpireTransaction(p), inbox)
    BY <1>4
  <2> HIDE DEF p
  <2> QED
    BY <1>3, <2>1, <2>2
<1>5. CASE /\ peer[l].orphans > 0
           /\ Apply(l, ExpireTransaction([peer[l] EXCEPT !.orphans = @ - 1]), inbox)
  <2> DEFINE p == [peer[l] EXCEPT !.orphans = @ - 1]
  <2>1. peer[l].orphans - 1 \in Nat
    BY <1>1, <1>5 DEF Peer
  <2>2. p \in Peer /\ SameEntry(peer[l], p) /\ p.proc = peer[l].proc
    BY <1>1, <2>1 DEF Peer, SameEntry
  <2>3. Apply(l, ExpireTransaction(p), inbox)
    BY <1>5
  <2> HIDE DEF p
  <2> QED
    BY <1>3, <2>2, <2>3
<1> QED
  BY <1>4, <1>5 DEF TransactionTimeout

(* Steps that leave the messages, the procedure and the contexts alone.    *)
LEMMA EntryAt ==
  ASSUME FInv, NEW l \in Link, NEW q, peer' = [peer EXCEPT ![l] = q],
         UNCHANGED <<now, inbox>>, Ready(q, Clock(l)),
         q.proc = peer[l].proc, \A i \in CtxId : q.contexts[i] = peer[l].contexts[i]
  PROVE  StepAt(l)
<1>1. /\ peer \in [Link -> Peer]
      /\ Channels(peer[l].proc, peer[Back(l)].proc, inbox[l], inbox[Back(l)])
  BY FInvTypes
<1>2. peer'[l] = q /\ \A k \in Link : k # l => peer'[k] = peer[k]
  BY <1>1
<1>3. Fades(peer[l], q, Clock(l))
  BY DEF Fades
<1>4. Keeping(peer[l], q, inbox[l], inbox[l], inbox[Back(l)], inbox[Back(l)], Clock(l))
  BY <1>3 DEF Keeping
<1>5. inbox' = inbox /\ now' = now
  OBVIOUS
<1> HIDE DEF Keeping
<1> QED
  BY <1>1, <1>2, <1>4, <1>5 DEF StepAt, Moves

LEMMA HandleBeaconAt ==
  ASSUME FInv, NEW l \in Link, HandleBeacon(l)
  PROVE  StepAt(l)
<1> DEFINE first == [Absent EXCEPT !.present = TRUE, !.test = Supports[l[1]]]
           t == Clock(l)
           p == Touch(peer[l], l, t)
           q == Touch(first, l, t)
<1>1. /\ peer \in [Link -> Peer] /\ Sound(peer[l]) /\ peer[l] \in Peer
      /\ Ready(peer[l], t) /\ t \in Nat
  BY FInvTypes
<1>2. peer' = [peer EXCEPT ![l] = IF peer[l].present THEN p ELSE q] /\ UNCHANGED <<now, inbox>>
  BY <1>1, Zenon DEF HandleBeacon
<1>3. CASE peer[l].present
  <2>1. /\ p.proc = peer[l].proc /\ p.contexts = peer[l].contexts /\ p.present
        /\ p.active = t /\ (peer[l].key => p.key)
    BY <1>1, <1>3 DEF Touch, Peer
  <2> HIDE DEF p, q
  <2>2. Ready(p, t)
    BY <1>1, <2>1 DEF Ready
  <2> QED
    BY <1>2, <1>3, <2>1, <2>2, EntryAt
<1>4. CASE ~peer[l].present
  <2>1. q.proc = None /\ q.contexts = [i \in CtxId |-> None] /\ q.present /\ q.active = t
    BY DEF Touch, Absent
  <2>2. peer[l].proc = None /\ \A i \in CtxId : peer[l].contexts[i] = None
    BY <1>1, <1>4 DEF Ready, Sound, Books, AbsentIsEmpty, Held
  <2> HIDE DEF p, q
  <2>3. Ready(q, t)
    BY <1>1, <2>1 DEF Ready
  <2>4. \A i \in CtxId : q.contexts[i] = peer[l].contexts[i]
    BY <2>1, <2>2
  <2>5. peer' = [peer EXCEPT ![l] = q] /\ UNCHANGED <<now, inbox>>
    BY <1>2, <1>4
  <2>6. q.proc = peer[l].proc
    BY <2>1, <2>2
  <2> HIDE DEF Ready
  <2> QED
    BY <2>3, <2>4, <2>5, <2>6, EntryAt, Zenon
<1> QED
  BY <1>3, <1>4

LEMMA AddPublicKeyAt ==
  ASSUME FInv, NEW l \in Link, AddPublicKey(l)
  PROVE  StepAt(l)
<1> DEFINE p == [peer[l] EXCEPT !.key = peer[l].present]
<1>1. peer \in [Link -> Peer] /\ peer[l] \in Peer /\ Ready(peer[l], Clock(l))
  BY FInvTypes
<1>2. /\ p.proc = peer[l].proc /\ p.contexts = peer[l].contexts
      /\ p.present = peer[l].present /\ p.active = peer[l].active
      /\ p.key = peer[l].present
  BY <1>1 DEF Peer
<1>3. peer' = [peer EXCEPT ![l] = p] /\ UNCHANGED <<now, inbox>>
  BY <1>1 DEF AddPublicKey
<1> HIDE DEF p
<1>4. Ready(p, Clock(l))
  BY <1>1, <1>2 DEF Ready
<1> QED
  BY <1>2, <1>3, <1>4, EntryAt

(* What is left in the box after the first message is taken.               *)
LEMMA DropOutcome ==
  ASSUME FInv, NEW l \in Link, Len(inbox[l]) > 0, inbox[l][1].type = "msg1",
         NEW q, q.proc = peer[l].proc, Ready(q, Clock(l)), Fades(peer[l], q, Clock(l)),
         q.proc # None => inbox[l][1].prio < q.proc.prio
  PROVE  Outcome(l, Quiet(q), RemoveIndex(inbox[l], 1))
<1> DEFINE bx == inbox[l]
           by == inbox[Back(l)]
           y == peer[Back(l)].proc
           b == RemoveIndex(bx, 1)
           r == Quiet(q)
<1>1. /\ bx \in Seq(Message) /\ by \in Seq(Message) /\ y \in Proc /\ q.proc \in Proc
      /\ Channels(q.proc, y, bx, by)
  BY FInvTypes
<1>2. r.peer = q /\ r.out = None
  BY DEF Quiet, Result
<1> HIDE DEF r, y, by
<1>3. Channels(q.proc, y, b, by)
  BY <1>1, Drops
<1>4. Sent(by, r.out) = by
  BY <1>2 DEF Sent
<1>5. ASSUME NEW s PROVE Answers(b, s) = Answers(bx, s)
  <2>1. ~(bx[1].type = "msg2" /\ bx[1].status = s)
    OBVIOUS
  <2> QED
    BY <1>1, <2>1, OtherFirst, Zenon
<1>6. Keeping(peer[l], q, bx, b, by, by, Clock(l))
  BY <1>5 DEF Keeping
<1> QED
  BY <1>2, <1>3, <1>4, <1>6 DEF Outcome, Moves, y, by, r

LEMMA AnswerOutcome ==
  ASSUME FInv, NEW l \in Link, Len(inbox[l]) > 0, inbox[l][1] \in Msg1,
         NEW a, Sound(a), a.proc = None, a.contexts = peer[l].contexts, Ready(a, Clock(l)),
         peer[l].proc # None => inbox[l][1].prio > peer[l].proc.prio
  PROVE  Outcome(l, Respond(a, l, inbox[l][1], Clock(l), fresh), RemoveIndex(inbox[l], 1))
<1> DEFINE bx == inbox[l]
           by == inbox[Back(l)]
           x == peer[l].proc
           y == peer[Back(l)].proc
           m == bx[1]
           b == RemoveIndex(bx, 1)
           t == Clock(l)
           r == Respond(a, l, m, t, fresh)
           by2 == Append(by, r.out)
<1>1. /\ bx \in Seq(Message) /\ by \in Seq(Message) /\ x \in Proc /\ y \in Proc
      /\ Channels(x, y, bx, by) /\ fresh \in Nat /\ t \in Nat
  BY FInvTypes
<1>2. m.type = "msg1"
  BY DEF Msg1
<1>3. Responds(a, r, l, m, t)
  BY <1>1, RespondResponds
<1> HIDE DEF r
<1>4. r.out \in Msg2 /\ r.out.id = m.id
  BY <1>3 DEF Responds
<1>5. r.out \in Message /\ r.out.type = "msg2" /\ r.out # None
  BY <1>4, NoneAssumption DEF Message, Msg2
<1>6. x # None => m.prio > x.prio
  OBVIOUS
<1> HIDE DEF by2, x, y, by, bx
<1>7. /\ y # None /\ m = Msg1Of(y) /\ y \in Procedure
      /\ NoAnswers(bx) /\ NoAnswers(by) /\ NoAnswers(b)
      /\ Len(by) <= 1 /\ Channels(None, y, b, by2)
  <2>1. Len(bx) > 0
    BY DEF bx
  <2>2. /\ y # None /\ m = Msg1Of(y)
        /\ NoAnswers(bx) /\ NoAnswers(by) /\ NoAnswers(b)
        /\ Len(by) <= 1 /\ Channels(None, y, b, by2)
    BY <1>1, <1>2, <1>4, <1>6, <2>1, AnswerSent DEF by2
  <2> QED
    BY <1>1, <2>2 DEF Proc
<1>8. m.ctx = y.id /\ m.eph = y.eph /\ m.exp = y.exp
  BY <1>7, LiveType
<1>9. Sent(by, r.out) = by2
  BY <1>5 DEF Sent, by2
<1>10. ASSUME NEW s PROVE Answers(by2, s) = IF r.out.status = s THEN {r.out} ELSE {}
  <2>1. Answers(by2, s) = Answers(by, s)
          \cup (IF r.out.type = "msg2" /\ r.out.status = s THEN {r.out} ELSE {})
    BY <1>1, <1>5, AnswersAppend DEF by2
  <2>2. Answers(by, s) = {}
    BY <1>7 DEF NoAnswers
  <2> QED
    BY <1>5, <2>1, <2>2
<1>11. Ready(r.peer, t) /\ r.peer.proc = None
  BY <1>3 DEF Responds, Ready
<1> HIDE DEF t, m
<1>12. Answering(l, peer[l], r.peer, y, bx, b, by, by2, t)
  <2>1. r.out.status = "VERIFICATION_FAILED" => y.exp <= t
    BY <1>3, <1>8 DEF Responds
  <2>2. r.out.status = "OK" =>
          \E c \in Context :
             /\ r.peer.contexts = [peer[l].contexts EXCEPT ![y.id] = c]
             /\ c.key = [initiator |-> l[2], responder |-> l[1], e |-> y.eph, f |-> r.out.eph]
             /\ c.exp = y.exp /\ y.exp > t
    BY <1>3, <1>8 DEF Responds
  <2>3. r.out.status # "OK" => r.peer.contexts = peer[l].contexts
    BY <1>3 DEF Responds
  <2> QED
    BY <1>4, <1>7, <1>10, <1>11, <2>1, <2>2, <2>3 DEF Answering
<1>13. Len(by) <= 2
  BY <1>1, <1>7, LenProperties
<1> QED
  BY <1>7, <1>9, <1>11, <1>12, <1>13 DEF Outcome, Moves, r, t, m, bx, by, y

LEMMA HandleMsg1Outcome ==
  ASSUME FInv, NEW l \in Link, Len(inbox[l]) > 0, inbox[l][1] \in Msg1, NEW prio \in Nat
  PROVE  Outcome(l, HandleMsg1(l, inbox[l][1], prio), RemoveIndex(inbox[l], 1))
<1> DEFINE m == inbox[l][1]
           t == Clock(l)
           p == Touch(peer[l], l, t)
           a == AbortSender(p)
           b == RemoveIndex(inbox[l], 1)
<1>1. /\ Sound(peer[l]) /\ peer[l] \in Peer /\ t \in Nat /\ fresh \in Nat
      /\ peer[l].proc \in Proc /\ peer[Back(l)].proc \in Proc
      /\ inbox[l] \in Seq(Message) /\ inbox[Back(l)] \in Seq(Message)
      /\ Ready(peer[l], t)
      /\ Channels(peer[l].proc, peer[Back(l)].proc, inbox[l], inbox[Back(l)])
  BY FInvTypes
<1>2. m.type = "msg1" /\ m.prio \in Nat
  BY DEF Msg1
<1>3. /\ Sound(p) /\ p.proc = peer[l].proc /\ p.present = peer[l].present
      /\ p.contexts = peer[l].contexts /\ (peer[l].key => p.key) /\ p.active = t
  <2>1. Sound(p)
    BY <1>1, TouchSound
  <2> QED
    BY <1>1, <2>1 DEF Touch, Peer
<1>4. Ready(p, t) /\ Fades(peer[l], p, t)
  BY <1>1, <1>3 DEF Ready, Fades
<1>5. /\ Sound(a) /\ a.proc = None /\ a.contexts = peer[l].contexts
      /\ a.present = peer[l].present /\ a.active = t
  <2>1. Sound(a) /\ a.proc = None
    BY <1>3, AbortSenderSound
  <2>2. p \in Peer
    BY <1>3 DEF Sound
  <2> HIDE DEF p
  <2> QED
    BY <1>3, <2>1, <2>2 DEF AbortSender, Peer
<1>6. Ready(a, t) /\ Fades(peer[l], a, t)
  BY <1>1, <1>5 DEF Ready, Fades
<1> HIDE DEF a, p, t
<1>7. CASE ~peer[l].present
  <2>1. HandleMsg1(l, m, prio) = Quiet(peer[l])
    BY <1>7 DEF HandleMsg1
  <2>2. peer[l].proc = None
    BY <1>1, <1>7 DEF Ready
  <2>3. Fades(peer[l], peer[l], t)
    BY DEF Fades
  <2> QED
    BY <1>1, <1>2, <2>1, <2>2, <2>3, DropOutcome DEF t
<1>8. CASE peer[l].present /\ ~p.key
  <2>1. HandleMsg1(l, m, prio) = Quiet(p)
    BY <1>8 DEF HandleMsg1, p, t
  <2>2. p.proc = None
    BY <1>4, <1>8 DEF Ready
  <2> QED
    BY <1>2, <1>3, <1>4, <2>1, <2>2, DropOutcome DEF t
<1>9. CASE peer[l].present /\ p.key /\ p.proc = None
  <2>1. HandleMsg1(l, m, prio) = Respond(p, l, m, t, fresh)
    BY <1>9 DEF HandleMsg1, p, t
  <2> QED
    BY <1>3, <1>4, <1>9, <2>1, AnswerOutcome DEF t
<1>10. CASE peer[l].present /\ p.key /\ p.proc # None /\ m.prio > p.proc.prio
  <2>1. HandleMsg1(l, m, prio) = Respond(a, l, m, t, fresh)
    BY <1>10 DEF HandleMsg1, p, t, a
  <2> QED
    BY <1>3, <1>5, <1>6, <1>10, <2>1, AnswerOutcome DEF t
<1>11. CASE peer[l].present /\ p.key /\ p.proc # None /\ m.prio < p.proc.prio
  <2>1. p.proc.prio \in Nat
    BY <1>1, <1>3, <1>11, ProcType
  <2>2. ~(m.prio > p.proc.prio)
    BY <1>2, <1>11, <2>1
  <2>3. HandleMsg1(l, m, prio) = Quiet(p)
    BY <1>11, <2>2 DEF HandleMsg1, p, t
  <2> QED
    BY <1>2, <1>3, <1>4, <1>11, <2>3, DropOutcome DEF t
<1>12. CASE /\ peer[l].present /\ p.key /\ p.proc # None
            /\ ~(m.prio > p.proc.prio) /\ ~(m.prio < p.proc.prio)
  <2> DEFINE r == StartSecurity(a, t, TRUE, prio, fresh)
  <2>1. HandleMsg1(l, m, prio) = r
    BY <1>12 DEF HandleMsg1, p, t, a
  <2>2. p.proc.prio \in Nat
    BY <1>1, <1>3, <1>12, ProcType
  <2>3. peer[l].proc # None /\ m.prio = peer[l].proc.prio
    BY <1>2, <1>3, <1>12, <2>2
  <2>4. /\ NoAnswers(inbox[l]) /\ NoAnswers(b)
        /\ Channels(None, peer[Back(l)].proc, b, inbox[Back(l)])
    BY <1>1, <1>2, <2>3, Ends
  <2>5. b \in Seq(Message)
    BY <1>1, FirstRemoved
  <2>6. SameEntry(a, r.peer) /\ Begins(a, r)
    BY <1>1, <1>5, StartSecurityBegins DEF t
  <2>7. Answers(inbox[l], "OK") = {}
    BY <2>4 DEF NoAnswers
  <2> HIDE DEF r, b
  <2>8. a.present
    BY <1>5, <1>12
  <2>9. Channels(a.proc, peer[Back(l)].proc, b, inbox[Back(l)])
    BY <1>5, <2>4
  <2>10. Outcome(l, r, b)
    BY <1>5, <1>6, <2>4, <2>5, <2>6, <2>7, <2>8, <2>9, BeginOutcome DEF t
  <2> QED
    BY <2>1, <2>10 DEF b
<1> QED
  BY <1>7, <1>8, <1>9, <1>10, <1>11, <1>12

LEMMA HandleMsg2Outcome ==
  ASSUME FInv, NEW l \in Link, Len(inbox[l]) > 0, inbox[l][1] \in Msg2, NEW prio \in Nat
  PROVE  Outcome(l, HandleMsg2(l, inbox[l][1], prio), RemoveIndex(inbox[l], 1))
<1> DEFINE m == inbox[l][1]
           t == Clock(l)
           p == [peer[l] EXCEPT !.active = t]
           pr == p.proc
           key == [initiator |-> l[1], responder |-> l[2], e |-> pr.eph, f |-> m.eph]
           bx == inbox[l]
           by == inbox[Back(l)]
           y == peer[Back(l)].proc
           b == RemoveIndex(bx, 1)
<1>1. /\ Sound(peer[l]) /\ peer[l] \in Peer /\ t \in Nat /\ fresh \in Nat
      /\ peer[l].proc \in Proc /\ y \in Proc
      /\ bx \in Seq(Message) /\ by \in Seq(Message)
      /\ Ready(peer[l], t) /\ Channels(peer[l].proc, y, bx, by)
  BY FInvTypes
<1>2. /\ m.type = "msg2" /\ m.eph \in Nat
      /\ m.status \in {"OK", "UNSUPPORTED", "VERIFICATION_FAILED"}
  BY DEF Msg2
<1>3. /\ p \in Peer /\ p.proc = peer[l].proc /\ p.present = peer[l].present
      /\ p.contexts = peer[l].contexts /\ p.timers = peer[l].timers
      /\ p.current = peer[l].current /\ p.key = peer[l].key /\ p.active = t
  BY <1>1 DEF Peer
<1> HIDE DEF p, t, y
<1>4. Sound(p)
  BY <1>1, <1>3, SameBooks
<1>5. /\ IsAnswer(m, p.proc) /\ NoAnswers(by) /\ NoAnswers(b)
      /\ Channels(None, y, b, by) /\ b \in Seq(Message)
  BY <1>1, <1>2, <1>3, Ends, FirstRemoved
<1>6. p.proc # None /\ p.proc \in Procedure /\ m.id = p.proc.mid
  BY <1>3, <1>5 DEF IsAnswer, Peer
<1>7. p.present /\ p.key /\ m.id = p.current
  BY <1>1, <1>3, <1>4, <1>6 DEF Ready, Sound, Books, CurrentIsProcedure
<1> HIDE DEF m, bx, by, b
<1>8. ASSUME NEW a, a.proc = None, a.contexts = peer[l].contexts, a.present,
             a.active = t, m.status # "OK", NEW r, SameEntry(a, r.peer), Begins(a, r)
      PROVE  Outcome(l, r, b)
  <2>1. Fades(peer[l], a, t)
    BY <1>8 DEF Fades
  <2>2. Ready(a, t)
    BY <1>1, <1>8 DEF Ready
  <2>3. Answers(bx, "OK") = {}
    <3>1. Len(bx) > 0
      BY DEF bx
    <3>2. ~(bx[1].type = "msg2" /\ bx[1].status = "OK")
      BY <1>8 DEF bx, m
    <3>3. Answers(bx, "OK") = Answers(b, "OK")
      BY <1>1, <3>1, <3>2, OtherFirst, Zenon DEF b
    <3> QED
      BY <1>5, <3>3 DEF NoAnswers
  <2>4. Channels(a.proc, peer[Back(l)].proc, b, inbox[Back(l)])
    BY <1>5, <1>8 DEF y, by
  <2> QED
    BY <1>5, <1>8, <2>1, <2>2, <2>3, <2>4, BeginOutcome DEF t, bx
<1>9. CASE m.status = "UNSUPPORTED"
  <2> DEFINE q == [p EXCEPT !.supported = @ \ {pr.pair}, !.test = @ \ {pr.pair}]
             c == CompleteTransaction(q, m.id)
             r == StartSecurity(c, t, TRUE, prio, fresh)
  <2>1. HandleMsg2(l, m, prio) = r
    BY <1>6, <1>7, <1>9, Zenon DEF HandleMsg2, p, t
  <2>2. /\ q \in Peer /\ q.contexts = p.contexts /\ q.timers = p.timers
        /\ q.proc = p.proc /\ q.current = p.current /\ q.present = p.present
        /\ q.active = p.active
    BY <1>3 DEF Peer
  <2> HIDE DEF q
  <2>3. Sound(q)
    BY <1>4, <2>2, SameBooks
  <2>4. Sound(c)
    BY <2>3, CompleteTransactionSound
  <2>5. c = AbortSender(q)
    BY <1>7, <2>2 DEF CompleteTransaction
  <2> HIDE DEF c
  <2>6. c.proc = None /\ c.contexts = q.contexts /\ c.present = q.present /\ c.active = q.active
    BY <2>2, <2>5 DEF AbortSender, Peer
  <2>7. SameEntry(c, r.peer) /\ Begins(c, r)
    BY <1>1, <2>4, StartSecurityBegins
  <2> HIDE DEF r
  <2>8. c.contexts = peer[l].contexts /\ c.present /\ c.active = t
    BY <1>3, <1>7, <2>2, <2>6
  <2>9. Outcome(l, r, b)
    BY <1>8, <1>9, <2>6, <2>7, <2>8
  <2> QED
    BY <2>1, <2>9 DEF b, bx, m
<1>10. CASE m.status = "VERIFICATION_FAILED"
  <2> DEFINE c == CompleteTransaction(p, m.id)
             q == [c EXCEPT !.key = FALSE]
             r == Quiet(q)
  <2>1. HandleMsg2(l, m, prio) = r
    BY <1>6, <1>7, <1>10 DEF HandleMsg2, p, t
  <2>2. c = AbortSender(p) /\ c \in Peer
    BY <1>4, <1>7, CompleteTransactionSound DEF CompleteTransaction, Sound
  <2> HIDE DEF c
  <2>3. c.proc = None /\ c.contexts = p.contexts /\ c.present = p.present /\ c.active = p.active
    BY <1>3, <2>2 DEF AbortSender, Peer
  <2>4. q.proc = None /\ q.contexts = p.contexts /\ q.present = p.present /\ q.active = p.active
    BY <2>2, <2>3 DEF Peer
  <2> HIDE DEF q
  <2>5. r.peer = q /\ r.out = None
    BY DEF Quiet, Result
  <2> HIDE DEF r
  <2>6. SameEntry(q, r.peer) /\ Begins(q, r)
    BY <2>5 DEF SameEntry, Begins
  <2>7. q.contexts = peer[l].contexts /\ q.present /\ q.active = t
    BY <1>3, <1>7, <2>4
  <2>8. Outcome(l, r, b)
    BY <1>8, <1>10, <2>4, <2>6, <2>7
  <2> QED
    BY <2>1, <2>8 DEF b, bx, m
<1>11. CASE m.status = "OK"
  <2> DEFINE q == Install(p, t, pr.id, pr.cid, key, pr.pair, pr.exp)
             c == CompleteTransaction(q, m.id)
             r == Quiet(c)
  <2>1. HandleMsg2(l, m, prio) = r
    BY <1>6, <1>7, <1>11, Zenon DEF HandleMsg2, p, t
  <2>2. /\ pr.id \in CtxId /\ pr.cid \in Nat /\ pr.pair \in Pair
        /\ pr.exp \in Nat /\ pr.eph \in Nat
    BY <1>6 DEF Procedure
  <2>3. key \in Key
    BY <1>2, <2>2 DEF Key, Link
  <2> HIDE DEF key
  <2>4. Installs(p, q, pr.id, key, pr.exp) /\ q.current = p.current /\ DOMAIN q = DOMAIN p
    <3>1. Installs(p, q, pr.id, key, pr.exp)
      BY <1>1, <1>3, <2>2, <2>3, InstallIs
    <3>2. q.current = p.current /\ DOMAIN q = DOMAIN p
      BY <1>3 DEF Install, Peer
    <3> QED
      BY <3>1, <3>2
  <2> HIDE DEF q
  <2>5. c = AbortSender(q)
    BY <1>7, <2>4 DEF CompleteTransaction
  <2> HIDE DEF c
  <2>6. DOMAIN q = DOMAIN Absent
    BY <1>3, <2>4 DEF Peer, Absent
  <2>7. /\ c.proc = None /\ c.contexts = q.contexts /\ c.present = q.present
        /\ c.active = q.active
    BY <2>5, <2>6 DEF AbortSender, Absent
  <2>8. r.peer = c /\ r.out = None
    BY DEF Quiet, Result
  <2> HIDE DEF r
  <2>9. Ready(r.peer, t)
    BY <1>1, <1>3, <2>4, <2>7, <2>8 DEF Ready, Installs
  <2>10. m \in Answers(bx, "OK")
    <3>1. Len(bx) > 0
      BY DEF bx
    <3>2. bx[1] = m
      BY DEF bx, m
    <3> QED
      BY <1>1, <1>2, <1>11, <3>1, <3>2, FirstIsAnswer
  <2>11. \E d \in Context :
           /\ r.peer.contexts = [peer[l].contexts EXCEPT ![peer[l].proc.id] = d]
           /\ d.key = [initiator |-> l[1], responder |-> l[2], e |-> peer[l].proc.eph, f |-> m.eph]
           /\ d.exp = peer[l].proc.exp
    BY <1>3, <2>4, <2>7, <2>8 DEF Installs, key
  <2>12. Accepting(l, peer[l], r.peer, bx, b, by, by)
    BY <1>3, <1>5, <1>6, <2>7, <2>8, <2>10, <2>11 DEF Accepting
  <2>13. Sent(by, r.out) = by
    BY <2>8 DEF Sent
  <2>14. Outcome(l, r, b)
    BY <1>5, <2>7, <2>8, <2>9, <2>12, <2>13 DEF Outcome, Moves, bx, by, y, t
  <2> QED
    BY <2>1, <2>14 DEF b, bx, m
<1> QED
  BY <1>2, <1>9, <1>10, <1>11 DEF m, b, bx

LEMMA ReceiveAt ==
  ASSUME FInv, Reliable, NEW l \in Link, NEW k \in 1 .. Len(inbox[l]), Receive(l, k)
  PROVE  StepAt(l)
<1> DEFINE m == inbox[l][k]
           box == [inbox EXCEPT ![l] = RemoveIndex(@, k)]
           r(prio) == IF m.type = "msg1" THEN HandleMsg1(l, m, prio)
                                         ELSE HandleMsg2(l, m, prio)
<1>1. PICK prio \in Priority[l[1]] : Apply(l, r(prio), box)
  BY Zenon DEF Receive
<1>2. prio \in Nat
  BY <1>1, ConstantsAssumption DEF Link
<1>3. /\ Sound(peer[l]) /\ now \in Nat /\ fresh \in Nat
      /\ inbox \in [Link -> Seq(Message)] /\ inbox[l] \in Seq(Message)
  BY FInvTypes
<1>4. k = 1 /\ now' = now
  <2>1. "reorder" \notin Environment
    BY DEF Reliable
  <2> QED
    BY <2>1 DEF Receive
<1>5. Len(inbox[l]) > 0 /\ m \in Message /\ m = inbox[l][1]
  <2>1. Len(inbox[l]) \in Nat
    BY <1>3, LenProperties
  <2> QED
    BY <1>3, <1>4, <2>1, ElementOfSeq
<1>6. /\ box \in [Link -> Seq(Message)] /\ box[l] = RemoveIndex(inbox[l], 1)
      /\ \A j \in Link : j # l => box[j] = inbox[j]
  <2>1. RemoveIndex(inbox[l], 1) \in Seq(Message)
    BY <1>3, <1>5, FirstRemoved
  <2> QED
    BY <1>3, <1>4, <2>1
<1> HIDE DEF m, box
<1>7. /\ Outcome(l, r(prio), box[l]) /\ r(prio).out \in Message \cup {None}
  <2>1. CASE m \in Msg1
    <3>1. m.type = "msg1"
      BY <2>1 DEF Msg1
    <3> QED
      BY <1>2, <1>3, <1>5, <1>6, <2>1, <3>1, HandleMsg1Sound, HandleMsg1Outcome DEF SoundResult
  <2>2. CASE m \in Msg2
    <3>1. m.type # "msg1"
      BY <2>2 DEF Msg2
    <3> QED
      BY <1>2, <1>3, <1>5, <1>6, <2>2, <3>1, HandleMsg2Sound, HandleMsg2Outcome DEF SoundResult
  <2> QED
    BY <1>5, <2>1, <2>2 DEF Message
<1> HIDE DEF r
<1> QED
  BY <1>1, <1>3, <1>4, <1>6, <1>7, OutcomeSteps

(* A second passes, with nothing under way. *)
Passes ==
  /\ now' = now + 1 /\ UNCHANGED <<peer, inbox>>
  /\ \A l \in Link : Len(inbox[l]) = 0 /\ (peer[l].present => peer[l].active = Clock(l))

Steps == (\E l \in Link : StepAt(l)) \/ Passes \/ UNCHANGED <<now, peer, inbox>>

LEMMA NextSteps ==
  ASSUME FInv, Reliable, [Next]_vars
  PROVE  Steps
<1>1. \A e \in EnvironmentKinds \ {"operator"} : e \notin Environment
  BY DEF Reliable, EnvironmentKinds
<1>2. CASE UNCHANGED vars
  BY <1>2 DEF vars, Steps
<1>3. CASE Tick
  <2>1. "late" \notin Environment /\ "silence" \notin Environment
    BY <1>1 DEF EnvironmentKinds
  <2>2. Passes
    BY <1>3, <2>1 DEF Tick, Passes
  <2> QED
    BY <2>2 DEF Steps
<1>4. ASSUME NEW l \in Link, HandleBeacon(l) PROVE Steps
  BY <1>4, HandleBeaconAt DEF Steps
<1>5. ASSUME NEW l \in Link, SendWithoutContext(l) PROVE Steps
  BY <1>5, SendWithoutContextAt DEF Steps
<1>6. ASSUME NEW l \in Link, TransactionTimeout(l) PROVE Steps
  BY <1>6, TransactionTimeoutAt DEF Steps
<1>7. ASSUME NEW l \in Link, AddPublicKey(l) PROVE Steps
  BY <1>7, AddPublicKeyAt DEF Steps
<1>8. ASSUME NEW l \in Link, RemPublicKey(l) PROVE Steps
  BY <1>8 DEF RemPublicKey, Steps
<1>9. ASSUME NEW l \in Link, NEW tm \in peer[l].timers, ContextTimer(l, tm) PROVE Steps
  BY <1>9, ContextTimerAt DEF Steps
<1>10. ASSUME NEW l \in Link, NEW k \in 1 .. Len(inbox[l]), Receive(l, k) PROVE Steps
  BY <1>10, ReceiveAt DEF Steps
<1>11. ASSUME NEW l \in Link, CheckActivity(l) PROVE FALSE
  <2>1. peer[l] \in Peer /\ Ready(peer[l], Clock(l)) /\ Clock(l) \in Nat
    BY FInvTypes
  <2>2. Clock(l) > peer[l].active + PeerTimeout /\ Clock(l) <= peer[l].active + 1
    BY <1>11, <2>1 DEF CheckActivity, Ready
  <2>3. peer[l].active \in Nat /\ PeerTimeout \in Nat /\ PeerTimeout >= 1
    BY <2>1, ConstantsAssumption DEF Peer, Reliable
  <2> QED
    BY <2>1, <2>2, <2>3
<1>12. ASSUME NEW n \in Node, Restart(n) PROVE FALSE
  BY <1>1, <1>12 DEF Restart, EnvironmentKinds
<1>13. ASSUME NEW l \in Link, NEW k \in 1 .. Len(inbox[l]), Lose(l, k) \/ Duplicate(l, k)
       PROVE  FALSE
  BY <1>1, <1>13 DEF Lose, Duplicate, EnvironmentKinds
<1>14. ASSUME NEW l \in Link,
              \/ HandleBeacon(l)
              \/ SendWithoutContext(l)
              \/ TransactionTimeout(l)
              \/ CheckActivity(l)
              \/ AddPublicKey(l)
              \/ RemPublicKey(l)
              \/ \E tm \in peer[l].timers : ContextTimer(l, tm)
              \/ \E k \in 1 .. Len(inbox[l]) : Receive(l, k) \/ Lose(l, k) \/ Duplicate(l, k)
       PROVE  Steps
  BY <1>4, <1>5, <1>6, <1>7, <1>8, <1>9, <1>10, <1>11, <1>13, <1>14
<1> QED
  BY <1>2, <1>3, <1>12, <1>14 DEF Next

LEMMA OtherLinks ==
  ASSUME NEW l \in Link, NEW k \in Link, k # l, k # Back(l)
  PROVE  Back(k) # l /\ Back(k) # Back(l) /\ Back(k) \in Link
BY BackIsLink

LEMMA FInvInit == Init => FInv
<1> SUFFICES ASSUME Init PROVE FInv
  OBVIOUS
<1>1. IInv
  BY InvariantInit
<1>2. \A l \in Link : peer[l] = Absent /\ inbox[l] = <<>> /\ Len(inbox[l]) = 0
  BY DEF Init
<1>3. \A l \in Link : Ready(peer[l], Clock(l))
  BY <1>2 DEF Ready, Absent
<1>4. \A l \in Link : Channels(peer[l].proc, peer[Back(l)].proc, inbox[l], inbox[Back(l)])
  BY <1>2, BackIsLink, EmptyChannels
<1> QED
  BY <1>1, <1>3, <1>4 DEF FInv

LEMMA FInvStep ==
  ASSUME FInv, Reliable, [Next]_vars
  PROVE  FInv'
<1>1. IInv'
  BY InvariantStep DEF FInv
<1>2. ASSUME NEW l \in Link, StepAt(l) PROVE FInv'
  <2>1. ASSUME NEW k \in Link PROVE Ready(peer'[k], Clock(k))
    BY <1>2 DEF StepAt, FInv
  <2>2. Back(l) \in Link /\ Back(l) # l /\ Back(Back(l)) = l
    BY BackIsLink
  <2>3. Channels(peer'[l].proc, peer'[Back(l)].proc, inbox'[l], inbox'[Back(l)])
    BY <1>2, <2>2 DEF StepAt
  <2>4. Channels(peer'[Back(l)].proc, peer'[l].proc, inbox'[Back(l)], inbox'[l])
    BY <2>3 DEF Channels
  <2>5. ASSUME NEW k \in Link, k # l, k # Back(l)
        PROVE  Channels(peer'[k].proc, peer'[Back(k)].proc, inbox'[k], inbox'[Back(k)])
    <3>1. Back(k) # l /\ Back(k) # Back(l) /\ Back(k) \in Link
      BY <2>5, OtherLinks
    <3>2. /\ peer'[k] = peer[k] /\ peer'[Back(k)] = peer[Back(k)]
          /\ inbox'[k] = inbox[k] /\ inbox'[Back(k)] = inbox[Back(k)]
      BY <1>2, <2>5, <3>1 DEF StepAt
    <3> QED
      BY <3>2 DEF FInv
  <2>6. \A k \in Link : Channels(peer'[k].proc, peer'[Back(k)].proc, inbox'[k], inbox'[Back(k)])
    BY <2>2, <2>3, <2>4, <2>5
  <2>7. \A k \in Link : Clock(k)' = Clock(k)
    BY <1>2 DEF StepAt, Clock
  <2>8. \A k \in Link : Ready(peer[k], Clock(k))'
    BY <2>1, <2>7 DEF Ready
  <2> QED
    BY <1>1, <2>6, <2>8 DEF FInv, Back
<1>3. CASE Passes
  <2>1. ASSUME NEW l \in Link PROVE Ready(peer[l], Clock(l))'
    <3>1. Ready(peer[l], Clock(l)) /\ Clock(l) \in Nat
      BY FInvTypes
    <3>2. peer'[l] = peer[l] /\ (peer[l].present => peer[l].active = Clock(l))
      BY <1>3 DEF Passes
    <3>3. Clock(l)' = Clock(l) + 1
      <4>1. now \in Nat /\ Uptime[l[1]] \in Nat
        BY FInvTypes, ConstantsAssumption DEF Link
      <4> QED
        BY <1>3, <4>1 DEF Passes, Clock
    <3> QED
      BY <3>1, <3>2, <3>3 DEF Ready
  <2>2. UNCHANGED <<peer, inbox>>
    BY <1>3 DEF Passes
  <2> QED
    BY <1>1, <2>1, <2>2 DEF FInv, Back
<1>4. CASE UNCHANGED <<now, peer, inbox>>
  BY <1>1, <1>4 DEF FInv, Back, Clock
<1> QED
  BY <1>2, <1>3, <1>4, NextSteps DEF Steps

-----------------------------------------------------------------------------
(* Both ends of a link hold one key under one id.                          *)

(* The OK that is on its way to x will replace the context i.              *)
Due(x, oks, i) == x # None /\ x.id = i /\ oks # {}

(* Who sent an OK holds, if still, the key that it will lead to.           *)
Told(l, x, there, oks) ==
  \A m \in oks :
    /\ x # None
    /\ there[x.id] # None =>
         there[x.id].key = [initiator |-> l[1], responder |-> l[2], e |-> x.eph, f |-> m.eph]

Agreed(p, q, oks, back) ==
  \A i \in CtxId :
    \/ Due(p.proc, oks, i) \/ Due(q.proc, back, i)
    \/ p.contexts[i] # None /\ q.contexts[i] # None => p.contexts[i].key = q.contexts[i].key

OneKey(l, p, q, oks, back) ==
  /\ Told(l, p.proc, q.contexts, oks) /\ Told(Back(l), q.proc, p.contexts, back)
  /\ Agreed(p, q, oks, back)

LEMMA OneKeySymmetric ==
  ASSUME NEW l \in Link, NEW p, NEW q, NEW oks, NEW back, OneKey(l, p, q, oks, back)
  PROVE  OneKey(Back(l), q, p, back, oks)
<1>1. Back(Back(l)) = l
  BY BackIsLink
<1>2. Told(Back(l), q.proc, p.contexts, back) /\ Told(Back(Back(l)), p.proc, q.contexts, oks)
  BY <1>1 DEF OneKey
<1>3. Agreed(q, p, back, oks)
  BY DEF OneKey, Agreed
<1> QED
  BY <1>2, <1>3 DEF OneKey

LEMMA OneKeyMoves ==
  ASSUME NEW l \in Link, NEW p \in Peer, NEW p2 \in Peer, NEW q \in Peer,
         NEW bx, NEW bx2, NEW by, NEW by2, NEW t,
         Moves(l, p, p2, q.proc, bx, bx2, by, by2, t),
         OneKey(l, p, q, Answers(bx, "OK"), Answers(by, "OK"))
  PROVE  OneKey(l, p2, q, Answers(bx2, "OK"), Answers(by2, "OK"))
<1> DEFINE A == Answers(bx, "OK")
           A2 == Answers(bx2, "OK")
           B == Answers(by, "OK")
           B2 == Answers(by2, "OK")
<1>1. /\ Told(l, p.proc, q.contexts, A) /\ Told(Back(l), q.proc, p.contexts, B)
      /\ Agreed(p, q, A, B)
  BY DEF OneKey
<1>2. /\ p.proc # None => p.proc.id \in CtxId
      /\ q.proc # None => q.proc.id \in CtxId
      /\ p.contexts \in [CtxId -> Context \cup {None}]
  BY DEF Peer, Procedure
<1>3. Back(l)[1] = l[2] /\ Back(l)[2] = l[1]
  BY BackIsLink
<1>4. CASE Keeping(p, p2, bx, bx2, by, by2, t)
  <2>1. /\ Fades(p, p2, t) /\ B2 = B
        /\ \/ p2.proc = p.proc /\ A2 = A
           \/ A = {} /\ A2 = {}
    BY <1>4 DEF Keeping, NoAnswers
  <2> HIDE DEF A, A2, B, B2
  <2>2. Told(l, p2.proc, q.contexts, A2)
    BY <1>1, <2>1 DEF Told
  <2>3. Told(Back(l), q.proc, p2.contexts, B2)
    BY <1>1, <1>2, <2>1 DEF Told, Fades
  <2>4. Agreed(p2, q, A2, B2)
    <3> SUFFICES ASSUME NEW i \in CtxId, ~Due(p2.proc, A2, i), ~Due(q.proc, B2, i),
                        p2.contexts[i] # None, q.contexts[i] # None
                 PROVE  p2.contexts[i].key = q.contexts[i].key
      BY DEF Agreed
    <3>1. ~Due(p.proc, A, i) /\ ~Due(q.proc, B, i)
      BY <2>1 DEF Due
    <3>2. p.contexts[i] # None /\ p2.contexts[i].key = p.contexts[i].key
      BY <2>1 DEF Fades
    <3> QED
      BY <1>1, <3>1, <3>2 DEF Agreed
  <2> QED
    BY <2>2, <2>3, <2>4 DEF OneKey, A2, B2
<1>5. CASE Answering(l, p, p2, q.proc, bx, bx2, by, by2, t)
  <2>1. q.proc # None /\ p2.proc = None /\ A = {} /\ A2 = {} /\ B = {}
    BY <1>5, NoneAssumption DEF Answering, NoAnswers
  <2>2. PICK r \in Msg2 :
          /\ B2 = IF r.status = "OK" THEN {r} ELSE {}
          /\ IF r.status = "OK"
             THEN \E c \in Context :
                    /\ p2.contexts = [p.contexts EXCEPT ![q.proc.id] = c]
                    /\ c.key = [initiator |-> l[2], responder |-> l[1],
                                e |-> q.proc.eph, f |-> r.eph]
             ELSE p2.contexts = p.contexts
    BY <1>5, Zenon DEF Answering
  <2> HIDE DEF A, A2, B, B2
  <2>3. Told(l, p2.proc, q.contexts, A2)
    BY <2>1 DEF Told
  <2>4. CASE r.status # "OK"
    <3>1. B2 = {} /\ p2.contexts = p.contexts
      BY <2>2, <2>4
    <3>2. Told(Back(l), q.proc, p2.contexts, B2)
      BY <3>1 DEF Told
    <3>3. Agreed(p2, q, A2, B2)
      BY <1>1, <2>1, <3>1 DEF Agreed, Due
    <3> QED
      BY <2>3, <3>2, <3>3 DEF OneKey, A2, B2
  <2>5. CASE r.status = "OK"
    <3>1. PICK c \in Context :
            /\ p2.contexts = [p.contexts EXCEPT ![q.proc.id] = c]
            /\ c.key = [initiator |-> l[2], responder |-> l[1],
                        e |-> q.proc.eph, f |-> r.eph]
      BY <2>2, <2>5
    <3>2. /\ B2 = {r} /\ p2.contexts[q.proc.id] = c
          /\ \A i \in CtxId : i # q.proc.id => p2.contexts[i] = p.contexts[i]
      BY <1>2, <2>1, <2>2, <2>5, <3>1
    <3>3. Told(Back(l), q.proc, p2.contexts, B2)
      BY <1>3, <2>1, <3>1, <3>2 DEF Told
    <3>4. Agreed(p2, q, A2, B2)
      BY <1>1, <2>1, <3>2 DEF Agreed, Due
    <3> QED
      BY <2>3, <3>3, <3>4 DEF OneKey, A2, B2
  <2> QED
    BY <2>4, <2>5
<1>6. CASE Accepting(l, p, p2, bx, bx2, by, by2)
  <2>1. p.proc # None /\ p2.proc = None /\ A2 = {} /\ B = {} /\ B2 = {}
    BY <1>6, NoneAssumption DEF Accepting, NoAnswers
  <2>2. PICK m \in A, c \in Context :
          /\ p2.contexts = [p.contexts EXCEPT ![p.proc.id] = c]
          /\ c.key = [initiator |-> l[1], responder |-> l[2], e |-> p.proc.eph, f |-> m.eph]
    BY <1>6, Zenon DEF Accepting
  <2> HIDE DEF A, A2, B, B2
  <2>3. Told(l, p2.proc, q.contexts, A2) /\ Told(Back(l), q.proc, p2.contexts, B2)
    BY <2>1 DEF Told
  <2>4. /\ p2.contexts[p.proc.id] = c
        /\ \A i \in CtxId : i # p.proc.id => p2.contexts[i] = p.contexts[i]
    BY <1>2, <2>1, <2>2
  <2>5. q.contexts[p.proc.id] # None => q.contexts[p.proc.id].key = c.key
    BY <1>1, <2>2 DEF Told
  <2>6. Agreed(p2, q, A2, B2)
    <3> SUFFICES ASSUME NEW i \in CtxId, p2.contexts[i] # None, q.contexts[i] # None
                 PROVE  p2.contexts[i].key = q.contexts[i].key
      BY DEF Agreed
    <3>1. CASE i = p.proc.id
      BY <2>4, <2>5, <3>1
    <3>2. CASE i # p.proc.id
      <4>1. ~Due(p.proc, A, i) /\ ~Due(q.proc, B, i)
        BY <2>1, <3>2 DEF Due
      <4> QED
        BY <1>1, <2>4, <3>2, <4>1 DEF Agreed
    <3> QED
      BY <3>1, <3>2
  <2> QED
    BY <2>3, <2>6 DEF OneKey, A2, B2
<1> QED
  BY <1>4, <1>5, <1>6 DEF Moves

KInv ==
  /\ FInv
  /\ \A l \in Link : OneKey(l, peer[l], peer[Back(l)], Answers(inbox[l], "OK"),
                            Answers(inbox[Back(l)], "OK"))

LEMMA KInvInit == Init => KInv
<1> SUFFICES ASSUME Init, NEW l \in Link
             PROVE  OneKey(l, peer[l], peer[Back(l)], Answers(inbox[l], "OK"),
                           Answers(inbox[Back(l)], "OK"))
  BY FInvInit DEF KInv
<1>1. /\ peer[l] = Absent /\ peer[Back(l)] = Absent
      /\ inbox[l] = <<>> /\ inbox[Back(l)] = <<>> /\ Len(<<>>) = 0
  BY BackIsLink DEF Init
<1>2. Answers(<<>>, "OK") = {}
  <2>1. NoAnswers(<<>>)
    BY <1>1, AnswersEmpty, Zenon
  <2> QED
    BY <2>1 DEF NoAnswers
<1>3. \A i \in CtxId : Absent.contexts[i] = None
  BY DEF Absent
<1> QED
  BY <1>1, <1>2, <1>3 DEF OneKey, Told, Agreed

LEMMA KInvStep ==
  ASSUME KInv, Reliable, [Next]_vars
  PROVE  KInv'
<1>1. FInv /\ FInv'
  BY FInvStep DEF KInv
<1> DEFINE oks(box, l) == Answers(box[l], "OK")
<1>2. /\ peer \in [Link -> Peer] /\ peer' \in [Link -> Peer]
  BY <1>1 DEF FInv, IInv, TypeOK
<1>3. ASSUME NEW l \in Link, StepAt(l) PROVE KInv'
  <2> DEFINE b == Back(l)
             A == Answers(inbox'[l], "OK")
             B == Answers(inbox'[b], "OK")
  <2>1. b \in Link /\ b # l /\ Back(b) = l /\ peer'[b] = peer[b]
    BY <1>3, BackIsLink DEF StepAt
  <2>2. Moves(l, peer[l], peer'[l], peer[b].proc, inbox[l], inbox'[l],
              inbox[b], inbox'[b], Clock(l))
    BY <1>3 DEF StepAt
  <2>3. OneKey(l, peer[l], peer[b], Answers(inbox[l], "OK"), Answers(inbox[b], "OK"))
    BY DEF KInv
  <2>4. OneKey(l, peer'[l], peer'[b], A, B)
    <3>1. peer[l] \in Peer /\ peer'[l] \in Peer /\ peer[b] \in Peer
      BY <1>2, <2>1
    <3>2. OneKey(l, peer'[l], peer[b], A, B)
      BY <2>2, <2>3, <3>1, OneKeyMoves
    <3> QED
      BY <2>1, <3>2
  <2>5. OneKey(b, peer'[b], peer'[l], B, A)
    BY <2>4, OneKeySymmetric
  <2>6. ASSUME NEW k \in Link, k # l, k # b
        PROVE  OneKey(k, peer'[k], peer'[Back(k)], Answers(inbox'[k], "OK"),
                      Answers(inbox'[Back(k)], "OK"))
    <3>1. Back(k) # l /\ Back(k) # b /\ Back(k) \in Link
      BY <2>6, OtherLinks
    <3>2. /\ peer'[k] = peer[k] /\ peer'[Back(k)] = peer[Back(k)]
          /\ inbox'[k] = inbox[k] /\ inbox'[Back(k)] = inbox[Back(k)]
      BY <1>3, <2>6, <3>1 DEF StepAt
    <3> QED
      BY <3>2 DEF KInv
  <2>7. ASSUME NEW k \in Link
        PROVE  OneKey(k, peer'[k], peer'[Back(k)], Answers(inbox'[k], "OK"),
                      Answers(inbox'[Back(k)], "OK"))
    <3>1. CASE k = l
      BY <2>4, <3>1
    <3>2. CASE k = b
      BY <2>1, <2>5, <3>2
    <3> QED
      BY <2>6, <3>1, <3>2
  <2> QED
    BY <1>1, <2>7 DEF KInv, Back
<1>4. CASE UNCHANGED <<peer, inbox>>
  BY <1>1, <1>4 DEF KInv, Back
<1> QED
  BY <1>1, <1>3, <1>4, NextSteps DEF Steps, Passes

LEMMA KInvInvariant ==
  ASSUME Reliable
  PROVE  Spec => []KInv
<1>1. KInv /\ [Next]_vars => KInv'
  BY KInvStep
<1> QED
  BY <1>1, KInvInit, PTL DEF Spec

(* Where frames are neither lost, repeated, reordered nor late and nodes   *)
(* go on, every handshake ends with one Diffie-Hellman result at both      *)
(* ends, through crossing MSG1s, arbitration, ties that begin again,       *)
(* fallback to another algorithm pair, renewal and the operator's changes  *)
(* of the public keys.                                                     *)
THEOREM KeysAlwaysAgree ==
  ASSUME Reliable
  PROVE  Spec => []KeysAgree
<1>1. KInv => KeysAgree
  <2> SUFFICES ASSUME KInv, NEW l \in Link, Settled(l),
                      NEW i \in Held(peer[l]) \cap Held(peer[Back(l)])
               PROVE  SameKey(l, i)
    BY DEF KeysAgree
  <2>1. Len(inbox[l]) = 0 /\ Len(inbox[Back(l)]) = 0
    BY DEF Settled
  <2>2. Answers(inbox[l], "OK") = {} /\ Answers(inbox[Back(l)], "OK") = {}
    BY <2>1, FInvTypes, AnswersEmpty DEF KInv, NoAnswers
  <2>3. i \in CtxId /\ peer[l].contexts[i] # None /\ peer[Back(l)].contexts[i] # None
    BY DEF Held
  <2> QED
    BY <2>2, <2>3 DEF KInv, OneKey, Agreed, Due, SameKey
<1> QED
  BY <1>1, KInvInvariant, PTL

-----------------------------------------------------------------------------
(* Both ends of a link hold a context until it expires.                    *)

(* What the OKs and the refusals that are on their way to x stand on.      *)
Stands(x, there, oks, refusals, t) ==
  /\ oks # {} => /\ x # None /\ there[x.id] # None
                 /\ there[x.id].exp = x.exp /\ x.exp > t
  /\ refusals # {} => x # None /\ x.exp <= t

(* A context of p that has not expired is, or will be, a context of q.     *)
Lasts(p, q, oks, back, t) ==
  \A i \in CtxId :
    p.contexts[i] # None /\ p.contexts[i].exp > t =>
      \/ Due(p.proc, oks, i) \/ Due(q.proc, back, i)
      \/ q.contexts[i] # None /\ q.contexts[i].exp = p.contexts[i].exp

Shared(p, q, bx, by, t) ==
  /\ Stands(p.proc, q.contexts, Answers(bx, "OK"), Answers(bx, "VERIFICATION_FAILED"), t)
  /\ Stands(q.proc, p.contexts, Answers(by, "OK"), Answers(by, "VERIFICATION_FAILED"), t)
  /\ Lasts(p, q, Answers(bx, "OK"), Answers(by, "OK"), t)
  /\ Lasts(q, p, Answers(by, "OK"), Answers(bx, "OK"), t)

LEMMA SharedKeeping ==
  ASSUME NEW p \in Peer, NEW p2 \in Peer, NEW q \in Peer,
         NEW bx, NEW bx2, NEW by, NEW by2, NEW t \in Nat,
         Keeping(p, p2, bx, bx2, by, by2, t), Shared(p, q, bx, by, t)
  PROVE  Shared(p2, q, bx2, by2, t)
<1> DEFINE A == Answers(bx, "OK")
           A2 == Answers(bx2, "OK")
           B == Answers(by, "OK")
           B2 == Answers(by2, "OK")
           F == Answers(bx, "VERIFICATION_FAILED")
           F2 == Answers(bx2, "VERIFICATION_FAILED")
           G == Answers(by, "VERIFICATION_FAILED")
           G2 == Answers(by2, "VERIFICATION_FAILED")
<1>1. /\ Stands(p.proc, q.contexts, A, F, t) /\ Stands(q.proc, p.contexts, B, G, t)
      /\ Lasts(p, q, A, B, t) /\ Lasts(q, p, B, A, t)
  BY DEF Shared
<1>2. /\ Fades(p, p2, t) /\ B2 = B /\ G2 = G
      /\ \/ p2.proc = p.proc /\ A2 = A /\ F2 = F
         \/ A = {} /\ A2 = {} /\ F2 = {}
  BY DEF Keeping, NoAnswers
<1>3. /\ q.proc # None => q.proc.id \in CtxId
      /\ \A i \in CtxId : p.contexts[i] # None => p.contexts[i].exp \in Nat
  BY DEF Peer, Procedure, Context
<1>4. q.proc # None => q.proc.exp \in Nat
  BY DEF Peer, Procedure
<1> HIDE DEF A, A2, B, B2, F, F2, G, G2
<1>5. Stands(p2.proc, q.contexts, A2, F2, t)
  BY <1>1, <1>2 DEF Stands
<1>6. Stands(q.proc, p2.contexts, B2, G2, t)
  BY <1>1, <1>2, <1>3, <1>4 DEF Stands, Fades
<1>7. \A i \in CtxId : Due(p.proc, A, i) => Due(p2.proc, A2, i)
  BY <1>2 DEF Due
<1>8. Lasts(p2, q, A2, B2, t)
  BY <1>1, <1>2, <1>7 DEF Lasts, Fades
<1>9. Lasts(q, p2, B2, A2, t)
  <2> SUFFICES ASSUME NEW i \in CtxId, q.contexts[i] # None, q.contexts[i].exp > t,
                      ~Due(p2.proc, A2, i), ~Due(q.proc, B2, i)
               PROVE  p2.contexts[i] # None /\ p2.contexts[i].exp = q.contexts[i].exp
    BY DEF Lasts
  <2>1. p.contexts[i] # None /\ p.contexts[i].exp = q.contexts[i].exp
    BY <1>1, <1>2, <1>7 DEF Lasts
  <2>2. ~(p.contexts[i].exp <= t)
    BY <1>3, <2>1
  <2> QED
    BY <1>2, <2>1, <2>2 DEF Fades
<1> QED
  BY <1>5, <1>6, <1>8, <1>9 DEF Shared, A, A2, B, B2, F, F2, G, G2

LEMMA SharedAnswering ==
  ASSUME NEW l, NEW p \in Peer, NEW p2 \in Peer, NEW q \in Peer,
         NEW bx, NEW bx2, NEW by, NEW by2, NEW t \in Nat,
         Answering(l, p, p2, q.proc, bx, bx2, by, by2, t), Shared(p, q, bx, by, t)
  PROVE  Shared(p2, q, bx2, by2, t)
<1> DEFINE A == Answers(bx, "OK")
           A2 == Answers(bx2, "OK")
           B == Answers(by, "OK")
           B2 == Answers(by2, "OK")
           F2 == Answers(bx2, "VERIFICATION_FAILED")
           G2 == Answers(by2, "VERIFICATION_FAILED")
           y == q.proc
<1>1. Lasts(p, q, A, B, t) /\ Lasts(q, p, B, A, t)
  BY DEF Shared
<1>2. /\ y # None /\ y \in Procedure /\ p2.proc = None
      /\ A = {} /\ A2 = {} /\ B = {} /\ F2 = {}
  BY NoneAssumption DEF Answering, NoAnswers
<1>3. PICK r \in Msg2 :
        /\ B2 = IF r.status = "OK" THEN {r} ELSE {}
        /\ G2 = IF r.status = "VERIFICATION_FAILED" THEN {r} ELSE {}
        /\ r.status = "VERIFICATION_FAILED" => y.exp <= t
        /\ IF r.status = "OK"
           THEN \E c \in Context :
                  /\ p2.contexts = [p.contexts EXCEPT ![y.id] = c]
                  /\ c.exp = y.exp /\ y.exp > t
           ELSE p2.contexts = p.contexts
  BY Zenon DEF Answering
<1>4. y.id \in CtxId /\ p.contexts \in [CtxId -> Context \cup {None}]
  BY <1>2 DEF Procedure, Peer
<1> HIDE DEF A, A2, B, B2, F2, G2, y
<1>5. Stands(p2.proc, q.contexts, A2, F2, t)
  BY <1>2 DEF Stands
<1>6. CASE r.status # "OK"
  <2>1. B2 = {} /\ p2.contexts = p.contexts
    BY <1>3, <1>6
  <2>2. Stands(y, p2.contexts, B2, G2, t)
    BY <1>2, <1>3, <2>1 DEF Stands
  <2>3. Lasts(p2, q, A2, B2, t) /\ Lasts(q, p2, B2, A2, t)
    BY <1>1, <1>2, <2>1 DEF Lasts, Due
  <2> QED
    BY <1>5, <2>2, <2>3 DEF Shared, A, A2, B, B2, F2, G2, y
<1>7. CASE r.status = "OK"
  <2>1. PICK c \in Context : /\ p2.contexts = [p.contexts EXCEPT ![y.id] = c]
                             /\ c.exp = y.exp /\ y.exp > t
    BY <1>3, <1>7
  <2>2. /\ B2 = {r} /\ G2 = {} /\ p2.contexts[y.id] = c /\ c # None
        /\ \A i \in CtxId : i # y.id => p2.contexts[i] = p.contexts[i]
    BY <1>3, <1>4, <1>7, <2>1, NoneAssumption
  <2>3. Stands(y, p2.contexts, B2, G2, t)
    BY <1>2, <2>1, <2>2 DEF Stands
  <2>4. Due(q.proc, B2, y.id)
    BY <1>2, <2>2 DEF Due, y
  <2>5. Lasts(p2, q, A2, B2, t) /\ Lasts(q, p2, B2, A2, t)
    <3>1. \A i \in CtxId : ~Due(p.proc, A, i) /\ ~Due(q.proc, B, i)
      BY <1>2 DEF Due
    <3> QED
      BY <1>1, <2>2, <2>4, <3>1 DEF Lasts
  <2> QED
    BY <1>5, <2>3, <2>5 DEF Shared, A, A2, B, B2, F2, G2, y
<1> QED
  BY <1>6, <1>7

LEMMA SharedAccepting ==
  ASSUME NEW l, NEW p \in Peer, NEW p2 \in Peer, NEW q \in Peer,
         NEW bx, NEW bx2, NEW by, NEW by2, NEW t \in Nat,
         Accepting(l, p, p2, bx, bx2, by, by2), Shared(p, q, bx, by, t)
  PROVE  Shared(p2, q, bx2, by2, t)
<1> DEFINE A == Answers(bx, "OK")
           A2 == Answers(bx2, "OK")
           B == Answers(by, "OK")
           B2 == Answers(by2, "OK")
           F2 == Answers(bx2, "VERIFICATION_FAILED")
           G2 == Answers(by2, "VERIFICATION_FAILED")
           x == p.proc
<1>1. /\ A # {} => /\ x # None /\ q.contexts[x.id] # None
                   /\ q.contexts[x.id].exp = x.exp /\ x.exp > t
      /\ Lasts(p, q, A, B, t) /\ Lasts(q, p, B, A, t)
  BY DEF Shared, Stands
<1>2. /\ x \in Procedure /\ p2.proc = None
      /\ A2 = {} /\ B = {} /\ B2 = {} /\ F2 = {} /\ G2 = {}
  BY DEF Accepting, NoAnswers
<1>3. PICK c \in Context : /\ p2.contexts = [p.contexts EXCEPT ![x.id] = c]
                           /\ c.exp = x.exp
  BY Zenon DEF Accepting
<1>4. A # {}
  BY Zenon DEF Accepting
<1>5. x.id \in CtxId /\ p.contexts \in [CtxId -> Context \cup {None}]
  BY <1>2 DEF Procedure, Peer
<1> HIDE DEF A, A2, B, B2, F2, G2
<1>6. /\ p2.contexts[x.id] = c /\ c # None
      /\ \A i \in CtxId : i # x.id => p2.contexts[i] = p.contexts[i]
  BY <1>3, <1>5, NoneAssumption
<1>7. \A i \in CtxId : i # x.id => ~Due(p.proc, A, i) /\ ~Due(q.proc, B, i)
  BY <1>2 DEF Due
<1>8. q.contexts[x.id] # None /\ q.contexts[x.id].exp = c.exp
  BY <1>1, <1>3, <1>4
<1> HIDE DEF x
<1>9. Stands(p2.proc, q.contexts, A2, F2, t) /\ Stands(q.proc, p2.contexts, B2, G2, t)
  BY <1>2 DEF Stands
<1>10. Lasts(p2, q, A2, B2, t)
  BY <1>1, <1>6, <1>7, <1>8 DEF Lasts
<1>11. Lasts(q, p2, B2, A2, t)
  BY <1>1, <1>6, <1>7, <1>8 DEF Lasts
<1> QED
  BY <1>9, <1>10, <1>11 DEF Shared, A2, B2, F2, G2

(* All nodes count the seconds from one start. *)
OneClock == \A m, n \in Node : Uptime[m] = Uptime[n]

SInv ==
  /\ KInv
  /\ \A l \in Link : Shared(peer[l], peer[Back(l)], inbox[l], inbox[Back(l)], Clock(l))

LEMMA EmptyShared ==
  ASSUME NEW p, NEW q, NEW bx, NEW by, NEW t, NoAnswers(bx), NoAnswers(by),
         Lasts(p, q, {}, {}, t), Lasts(q, p, {}, {}, t)
  PROVE  Shared(p, q, bx, by, t)
<1>1. \A x, there : Stands(x, there, {}, {}, t)
  BY DEF Stands
<1> QED
  BY <1>1 DEF Shared, NoAnswers

LEMMA SInvInit == Init => SInv
<1> SUFFICES ASSUME Init, NEW l \in Link
             PROVE  Shared(peer[l], peer[Back(l)], inbox[l], inbox[Back(l)], Clock(l))
  BY KInvInit DEF SInv
<1>1. /\ peer[l] = Absent /\ peer[Back(l)] = Absent
      /\ Len(inbox[l]) = 0 /\ Len(inbox[Back(l)]) = 0
  BY BackIsLink DEF Init
<1>2. NoAnswers(inbox[l]) /\ NoAnswers(inbox[Back(l)])
  BY <1>1, AnswersEmpty
<1>3. Lasts(Absent, Absent, {}, {}, Clock(l))
  BY DEF Absent, Lasts
<1> QED
  BY <1>1, <1>2, <1>3, EmptyShared

LEMMA SharedMoves ==
  ASSUME NEW l, NEW p \in Peer, NEW p2 \in Peer, NEW q \in Peer,
         NEW bx, NEW bx2, NEW by, NEW by2, NEW t \in Nat,
         Moves(l, p, p2, q.proc, bx, bx2, by, by2, t), Shared(p, q, bx, by, t)
  PROVE  Shared(p2, q, bx2, by2, t)
BY SharedKeeping, SharedAnswering, SharedAccepting, Zenon DEF Moves

LEMMA SInvStep ==
  ASSUME SInv, Reliable, OneClock, [Next]_vars
  PROVE  SInv'
<1>1. KInv /\ KInv' /\ FInv
  BY KInvStep DEF SInv, KInv
<1>2. /\ peer \in [Link -> Peer] /\ peer' \in [Link -> Peer]
      /\ now \in Nat /\ \A l \in Link : Clock(l) \in Nat
  <2>1. peer \in [Link -> Peer] /\ peer' \in [Link -> Peer] /\ now \in Nat
    BY <1>1 DEF KInv, FInv, IInv, TypeOK
  <2> QED
    BY <2>1, ClockType
<1>3. ASSUME NEW l \in Link, StepAt(l) PROVE SInv'
  <2> DEFINE b == Back(l)
             t == Clock(l)
  <2>1. b \in Link /\ b # l /\ Back(b) = l /\ peer'[b] = peer[b]
    BY <1>3, BackIsLink DEF StepAt
  <2>2. Moves(l, peer[l], peer'[l], peer[b].proc, inbox[l], inbox'[l],
              inbox[b], inbox'[b], t)
    BY <1>3 DEF StepAt
  <2>3. Shared(peer[l], peer[b], inbox[l], inbox[b], t)
    BY DEF SInv
  <2>4. peer[l] \in Peer /\ peer'[l] \in Peer /\ peer[b] \in Peer /\ t \in Nat
    BY <1>2, <2>1
  <2>5. Clock(b) = t
    BY BackIsLink DEF OneClock, Clock, Link
  <2> HIDE DEF t
  <2>6. Shared(peer'[l], peer[b], inbox'[l], inbox'[b], t)
    BY <2>2, <2>3, <2>4, SharedMoves
  <2>7. Shared(peer'[l], peer'[b], inbox'[l], inbox'[b], t)
    BY <2>1, <2>6
  <2>8. Shared(peer'[b], peer'[l], inbox'[b], inbox'[l], t)
    BY <2>7 DEF Shared
  <2>9. ASSUME NEW k \in Link, k # l, k # b
        PROVE  Shared(peer'[k], peer'[Back(k)], inbox'[k], inbox'[Back(k)], Clock(k))
    <3>1. Back(k) # l /\ Back(k) # b /\ Back(k) \in Link
      BY <2>9, OtherLinks
    <3>2. /\ peer'[k] = peer[k] /\ peer'[Back(k)] = peer[Back(k)]
          /\ inbox'[k] = inbox[k] /\ inbox'[Back(k)] = inbox[Back(k)]
      BY <1>3, <2>9, <3>1 DEF StepAt
    <3> QED
      BY <3>2 DEF SInv
  <2>10. ASSUME NEW k \in Link
         PROVE  Shared(peer'[k], peer'[Back(k)], inbox'[k], inbox'[Back(k)], Clock(k))
    <3>1. CASE k = l
      BY <2>7, <3>1 DEF t
    <3>2. CASE k = b
      BY <2>1, <2>5, <2>8, <3>2
    <3> QED
      BY <2>9, <3>1, <3>2
  <2>11. \A k \in Link : Clock(k)' = Clock(k)
    BY <1>3 DEF StepAt, Clock
  <2> QED
    BY <1>1, <2>10, <2>11 DEF SInv, Back
<1>4. CASE Passes
  <2>1. ASSUME NEW l \in Link
        PROVE  Shared(peer'[l], peer'[Back(l)], inbox'[l], inbox'[Back(l)], Clock(l)')
    <3> DEFINE p == peer[l]
               q == peer[Back(l)]
               t == Clock(l)
    <3>1. /\ peer' = peer /\ inbox' = inbox
          /\ Len(inbox[l]) = 0 /\ Len(inbox[Back(l)]) = 0
      BY <1>4, BackIsLink DEF Passes
    <3>2. NoAnswers(inbox[l]) /\ NoAnswers(inbox[Back(l)])
      BY <3>1, AnswersEmpty
    <3>3. Lasts(p, q, {}, {}, t) /\ Lasts(q, p, {}, {}, t)
      BY <3>2 DEF SInv, Shared, NoAnswers
    <3>4. Clock(l)' = t + 1 /\ t \in Nat
      <4>1. now \in Nat /\ Uptime[l[1]] \in Nat
        BY <1>2, ConstantsAssumption DEF Link
      <4> QED
        BY <1>4, <4>1 DEF Passes, Clock
    <3>5. /\ p \in Peer /\ q \in Peer
      BY <1>2, BackIsLink
    <3>6. \A i \in CtxId : /\ p.contexts[i] # None => p.contexts[i].exp \in Nat
                           /\ q.contexts[i] # None => q.contexts[i].exp \in Nat
      BY <3>5 DEF Peer, Context
    <3> HIDE DEF p, q, t
    <3>7. Lasts(p, q, {}, {}, t + 1) /\ Lasts(q, p, {}, {}, t + 1)
      BY <3>3, <3>4, <3>6 DEF Lasts
    <3>8. Shared(p, q, inbox[l], inbox[Back(l)], t + 1)
      BY <3>2, <3>7, EmptyShared
    <3> QED
      BY <3>1, <3>4, <3>8 DEF p, q
  <2>2. \A k \in Link : Back(k)' = Back(k)
    BY DEF Back
  <2> QED
    BY <1>1, <2>1 DEF SInv, Back
<1>5. CASE UNCHANGED <<now, peer, inbox>>
  BY <1>1, <1>5 DEF SInv, Back, Clock
<1> QED
  BY <1>1, <1>3, <1>4, <1>5, NextSteps DEF Steps

LEMMA SInvInvariant ==
  ASSUME Reliable, OneClock
  PROVE  Spec => []SInv
<1>1. SInv /\ [Next]_vars => SInv'
  BY SInvStep
<1> QED
  BY <1>1, SInvInit, PTL DEF Spec

(* Under the same conditions, and with clocks that agree: whatever context *)
(* peer_select_sec_ctx picks for the next frame, the peer holds it, with   *)
(* the same key.                                                           *)
THEOREM SelectionIsShared ==
  ASSUME Reliable, OneClock
  PROVE  Spec => []SelectedContextShared
<1>1. SInv => SelectedContextShared
  <2> SUFFICES ASSUME SInv, NEW l \in Link, inbox[l] = <<>>, inbox[Back(l)] = <<>>,
                      NEW i \in Selectable(peer[l], Clock(l))
               PROVE  SameKey(l, i)
    BY DEF SelectedContextShared
  <2> DEFINE p == peer[l]
             q == peer[Back(l)]
             t == Clock(l)
  <2>1. p \in Peer /\ t \in Nat
    BY FInvTypes DEF SInv, KInv
  <2>2. Answers(inbox[l], "OK") = {} /\ Answers(inbox[Back(l)], "OK") = {}
    <3>1. Len(inbox[l]) = 0 /\ Len(inbox[Back(l)]) = 0
      OBVIOUS
    <3> QED
      BY <3>1, AnswersEmpty DEF NoAnswers
  <2>3. Agreed(p, q, {}, {}) /\ Lasts(p, q, {}, {}, t)
    <3>1. Agreed(p, q, Answers(inbox[l], "OK"), Answers(inbox[Back(l)], "OK"))
      BY DEF SInv, KInv, OneKey
    <3>2. Lasts(p, q, Answers(inbox[l], "OK"), Answers(inbox[Back(l)], "OK"), t)
      BY DEF SInv, Shared
    <3> QED
      BY <2>2, <3>1, <3>2
  <2>4. i \in Held(p) /\ (Usable(p.contexts[i], t) \/ p.contexts[i].exp > t)
    BY DEF Selectable
  <2> HIDE DEF p, q, t
  <2>5. i \in CtxId /\ p.contexts[i] # None /\ p.contexts[i] \in Context
    BY <2>1, <2>4 DEF Held, Peer
  <2>6. p.contexts[i].exp > t
    <3>1. p.contexts[i].exp \in Nat /\ Grace \in Nat
      BY <2>5, ConstantsAssumption DEF Context
    <3> QED
      BY <2>1, <2>4, <3>1 DEF Usable
  <2>7. q.contexts[i] # None /\ p.contexts[i].key = q.contexts[i].key
    BY <2>3, <2>5, <2>6 DEF Agreed, Lasts, Due
  <2> QED
    BY <2>7 DEF SameKey, p, q
<1> QED
  BY <1>1, SInvInvariant, PTL

ForgetsExpired ==
  \A l \in known \ known' : peer[l].proc # None => peer[l].proc.exp <= Clock(l)

(* With nobody to remove it, a public key is forgotten only when the peer  *)
(* refuses a handshake that has expired: VERIFICATION_FAILED never meets a *)
(* procedure that still could succeed.                                     *)
THEOREM KeysForgottenWhenExpired ==
  ASSUME Reliable, OneClock, Environment = {}
  PROVE  Spec => KeyForgottenOnlyWhenExpired
<1>1. SInv /\ [Next]_vars => [ForgetsExpired]_vars
  <2> SUFFICES ASSUME SInv, [Next]_vars, NEW l \in known \ known', peer[l].proc # None
               PROVE  peer[l].proc.exp <= Clock(l)
    BY DEF ForgetsExpired
  <2>1. FInv /\ l \in Link
    BY DEF SInv, KInv, FInv, IInv, TypeOK
  <2>2. PICK k \in Link : \E j \in 1 .. Len(inbox[k]) : Receive(k, j)
    <3>1. ~(UNCHANGED known)
      OBVIOUS
    <3>2. ~\E k \in Link : AddPublicKey(k) \/ RemPublicKey(k)
      BY DEF AddPublicKey, RemPublicKey
    <3>3. ~\E n \in Node : Restart(n)
      BY DEF Restart
    <3> QED
      BY <3>1, <3>2, <3>3, Zenon
         DEF Next, vars, Tick, HandleBeacon, SendWithoutContext, TransactionTimeout,
             CheckActivity, ContextTimer, Lose, Duplicate
  <2>3. PICK j \in 1 .. Len(inbox[k]) : Receive(k, j)
    BY <2>2
  <2>4. k = l /\ inbox[l][j].type = "msg2" /\ inbox[l][j].status = "VERIFICATION_FAILED"
    BY <2>3 DEF Receive
  <2>5. inbox[l][j] \in Answers(inbox[l], "VERIFICATION_FAILED")
    BY <2>3, <2>4 DEF Answers
  <2> QED
    BY <2>1, <2>5 DEF SInv, Shared, Stands
<1> QED
  BY <1>1, SInvInvariant, PTL DEF Spec, KeyForgottenOnlyWhenExpired, ForgetsExpired
=============================================================================
