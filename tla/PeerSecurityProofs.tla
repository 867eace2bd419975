------------------------- MODULE PeerSecurityProofs -------------------------
(***************************************************************************)
(* The books a node keeps about a peer are right in every reachable state, *)
(* whatever the transport, the clocks, the operator and restarts do and    *)
(* for every number of nodes, contexts, transaction ids and algorithm      *)
(* pairs.  The argument is per handler: a handler that is given a sound    *)
(* peer record returns a sound one.                                        *)
(***************************************************************************)
EXTENDS PeerSecurity, FiniteSetTheorems, SequenceTheorems, TLAPS

-----------------------------------------------------------------------------
(* Least and greatest elements.                                            *)

(* A non-empty set of naturals has a least element. *)
LEMMA LeastExists ==
  ASSUME NEW S, S \subseteq Nat, S # {}
  PROVE  \E x \in S : \A y \in S : x <= y
<1> DEFINE R == OpToRel(<, Nat)
<1>1. PICK x \in S : \A y \in S : <<y, x>> \notin R
  BY NatLessThanWellFounded, WFMin, Zenon
<1>2. \A y \in S : x <= y
  <2> SUFFICES ASSUME NEW y \in S, ~(x <= y) PROVE FALSE
    OBVIOUS
  <2>1. <<y, x>> \in R
    BY y < x, x \in Nat, y \in Nat DEF OpToRel
  <2> QED
    BY <1>1, <2>1
<1> QED
  BY <1>2

LEMMA LeastIsMember ==
  ASSUME NEW S, S \subseteq Nat, S # {}
  PROVE  Least(S) \in S
BY LeastExists DEF Least

(* A non-empty set of naturals below a bound has a greatest element. *)
LEMMA GreatestIsMember ==
  ASSUME NEW n \in Nat, NEW S, S \subseteq 1 .. n, S # {}
  PROVE  Greatest(S) \in S
<1> DEFINE T == {n - x : x \in S}
<1>1. \A x \in S : x \in Nat /\ n - x \in Nat
  OBVIOUS
<1>2. PICK m \in T : \A k \in T : m <= k
  <2>1. T \subseteq Nat
    BY <1>1
  <2>2. T # {}
    OBVIOUS
  <2> HIDE DEF T
  <2> QED
    BY <2>1, <2>2, LeastExists
<1>3. PICK x \in S : m = n - x
  OBVIOUS
<1>4. \A y \in S : y <= x
  <2> SUFFICES ASSUME NEW y \in S PROVE y <= x
    OBVIOUS
  <2>1. n - x <= n - y
    BY <1>2, <1>3
  <2> QED
    BY <1>1, <2>1
<1> QED
  BY <1>4 DEF Greatest

-----------------------------------------------------------------------------
(* The choices of a free context id and a free creation id.                *)

LEMMA NextSecCtxIdType ==
  ASSUME NEW p \in Peer
  PROVE  NextSecCtxId(p) \in CtxId
<1>1. CASE Held(p) = CtxId
  BY <1>1, ConstantsAssumption DEF NextSecCtxId, CtxId
<1>2. CASE Held(p) # CtxId
  <2>1. CtxId \ Held(p) \subseteq Nat /\ CtxId \ Held(p) # {}
    BY <1>2 DEF CtxId, Held
  <2> QED
    BY <1>2, <2>1, LeastIsMember DEF NextSecCtxId
<1> QED
  BY <1>1, <1>2

(* The id found is not in use: there are more candidates than contexts and *)
(* procedures together.                                                    *)
LEMMA NextCreationIdFresh ==
  ASSUME NEW p \in Peer
  PROVE  /\ NextCreationId(p) \in Nat
         /\ NextCreationId(p) \notin UsedCreationIds(p)
<1> DEFINE S == 0 .. NumCtx + 1
           T == 0 .. NumCtx
<1>1. S \ UsedCreationIds(p) # {}
  <2> SUFFICES ASSUME S \subseteq UsedCreationIds(p) PROVE FALSE
    OBVIOUS
  <2> DEFINE user(k) == IF p.proc # None /\ k = p.proc.cid THEN 0
                        ELSE CHOOSE i \in Held(p) : p.contexts[i].cid = k
             f == [k \in S |-> user(k)]
  <2>1. \A k \in S : user(k) # 0 =>
             user(k) \in Held(p) /\ p.contexts[user(k)].cid = k
    BY DEF UsedCreationIds
  <2>2. \A k \in S : user(k) = 0 => p.proc # None /\ k = p.proc.cid
    <3> SUFFICES ASSUME NEW k \in S, ~(p.proc # None /\ k = p.proc.cid)
                 PROVE  user(k) # 0
      OBVIOUS
    <3>1. user(k) \in Held(p)
      BY DEF UsedCreationIds
    <3>2. user(k) \in 1 .. NumCtx
      BY <3>1 DEF Held, CtxId
    <3> HIDE DEF user
    <3> QED
      BY <3>2
  <2>3. f \in [S -> T]
    <3>1. \A k \in S : user(k) # 0 => user(k) \in 1 .. NumCtx
      BY <2>1 DEF Held, CtxId
    <3> HIDE DEF user
    <3>2. \A k \in S : user(k) \in T
      BY <3>1, ConstantsAssumption
    <3> QED
      BY <3>2
  <2>4. IsFiniteSet(S) /\ IsFiniteSet(T) /\ Cardinality(T) < Cardinality(S)
    BY FS_Interval, ConstantsAssumption
  <2>5. PICK x, y \in S : x # y /\ f[x] = f[y]
    <3> HIDE DEF S, T, f
    <3> QED
      BY <2>3, <2>4, FS_PigeonHole
  <2> QED
    BY <2>1, <2>2, <2>5
<1>2. S \subseteq Nat
  BY ConstantsAssumption
<1> QED
  BY <1>1, <1>2, LeastIsMember DEF NextCreationId

-----------------------------------------------------------------------------
(* Sound records and sound results of handlers.                            *)

(* A peer the node has no entry for has no contexts. *)
AbsentIsEmpty(p) == ~p.present => Held(p) = {}

Books(p) == /\ UniqueCreationIds(p) /\ OneTimerPerContext(p)
            /\ CurrentIsProcedure(p) /\ AbsentIsEmpty(p)

Sound(p) == p \in Peer /\ Books(p)

(* Every context of p is still a context, perhaps a replaced one, of q,    *)
(* and the entry is neither made nor erased.                               *)
Keeps(p, q) ==
  /\ q.present = p.present
  /\ \A i \in CtxId : p.contexts[i] # None => q.contexts[i] # None

SoundResult(r, p) ==
  /\ Sound(r.peer)
  /\ r.out \in Message \cup {None}
  /\ r.ephs \in 0 .. 1
  /\ Keeps(p, r.peer)

LEMMA QuietSound ==
  ASSUME NEW p, NEW q, Sound(q), Keeps(p, q)
  PROVE  SoundResult(Quiet(q), p)
BY DEF SoundResult, Quiet, Result

LEMMA QuietSelf ==
  ASSUME NEW p, Sound(p)
  PROVE  SoundResult(Quiet(p), p)
BY QuietSound DEF Keeps

LEMMA KeepsTransitive ==
  ASSUME NEW p, NEW q, NEW r, Keeps(p, q), SoundResult(r, q)
  PROVE  SoundResult(r, p)
BY DEF SoundResult, Keeps

(* The books speak of five fields only. *)
LEMMA SameBooks ==
  ASSUME NEW p, NEW q, Sound(p), q \in Peer,
         q.contexts = p.contexts, q.timers = p.timers,
         q.proc = p.proc, q.current = p.current, q.present = p.present
  PROVE  Sound(q) /\ Keeps(p, q)
BY DEF Sound, Books, Keeps, UniqueCreationIds, OneTimerPerContext,
       CurrentIsProcedure, AbsentIsEmpty, Held

LEMMA AbsentSound ==
  /\ Absent \in Peer
  /\ \A p \in Peer : p.contexts = Absent.contexts /\ p.timers = {}
                       /\ p.proc = None /\ p.current = None => Sound(p)
<1>1. Absent \in Peer
  BY ConstantsAssumption DEF Absent, Peer, Trid
<1>2. ASSUME NEW p \in Peer, p.contexts = Absent.contexts, p.timers = {},
             p.proc = None, p.current = None
      PROVE  Sound(p)
  <2>1. Held(p) = {}
    BY <1>2 DEF Held, Absent
  <2> QED
    BY <1>2, <2>1 DEF Sound, Books, UniqueCreationIds, OneTimerPerContext,
                      CurrentIsProcedure, AbsentIsEmpty
<1> QED
  BY <1>1, <1>2

LEMMA AbortSenderSound ==
  ASSUME NEW p, Sound(p)
  PROVE  /\ Sound(AbortSender(p)) /\ Keeps(p, AbortSender(p))
         /\ AbortSender(p).proc = None
<1> DEFINE q == AbortSender(p)
<1>1. q \in Peer /\ q.proc = None /\ q.current = None
      /\ q.contexts = p.contexts /\ q.timers = p.timers /\ q.present = p.present
  BY DEF AbortSender, Sound, Peer
<1> HIDE DEF q
<1>2. Books(q)
  BY <1>1 DEF Sound, Books, UniqueCreationIds, OneTimerPerContext,
              CurrentIsProcedure, AbsentIsEmpty, Held
<1>3. Keeps(p, q)
  BY <1>1 DEF Keeps
<1> QED
  BY <1>1, <1>2, <1>3 DEF Sound, q

LEMMA CompleteTransactionSound ==
  ASSUME NEW p, Sound(p), NEW id
  PROVE  Sound(CompleteTransaction(p, id)) /\ Keeps(p, CompleteTransaction(p, id))
BY AbortSenderSound DEF CompleteTransaction, Keeps

(* Bump and ArmTransactionTimer stay within the types. *)
LEMMA CountersTyped ==
  ASSUME NEW p \in Peer
  PROVE  /\ Bump(p.trid) \in Trid
         /\ (p.trid + 1) % Trids \in Trid
         /\ ArmTransactionTimer(p) \in Peer
<1>1. p.trid \in Nat /\ Trids \in Nat /\ Trids > 0
  BY ConstantsAssumption DEF Peer, Trid
<1>2. Bump(p.trid) \in Trid /\ (p.trid + 1) % Trids \in Trid
  BY <1>1 DEF Bump, Trid
<1>3. ArmTransactionTimer(p) \in Peer
  <2> DEFINE orphans == IF p.armed THEN p.orphans + 1 ELSE p.orphans
  <2>1. orphans \in Nat
    <3>1. p.orphans \in Nat /\ p.orphans + 1 \in Nat
      BY DEF Peer
    <3> QED
      BY <3>1, Zenon
  <2>2. ArmTransactionTimer(p) = [p EXCEPT !.orphans = orphans, !.armed = TRUE]
    BY Zenon DEF ArmTransactionTimer
  <2> HIDE DEF orphans
  <2> QED
    BY <2>1, <2>2 DEF Peer
<1> QED
  BY <1>2, <1>3

-----------------------------------------------------------------------------
(* Installing a context under id: the creation id must be new among the    *)
(* other contexts, and different from that of a procedure for another id.  *)
LEMMA InstallSound ==
  ASSUME NEW p, Sound(p), p.present, NEW t \in Nat, NEW id \in CtxId, NEW cid \in Nat,
         NEW key \in Key, NEW pair \in Pair, NEW exp \in Nat,
         \A i \in Held(p) : p.contexts[i].cid = cid => i = id,
         p.proc # None /\ p.proc.cid = cid => p.proc.id = id
  PROVE  /\ Sound(Install(p, t, id, cid, key, pair, exp))
         /\ Keeps(p, Install(p, t, id, cid, key, pair, exp))
         /\ Install(p, t, id, cid, key, pair, exp).proc = p.proc
<1> DEFINE at == t + RenewalWait(exp, t)
           timer == [id |-> id, cid |-> cid, kind |-> "renew", at |-> at]
           cancelled == IF p.contexts[id] = None THEN {} ELSE {p.contexts[id].timer}
           context == [cid |-> cid, key |-> key, pair |-> pair, exp |-> exp,
                       expiring |-> FALSE, timer |-> timer]
           q == Install(p, t, id, cid, key, pair, exp)
<1>1. q = [p EXCEPT !.contexts = [@ EXCEPT ![id] = context],
                    !.timers = (@ \ cancelled) \cup {timer},
                    !.supported = @ \cup {pair}]
  BY DEF Install
<1>2. at \in Nat
  BY ConstantsAssumption DEF RenewalWait
<1> HIDE DEF at
<1>3. timer \in Timer
  BY <1>2 DEF Timer
<1>4. timer.id = id /\ timer.cid = cid /\ timer.kind = "renew"
  OBVIOUS
<1> HIDE DEF timer
<1>5. context \in Context
  BY <1>3 DEF Context
<1>6. context # None
  BY <1>5, NoneAssumption
<1>7. context.cid = cid /\ context.timer = timer /\ context.expiring = FALSE
  OBVIOUS
<1> HIDE DEF context
<1>8. /\ q \in Peer /\ q.proc = p.proc /\ q.current = p.current
      /\ q.present = p.present
      /\ q.contexts = [p.contexts EXCEPT ![id] = context]
      /\ q.timers = (p.timers \ cancelled) \cup {timer}
  <2>1. p \in Peer
    BY DEF Sound
  <2> HIDE DEF q, cancelled
  <2> QED
    BY <1>1, <1>3, <1>5, <2>1 DEF Peer
<1> HIDE DEF q
<1>9. /\ q.contexts[id] = context
      /\ \A i \in CtxId : i # id => q.contexts[i] = p.contexts[i]
  BY <1>8 DEF Sound, Peer
<1>10. Held(q) = Held(p) \cup {id}
  BY <1>6, <1>9 DEF Held
<1>11. UniqueCreationIds(q)
  BY <1>7, <1>8, <1>9, <1>10 DEF UniqueCreationIds, Sound, Books, Held
<1>12. OneTimerPerContext(q)
  <2>1. OneTimerPerContext(p)
    BY DEF Sound, Books
  <2>2. p.timers \ cancelled = {p.contexts[i].timer : i \in Held(p) \ {id}}
    <3>1. CASE p.contexts[id] = None
      BY <2>1, <3>1 DEF OneTimerPerContext, Held
    <3>2. CASE p.contexts[id] # None
      <4>1. id \in Held(p)
        BY <3>2 DEF Held
      <4>2. \A i \in Held(p) : p.contexts[i].timer.id = i
        BY <2>1 DEF OneTimerPerContext
      <4> QED
        BY <2>1, <3>2, <4>1, <4>2 DEF OneTimerPerContext
    <3> QED
      BY <3>1, <3>2
  <2>3. q.timers = {q.contexts[i].timer : i \in Held(q)}
    <3>1. \A i \in Held(p) \ {id} : q.contexts[i] = p.contexts[i]
      BY <1>9 DEF Held
    <3> HIDE DEF cancelled
    <3> QED
      BY <1>7, <1>8, <1>9, <1>10, <2>2, <3>1
  <2> QED
    BY <1>4, <1>7, <1>9, <1>10, <2>1, <2>3 DEF OneTimerPerContext, Held
<1>13. CurrentIsProcedure(q)
  BY <1>8 DEF Sound, Books, CurrentIsProcedure
<1>14. Keeps(p, q) /\ AbsentIsEmpty(q)
  BY <1>6, <1>8, <1>9 DEF Keeps, AbsentIsEmpty
<1> QED
  BY <1>8, <1>11, <1>12, <1>13, <1>14 DEF Sound, Books, q

-----------------------------------------------------------------------------
(* The procedure.                                                          *)

LEMMA Msg1OfType ==
  ASSUME NEW pr \in Procedure
  PROVE  Msg1Of(pr) \in Message
BY DEF Msg1Of, Procedure, Message, Msg1

LEMMA StartSecuritySound ==
  ASSUME NEW p, Sound(p), NEW t \in Nat, NEW force \in BOOLEAN,
         NEW prio \in Nat, NEW eph \in Nat
  PROVE  SoundResult(StartSecurity(p, t, force, prio, eph), p)
<1> DEFINE blocked == \/ ~p.key
                      \/ ~force /\ \E i \in Held(p) : Usable(p.contexts[i], t)
                      \/ p.proc # None
           mid   == (p.trid + 1) % Trids
           pairs == IF p.supported # {} THEN p.supported ELSE p.test
           pair  == Greatest(pairs)
           proc  == [id |-> NextSecCtxId(p), cid |-> NextCreationId(p),
                     mid |-> mid, eph |-> eph, exp |-> t + Timeout,
                     prio |-> prio, pair |-> pair, retries |-> 1]
           bumped == [p EXCEPT !.trid = Bump(@)]
           armed  == ArmTransactionTimer(bumped)
           test   == IF p.supported = {} THEN armed.test \ {pair} ELSE armed.test
<1>1. p \in Peer
  BY DEF Sound
<1>2. bumped \in Peer /\ Sound(bumped) /\ Keeps(p, bumped)
  <2>1. bumped \in Peer
    BY <1>1, CountersTyped DEF Peer
  <2>2. /\ bumped.contexts = p.contexts /\ bumped.timers = p.timers
        /\ bumped.proc = p.proc /\ bumped.current = p.current
        /\ bumped.present = p.present
    BY <1>1 DEF Peer
  <2> HIDE DEF bumped
  <2> QED
    BY <2>1, <2>2, SameBooks
<1>3. CASE blocked
  <2>1. StartSecurity(p, t, force, prio, eph) = Quiet(p)
    BY <1>3 DEF StartSecurity
  <2> QED
    BY <2>1, QuietSelf
<1>4. CASE ~blocked /\ pairs = {}
  <2> DEFINE q == ArmTransactionTimer(AbortSender(bumped))
  <2>1. StartSecurity(p, t, force, prio, eph) = Result(q, None, 1)
    BY <1>4 DEF StartSecurity
  <2>2. Sound(AbortSender(bumped)) /\ Keeps(bumped, AbortSender(bumped))
    BY <1>2, AbortSenderSound
  <2> DEFINE b == AbortSender(bumped)
  <2> HIDE DEF bumped, b
  <2>3. ArmTransactionTimer(b) \in Peer
    BY <2>2, CountersTyped DEF Sound, b
  <2>4. LET a == ArmTransactionTimer(b) IN
        /\ a.contexts = b.contexts /\ a.timers = b.timers
        /\ a.proc = b.proc /\ a.current = b.current /\ a.present = b.present
    BY <2>2, b \in Peer DEF ArmTransactionTimer, Peer, Sound, b
  <2>5. Sound(ArmTransactionTimer(b)) /\ Keeps(b, ArmTransactionTimer(b))
    BY <2>2, <2>3, <2>4, SameBooks DEF b
  <2>6. Keeps(p, q)
    BY <1>2, <2>2, <2>5 DEF Keeps, b
  <2> QED
    BY <2>1, <2>5, <2>6 DEF SoundResult, Result, b
<1>5. CASE ~blocked /\ pairs # {}
  <2> DEFINE q == [armed EXCEPT !.proc = proc, !.current = mid, !.test = test]
  <2>1. StartSecurity(p, t, force, prio, eph) = Result(q, Msg1Of(proc), 1)
    BY <1>5, Zenon DEF StartSecurity
  <2>2. pair \in Pair
    <3>1. pairs \subseteq 1 .. NumPairs
      BY <1>1 DEF Peer, Pair
    <3> QED
      BY <1>5, <3>1, GreatestIsMember, ConstantsAssumption DEF Pair
  <2> HIDE DEF pair
  <2>3. mid \in Trid /\ NextSecCtxId(p) \in CtxId
        /\ NextCreationId(p) \in Nat /\ NextCreationId(p) \notin UsedCreationIds(p)
    BY <1>1, CountersTyped, NextSecCtxIdType, NextCreationIdFresh
  <2> HIDE DEF mid
  <2>4. proc \in Procedure
    BY <2>2, <2>3, ConstantsAssumption DEF Procedure
  <2>5. proc.mid = mid /\ proc.cid = NextCreationId(p)
    OBVIOUS
  <2> HIDE DEF proc
  <2>6. proc # None /\ mid # None
    BY <2>3, <2>4, NoneAssumption
  <2>7. armed \in Peer /\ armed.contexts = p.contexts /\ armed.timers = p.timers
        /\ armed.present = p.present
    <3>1. bumped.contexts = p.contexts /\ bumped.timers = p.timers
          /\ bumped.present = p.present
      BY <1>1 DEF Peer
    <3> HIDE DEF bumped
    <3>2. armed \in Peer
      BY <1>2, CountersTyped
    <3>3. armed.contexts = bumped.contexts /\ armed.timers = bumped.timers
          /\ armed.present = bumped.present
      BY <1>2 DEF ArmTransactionTimer, Peer
    <3> QED
      BY <3>1, <3>2, <3>3
  <2> HIDE DEF armed
  <2>8. test \in SUBSET Pair
    BY <2>7 DEF Peer
  <2> HIDE DEF test
  <2>9. /\ q \in Peer /\ q.contexts = p.contexts /\ q.timers = p.timers
        /\ q.proc = proc /\ q.current = mid /\ q.present = p.present
    BY <2>3, <2>4, <2>7, <2>8 DEF Peer
  <2> HIDE DEF q
  <2>10. Held(q) = Held(p)
    BY <2>9 DEF Held
  <2>11. UniqueCreationIds(q)
    BY <2>3, <2>5, <2>9, <2>10
       DEF UniqueCreationIds, UsedCreationIds, Sound, Books
  <2>12. OneTimerPerContext(q)
    BY <2>9, <2>10 DEF OneTimerPerContext, Sound, Books
  <2>13. CurrentIsProcedure(q)
    BY <2>5, <2>6, <2>9 DEF CurrentIsProcedure
  <2>14. Sound(q) /\ Keeps(p, q)
    BY <2>9, <2>10, <2>11, <2>12, <2>13 DEF Sound, Books, Keeps, AbsentIsEmpty
  <2> QED
    BY <2>1, <2>4, <2>14, Msg1OfType DEF SoundResult, Result
<1> QED
  BY <1>3, <1>4, <1>5

LEMMA ExpireTransactionSound ==
  ASSUME NEW p, Sound(p)
  PROVE  SoundResult(ExpireTransaction(p), p)
<1> DEFINE q == [p EXCEPT !.proc.retries = @ + 1]
<1>1. CASE \/ p.proc = None
           \/ p.proc # None /\ p.proc.mid = p.current /\ p.proc.retries >= 3
  <2>1. ExpireTransaction(p) = Quiet(CompleteTransaction(p, 0))
    BY <1>1 DEF ExpireTransaction
  <2> QED
    BY <2>1, CompleteTransactionSound, QuietSound
<1>2. CASE p.proc # None /\ p.proc.mid # p.current
  BY <1>2, QuietSelf DEF ExpireTransaction
<1>3. CASE p.proc # None /\ p.proc.mid = p.current /\ ~(p.proc.retries >= 3)
  <2>1. ExpireTransaction(p) = Result(q, Msg1Of(p.proc), 0)
    BY <1>3 DEF ExpireTransaction
  <2>2. p \in Peer /\ p.proc \in Procedure
    BY <1>3 DEF Sound, Peer
  <2>3. [p.proc EXCEPT !.retries = @ + 1] \in Procedure
    BY <2>2 DEF Procedure
  <2> DEFINE proc == [p.proc EXCEPT !.retries = @ + 1]
  <2>4. /\ proc \in Procedure /\ proc.mid = p.proc.mid
        /\ proc.cid = p.proc.cid /\ proc.id = p.proc.id
    BY <2>2, <2>3 DEF Procedure
  <2>5. q = [p EXCEPT !.proc = proc]
    OBVIOUS
  <2> HIDE DEF proc, q
  <2>6. /\ q \in Peer /\ q.proc = proc /\ q.current = p.current
        /\ q.contexts = p.contexts /\ q.timers = p.timers /\ q.present = p.present
    BY <2>2, <2>4, <2>5 DEF Peer
  <2>7. Held(q) = Held(p) /\ proc # None
    BY <2>4, <2>6, NoneAssumption DEF Held
  <2>8. Books(q)
    BY <1>3, <2>4, <2>6, <2>7 DEF Sound, Books, UniqueCreationIds,
                              OneTimerPerContext, CurrentIsProcedure, AbsentIsEmpty
  <2> QED
    BY <2>1, <2>2, <2>6, <2>8, Msg1OfType DEF SoundResult, Result, Sound, Keeps
<1> QED
  BY <1>1, <1>2, <1>3

-----------------------------------------------------------------------------
(* The message handlers.                                                   *)

LEMMA ClockType ==
  ASSUME NEW l \in Link, now \in Nat
  PROVE  Clock(l) \in Nat
BY ConstantsAssumption DEF Clock, Link

LEMMA TouchSound ==
  ASSUME NEW p, Sound(p), NEW l, NEW t \in Nat
  PROVE  /\ Sound(Touch(p, l, t)) /\ Keeps(p, Touch(p, l, t))
         /\ Touch(p, l, t).proc = p.proc
<1> DEFINE key == p.key \/ l \in known
<1>1. Touch(p, l, t) = [p EXCEPT !.key = key, !.active = t]
  BY Zenon DEF Touch
<1>2. key \in BOOLEAN
  OBVIOUS
<1> HIDE DEF key
<1>3. LET q == [p EXCEPT !.key = key, !.active = t] IN
      /\ q \in Peer /\ q.contexts = p.contexts /\ q.timers = p.timers
      /\ q.proc = p.proc /\ q.current = p.current /\ q.present = p.present
  BY <1>2 DEF Sound, Peer
<1> QED
  BY <1>1, <1>3, SameBooks

LEMMA ReplySound ==
  ASSUME NEW p, NEW q, Sound(q), Keeps(p, q), NEW m \in Msg1, NEW eph \in Nat,
         NEW status \in {"OK", "UNSUPPORTED", "VERIFICATION_FAILED"}
  PROVE  SoundResult(Reply(q, m, status, eph), p)
BY DEF Reply, SoundResult, Result, Message, Msg1, Msg2

LEMMA RespondSound ==
  ASSUME NEW p, Sound(p), p.present, p.proc = None, NEW l \in Link, NEW m \in Msg1,
         NEW t \in Nat, NEW eph \in Nat
  PROVE  SoundResult(Respond(p, l, m, t, eph), p)
<1> DEFINE key == [initiator |-> l[2], responder |-> l[1], e |-> m.eph, f |-> eph]
           q == Install(p, t, m.ctx, NextCreationId(p), key, m.pair, m.exp)
<1>1. m.eph \in Nat /\ m.ctx \in CtxId /\ m.pair \in Pair /\ m.exp \in Nat
  BY DEF Msg1
<1>2. key \in Key
  BY <1>1 DEF Key, Link
<1> HIDE DEF key
<1>3. Sound(q) /\ Keeps(p, q)
  <2>1. NextCreationId(p) \in Nat /\ NextCreationId(p) \notin UsedCreationIds(p)
    BY NextCreationIdFresh DEF Sound
  <2>2. \A i \in Held(p) : p.contexts[i].cid # NextCreationId(p)
    BY <2>1 DEF UsedCreationIds
  <2> QED
    BY <1>1, <1>2, <2>1, <2>2, InstallSound
<1>4. Keeps(p, p)
  BY DEF Keeps
<1>5. CASE m.exp <= t
  BY <1>4, <1>5, ReplySound DEF Respond
<1>6. CASE ~(m.exp <= t) /\ m.pair \notin Supports[l[1]]
  BY <1>4, <1>6, ReplySound DEF Respond
<1>7. CASE ~(m.exp <= t) /\ m.pair \in Supports[l[1]]
  <2>1. Respond(p, l, m, t, eph) = Reply(q, m, "OK", eph)
    BY <1>7 DEF Respond, key
  <2> QED
    BY <1>3, <2>1, ReplySound
<1> QED
  BY <1>5, <1>6, <1>7

LEMMA HandleMsg1Sound ==
  ASSUME NEW l \in Link, NEW m \in Msg1, NEW prio \in Nat,
         now \in Nat, fresh \in Nat, Sound(peer[l])
  PROVE  SoundResult(HandleMsg1(l, m, prio), peer[l])
<1> DEFINE t == Clock(l)
           p == Touch(peer[l], l, t)
           a == AbortSender(p)
<1>1. t \in Nat
  BY ClockType
<1> HIDE DEF t
<1>2. Sound(p) /\ Keeps(peer[l], p) /\ p.present = peer[l].present
  BY <1>1, TouchSound DEF Keeps
<1> HIDE DEF p
<1>3. Sound(a) /\ a.proc = None /\ Keeps(p, a)
  BY <1>2, AbortSenderSound
<1>4. Keeps(peer[l], a) /\ a.present = peer[l].present
  BY <1>2, <1>3 DEF Keeps
<1> HIDE DEF a
<1>5. CASE ~peer[l].present
  BY <1>5, QuietSelf DEF HandleMsg1
<1>6. CASE peer[l].present /\ ~p.key
  <2>1. HandleMsg1(l, m, prio) = Quiet(p)
    BY <1>6 DEF HandleMsg1, p, t
  <2> QED
    BY <1>2, <2>1, QuietSound
<1>10. CASE peer[l].present /\ p.key /\ p.proc # None /\ m.prio < p.proc.prio
  <2>1. p.proc.prio \in Nat /\ m.prio \in Nat
    BY <1>2, <1>10 DEF Sound, Peer, Procedure, Msg1
  <2>2. ~(m.prio > p.proc.prio)
    BY <1>10, <2>1
  <2>3. HandleMsg1(l, m, prio) = Quiet(p)
    BY <1>10, <2>2 DEF HandleMsg1, p, t
  <2> QED
    BY <1>2, <2>3, QuietSound
<1>7. CASE peer[l].present /\ p.key /\ p.proc = None
  <2>1. HandleMsg1(l, m, prio) = Respond(p, l, m, t, fresh)
    BY <1>7 DEF HandleMsg1, p, t
  <2> QED
    BY <1>1, <1>2, <1>7, <2>1, RespondSound, KeepsTransitive
<1>8. CASE peer[l].present /\ p.key /\ p.proc # None /\ m.prio > p.proc.prio
  <2>1. HandleMsg1(l, m, prio) = Respond(a, l, m, t, fresh)
    BY <1>8 DEF HandleMsg1, p, t, a
  <2> QED
    BY <1>1, <1>3, <1>4, <1>8, <2>1, RespondSound, KeepsTransitive
<1>9. CASE /\ peer[l].present /\ p.key /\ p.proc # None
           /\ ~(m.prio > p.proc.prio) /\ ~(m.prio < p.proc.prio)
  <2>1. HandleMsg1(l, m, prio) = StartSecurity(a, t, TRUE, prio, fresh)
    BY <1>9 DEF HandleMsg1, p, t, a
  <2> QED
    BY <1>1, <1>3, <1>4, <2>1, StartSecuritySound, KeepsTransitive
<1> QED
  BY <1>5, <1>6, <1>7, <1>8, <1>9, <1>10

LEMMA HandleMsg2Sound ==
  ASSUME NEW l \in Link, NEW m \in Msg2, NEW prio \in Nat,
         now \in Nat, fresh \in Nat, Sound(peer[l])
  PROVE  SoundResult(HandleMsg2(l, m, prio), peer[l])
<1> DEFINE t == Clock(l)
           p == [peer[l] EXCEPT !.active = t]
           pr == p.proc
           key == [initiator |-> l[1], responder |-> l[2], e |-> pr.eph, f |-> m.eph]
<1>1. t \in Nat
  BY ClockType
<1> HIDE DEF t
<1>2. Sound(p) /\ Keeps(peer[l], p)
  <2>1. /\ p \in Peer /\ p.contexts = peer[l].contexts
        /\ p.timers = peer[l].timers /\ p.proc = peer[l].proc
        /\ p.current = peer[l].current /\ p.present = peer[l].present
    BY <1>1 DEF Sound, Peer
  <2> HIDE DEF p
  <2> QED
    BY <2>1, SameBooks
<1> HIDE DEF p
<1>3. CASE ~p.present
  <2>1. HandleMsg2(l, m, prio) = Quiet(peer[l])
    BY <1>3 DEF HandleMsg2, p, t
  <2> QED
    BY <2>1, QuietSelf
<1>4. CASE p.present /\ (p.proc = None \/ ~p.key)
  <2>1. HandleMsg2(l, m, prio) = Quiet(CompleteTransaction(p, m.id))
    BY <1>4 DEF HandleMsg2, p, t
  <2>2. SoundResult(Quiet(CompleteTransaction(p, m.id)), p)
    BY <1>2, CompleteTransactionSound, QuietSound
  <2> QED
    BY <1>2, <2>1, <2>2, KeepsTransitive
<1>5. CASE p.present /\ p.proc # None /\ p.key /\ m.status = "UNSUPPORTED"
  <2> DEFINE q == [p EXCEPT !.supported = @ \ {pr.pair}, !.test = @ \ {pr.pair}]
             c == CompleteTransaction(q, m.id)
  <2>1. HandleMsg2(l, m, prio) = StartSecurity(c, t, TRUE, prio, fresh)
    BY <1>5, Zenon DEF HandleMsg2, p, t
  <2>2. /\ q \in Peer /\ q.contexts = p.contexts /\ q.timers = p.timers
        /\ q.proc = p.proc /\ q.current = p.current /\ q.present = p.present
    BY <1>2 DEF Sound, Peer
  <2> HIDE DEF q
  <2>3. Sound(q) /\ Keeps(p, q)
    BY <1>2, <2>2, SameBooks
  <2>4. Sound(c) /\ Keeps(q, c)
    BY <2>3, CompleteTransactionSound
  <2> HIDE DEF c
  <2>5. SoundResult(StartSecurity(c, t, TRUE, prio, fresh), c)
    BY <1>1, <2>4, StartSecuritySound
  <2>6. Keeps(peer[l], c)
    BY <1>2, <2>3, <2>4 DEF Keeps
  <2> QED
    BY <2>1, <2>5, <2>6, KeepsTransitive
<1>6. CASE p.present /\ p.proc # None /\ p.key /\ m.status = "VERIFICATION_FAILED"
  <2> DEFINE c == CompleteTransaction(p, m.id)
             q == [c EXCEPT !.key = FALSE]
  <2>1. HandleMsg2(l, m, prio) = Quiet(q)
    BY <1>6 DEF HandleMsg2, p, t
  <2>2. Sound(c) /\ Keeps(p, c)
    BY <1>2, CompleteTransactionSound
  <2> HIDE DEF c
  <2>3. /\ q \in Peer /\ q.contexts = c.contexts /\ q.timers = c.timers
        /\ q.proc = c.proc /\ q.current = c.current /\ q.present = c.present
    BY <2>2 DEF Sound, Peer
  <2> HIDE DEF q
  <2>4. Sound(q) /\ Keeps(c, q)
    BY <2>2, <2>3, SameBooks
  <2>5. Keeps(peer[l], q)
    BY <1>2, <2>2, <2>4 DEF Keeps
  <2> QED
    BY <2>1, <2>4, <2>5, QuietSound
<1>7. CASE p.present /\ p.proc # None /\ p.key /\ m.status = "OK"
  <2> DEFINE q == Install(p, t, pr.id, pr.cid, key, pr.pair, pr.exp)
             c == CompleteTransaction(q, m.id)
  <2>1. HandleMsg2(l, m, prio) = Quiet(c)
    BY <1>7, Zenon DEF HandleMsg2, p, t
  <2>2. p.proc \in Procedure /\ UniqueCreationIds(p)
    BY <1>2, <1>7 DEF Sound, Peer, Books
  <2>3. /\ pr.id \in CtxId /\ pr.cid \in Nat /\ pr.pair \in Pair
        /\ pr.exp \in Nat /\ pr.eph \in Nat
    BY <2>2 DEF Procedure
  <2>4. key \in Key
    BY <2>3 DEF Key, Link, Msg2
  <2> HIDE DEF key
  <2>5. Sound(q) /\ Keeps(p, q)
    BY <1>1, <1>2, <1>7, <2>2, <2>3, <2>4, InstallSound DEF UniqueCreationIds
  <2> HIDE DEF q
  <2>6. Sound(c) /\ Keeps(q, c)
    BY <2>5, CompleteTransactionSound
  <2>7. Keeps(peer[l], c)
    BY <1>2, <2>5, <2>6 DEF Keeps
  <2> QED
    BY <2>1, <2>6, <2>7, QuietSound
<1>8. m.status \in {"OK", "UNSUPPORTED", "VERIFICATION_FAILED"}
  BY DEF Msg2
<1> QED
  BY <1>3, <1>4, <1>5, <1>6, <1>7, <1>8

-----------------------------------------------------------------------------
(* The context timers.  A pending timer always finds the context that      *)
(* armed it, so neither callback ever returns early.                       *)

LEMMA TimerFindsContext ==
  ASSUME NEW p, Sound(p), NEW tm \in p.timers
  PROVE  /\ tm \in Timer /\ tm.id \in Held(p) /\ tm.id \in CtxId
         /\ p.contexts[tm.id] \in Context /\ p.contexts[tm.id] # None
         /\ p.contexts[tm.id].timer = tm
         /\ p.contexts[tm.id].cid = tm.cid
         /\ tm.kind = IF p.contexts[tm.id].expiring THEN "expire" ELSE "renew"
         /\ p.contexts[tm.id].expiring => tm.at >= p.contexts[tm.id].exp
<1>1. OneTimerPerContext(p) /\ p \in Peer
  BY DEF Sound, Books
<1>2. PICK i \in Held(p) : tm = p.contexts[i].timer
  BY <1>1 DEF OneTimerPerContext
<1>3. tm.id = i
  BY <1>1, <1>2 DEF OneTimerPerContext
<1>4. tm \in Timer /\ i \in CtxId /\ p.contexts[i] \in Context /\ p.contexts[i] # None
  BY <1>1, <1>2 DEF Peer, Held
<1> QED
  BY <1>1, <1>2, <1>3, <1>4 DEF OneTimerPerContext

(* p with a context marked as expiring, or without any change. *)
Marked(p, a) ==
  /\ Sound(a) /\ Keeps(p, a)
  /\ a.proc = p.proc /\ a.key = p.key /\ a.active = p.active
  /\ \A i \in CtxId : IF p.contexts[i] = None THEN a.contexts[i] = None
                     ELSE /\ a.contexts[i].key = p.contexts[i].key
                          /\ a.contexts[i].exp = p.contexts[i].exp

LEMMA MarkExpiringStarts ==
  ASSUME NEW p, Sound(p), NEW tm \in p.timers, tm.kind = "renew",
         NEW t \in Nat, NEW prio \in Nat, fresh \in Nat
  PROVE  \E a : /\ Marked(p, a)
               /\ MarkExpiring([p EXCEPT !.timers = @ \ {tm}], tm, t, prio)
                    = StartSecurity(a, t, FALSE, prio, fresh)
<1> DEFINE q == [p EXCEPT !.timers = @ \ {tm}]
           c == p.contexts[tm.id]
           next == [id |-> tm.id, cid |-> tm.cid, kind |-> "expire",
                    at |-> ExpiryDeadline(c, t)]
           d == [c EXCEPT !.expiring = TRUE, !.timer = next]
           r == [q EXCEPT !.contexts = [@ EXCEPT ![tm.id] = d],
                          !.timers = (@ \ {c.timer}) \cup {next}]
<1>1. /\ tm \in Timer /\ tm.id \in Held(p) /\ tm.id \in CtxId
      /\ c \in Context /\ c # None /\ c.timer = tm /\ c.cid = tm.cid
      /\ c.expiring = FALSE
  <2>1. c \in Context
    BY TimerFindsContext
  <2>2. c.expiring \in BOOLEAN
    BY <2>1 DEF Context
  <2> QED
    BY <2>2, TimerFindsContext
<1>2. q.contexts = p.contexts /\ q.timers = p.timers \ {tm} /\ p \in Peer
  BY DEF Sound, Peer
<1>3. MarkExpiring(q, tm, t, prio) = StartSecurity(r, t, FALSE, prio, fresh)
  BY <1>1, <1>2 DEF MarkExpiring
<1>4. next \in Timer /\ next.id = tm.id /\ next.cid = tm.cid
      /\ next.kind = "expire" /\ next.at >= c.exp
  BY <1>1 DEF Timer, Context, ExpiryDeadline
<1> HIDE DEF next
<1>5. d \in Context /\ d.cid = c.cid /\ d.timer = next /\ d.expiring = TRUE
      /\ d.exp = c.exp /\ d.key = c.key
  BY <1>1, <1>4 DEF Context
<1> HIDE DEF d
<1>6. d # None
  BY <1>5, NoneAssumption
<1>7. /\ r \in Peer
      /\ r.contexts = [p.contexts EXCEPT ![tm.id] = d]
      /\ r.timers = (p.timers \ {tm}) \cup {next}
      /\ r.proc = p.proc /\ r.current = p.current /\ r.present = p.present
      /\ r.key = p.key /\ r.active = p.active
  BY <1>1, <1>2, <1>4, <1>5 DEF Peer
<1> HIDE DEF r, q
<1>8. /\ r.contexts[tm.id] = d
      /\ \A i \in CtxId : i # tm.id => r.contexts[i] = p.contexts[i]
  BY <1>1, <1>2, <1>7 DEF Peer
<1>9. Held(r) = Held(p)
  BY <1>1, <1>6, <1>8 DEF Held
<1>10. UniqueCreationIds(r)
  BY <1>5, <1>7, <1>8, <1>9 DEF UniqueCreationIds, Sound, Books, Held
<1>11. OneTimerPerContext(r)
  <2>1. OneTimerPerContext(p)
    BY DEF Sound, Books
  <2>2. p.timers \ {tm} = {p.contexts[i].timer : i \in Held(p) \ {tm.id}}
    BY <1>1, <2>1 DEF OneTimerPerContext
  <2>3. r.timers = {r.contexts[i].timer : i \in Held(r)}
    <3>1. \A i \in Held(p) \ {tm.id} : r.contexts[i] = p.contexts[i]
      BY <1>8 DEF Held
    <3> QED
      BY <1>1, <1>5, <1>7, <1>8, <1>9, <2>2, <3>1
  <2>4. ASSUME NEW i \in Held(r)
        PROVE  LET e == r.contexts[i] IN
               /\ e.timer.id = i /\ e.timer.cid = e.cid
               /\ e.timer.kind = IF e.expiring THEN "expire" ELSE "renew"
               /\ e.expiring => e.timer.at >= e.exp
    <3>1. CASE i = tm.id
      BY <1>1, <1>4, <1>5, <1>8, <3>1
    <3>2. CASE i # tm.id
      <4>1. r.contexts[i] = p.contexts[i] /\ i \in Held(p)
        BY <1>8, <1>9, <3>2 DEF Held
      <4> QED
        BY <2>1, <4>1 DEF OneTimerPerContext
    <3> QED
      BY <3>1, <3>2
  <2> QED
    BY <2>3, <2>4 DEF OneTimerPerContext
<1>12. CurrentIsProcedure(r)
  BY <1>7 DEF CurrentIsProcedure, Sound, Books
<1>13. Sound(r) /\ Keeps(p, r)
  BY <1>6, <1>7, <1>8, <1>9, <1>10, <1>11, <1>12
     DEF Sound, Books, Keeps, AbsentIsEmpty
<1>14. Marked(p, r)
  BY <1>1, <1>5, <1>7, <1>8, <1>13 DEF Marked
<1> QED
  BY <1>3, <1>14 DEF q

LEMMA MarkExpiringSound ==
  ASSUME NEW p, Sound(p), NEW tm \in p.timers, tm.kind = "renew",
         NEW t \in Nat, NEW prio \in Nat, fresh \in Nat
  PROVE  SoundResult(MarkExpiring([p EXCEPT !.timers = @ \ {tm}], tm, t, prio), p)
<1>1. PICK a : /\ Marked(p, a)
               /\ MarkExpiring([p EXCEPT !.timers = @ \ {tm}], tm, t, prio)
                    = StartSecurity(a, t, FALSE, prio, fresh)
  BY MarkExpiringStarts
<1>2. Sound(a) /\ Keeps(p, a)
  BY <1>1 DEF Marked
<1> QED
  BY <1>1, <1>2, StartSecuritySound, KeepsTransitive

(* The expiry callback removes a context that has reached its expiration   *)
(* time, and no other.                                                     *)
LEMMA ExpireContextSound ==
  ASSUME NEW p, Sound(p), NEW tm \in p.timers, tm.kind = "expire",
         NEW t \in Nat, tm.at <= t
  PROVE  LET r == ExpireContext([p EXCEPT !.timers = @ \ {tm}], tm) IN
         /\ Sound(r.peer) /\ r.out = None /\ r.ephs = 0
         /\ r.peer.proc = p.proc /\ r.peer.present = p.present
         /\ r.peer.key = p.key /\ r.peer.active = p.active
         /\ \A i \in CtxId : r.peer.contexts[i] \in {p.contexts[i], None}
         /\ \A i \in CtxId : p.contexts[i] # None /\ r.peer.contexts[i] = None
                               => p.contexts[i].exp <= t
<1> DEFINE q == [p EXCEPT !.timers = @ \ {tm}]
           c == p.contexts[tm.id]
           r == [q EXCEPT !.contexts = [@ EXCEPT ![tm.id] = None],
                          !.timers = @ \ {c.timer}]
<1>1. /\ tm \in Timer /\ tm.id \in Held(p) /\ tm.id \in CtxId
      /\ c \in Context /\ c # None /\ c.timer = tm /\ c.cid = tm.cid
      /\ tm.at >= c.exp
  <2>1. c \in Context
    BY TimerFindsContext
  <2>2. c.expiring \in BOOLEAN
    BY <2>1 DEF Context
  <2> QED
    BY <2>2, TimerFindsContext
<1>2. q.contexts = p.contexts /\ q.timers = p.timers \ {tm} /\ p \in Peer
  BY DEF Sound, Peer
<1>3. ExpireContext(q, tm) = Quiet(r)
  BY <1>1, <1>2 DEF ExpireContext
<1>4. /\ r \in Peer
      /\ r.contexts = [p.contexts EXCEPT ![tm.id] = None]
      /\ r.timers = p.timers \ {tm}
      /\ r.proc = p.proc /\ r.current = p.current /\ r.present = p.present
      /\ r.key = p.key /\ r.active = p.active
  BY <1>1, <1>2 DEF Peer
<1> HIDE DEF r, q
<1>5. /\ r.contexts[tm.id] = None
      /\ \A i \in CtxId : i # tm.id => r.contexts[i] = p.contexts[i]
  BY <1>1, <1>2, <1>4 DEF Peer
<1>6. Held(r) = Held(p) \ {tm.id}
  BY <1>5 DEF Held
<1>7. UniqueCreationIds(r)
  BY <1>4, <1>5, <1>6 DEF UniqueCreationIds, Sound, Books, Held
<1>8. OneTimerPerContext(r)
  <2>1. OneTimerPerContext(p)
    BY DEF Sound, Books
  <2>2. p.timers \ {tm} = {p.contexts[i].timer : i \in Held(p) \ {tm.id}}
    BY <1>1, <2>1 DEF OneTimerPerContext
  <2>3. \A i \in Held(r) : r.contexts[i] = p.contexts[i] /\ i \in Held(p)
    BY <1>5, <1>6 DEF Held
  <2> QED
    BY <1>4, <1>6, <2>1, <2>2, <2>3 DEF OneTimerPerContext
<1>9. CurrentIsProcedure(r)
  BY <1>4 DEF CurrentIsProcedure, Sound, Books
<1>10. c.exp \in Nat /\ tm.at \in Nat
  BY <1>1 DEF Context, Timer
<1>11. \A i \in CtxId : p.contexts[i] # None /\ r.contexts[i] = None
                          => p.contexts[i].exp <= t
  BY <1>1, <1>5, <1>10
<1>12. Sound(r)
  BY <1>4, <1>6, <1>7, <1>8, <1>9 DEF Sound, Books, AbsentIsEmpty
<1>13. /\ Quiet(r).peer = r /\ Quiet(r).out = None /\ Quiet(r).ephs = 0
  BY DEF Quiet, Result
<1>14. \A i \in CtxId : r.contexts[i] \in {p.contexts[i], None}
  BY <1>5
<1> DEFINE e == ExpireContext([p EXCEPT !.timers = @ \ {tm}], tm)
<1>15. e = Quiet(r)
  BY <1>3 DEF q
<1> HIDE DEF e
<1>16. e.peer = r /\ e.out = None /\ e.ephs = 0
  BY <1>13, <1>15
<1>17. /\ Sound(e.peer) /\ e.out = None /\ e.ephs = 0
       /\ e.peer.proc = p.proc /\ e.peer.present = p.present
       /\ e.peer.key = p.key /\ e.peer.active = p.active
       /\ \A i \in CtxId : e.peer.contexts[i] \in {p.contexts[i], None}
       /\ \A i \in CtxId : p.contexts[i] # None /\ e.peer.contexts[i] = None
                              => p.contexts[i].exp <= t
  BY <1>4, <1>11, <1>12, <1>14, <1>16
<1> QED
  BY <1>17 DEF e

-----------------------------------------------------------------------------
(* The transport.                                                          *)

LEMMA RemoveIndexType ==
  ASSUME NEW s \in Seq(Message), NEW k \in 1 .. Len(s)
  PROVE  RemoveIndex(s, k) \in Seq(Message)
<1>1. SubSeq(s, 1, k - 1) \in Seq(Message)
  <2>1. \A i \in 1 .. k - 1 : s[i] \in Message
    BY ElementOfSeq
  <2> QED
    BY <2>1, SubSeqProperties
<1>2. SubSeq(s, k + 1, Len(s)) \in Seq(Message)
  <2>1. \A i \in k + 1 .. Len(s) : s[i] \in Message
    BY ElementOfSeq
  <2> QED
    BY <2>1, SubSeqProperties
<1> QED
  BY <1>1, <1>2, ConcatProperties DEF RemoveIndex

LEMMA TransmitType ==
  ASSUME NEW box \in [Link -> Seq(Message)], NEW l \in Link,
         NEW m \in Message \cup {None}
  PROVE  Transmit(box, l, m) \in [Link -> Seq(Message)]
<1> SUFFICES ASSUME NEW k \in Link, m # None
             PROVE  Append(box[k], m) \in Seq(Message)
  BY DEF Transmit
<1> QED
  BY AppendProperties

-----------------------------------------------------------------------------
(* Steps.                                                                  *)

IInv == TypeOK /\ \A l \in Link : Books(peer[l])

(* What NoEarlyExpiry says of one step. *)
NoneEarly ==
  \A l \in Link : \A i \in CtxId :
    /\ peer[l].contexts[i] # None
    /\ peer'[l].contexts[i] = None
    => \/ peer[l].contexts[i].exp <= Clock(l)
       \/ ~peer'[l].present

LEMMA IInvIsSound == IInv <=> /\ now \in Nat /\ fresh \in Nat /\ known \subseteq Link
                             /\ inbox \in [Link -> Seq(Message)]
                             /\ peer \in [Link -> Peer]
                             /\ \A l \in Link : Sound(peer[l])
BY DEF IInv, TypeOK, Sound

(* A step that replaces one peer record by a sound one. *)
LEMMA OnePeerStep ==
  ASSUME IInv, NEW l \in Link, NEW p, Sound(p), peer' = [peer EXCEPT ![l] = p],
         now' \in Nat, fresh' \in Nat, known' \subseteq Link,
         inbox' \in [Link -> Seq(Message)],
         \A i \in CtxId : peer[l].contexts[i] # None /\ p.contexts[i] = None
            => peer[l].contexts[i].exp <= Clock(l) \/ ~p.present
  PROVE  IInv' /\ NoneEarly
<1>1. peer \in [Link -> Peer] /\ \A k \in Link : Books(peer[k])
  BY DEF IInv, TypeOK
<1>2. /\ peer' \in [Link -> Peer] /\ peer'[l] = p
      /\ \A k \in Link : k # l => peer'[k] = peer[k]
  BY <1>1 DEF Sound
<1>3. \A k \in Link : Books(peer'[k])
  BY <1>1, <1>2 DEF Sound
<1>4. NoneEarly
  BY <1>2 DEF NoneEarly
<1> QED
  BY <1>2, <1>3, <1>4 DEF IInv, TypeOK, Books, UniqueCreationIds,
       OneTimerPerContext, CurrentIsProcedure, AbsentIsEmpty, Held

(* A step that leaves the peer records alone. *)
LEMMA NoPeerStep ==
  ASSUME IInv, UNCHANGED peer, now' \in Nat, fresh' \in Nat, known' \subseteq Link,
         inbox' \in [Link -> Seq(Message)]
  PROVE  IInv' /\ NoneEarly
BY DEF IInv, TypeOK, Books, NoneEarly

(* A handler's result is applied. *)
LEMMA ApplyStep ==
  ASSUME IInv, NEW l \in Link, NEW r, SoundResult(r, peer[l]),
         NEW box \in [Link -> Seq(Message)], Apply(l, r, box),
         now' \in Nat, known' \subseteq Link
  PROVE  IInv' /\ NoneEarly
<1>1. fresh' \in Nat
  BY DEF Apply, SoundResult, IInv, TypeOK
<1>2. inbox' \in [Link -> Seq(Message)]
  BY TransmitType DEF Apply, SoundResult
<1>3. \A i \in CtxId : ~(peer[l].contexts[i] # None /\ r.peer.contexts[i] = None)
  BY DEF SoundResult, Keeps
<1> QED
  BY <1>1, <1>2, <1>3, OnePeerStep DEF Apply, SoundResult

LEMMA HandleBeaconStep ==
  ASSUME IInv, NEW l \in Link, HandleBeacon(l)
  PROVE  IInv' /\ NoneEarly
<1> DEFINE first == [Absent EXCEPT !.present = TRUE, !.test = Supports[l[1]]]
           q == Touch(first, l, Clock(l))
           p == Touch(peer[l], l, Clock(l))
<1>1. Sound(peer[l]) /\ Clock(l) \in Nat /\ peer \in [Link -> Peer]
  BY ClockType, IInvIsSound
<1>2. Sound(p) /\ Keeps(peer[l], p)
  BY <1>1, TouchSound
<1>3. Sound(first)
  <2>1. Supports[l[1]] \in SUBSET Pair
    BY ConstantsAssumption DEF Link
  <2>2. /\ first \in Peer /\ first.contexts = Absent.contexts
        /\ first.timers = {} /\ first.proc = None /\ first.current = None
    <3>1. Absent \in Peer
      BY AbsentSound
    <3>2. Absent.timers = {} /\ Absent.proc = None /\ Absent.current = None
      BY DEF Absent
    <3> QED
      BY <2>1, <3>1, <3>2 DEF Peer
  <2> HIDE DEF first
  <2> QED
    BY <2>2, AbsentSound
<1>4. Sound(q)
  <2> HIDE DEF first
  <2> QED
    BY <1>1, <1>3, TouchSound
<1>5. peer' = [peer EXCEPT ![l] = IF peer[l].present THEN p ELSE q]
  BY <1>1, Zenon DEF HandleBeacon
<1>6. now' \in Nat /\ fresh' \in Nat /\ known' \subseteq Link
      /\ inbox' \in [Link -> Seq(Message)]
  BY DEF HandleBeacon, IInv, TypeOK
<1> HIDE DEF p, q
<1>8. CASE peer[l].present
  <2>1. peer' = [peer EXCEPT ![l] = p]
    BY <1>5, <1>8
  <2> QED
    BY <1>2, <1>6, <2>1, OnePeerStep DEF Keeps
<1>9. CASE ~peer[l].present
  <2>1. peer' = [peer EXCEPT ![l] = q]
    BY <1>5, <1>9
  <2>2. \A i \in CtxId : peer[l].contexts[i] # None /\ q.contexts[i] = None
           => peer[l].contexts[i].exp <= Clock(l) \/ ~q.present
    BY <1>1, <1>9 DEF Sound, Books, AbsentIsEmpty, Held
  <2> HIDE DEF first
  <2> QED
    BY <1>4, <1>6, <2>1, <2>2, OnePeerStep
<1> QED
  BY <1>8, <1>9

LEMMA ReceiveStep ==
  ASSUME IInv, NEW l \in Link, NEW k \in 1 .. Len(inbox[l]), Receive(l, k)
  PROVE  IInv' /\ NoneEarly
<1> DEFINE m == inbox[l][k]
           box == [inbox EXCEPT ![l] = RemoveIndex(@, k)]
           r(prio) == IF m.type = "msg1" THEN HandleMsg1(l, m, prio)
                                         ELSE HandleMsg2(l, m, prio)
<1>1. PICK prio \in Priority[l[1]] : Apply(l, r(prio), box)
  BY Zenon DEF Receive
<1>2. prio \in Nat
  BY <1>1, ConstantsAssumption DEF Link
<1>3. Sound(peer[l]) /\ inbox[l] \in Seq(Message) /\ now \in Nat /\ fresh \in Nat
  BY IInvIsSound
<1>4. m \in Message
  BY <1>3, ElementOfSeq
<1>5. box \in [Link -> Seq(Message)]
  BY <1>3, RemoveIndexType DEF IInv, TypeOK
<1>6. now' \in Nat /\ known' \subseteq Link
  BY DEF Receive, IInv, TypeOK
<1> HIDE DEF m, box
<1>7. SoundResult(r(prio), peer[l])
  <2>1. CASE m \in Msg1
    BY <1>2, <1>3, <2>1, m.type = "msg1", HandleMsg1Sound DEF Msg1
  <2>2. CASE m \in Msg2
    BY <1>2, <1>3, <2>2, m.type # "msg1", HandleMsg2Sound DEF Msg2
  <2> QED
    BY <1>4, <2>1, <2>2 DEF Message
<1> HIDE DEF r
<1> QED
  BY <1>1, <1>5, <1>6, <1>7, ApplyStep

LEMMA SendWithoutContextStep ==
  ASSUME IInv, NEW l \in Link, SendWithoutContext(l)
  PROVE  IInv' /\ NoneEarly
<1>1. PICK prio \in Priority[l[1]] :
        Apply(l, StartSecurity(peer[l], Clock(l), FALSE, prio, fresh), inbox)
  BY DEF SendWithoutContext
<1>2. prio \in Nat
  BY <1>1, ConstantsAssumption DEF Link
<1>3. /\ Sound(peer[l]) /\ Clock(l) \in Nat /\ fresh \in Nat
      /\ inbox \in [Link -> Seq(Message)]
  BY ClockType, IInvIsSound
<1>4. SoundResult(StartSecurity(peer[l], Clock(l), FALSE, prio, fresh), peer[l])
  BY <1>2, <1>3, StartSecuritySound
<1>5. now' \in Nat /\ known' \subseteq Link
  BY DEF SendWithoutContext, IInv, TypeOK
<1> QED
  BY <1>1, <1>3, <1>4, <1>5, ApplyStep

LEMMA TransactionTimeoutStep ==
  ASSUME IInv, NEW l \in Link, TransactionTimeout(l)
  PROVE  IInv' /\ NoneEarly
<1>1. Sound(peer[l]) /\ inbox \in [Link -> Seq(Message)]
  BY IInvIsSound
<1>2. now' \in Nat /\ known' \subseteq Link
  BY DEF TransactionTimeout, IInv, TypeOK
<1>3. CASE /\ peer[l].armed
           /\ Apply(l, ExpireTransaction([peer[l] EXCEPT !.armed = FALSE]), inbox)
  <2> DEFINE p == [peer[l] EXCEPT !.armed = FALSE]
  <2>1. /\ p \in Peer /\ p.contexts = peer[l].contexts /\ p.timers = peer[l].timers
        /\ p.proc = peer[l].proc /\ p.current = peer[l].current
        /\ p.present = peer[l].present
    BY <1>1 DEF Sound, Peer
  <2> HIDE DEF p
  <2>2. Sound(p) /\ Keeps(peer[l], p)
    BY <1>1, <2>1, SameBooks
  <2>3. SoundResult(ExpireTransaction(p), peer[l])
    BY <2>2, ExpireTransactionSound, KeepsTransitive
  <2> QED
    BY <1>1, <1>2, <1>3, <2>3, ApplyStep DEF p
<1>4. CASE /\ peer[l].orphans > 0
           /\ Apply(l, ExpireTransaction([peer[l] EXCEPT !.orphans = @ - 1]), inbox)
  <2> DEFINE p == [peer[l] EXCEPT !.orphans = @ - 1]
  <2>0. peer[l].orphans - 1 \in Nat
    BY <1>1, <1>4 DEF Sound, Peer
  <2>1. /\ p \in Peer /\ p.contexts = peer[l].contexts /\ p.timers = peer[l].timers
        /\ p.proc = peer[l].proc /\ p.current = peer[l].current
        /\ p.present = peer[l].present
    BY <1>1, <2>0 DEF Sound, Peer
  <2> HIDE DEF p
  <2>2. Sound(p) /\ Keeps(peer[l], p)
    BY <1>1, <2>1, SameBooks
  <2>3. SoundResult(ExpireTransaction(p), peer[l])
    BY <2>2, ExpireTransactionSound, KeepsTransitive
  <2> QED
    BY <1>1, <1>2, <1>4, <2>3, ApplyStep DEF p
<1> QED
  BY <1>3, <1>4 DEF TransactionTimeout

LEMMA ContextTimerStep ==
  ASSUME IInv, NEW l \in Link, NEW tm \in peer[l].timers, ContextTimer(l, tm)
  PROVE  IInv' /\ NoneEarly
<1> DEFINE p == [peer[l] EXCEPT !.timers = @ \ {tm}]
           r(prio) == IF tm.kind = "renew" THEN MarkExpiring(p, tm, Clock(l), prio)
                                           ELSE ExpireContext(p, tm)
<1>1. PICK prio \in Priority[l[1]] : Apply(l, r(prio), inbox)
  BY Zenon DEF ContextTimer
<1>2. prio \in Nat
  BY <1>1, ConstantsAssumption DEF Link
<1>3. /\ Sound(peer[l]) /\ Clock(l) \in Nat /\ fresh \in Nat
      /\ inbox \in [Link -> Seq(Message)]
  BY ClockType, IInvIsSound
<1>4. now' \in Nat /\ fresh \in Nat /\ known' \subseteq Link
  BY DEF ContextTimer, IInv, TypeOK
<1>5. tm.kind \in {"renew", "expire"} /\ tm.at <= Clock(l)
  BY <1>3, TimerFindsContext DEF Timer, ContextTimer
<1>6. CASE tm.kind = "renew"
  <2>1. SoundResult(r(prio), peer[l])
    BY <1>2, <1>3, <1>6, MarkExpiringSound
  <2> HIDE DEF r
  <2> QED
    BY <1>1, <1>3, <1>4, <2>1, ApplyStep
<1>7. CASE tm.kind = "expire"
  <2> DEFINE e == ExpireContext(p, tm)
  <2>1. /\ Sound(e.peer) /\ e.out = None /\ e.ephs = 0
        /\ \A i \in CtxId : peer[l].contexts[i] # None /\ e.peer.contexts[i] = None
                              => peer[l].contexts[i].exp <= Clock(l)
    BY <1>3, <1>5, <1>7, ExpireContextSound
  <2>2. r(prio) = e
    BY <1>7
  <2> HIDE DEF e, r
  <2>3. fresh' \in Nat /\ inbox' \in [Link -> Seq(Message)]
    BY <1>1, <1>3, <2>1, <2>2, TransmitType DEF Apply
  <2> QED
    BY <1>1, <1>4, <2>1, <2>2, <2>3, OnePeerStep DEF Apply
<1> QED
  BY <1>5, <1>6, <1>7

LEMMA CheckActivityStep ==
  ASSUME IInv, NEW l \in Link, CheckActivity(l)
  PROVE  IInv' /\ NoneEarly
<1>1. Sound(Absent) /\ ~Absent.present
  BY AbsentSound DEF Absent
<1>2. peer' = [peer EXCEPT ![l] = Absent]
  BY DEF CheckActivity, Cleanup
<1>3. /\ now' \in Nat /\ fresh' \in Nat /\ known' \subseteq Link
      /\ inbox' \in [Link -> Seq(Message)]
  BY DEF CheckActivity, IInv, TypeOK
<1> QED
  BY <1>1, <1>2, <1>3, OnePeerStep

LEMMA AddPublicKeyStep ==
  ASSUME IInv, NEW l \in Link, AddPublicKey(l)
  PROVE  IInv' /\ NoneEarly
<1> DEFINE p == [peer[l] EXCEPT !.key = peer[l].present]
<1>1. Sound(peer[l]) /\ peer \in [Link -> Peer]
  BY IInvIsSound
<1>2. /\ p \in Peer /\ p.contexts = peer[l].contexts /\ p.timers = peer[l].timers
      /\ p.proc = peer[l].proc /\ p.current = peer[l].current
      /\ p.present = peer[l].present
  BY <1>1 DEF Sound, Peer
<1>3. peer' = [peer EXCEPT ![l] = p]
  BY <1>1 DEF AddPublicKey
<1>4. /\ now' \in Nat /\ fresh' \in Nat /\ known' \subseteq Link
      /\ inbox' \in [Link -> Seq(Message)]
  BY DEF AddPublicKey, IInv, TypeOK
<1> HIDE DEF p
<1>5. Sound(p) /\ Keeps(peer[l], p)
  BY <1>1, <1>2, SameBooks
<1> QED
  BY <1>3, <1>4, <1>5, OnePeerStep DEF Keeps

LEMMA RestartStep ==
  ASSUME IInv, NEW n \in Node, Restart(n)
  PROVE  IInv' /\ NoneEarly
<1>1. Sound(Absent) /\ ~Absent.present
  BY AbsentSound DEF Absent
<1>2. /\ \A l \in Link : Sound(peer[l])
      /\ now \in Nat /\ fresh \in Nat /\ known \subseteq Link
      /\ inbox \in [Link -> Seq(Message)]
  BY IInvIsSound
<1>3. \A l \in Link : peer'[l] = Absent \/ peer'[l] = peer[l]
  BY DEF Restart
<1>4. \A l \in Link : Sound(peer'[l])
  BY <1>1, <1>2, <1>3
<1>5. peer' \in [Link -> Peer]
  BY <1>1, <1>2 DEF Restart, Sound
<1>6. inbox' \in [Link -> Seq(Message)]
  <2>1. <<>> \in Seq(Message)
    BY EmptySeq
  <2> QED
    BY <1>2, <2>1 DEF Restart
<1>7. now' \in Nat /\ fresh' \in Nat /\ known' \subseteq Link
  BY <1>2 DEF Restart
<1>8. NoneEarly
  BY <1>1, <1>3 DEF NoneEarly
<1>9. TypeOK'
  BY <1>5, <1>6, <1>7 DEF TypeOK
<1>10. \A l \in Link : Books(peer[l])'
  BY <1>4 DEF Sound, Books, UniqueCreationIds, OneTimerPerContext,
              CurrentIsProcedure, AbsentIsEmpty, Held
<1> QED
  BY <1>8, <1>9, <1>10 DEF IInv

(* The steps of the environment and of the clock. *)
LEMMA OtherSteps ==
  ASSUME IInv,
         \/ Tick
         \/ UNCHANGED vars
         \/ \E l \in Link : RemPublicKey(l)
         \/ \E l \in Link : \E k \in 1 .. Len(inbox[l]) : Lose(l, k) \/ Duplicate(l, k)
  PROVE  IInv' /\ NoneEarly
<1>1. /\ now \in Nat /\ fresh \in Nat /\ known \subseteq Link
      /\ inbox \in [Link -> Seq(Message)]
  BY IInvIsSound
<1>2. CASE Tick
  BY <1>1, <1>2, NoPeerStep DEF Tick
<1>3. CASE UNCHANGED vars
  BY <1>1, <1>3, NoPeerStep DEF vars
<1>4. CASE \E l \in Link : RemPublicKey(l)
  BY <1>1, <1>4, NoPeerStep DEF RemPublicKey
<1>5. ASSUME NEW l \in Link, NEW k \in 1 .. Len(inbox[l]), Lose(l, k)
      PROVE  IInv' /\ NoneEarly
  <2>1. inbox' \in [Link -> Seq(Message)]
    BY <1>1, <1>5, RemoveIndexType DEF Lose
  <2> QED
    BY <1>1, <1>5, <2>1, NoPeerStep DEF Lose
<1>6. ASSUME NEW l \in Link, NEW k \in 1 .. Len(inbox[l]), Duplicate(l, k)
      PROVE  IInv' /\ NoneEarly
  <2>1. inbox[l] \in Seq(Message) /\ inbox[l][k] \in Message
    BY <1>1, ElementOfSeq
  <2>2. Append(inbox[l], inbox[l][k]) \in Seq(Message)
    BY <2>1, AppendProperties
  <2>3. inbox' \in [Link -> Seq(Message)]
    BY <1>1, <1>6, <2>2 DEF Duplicate
  <2> QED
    BY <1>1, <1>6, <2>3, NoPeerStep DEF Duplicate
<1> QED
  BY <1>2, <1>3, <1>4, <1>5, <1>6

-----------------------------------------------------------------------------
(* The invariant is inductive.                                             *)

LEMMA InvariantInit == Init => IInv
<1> SUFFICES ASSUME Init PROVE IInv
  OBVIOUS
<1>1. Sound(Absent)
  BY AbsentSound DEF Absent
<1>2. <<>> \in Seq(Message)
  BY EmptySeq
<1> QED
  BY <1>1, <1>2 DEF Init, IInv, TypeOK, Sound

LEMMA InvariantStep == IInv /\ [Next]_vars => IInv' /\ NoneEarly
<1> SUFFICES ASSUME IInv, [Next]_vars PROVE IInv' /\ NoneEarly
  OBVIOUS
<1>1. CASE UNCHANGED vars
  BY <1>1, OtherSteps
<1>2. CASE Tick
  BY <1>2, OtherSteps
<1>3. ASSUME NEW l \in Link, HandleBeacon(l) PROVE IInv' /\ NoneEarly
  BY <1>3, HandleBeaconStep
<1>4. ASSUME NEW l \in Link, SendWithoutContext(l) PROVE IInv' /\ NoneEarly
  BY <1>4, SendWithoutContextStep
<1>5. ASSUME NEW l \in Link, TransactionTimeout(l) PROVE IInv' /\ NoneEarly
  BY <1>5, TransactionTimeoutStep
<1>6. ASSUME NEW l \in Link, CheckActivity(l) PROVE IInv' /\ NoneEarly
  BY <1>6, CheckActivityStep
<1>7. ASSUME NEW l \in Link, AddPublicKey(l) PROVE IInv' /\ NoneEarly
  BY <1>7, AddPublicKeyStep
<1>8. ASSUME NEW l \in Link, RemPublicKey(l) PROVE IInv' /\ NoneEarly
  BY <1>8, OtherSteps
<1>9. ASSUME NEW l \in Link, NEW tm \in peer[l].timers, ContextTimer(l, tm)
      PROVE  IInv' /\ NoneEarly
  BY <1>9, ContextTimerStep
<1>10. ASSUME NEW l \in Link, NEW k \in 1 .. Len(inbox[l]), Receive(l, k)
       PROVE  IInv' /\ NoneEarly
  BY <1>10, ReceiveStep
<1>11. ASSUME NEW l \in Link, NEW k \in 1 .. Len(inbox[l]),
              Lose(l, k) \/ Duplicate(l, k)
       PROVE  IInv' /\ NoneEarly
  BY <1>11, OtherSteps
<1>12. ASSUME NEW n \in Node, Restart(n) PROVE IInv' /\ NoneEarly
  BY <1>12, RestartStep
<1> QED
  BY <1>1, <1>2, <1>3, <1>4, <1>5, <1>6, <1>7, <1>8, <1>9, <1>10, <1>11, <1>12
     DEF Next

LEMMA Invariant == Spec => []IInv
BY InvariantInit, InvariantStep, PTL DEF Spec

-----------------------------------------------------------------------------
(* Theorems.                                                               *)

(* Every variable stays within its type: among others every transaction id *)
(* fits its field and every context id is one of the table's.              *)
THEOREM TypeCorrect == Spec => []TypeOK
<1>1. IInv => TypeOK
  BY DEF IInv
<1> QED
  BY <1>1, Invariant, PTL

(* Creation ids, by which the timer callbacks of node.cpp recognise their  *)
(* context, are never shared by two contexts of a peer, nor by a running   *)
(* procedure and a context it will not replace.                            *)
THEOREM CreationIdsAreUnique == Spec => []CreationIdsUnique
<1>1. IInv => CreationIdsUnique
  BY DEF IInv, Books, CreationIdsUnique
<1> QED
  BY <1>1, Invariant, PTL

(* Every context has exactly one pending timer and every pending timer one *)
(* context: none is lost, none outlives what it was armed for.             *)
THEOREM TimersAlwaysMatch == Spec => []TimersMatchContexts
<1>1. IInv => TimersMatchContexts
  BY DEF IInv, Books, TimersMatchContexts
<1> QED
  BY <1>1, Invariant, PTL

(* The current transaction of a peer is the one of its security procedure, *)
(* through every abort, retry, arbitration and restart.                    *)
THEOREM ProcedureAlwaysOwns == Spec => []ProcedureOwnsTransaction
<1>1. IInv => ProcedureOwnsTransaction
  BY DEF IInv, Books, ProcedureOwnsTransaction
<1> QED
  BY <1>1, Invariant, PTL

(* No timer, message or procedure ever removes a context before its        *)
(* expiration time, except by erasing the peer with it.                    *)
THEOREM NoContextExpiresEarly == Spec => NoEarlyExpiry
<1>1. IInv /\ [Next]_vars => [NoneEarly]_vars
  BY InvariantStep
<1>2. [NoneEarly]_vars =>
        [\A l \in Link : \A i \in CtxId :
           /\ peer[l].contexts[i] # None
           /\ peer'[l].contexts[i] = None
           => \/ peer[l].contexts[i].exp <= Clock(l)
              \/ ~peer'[l].present]_vars
  BY Zenon DEF NoneEarly
<1> QED
  BY <1>1, <1>2, Invariant, PTL DEF Spec, NoEarlyExpiry
=============================================================================
