------------------------ MODULE KeyAcquisitionProofs ------------------------
(***************************************************************************)
(* What holds of the acquisition of network keys whatever the number of    *)
(* peers, of algorithm pairs and of message ids, and however many calls a  *)
(* handler leaves to be made.                                              *)
(*                                                                         *)
(* A handler changes a working copy of the node, and Run makes the calls   *)
(* that it leaves.  Between two of them the node is not as its invariants  *)
(* describe it: a transaction whose callback has been called is current    *)
(* until ResetTransaction, and a peer that is cleaned up is there until    *)
(* Erase.  So there are two inductive invariants of the node, AllSettled   *)
(* and OneIsAsked, and for each of them what holds of the working copy     *)
(* instead, given the calls that are still to be made: Sound and Alone.    *)
(* Every operator preserves the latter, so by induction on the number of   *)
(* calls Run does (RunInduction), and when no call is left it says what    *)
(* the invariant says.                                                     *)
(***************************************************************************)
EXTENDS KeyAcquisition, TLAPS, FiniteSetTheorems, SequenceTheorems, WellFoundedInduction

-----------------------------------------------------------------------------
(* Numbers and sequences.                                                  *)

(* The first candidate that can be asked exists. *)
LEMMA LeastIndex ==
  ASSUME NEW S \in SUBSET Nat, S # {}
  PROVE  \E x \in S : \A y \in S : x <= y
<1> DEFINE R == OpToRel(<, Nat)
<1>1. PICK x \in S : \A y \in S : <<y, x>> \notin R
  BY NatLessThanWellFounded, WFMin, Zenon
<1>2. \A y \in S : x <= y
  <2> SUFFICES ASSUME NEW y \in S, ~(x <= y) PROVE FALSE
    OBVIOUS
  <2>1. <<y, x>> \in R
    BY y < x, x \in Nat, y \in Nat DEF OpToRel
  <2> QED
    BY <1>1, <2>1, Zenon
<1> QED
  BY <1>2

(* A call that is put before the others. *)
LEMMA Push ==
  ASSUME NEW S, NEW s \in Seq(S), NEW c \in S
  PROVE  /\ <<c>> \o s \in Seq(S) /\ Len(<<c>> \o s) = Len(s) + 1 /\ (<<c>> \o s)[1] = c
         /\ \A i \in DOMAIN s : i + 1 \in DOMAIN (<<c>> \o s) /\ (<<c>> \o s)[i + 1] = s[i]
         /\ \A i \in DOMAIN (<<c>> \o s) : i = 1 \/ (i - 1 \in DOMAIN s /\ (<<c>> \o s)[i] = s[i - 1])
         /\ <<c>> \o s # << >>
<1>1. <<c>> \in Seq(S) /\ Len(<<c>>) = 1 /\ <<c>>[1] = c
  OBVIOUS
<1> DEFINE u == <<c>>
<1>2. u \in Seq(S) /\ Len(u) = 1 /\ u[1] = c
  BY <1>1
<1> HIDE DEF u
<1> DEFINE v == u \o s
<1>3. /\ v \in Seq(S) /\ Len(v) = Len(u) + Len(s)
      /\ \A i \in 1 .. Len(u) + Len(s) : v[i] = IF i <= Len(u) THEN u[i] ELSE s[i - Len(u)]
  BY <1>2, ConcatProperties, Zenon
<1> HIDE DEF v
<1>4. v \in Seq(S) /\ Len(v) = 1 + Len(s) /\ \A i \in 1 .. 1 + Len(s) : v[i] = IF i <= 1 THEN u[i] ELSE s[i - 1]
  BY <1>2, <1>3
<1>5. v[1] = c /\ \A i \in 1 .. Len(s) : v[i + 1] = s[i]
  BY <1>2, <1>4
<1>6. \A i \in DOMAIN v : i = 1 \/ (i - 1 \in 1 .. Len(s) /\ v[i] = s[i - 1])
  BY <1>4
<1>7. v # << >> /\ DOMAIN v = 1 .. 1 + Len(s) /\ DOMAIN s = 1 .. Len(s)
  BY <1>4
<1> QED
  BY <1>4, <1>5, <1>6, <1>7 DEF u, v

(* The calls, or the transactions, after the first. *)
LEMMA Pop ==
  ASSUME NEW S, NEW s \in Seq(S), s # << >>
  PROVE  /\ Tail(s) \in Seq(S) /\ Len(Tail(s)) = Len(s) - 1 /\ Head(s) = s[1] /\ s[1] \in S
         /\ 1 \in DOMAIN s
         /\ \A i \in DOMAIN Tail(s) : i + 1 \in DOMAIN s /\ Tail(s)[i] = s[i + 1]
         /\ \A i \in DOMAIN s : i = 1 \/ (i - 1 \in DOMAIN Tail(s) /\ s[i] = Tail(s)[i - 1])
  OBVIOUS

(* A transaction that is queued. *)
LEMMA Add ==
  ASSUME NEW S, NEW s \in Seq(S), NEW c \in S
  PROVE  /\ Append(s, c) \in Seq(S) /\ Len(Append(s, c)) = Len(s) + 1
         /\ Len(s) + 1 \in DOMAIN Append(s, c) /\ Append(s, c)[Len(s) + 1] = c
         /\ \A i \in DOMAIN s : i \in DOMAIN Append(s, c) /\ Append(s, c)[i] = s[i]
  OBVIOUS

-----------------------------------------------------------------------------
(* A node while a handler runs.                                            *)

Work ==
  [peer : [Peer -> PeerState], candidates : SUBSET Peer, ongoing : Peer \cup {None},
   collecting : BOOLEAN, retry : BOOLEAN, out : SUBSET Message, order : Orders,
   calls : Seq(Calls)]

LEMMA CallType ==
  ASSUME NEW p \in Peer
  PROVE  /\ \A op \in Operations : ToCall(op, p) \in Calls
         /\ \A done, force \in BOOLEAN : SecurityCall(p, done, force) \in Calls
  BY DEF ToCall, SecurityCall, Calls, Operations

(* The ids of the messages. *)
LEMMA FreshType == ASSUME NEW n, NEW p PROVE Fresh(n, p) \in Id
<1>1. 1 \in Id
  BY ConstantsAssumption DEF Id
<1>2. \E i \in Id : Id \subseteq UsedIds(n, p) \/ i \notin UsedIds(n, p)
  BY <1>1
<1> QED
  BY <1>2 DEF Fresh

(* A call that is left to be made changes nothing else. *)
LEMMA ThenType ==
  ASSUME NEW n \in Work, NEW c \in Calls
  PROVE  /\ Then(n, c) \in Work /\ Then(n, c).calls = <<c>> \o n.calls
         /\ Then(n, c).peer = n.peer /\ Then(n, c).candidates = n.candidates
         /\ Then(n, c).ongoing = n.ongoing /\ Then(n, c).collecting = n.collecting
         /\ Then(n, c).retry = n.retry /\ Then(n, c).order = n.order
<1>1. <<c>> \o n.calls \in Seq(Calls)
  BY Push DEF Work
<1> QED
  BY <1>1 DEF Then, Work

(* n with the state s of p. *)
Put(n, p, s) == [n EXCEPT !.peer[p] = s]

LEMMA PutType ==
  ASSUME NEW n \in Work, NEW p \in Peer, NEW s \in PeerState
  PROVE  /\ Put(n, p, s) \in Work /\ Put(n, p, s).peer[p] = s
         /\ \A q \in Peer \ {p} : Put(n, p, s).peer[q] = n.peer[q]
         /\ Put(n, p, s).candidates = n.candidates
         /\ Put(n, p, s).ongoing = n.ongoing /\ Put(n, p, s).collecting = n.collecting
         /\ Put(n, p, s).retry = n.retry /\ Put(n, p, s).order = n.order
         /\ Put(n, p, s).calls = n.calls
  BY DEF Put, Work

(* m differs from n in the state of p, which is t, and perhaps in the      *)
(* candidates and the messages sent.                                       *)
Changes(n, m, p, t) ==
  /\ m \in Work /\ m.peer[p] = t /\ \A q \in Peer \ {p} : m.peer[q] = n.peer[q]
  /\ m.calls = n.calls /\ m.ongoing = n.ongoing
  /\ m.collecting = n.collecting /\ m.retry = n.retry

LEMMA PutChanges ==
  ASSUME NEW n \in Work, NEW p \in Peer, NEW s \in PeerState
  PROVE  Changes(n, Put(n, p, s), p, s)
  BY PutType DEF Changes

(* A transaction is known by its callbacks. *)
LEMMA TransactionType ==
  /\ Security \in Transaction /\ Security.kind = "security"
  /\ \A i \in Id : Keys(i) \in Transaction /\ Keys(i).kind = "keys" /\ Keys(i).req = i
                   /\ Keys(i) # Security
  /\ \A tx \in Transaction :
       /\ tx.kind = "security" => tx = Security
       /\ tx.kind # "security" => tx.kind = "keys" /\ tx.req \in Id /\ tx = Keys(tx.req)
  BY DEF Transaction, Security, Keys

(* The state of a peer when a procedure has been queued, and when a        *)
(* transaction has been taken from the queue.                              *)
QueuedKeys(s, id) ==
  [s EXCEPT !.acq = [id |-> id, retries |-> 0], !.pending = Append(@, Keys(id))]

QueuedSecurity(s, done) ==
  [s EXCEPT !.proc = [mid |-> None, done |-> done, queued |-> TRUE, retries |-> 0],
            !.pending = Append(@, Security)]

Taken(s, id) ==
  [s EXCEPT !.current = [id |-> id, tx |-> Head(s.pending)], !.pending = Tail(s.pending)]

LEMMA QueuedKeysType ==
  ASSUME NEW s \in PeerState, NEW id \in Id
  PROVE  /\ QueuedKeys(s, id) \in PeerState
         /\ QueuedKeys(s, id).acq = [id |-> id, retries |-> 0] /\ QueuedKeys(s, id).acq # None
         /\ QueuedKeys(s, id).pending = Append(s.pending, Keys(id))
         /\ QueuedKeys(s, id).proc = s.proc /\ QueuedKeys(s, id).current = s.current
         /\ QueuedKeys(s, id).ctx = s.ctx
<1>1. Append(s.pending, Keys(id)) \in Seq(Transaction)
  BY TransactionType DEF PeerState
<1>2. [id |-> id, retries |-> 0] \in KeyProcedure
  BY DEF KeyProcedure
<1> QED
  BY <1>1, <1>2, NoneAssumption DEF PeerState, QueuedKeys

LEMMA QueuedSecurityType ==
  ASSUME NEW s \in PeerState, NEW done \in BOOLEAN
  PROVE  /\ QueuedSecurity(s, done) \in PeerState
         /\ QueuedSecurity(s, done).proc = [mid |-> None, done |-> done, queued |-> TRUE, retries |-> 0]
         /\ QueuedSecurity(s, done).proc # None
         /\ QueuedSecurity(s, done).pending = Append(s.pending, Security)
         /\ QueuedSecurity(s, done).acq = s.acq /\ QueuedSecurity(s, done).current = s.current
         /\ QueuedSecurity(s, done).ctx = s.ctx
<1>1. Append(s.pending, Security) \in Seq(Transaction)
  BY TransactionType DEF PeerState
<1>2. [mid |-> None, done |-> done, queued |-> TRUE, retries |-> 0] \in SecurityProcedure
  BY DEF SecurityProcedure
<1> QED
  BY <1>1, <1>2, NoneAssumption DEF PeerState, QueuedSecurity

LEMMA TakenType ==
  ASSUME NEW s \in PeerState, NEW id \in Id, s.pending # << >>
  PROVE  /\ Taken(s, id) \in PeerState /\ Taken(s, id).current = [id |-> id, tx |-> Head(s.pending)]
         /\ Taken(s, id).current # None
         /\ Taken(s, id).pending = Tail(s.pending) /\ Taken(s, id).proc = s.proc
         /\ Taken(s, id).acq = s.acq /\ Taken(s, id).ctx = s.ctx
<1>1. Tail(s.pending) \in Seq(Transaction) /\ Head(s.pending) \in Transaction
  BY DEF PeerState
<1>2. [id |-> id, tx |-> Head(s.pending)] \in CurrentTransaction
  BY <1>1 DEF CurrentTransaction
<1> QED
  BY <1>1, <1>2, NoneAssumption DEF PeerState, Taken

-----------------------------------------------------------------------------
(* What the operators return. *)

LEMMA CompleteProcedureType ==
  ASSUME NEW n \in Work
  PROVE  /\ CompleteProcedure(n) \in Work /\ CompleteProcedure(n).peer = n.peer
         /\ CompleteProcedure(n).calls = n.calls /\ CompleteProcedure(n).ongoing = None
         /\ CompleteProcedure(n).collecting = n.collecting /\ CompleteProcedure(n).retry = FALSE
         /\ CompleteProcedure(n).order = n.order
  BY DEF CompleteProcedure, Work

(* An acquisition is dropped, put off until there is a context, or queued. *)
LEMMA StartAcquisitionCases ==
  ASSUME NEW n \in Work, NEW p \in Peer
  PROVE  \/ n.peer[p].acq # None /\ StartAcquisition(n, p) = n
         \/ /\ n.peer[p].acq = None /\ n.peer[p].ctx = "none"
            /\ StartAcquisition(n, p) = Then(n, SecurityCall(p, TRUE, FALSE))
         \/ /\ n.peer[p].acq = None /\ n.peer[p].ctx # "none"
            /\ \E id \in Id : StartAcquisition(n, p) =
                 Then(Put(n, p, QueuedKeys(n.peer[p], id)), ToCall("ProcessPending", p))
<1> DEFINE id == Fresh(n, p)
<1>1. id \in Id
  BY FreshType
<1> HIDE DEF id
<1>2. [n EXCEPT !.peer[p].acq = [id |-> id, retries |-> 0],
                !.peer[p].pending = Append(@, Keys(id))] = Put(n, p, QueuedKeys(n.peer[p], id))
  BY DEF Put, Work, QueuedKeys
<1> QED
  BY <1>1, <1>2 DEF StartAcquisition, id

LEMMA StartAcquisitionType ==
  ASSUME NEW n \in Work, NEW p \in Peer
  PROVE  StartAcquisition(n, p) \in Work
<1>1. n.peer[p] \in PeerState
  BY DEF Work
<1>2. \A id \in Id : Put(n, p, QueuedKeys(n.peer[p], id)) \in Work
  BY <1>1, PutType, QueuedKeysType
<1>3. ToCall("ProcessPending", p) \in Calls /\ SecurityCall(p, TRUE, FALSE) \in Calls
  BY CallType DEF Operations
<1> QED
  BY <1>2, <1>3, StartAcquisitionCases, ThenType

(* No candidate can be asked, or the first that can is. *)
LEMMA StartNextCases ==
  ASSUME NEW n \in Work
  PROVE  \/ n.ongoing # None /\ StartNext(n) = n
         \/ n.ongoing = None /\ StartNext(n) = CompleteProcedure(n)
         \/ /\ n.ongoing = None
            /\ \E q \in Peer, m \in Work :
                 /\ m.peer = n.peer /\ m.calls = n.calls /\ m.ongoing = q
                 /\ m.collecting = n.collecting /\ m.retry = n.retry
                 /\ n.peer[q].acq = None
                 /\ StartNext(n) = StartAcquisition(m, q)
<1> DEFINE Askable(p) == n.peer[p].present /\ n.peer[p].acq = None
           firsts == {i \in DOMAIN n.order : n.order[i] \in n.candidates /\ Askable(n.order[i])}
           first == CHOOSE i \in firsts : \A j \in firsts : i <= j
           before == {n.order[i] : i \in 1 .. first - 1}
           q == n.order[first]
           m == [n EXCEPT !.candidates = @ \ before, !.ongoing = q]
<1>1. ASSUME n.ongoing = None, firsts # {}
      PROVE  /\ q \in Peer /\ m \in Work /\ m.peer = n.peer /\ m.calls = n.calls /\ m.ongoing = q
             /\ m.collecting = n.collecting /\ m.retry = n.retry /\ n.peer[q].acq = None
  <2>1. n.order \in [1 .. Cardinality(Peer) -> Peer] /\ Cardinality(Peer) \in Nat
    BY ConstantsAssumption, FS_CardinalityType DEF Work, Orders
  <2>2. firsts \in SUBSET Nat
    BY <2>1
  <2>3. first \in firsts
    <3> HIDE DEF firsts
    <3> QED
      BY <1>1, <2>2, LeastIndex, Zenon
  <2>4. q \in Peer /\ n.peer[q].acq = None
    BY <2>1, <2>3, Zenon
  <2> HIDE DEF before, q
  <2> QED
    BY <2>4, Zenon DEF Work
<1>2. StartNext(n) = IF n.ongoing # None THEN n ELSE IF firsts = {} THEN CompleteProcedure(n)
                     ELSE StartAcquisition(m, q)
  BY DEF StartNext
<1> HIDE DEF firsts, m, q
<1> QED
  BY <1>1, <1>2

LEMMA StartNextType == ASSUME NEW n \in Work PROVE StartNext(n) \in Work
  BY StartNextCases, StartAcquisitionType, CompleteProcedureType

(* The acquisition of p has reported: that was the last one, or the next   *)
(* candidate is asked.                                                     *)
LEMMA AcquisitionCompleteCases ==
  ASSUME NEW n \in Work, NEW p \in Peer, NEW ok \in BOOLEAN
  PROVE  \E m \in Work :
           /\ m.peer = n.peer /\ m.calls = n.calls /\ m.collecting = n.collecting
           /\ m.retry = n.retry /\ m.ongoing = IF n.ongoing = p THEN None ELSE n.ongoing
           /\ AcquisitionComplete(n, p, ok) \in {CompleteProcedure(m), StartNext(m)}
<1> DEFINE m == [n EXCEPT !.ongoing = IF @ = p THEN None ELSE @,
                          !.candidates = IF ok THEN @ ELSE @ \ {p}]
<1>1. /\ m \in Work /\ m.peer = n.peer /\ m.calls = n.calls /\ m.collecting = n.collecting
      /\ m.retry = n.retry /\ m.ongoing = IF n.ongoing = p THEN None ELSE n.ongoing
  BY DEF Work
<1>2. AcquisitionComplete(n, p, ok) = IF m.candidates = {} THEN CompleteProcedure(m) ELSE StartNext(m)
  BY DEF AcquisitionComplete
<1> HIDE DEF m
<1> QED
  BY <1>1, <1>2

LEMMA AcquisitionCompleteType ==
  ASSUME NEW n \in Work, NEW p \in Peer, NEW ok \in BOOLEAN
  PROVE  AcquisitionComplete(n, p, ok) \in Work
<1>1. PICK m \in Work : AcquisitionComplete(n, p, ok) \in {CompleteProcedure(m), StartNext(m)}
  BY AcquisitionCompleteCases
<1> QED
  BY <1>1, StartNextType, CompleteProcedureType

LEMMA SecurityCompleteType ==
  ASSUME NEW n \in Work, NEW p \in Peer, NEW ok \in BOOLEAN
  PROVE  SecurityComplete(n, p, ok) \in Work
  BY StartAcquisitionType, AcquisitionCompleteType DEF SecurityComplete

(* The state of a peer without its procedure. *)
WithoutProcedure(s) == [s EXCEPT !.proc = None]

LEMMA WithoutProcedureType ==
  ASSUME NEW s \in PeerState
  PROVE  /\ WithoutProcedure(s) \in PeerState /\ WithoutProcedure(s).proc = None
         /\ WithoutProcedure(s).acq = s.acq /\ WithoutProcedure(s).current = s.current
         /\ WithoutProcedure(s).pending = s.pending /\ WithoutProcedure(s).ctx = s.ctx
  BY DEF WithoutProcedure, PeerState

(* The procedure of p ends and reports if it has a completion. *)
LEMMA FinishSecurityCases ==
  ASSUME NEW n \in Work, NEW p \in Peer, NEW ok \in BOOLEAN
  PROVE  \/ n.peer[p].proc = None /\ FinishSecurity(n, p, ok) = n
         \/ /\ n.peer[p].proc # None /\ n.peer[p].proc.done
            /\ FinishSecurity(n, p, ok) = SecurityComplete(Put(n, p, WithoutProcedure(n.peer[p])), p, ok)
         \/ /\ n.peer[p].proc # None /\ ~n.peer[p].proc.done
            /\ FinishSecurity(n, p, ok) = Put(n, p, WithoutProcedure(n.peer[p]))
<1>1. [n EXCEPT !.peer[p].proc = None] = Put(n, p, WithoutProcedure(n.peer[p]))
  BY DEF Put, Work, WithoutProcedure
<1> QED
  BY <1>1 DEF FinishSecurity

LEMMA FinishSecurityType ==
  ASSUME NEW n \in Work, NEW p \in Peer, NEW ok \in BOOLEAN
  PROVE  FinishSecurity(n, p, ok) \in Work
<1>1. Put(n, p, WithoutProcedure(n.peer[p])) \in Work
  BY PutType, WithoutProcedureType DEF Work
<1> QED
  BY <1>1, FinishSecurityCases, SecurityCompleteType

(* The state of a peer without its acquisition. *)
WithoutAcquisition(s) == [s EXCEPT !.acq = None]

LEMMA WithoutAcquisitionType ==
  ASSUME NEW s \in PeerState
  PROVE  /\ WithoutAcquisition(s) \in PeerState /\ WithoutAcquisition(s).acq = None
         /\ WithoutAcquisition(s).proc = s.proc /\ WithoutAcquisition(s).current = s.current
         /\ WithoutAcquisition(s).pending = s.pending /\ WithoutAcquisition(s).ctx = s.ctx
  BY DEF WithoutAcquisition, PeerState

(* The acquisition of p ends and reports. *)
LEMMA FinishAcquisitionCases ==
  ASSUME NEW n \in Work, NEW p \in Peer, NEW ok \in BOOLEAN
  PROVE  \/ n.peer[p].acq = None /\ FinishAcquisition(n, p, ok) = n
         \/ /\ n.peer[p].acq # None
            /\ \E m \in Work :
                 /\ Changes(n, m, p, WithoutAcquisition(n.peer[p]))
                 /\ FinishAcquisition(n, p, ok) = AcquisitionComplete(m, p, ok)
<1> DEFINE m == [n EXCEPT !.peer[p].acq = None, !.candidates = IF ok THEN {} ELSE @]
<1>1. WithoutAcquisition(n.peer[p]) \in PeerState
  BY WithoutAcquisitionType DEF Work
<1>2. m \in Work /\ Changes(n, m, p, WithoutAcquisition(n.peer[p]))
  BY <1>1 DEF Work, WithoutAcquisition, Changes
<1>3. FinishAcquisition(n, p, ok) = IF n.peer[p].acq = None THEN n ELSE AcquisitionComplete(m, p, ok)
  BY DEF FinishAcquisition
<1> HIDE DEF m
<1> QED
  BY <1>2, <1>3

LEMMA FinishAcquisitionType ==
  ASSUME NEW n \in Work, NEW p \in Peer, NEW ok \in BOOLEAN
  PROVE  FinishAcquisition(n, p, ok) \in Work
  BY FinishAcquisitionCases, AcquisitionCompleteType

LEMMA DoneType ==
  ASSUME NEW n \in Work, NEW p \in Peer, NEW tx, NEW ok \in BOOLEAN
  PROVE  Done(n, p, tx, ok) \in Work
  BY FinishSecurityType, FinishAcquisitionType DEF Done

(* The state of a peer without a transaction. *)
Idle(s) == [s EXCEPT !.armed = FALSE, !.current = None]

LEMMA IdleType ==
  ASSUME NEW s \in PeerState
  PROVE  /\ Idle(s) \in PeerState /\ Idle(s).current = None
         /\ Idle(s).acq = s.acq /\ Idle(s).proc = s.proc
         /\ Idle(s).pending = s.pending /\ Idle(s).ctx = s.ctx
  BY DEF Idle, PeerState

(* The transaction is over and its timer is cancelled. *)
LEMMA ResetTransactionIs ==
  ASSUME NEW n \in Work, NEW p \in Peer
  PROVE  ResetTransaction(n, p) = Put(n, p, Idle(n.peer[p]))
  BY DEF ResetTransaction, Put, Idle, Work

LEMMA ResetTransactionType ==
  ASSUME NEW n \in Work, NEW p \in Peer
  PROVE  ResetTransaction(n, p) \in Work
<1>1. n.peer[p] \in PeerState
  BY DEF Work
<1>2. Idle(n.peer[p]) \in PeerState
  BY <1>1, IdleType
<1> QED
  BY <1>2, ResetTransactionIs, PutType

(* n while the callback of the transaction of p runs. *)
Completing(n, p) == Then(Then(n, ToCall("ProcessPending", p)), ToCall("ResetTransaction", p))

(* The calls that peer_complete_transaction makes after the callback. *)
LEMMA CompletingType ==
  ASSUME NEW n \in Work, NEW p \in Peer
  PROVE  /\ Completing(n, p) \in Work
         /\ Completing(n, p).calls = <<ToCall("ResetTransaction", p)>> \o (<<ToCall("ProcessPending", p)>> \o n.calls)
         /\ Completing(n, p).peer = n.peer /\ Completing(n, p).candidates = n.candidates
         /\ Completing(n, p).ongoing = n.ongoing /\ Completing(n, p).collecting = n.collecting
         /\ Completing(n, p).retry = n.retry
<1>1. ToCall("ProcessPending", p) \in Calls /\ ToCall("ResetTransaction", p) \in Calls
  BY CallType DEF Operations
<1> DEFINE m == Then(n, ToCall("ProcessPending", p))
<1>2. /\ m \in Work /\ m.calls = <<ToCall("ProcessPending", p)>> \o n.calls
      /\ m.peer = n.peer /\ m.candidates = n.candidates
      /\ m.ongoing = n.ongoing /\ m.collecting = n.collecting /\ m.retry = n.retry
  BY <1>1, ThenType
<1> HIDE DEF m
<1> DEFINE c == ToCall("ResetTransaction", p)
<1>3. c \in Calls
  BY <1>1
<1> HIDE DEF c
<1>4. /\ Then(m, c) \in Work /\ Then(m, c).calls = <<c>> \o m.calls
      /\ Then(m, c).peer = m.peer /\ Then(m, c).candidates = m.candidates
      /\ Then(m, c).ongoing = m.ongoing /\ Then(m, c).collecting = m.collecting
      /\ Then(m, c).retry = m.retry
  BY <1>2, <1>3, ThenType
<1>5. Completing(n, p) = Then(m, c)
  BY DEF Completing, m, c
<1>6. <<c>> \o m.calls = <<ToCall("ResetTransaction", p)>> \o (<<ToCall("ProcessPending", p)>> \o n.calls)
  BY <1>2, Zenon DEF c
<1> QED
  BY ONLY <1>2, <1>4, <1>5, <1>6, Zenon

(* Another transaction is current, or the callback of this one is called. *)
LEMMA CompleteTransactionCases ==
  ASSUME NEW n \in Work, NEW p \in Peer, NEW id, NEW ok \in BOOLEAN
  PROVE  \/ n.peer[p].current = None /\ CompleteTransaction(n, p, id, ok) = n
         \/ /\ n.peer[p].current # None /\ n.peer[p].current.id # id
            /\ CompleteTransaction(n, p, id, ok) = n
         \/ /\ n.peer[p].current # None /\ n.peer[p].current.id = id
            /\ CompleteTransaction(n, p, id, ok) = Done(Completing(n, p), p, n.peer[p].current.tx, ok)
  BY DEF CompleteTransaction, Completing

LEMMA CompleteTransactionType ==
  ASSUME NEW n \in Work, NEW p \in Peer, NEW id, NEW ok \in BOOLEAN
  PROVE  CompleteTransaction(n, p, id, ok) \in Work
<1>1. Completing(n, p) \in Work
  BY CompletingType
<1>2. Done(Completing(n, p), p, n.peer[p].current.tx, ok) \in Work
  BY <1>1, DoneType
<1> QED
  BY <1>2, CompleteTransactionCases

LEMMA QueueSecurityIs ==
  ASSUME NEW n \in Work, NEW p \in Peer, NEW done \in BOOLEAN
  PROVE  /\ QueueSecurity(n, p, done) = Put(n, p, QueuedSecurity(n.peer[p], done))
         /\ QueuedSecurity(n.peer[p], done) \in PeerState
         /\ QueueSecurity(n, p, done) \in Work
<1>1. QueueSecurity(n, p, done) = Put(n, p, QueuedSecurity(n.peer[p], done))
  BY DEF QueueSecurity, Put, QueuedSecurity, Work
<1>2. n.peer[p] \in PeerState
  BY DEF Work
<1>3. QueuedSecurity(n.peer[p], done) \in PeerState
  BY <1>2, QueuedSecurityType
<1> QED
  BY <1>1, <1>3, PutType

(* The completion is called at once, dropped, or kept with the procedure. *)
LEMMA StartSecurityCases ==
  ASSUME NEW n \in Work, NEW p \in Peer, NEW done \in BOOLEAN, NEW force \in BOOLEAN
  PROVE  \/ StartSecurity(n, p, done, force) = n /\ (done => n.peer[p].proc # None)
         \/ \E ok \in BOOLEAN : done /\ StartSecurity(n, p, done, force) = SecurityComplete(n, p, ok)
         \/ /\ n.peer[p].proc = None
            /\ StartSecurity(n, p, done, force) = Then(QueueSecurity(n, p, done), ToCall("ProcessPending", p))
  BY DEF StartSecurity

LEMMA StartSecurityType ==
  ASSUME NEW n \in Work, NEW p \in Peer, NEW done \in BOOLEAN, NEW force \in BOOLEAN
  PROVE  StartSecurity(n, p, done, force) \in Work
<1>1. ToCall("ProcessPending", p) \in Calls
  BY CallType DEF Operations
<1>2. QueueSecurity(n, p, done) \in Work
  BY QueueSecurityIs
<1>3. Then(QueueSecurity(n, p, done), ToCall("ProcessPending", p)) \in Work
  BY <1>1, <1>2, ThenType
<1> QED
  BY <1>3, StartSecurityCases, SecurityCompleteType

(* The procedure whose MSG1 is sent, made before if it was queued. *)
Sending(s, t, id) ==
  /\ t \in PeerState /\ t.proc \in SecurityProcedure
  /\ t.proc.done = s.proc.done /\ ~t.proc.queued
  /\ t.proc.mid = IF s.proc.queued THEN id ELSE s.proc.mid
  /\ t.acq = s.acq /\ t.current = s.current /\ t.pending = s.pending /\ t.ctx = s.ctx

(* The MSG1 is sent, once more perhaps. *)
LEMMA RetriesType ==
  ASSUME NEW x \in SecurityProcedure, ~x.queued
  PROVE  /\ [x EXCEPT !.retries = @ + 1] \in SecurityProcedure
         /\ [x EXCEPT !.retries = @ + 1].done = x.done /\ ~[x EXCEPT !.retries = @ + 1].queued
         /\ [x EXCEPT !.retries = @ + 1].mid = x.mid
<1>1. x \in [mid : Id, done : BOOLEAN, queued : {FALSE}, retries : Nat]
  BY DEF SecurityProcedure
<1> DEFINE k == x.retries + 1
           y == [x EXCEPT !.retries = k]
<1>2. k \in Nat /\ x.queued = FALSE
  BY <1>1
<1>3. y = [mid |-> x.mid, done |-> x.done, queued |-> x.queued, retries |-> k]
  BY <1>1
<1> HIDE DEF k, y
<1>4. y \in SecurityProcedure /\ y.done = x.done /\ ~y.queued /\ y.mid = x.mid
  BY <1>1, <1>2, <1>3, Zenon DEF SecurityProcedure
<1> QED
  BY <1>4 DEF y, k

(* The MSG1 is sent or the transaction completed. *)
LEMMA SendMsg1Cases ==
  ASSUME NEW n \in Work, NEW p \in Peer, NEW id \in Id
  PROVE  \/ /\ n.peer[p].proc = None \/ n.peer[p].proc.queued
            /\ SendMsg1(n, p, id) = CompleteTransaction(n, p, id, FALSE)
         \/ /\ n.peer[p].proc # None
            /\ \E t \in PeerState : Sending(n.peer[p], t, id) /\ Changes(n, SendMsg1(n, p, id), p, t)
<1> DEFINE s == n.peer[p]
           made == [n EXCEPT !.peer[p].proc = [@ EXCEPT !.mid = id, !.queued = FALSE],
                             !.peer[p].untried = IF s.known THEN @ ELSE @ - 1]
           m == IF s.proc.queued THEN made ELSE n
           k == [m EXCEPT !.peer[p].proc.retries = @ + 1]
           x == [to |-> p, type |-> "msg1", id |-> m.peer[p].proc.mid]
           r == Send(k, p, "msg1", m.peer[p].proc.mid)
<1>1. s \in PeerState
  BY DEF Work
<1> SUFFICES ASSUME s.proc # None, ~NoPairs(s)
             PROVE  \E t \in PeerState : Sending(s, t, id) /\ Changes(n, r, p, t)
  BY Zenon DEF SendMsg1, NoPairs
<1>2. s.proc \in SecurityProcedure
  BY <1>1 DEF PeerState
<1>3. /\ m.peer[p].proc \in SecurityProcedure /\ m.peer[p].proc.done = s.proc.done
      /\ ~m.peer[p].proc.queued /\ m.peer[p].proc.mid = IF s.proc.queued THEN id ELSE s.proc.mid
      /\ Changes(n, m, p, m.peer[p]) /\ m.peer[p].acq = s.acq /\ m.peer[p].current = s.current
      /\ m.peer[p].pending = s.pending /\ m.peer[p].ctx = s.ctx
  <2>1. CASE s.proc.queued
    <3> DEFINE proc == [s.proc EXCEPT !.mid = id, !.queued = FALSE]
               u == [s EXCEPT !.proc = [@ EXCEPT !.mid = id, !.queued = FALSE],
                              !.untried = IF s.known THEN @ ELSE @ - 1]
    <3>1. proc \in SecurityProcedure /\ proc.done = s.proc.done /\ ~proc.queued /\ proc.mid = id
      BY <1>2 DEF SecurityProcedure
    <3>2. (IF s.known THEN s.untried ELSE s.untried - 1) \in 0 .. NumPairs
      BY <1>1, <2>1, ConstantsAssumption DEF NoPairs, PeerState
    <3>3. made = Put(n, p, u)
      BY DEF Put, Work, PeerState
    <3>6. u = [s EXCEPT !.proc = proc, !.untried = IF s.known THEN @ ELSE @ - 1]
      BY <1>1 DEF PeerState
    <3> HIDE DEF proc, u
    <3>4. /\ u \in PeerState /\ u.proc = proc /\ u.acq = s.acq /\ u.current = s.current
          /\ u.pending = s.pending /\ u.ctx = s.ctx
      BY <1>1, <3>1, <3>2, <3>6 DEF PeerState
    <3> HIDE DEF made
    <3>5. Changes(n, made, p, u) /\ made.peer[p] = u
      BY <3>3, <3>4, PutChanges DEF Changes
    <3> QED
      BY <2>1, <3>1, <3>4, <3>5
  <2>2. CASE ~s.proc.queued
    BY <1>1, <1>2, <2>2 DEF Changes
  <2> QED
    BY <2>1, <2>2
<1> HIDE DEF m
<1>4. /\ m \in Work /\ m.peer[p] \in PeerState
  BY <1>3 DEF Changes, Work
<1> DEFINE t == [m.peer[p] EXCEPT !.proc.retries = @ + 1]
           proc == [m.peer[p].proc EXCEPT !.retries = @ + 1]
<1>5. t \in PeerState /\ Sending(s, t, id)
  <2>1. /\ proc \in SecurityProcedure /\ proc.done = s.proc.done /\ ~proc.queued
        /\ proc.mid = m.peer[p].proc.mid
    BY <1>3, RetriesType
  <2>2. t = [m.peer[p] EXCEPT !.proc = proc]
    BY <1>4 DEF PeerState
  <2> HIDE DEF proc, t, s
  <2>3. /\ t \in PeerState /\ t.proc = proc /\ t.acq = m.peer[p].acq /\ t.ctx = m.peer[p].ctx
        /\ t.current = m.peer[p].current /\ t.pending = m.peer[p].pending
    BY <1>4, <2>1, <2>2 DEF PeerState
  <2> QED
    BY <1>3, <2>1, <2>3 DEF Sending
<1>6. k = Put(m, p, t)
  BY DEF Put
<1> HIDE DEF t, k, s
<1>7. Changes(m, k, p, t)
  BY <1>4, <1>5, <1>6, PutChanges
<1>8. k \in Work
  BY <1>7 DEF Changes
<1>9. Changes(n, r, p, t)
  <2>1. r = [k EXCEPT !.out = @ \cup {x}]
    BY DEF Send
  <2>2. /\ r \in Work /\ r.peer = k.peer /\ r.calls = k.calls /\ r.ongoing = k.ongoing
        /\ r.collecting = k.collecting /\ r.retry = k.retry
    <3>1. x \in Message
      BY <1>3 DEF Message, SecurityProcedure
    <3> HIDE DEF r, x
    <3> QED
      BY <1>8, <2>1, <3>1 DEF Work
  <2> HIDE DEF r
  <2> QED
    BY <1>3, <1>7, <2>2 DEF Changes
<1> QED
  BY <1>5, <1>9

LEMMA SendMsg1Type ==
  ASSUME NEW n \in Work, NEW p \in Peer, NEW id \in Id
  PROVE  SendMsg1(n, p, id) \in Work
<1>1. CompleteTransaction(n, p, id, FALSE) \in Work
  BY CompleteTransactionType
<1> QED
  BY <1>1, SendMsg1Cases DEF Changes

(* The request is sent or the transaction completed. *)
LEMMA SendRequestCases ==
  ASSUME NEW n \in Work, NEW p \in Peer, NEW id \in Id, NEW req \in Id
  PROVE  \/ /\ n.peer[p].acq = None \/ n.peer[p].acq.id # req \/ n.peer[p].ctx = "none"
            /\ SendRequest(n, p, id, req) = CompleteTransaction(n, p, id, FALSE)
         \/ /\ n.peer[p].acq # None /\ n.peer[p].acq.id = req /\ n.peer[p].ctx = "none"
            /\ n.peer[p].proc = None
            /\ SendRequest(n, p, id, req) = CompleteTransaction(QueueSecurity(n, p, FALSE), p, id, FALSE)
         \/ /\ n.peer[p].acq # None /\ n.peer[p].acq.id = req
            /\ Changes(n, SendRequest(n, p, id, req), p, n.peer[p])
<1>1. Send(n, p, "request", req) = [n EXCEPT !.out = @ \cup {[to |-> p, type |-> "request", id |-> req]}]
  BY DEF Send
<1> DEFINE x == [to |-> p, type |-> "request", id |-> req]
<1>2. x \in Message
  BY DEF Message
<1> HIDE DEF x
<1>3. Changes(n, [n EXCEPT !.out = @ \cup {x}], p, n.peer[p])
  BY <1>2 DEF Changes, Work
<1> QED
  BY <1>1, <1>3 DEF SendRequest, x

LEMMA SendRequestType ==
  ASSUME NEW n \in Work, NEW p \in Peer, NEW id \in Id, NEW req \in Id
  PROVE  SendRequest(n, p, id, req) \in Work
<1>1. QueueSecurity(n, p, FALSE) \in Work
  BY QueueSecurityIs
<1>2. CompleteTransaction(QueueSecurity(n, p, FALSE), p, id, FALSE) \in Work
  BY <1>1, CompleteTransactionType
<1>3. CompleteTransaction(n, p, id, FALSE) \in Work
  BY CompleteTransactionType
<1> QED
  BY <1>2, <1>3, SendRequestCases DEF Changes

(* Whatever do_cb does: a message is sent or the transaction is completed  *)
(* without one.                                                            *)
LEMMA DoCases ==
  ASSUME NEW n \in Work, NEW p \in Peer, n.peer[p].current # None
  PROVE  /\ n.peer[p].current.id \in Id /\ n.peer[p].current.tx \in Transaction
         /\ \/ n.peer[p].current.tx = Security /\ Do(n, p) = SendMsg1(n, p, n.peer[p].current.id)
            \/ \E req \in Id : /\ n.peer[p].current.tx = Keys(req)
                               /\ Do(n, p) = SendRequest(n, p, n.peer[p].current.id, req)
<1>1. n.peer[p].current \in CurrentTransaction
  BY DEF Work, PeerState
<1>2. n.peer[p].current.id \in Id /\ n.peer[p].current.tx \in Transaction
  BY <1>1 DEF CurrentTransaction
<1> DEFINE tx == n.peer[p].current.tx
<1>3. Do(n, p) = IF tx.kind = "security" THEN SendMsg1(n, p, n.peer[p].current.id)
                 ELSE SendRequest(n, p, n.peer[p].current.id, tx.req)
  BY DEF Do
<1> HIDE DEF tx
<1>4. tx \in Transaction
  BY <1>2 DEF tx
<1>5. CASE tx.kind = "security"
  BY <1>2, <1>3, <1>4, <1>5, TransactionType DEF tx
<1>6. CASE tx.kind # "security"
  <2>1. tx.req \in Id /\ tx = Keys(tx.req)
    BY <1>4, <1>6, TransactionType
  <2> QED
    BY <1>2, <1>3, <1>6, <2>1 DEF tx
<1> QED
  BY <1>5, <1>6

LEMMA DoType ==
  ASSUME NEW n \in Work, NEW p \in Peer, n.peer[p].current # None
  PROVE  Do(n, p) \in Work
  BY DoCases, SendMsg1Type, SendRequestType

(* Nothing is pending, a transaction is current, or the first one is       *)
(* taken.                                                                  *)
LEMMA ProcessPendingCases ==
  ASSUME NEW n \in Work, NEW p \in Peer
  PROVE  \/ n.peer[p].current # None /\ ProcessPending(n, p) = n
         \/ n.peer[p].pending = << >> /\ ProcessPending(n, p) = n
         \/ /\ n.peer[p].current = None /\ n.peer[p].pending # << >>
            /\ \E id \in Id : ProcessPending(n, p) =
                 Do(Then(Put(n, p, Taken(n.peer[p], id)), ToCall("ArmTransactionTimer", p)), p)
<1> DEFINE id == Fresh(n, p)
           s == n.peer[p]
<1>1. id \in Id
  BY FreshType
<1> HIDE DEF id
<1>2. [n EXCEPT !.peer[p].current = [id |-> id, tx |-> Head(s.pending)],
                !.peer[p].pending = Tail(s.pending)] = Put(n, p, Taken(s, id))
  BY DEF Put, Work, Taken
<1> QED
  BY <1>1, <1>2 DEF ProcessPending, id

LEMMA TakingType ==
  ASSUME NEW n \in Work, NEW p \in Peer, NEW id \in Id, n.peer[p].pending # << >>
  PROVE  /\ Put(n, p, Taken(n.peer[p], id)) \in Work
         /\ Then(Put(n, p, Taken(n.peer[p], id)), ToCall("ArmTransactionTimer", p)) \in Work
         /\ Then(Put(n, p, Taken(n.peer[p], id)), ToCall("ArmTransactionTimer", p)).peer[p] = Taken(n.peer[p], id)
<1>1. Taken(n.peer[p], id) \in PeerState
  BY TakenType DEF Work
<1>2. ToCall("ArmTransactionTimer", p) \in Calls
  BY CallType DEF Operations
<1> DEFINE m == Put(n, p, Taken(n.peer[p], id))
<1>3. m \in Work /\ m.peer[p] = Taken(n.peer[p], id)
  BY <1>1, PutType
<1> HIDE DEF m
<1>4. Then(m, ToCall("ArmTransactionTimer", p)) \in Work /\ Then(m, ToCall("ArmTransactionTimer", p)).peer = m.peer
  BY <1>2, <1>3, ThenType
<1> QED
  BY <1>3, <1>4 DEF m

LEMMA ProcessPendingType ==
  ASSUME NEW n \in Work, NEW p \in Peer
  PROVE  ProcessPending(n, p) \in Work
<1>1. CASE ProcessPending(n, p) = n
  BY <1>1
<1>2. CASE ProcessPending(n, p) # n
  <2>1. PICK id \in Id : /\ n.peer[p].pending # << >>
                         /\ ProcessPending(n, p) = Do(Then(Put(n, p, Taken(n.peer[p], id)), ToCall("ArmTransactionTimer", p)), p)
    BY <1>2, ProcessPendingCases
  <2> DEFINE m == Then(Put(n, p, Taken(n.peer[p], id)), ToCall("ArmTransactionTimer", p))
  <2>2. m \in Work /\ m.peer[p] = Taken(n.peer[p], id)
    BY <2>1, TakingType
  <2>3. m.peer[p].current # None
    BY <2>1, <2>2, TakenType DEF Work
  <2> HIDE DEF m
  <2> QED
    BY <2>1, <2>2, <2>3, DoType DEF m
<1> QED
  BY <1>1, <1>2

(* The procedures and the transactions of t are those of s. *)
Alike(s, t) ==
  /\ t \in PeerState /\ t.proc = s.proc /\ t.acq = s.acq /\ t.current = s.current
  /\ t.pending = s.pending /\ t.ctx \in {s.ctx, "usable"}

(* The calls that leave procedures and transactions as they are. *)
LEMMA TouchCases ==
  ASSUME NEW n \in Work, NEW p \in Peer
  PROVE  /\ \E t \in PeerState : Alike(n.peer[p], t) /\ Changes(n, ArmTransactionTimer(n, p), p, t)
         /\ \E t \in PeerState : Alike(n.peer[p], t) /\ Changes(n, Respond(n, p), p, t)
         /\ \E t \in PeerState : Alike(n.peer[p], t) /\ Changes(n, EraseKey(n, p), p, t)
<1> DEFINE s == n.peer[p]
           t == [s EXCEPT !.orphans = IF s.armed THEN @ + 1 ELSE @, !.armed = TRUE]
           u == [s EXCEPT !.ctx = "usable", !.known = TRUE]
           v == [s EXCEPT !.key = FALSE]
<1>1. s \in PeerState
  BY DEF Work
<1>2. ArmTransactionTimer(n, p) = Put(n, p, t) /\ Respond(n, p) = Put(n, p, u) /\ EraseKey(n, p) = Put(n, p, v)
  BY DEF ArmTransactionTimer, Respond, EraseKey, Put, Work
<1> HIDE DEF s
<1>3. (IF s.armed THEN s.orphans + 1 ELSE s.orphans) \in Nat
  BY <1>1 DEF PeerState
<1>4. t \in PeerState /\ u \in PeerState /\ v \in PeerState
  BY <1>1, <1>3 DEF PeerState
<1>5. Alike(s, t) /\ Alike(s, u) /\ Alike(s, v)
  BY <1>1, <1>4 DEF PeerState, Alike
<1> HIDE DEF t, u, v
<1> QED
  BY <1>2, <1>4, <1>5, PutChanges DEF s

LEMMA TouchType ==
  ASSUME NEW n \in Work, NEW p \in Peer
  PROVE  /\ ArmTransactionTimer(n, p) \in Work /\ Respond(n, p) \in Work /\ EraseKey(n, p) \in Work
  BY TouchCases DEF Changes

LEMMA AbortSenderType ==
  ASSUME NEW n \in Work, NEW p \in Peer
  PROVE  AbortSender(n, p) \in Work
  BY ResetTransactionType, FinishSecurityType DEF AbortSender

(* What is left of a peer that is erased. *)
LEMMA EraseIs ==
  ASSUME NEW n \in Work, NEW p \in Peer
  PROVE  \E t \in PeerState :
           /\ t.proc = None /\ t.acq = None /\ t.current = None /\ t.pending = << >>
           /\ Erase(n, p) \in Work /\ Erase(n, p).peer[p] = t
           /\ \A q \in Peer \ {p} : Erase(n, p).peer[q] = n.peer[q]
           /\ Erase(n, p).calls = n.calls /\ Erase(n, p).collecting = n.collecting
           /\ Erase(n, p).retry = n.retry
           /\ Erase(n, p).ongoing = IF n.ongoing = p THEN None ELSE n.ongoing
<1> DEFINE t == [Absent EXCEPT !.key = n.peer[p].key]
<1>1. n.peer[p] \in PeerState
  BY DEF Work
<1>2. /\ t \in PeerState /\ t.proc = None /\ t.acq = None /\ t.current = None /\ t.pending = << >>
  <2>1. 0 \in 0 .. NumPairs /\ << >> \in Seq(Transaction)
    BY ConstantsAssumption
  <2>2. n.peer[p].key \in BOOLEAN
    BY <1>1 DEF PeerState
  <2>3. Absent \in PeerState
    BY <2>1 DEF PeerState, Absent
  <2>4. /\ Absent.proc = None /\ Absent.acq = None /\ Absent.current = None
        /\ Absent.pending = << >>
    BY DEF Absent
  <2> HIDE DEF Absent
  <2> QED
    BY <2>2, <2>3, <2>4 DEF PeerState
<1>3. Erase(n, p) = [n EXCEPT !.peer[p] = t, !.candidates = @ \ {p},
                              !.ongoing = IF @ = p THEN None ELSE @]
  BY DEF Erase
<1> HIDE DEF t
<1> DEFINE e == Erase(n, p)
<1>4. /\ e \in Work /\ e.peer[p] = t /\ \A q \in Peer \ {p} : e.peer[q] = n.peer[q]
      /\ e.calls = n.calls /\ e.collecting = n.collecting /\ e.retry = n.retry
      /\ e.ongoing = IF n.ongoing = p THEN None ELSE n.ongoing
  <2>1. n.candidates \ {p} \in SUBSET Peer
    BY DEF Work
  <2>2. (IF n.ongoing = p THEN None ELSE n.ongoing) \in Peer \cup {None}
    BY DEF Work
  <2> DEFINE cs == n.candidates \ {p}
             o == IF n.ongoing = p THEN None ELSE n.ongoing
             ps == [n.peer EXCEPT ![p] = t]
  <2>7. e = [n EXCEPT !.peer = ps, !.candidates = cs, !.ongoing = o]
    BY <1>3
  <2>8. ps \in [Peer -> PeerState]
    BY <1>2 DEF Work
  <2>3. e \in Work
    <3> HIDE DEF e, cs, o, ps
    <3> QED
      BY <2>1, <2>2, <2>7, <2>8 DEF Work, cs, o
  <2>4. e.peer = [n.peer EXCEPT ![p] = t]
    BY <1>3 DEF Work
  <2>5. e.calls = n.calls /\ e.collecting = n.collecting /\ e.retry = n.retry
    BY <1>3 DEF Work
  <2>6. e.ongoing = IF n.ongoing = p THEN None ELSE n.ongoing
    BY <1>3 DEF Work
  <2> HIDE DEF e
  <2> QED
    BY <2>3, <2>4, <2>5, <2>6 DEF Work
<1> QED
  BY <1>2, <1>4

(* Each call is what its name says. *)
LEMMA CallCases ==
  ASSUME NEW n \in Work, NEW c \in Calls
  PROVE  \/ c.op = "StartSecurity" /\ Call(n, c) = StartSecurity(n, c.peer, c.done, c.force)
         \/ c.op = "ProcessPending" /\ Call(n, c) = ProcessPending(n, c.peer)
         \/ c.op = "ResetTransaction" /\ Call(n, c) = ResetTransaction(n, c.peer)
         \/ c.op = "ArmTransactionTimer" /\ Call(n, c) = ArmTransactionTimer(n, c.peer)
         \/ c.op = "Respond" /\ Call(n, c) = Respond(n, c.peer)
         \/ c.op = "EraseKey" /\ Call(n, c) = EraseKey(n, c.peer)
         \/ c.op = "FinishSecurity" /\ Call(n, c) = FinishSecurity(n, c.peer, FALSE)
         \/ c.op = "FinishAcquisition" /\ Call(n, c) = FinishAcquisition(n, c.peer, FALSE)
         \/ c.op = "Erase" /\ Call(n, c) = Erase(n, c.peer)
<1>1. c.op = "StartSecurity" => Call(n, c) = StartSecurity(n, c.peer, c.done, c.force)
  BY DEF Call
<1>2. /\ c.op = "ProcessPending" => Call(n, c) = ProcessPending(n, c.peer)
      /\ c.op = "ResetTransaction" => Call(n, c) = ResetTransaction(n, c.peer)
      /\ c.op = "ArmTransactionTimer" => Call(n, c) = ArmTransactionTimer(n, c.peer)
  BY DEF Call
<1>3. /\ c.op = "Respond" => Call(n, c) = Respond(n, c.peer)
      /\ c.op = "EraseKey" => Call(n, c) = EraseKey(n, c.peer)
      /\ c.op = "FinishSecurity" => Call(n, c) = FinishSecurity(n, c.peer, FALSE)
  BY DEF Call
<1>4. /\ c.op = "FinishAcquisition" => Call(n, c) = FinishAcquisition(n, c.peer, FALSE)
      /\ c.op = "Erase" => Call(n, c) = Erase(n, c.peer)
  BY DEF Call
<1>5. c.op \in Operations
  BY DEF Calls
<1> QED
  BY <1>1, <1>2, <1>3, <1>4, <1>5 DEF Operations

(* Each call leaves a working copy. *)
LEMMA CallPreservesType ==
  ASSUME NEW n \in Work, NEW c \in Calls
  PROVE  Call(n, c) \in Work
<1>1. c.peer \in Peer /\ c.done \in BOOLEAN /\ c.force \in BOOLEAN
  BY DEF Calls
<1>2. CASE c.op \in {"StartSecurity", "ProcessPending", "FinishSecurity", "FinishAcquisition"}
  <2>1. StartSecurity(n, c.peer, c.done, c.force) \in Work
    BY <1>1, StartSecurityType
  <2>2. /\ ProcessPending(n, c.peer) \in Work /\ FinishSecurity(n, c.peer, FALSE) \in Work
        /\ FinishAcquisition(n, c.peer, FALSE) \in Work
    BY <1>1, ProcessPendingType, FinishSecurityType, FinishAcquisitionType
  <2> QED
    BY <1>2, <2>1, <2>2, CallCases
<1>3. CASE c.op \in {"ResetTransaction", "ArmTransactionTimer", "Respond", "EraseKey", "Erase"}
  <2>1. /\ ResetTransaction(n, c.peer) \in Work /\ ArmTransactionTimer(n, c.peer) \in Work
        /\ Respond(n, c.peer) \in Work /\ EraseKey(n, c.peer) \in Work /\ Erase(n, c.peer) \in Work
    BY <1>1, ResetTransactionType, TouchType, EraseIs
  <2> QED
    BY <1>3, <2>1, CallCases
<1> QED
  BY <1>2, <1>3 DEF Calls, Operations

(* n without the call that is made. *)
Popped(n) == [n EXCEPT !.calls = Tail(@)]

LEMMA PoppedType ==
  ASSUME NEW n \in Work, n.calls # << >>
  PROVE  /\ Popped(n) \in Work /\ Popped(n).calls = Tail(n.calls) /\ Popped(n).peer = n.peer
         /\ Popped(n).ongoing = n.ongoing /\ Popped(n).collecting = n.collecting
         /\ Popped(n).retry = n.retry
         /\ Head(n.calls) \in Calls
         /\ MakeCall(n) = Call(Popped(n), Head(n.calls))
<1>1. Tail(n.calls) \in Seq(Calls) /\ Head(n.calls) \in Calls
  BY DEF Work
<1> QED
  BY <1>1 DEF Work, Popped, MakeCall

LEMMA MakeCallType ==
  ASSUME NEW n \in Work
  PROVE  MakeCall(n) \in Work
<1>1. CASE n.calls = << >>
  BY <1>1 DEF MakeCall
<1>2. CASE n.calls # << >>
  BY <1>2, PoppedType, CallPreservesType
<1> QED
  BY <1>1, <1>2

(* Induction on the calls made. *)
IsRun(f, k, n) == f = [i \in 0 .. k |-> IF i = 0 THEN n ELSE MakeCall(f[i - 1])]

(* The recursion of Run is defined up to MaxCalls. *)
LEMMA RunExists ==
  ASSUME NEW n, NEW k \in Nat
  PROVE  \E f : IsRun(f, k, n)
<1> DEFINE Missing == {j \in Nat : ~ \E f : IsRun(f, j, n)}
<1> SUFFICES ASSUME Missing # {} PROVE FALSE
  OBVIOUS
<1>1. PICK j \in Missing : \A i \in Missing : j <= i
  <2>1. Missing \in SUBSET Nat
    OBVIOUS
  <2> HIDE DEF Missing
  <2> QED
    BY <2>1, LeastIndex
<1>2. j # 0
  <2>1. SUFFICES ASSUME j = 0 PROVE \E f : IsRun(f, 0, n)
    BY <1>1
  <2> DEFINE f == [i \in 0 .. 0 |-> n]
  <2>2. f = [i \in 0 .. 0 |-> IF i = 0 THEN n ELSE MakeCall(f[i - 1])]
    OBVIOUS
  <2> HIDE DEF f
  <2> QED
    BY <2>2 DEF IsRun
<1>3. PICK g : IsRun(g, j - 1, n)
  BY <1>1, <1>2
<1> DEFINE f == [i \in 0 .. j |-> IF i = j THEN MakeCall(g[j - 1]) ELSE g[i]]
<1>4. j \in Nat /\ j - 1 \in Nat
  BY <1>1, <1>2
<1>5. \A i \in 0 .. j - 1 : g[i] = IF i = 0 THEN n ELSE MakeCall(g[i - 1])
  BY <1>3 DEF IsRun
<1>6. \A i \in 0 .. j : f[i] = IF i = 0 THEN n ELSE MakeCall(f[i - 1])
  BY <1>2, <1>4, <1>5
<1>7. f = [i \in 0 .. j |-> f[i]]
  OBVIOUS
<1> HIDE DEF f
<1>8. IsRun(f, j, n)
  BY <1>6, <1>7 DEF IsRun
<1> QED
  BY <1>1, <1>8

(* What every call preserves Run preserves. *)
LEMMA RunInduction ==
  ASSUME NEW S, NEW n \in S, \A m \in S : MakeCall(m) \in S
  PROVE  Run(n) \in S
<1> DEFINE f == CHOOSE f : IsRun(f, MaxCalls, n)
<1>1. MaxCalls \in Nat
  BY ConstantsAssumption
<1>2. IsRun(f, MaxCalls, n)
  BY <1>1, RunExists
<1>3. Run(n) = f[MaxCalls]
  BY DEF Run, IsRun
<1> HIDE DEF f
<1>4. \A i \in 0 .. MaxCalls : f[i] = IF i = 0 THEN n ELSE MakeCall(f[i - 1])
  BY <1>2 DEF IsRun
<1> DEFINE Missing == {j \in 0 .. MaxCalls : f[j] \notin S}
<1>5. ASSUME Missing # {} PROVE FALSE
  <2>1. PICK j \in Missing : \A i \in Missing : j <= i
    <3>1. Missing \in SUBSET Nat
      BY <1>1
    <3> HIDE DEF Missing
    <3> QED
      BY <1>5, <3>1, LeastIndex
  <2>2. CASE j = 0
    BY <1>1, <1>4, <2>1, <2>2
  <2>3. CASE j # 0
    <3>1. j - 1 \in 0 .. MaxCalls /\ j - 1 \notin Missing
      BY <1>1, <2>1, <2>3
    <3>2. f[j - 1] \in S /\ f[j] = MakeCall(f[j - 1])
      BY <1>4, <2>1, <2>3, <3>1
    <3> QED
      BY <2>1, <3>2
  <2> QED
    BY <2>2, <2>3
<1> QED
  BY <1>1, <1>3, <1>5

LEMMA RunType == ASSUME NEW n \in Work PROVE Run(n) \in Work
  BY RunInduction, MakeCallType

LEMMA BeginType ==
  ASSUME node \in NodeState, NEW o \in Orders
  PROVE  /\ Begin(o) \in Work /\ Begin(o).calls = << >>
         /\ Begin(o).peer = node.peer /\ Begin(o).candidates = node.candidates
         /\ Begin(o).ongoing = node.ongoing /\ Begin(o).collecting = node.collecting
         /\ Begin(o).retry = node.retry
<1>1. << >> \in Seq(Calls)
  OBVIOUS
<1> QED
  BY <1>1 DEF Begin, Work, NodeState

LEMMA FinishType ==
  ASSUME NEW n \in Work, NEW rest, rest \subseteq Message, Finish(n, rest)
  PROVE  TypeOK'
<1>1. Run(n) \in Work
  BY RunType
<1> DEFINE r == Run(n)
<1>2. /\ node' = [peer |-> r.peer, candidates |-> r.candidates, ongoing |-> r.ongoing,
                  collecting |-> r.collecting, retry |-> r.retry]
      /\ wire' = rest \cup r.out
  BY DEF Finish
<1> HIDE DEF r
<1>3. r \in Work
  BY <1>1 DEF r
<1> QED
  BY <1>2, <1>3 DEF TypeOK, NodeState, Work

-----------------------------------------------------------------------------
(* The handlers. *)

(* m differs from n in the state of p, which is t, where the procedures and *)
(* the transactions are the same.                                           *)
Touches(n, m, p) == \E t \in PeerState : Alike(n.peer[p], t) /\ Changes(n, m, p, t)

LEMMA TouchesPut ==
  ASSUME NEW n \in Work, NEW p \in Peer, NEW t \in PeerState, Alike(n.peer[p], t)
  PROVE  Touches(n, Put(n, p, t), p)
  BY PutChanges DEF Touches

(* The state of a peer whose request is sent again. *)
Retried(s) == [s EXCEPT !.acq.retries = @ + 1]

LEMMA RetriedType ==
  ASSUME NEW s \in PeerState, s.acq # None
  PROVE  /\ Retried(s) \in PeerState /\ Retried(s).acq # None /\ Retried(s).acq.id = s.acq.id
         /\ Retried(s).proc = s.proc /\ Retried(s).current = s.current
         /\ Retried(s).pending = s.pending /\ Retried(s).ctx = s.ctx
<1> DEFINE acq == [s.acq EXCEPT !.retries = @ + 1]
<1>1. s.acq \in KeyProcedure
  BY DEF PeerState
<1>2. acq \in KeyProcedure /\ acq.id = s.acq.id
  BY <1>1 DEF KeyProcedure
<1>3. Retried(s) = [s EXCEPT !.acq = acq]
  BY DEF Retried, PeerState
<1> HIDE DEF acq
<1> QED
  BY <1>2, <1>3, NoneAssumption DEF PeerState

(* The timer of a transaction: nothing happens, it is completed, or do_cb  *)
(* runs again.                                                             *)
LEMMA ExpireCases ==
  ASSUME NEW n \in Work, NEW p \in Peer
  PROVE  \/ ExpireTransaction(n, p) = n
         \/ /\ n.peer[p].current # None /\ n.peer[p].current.tx = Security
            /\ n.peer[p].proc # None /\ n.peer[p].proc.mid = n.peer[p].current.id
            /\ ExpireTransaction(n, p) = Do(n, p)
         \/ /\ n.peer[p].current # None /\ n.peer[p].acq # None
            /\ n.peer[p].current.tx = Keys(n.peer[p].acq.id)
            /\ \/ ExpireTransaction(n, p) = CompleteTransaction(n, p, n.peer[p].current.id, FALSE)
               \/ ExpireTransaction(n, p) = Do(Put(n, p, Retried(n.peer[p])), p)
<1> DEFINE s == n.peer[p]
<1>1. s \in PeerState
  BY DEF Work
<1>2. CASE s.current = None
  BY <1>2 DEF ExpireTransaction
<1>3. CASE s.current # None
  <2>1. s.current.tx \in Transaction
    BY <1>1, <1>3 DEF PeerState, CurrentTransaction
  <2>2. [n EXCEPT !.peer[p].acq.retries = @ + 1] = Put(n, p, Retried(s))
    BY DEF Put, Retried
  <2>3. CASE s.current.tx.kind = "security"
    <3>1. s.current.tx = Security
      BY <2>1, <2>3, TransactionType
    <3> QED
      BY <1>3, <2>3, <3>1 DEF ExpireTransaction, ExpireSecurity
  <2>4. CASE s.current.tx.kind # "security"
    <3>1. s.current.tx = Keys(s.current.tx.req)
      BY <2>1, <2>4, TransactionType
    <3>2. ExpireTransaction(n, p) = ExpireKeys(n, p)
      BY <1>3, <2>4 DEF ExpireTransaction
    <3> QED
      BY <1>3, <2>2, <3>1, <3>2 DEF ExpireKeys
  <2> QED
    BY <2>3, <2>4
<1> QED
  BY <1>2, <1>3

LEMMA ExpireType ==
  ASSUME NEW n \in Work, NEW p \in Peer
  PROVE  ExpireTransaction(n, p) \in Work
<1>1. CASE ExpireTransaction(n, p) = Do(Put(n, p, Retried(n.peer[p])), p) /\ n.peer[p].current # None /\ n.peer[p].acq # None
  <2> DEFINE m == Put(n, p, Retried(n.peer[p]))
  <2>1. Retried(n.peer[p]) \in PeerState /\ Retried(n.peer[p]).current = n.peer[p].current
    BY <1>1, RetriedType DEF Work
  <2>2. m \in Work /\ m.peer[p] = Retried(n.peer[p])
    BY <2>1, PutType
  <2> HIDE DEF m
  <2> QED
    BY <1>1, <2>1, <2>2, DoType DEF m
<1>2. CompleteTransaction(n, p, n.peer[p].current.id, FALSE) \in Work
  BY CompleteTransactionType
<1> QED
  BY <1>1, <1>2, ExpireCases, DoType

(* MSG1 of the peer: answered, dropped, or answered after the abort. *)
LEMMA HandleMsg1Cases ==
  ASSUME NEW n \in Work, NEW p \in Peer, NEW arbitration, NEW accepted \in BOOLEAN
  PROVE  \/ HandleMsg1(n, p, arbitration, accepted) = n
         \/ \E c \in {ToCall("Respond", p), SecurityCall(p, FALSE, TRUE)} :
              HandleMsg1(n, p, arbitration, accepted) \in
                {Then(n, ToCall("Respond", p)), AbortSender(n, p), AbortSender(Then(n, c), p)}
  BY DEF HandleMsg1

LEMMA HandleMsg1Type ==
  ASSUME NEW n \in Work, NEW p \in Peer, NEW arbitration, NEW accepted \in BOOLEAN
  PROVE  HandleMsg1(n, p, arbitration, accepted) \in Work
<1>1. \A c \in {ToCall("Respond", p), SecurityCall(p, FALSE, TRUE)} : c \in Calls
  BY CallType DEF Operations
<1>2. \A c \in {ToCall("Respond", p), SecurityCall(p, FALSE, TRUE)} : Then(n, c) \in Work /\ AbortSender(Then(n, c), p) \in Work
  BY <1>1, ThenType, AbortSenderType
<1> QED
  <2>1. AbortSender(n, p) \in Work /\ Then(n, ToCall("Respond", p)) \in Work
    BY <1>2, AbortSenderType
  <2>2. CASE HandleMsg1(n, p, arbitration, accepted) = n
    BY <2>2
  <2>3. CASE HandleMsg1(n, p, arbitration, accepted) # n
    <3>1. PICK c \in {ToCall("Respond", p), SecurityCall(p, FALSE, TRUE)} :
            HandleMsg1(n, p, arbitration, accepted) \in
              {Then(n, ToCall("Respond", p)), AbortSender(n, p), AbortSender(Then(n, c), p)}
      BY <2>3, HandleMsg1Cases
    <3> QED
      BY <1>2, <2>1, <3>1
  <2> QED
    BY <2>2, <2>3

(* What follows the transaction. *)
LEMMA HandleMsg2Cases ==
  ASSUME NEW n \in Work, NEW p \in Peer, NEW id,
         NEW status \in {"OK", "UNSUPPORTED", "VERIFICATION_FAILED", "UNKNOWN_PEER"}
  PROVE  \/ HandleMsg2(n, p, id, status) = CompleteTransaction(n, p, id, FALSE)
         \/ HandleMsg2(n, p, id, status) = CompleteTransaction(n, p, id, TRUE)
         \/ HandleMsg2(n, p, id, status) = CompleteTransaction(Then(n, ToCall("EraseKey", p)), p, id, FALSE)
         \/ HandleMsg2(n, p, id, status) = CompleteTransaction(Respond(n, p), p, id, TRUE)
         \/ /\ status = "UNSUPPORTED"
            /\ \E done \in BOOLEAN, m \in Work :
                 /\ Touches(Then(n, SecurityCall(p, done, TRUE)), m, p)
                 /\ HandleMsg2(n, p, id, status) = CompleteTransaction(m, p, id, FALSE)
<1> DEFINE s == n.peer[p]
           k == Then(n, SecurityCall(p, s.proc.done, TRUE))
           t == [s EXCEPT !.known = FALSE]
<1>1. s \in PeerState
  BY DEF Work
<1>2. CASE s.proc = None \/ ~s.key
  BY <1>2 DEF HandleMsg2
<1>3. CASE s.proc # None /\ s.key /\ status = "UNSUPPORTED"
  <2>1. s.proc.done \in BOOLEAN
    BY <1>1, <1>3 DEF PeerState, SecurityProcedure
  <2>2. k \in Work /\ k.peer[p] = s
    BY <2>1, ThenType, CallType
  <2>3. t \in PeerState /\ Alike(s, t)
    BY <1>1 DEF PeerState, Alike
  <2>4. [k EXCEPT !.peer[p].known = FALSE] = Put(k, p, t)
    BY <2>2 DEF Put, Work
  <2>5. HandleMsg2(n, p, id, status) = CompleteTransaction(Put(k, p, t), p, id, FALSE)
    BY <1>3, <2>4 DEF HandleMsg2
  <2> HIDE DEF k, t
  <2>6. Touches(k, Put(k, p, t), p) /\ Put(k, p, t) \in Work
    BY <2>2, <2>3, TouchesPut, PutType
  <2> QED
    BY <1>3, <2>1, <2>5, <2>6 DEF k
<1>4. CASE s.proc # None /\ s.key /\ status # "UNSUPPORTED"
  BY <1>4 DEF HandleMsg2
<1> QED
  BY <1>2, <1>3, <1>4

LEMMA HandleMsg2Type ==
  ASSUME NEW n \in Work, NEW p \in Peer, NEW id,
         NEW status \in {"OK", "UNSUPPORTED", "VERIFICATION_FAILED", "UNKNOWN_PEER"}
  PROVE  HandleMsg2(n, p, id, status) \in Work
<1>1. Then(n, ToCall("EraseKey", p)) \in Work /\ Respond(n, p) \in Work
  BY CallType, ThenType, TouchType DEF Operations
<1>2. \A m \in Work, ok \in BOOLEAN : CompleteTransaction(m, p, id, ok) \in Work
  BY CompleteTransactionType
<1> QED
  <2>1. /\ CompleteTransaction(n, p, id, FALSE) \in Work /\ CompleteTransaction(n, p, id, TRUE) \in Work
        /\ CompleteTransaction(Then(n, ToCall("EraseKey", p)), p, id, FALSE) \in Work
        /\ CompleteTransaction(Respond(n, p), p, id, TRUE) \in Work
    BY <1>1, <1>2
  <2>2. \A m \in Work : CompleteTransaction(m, p, id, FALSE) \in Work
    BY <1>2
  <2>3. \/ HandleMsg2(n, p, id, status) \in
             {CompleteTransaction(n, p, id, FALSE), CompleteTransaction(n, p, id, TRUE),
              CompleteTransaction(Then(n, ToCall("EraseKey", p)), p, id, FALSE),
              CompleteTransaction(Respond(n, p), p, id, TRUE)}
        \/ \E m \in Work : HandleMsg2(n, p, id, status) = CompleteTransaction(m, p, id, FALSE)
    <3> DEFINE a == CompleteTransaction(n, p, id, FALSE)
               b == CompleteTransaction(n, p, id, TRUE)
               e == CompleteTransaction(Then(n, ToCall("EraseKey", p)), p, id, FALSE)
               r == CompleteTransaction(Respond(n, p), p, id, TRUE)
               h == HandleMsg2(n, p, id, status)
    <3>1. h = a \/ h = b \/ h = e \/ h = r \/ \E m \in Work : h = CompleteTransaction(m, p, id, FALSE)
      BY HandleMsg2Cases, Zenon
    <3> HIDE DEF a, b, e, r, h
    <3>2. h \in {a, b, e, r} \/ \E m \in Work : h = CompleteTransaction(m, p, id, FALSE)
      BY <3>1
    <3> QED
      BY <3>2 DEF a, b, e, r, h
  <2> QED
    BY <2>1, <2>2, <2>3

(* The keys end the current transaction, or the acquisition without one. *)
LEMMA HandleResponseCases ==
  ASSUME NEW n \in Work, NEW p \in Peer, NEW id
  PROVE  \/ HandleResponse(n, p, id) = n
         \/ n.peer[p].current = None /\ HandleResponse(n, p, id) = FinishAcquisition(n, p, TRUE)
         \/ HandleResponse(n, p, id) = CompleteTransaction(n, p, n.peer[p].current.id, TRUE)
  BY DEF HandleResponse

LEMMA HandleResponseType ==
  ASSUME NEW n \in Work, NEW p \in Peer, NEW id
  PROVE  HandleResponse(n, p, id) \in Work
<1>1. CompleteTransaction(n, p, n.peer[p].current.id, TRUE) \in Work /\ FinishAcquisition(n, p, TRUE) \in Work
  BY CompleteTransactionType, FinishAcquisitionType
<1> QED
  BY <1>1, HandleResponseCases

(* peer_cleanup makes the calls that finish the procedures of p, and erases *)
(* it last.                                                                 *)
LEMMA CleanupIs ==
  ASSUME NEW n \in Work, NEW p \in Peer
  PROVE  \E t \in PeerState :
           /\ t.proc = n.peer[p].proc /\ t.acq = n.peer[p].acq /\ t.ctx = n.peer[p].ctx
           /\ Cleanup(n, p) \in Work /\ Cleanup(n, p).peer[p] = t
           /\ \A q \in Peer \ {p} : Cleanup(n, p).peer[q] = n.peer[q]
           /\ Cleanup(n, p).ongoing = n.ongoing /\ Cleanup(n, p).collecting = n.collecting
           /\ Cleanup(n, p).retry = n.retry
           /\ Cleanup(n, p).calls # << >>
           /\ Cleanup(n, p).calls[Len(Cleanup(n, p).calls)] = ToCall("Erase", p)
           /\ \A i \in DOMAIN Cleanup(n, p).calls :
                \/ i = Len(Cleanup(n, p).calls)
                \/ Cleanup(n, p).calls[i] \in {ToCall("FinishSecurity", p), ToCall("FinishAcquisition", p)}
<1> DEFINE s == n.peer[p]
           txs == (IF s.current = None THEN <<>> ELSE <<s.current.tx>>) \o s.pending
           Finishing(tx) == IF tx.kind = "security" THEN "FinishSecurity" ELSE "FinishAcquisition"
           first == [i \in DOMAIN txs |-> ToCall(Finishing(txs[i]), p)]
           rest == <<ToCall("FinishSecurity", p), ToCall("FinishAcquisition", p), ToCall("Erase", p)>>
           cs == first \o rest
           t == [Idle(s) EXCEPT !.pending = << >>]
           F == {ToCall("FinishSecurity", p), ToCall("FinishAcquisition", p)}
<1>1. s \in PeerState
  BY DEF Work
<1>2. txs \in Seq(Transaction)
  <2>1. s.pending \in Seq(Transaction) /\ << >> \in Seq(Transaction)
    BY <1>1 DEF PeerState
  <2>2. s.current # None => <<s.current.tx>> \in Seq(Transaction)
    BY <1>1 DEF PeerState, CurrentTransaction
  <2> QED
    BY <2>1, <2>2, ConcatProperties
<1>3. ToCall("FinishSecurity", p) \in Calls /\ ToCall("FinishAcquisition", p) \in Calls /\ ToCall("Erase", p) \in Calls
  BY CallType DEF Operations
<1> HIDE DEF txs
<1>4. first \in Seq(Calls) /\ \A i \in DOMAIN first : first[i] \in F
  <2>1. Len(txs) \in Nat /\ DOMAIN txs = 1 .. Len(txs)
    BY <1>2
  <2> DEFINE l == Len(txs)
  <2>2. first = [i \in 1 .. l |-> ToCall(Finishing(txs[i]), p)] /\ l \in Nat
    BY <2>1
  <2>3. \A i \in 1 .. l : ToCall(Finishing(txs[i]), p) \in F
    OBVIOUS
  <2> HIDE DEF txs, l, first, Finishing
  <2> QED
    BY <1>3, <2>2, <2>3
<1>5. rest \in Seq(Calls) /\ Len(rest) = 3 /\ rest[1] \in F /\ rest[2] \in F /\ rest[3] = ToCall("Erase", p)
  BY <1>3
<1>6. /\ cs \in Seq(Calls) /\ cs # << >> /\ cs[Len(cs)] = ToCall("Erase", p)
      /\ \A i \in DOMAIN cs : i = Len(cs) \/ cs[i] \in F
  <2> HIDE DEF first, rest, F
  <2>4. /\ cs \in Seq(Calls) /\ Len(cs) = Len(first) + Len(rest)
        /\ \A i \in 1 .. Len(first) + Len(rest) : cs[i] = IF i <= Len(first) THEN first[i] ELSE rest[i - Len(first)]
    BY <1>4, <1>5, ConcatProperties, Zenon
  <2> HIDE DEF cs
  <2>1. /\ cs \in Seq(Calls) /\ Len(cs) = Len(first) + 3
        /\ \A i \in 1 .. Len(first) + 3 : cs[i] = IF i <= Len(first) THEN first[i] ELSE rest[i - Len(first)]
    BY <1>5, <2>4
  <2>2. Len(first) \in Nat /\ DOMAIN cs = 1 .. Len(first) + 3 /\ DOMAIN first = 1 .. Len(first)
    BY <1>4, <2>1
  <2>3. \A i \in DOMAIN cs : i = Len(cs) \/ cs[i] \in F
    <3> SUFFICES ASSUME NEW i \in 1 .. Len(first) + 3, i # Len(first) + 3 PROVE cs[i] \in F
      BY <2>1, <2>2
    <3>1. CASE i <= Len(first)
      <4>1. cs[i] = first[i] /\ i \in 1 .. Len(first)
        BY <2>1, <2>2, <3>1
      <4> QED
        BY <1>4, <2>2, <4>1
    <3>2. CASE i = Len(first) + 1
      BY <1>5, <2>1, <2>2, <3>2
    <3>3. CASE i = Len(first) + 2
      BY <1>5, <2>1, <2>2, <3>3
    <3> QED
      BY <2>2, <3>1, <3>2, <3>3
  <2> QED
    BY <1>5, <2>1, <2>2, <2>3
<1>7. t \in PeerState /\ t.proc = s.proc /\ t.acq = s.acq /\ t.ctx = s.ctx
  <2>1. << >> \in Seq(Transaction)
    OBVIOUS
  <2> QED
    BY <1>1, <2>1, IdleType DEF PeerState
<1>8. Cleanup(n, p) = [Put(n, p, t) EXCEPT !.calls = cs]
  <2>1. [ResetTransaction(n, p) EXCEPT !.peer[p].pending = << >>] = Put(n, p, t)
    BY DEF ResetTransaction, Idle, Put, Work
  <2> QED
    BY <2>1, Zenon DEF Cleanup, txs
<1> HIDE DEF t, cs, F
<1>9. /\ Put(n, p, t) \in Work /\ Put(n, p, t).peer[p] = t
      /\ \A q \in Peer \ {p} : Put(n, p, t).peer[q] = n.peer[q]
      /\ Put(n, p, t).ongoing = n.ongoing /\ Put(n, p, t).collecting = n.collecting
      /\ Put(n, p, t).retry = n.retry
  BY <1>7, PutType
<1> DEFINE e == Cleanup(n, p)
<1>10. /\ e \in Work /\ e.peer = Put(n, p, t).peer /\ e.calls = cs
       /\ e.ongoing = n.ongoing /\ e.collecting = n.collecting /\ e.retry = n.retry
  BY <1>6, <1>8, <1>9 DEF Work
<1> QED
  BY <1>6, <1>7, <1>9, <1>10 DEF F

-----------------------------------------------------------------------------
(* The actions. *)

LEMMA TransactionTimeoutIs ==
  ASSUME node \in NodeState, NEW p \in Peer, TransactionTimeout(p)
  PROVE  \E o \in Orders, m \in Work :
           Touches(Begin(o), m, p) /\ Finish(ExpireTransaction(m, p), wire)
<1>1. PICK o \in Orders :
        \/ /\ node.peer[p].armed
           /\ Finish(ExpireTransaction([Begin(o) EXCEPT !.peer[p].armed = FALSE], p), wire)
        \/ /\ node.peer[p].orphans > 0
           /\ Finish(ExpireTransaction([Begin(o) EXCEPT !.peer[p].orphans = @ - 1], p), wire)
  BY DEF TransactionTimeout
<1> DEFINE n == Begin(o)
           s == n.peer[p]
           t == [s EXCEPT !.armed = FALSE]
           u == [s EXCEPT !.orphans = @ - 1]
<1>2. n \in Work /\ n.peer = node.peer
  BY BeginType
<1> HIDE DEF n
<1>3. s \in PeerState
  BY <1>2 DEF Work
<1>4. [n EXCEPT !.peer[p].armed = FALSE] = Put(n, p, t) /\ [n EXCEPT !.peer[p].orphans = @ - 1] = Put(n, p, u)
  BY DEF Put
<1> HIDE DEF s
<1>5. CASE Finish(ExpireTransaction(Put(n, p, t), p), wire)
  <2>1. t \in PeerState /\ Alike(s, t)
    BY <1>3 DEF PeerState, Alike
  <2> HIDE DEF t
  <2>2. Put(n, p, t) \in Work /\ Touches(n, Put(n, p, t), p)
    BY <1>2, <2>1, PutType, TouchesPut DEF s
  <2> QED
    BY <1>5, <2>2 DEF n
<1>6. CASE s.orphans > 0 /\ Finish(ExpireTransaction(Put(n, p, u), p), wire)
  <2>1. u \in PeerState /\ Alike(s, u)
    <3>1. s.orphans - 1 \in Nat
      BY <1>3, <1>6 DEF PeerState
    <3> QED
      BY <1>3, <3>1 DEF PeerState, Alike
  <2> HIDE DEF u
  <2>2. Put(n, p, u) \in Work /\ Touches(n, Put(n, p, u), p)
    BY <1>2, <2>1, PutType, TouchesPut DEF s
  <2> QED
    BY <1>6, <2>2 DEF n
<1> QED
  BY <1>1, <1>2, <1>4, <1>5, <1>6 DEF n, s

LEMMA CollectTimerIs ==
  ASSUME node \in NodeState, CollectTimer
  PROVE  \E m \in Work :
           /\ m.peer = node.peer /\ m.calls = << >> /\ m.ongoing = None /\ ~m.collecting
           /\ m.retry = node.retry
           /\ Finish(StartNext(m), wire)
<1>1. PICK expired \in SUBSET node.candidates, o \in Orders :
        Finish(StartNext([Begin(o) EXCEPT !.collecting = FALSE, !.ongoing = None,
                            !.candidates = {p \in @ \ expired : node.peer[p].present}]), wire)
  BY Zenon DEF CollectTimer
<1> DEFINE n == Begin(o)
           cs == {p \in n.candidates \ expired : node.peer[p].present}
           m == [n EXCEPT !.collecting = FALSE, !.ongoing = None, !.candidates = cs]
<1>2. n \in Work /\ n.peer = node.peer /\ n.calls = << >> /\ n.retry = node.retry /\ n.candidates = node.candidates
  BY BeginType
<1>3. cs \in SUBSET Peer
  BY <1>2 DEF Work
<1>4. Finish(StartNext(m), wire)
  BY <1>1
<1> HIDE DEF n, cs
<1>5. /\ m \in Work /\ m.peer = node.peer /\ m.calls = << >> /\ m.ongoing = None /\ ~m.collecting
      /\ m.retry = node.retry
  BY <1>2, <1>3 DEF Work
<1> QED
  BY <1>4, <1>5

LEMMA ContextExpiringIs ==
  ASSUME node \in NodeState, NEW p \in Peer, ContextExpiring(p)
  PROVE  /\ "expire" \in Environment[p]
         /\ \E o \in Orders, t \in PeerState, m \in Work :
              /\ t.proc = node.peer[p].proc /\ t.acq = node.peer[p].acq
              /\ t.current = node.peer[p].current /\ t.pending = node.peer[p].pending
              /\ Changes(Begin(o), m, p, t)
              /\ Finish(StartSecurity(m, p, FALSE, FALSE), wire)
<1>1. PICK o \in Orders :
        Finish(StartSecurity([Begin(o) EXCEPT !.peer[p].ctx = "expiring"], p, FALSE, FALSE), wire)
  BY DEF ContextExpiring
<1> DEFINE n == Begin(o)
           s == n.peer[p]
           t == [s EXCEPT !.ctx = "expiring"]
<1>2. n \in Work /\ n.peer = node.peer
  BY BeginType
<1>3. [n EXCEPT !.peer[p].ctx = "expiring"] = Put(n, p, t)
  BY DEF Put
<1>4. t \in PeerState /\ t.proc = s.proc /\ t.acq = s.acq /\ t.current = s.current /\ t.pending = s.pending
  <2>1. s \in PeerState
    BY <1>2 DEF Work
  <2> HIDE DEF s
  <2> QED
    BY <2>1 DEF PeerState
<1>5. Changes(n, Put(n, p, t), p, t) /\ Put(n, p, t) \in Work
  <2> HIDE DEF n, t
  <2> QED
    BY <1>2, <1>4, PutChanges, PutType
<1>6. Finish(StartSecurity(Put(n, p, t), p, FALSE, FALSE), wire)
  BY <1>1, <1>3
<1>7. "expire" \in Environment[p]
  BY DEF ContextExpiring
<1> HIDE DEF t
<1> QED
  BY <1>2, <1>4, <1>5, <1>6, <1>7

LEMMA AnswerIs ==
  ASSUME node \in NodeState, wire \subseteq Message, NEW m \in wire, Answer(m)
  PROVE  \E o \in Orders, rest \in SUBSET Message :
           \/ \E status \in Statuses(m.to) : Finish(HandleMsg2(Begin(o), m.to, m.id, status), rest)
           \/ Finish(HandleResponse(Begin(o), m.to, m.id), rest)
  BY DEF Answer

LEMMA StatusType ==
  ASSUME NEW p, NEW status \in Statuses(p)
  PROVE  /\ status \in {"OK", "UNSUPPORTED", "VERIFICATION_FAILED", "UNKNOWN_PEER"}
         /\ status = "UNSUPPORTED" => "refuse" \in Environment[p]
  BY DEF Statuses

(* The actions that make no call. *)
LEMMA StartQueryIs ==
  ASSUME NEW n \in NodeState
  PROVE  /\ StartQuery(n) \in NodeState /\ StartQuery(n).peer = n.peer
         /\ \/ n.collecting /\ StartQuery(n) = n
            \/ /\ ~n.collecting /\ StartQuery(n).ongoing = n.ongoing
               /\ StartQuery(n).retry /\ ~StartQuery(n).collecting
            \/ /\ ~n.collecting /\ StartQuery(n).ongoing = None
               /\ ~StartQuery(n).retry /\ StartQuery(n).collecting
  BY DEF StartQuery, NodeState

LEMMA ContextOrBeaconIs ==
  ASSUME node \in NodeState, NEW p \in Peer, ContextExpired(p) \/ HandleBeacon(p)
  PROVE  /\ node' \in NodeState /\ wire' = wire
         /\ node'.ongoing = node.ongoing /\ node'.collecting = node.collecting
         /\ node'.retry = node.retry
         /\ \A q \in Peer \ {p} : node'.peer[q] = node.peer[q]
         /\ node'.peer[p].proc = node.peer[p].proc /\ node'.peer[p].acq = node.peer[p].acq
         /\ node'.peer[p].current = node.peer[p].current
         /\ node'.peer[p].pending = node.peer[p].pending
         /\ node'.peer[p].ctx # node.peer[p].ctx => "expire" \in Environment[p]
<1> DEFINE s == node.peer[p]
           t == [s EXCEPT !.ctx = "none"]
           u == [s EXCEPT !.present = TRUE, !.untried = NumPairs]
<1>1. s \in PeerState
  BY DEF NodeState
<1>2. /\ t \in PeerState /\ t.proc = s.proc /\ t.acq = s.acq /\ t.current = s.current
      /\ t.pending = s.pending
  BY <1>1 DEF PeerState
<1>3. /\ u \in PeerState /\ u.proc = s.proc /\ u.acq = s.acq /\ u.current = s.current
      /\ u.pending = s.pending /\ u.ctx = s.ctx
  <2>1. NumPairs \in 0 .. NumPairs
    BY ConstantsAssumption
  <2> QED
    BY <1>1, <2>1 DEF PeerState
<1>4. wire' = wire /\ \E x \in {t, u} : node' = [node EXCEPT !.peer[p] = x] /\ (x = t => "expire" \in Environment[p])
  <2>1. CASE ContextExpired(p)
    BY <2>1 DEF ContextExpired
  <2>2. CASE HandleBeacon(p)
    <3>1. t # u
      BY <1>1, <2>2 DEF HandleBeacon, PeerState
    <3>2. node' = [node EXCEPT !.peer[p] = u] /\ wire' = wire
      BY <2>2 DEF HandleBeacon, NodeState
    <3> HIDE DEF t, u
    <3> QED
      BY <3>1, <3>2
  <2> QED
    BY <2>1, <2>2
<1> HIDE DEF t, u
<1>5. PICK x \in {t, u} : node' = [node EXCEPT !.peer[p] = x] /\ (x = t => "expire" \in Environment[p])
  BY <1>4
<1>6. /\ node' \in NodeState /\ node'.peer = [node.peer EXCEPT ![p] = x]
      /\ node'.ongoing = node.ongoing /\ node'.collecting = node.collecting
      /\ node'.retry = node.retry
  BY <1>2, <1>3, <1>5 DEF NodeState
<1>7. node'.peer[p] = x /\ \A q \in Peer \ {p} : node'.peer[q] = node.peer[q]
  BY <1>6 DEF NodeState
<1> QED
  BY <1>2, <1>3, <1>4, <1>5, <1>6, <1>7

(* The types are an invariant of every step. *)
LEMMA TypeStep == TypeOK /\ [Next]_vars => TypeOK'
<1> SUFFICES ASSUME TypeOK, [Next]_vars PROVE TypeOK'
  OBVIOUS
<1>1. node \in NodeState /\ wire \subseteq Message
  BY DEF TypeOK
<1>2. ASSUME AcquireKeys PROVE TypeOK'
  BY <1>1, <1>2, StartQueryIs DEF AcquireKeys, TypeOK
<1>3. ASSUME QueryRetryTimer PROVE TypeOK'
  <2>1. [node EXCEPT !.retry = FALSE] \in NodeState
    BY <1>1 DEF NodeState
  <2> QED
    BY <1>1, <1>3, <2>1, StartQueryIs DEF QueryRetryTimer, TypeOK
<1>4. ASSUME CollectTimer PROVE TypeOK'
  BY <1>1, <1>4, CollectTimerIs, StartNextType, FinishType
<1>5. ASSUME NEW p \in Peer, TransactionTimeout(p) PROVE TypeOK'
  BY <1>1, <1>5, TransactionTimeoutIs, ExpireType, FinishType
<1>6. ASSUME NEW p \in Peer, ContextExpiring(p) PROVE TypeOK'
  BY <1>1, <1>6, ContextExpiringIs, StartSecurityType, FinishType
<1>7. ASSUME NEW p \in Peer, ContextExpired(p) PROVE TypeOK'
  BY <1>1, <1>7, ContextOrBeaconIs DEF TypeOK
<1>8. ASSUME NEW p \in Peer, CheckActivity(p) PROVE TypeOK'
  <2>1. PICK o \in Orders : Finish(Cleanup(Begin(o), p), {m \in wire : m.to # p})
    BY <1>8 DEF CheckActivity
  <2>2. Cleanup(Begin(o), p) \in Work
    BY <1>1, BeginType, CleanupIs
  <2> QED
    BY <1>1, <2>1, <2>2, FinishType
<1>9. ASSUME NEW p \in Peer, HandleBeacon(p) PROVE TypeOK'
  BY <1>1, <1>9, ContextOrBeaconIs DEF TypeOK
<1>10. ASSUME NEW p \in Peer, HandleInformation(p) PROVE TypeOK'
  BY <1>1, <1>10 DEF HandleInformation, TypeOK, NodeState
<1>11. ASSUME NEW p \in Peer, PeerInitiates(p) PROVE TypeOK'
  <2>1. PICK o \in Orders, arbitration \in {"wins", "loses", "ties"}, accepted \in BOOLEAN :
          Finish(HandleMsg1(Begin(o), p, arbitration, accepted), wire)
    BY <1>11 DEF PeerInitiates
  <2>2. HandleMsg1(Begin(o), p, arbitration, accepted) \in Work
    BY <1>1, BeginType, HandleMsg1Type
  <2> QED
    BY <1>1, <2>1, <2>2, FinishType
<1>12. ASSUME NEW m \in wire, Answer(m) PROVE TypeOK'
  <2>1. m.to \in Peer
    BY <1>1 DEF Message
  <2>2. PICK o \in Orders, rest \in SUBSET Message :
           \/ \E status \in Statuses(m.to) : Finish(HandleMsg2(Begin(o), m.to, m.id, status), rest)
           \/ Finish(HandleResponse(Begin(o), m.to, m.id), rest)
    BY <1>1, <1>12, AnswerIs
  <2>3. Begin(o) \in Work
    BY <1>1, BeginType
  <2>4. HandleResponse(Begin(o), m.to, m.id) \in Work
    BY <2>1, <2>3, HandleResponseType
  <2>5. \A status \in Statuses(m.to) : HandleMsg2(Begin(o), m.to, m.id, status) \in Work
    BY <2>1, <2>3, HandleMsg2Type, StatusType
  <2> QED
    BY <2>2, <2>4, <2>5, FinishType
<1>13. ASSUME NEW m \in wire, Silence(m) PROVE TypeOK'
  BY <1>13 DEF Silence, TypeOK
<1>14. ASSUME UNCHANGED vars PROVE TypeOK'
  BY <1>14 DEF vars, TypeOK
<1>15. ASSUME NEW p \in Peer,
              TransactionTimeout(p) \/ ContextExpiring(p) \/ ContextExpired(p) \/ CheckActivity(p)
                \/ HandleBeacon(p) \/ HandleInformation(p) \/ PeerInitiates(p)
       PROVE  TypeOK'
  BY <1>5, <1>6, <1>7, <1>8, <1>9, <1>10, <1>11, <1>15
<1> QED
  BY <1>2, <1>3, <1>4, <1>12, <1>13, <1>14, <1>15 DEF Next

(* The types of the state, KeyAcquisition!TypeOK: a procedure without the  *)
(* id of its MSG1 is one whose transaction is queued, a transaction is of  *)
(* peer security or carries the id of a request, and there are as many     *)
(* untried algorithm pairs as there are pairs at most.                     *)
THEOREM TypeCorrect == Spec => []TypeOK
<1>1. Init => TypeOK
  <2>1. Absent \in PeerState
    BY ConstantsAssumption DEF Absent, PeerState
  <2> QED
    BY <2>1 DEF Init, TypeOK, NodeState
<1> QED
  BY <1>1, TypeStep, PTL DEF Spec

-----------------------------------------------------------------------------
(* The transactions of a peer and its procedures.                          *)

(* The call of op for p. *)
Is(c, op, p) == c.op = op /\ c.peer = p

(* Among the calls to be made are the one that resets the transaction of p, *)
(* and the one, the last, that erases p.                                    *)
Ending(cs, p) == \E i \in DOMAIN cs : Is(cs[i], "ResetTransaction", p)
Erasing(cs, p) == cs # << >> /\ Is(cs[Len(cs)], "Erase", p)
(* Among them the transaction of p is reset at most once. *)
OneReset(cs, p) ==
  \A i, j \in DOMAIN cs :
    Is(cs[i], "ResetTransaction", p) /\ Is(cs[j], "ResetTransaction", p) => i = j

(* A peer is erased last, and procedures are finished outside of their     *)
(* transaction only when their peer is to be erased.                       *)
Orderly(cs) ==
  \A i \in DOMAIN cs :
    /\ cs[i].op = "Erase" => i = Len(cs)
    /\ cs[i].op \in {"FinishSecurity", "FinishAcquisition"} => Erasing(cs, cs[i].peer)

(* tx is queued. *)
Waiting(s, tx) == \E i \in DOMAIN s.pending : s.pending[i] = tx

(* Between two handlers: a procedure has its transaction, queued until the *)
(* MSG1 is made and current afterwards, the current transaction has its    *)
(* procedure, and so has the request of an acquisition, unless the peer    *)
(* may initiate peer security and have the transaction dropped.            *)
Settled(p, s) ==
  /\ s.proc # None =>
       IF s.proc.queued THEN Waiting(s, Security)
       ELSE s.current # None /\ s.current.id = s.proc.mid /\ s.current.tx = Security
  /\ s.current # None =>
       \/ s.current.tx = Security /\ s.proc # None /\ ~s.proc.queued
       \/ s.acq # None /\ s.current.tx = Keys(s.acq.id)
  /\ "cross" \notin Environment[p] /\ s.acq # None =>
       \/ Waiting(s, Keys(s.acq.id))
       \/ s.current # None /\ s.current.tx = Keys(s.acq.id)

(* The callback of the current transaction has been called. *)
Ended(p, s) ==
  /\ s.current # None
  /\ s.proc # None => s.proc.queued /\ Waiting(s, Security)
  /\ "cross" \notin Environment[p] /\ s.acq # None => Waiting(s, Keys(s.acq.id))

(* It may be called. *)
Closable(p, s) ==
  /\ s.current # None
  /\ s.proc # None => s.current.tx = Security \/ (s.proc.queued /\ Waiting(s, Security))
  /\ "cross" \notin Environment[p] /\ s.acq # None =>
       Waiting(s, Keys(s.acq.id)) \/ s.current.tx # Security

(* In a working copy p, in state s, is to be erased, or its callback has   *)
(* been called and its transaction is to be reset, or it is settled.       *)
FineAs(n, p, s) ==
  \/ Erasing(n.calls, p)
  \/ /\ OneReset(n.calls, p)
     /\ Ending(n.calls, p) => Ended(p, s)
     /\ ~Ending(n.calls, p) => Settled(p, s)

Fine(n, p) == FineAs(n, p, n.peer[p])

FineBut(n, p) == Orderly(n.calls) /\ \A q \in Peer \ {p} : Fine(n, q)

Sound(n) == Orderly(n.calls) /\ \A p \in Peer : Fine(n, p)

(* The calls that are put before others; peer_cleanup makes the rest. *)
Deferrable(c) == c.op \notin {"Erase", "FinishSecurity", "FinishAcquisition"}

(* A call that is deferred keeps the calls in order. *)
LEMMA PushCall ==
  ASSUME NEW cs \in Seq(Calls), NEW c \in Calls, Deferrable(c), NEW ds, ds = <<c>> \o cs
  PROVE  /\ Orderly(cs) => Orderly(ds)
         /\ \A p : Erasing(ds, p) <=> Erasing(cs, p)
         /\ \A p : Ending(ds, p) <=> (Ending(cs, p) \/ Is(c, "ResetTransaction", p))
         /\ \A p : OneReset(cs, p) /\ ~(Ending(cs, p) /\ Is(c, "ResetTransaction", p)) => OneReset(ds, p)
<1>1. /\ ds \in Seq(Calls) /\ Len(ds) = Len(cs) + 1 /\ ds[1] = c
      /\ \A i \in DOMAIN cs : i + 1 \in DOMAIN ds /\ ds[i + 1] = cs[i]
      /\ \A i \in DOMAIN ds : i = 1 \/ (i - 1 \in DOMAIN cs /\ ds[i] = cs[i - 1])
      /\ ds # << >>
  <2>1. /\ <<c>> \o cs \in Seq(Calls) /\ Len(<<c>> \o cs) = Len(cs) + 1 /\ (<<c>> \o cs)[1] = c
        /\ \A i \in DOMAIN cs : i + 1 \in DOMAIN (<<c>> \o cs) /\ (<<c>> \o cs)[i + 1] = cs[i]
        /\ \A i \in DOMAIN (<<c>> \o cs) : i = 1 \/ (i - 1 \in DOMAIN cs /\ (<<c>> \o cs)[i] = cs[i - 1])
        /\ <<c>> \o cs # << >>
    BY ONLY cs \in Seq(Calls), c \in Calls, Push, Zenon
  <2> QED
    BY ONLY <2>1, ds = <<c>> \o cs, Zenon
<1>2. Len(cs) \in Nat /\ DOMAIN cs = 1 .. Len(cs) /\ DOMAIN ds = 1 .. Len(cs) + 1
  BY <1>1
<1>3. \A p : Erasing(ds, p) <=> Erasing(cs, p)
  <2>1. CASE cs = << >>
    BY <1>1, <2>1 DEF Erasing, Is, Deferrable
  <2>2. CASE cs # << >>
    <3>1. ds[Len(ds)] = cs[Len(cs)]
      BY <1>1, <1>2, <2>2
    <3> QED
      BY <1>1, <2>2, <3>1 DEF Erasing
  <2> QED
    BY <2>1, <2>2
<1>4. \A p : Ending(ds, p) <=> (Ending(cs, p) \/ Is(c, "ResetTransaction", p))
  <2>1. ASSUME NEW p, Ending(ds, p) PROVE Ending(cs, p) \/ Is(c, "ResetTransaction", p)
    <3>1. PICK i \in DOMAIN ds : Is(ds[i], "ResetTransaction", p)
      BY <2>1 DEF Ending
    <3> QED
      BY <1>1, <3>1 DEF Ending
  <2>2. ASSUME NEW p, Ending(cs, p) PROVE Ending(ds, p)
    <3>1. PICK i \in DOMAIN cs : Is(cs[i], "ResetTransaction", p)
      BY <2>2 DEF Ending
    <3> QED
      BY <1>1, <3>1 DEF Ending
  <2>3. ASSUME NEW p, Is(c, "ResetTransaction", p) PROVE Ending(ds, p)
    BY <1>1, <1>2, <2>3 DEF Ending
  <2> QED
    BY <2>1, <2>2, <2>3
<1>5. ASSUME NEW p, OneReset(cs, p), ~(Ending(cs, p) /\ Is(c, "ResetTransaction", p))
      PROVE  OneReset(ds, p)
  <2> SUFFICES ASSUME NEW i \in DOMAIN ds, NEW j \in DOMAIN ds,
                      Is(ds[i], "ResetTransaction", p), Is(ds[j], "ResetTransaction", p)
               PROVE  i = j
    BY DEF OneReset
  <2>1. CASE i = 1 \/ j = 1
    BY <1>1, <1>5, <2>1 DEF Ending
  <2>2. CASE i # 1 /\ j # 1
    <3>1. i - 1 = j - 1
      BY <1>1, <1>5, <2>2 DEF OneReset
    <3> QED
      BY <1>2, <3>1
  <2> QED
    BY <2>1, <2>2
<1>6. ASSUME Orderly(cs) PROVE Orderly(ds)
  <2> SUFFICES ASSUME NEW i \in DOMAIN ds
               PROVE  /\ ds[i].op = "Erase" => i = Len(ds)
                      /\ ds[i].op \in {"FinishSecurity", "FinishAcquisition"} => Erasing(ds, ds[i].peer)
    BY DEF Orderly
  <2>1. CASE i = 1
    BY <1>1, <2>1 DEF Deferrable
  <2>2. CASE i # 1
    <3>1. i - 1 \in DOMAIN cs /\ ds[i] = cs[i - 1]
      BY <1>1, <2>2
    <3>2. ds[i].op = "Erase" => i - 1 = Len(cs)
      BY <1>6, <3>1 DEF Orderly
    <3>3. ds[i].op \in {"FinishSecurity", "FinishAcquisition"} => Erasing(cs, ds[i].peer)
      BY <1>6, <3>1 DEF Orderly
    <3> QED
      BY <1>1, <1>2, <1>3, <3>2, <3>3
  <2> QED
    BY <2>1, <2>2
<1> QED
  BY <1>3, <1>4, <1>5, <1>6

(* So does making the next one. *)
LEMMA PopCall ==
  ASSUME NEW cs \in Seq(Calls), cs # << >>, Orderly(cs), NEW c, c = Head(cs), NEW ds, ds = Tail(cs)
  PROVE  /\ Orderly(ds)
         /\ c.op = "Erase" => ds = << >> /\ Erasing(cs, c.peer)
         /\ c.op \in {"FinishSecurity", "FinishAcquisition"} => Erasing(ds, c.peer)
         /\ c.op # "Erase" => \A p : Erasing(ds, p) <=> Erasing(cs, p)
         /\ \A p : Ending(cs, p) <=> (Ending(ds, p) \/ Is(c, "ResetTransaction", p))
         /\ \A p : OneReset(cs, p) => OneReset(ds, p) /\ ~(Ending(ds, p) /\ Is(c, "ResetTransaction", p))
<1>1. /\ ds \in Seq(Calls) /\ Len(ds) = Len(cs) - 1 /\ c = cs[1] /\ 1 \in DOMAIN cs
      /\ \A i \in DOMAIN ds : i + 1 \in DOMAIN cs /\ ds[i] = cs[i + 1]
      /\ \A i \in DOMAIN cs : i = 1 \/ (i - 1 \in DOMAIN ds /\ cs[i] = ds[i - 1])
  BY Pop, Zenon
<1>2. Len(cs) \in Nat \ {0} /\ DOMAIN cs = 1 .. Len(cs) /\ DOMAIN ds = 1 .. Len(cs) - 1
  BY <1>1
<1>3. c.op # "Erase" => \A p : Erasing(ds, p) <=> Erasing(cs, p)
  <2>1. CASE ds = << >>
    <3>1. Len(cs) = 1
      BY <1>1, <1>2, <2>1
    <3> QED
      BY <1>1, <2>1, <3>1 DEF Erasing, Is
  <2>2. CASE ds # << >>
    <3>1. Len(ds) \in DOMAIN ds /\ Len(ds) + 1 = Len(cs)
      BY <1>1, <1>2, <2>2
    <3>2. ds[Len(ds)] = cs[Len(cs)]
      BY <1>1, <3>1
    <3> QED
      BY <2>2, <3>2 DEF Erasing
  <2> QED
    BY <2>1, <2>2
<1>4. c.op = "Erase" => ds = << >> /\ Erasing(cs, c.peer)
  <2> SUFFICES ASSUME c.op = "Erase" PROVE ds = << >> /\ Erasing(cs, c.peer)
    OBVIOUS
  <2>1. Len(cs) = 1
    BY <1>1 DEF Orderly
  <2> QED
    BY <1>1, <2>1 DEF Erasing, Is
<1>5. c.op \in {"FinishSecurity", "FinishAcquisition"} => Erasing(ds, c.peer)
  BY <1>1, <1>3 DEF Orderly
<1>6. \A p : Ending(cs, p) <=> (Ending(ds, p) \/ Is(c, "ResetTransaction", p))
  <2>1. ASSUME NEW p, Ending(cs, p) PROVE Ending(ds, p) \/ Is(c, "ResetTransaction", p)
    <3>1. PICK i \in DOMAIN cs : Is(cs[i], "ResetTransaction", p)
      BY <2>1 DEF Ending
    <3> QED
      BY <1>1, <3>1 DEF Ending
  <2>2. ASSUME NEW p, Ending(ds, p) PROVE Ending(cs, p)
    <3>1. PICK i \in DOMAIN ds : Is(ds[i], "ResetTransaction", p)
      BY <2>2 DEF Ending
    <3> QED
      BY <1>1, <3>1 DEF Ending
  <2>3. ASSUME NEW p, Is(c, "ResetTransaction", p) PROVE Ending(cs, p)
    BY <1>1, <2>3 DEF Ending
  <2> QED
    BY <2>1, <2>2, <2>3
<1>7. ASSUME NEW p, OneReset(cs, p)
      PROVE  OneReset(ds, p) /\ ~(Ending(ds, p) /\ Is(c, "ResetTransaction", p))
  <2>1. OneReset(ds, p)
    <3> SUFFICES ASSUME NEW i \in DOMAIN ds, NEW j \in DOMAIN ds,
                        Is(ds[i], "ResetTransaction", p), Is(ds[j], "ResetTransaction", p)
                 PROVE  i = j
      BY DEF OneReset
    <3>1. i + 1 = j + 1
      BY <1>1, <1>7 DEF OneReset
    <3> QED
      BY <1>2, <3>1
  <2>2. ASSUME Ending(ds, p), Is(c, "ResetTransaction", p) PROVE FALSE
    <3>1. PICK i \in DOMAIN ds : Is(ds[i], "ResetTransaction", p)
      BY <2>2 DEF Ending
    <3>2. i + 1 = 1
      BY <1>1, <1>7, <2>2, <3>1 DEF OneReset
    <3> QED
      BY <1>2, <3>2
  <2> QED
    BY <2>1, <2>2
<1>8. Orderly(ds)
  <2> SUFFICES ASSUME NEW i \in DOMAIN ds
               PROVE  /\ ds[i].op = "Erase" => i = Len(ds)
                      /\ ds[i].op \in {"FinishSecurity", "FinishAcquisition"} => Erasing(ds, ds[i].peer)
    BY DEF Orderly
  <2>1. i + 1 \in DOMAIN cs /\ ds[i] = cs[i + 1]
    BY <1>1
  <2>2. ds[i].op = "Erase" => i + 1 = Len(cs)
    BY <2>1 DEF Orderly
  <2>3. ds[i].op \in {"FinishSecurity", "FinishAcquisition"} => Erasing(cs, ds[i].peer)
    BY <2>1 DEF Orderly
  <2>4. c.op # "Erase"
    BY <1>1, <1>2, <1>4
  <2> QED
    BY <1>1, <1>2, <1>3, <2>2, <2>3, <2>4
<1> QED
  BY <1>3, <1>4, <1>5, <1>6, <1>7, <1>8

(* The state of one peer. *)

LEMMA WaitingAfterAppend ==
  ASSUME NEW s \in PeerState, NEW t, NEW tx \in Transaction, t.pending = Append(s.pending, tx)
  PROVE  Waiting(t, tx) /\ \A y : Waiting(s, y) => Waiting(t, y)
<1>1. s.pending \in Seq(Transaction)
  BY DEF PeerState
<1>2. /\ Len(s.pending) + 1 \in DOMAIN t.pending /\ t.pending[Len(s.pending) + 1] = tx
      /\ \A i \in DOMAIN s.pending : i \in DOMAIN t.pending /\ t.pending[i] = s.pending[i]
  BY <1>1, Add
<1> QED
  BY <1>2 DEF Waiting

LEMMA WaitingAfterTail ==
  ASSUME NEW s \in PeerState, NEW t, s.pending # << >>, t.pending = Tail(s.pending)
  PROVE  \A y : Waiting(s, y) /\ y # Head(s.pending) => Waiting(t, y)
<1>1. s.pending \in Seq(Transaction)
  BY DEF PeerState
<1>2. /\ Head(s.pending) = s.pending[1]
      /\ \A i \in DOMAIN s.pending : i = 1 \/ (i - 1 \in DOMAIN t.pending /\ s.pending[i] = t.pending[i - 1])
  BY <1>1, Pop
<1> QED
  BY <1>2 DEF Waiting

LEMMA QueuedKeysKeeps ==
  ASSUME NEW p, NEW s \in PeerState, s.acq = None, NEW id \in Id
  PROVE  /\ Settled(p, s) => Settled(p, QueuedKeys(s, id))
         /\ Ended(p, s) => Ended(p, QueuedKeys(s, id))
<1> DEFINE t == QueuedKeys(s, id)
<1>1. /\ t.acq.id = id /\ t.pending = Append(s.pending, Keys(id))
      /\ t.proc = s.proc /\ t.current = s.current
  <2>1. /\ t.acq = [id |-> id, retries |-> 0] /\ t.pending = Append(s.pending, Keys(id))
        /\ t.proc = s.proc /\ t.current = s.current
    BY QueuedKeysType
  <2> HIDE DEF t
  <2> QED
    BY <2>1
<1>2. Keys(id) \in Transaction
  BY TransactionType
<1> HIDE DEF t
<1>3. Waiting(t, Keys(t.acq.id)) /\ \A y : Waiting(s, y) => Waiting(t, y)
  BY <1>1, <1>2, WaitingAfterAppend
<1> QED
  BY <1>1, <1>3 DEF Settled, Ended, t

LEMMA QueuedSecurityKeeps ==
  ASSUME NEW p, NEW s \in PeerState, s.proc = None, NEW done \in BOOLEAN
  PROVE  /\ Settled(p, s) => Settled(p, QueuedSecurity(s, done))
         /\ Ended(p, s) => Ended(p, QueuedSecurity(s, done))
         /\ Closable(p, s) => Closable(p, QueuedSecurity(s, done))
<1> DEFINE t == QueuedSecurity(s, done)
<1>1. /\ t.proc.queued /\ t.pending = Append(s.pending, Security)
      /\ t.acq = s.acq /\ t.current = s.current
  <2>1. /\ t.proc = [mid |-> None, done |-> done, queued |-> TRUE, retries |-> 0]
        /\ t.pending = Append(s.pending, Security) /\ t.acq = s.acq /\ t.current = s.current
    BY QueuedSecurityType
  <2> HIDE DEF t
  <2> QED
    BY <2>1
<1>2. Security \in Transaction
  BY TransactionType
<1> HIDE DEF t
<1>3. Waiting(t, Security) /\ \A y : Waiting(s, y) => Waiting(t, y)
  BY <1>1, <1>2, WaitingAfterAppend
<1> QED
  BY <1>1, <1>3 DEF Settled, Ended, Closable, t

LEMMA AlikeKeeps ==
  ASSUME NEW p, NEW s, NEW t, Alike(s, t)
  PROVE  /\ Settled(p, s) => Settled(p, t)
         /\ Ended(p, s) => Ended(p, t)
         /\ Closable(p, s) => Closable(p, t)
<1>1. t.proc = s.proc /\ t.acq = s.acq /\ t.current = s.current /\ t.pending = s.pending
  BY DEF Alike
<1>2. \A y : Waiting(s, y) <=> Waiting(t, y)
  BY <1>1 DEF Waiting
<1> QED
  BY <1>1, <1>2 DEF Settled, Ended, Closable

LEMMA SettledIsClosable ==
  ASSUME NEW p, NEW s, Settled(p, s), s.current # None
  PROVE  /\ Closable(p, s)
         /\ s.current.tx = Security /\ s.proc # None /\ ~s.proc.queued => s.proc.mid = s.current.id
  BY TransactionType DEF Settled, Closable, Security, Keys

(* The callback of the transaction ends its procedure. *)
LEMMA ClosableEnds ==
  ASSUME NEW p, NEW s \in PeerState, Closable(p, s)
  PROVE  /\ s.current.tx = Security => Ended(p, WithoutProcedure(s))
         /\ s.current.tx # Security => Ended(p, WithoutAcquisition(s))
<1> DEFINE t == WithoutProcedure(s)
           u == WithoutAcquisition(s)
<1>1. t.proc = None /\ t.acq = s.acq /\ t.current = s.current /\ t.pending = s.pending
  BY WithoutProcedureType
<1>2. u.acq = None /\ u.proc = s.proc /\ u.current = s.current /\ u.pending = s.pending
  BY WithoutAcquisitionType
<1> HIDE DEF t, u
<1>3. \A y : (Waiting(s, y) <=> Waiting(t, y)) /\ (Waiting(s, y) <=> Waiting(u, y))
  BY <1>1, <1>2 DEF Waiting
<1> QED
  BY <1>1, <1>2, <1>3 DEF Closable, Ended, t, u

(* Once the transaction is reset, a peer whose callback was called is      *)
(* settled.                                                                *)
LEMMA EndedSettles ==
  ASSUME NEW p, NEW s \in PeerState, Ended(p, s)
  PROVE  Settled(p, Idle(s))
<1> DEFINE t == Idle(s)
<1>1. t.current = None /\ t.acq = s.acq /\ t.proc = s.proc /\ t.pending = s.pending
  BY IdleType
<1> HIDE DEF t
<1>2. \A y : Waiting(s, y) <=> Waiting(t, y)
  BY <1>1 DEF Waiting
<1> QED
  BY <1>1, <1>2 DEF Ended, Settled, t

(* The transaction taken from the queue can be completed, and if do_cb     *)
(* succeeds it is in order.                                                *)
LEMMA TakenIsClosable ==
  ASSUME NEW p, NEW s \in PeerState, Settled(p, s), s.current = None, s.pending # << >>, NEW id \in Id
  PROVE  /\ Closable(p, Taken(s, id))
         /\ Taken(s, id).proc # None => Taken(s, id).proc.queued
<1> DEFINE t == Taken(s, id)
<1>1. /\ t.current = [id |-> id, tx |-> Head(s.pending)] /\ t.current # None
      /\ t.pending = Tail(s.pending) /\ t.proc = s.proc /\ t.acq = s.acq
  BY TakenType
<1> HIDE DEF t
<1>2. \A y : Waiting(s, y) /\ y # Head(s.pending) => Waiting(t, y)
  BY <1>1, WaitingAfterTail
<1>3. t.current.tx = Head(s.pending)
  BY <1>1
<1>4. s.acq # None => Keys(s.acq.id) # Security
  BY TransactionType DEF PeerState, KeyProcedure
<1> QED
  BY <1>1, <1>2, <1>3, <1>4 DEF Settled, Closable, t

LEMMA SendingSettles ==
  ASSUME NEW p, NEW s \in PeerState, Closable(p, s), s.current.tx = Security,
         s.proc # None, ~s.proc.queued => s.proc.mid = s.current.id,
         NEW t, Sending(s, t, s.current.id)
  PROVE  Settled(p, t)
<1>1. \A y : Waiting(s, y) <=> Waiting(t, y)
  BY DEF Waiting, Sending
<1>2. t.proc # None
  BY NoneAssumption DEF Sending
<1> QED
  BY <1>1, <1>2 DEF Closable, Settled, Sending

LEMMA RequestSettles ==
  ASSUME NEW p, NEW s \in PeerState, Closable(p, s), s.acq # None, s.current.tx = Keys(s.acq.id)
  PROVE  Settled(p, s)
<1>1. Keys(s.acq.id) # Security
  BY TransactionType DEF PeerState, KeyProcedure
<1> QED
  BY <1>1 DEF Closable, Settled

-----------------------------------------------------------------------------
(* What the operators keep. *)

LEMMA FineAfterPush ==
  ASSUME NEW n \in Work, NEW c \in Calls, Deferrable(c), NEW p \in Peer,
         ~Is(c, "ResetTransaction", p), NEW s, FineAs(n, p, s)
  PROVE  FineAs(Then(n, c), p, s)
<1>1. Then(n, c).calls = <<c>> \o n.calls /\ n.calls \in Seq(Calls)
  BY ThenType DEF Work
<1> QED
  BY <1>1, PushCall DEF FineAs

(* Calls put off for later. *)
LEMMA ThenSound ==
  ASSUME NEW n \in Work, Sound(n), NEW c \in Calls, Deferrable(c), c.op # "ResetTransaction"
  PROVE  Sound(Then(n, c)) /\ Then(n, c) \in Work
<1>1. Then(n, c).calls = <<c>> \o n.calls /\ n.calls \in Seq(Calls) /\ Then(n, c) \in Work /\ Then(n, c).peer = n.peer
  BY ThenType DEF Work
<1>2. Orderly(Then(n, c).calls)
  BY <1>1, PushCall DEF Sound
<1>3. \A p \in Peer : ~Is(c, "ResetTransaction", p)
  BY DEF Is
<1> QED
  BY <1>1, <1>2, <1>3, FineAfterPush DEF Sound, Fine

LEMMA ChangesSound ==
  ASSUME NEW n \in Work, NEW p \in Peer, NEW m, NEW t, Changes(n, m, p, t), FineBut(n, p), FineAs(n, p, t)
  PROVE  Sound(m)
  BY DEF Changes, FineBut, FineAs, Fine, Sound

LEMMA StartAcquisitionSound ==
  ASSUME NEW n \in Work, Sound(n), NEW p \in Peer
  PROVE  Sound(StartAcquisition(n, p))
<1> DEFINE s == n.peer[p]
<1>1. s \in PeerState
  BY DEF Work
<1>2. /\ ToCall("ProcessPending", p) \in Calls /\ SecurityCall(p, TRUE, FALSE) \in Calls
      /\ Deferrable(ToCall("ProcessPending", p)) /\ ToCall("ProcessPending", p).op # "ResetTransaction"
      /\ Deferrable(SecurityCall(p, TRUE, FALSE)) /\ SecurityCall(p, TRUE, FALSE).op # "ResetTransaction"
  BY CallType DEF Operations, ToCall, SecurityCall, Deferrable
<1>3. ASSUME s.acq = None, NEW id \in Id
      PROVE  Sound(Then(Put(n, p, QueuedKeys(s, id)), ToCall("ProcessPending", p)))
  <2> DEFINE t == QueuedKeys(s, id)
             m == Put(n, p, t)
  <2>1. t \in PeerState
    BY <1>1, QueuedKeysType
  <2>2. m \in Work /\ Changes(n, m, p, t)
    BY <2>1, PutType, PutChanges
  <2>3. FineAs(n, p, t)
    BY <1>1, <1>3, QueuedKeysKeeps DEF Sound, Fine, FineAs
  <2> HIDE DEF t, m
  <2>4. Sound(m)
    BY <2>2, <2>3, ChangesSound DEF Sound, FineBut
  <2> QED
    BY <1>2, <2>2, <2>4, ThenSound DEF m, t
<1>4. Sound(Then(n, SecurityCall(p, TRUE, FALSE)))
  BY <1>2, ThenSound
<1> QED
  BY <1>3, <1>4, StartAcquisitionCases

LEMMA StartNextSound ==
  ASSUME NEW n \in Work, Sound(n)
  PROVE  Sound(StartNext(n)) /\ Sound(CompleteProcedure(n))
<1>1. \A m \in Work : m.peer = n.peer /\ m.calls = n.calls => Sound(m)
  BY DEF Sound, Fine, FineAs
<1>2. Sound(CompleteProcedure(n))
  BY <1>1, CompleteProcedureType
<1> QED
  BY <1>1, <1>2, StartNextCases, StartAcquisitionSound

LEMMA AcquisitionCompleteSound ==
  ASSUME NEW n \in Work, Sound(n), NEW p \in Peer, NEW ok \in BOOLEAN
  PROVE  Sound(AcquisitionComplete(n, p, ok))
<1>1. PICK m \in Work : /\ m.peer = n.peer /\ m.calls = n.calls
                        /\ AcquisitionComplete(n, p, ok) \in {CompleteProcedure(m), StartNext(m)}
  BY AcquisitionCompleteCases
<1>2. Sound(m)
  BY <1>1 DEF Sound, Fine, FineAs
<1> QED
  BY <1>1, <1>2, StartNextSound

LEMMA SecurityCompleteSound ==
  ASSUME NEW n \in Work, Sound(n), NEW p \in Peer, NEW ok \in BOOLEAN
  PROVE  Sound(SecurityComplete(n, p, ok))
  BY StartAcquisitionSound, AcquisitionCompleteSound DEF SecurityComplete

LEMMA FinishSecuritySound ==
  ASSUME NEW n \in Work, NEW p \in Peer, FineBut(n, p), FineAs(n, p, WithoutProcedure(n.peer[p])),
         NEW ok \in BOOLEAN
  PROVE  Sound(FinishSecurity(n, p, ok))
<1> DEFINE s == n.peer[p]
           t == WithoutProcedure(s)
           m == Put(n, p, t)
<1>1. s \in PeerState
  BY DEF Work
<1>2. /\ t \in PeerState /\ t.proc = None /\ t.acq = s.acq /\ t.current = s.current
      /\ t.pending = s.pending
  BY <1>1, WithoutProcedureType
<1>3. m \in Work /\ Sound(m)
  <2> HIDE DEF t
  <2>1. m \in Work /\ Changes(n, m, p, t)
    BY <1>2, PutType, PutChanges
  <2>2. FineAs(n, p, t)
    BY DEF t
  <2> QED
    BY <2>1, <2>2, ChangesSound
<1>4. CASE s.proc = None
  <2>1. \A y : Waiting(s, y) <=> Waiting(t, y)
    BY <1>2 DEF Waiting
  <2>2. FineAs(n, p, t)
    OBVIOUS
  <2> HIDE DEF t
  <2>3. FineAs(n, p, s)
    BY <1>2, <1>4, <2>1, <2>2 DEF FineAs, Ended, Settled
  <2>4. Sound(n)
    BY <2>3 DEF Sound, FineBut, Fine
  <2> QED
    BY <1>4, <2>4, FinishSecurityCases
<1>5. CASE s.proc # None
  <2>1. SecurityComplete(m, p, ok) = FinishSecurity(n, p, ok) \/ m = FinishSecurity(n, p, ok)
    BY <1>5, FinishSecurityCases
  <2> HIDE DEF m
  <2> QED
    BY <1>3, <2>1, SecurityCompleteSound
<1> QED
  BY <1>4, <1>5

LEMMA FinishAcquisitionSound ==
  ASSUME NEW n \in Work, NEW p \in Peer, FineBut(n, p), FineAs(n, p, WithoutAcquisition(n.peer[p])),
         NEW ok \in BOOLEAN
  PROVE  Sound(FinishAcquisition(n, p, ok))
<1> DEFINE s == n.peer[p]
           t == WithoutAcquisition(s)
<1>1. s \in PeerState
  BY DEF Work
<1>2. /\ t \in PeerState /\ t.acq = None /\ t.proc = s.proc /\ t.current = s.current
      /\ t.pending = s.pending
  BY <1>1, WithoutAcquisitionType
<1>3. FineAs(n, p, t)
  OBVIOUS
<1>4. CASE s.acq = None
  <2>1. \A y : Waiting(s, y) <=> Waiting(t, y)
    BY <1>2 DEF Waiting
  <2> HIDE DEF t
  <2>3. FineAs(n, p, s)
    BY <1>2, <1>3, <1>4, <2>1 DEF FineAs, Ended, Settled
  <2>4. Sound(n)
    BY <2>3 DEF Sound, FineBut, Fine
  <2> QED
    BY <1>4, <2>4, FinishAcquisitionCases
<1>5. CASE s.acq # None
  <2>1. PICK m \in Work : Changes(n, m, p, t) /\ FinishAcquisition(n, p, ok) = AcquisitionComplete(m, p, ok)
    BY <1>5, FinishAcquisitionCases
  <2> HIDE DEF t
  <2>2. Sound(m)
    BY <1>3, <2>1, ChangesSound
  <2> QED
    BY <2>1, <2>2, AcquisitionCompleteSound
<1> QED
  BY <1>4, <1>5

(* The transaction of p may be completed. *)
CanClose(n, p, s) ==
  Erasing(n.calls, p) \/ (~Ending(n.calls, p) /\ Closable(p, s))

(* With the callback of p called and its reset to come, p is as it may be. *)
LEMMA CompletingFine ==
  ASSUME NEW n \in Work, NEW p \in Peer, FineBut(n, p), CanClose(n, p, n.peer[p])
  PROVE  /\ FineBut(Completing(n, p), p)
         /\ n.peer[p].current.tx = Security => FineAs(Completing(n, p), p, WithoutProcedure(n.peer[p]))
         /\ n.peer[p].current.tx # Security => FineAs(Completing(n, p), p, WithoutAcquisition(n.peer[p]))
<1> DEFINE m == Completing(n, p)
           c == ToCall("ProcessPending", p)
           d == ToCall("ResetTransaction", p)
           cs == <<c>> \o n.calls
           ds == <<d>> \o cs
           s == n.peer[p]
<1>1. c \in Calls /\ d \in Calls /\ Deferrable(c) /\ Deferrable(d) /\ Is(d, "ResetTransaction", p)
      /\ c.op # "ResetTransaction" /\ d.peer = p
  BY CallType DEF Operations, ToCall, Deferrable, Is
<1>2. m \in Work /\ m.peer = n.peer /\ m.calls = ds
  BY CompletingType
<1>3. n.calls \in Seq(Calls) /\ s \in PeerState
  BY DEF Work
<1>4. cs \in Seq(Calls)
  BY <1>1, <1>3, Push
<1> HIDE DEF m, c, d
<1>5. /\ Orderly(n.calls) => Orderly(cs)
      /\ \A q : Erasing(cs, q) <=> Erasing(n.calls, q)
      /\ \A q : Ending(cs, q) <=> Ending(n.calls, q)
      /\ \A q : OneReset(n.calls, q) => OneReset(cs, q)
  <2> HIDE DEF cs
  <2>1. \A q : ~Is(c, "ResetTransaction", q)
    BY <1>1 DEF Is
  <2> DEFINE bs == n.calls
  <2>2. cs = <<c>> \o bs
    BY DEF cs
  <2>3. bs \in Seq(Calls)
    BY <1>3
  <2> HIDE DEF bs
  <2>4. /\ Orderly(bs) => Orderly(cs)
        /\ \A q : Erasing(cs, q) <=> Erasing(bs, q)
        /\ \A q : Ending(cs, q) <=> Ending(bs, q)
        /\ \A q : OneReset(bs, q) => OneReset(cs, q)
    BY <1>1, <2>1, <2>2, <2>3, PushCall
  <2> QED
    BY <2>4 DEF bs
<1>6. /\ Orderly(cs) => Orderly(ds)
      /\ \A q : Erasing(ds, q) <=> Erasing(cs, q)
      /\ \A q : Ending(ds, q) <=> (Ending(cs, q) \/ q = p)
      /\ \A q : OneReset(cs, q) /\ ~(Ending(cs, q) /\ q = p) => OneReset(ds, q)
  <2> HIDE DEF ds
  <2>1. \A q : Is(d, "ResetTransaction", q) <=> q = p
    BY <1>1 DEF Is
  <2>2. ds = <<d>> \o cs
    BY DEF ds
  <2> HIDE DEF cs
  <2> QED
    BY <1>1, <1>4, <2>1, <2>2, PushCall
<1> HIDE DEF cs, ds
<1>7. FineBut(m, p)
  BY <1>2, <1>5, <1>6 DEF FineBut, Fine, FineAs
<1>8. ASSUME ~Erasing(n.calls, p) PROVE OneReset(ds, p) /\ Ending(ds, p) /\ Closable(p, s)
  <2>1. ~Ending(n.calls, p) /\ Closable(p, s)
    BY <1>8 DEF CanClose
  <2>2. OneReset(n.calls, p)
    BY <2>1 DEF OneReset, Ending
  <2> QED
    BY <1>5, <1>6, <2>1, <2>2
<1>9. Erasing(n.calls, p) => Erasing(ds, p)
  BY <1>5, <1>6
<1> QED
  BY <1>2, <1>3, <1>7, <1>8, <1>9, ClosableEnds DEF FineAs, m

(* peer_complete_transaction, of a transaction whose procedure it may end. *)
LEMMA CompleteTransactionSound ==
  ASSUME NEW n \in Work, NEW p \in Peer, FineBut(n, p), NEW id, NEW ok \in BOOLEAN,
         n.peer[p].current # None,
         IF n.peer[p].current.id = id THEN CanClose(n, p, n.peer[p]) ELSE Fine(n, p)
  PROVE  Sound(CompleteTransaction(n, p, id, ok))
<1> DEFINE s == n.peer[p]
           m == Completing(n, p)
<1>1. CASE s.current.id # id
  <2>1. Sound(n)
    BY <1>1 DEF FineBut, Sound
  <2> QED
    BY <1>1, <2>1, CompleteTransactionCases
<1>2. CASE s.current.id = id
  <2>1. CompleteTransaction(n, p, id, ok) = Done(m, p, s.current.tx, ok)
    BY <1>2, CompleteTransactionCases
  <2>2. s.current.tx \in Transaction
    BY DEF Work, PeerState, CurrentTransaction
  <2>3. m \in Work /\ m.peer = n.peer
    BY CompletingType
  <2>4. /\ FineBut(m, p)
        /\ s.current.tx = Security => FineAs(m, p, WithoutProcedure(s))
        /\ s.current.tx # Security => FineAs(m, p, WithoutAcquisition(s))
    BY <1>2, CompletingFine
  <2> HIDE DEF m
  <2>5. CASE s.current.tx = Security
    <3>1. Done(m, p, s.current.tx, ok) = FinishSecurity(m, p, ok)
      BY <2>5, TransactionType DEF Done
    <3> QED
      BY <2>1, <2>3, <2>4, <2>5, <3>1, FinishSecuritySound
  <2>6. CASE s.current.tx # Security
    <3>1. Done(m, p, s.current.tx, ok) = FinishAcquisition(m, p, ok)
      BY <2>2, <2>6, TransactionType DEF Done
    <3> QED
      BY <2>1, <2>3, <2>4, <2>6, <3>1, FinishAcquisitionSound
  <2> QED
    BY <2>5, <2>6
<1> QED
  BY <1>1, <1>2

(* Completing whatever transaction is current, from a handler. *)
LEMMA CompleteCurrentSound ==
  ASSUME NEW n \in Work, Sound(n), NEW p \in Peer, ~Ending(n.calls, p), NEW id, NEW ok \in BOOLEAN
  PROVE  Sound(CompleteTransaction(n, p, id, ok))
<1>1. CASE n.peer[p].current = None
  BY <1>1, CompleteTransactionCases
<1>2. CASE n.peer[p].current # None
  <2>1. FineBut(n, p) /\ Fine(n, p)
    BY DEF Sound, FineBut
  <2>2. CanClose(n, p, n.peer[p])
    BY <1>2, <2>1, SettledIsClosable DEF Fine, FineAs, CanClose
  <2> QED
    BY <1>2, <2>1, <2>2, CompleteTransactionSound
<1> QED
  BY <1>1, <1>2

(* A procedure is queued with its transaction. *)
LEMMA StartSecuritySound ==
  ASSUME NEW n \in Work, Sound(n), NEW p \in Peer, NEW done \in BOOLEAN, NEW force \in BOOLEAN
  PROVE  Sound(StartSecurity(n, p, done, force))
<1> DEFINE s == n.peer[p]
<1>1. s \in PeerState
  BY DEF Work
<1>2. ASSUME s.proc = None PROVE Sound(Then(QueueSecurity(n, p, done), ToCall("ProcessPending", p)))
  <2> DEFINE t == QueuedSecurity(s, done)
             m == QueueSecurity(n, p, done)
  <2>1. t \in PeerState /\ m = Put(n, p, t) /\ m \in Work
    BY QueueSecurityIs
  <2>2. FineAs(n, p, t)
    BY <1>1, <1>2, QueuedSecurityKeeps DEF Sound, Fine, FineAs
  <2> HIDE DEF t, m
  <2>3. Changes(n, m, p, t)
    BY <2>1, PutChanges
  <2>4. Sound(m)
    BY <2>2, <2>3, ChangesSound DEF Sound, FineBut
  <2>5. /\ ToCall("ProcessPending", p) \in Calls /\ Deferrable(ToCall("ProcessPending", p))
        /\ ToCall("ProcessPending", p).op # "ResetTransaction"
    BY CallType DEF Operations, ToCall, Deferrable
  <2> QED
    BY <2>1, <2>4, <2>5, ThenSound DEF m
<1> QED
  BY <1>2, StartSecurityCases, SecurityCompleteSound

(* do_cb of the current transaction, that may be completed if it fails. *)
LEMMA DoSound ==
  ASSUME NEW n \in Work, NEW p \in Peer, FineBut(n, p), n.peer[p].current # None,
         CanClose(n, p, n.peer[p]),
         Erasing(n.calls, p) \/
           (n.peer[p].current.tx = Security /\ n.peer[p].proc # None /\ ~n.peer[p].proc.queued
              => n.peer[p].proc.mid = n.peer[p].current.id)
  PROVE  Sound(Do(n, p))
<1> DEFINE s == n.peer[p]
           id == s.current.id
<1>1. s \in PeerState /\ id \in Id
  BY DEF Work, PeerState, CurrentTransaction
<1>2. Sound(CompleteTransaction(n, p, id, FALSE))
  BY CompleteTransactionSound
<1>3. ~Erasing(n.calls, p) => /\ OneReset(n.calls, p) /\ ~Ending(n.calls, p) /\ Closable(p, s)
                              /\ s.current.tx = Security /\ s.proc # None /\ ~s.proc.queued => s.proc.mid = id
  BY DEF CanClose, OneReset, Ending
<1>4. ASSUME s.current.tx = Security PROVE Sound(SendMsg1(n, p, id))
  <2>1. ASSUME s.proc # None, NEW t \in PeerState, Sending(s, t, id), Changes(n, SendMsg1(n, p, id), p, t)
        PROVE  Sound(SendMsg1(n, p, id))
    <3>1. FineAs(n, p, t)
      BY <1>1, <1>3, <1>4, <2>1, SendingSettles DEF FineAs
    <3> QED
      BY <2>1, <3>1, ChangesSound
  <2> QED
    BY <1>1, <1>2, <2>1, SendMsg1Cases
<1>5. ASSUME NEW req \in Id, s.current.tx = Keys(req) PROVE Sound(SendRequest(n, p, id, req))
  <2>1. ASSUME s.acq # None, s.acq.id = req, Changes(n, SendRequest(n, p, id, req), p, s)
        PROVE  Sound(SendRequest(n, p, id, req))
    <3>1. FineAs(n, p, s)
      BY <1>1, <1>3, <1>5, <2>1, RequestSettles DEF FineAs
    <3> QED
      BY <2>1, <3>1, ChangesSound
  <2>2. ASSUME s.proc = None
        PROVE  Sound(CompleteTransaction(QueueSecurity(n, p, FALSE), p, id, FALSE))
    <3> DEFINE t == QueuedSecurity(s, FALSE)
               m == QueueSecurity(n, p, FALSE)
    <3>1. t \in PeerState /\ m = Put(n, p, t) /\ m \in Work
      BY QueueSecurityIs
    <3>2. t.current = s.current /\ (Closable(p, s) => Closable(p, t))
      BY <1>1, <2>2, QueuedSecurityType, QueuedSecurityKeeps
    <3> HIDE DEF t, m
    <3>3. Changes(n, m, p, t)
      BY <3>1, PutChanges
    <3>4. FineBut(m, p) /\ m.peer[p] = t /\ CanClose(m, p, t)
      BY <3>2, <3>3 DEF Changes, FineBut, Fine, FineAs, CanClose
    <3> QED
      BY <3>1, <3>2, <3>4, CompleteTransactionSound DEF m
  <2>3. \/ SendRequest(n, p, id, req) = CompleteTransaction(n, p, id, FALSE)
        \/ /\ s.proc = None
           /\ SendRequest(n, p, id, req) = CompleteTransaction(QueueSecurity(n, p, FALSE), p, id, FALSE)
        \/ s.acq # None /\ s.acq.id = req /\ Changes(n, SendRequest(n, p, id, req), p, s)
    <3> HIDE DEF id
    <3> QED
      BY <1>1, <1>5, SendRequestCases
  <2> HIDE DEF id, s
  <2> QED
    BY <1>2, <2>1, <2>2, <2>3
<1> QED
  BY <1>4, <1>5, DoCases

(* The next transaction belongs to a procedure, or is completed at once. *)
LEMMA ProcessPendingSound ==
  ASSUME NEW n \in Work, Sound(n), NEW p \in Peer
  PROVE  Sound(ProcessPending(n, p))
<1> DEFINE s == n.peer[p]
<1>1. s \in PeerState
  BY DEF Work
<1>2. ASSUME s.current = None, s.pending # << >>, NEW id \in Id
      PROVE  Sound(Do(Then(Put(n, p, Taken(s, id)), ToCall("ArmTransactionTimer", p)), p))
  <2> DEFINE t == Taken(s, id)
             k == Put(n, p, t)
             c == ToCall("ArmTransactionTimer", p)
             m == Then(k, c)
  <2>1. t \in PeerState /\ t.current # None
    BY <1>1, <1>2, TakenType
  <2>2. c \in Calls /\ Deferrable(c) /\ c.op # "ResetTransaction"
    BY CallType DEF Operations, ToCall, Deferrable
  <2>3. Erasing(n.calls, p) \/ (~Ending(n.calls, p) /\ Settled(p, s))
    BY <1>2 DEF Sound, Fine, FineAs, Ended
  <2>4. Settled(p, s) => Closable(p, t) /\ (t.proc # None => t.proc.queued)
    BY <1>1, <1>2, TakenIsClosable
  <2> HIDE DEF t
  <2>5. k \in Work /\ k.calls = n.calls /\ k.peer[p] = t /\ \A q \in Peer \ {p} : k.peer[q] = n.peer[q]
    BY <2>1, PutType
  <2> HIDE DEF k, c
  <2>6. m \in Work /\ m.peer = k.peer /\ m.calls = <<c>> \o k.calls
    BY <2>2, <2>5, ThenType
  <2> HIDE DEF m
  <2>7. n.calls \in Seq(Calls)
    BY DEF Work
  <2>8. /\ Orderly(n.calls) => Orderly(m.calls)
        /\ \A q : Erasing(m.calls, q) <=> Erasing(n.calls, q)
        /\ \A q : Ending(m.calls, q) <=> Ending(n.calls, q)
        /\ \A q : OneReset(n.calls, q) => OneReset(m.calls, q)
    <3>1. \A q : ~Is(c, "ResetTransaction", q)
      BY <2>2 DEF Is
    <3>2. m.calls = <<c>> \o n.calls
      BY <2>5, <2>6
    <3> QED
      BY <2>2, <2>7, <3>1, <3>2, PushCall
  <2>9. FineBut(m, p)
    BY <2>5, <2>6, <2>8 DEF Sound, FineBut, Fine, FineAs
  <2>10. m.peer[p] = t /\ CanClose(m, p, t)
    BY <2>3, <2>4, <2>5, <2>6, <2>8 DEF CanClose
  <2> QED
    <3>1. Erasing(m.calls, p) \/ (t.proc # None => t.proc.queued)
      BY <2>3, <2>4, <2>8
    <3> QED
      BY <2>1, <2>6, <2>9, <2>10, <3>1, DoSound DEF m, k, c, t
<1> QED
  BY <1>2, ProcessPendingCases

(* Every call keeps the working copy sound. *)
LEMMA CallSound ==
  ASSUME NEW n \in Work, Sound(n), n.calls # << >>
  PROVE  Sound(MakeCall(n))
<1> DEFINE m == Popped(n)
           c == Head(n.calls)
           p == c.peer
<1>1. /\ m \in Work /\ m.calls = Tail(n.calls) /\ m.peer = n.peer /\ c \in Calls
      /\ MakeCall(n) = Call(m, c)
  BY PoppedType
<1>2. n.calls \in Seq(Calls)
  BY DEF Work
<1> HIDE DEF m, c
<1>3. p \in Peer /\ c.done \in BOOLEAN /\ c.force \in BOOLEAN /\ c.op \in Operations
  BY <1>1 DEF Calls
<1>4. /\ Orderly(m.calls)
      /\ c.op = "Erase" => m.calls = << >> /\ Erasing(n.calls, p)
      /\ c.op \in {"FinishSecurity", "FinishAcquisition"} => Erasing(m.calls, p)
      /\ c.op # "Erase" => \A q : Erasing(m.calls, q) <=> Erasing(n.calls, q)
      /\ \A q : Ending(n.calls, q) <=> (Ending(m.calls, q) \/ Is(c, "ResetTransaction", q))
      /\ \A q : OneReset(n.calls, q) => OneReset(m.calls, q) /\ ~(Ending(m.calls, q) /\ Is(c, "ResetTransaction", q))
  BY <1>1, <1>2, PopCall DEF Sound, c
<1> HIDE DEF p
<1>5. Is(c, c.op, p) /\ \A q : Is(c, "ResetTransaction", q) => q = p
  BY DEF Is, p
<1>6. c.op # "Erase" => FineBut(m, p)
  BY <1>1, <1>4, <1>5 DEF Sound, FineBut, Fine, FineAs
<1>7. c.op \notin {"Erase", "ResetTransaction"} => Sound(m)
  <2>1. c.op # "ResetTransaction" => \A q : ~Is(c, "ResetTransaction", q)
    BY DEF Is
  <2> QED
    BY <1>1, <1>4, <2>1 DEF Sound, Fine, FineAs
<1>8. CASE c.op = "StartSecurity"
  BY <1>1, <1>3, <1>7, <1>8, CallCases, StartSecuritySound DEF p
<1>9. CASE c.op = "ProcessPending"
  BY <1>1, <1>3, <1>7, <1>9, CallCases, ProcessPendingSound DEF p
<1>10. CASE c.op = "ResetTransaction"
  <2> DEFINE s == n.peer[p]
             t == Idle(s)
  <2>1. s \in PeerState /\ t \in PeerState
    BY <1>3, IdleType DEF Work
  <2>2. Call(m, c) = Put(m, p, t)
    BY <1>1, <1>3, <1>10, CallCases, ResetTransactionIs DEF p
  <2>3. FineAs(n, p, s)
    BY <1>3 DEF Sound, Fine
  <2>4. Is(c, "ResetTransaction", p)
    BY <1>5, <1>10
  <2>5. Ended(p, s) => Settled(p, t)
    BY <2>1, EndedSettles
  <2>6. FineAs(m, p, t)
    <3> HIDE DEF t, s
    <3> QED
      BY <1>4, <1>10, <2>3, <2>4, <2>5 DEF FineAs
  <2>7. Changes(m, Put(m, p, t), p, t)
    BY <1>1, <1>3, <2>1, PutChanges
  <2> QED
    BY <1>1, <1>3, <1>6, <1>10, <2>2, <2>6, <2>7, ChangesSound
<1>11. CASE c.op \in {"ArmTransactionTimer", "Respond", "EraseKey"}
  <2>1. Touches(m, Call(m, c), p)
    BY <1>1, <1>3, <1>11, CallCases, TouchCases DEF p, Touches
  <2>2. PICK t \in PeerState : Alike(m.peer[p], t) /\ Changes(m, Call(m, c), p, t)
    BY <2>1 DEF Touches
  <2>3. FineAs(m, p, t)
    BY <1>3, <1>7, <1>11, <2>2, AlikeKeeps DEF Sound, Fine, FineAs
  <2> QED
    BY <1>1, <1>3, <1>6, <1>11, <2>2, <2>3, ChangesSound
<1>12. CASE c.op = "FinishSecurity"
  <2>1. Call(m, c) = FinishSecurity(m, p, FALSE)
    BY <1>1, <1>12, CallCases DEF p
  <2>2. FineAs(m, p, WithoutProcedure(m.peer[p]))
    BY <1>4, <1>12 DEF FineAs
  <2> QED
    BY <1>1, <1>3, <1>6, <1>12, <2>1, <2>2, FinishSecuritySound
<1>13. CASE c.op = "FinishAcquisition"
  <2>1. Call(m, c) = FinishAcquisition(m, p, FALSE)
    BY <1>1, <1>13, CallCases DEF p
  <2>2. FineAs(m, p, WithoutAcquisition(m.peer[p]))
    BY <1>4, <1>13 DEF FineAs
  <2> QED
    BY <1>1, <1>3, <1>6, <1>13, <2>1, <2>2, FinishAcquisitionSound
<1>14. CASE c.op = "Erase"
  <2>1. Call(m, c) = Erase(m, p)
    BY <1>1, <1>14, CallCases DEF p
  <2> DEFINE e == Erase(m, p)
  <2>2. PICK t \in PeerState :
           /\ t.proc = None /\ t.acq = None /\ t.current = None /\ t.pending = << >>
           /\ e.peer[p] = t
           /\ \A q \in Peer \ {p} : e.peer[q] = m.peer[q]
           /\ e.calls = m.calls
    BY <1>1, <1>3, EraseIs
  <2> HIDE DEF e
  <2>3. m.calls = << >> /\ \A q : ~Ending(e.calls, q) /\ OneReset(e.calls, q) /\ ~Erasing(e.calls, q)
    BY <1>4, <1>14, <2>2 DEF Ending, OneReset, Erasing
  <2>4. Settled(p, t)
    BY <2>2 DEF Settled
  <2>5. ASSUME NEW q \in Peer \ {p} PROVE Settled(q, n.peer[q])
    <3>1. ~Ending(n.calls, q)
      <4>1. ~Is(c, "ResetTransaction", q) /\ ~Ending(m.calls, q)
        BY <1>14, <2>2, <2>3 DEF Is
      <4> QED
        BY <1>4, <4>1
    <3>2. ~Erasing(n.calls, q)
      BY <1>4, <1>14, <2>5 DEF Erasing, Is
    <3> QED
      BY <2>5, <3>1, <3>2 DEF Sound, Fine, FineAs
  <2>6. Orderly(e.calls)
    BY <1>4, <2>2
  <2> QED
    BY <1>1, <2>1, <2>2, <2>3, <2>4, <2>5, <2>6 DEF Sound, Fine, FineAs, e
<1> QED
  BY <1>3, <1>8, <1>9, <1>10, <1>11, <1>12, <1>13, <1>14 DEF Operations

SoundWork == {n \in Work : Sound(n)}

(* So do all of them. *)
LEMMA RunSound ==
  ASSUME NEW n \in Work, Sound(n)
  PROVE  Run(n) \in Work /\ Sound(Run(n))
<1>1. n \in SoundWork
  BY DEF SoundWork
<1>2. ASSUME NEW m \in SoundWork PROVE MakeCall(m) \in SoundWork
  <2>1. m \in Work /\ Sound(m)
    BY DEF SoundWork
  <2>2. CASE m.calls = << >>
    BY <2>2 DEF MakeCall
  <2>3. CASE m.calls # << >>
    BY <2>1, <2>3, CallSound, MakeCallType DEF SoundWork
  <2> QED
    BY <2>2, <2>3
<1>3. Run(n) \in SoundWork
  BY <1>1, <1>2, RunInduction
<1> QED
  BY <1>3 DEF SoundWork

(* The inductive invariant of the transaction queues. *)
AllSettled == \A p \in Peer : Settled(p, node.peer[p])

(* When no call is left, every peer is settled. *)
LEMMA FinishSettles ==
  ASSUME NEW n \in Work, Sound(n), NEW rest, Finish(n, rest)
  PROVE  AllSettled'
<1> DEFINE r == Run(n)
<1>1. r \in Work /\ Sound(r)
  BY RunSound
<1>2. r.calls = << >> /\ node' = [peer |-> r.peer, candidates |-> r.candidates, ongoing |-> r.ongoing,
                  collecting |-> r.collecting, retry |-> r.retry]
  BY DEF Finish
<1> HIDE DEF r
<1>3. node'.peer = r.peer
  BY <1>2
<1>4. \A p : ~Ending(r.calls, p) /\ ~Erasing(r.calls, p)
  BY <1>2 DEF Ending, Erasing
<1>5. \A p \in Peer : Settled(p, r.peer[p])
  BY <1>1, <1>4 DEF Sound, Fine, FineAs
<1> QED
  BY <1>3, <1>5 DEF AllSettled

(* A handler starts from a settled node. *)
LEMMA BeginSound ==
  ASSUME node \in NodeState, AllSettled, NEW n \in Work, n.calls = << >>,
         \A p \in Peer : Settled(p, n.peer[p])
  PROVE  Sound(n) /\ \A p : ~Ending(n.calls, p)
<1>1. \A p : ~Ending(n.calls, p) /\ OneReset(n.calls, p)
  BY DEF Ending, OneReset
<1>2. Orderly(n.calls)
  BY DEF Orderly
<1> QED
  BY <1>1, <1>2 DEF Sound, Fine, FineAs

(* do_cb again, of a transaction that is waiting for its answer. *)
LEMMA DoCurrentSound ==
  ASSUME NEW n \in Work, Sound(n), NEW p \in Peer, ~Ending(n.calls, p), n.peer[p].current # None
  PROVE  Sound(Do(n, p))
<1>1. FineBut(n, p) /\ Fine(n, p)
  BY DEF Sound, FineBut
<1>2. Erasing(n.calls, p) \/ Settled(p, n.peer[p])
  BY <1>1 DEF Fine, FineAs
<1>3. CanClose(n, p, n.peer[p])
  BY <1>2, SettledIsClosable DEF CanClose
<1>4. Erasing(n.calls, p) \/
        (n.peer[p].current.tx = Security /\ n.peer[p].proc # None /\ ~n.peer[p].proc.queued
           => n.peer[p].proc.mid = n.peer[p].current.id)
  BY <1>2, SettledIsClosable
<1> QED
  BY <1>1, <1>3, <1>4, DoSound

LEMMA RetriedKeeps ==
  ASSUME NEW p, NEW s \in PeerState, s.acq # None, Settled(p, s)
  PROVE  Settled(p, Retried(s))
<1> DEFINE t == Retried(s)
<1>1. /\ t.acq # None /\ t.acq.id = s.acq.id /\ t.proc = s.proc /\ t.current = s.current
      /\ t.pending = s.pending
  BY RetriedType
<1> HIDE DEF t
<1>2. \A y : Waiting(s, y) <=> Waiting(t, y)
  BY <1>1 DEF Waiting
<1> QED
  BY <1>1, <1>2 DEF Settled, t

LEMMA ExpireSound ==
  ASSUME NEW n \in Work, Sound(n), NEW p \in Peer, ~Ending(n.calls, p)
  PROVE  Sound(ExpireTransaction(n, p))
<1> DEFINE s == n.peer[p]
           t == Retried(s)
           m == Put(n, p, t)
<1>1. s \in PeerState
  BY DEF Work
<1>2. ASSUME s.acq # None, s.current # None PROVE Sound(Do(m, p))
  <2>1. t \in PeerState /\ t.current = s.current /\ (Settled(p, s) => Settled(p, t))
    BY <1>1, <1>2, RetriedType, RetriedKeeps
  <2> HIDE DEF t
  <2>2. m \in Work /\ Changes(n, m, p, t)
    BY <2>1, PutType, PutChanges
  <2> HIDE DEF m
  <2>3. FineAs(n, p, t)
    BY <2>1 DEF Sound, Fine, FineAs
  <2>4. Sound(m)
    BY <2>2, <2>3, ChangesSound DEF Sound, FineBut
  <2>5. m.peer[p].current # None /\ ~Ending(m.calls, p)
    BY <1>2, <2>1, <2>2 DEF Changes
  <2> QED
    BY <2>2, <2>4, <2>5, DoCurrentSound
<1> HIDE DEF m, t
<1>3. \/ ExpireTransaction(n, p) = n
      \/ s.current # None /\ ExpireTransaction(n, p) = Do(n, p)
      \/ s.current # None /\ ExpireTransaction(n, p) = CompleteTransaction(n, p, s.current.id, FALSE)
      \/ s.current # None /\ s.acq # None /\ ExpireTransaction(n, p) = Do(m, p)
  BY ExpireCases DEF m, t
<1> QED
  BY <1>2, <1>3, DoCurrentSound, CompleteCurrentSound

(* The abort: what is left of a transaction and a procedure that are gone. *)
LEMMA AbortedSettles ==
  ASSUME NEW p, "cross" \in Environment[p], NEW s \in PeerState
  PROVE  Settled(p, WithoutProcedure(Idle(s)))
<1> DEFINE t == WithoutProcedure(Idle(s))
<1>1. t.proc = None /\ t.current = None
  BY IdleType, WithoutProcedureType
<1> HIDE DEF t
<1> QED
  BY <1>1 DEF Settled, t

LEMMA AbortSenderSound ==
  ASSUME NEW n \in Work, Sound(n), NEW p \in Peer, ~Ending(n.calls, p), "cross" \in Environment[p]
  PROVE  Sound(AbortSender(n, p))
<1> DEFINE s == n.peer[p]
           t == Idle(s)
           m == Put(n, p, t)
<1>1. s \in PeerState /\ t \in PeerState
  BY IdleType DEF Work
<1>2. AbortSender(n, p) = FinishSecurity(m, p, FALSE)
  BY ResetTransactionIs DEF AbortSender
<1>3. Settled(p, WithoutProcedure(t))
  BY <1>1, AbortedSettles
<1> HIDE DEF t
<1>4. m \in Work /\ Changes(n, m, p, t)
  BY <1>1, PutType, PutChanges
<1> HIDE DEF m
<1>5. OneReset(n.calls, p)
  BY DEF OneReset, Ending
<1>6. FineBut(m, p) /\ FineAs(m, p, WithoutProcedure(m.peer[p]))
  BY <1>3, <1>4, <1>5 DEF Changes, Sound, FineBut, Fine, FineAs
<1> QED
  BY <1>2, <1>4, <1>6, FinishSecuritySound

LEMMA HandleMsg1Sound ==
  ASSUME NEW n \in Work, Sound(n), NEW p \in Peer, ~Ending(n.calls, p), "cross" \in Environment[p],
         NEW arbitration, NEW accepted \in BOOLEAN
  PROVE  Sound(HandleMsg1(n, p, arbitration, accepted))
<1>1. ASSUME NEW c \in {ToCall("Respond", p), SecurityCall(p, FALSE, TRUE)}
      PROVE  Sound(Then(n, c)) /\ Sound(AbortSender(Then(n, c), p))
  <2>1. c \in Calls
    BY CallType DEF Operations
  <2>2. Deferrable(c) /\ c.op # "ResetTransaction" /\ ~Is(c, "ResetTransaction", p)
    BY DEF ToCall, SecurityCall, Deferrable, Is
  <2>3. Sound(Then(n, c)) /\ Then(n, c) \in Work
    BY <2>1, <2>2, ThenSound
  <2>4. Then(n, c).calls = <<c>> \o n.calls /\ n.calls \in Seq(Calls)
    BY <2>1, ThenType DEF Work
  <2>5. ~Ending(Then(n, c).calls, p)
    BY <2>1, <2>2, <2>4, PushCall
  <2> QED
    BY <2>3, <2>5, AbortSenderSound
<1>2. Sound(AbortSender(n, p))
  BY AbortSenderSound
<1> QED
  BY <1>1, <1>2, HandleMsg1Cases

(* A message or a timer that leaves the procedures as they are. *)
LEMMA TouchesSound ==
  ASSUME NEW n \in Work, Sound(n), NEW p \in Peer, NEW m, Touches(n, m, p)
  PROVE  m \in Work /\ Sound(m) /\ m.calls = n.calls
<1>1. PICK t \in PeerState : Alike(n.peer[p], t) /\ Changes(n, m, p, t)
  BY DEF Touches
<1>2. FineAs(n, p, t)
  BY <1>1, AlikeKeeps DEF Sound, Fine, FineAs
<1> QED
  BY <1>1, <1>2, ChangesSound DEF Sound, FineBut, Changes

LEMMA HandleMsg2Sound ==
  ASSUME NEW n \in Work, Sound(n), NEW p \in Peer, ~Ending(n.calls, p), NEW id,
         NEW status \in {"OK", "UNSUPPORTED", "VERIFICATION_FAILED", "UNKNOWN_PEER"}
  PROVE  Sound(HandleMsg2(n, p, id, status))
<1>1. ASSUME NEW c \in Calls, Deferrable(c), c.op # "ResetTransaction"
      PROVE  Then(n, c) \in Work /\ Sound(Then(n, c)) /\ ~Ending(Then(n, c).calls, p)
  <2>1. Sound(Then(n, c)) /\ Then(n, c) \in Work
    BY <1>1, ThenSound
  <2>2. Then(n, c).calls = <<c>> \o n.calls /\ n.calls \in Seq(Calls)
    BY <1>1, ThenType DEF Work
  <2>3. ~Is(c, "ResetTransaction", p)
    BY <1>1 DEF Is
  <2> QED
    BY <1>1, <2>1, <2>2, <2>3, PushCall
<1>2. ASSUME NEW k \in Work, Sound(k), ~Ending(k.calls, p), NEW m, Touches(k, m, p), NEW ok \in BOOLEAN
      PROVE  Sound(CompleteTransaction(m, p, id, ok))
  <2>1. m \in Work /\ Sound(m) /\ m.calls = k.calls
    BY <1>2, TouchesSound
  <2> QED
    BY <1>2, <2>1, CompleteCurrentSound
<1>3. Sound(CompleteTransaction(n, p, id, FALSE)) /\ Sound(CompleteTransaction(n, p, id, TRUE))
  BY CompleteCurrentSound
<1>4. Sound(CompleteTransaction(Then(n, ToCall("EraseKey", p)), p, id, FALSE))
  <2> DEFINE c == ToCall("EraseKey", p)
  <2>1. c \in Calls /\ Deferrable(c) /\ c.op # "ResetTransaction"
    BY CallType DEF Operations, ToCall, Deferrable
  <2> HIDE DEF c
  <2>2. Then(n, c) \in Work /\ Sound(Then(n, c)) /\ ~Ending(Then(n, c).calls, p)
    BY <1>1, <2>1
  <2> QED
    BY <2>2, CompleteCurrentSound DEF c
<1>5. Sound(CompleteTransaction(Respond(n, p), p, id, TRUE))
  <2>1. Touches(n, Respond(n, p), p)
    BY TouchCases DEF Touches
  <2> QED
    BY <1>2, <2>1
<1>6. ASSUME NEW done \in BOOLEAN, NEW m \in Work, Touches(Then(n, SecurityCall(p, done, TRUE)), m, p)
      PROVE  Sound(CompleteTransaction(m, p, id, FALSE))
  <2> DEFINE c == SecurityCall(p, done, TRUE)
  <2>1. c \in Calls /\ Deferrable(c) /\ c.op # "ResetTransaction"
    BY CallType DEF SecurityCall, Deferrable
  <2> HIDE DEF c
  <2>2. Then(n, c) \in Work /\ Sound(Then(n, c)) /\ ~Ending(Then(n, c).calls, p)
    BY <1>1, <2>1
  <2> QED
    BY <1>2, <1>6, <2>2 DEF c
<1> QED
  BY <1>3, <1>4, <1>5, <1>6, HandleMsg2Cases

LEMMA HandleResponseSound ==
  ASSUME NEW n \in Work, Sound(n), NEW p \in Peer, ~Ending(n.calls, p), NEW id
  PROVE  Sound(HandleResponse(n, p, id))
<1>1. Sound(CompleteTransaction(n, p, n.peer[p].current.id, TRUE))
  BY CompleteCurrentSound
<1>2. ASSUME n.peer[p].current = None PROVE Sound(FinishAcquisition(n, p, TRUE))
  <2> DEFINE s == n.peer[p]
             t == WithoutAcquisition(s)
  <2>1. s \in PeerState
    BY DEF Work
  <2>2. /\ t.acq = None /\ t.proc = s.proc /\ t.current = s.current /\ t.pending = s.pending
    BY <2>1, WithoutAcquisitionType
  <2> HIDE DEF t
  <2>3. \A y : Waiting(s, y) <=> Waiting(t, y)
    BY <2>2 DEF Waiting
  <2>4. FineAs(n, p, t)
    BY <1>2, <2>2, <2>3 DEF Sound, Fine, FineAs, Settled, Ended
  <2>5. FineBut(n, p)
    BY DEF Sound, FineBut
  <2> QED
    BY <2>4, <2>5, FinishAcquisitionSound DEF t
<1> QED
  BY <1>1, <1>2, HandleResponseCases

(* peer_cleanup erases the peer whatever its procedures have become. *)
LEMMA CleanupSound ==
  ASSUME NEW n \in Work, Sound(n), n.calls = << >>, NEW p \in Peer
  PROVE  Cleanup(n, p) \in Work /\ Sound(Cleanup(n, p))
<1> DEFINE m == Cleanup(n, p)
           F == {ToCall("FinishSecurity", p), ToCall("FinishAcquisition", p)}
<1>1. /\ m \in Work /\ \A q \in Peer \ {p} : m.peer[q] = n.peer[q]
      /\ m.calls # << >> /\ m.calls[Len(m.calls)] = ToCall("Erase", p)
      /\ \A i \in DOMAIN m.calls : i = Len(m.calls) \/ m.calls[i] \in F
  BY CleanupIs
<1> HIDE DEF m
<1>2. /\ \A c \in F : /\ c.peer = p /\ c.op \notin {"Erase", "ResetTransaction"}
      /\ ToCall("Erase", p).op = "Erase" /\ ToCall("Erase", p).peer = p
  BY DEF ToCall
<1> HIDE DEF F
<1>3. Erasing(m.calls, p)
  BY <1>1, <1>2 DEF Erasing, Is
<1>4. Orderly(m.calls)
  BY <1>1, <1>2, <1>3 DEF Orderly
<1>5. ASSUME NEW q \in Peer \ {p} PROVE Fine(m, q)
  <2>1. Settled(q, n.peer[q])
    BY DEF Sound, Fine, FineAs, Ending, Erasing
  <2>2. ~Ending(m.calls, q)
    BY <1>1, <1>2 DEF Ending, Is
  <2>3. OneReset(m.calls, q)
    BY <2>2 DEF Ending, OneReset
  <2> QED
    BY <1>1, <2>1, <2>2, <2>3 DEF Fine, FineAs
<1>6. Fine(m, p)
  BY <1>3 DEF Fine, FineAs
<1> QED
  BY <1>1, <1>4, <1>5, <1>6 DEF Sound, m

LEMMA BeginSettled ==
  ASSUME node \in NodeState, AllSettled, NEW o \in Orders
  PROVE  Begin(o) \in Work /\ Sound(Begin(o)) /\ Begin(o).calls = << >>
<1>1. Begin(o) \in Work /\ Begin(o).calls = << >> /\ Begin(o).peer = node.peer
  BY BeginType
<1> QED
  BY <1>1, BeginSound DEF AllSettled

LEMMA SameSettled ==
  ASSUME AllSettled,
         \A p \in Peer : /\ node'.peer[p].proc = node.peer[p].proc
                         /\ node'.peer[p].acq = node.peer[p].acq
                         /\ node'.peer[p].current = node.peer[p].current
                         /\ node'.peer[p].pending = node.peer[p].pending
  PROVE  AllSettled'
<1> SUFFICES ASSUME NEW p \in Peer PROVE Settled(p, node'.peer[p])
  BY DEF AllSettled
<1> DEFINE s == node.peer[p]
           t == node'.peer[p]
<1>1. Settled(p, s) /\ t.proc = s.proc /\ t.acq = s.acq /\ t.current = s.current /\ t.pending = s.pending
  BY DEF AllSettled
<1> HIDE DEF s, t
<1>2. \A y : Waiting(s, y) <=> Waiting(t, y)
  BY <1>1 DEF Waiting
<1>3. Settled(p, t)
  BY <1>1, <1>2 DEF Settled
<1> QED
  BY <1>3 DEF t

(* The inductive step: one case per action. *)
LEMMA SettledStep == TypeOK /\ AllSettled /\ [Next]_vars => AllSettled'
<1> SUFFICES ASSUME TypeOK, AllSettled, [Next]_vars PROVE AllSettled'
  OBVIOUS
<1>1. node \in NodeState /\ wire \subseteq Message
  BY DEF TypeOK
<1>2. ASSUME node'.peer = node.peer PROVE AllSettled'
  BY <1>2, SameSettled
<1>3. ASSUME AcquireKeys \/ QueryRetryTimer PROVE AllSettled'
  <2>1. [node EXCEPT !.retry = FALSE] \in NodeState /\ [node EXCEPT !.retry = FALSE].peer = node.peer
    BY <1>1 DEF NodeState
  <2> QED
    BY <1>1, <1>2, <1>3, <2>1, StartQueryIs DEF AcquireKeys, QueryRetryTimer
<1>4. ASSUME CollectTimer PROVE AllSettled'
  <2>1. PICK m \in Work : m.peer = node.peer /\ m.calls = << >> /\ Finish(StartNext(m), wire)
    BY <1>1, <1>4, CollectTimerIs
  <2>2. Sound(m)
    BY <1>1, <2>1, BeginSound DEF AllSettled
  <2> QED
    BY <2>1, <2>2, StartNextSound, StartNextType, FinishSettles
<1>5. ASSUME NEW p \in Peer, TransactionTimeout(p) PROVE AllSettled'
  <2>1. PICK o \in Orders, m \in Work : Touches(Begin(o), m, p) /\ Finish(ExpireTransaction(m, p), wire)
    BY <1>1, <1>5, TransactionTimeoutIs
  <2>2. Begin(o) \in Work /\ Sound(Begin(o)) /\ Begin(o).calls = << >>
    BY <1>1, BeginSettled
  <2>3. Sound(m) /\ ~Ending(m.calls, p)
    BY <2>1, <2>2, TouchesSound DEF Ending
  <2> QED
    BY <2>1, <2>3, ExpireSound, ExpireType, FinishSettles
<1>6. ASSUME NEW p \in Peer, ContextExpiring(p) PROVE AllSettled'
  <2>1. PICK o \in Orders, t \in PeerState, m \in Work :
          /\ t.proc = node.peer[p].proc /\ t.acq = node.peer[p].acq
          /\ t.current = node.peer[p].current /\ t.pending = node.peer[p].pending
          /\ Changes(Begin(o), m, p, t)
          /\ Finish(StartSecurity(m, p, FALSE, FALSE), wire)
    BY <1>1, <1>6, ContextExpiringIs
  <2>2. Begin(o).calls = << >> /\ Begin(o).peer = node.peer
    BY <1>1, BeginType
  <2>3. Settled(p, node.peer[p])
    BY DEF AllSettled
  <2>4. \A y : Waiting(node.peer[p], y) <=> Waiting(t, y)
    BY <2>1 DEF Waiting
  <2>5. Settled(p, t)
    BY <2>1, <2>3, <2>4 DEF Settled
  <2>6. m.calls = << >> /\ \A q \in Peer : Settled(q, m.peer[q])
    BY <2>1, <2>2, <2>5 DEF Changes, AllSettled
  <2>7. Sound(m)
    BY <1>1, <2>6, BeginSound
  <2> QED
    BY <2>1, <2>7, StartSecuritySound, StartSecurityType, FinishSettles
<1>7. ASSUME NEW p \in Peer, ContextExpired(p) \/ HandleBeacon(p) PROVE AllSettled'
  <2>1. \A q \in Peer : /\ node'.peer[q].proc = node.peer[q].proc
                        /\ node'.peer[q].acq = node.peer[q].acq
                        /\ node'.peer[q].current = node.peer[q].current
                        /\ node'.peer[q].pending = node.peer[q].pending
    BY <1>1, <1>7, ContextOrBeaconIs
  <2> QED
    BY <2>1, SameSettled
<1>8. ASSUME NEW p \in Peer, CheckActivity(p) PROVE AllSettled'
  <2>1. PICK o \in Orders : Finish(Cleanup(Begin(o), p), {m \in wire : m.to # p})
    BY <1>8 DEF CheckActivity
  <2>2. Cleanup(Begin(o), p) \in Work /\ Sound(Cleanup(Begin(o), p))
    BY <1>1, BeginSettled, CleanupSound
  <2> QED
    BY <2>1, <2>2, FinishSettles
<1>9. ASSUME NEW p \in Peer, HandleInformation(p) PROVE AllSettled'
  <2>1. node'.peer = node.peer
    BY <1>1, <1>9 DEF HandleInformation, NodeState
  <2> QED
    BY <1>2, <2>1
<1>10. ASSUME NEW p \in Peer, PeerInitiates(p) PROVE AllSettled'
  <2>1. PICK o \in Orders, arbitration \in {"wins", "loses", "ties"}, accepted \in BOOLEAN :
          Finish(HandleMsg1(Begin(o), p, arbitration, accepted), wire)
    BY <1>10 DEF PeerInitiates
  <2>2. Begin(o) \in Work /\ Sound(Begin(o)) /\ ~Ending(Begin(o).calls, p)
    BY <1>1, BeginSettled DEF Ending
  <2>3. "cross" \in Environment[p]
    BY <1>10 DEF PeerInitiates
  <2>4. Sound(HandleMsg1(Begin(o), p, arbitration, accepted))
    BY <2>2, <2>3, HandleMsg1Sound
  <2>5. HandleMsg1(Begin(o), p, arbitration, accepted) \in Work
    BY <2>2, HandleMsg1Type
  <2> QED
    BY <2>1, <2>4, <2>5, FinishSettles
<1>11. ASSUME NEW m \in wire, Answer(m) PROVE AllSettled'
  <2>1. m.to \in Peer
    BY <1>1 DEF Message
  <2>2. PICK o \in Orders, rest \in SUBSET Message :
           \/ \E status \in Statuses(m.to) : Finish(HandleMsg2(Begin(o), m.to, m.id, status), rest)
           \/ Finish(HandleResponse(Begin(o), m.to, m.id), rest)
    BY <1>1, <1>11, AnswerIs
  <2>3. Begin(o) \in Work /\ Sound(Begin(o)) /\ ~Ending(Begin(o).calls, m.to)
    BY <1>1, BeginSettled DEF Ending
  <2>4. HandleResponse(Begin(o), m.to, m.id) \in Work /\ Sound(HandleResponse(Begin(o), m.to, m.id))
    BY <2>1, <2>3, HandleResponseType, HandleResponseSound
  <2>5. \A status \in Statuses(m.to) :
          /\ HandleMsg2(Begin(o), m.to, m.id, status) \in Work
          /\ Sound(HandleMsg2(Begin(o), m.to, m.id, status))
    BY <2>1, <2>3, HandleMsg2Type, HandleMsg2Sound, StatusType
  <2> QED
    BY <2>2, <2>4, <2>5, FinishSettles
<1>12. ASSUME (\E m \in wire : Silence(m)) \/ UNCHANGED vars PROVE AllSettled'
  BY <1>2, <1>12 DEF Silence, vars
<1>13. ASSUME NEW p \in Peer,
              TransactionTimeout(p) \/ ContextExpiring(p) \/ ContextExpired(p) \/ CheckActivity(p)
                \/ HandleBeacon(p) \/ HandleInformation(p) \/ PeerInitiates(p)
       PROVE  AllSettled'
  BY <1>5, <1>6, <1>7, <1>8, <1>9, <1>10, <1>13
<1> QED
  BY <1>3, <1>4, <1>11, <1>12, <1>13 DEF Next

LEMMA SettledInit == Init => AllSettled
  BY DEF Init, AllSettled, Absent, Settled

LEMMA SettledAlways == Spec => [](TypeOK /\ AllSettled)
<1>1. Init => AllSettled
  BY SettledInit
<1>2. TypeOK /\ AllSettled /\ [Next]_vars => AllSettled'
  BY SettledStep
<1> QED
  BY <1>1, <1>2, TypeCorrect, PTL DEF Spec

(* KeyAcquisition!TransactionHasProcedure: the transaction that holds up   *)
(* the queue of a peer belongs to a procedure in progress, whatever the    *)
(* peers send or leave unanswered.                                         *)
THEOREM TransactionsServeProcedures == Spec => []TransactionHasProcedure
<1>1. TypeOK /\ AllSettled => TransactionHasProcedure
  <2> SUFFICES ASSUME AllSettled, NEW p \in Peer, node.peer[p].current # None
               PROVE  \/ node.peer[p].current.tx = Security /\ node.peer[p].proc # None
                         /\ node.peer[p].proc.mid = node.peer[p].current.id
                      \/ node.peer[p].acq # None /\ node.peer[p].current.tx = Keys(node.peer[p].acq.id)
    BY DEF TransactionHasProcedure
  <2>1. Settled(p, node.peer[p])
    BY DEF AllSettled
  <2> QED
    BY <2>1 DEF Settled
<1> QED
  BY <1>1, SettledAlways, PTL

(* KeyAcquisition!SecurityHasTransaction: a peer security procedure in     *)
(* progress has its transaction, so something will end it.                 *)
THEOREM ProceduresHaveTransactions == Spec => []SecurityHasTransaction
<1>1. TypeOK /\ AllSettled => SecurityHasTransaction
  <2> SUFFICES ASSUME AllSettled, NEW p \in Peer, node.peer[p].proc # None
               PROVE  IF node.peer[p].proc.queued
                      THEN Security \in {node.peer[p].pending[i] : i \in DOMAIN node.peer[p].pending}
                      ELSE node.peer[p].current # None /\ node.peer[p].current.id = node.peer[p].proc.mid
    BY DEF SecurityHasTransaction
  <2>1. Settled(p, node.peer[p])
    BY DEF AllSettled
  <2> QED
    BY <2>1 DEF Settled, Waiting
<1> QED
  BY <1>1, SettledAlways, PTL

(* KeyAcquisition!AcquisitionHasTransaction: the same for an acquisition,  *)
(* where no peer initiates peer security itself: peer_abort_sender drops   *)
(* the current transaction whatever it is for.                             *)
THEOREM AcquisitionsHaveTransactions ==
  ASSUME \A p \in Peer : "cross" \notin Environment[p]
  PROVE  Spec => []AcquisitionHasTransaction
<1>1. TypeOK /\ AllSettled => AcquisitionHasTransaction
  <2> SUFFICES ASSUME AllSettled, NEW p \in Peer, node.peer[p].acq # None
               PROVE  \/ Keys(node.peer[p].acq.id)
                           \in {node.peer[p].pending[i] : i \in DOMAIN node.peer[p].pending}
                      \/ node.peer[p].current # None
                         /\ node.peer[p].current.tx = Keys(node.peer[p].acq.id)
    BY DEF AcquisitionHasTransaction
  <2>1. Settled(p, node.peer[p])
    BY DEF AllSettled
  <2> QED
    BY <2>1 DEF Settled, Waiting
<1> QED
  BY <1>1, SettledAlways, PTL

-----------------------------------------------------------------------------
(* The peer that is asked.                                                 *)

(* The peers only answer, with the algorithm pair that was offered, and    *)
(* contexts do not expire.                                                 *)
Calm == \A p \in Peer : {"refuse", "cross", "expire"} \cap Environment[p] = {}

(* The peer is asked for keys, or for the peer security that comes first. *)
Serving(s) == s.acq # None \/ (s.proc # None /\ s.proc.done)

(* No peer is. *)
Nobody(n) == \A p \in Peer : ~Serving(n.peer[p])

(* A peer is not asked for both at once, and in a calm environment every   *)
(* procedure was started by an acquisition, and a request has its context. *)
Decent(s) ==
  /\ s.acq # None /\ s.proc # None => ~s.proc.done
  /\ Calm => /\ s.proc # None => s.proc.done
             /\ s.acq # None => s.ctx # "none"

(* For the node as well as for a working copy of it: the peer that is      *)
(* asked is the ongoing one, and there is none while the node collects     *)
(* information or waits to query.                                          *)
Exclusive(n) ==
  /\ \A p \in Peer : Decent(n.peer[p]) /\ (Serving(n.peer[p]) => n.ongoing = p)
  /\ n.ongoing # None => ~n.collecting /\ ~n.retry
  /\ n.collecting => ~n.retry

(* The ongoing peer is asked. *)
Waited(n) == Calm /\ n.ongoing # None => Serving(n.peer[n.ongoing])

(* A call whose end nobody waits for. *)
Plain(c) == ~c.done /\ (c.op = "StartSecurity" => ~Calm)

AllPlain(n) == \A i \in DOMAIN n.calls : Plain(n.calls[i])

(* No call to be made will report to the acquisition. *)
Ready(n) == Exclusive(n) /\ AllPlain(n) /\ Waited(n)

(* Only the next call may, on behalf of the peer that is asked.            *)
Alone(n) ==
  /\ Exclusive(n)
  /\ \A i \in DOMAIN n.calls :
       ~Plain(n.calls[i]) =>
         /\ i = 1 /\ n.calls[i].op = "StartSecurity" /\ n.calls[i].done
         /\ n.ongoing = n.calls[i].peer /\ Nobody(n)
  /\ AllPlain(n) => Waited(n)

(* No peer is being asked and the next one may be. *)
Free(n) ==
  /\ Nobody(n) /\ AllPlain(n) /\ \A p \in Peer : Decent(n.peer[p])
  /\ ~n.collecting /\ ~n.retry

(* How the three descriptions of a working copy relate. *)
LEMMA ReadyIsAlone ==
  ASSUME NEW n
  PROVE  /\ Ready(n) => Alone(n)
         /\ Free(n) /\ n.ongoing = None => Ready(n)
         /\ Ready(n) /\ Nobody(n) /\ ~n.collecting /\ ~n.retry => Free(n)
  BY DEF Ready, Alone, AllPlain, Free, Exclusive, Waited, Nobody

(* A call put before calls that nobody waits for. *)
LEMMA ThenDone ==
  ASSUME NEW n \in Work, NEW c \in Calls, AllPlain(n)
  PROVE  /\ Plain(c) <=> AllPlain(Then(n, c))
         /\ \A i \in DOMAIN Then(n, c).calls :
              ~Plain(Then(n, c).calls[i]) => i = 1 /\ Then(n, c).calls[i] = c
<1> DEFINE cs == n.calls
           ds == Then(n, c).calls
<1>1. cs \in Seq(Calls) /\ ds = <<c>> \o cs
  BY ThenType DEF Work
<1>2. \A i \in DOMAIN cs : Plain(cs[i])
  BY DEF AllPlain
<1>3. ds[1] = c /\ 1 \in DOMAIN ds /\ \A i \in DOMAIN ds : i = 1 \/ (i - 1 \in DOMAIN cs /\ ds[i] = cs[i - 1])
  <2> HIDE DEF cs, ds
  <2>1. /\ <<c>> \o cs \in Seq(Calls) /\ Len(<<c>> \o cs) = Len(cs) + 1 /\ (<<c>> \o cs)[1] = c
        /\ \A i \in DOMAIN cs : i + 1 \in DOMAIN (<<c>> \o cs) /\ (<<c>> \o cs)[i + 1] = cs[i]
        /\ \A i \in DOMAIN (<<c>> \o cs) : i = 1 \/ (i - 1 \in DOMAIN cs /\ (<<c>> \o cs)[i] = cs[i - 1])
        /\ <<c>> \o cs # << >>
    BY ONLY <1>1, c \in Calls, Push, Zenon
  <2>2. /\ ds[1] = c /\ ds \in Seq(Calls) /\ Len(ds) = Len(cs) + 1
        /\ \A i \in DOMAIN ds : i = 1 \/ (i - 1 \in DOMAIN cs /\ ds[i] = cs[i - 1])
    BY ONLY <1>1, <2>1, Zenon
  <2> QED
    BY <1>1, <2>2
<1>4. \A i \in DOMAIN ds : ~Plain(ds[i]) => i = 1
  BY <1>2, <1>3
<1> QED
  BY <1>2, <1>3, <1>4 DEF AllPlain

LEMMA ThenReady ==
  ASSUME NEW n \in Work, Ready(n), NEW c \in Calls, Plain(c)
  PROVE  Ready(Then(n, c)) /\ Then(n, c) \in Work
<1>1. /\ Then(n, c) \in Work /\ Then(n, c).peer = n.peer /\ Then(n, c).ongoing = n.ongoing
      /\ Then(n, c).collecting = n.collecting /\ Then(n, c).retry = n.retry
  BY ThenType
<1>2. AllPlain(Then(n, c))
  BY ThenDone DEF Ready
<1> QED
  BY <1>1, <1>2 DEF Ready, Exclusive, Waited

LEMMA ToCallType ==
  ASSUME NEW p \in Peer
  PROVE  \A op \in Operations \ {"StartSecurity"} : ToCall(op, p) \in Calls /\ Plain(ToCall(op, p))
  BY CallType DEF ToCall, Plain

LEMMA ChangesReady ==
  ASSUME NEW n \in Work, Ready(n), NEW p \in Peer, NEW m, NEW t \in PeerState, Changes(n, m, p, t),
         Decent(t), Serving(t) <=> Serving(n.peer[p])
  PROVE  Ready(m)
<1>1. \A q \in Peer : Decent(m.peer[q]) /\ (Serving(m.peer[q]) <=> Serving(n.peer[q]))
  BY DEF Changes, Ready, Exclusive
<1>2. n.ongoing \in Peer \cup {None}
  BY DEF Work
<1> QED
  BY <1>1, <1>2 DEF Changes, Ready, Exclusive, Waited, AllPlain

LEMMA SameReady ==
  ASSUME NEW n \in Work, Ready(n), NEW p \in Peer, NEW m, NEW t \in PeerState, Changes(n, m, p, t),
         t.proc = n.peer[p].proc, t.acq = n.peer[p].acq, t.ctx \in {n.peer[p].ctx, "usable"}
  PROVE  Ready(m)
<1>1. Decent(n.peer[p])
  BY DEF Ready, Exclusive
<1>2. Decent(t) /\ (Serving(t) <=> Serving(n.peer[p]))
  BY <1>1 DEF Decent, Serving
<1> QED
  BY <1>2, ChangesReady

(* The peer that is ongoing is asked, or peer security is to be started on *)
(* its behalf.                                                             *)
LEMMA StartAcquisitionAlone ==
  ASSUME NEW n \in Work, NEW p \in Peer, Free(n), n.ongoing = p
  PROVE  Alone(StartAcquisition(n, p))
<1> DEFINE s == n.peer[p]
<1>1. s \in PeerState /\ s.acq = None /\ Decent(s) /\ (s.proc # None => ~s.proc.done)
  BY DEF Work, Free, Nobody, Serving
<1>2. ASSUME s.ctx # "none", NEW id \in Id
      PROVE  Alone(Then(Put(n, p, QueuedKeys(s, id)), ToCall("ProcessPending", p)))
  <2> DEFINE t == QueuedKeys(s, id)
             m == Put(n, p, t)
  <2>1. t \in PeerState /\ t.acq # None /\ t.proc = s.proc /\ t.ctx = s.ctx
    BY <1>1, QueuedKeysType
  <2> HIDE DEF t
  <2>2. m \in Work /\ Changes(n, m, p, t)
    BY <2>1, PutType, PutChanges
  <2> HIDE DEF m
  <2>3. Serving(t) /\ Decent(t)
    BY <1>1, <1>2, <2>1 DEF Serving, Decent
  <2>4. p # None
    BY NoneAssumption
  <2>5. Ready(m)
    BY <2>2, <2>3, <2>4 DEF Changes, Free, Nobody, Ready, Exclusive, Waited, AllPlain
  <2>6. ToCall("ProcessPending", p) \in Calls /\ Plain(ToCall("ProcessPending", p))
    BY ToCallType DEF Operations
  <2>7. Ready(Then(m, ToCall("ProcessPending", p)))
    BY <2>2, <2>5, <2>6, ThenReady
  <2> QED
    BY <2>7, ReadyIsAlone DEF m, t
<1>3. Alone(Then(n, SecurityCall(p, TRUE, FALSE)))
  <2> DEFINE c == SecurityCall(p, TRUE, FALSE)
             m == Then(n, c)
  <2>1. c \in Calls /\ c.op = "StartSecurity" /\ c.done /\ c.peer = p
    BY CallType DEF SecurityCall
  <2> HIDE DEF c
  <2>2. /\ m \in Work /\ m.peer = n.peer /\ m.ongoing = n.ongoing /\ m.collecting = n.collecting
        /\ m.retry = n.retry
    BY <2>1, ThenType
  <2>3. \A i \in DOMAIN m.calls : ~Plain(m.calls[i]) => i = 1 /\ m.calls[i] = c
    BY <2>1, ThenDone DEF Free
  <2>4. ~AllPlain(m)
    BY <2>1, ThenDone DEF Free, Plain
  <2> HIDE DEF m
  <2>5. Exclusive(m) /\ Nobody(m)
    BY <2>2 DEF Exclusive, Free, Nobody
  <2> QED
    BY <2>1, <2>2, <2>3, <2>4, <2>5 DEF Alone, m, c
<1> QED
  BY <1>1, <1>2, <1>3, StartAcquisitionCases

LEMMA CompleteProcedureAlone ==
  ASSUME NEW n \in Work, Free(n)
  PROVE  Alone(CompleteProcedure(n))
<1> DEFINE m == CompleteProcedure(n)
<1>1. m.peer = n.peer /\ m.calls = n.calls /\ m.ongoing = None /\ m.collecting = n.collecting /\ ~m.retry
  BY CompleteProcedureType
<1> HIDE DEF m
<1>2. Free(m)
  BY <1>1 DEF Free, Nobody, AllPlain
<1> QED
  BY <1>1, <1>2, ReadyIsAlone DEF m

(* The next candidate becomes the ongoing one. *)
LEMMA StartNextAlone ==
  ASSUME NEW n \in Work, Free(n), n.ongoing = None
  PROVE  Alone(StartNext(n))
<1>1. ASSUME NEW q \in Peer, NEW m \in Work, m.peer = n.peer, m.calls = n.calls, m.ongoing = q,
             m.collecting = n.collecting, m.retry = n.retry
      PROVE  Alone(StartAcquisition(m, q))
  <2>1. Free(m)
    BY <1>1 DEF Free, Nobody, AllPlain
  <2> QED
    BY <1>1, <2>1, StartAcquisitionAlone
<1> QED
  BY <1>1, StartNextCases, CompleteProcedureAlone

LEMMA AcquisitionCompleteAlone ==
  ASSUME NEW n \in Work, NEW p \in Peer, Free(n), n.ongoing = p, NEW ok \in BOOLEAN
  PROVE  Alone(AcquisitionComplete(n, p, ok))
<1>1. PICK m \in Work :
           /\ m.peer = n.peer /\ m.calls = n.calls /\ m.collecting = n.collecting
           /\ m.retry = n.retry /\ m.ongoing = IF n.ongoing = p THEN None ELSE n.ongoing
           /\ AcquisitionComplete(n, p, ok) \in {CompleteProcedure(m), StartNext(m)}
  BY AcquisitionCompleteCases
<1>2. Free(m) /\ m.ongoing = None
  BY <1>1 DEF Free, Nobody, AllPlain
<1> QED
  BY <1>1, <1>2, StartNextAlone, CompleteProcedureAlone

LEMMA SecurityCompleteAlone ==
  ASSUME NEW n \in Work, NEW p \in Peer, Free(n), n.ongoing = p, NEW ok \in BOOLEAN
  PROVE  Alone(SecurityComplete(n, p, ok))
  BY StartAcquisitionAlone, AcquisitionCompleteAlone DEF SecurityComplete

LEMMA FinishSecurityAlone ==
  ASSUME NEW n \in Work, NEW p \in Peer, Ready(n), NEW ok \in BOOLEAN
  PROVE  Alone(FinishSecurity(n, p, ok))
<1> DEFINE s == n.peer[p]
           t == WithoutProcedure(s)
           m == Put(n, p, t)
<1>1. s \in PeerState /\ Decent(s) /\ (Serving(s) => n.ongoing = p)
  BY DEF Work, Ready, Exclusive
<1>2. t \in PeerState /\ t.proc = None /\ t.acq = s.acq /\ t.ctx = s.ctx
  BY <1>1, WithoutProcedureType
<1> HIDE DEF t
<1>3. m \in Work /\ Changes(n, m, p, t)
  BY <1>2, PutType, PutChanges
<1> HIDE DEF m
<1>4. Decent(t)
  BY <1>1, <1>2 DEF Decent
<1>5. CASE s.proc = None
  BY <1>5, ReadyIsAlone, FinishSecurityCases
<1>6. CASE s.proc # None /\ s.proc.done
  <2>1. n.ongoing = p /\ ~Serving(t)
    BY <1>1, <1>2, <1>6 DEF Serving, Decent
  <2>2. p # None
    BY NoneAssumption
  <2>3. Free(m) /\ m.ongoing = p
    BY <1>3, <1>4, <2>1, <2>2 DEF Changes, Ready, Exclusive, Free, Nobody, AllPlain
  <2>4. FinishSecurity(n, p, ok) = SecurityComplete(m, p, ok)
    BY <1>6, FinishSecurityCases DEF m, t
  <2> QED
    BY <1>3, <2>3, <2>4, SecurityCompleteAlone
<1>7. CASE s.proc # None /\ ~s.proc.done
  <2>1. Serving(t) <=> Serving(s)
    BY <1>2, <1>7 DEF Serving
  <2>2. Ready(m)
    BY <1>2, <1>3, <1>4, <2>1, ChangesReady
  <2>3. FinishSecurity(n, p, ok) = m
    BY <1>7, FinishSecurityCases DEF m, t
  <2> QED
    BY <2>2, <2>3, ReadyIsAlone
<1> QED
  BY <1>5, <1>6, <1>7

LEMMA FinishAcquisitionAlone ==
  ASSUME NEW n \in Work, NEW p \in Peer, Ready(n), NEW ok \in BOOLEAN
  PROVE  Alone(FinishAcquisition(n, p, ok))
<1> DEFINE s == n.peer[p]
           t == WithoutAcquisition(s)
<1>1. s \in PeerState /\ Decent(s) /\ (Serving(s) => n.ongoing = p)
  BY DEF Work, Ready, Exclusive
<1>2. t \in PeerState /\ t.acq = None /\ t.proc = s.proc
  BY <1>1, WithoutAcquisitionType
<1>3. CASE s.acq = None
  BY <1>3, ReadyIsAlone, FinishAcquisitionCases
<1>4. CASE s.acq # None
  <2>1. PICK m \in Work : Changes(n, m, p, t) /\ FinishAcquisition(n, p, ok) = AcquisitionComplete(m, p, ok)
    BY <1>4, FinishAcquisitionCases
  <2> HIDE DEF t
  <2>2. n.ongoing = p /\ ~Serving(t) /\ Decent(t)
    BY <1>1, <1>2, <1>4 DEF Serving, Decent
  <2>3. p # None
    BY NoneAssumption
  <2>4. Free(m) /\ m.ongoing = p
    BY <2>1, <2>2, <2>3 DEF Changes, Ready, Exclusive, Free, Nobody, AllPlain
  <2> QED
    BY <2>1, <2>4, AcquisitionCompleteAlone
<1> QED
  BY <1>3, <1>4

(* The callback of a transaction may end the acquisition and start the     *)
(* next.                                                                   *)
LEMMA CompleteTransactionAlone ==
  ASSUME NEW n \in Work, NEW p \in Peer, Ready(n), NEW id, NEW ok \in BOOLEAN
  PROVE  Alone(CompleteTransaction(n, p, id, ok))
<1> DEFINE m == Completing(n, p)
<1>1. m \in Work /\ Ready(m)
  <2>1. /\ ToCall("ProcessPending", p) \in Calls /\ Plain(ToCall("ProcessPending", p))
        /\ ToCall("ResetTransaction", p) \in Calls /\ Plain(ToCall("ResetTransaction", p))
    BY ToCallType DEF Operations
  <2> QED
    BY <2>1, ThenReady DEF Completing
<1> HIDE DEF m
<1>2. \A tx : Alone(Done(m, p, tx, ok))
  BY <1>1, FinishSecurityAlone, FinishAcquisitionAlone DEF Done
<1> QED
  BY <1>2, ReadyIsAlone, CompleteTransactionCases DEF m

LEMMA QueuedSecurityDecent ==
  ASSUME NEW s \in PeerState, Decent(s), s.proc = None, NEW done \in BOOLEAN
  PROVE  /\ done /\ s.acq = None => Decent(QueuedSecurity(s, done)) /\ Serving(QueuedSecurity(s, done))
         /\ ~done /\ ~Calm => /\ Decent(QueuedSecurity(s, done))
                              /\ Serving(QueuedSecurity(s, done)) <=> Serving(s)
<1> DEFINE t == QueuedSecurity(s, done)
<1>1. t.acq = s.acq /\ t.ctx = s.ctx /\ t.proc # None /\ t.proc.done = done
  <2>1. /\ t.acq = s.acq /\ t.ctx = s.ctx /\ t.proc # None
        /\ t.proc = [mid |-> None, done |-> done, queued |-> TRUE, retries |-> 0]
    BY QueuedSecurityType
  <2> HIDE DEF t
  <2> QED
    BY <2>1
<1> HIDE DEF t
<1>2. s.acq = None /\ done => Decent(t) /\ Serving(t)
  BY <1>1 DEF Decent, Serving
<1>3. ~done /\ ~Calm => Decent(t) /\ (Serving(t) <=> Serving(s))
  BY <1>1 DEF Decent, Serving
<1> QED
  BY <1>2, <1>3 DEF t

(* A procedure without a completion is a matter of expiring contexts, of   *)
(* refusals and of peers that initiate.                                    *)
LEMMA StartSecurityAlone ==
  ASSUME NEW n \in Work, NEW p \in Peer, NEW done \in BOOLEAN, NEW force \in BOOLEAN,
         done => Free(n) /\ n.ongoing = p,
         ~done => Ready(n) /\ ~Calm
  PROVE  Alone(StartSecurity(n, p, done, force))
<1> DEFINE s == n.peer[p]
           t == QueuedSecurity(s, done)
           m == QueueSecurity(n, p, done)
<1>1. s \in PeerState /\ Decent(s)
  BY DEF Work, Free, Ready, Exclusive
<1>2. ToCall("ProcessPending", p) \in Calls /\ Plain(ToCall("ProcessPending", p))
  BY ToCallType DEF Operations
<1>3. p # None
  BY NoneAssumption
<1>4. ASSUME s.proc = None PROVE Alone(Then(m, ToCall("ProcessPending", p)))
  <2>1. t \in PeerState /\ m \in Work /\ Changes(n, m, p, t)
    BY QueueSecurityIs, PutChanges
  <2>2. done /\ s.acq = None => Decent(t) /\ Serving(t)
    BY <1>1, <1>4, QueuedSecurityDecent
  <2>3. ~done /\ ~Calm => Decent(t) /\ (Serving(t) <=> Serving(s))
    BY <1>1, <1>4, QueuedSecurityDecent
  <2> HIDE DEF t, m
  <2>4. CASE done
    <3>1. s.acq = None
      BY <2>4 DEF Free, Nobody, Serving
    <3>2. Ready(m)
      BY <1>3, <2>1, <2>2, <2>4, <3>1 DEF Changes, Free, Nobody, Ready, Exclusive, Waited, AllPlain
    <3> QED
      BY <1>2, <2>1, <3>2, ThenReady, ReadyIsAlone
  <2>5. CASE ~done
    <3>1. Ready(m)
      BY <2>1, <2>3, <2>5, ChangesReady
    <3> QED
      BY <1>2, <2>1, <3>1, ThenReady, ReadyIsAlone
  <2> QED
    BY <2>4, <2>5
<1>5. ASSUME done => s.proc # None PROVE Alone(n)
  <2>1. CASE done
    <3>1. s.proc # None /\ ~s.proc.done
      BY <1>5, <2>1 DEF Free, Nobody, Serving
    <3>2. ~Calm
      BY <1>1, <3>1 DEF Decent
    <3> QED
      BY <2>1, <3>2 DEF Free, Nobody, Alone, Exclusive, Waited, AllPlain
  <2>2. CASE ~done
    BY <2>2, ReadyIsAlone
  <2> QED
    BY <2>1, <2>2
<1>6. ASSUME done, NEW ok \in BOOLEAN PROVE Alone(SecurityComplete(n, p, ok))
  BY <1>6, SecurityCompleteAlone
<1> HIDE DEF m
<1> QED
  BY <1>4, <1>5, <1>6, StartSecurityCases DEF m

LEMMA DoAlone ==
  ASSUME NEW n \in Work, NEW p \in Peer, Ready(n), n.peer[p].current # None
  PROVE  Alone(Do(n, p))
<1> DEFINE s == n.peer[p]
           id == s.current.id
<1>1. s \in PeerState /\ id \in Id /\ Decent(s)
  BY DEF Work, PeerState, CurrentTransaction, Ready, Exclusive
<1> HIDE DEF id
<1>2. Alone(CompleteTransaction(n, p, id, FALSE))
  BY CompleteTransactionAlone
<1>3. Alone(SendMsg1(n, p, id))
  <2>1. ASSUME s.proc # None, NEW t \in PeerState, Sending(s, t, id), Changes(n, SendMsg1(n, p, id), p, t)
        PROVE  Alone(SendMsg1(n, p, id))
    <3>1. t.proc # None /\ t.proc.done = s.proc.done /\ t.acq = s.acq /\ t.ctx = s.ctx
      BY <2>1, NoneAssumption DEF Sending
    <3>2. Decent(t) /\ (Serving(t) <=> Serving(s))
      BY <1>1, <2>1, <3>1 DEF Decent, Serving
    <3> QED
      BY <2>1, <3>2, ChangesReady, ReadyIsAlone
  <2> HIDE DEF s
  <2> QED
    BY <1>1, <1>2, <2>1, SendMsg1Cases DEF s
<1>4. ASSUME NEW req \in Id PROVE Alone(SendRequest(n, p, id, req))
  <2>1. ASSUME Changes(n, SendRequest(n, p, id, req), p, s) PROVE Alone(SendRequest(n, p, id, req))
    BY <1>1, <2>1, SameReady, ReadyIsAlone
  <2>2. ASSUME s.acq # None, s.ctx = "none", s.proc = None
        PROVE  Alone(CompleteTransaction(QueueSecurity(n, p, FALSE), p, id, FALSE))
    <3> DEFINE t == QueuedSecurity(s, FALSE)
               m == QueueSecurity(n, p, FALSE)
    <3>1. t \in PeerState /\ m \in Work /\ Changes(n, m, p, t)
      BY QueueSecurityIs, PutChanges
    <3>2. ~Calm
      BY <1>1, <2>2 DEF Decent
    <3>3. Decent(t) /\ (Serving(t) <=> Serving(s))
      BY <1>1, <2>2, <3>2, QueuedSecurityDecent
    <3> HIDE DEF t, m
    <3>4. Ready(m)
      BY <3>1, <3>3, ChangesReady
    <3> QED
      BY <3>1, <3>4, CompleteTransactionAlone DEF m
  <2>3. \/ SendRequest(n, p, id, req) = CompleteTransaction(n, p, id, FALSE)
        \/ /\ s.acq # None /\ s.ctx = "none" /\ s.proc = None
           /\ SendRequest(n, p, id, req) = CompleteTransaction(QueueSecurity(n, p, FALSE), p, id, FALSE)
        \/ Changes(n, SendRequest(n, p, id, req), p, s)
    BY <1>1, SendRequestCases
  <2> HIDE DEF s
  <2> QED
    BY <1>2, <2>1, <2>2, <2>3
<1> QED
  BY <1>3, <1>4, DoCases DEF id

LEMMA ProcessPendingAlone ==
  ASSUME NEW n \in Work, NEW p \in Peer, Ready(n)
  PROVE  Alone(ProcessPending(n, p))
<1> DEFINE s == n.peer[p]
           c == ToCall("ArmTransactionTimer", p)
<1>1. s \in PeerState
  BY DEF Work
<1>2. c \in Calls /\ Plain(c)
  BY ToCallType DEF Operations
<1>3. ASSUME s.pending # << >>, NEW id \in Id
      PROVE  Alone(Do(Then(Put(n, p, Taken(s, id)), c), p))
  <2> DEFINE t == Taken(s, id)
             k == Put(n, p, t)
             m == Then(k, c)
  <2>1. t \in PeerState /\ t.current # None /\ t.proc = s.proc /\ t.acq = s.acq /\ t.ctx = s.ctx
    BY <1>1, <1>3, TakenType
  <2> HIDE DEF t, c
  <2>2. k \in Work /\ Changes(n, k, p, t)
    BY <2>1, PutType, PutChanges
  <2>3. Ready(k)
    BY <2>1, <2>2, SameReady
  <2>4. m \in Work /\ Ready(m) /\ m.peer[p] = t
    <3> HIDE DEF k
    <3> QED
      BY <1>2, <2>2, <2>3, ThenReady, ThenType DEF Changes
  <2> HIDE DEF m
  <2> QED
    BY <2>1, <2>4, DoAlone DEF m, t, k
<1> QED
  BY <1>3, ReadyIsAlone, ProcessPendingCases

LEMMA PoppedReady ==
  ASSUME NEW n \in Work, Alone(n), n.calls # << >>
  PROVE  /\ Head(n.calls).done => /\ Free(Popped(n)) /\ Popped(n).ongoing = Head(n.calls).peer
                                  /\ Head(n.calls).op = "StartSecurity"
         /\ ~Head(n.calls).done => Ready(Popped(n)) /\ Plain(Head(n.calls))
<1> DEFINE m == Popped(n)
           cs == n.calls
           ds == m.calls
           c == Head(cs)
<1>1. /\ m \in Work /\ ds = Tail(cs) /\ m.peer = n.peer /\ m.ongoing = n.ongoing
      /\ m.collecting = n.collecting /\ m.retry = n.retry /\ c \in Calls
  BY PoppedType
<1> HIDE DEF m
<1>2. cs \in Seq(Calls) /\ cs # << >>
  BY DEF Work
<1>3. /\ c = cs[1] /\ 1 \in DOMAIN cs /\ \A i \in DOMAIN ds : i + 1 \in DOMAIN cs /\ ds[i] = cs[i + 1]
      /\ \A i \in DOMAIN cs : i = 1 \/ (i - 1 \in DOMAIN ds /\ cs[i] = ds[i - 1])
      /\ \A i \in DOMAIN ds : i \in Nat \ {0}
  <2> HIDE DEF cs, ds
  <2> QED
    BY <1>1, <1>2, Pop
<1>4. AllPlain(m)
  <2> SUFFICES ASSUME NEW i \in DOMAIN ds, ~Plain(ds[i]) PROVE FALSE
    BY DEF AllPlain
  <2>1. i + 1 = 1
    BY <1>3 DEF Alone
  <2> QED
    BY <1>3, <2>1
<1>6. CASE c.done
  <2>1. n.ongoing = c.peer /\ Nobody(n) /\ c.peer \in Peer /\ c.op = "StartSecurity"
    BY <1>1, <1>3, <1>6 DEF Alone, Calls, Plain
  <2>2. n.ongoing # None
    BY <2>1, NoneAssumption
  <2> QED
    BY <1>1, <1>4, <1>6, <2>1, <2>2 DEF Free, Nobody, Alone, Exclusive, m
<1>7. CASE ~c.done
  <2>1. AllPlain(n) /\ Plain(c)
    BY <1>3, <1>7 DEF Alone, AllPlain
  <2> QED
    BY <1>1, <1>4, <1>7, <2>1 DEF Ready, Alone, Exclusive, Waited, m
<1> QED
  BY <1>6, <1>7

LEMMA TouchesReady ==
  ASSUME NEW n \in Work, Ready(n), NEW p \in Peer, NEW m, Touches(n, m, p)
  PROVE  m \in Work /\ Ready(m)
  BY SameReady DEF Touches, Alike, Changes


LEMMA AbortSenderAlone ==
  ASSUME NEW n \in Work, Ready(n), NEW p \in Peer
  PROVE  Alone(AbortSender(n, p))
<1> DEFINE t == Idle(n.peer[p])
           m == Put(n, p, t)
<1>1. AbortSender(n, p) = FinishSecurity(m, p, FALSE)
  BY ResetTransactionIs DEF AbortSender
<1>2. t \in PeerState /\ t.proc = n.peer[p].proc /\ t.acq = n.peer[p].acq /\ t.ctx = n.peer[p].ctx
  BY IdleType DEF Work
<1> HIDE DEF t
<1>3. m \in Work /\ Changes(n, m, p, t)
  BY <1>2, PutType, PutChanges
<1> HIDE DEF m
<1>4. Ready(m)
  BY <1>2, <1>3, SameReady
<1> QED
  BY <1>1, <1>3, <1>4, FinishSecurityAlone

LEMMA EraseReady ==
  ASSUME NEW n \in Work, Ready(n), NEW p \in Peer
  PROVE  Ready(Erase(n, p))
<1> DEFINE m == Erase(n, p)
<1>1. PICK t \in PeerState :
        /\ t.proc = None /\ t.acq = None /\ m.peer[p] = t
        /\ \A q \in Peer \ {p} : m.peer[q] = n.peer[q]
        /\ m.calls = n.calls /\ m.collecting = n.collecting /\ m.retry = n.retry
        /\ m.ongoing = IF n.ongoing = p THEN None ELSE n.ongoing
  BY EraseIs
<1> HIDE DEF m
<1>2. Decent(t) /\ ~Serving(t)
  BY <1>1 DEF Decent, Serving
<1>3. n.ongoing \in Peer \cup {None}
  BY DEF Work
<1> QED
  BY <1>1, <1>2, <1>3 DEF Ready, Exclusive, Waited, AllPlain, m

(* Every call keeps at most one peer being asked. *)
LEMMA CallAlone ==
  ASSUME NEW n \in Work, Alone(n), n.calls # << >>
  PROVE  Alone(MakeCall(n))
<1> DEFINE m == Popped(n)
           c == Head(n.calls)
           p == c.peer
<1>1. m \in Work /\ c \in Calls /\ MakeCall(n) = Call(m, c)
  BY PoppedType
<1>2. /\ c.done => Free(m) /\ m.ongoing = p /\ c.op = "StartSecurity"
      /\ ~c.done => Ready(m) /\ Plain(c)
  BY PoppedReady
<1> HIDE DEF m, c
<1>3. p \in Peer /\ c.done \in BOOLEAN /\ c.force \in BOOLEAN /\ c.op \in Operations
  BY <1>1 DEF Calls
<1> HIDE DEF p
<1>4. CASE c.op = "StartSecurity"
  <2>1. Call(m, c) = StartSecurity(m, p, c.done, c.force)
    BY <1>1, <1>4, CallCases DEF p
  <2> DEFINE done == c.done
             force == c.force
  <2>2. done \in BOOLEAN /\ force \in BOOLEAN /\ (done => Free(m) /\ m.ongoing = p) /\ (~done => Ready(m) /\ ~Calm)
    BY <1>2, <1>3, <1>4 DEF Plain
  <2> HIDE DEF done, force
  <2>3. Alone(StartSecurity(m, p, done, force))
    BY <1>1, <1>3, <2>2, StartSecurityAlone
  <2> QED
    BY <1>1, <2>1, <2>3 DEF done, force
<1>5. CASE c.op # "StartSecurity"
  <2>1. Ready(m)
    BY <1>2, <1>5
  <2>2. CASE c.op = "ProcessPending"
    BY <1>1, <1>3, <2>1, <2>2, CallCases, ProcessPendingAlone DEF p
  <2>3. CASE c.op = "ResetTransaction"
    <3> DEFINE t == Idle(m.peer[p])
    <3>1. t \in PeerState /\ t.proc = m.peer[p].proc /\ t.acq = m.peer[p].acq /\ t.ctx = m.peer[p].ctx
      BY <1>1, <1>3, IdleType DEF Work
    <3>2. Call(m, c) = Put(m, p, t)
      BY <1>1, <1>3, <2>3, CallCases, ResetTransactionIs DEF p
    <3> HIDE DEF t
    <3>3. Ready(Put(m, p, t))
      BY <1>1, <1>3, <2>1, <3>1, PutChanges, SameReady
    <3> QED
      BY <1>1, <3>2, <3>3, ReadyIsAlone
  <2>4. CASE c.op \in {"ArmTransactionTimer", "Respond", "EraseKey"}
    <3>1. Touches(m, Call(m, c), p)
      BY <1>1, <1>3, <2>4, CallCases, TouchCases DEF p, Touches
    <3> QED
      BY <1>1, <1>3, <2>1, <3>1, TouchesReady, ReadyIsAlone
  <2>5. CASE c.op = "FinishSecurity"
    BY <1>1, <1>3, <2>1, <2>5, CallCases, FinishSecurityAlone DEF p
  <2>6. CASE c.op = "FinishAcquisition"
    BY <1>1, <1>3, <2>1, <2>6, CallCases, FinishAcquisitionAlone DEF p
  <2>7. CASE c.op = "Erase"
    BY <1>1, <1>3, <2>1, <2>7, CallCases, EraseReady, ReadyIsAlone DEF p
  <2> QED
    BY <1>3, <1>5, <2>2, <2>3, <2>4, <2>5, <2>6, <2>7 DEF Operations
<1> QED
  BY <1>4, <1>5

AloneWork == {n \in Work : Alone(n)}

(* So do all of them. *)
LEMMA RunAlone ==
  ASSUME NEW n \in Work, Alone(n)
  PROVE  Run(n) \in Work /\ Alone(Run(n))
<1>1. n \in AloneWork
  BY DEF AloneWork
<1>2. ASSUME NEW m \in AloneWork PROVE MakeCall(m) \in AloneWork
  <2>1. m \in Work /\ Alone(m)
    BY DEF AloneWork
  <2>2. CASE m.calls = << >>
    BY <2>2 DEF MakeCall
  <2>3. CASE m.calls # << >>
    BY <2>1, <2>3, CallAlone, MakeCallType DEF AloneWork
  <2> QED
    BY <2>2, <2>3
<1>3. Run(n) \in AloneWork
  BY <1>1, <1>2, RunInduction
<1> QED
  BY <1>3 DEF AloneWork

(* The inductive invariant of the acquisition. *)
OneIsAsked == Exclusive(node) /\ Waited(node)

(* When no call is left, the peer that is ongoing is the one that is       *)
(* asked.                                                                  *)
LEMMA FinishOneIsAsked ==
  ASSUME NEW n \in Work, Alone(n), NEW rest, Finish(n, rest)
  PROVE  OneIsAsked'
<1> DEFINE r == Run(n)
<1>1. r \in Work /\ Alone(r)
  BY RunAlone
<1>2. r.calls = << >> /\ node' = [peer |-> r.peer, candidates |-> r.candidates, ongoing |-> r.ongoing,
                  collecting |-> r.collecting, retry |-> r.retry]
  BY DEF Finish
<1> HIDE DEF r
<1>3. /\ node'.peer = r.peer /\ node'.ongoing = r.ongoing /\ node'.collecting = r.collecting
      /\ node'.retry = r.retry
  BY <1>2
<1>4. Exclusive(r) /\ Waited(r)
  BY <1>1, <1>2 DEF Alone, AllPlain
<1> QED
  BY <1>3, <1>4 DEF OneIsAsked, Exclusive, Waited

(* A handler starts with no call to be made. *)
LEMMA BeginReady ==
  ASSUME node \in NodeState, OneIsAsked, NEW o \in Orders
  PROVE  Begin(o) \in Work /\ Ready(Begin(o)) /\ Begin(o).calls = << >>
<1> DEFINE n == Begin(o)
<1>1. /\ n \in Work /\ n.calls = << >> /\ n.peer = node.peer /\ n.ongoing = node.ongoing
      /\ n.collecting = node.collecting /\ n.retry = node.retry
  BY BeginType
<1> HIDE DEF n
<1>2. Exclusive(n) /\ Waited(n) /\ AllPlain(n)
  BY <1>1 DEF OneIsAsked, Exclusive, Waited, AllPlain
<1> QED
  BY <1>1, <1>2 DEF Ready, n

LEMMA ExpireAlone ==
  ASSUME NEW n \in Work, Ready(n), NEW p \in Peer
  PROVE  Alone(ExpireTransaction(n, p))
<1> DEFINE s == n.peer[p]
           t == Retried(s)
           m == Put(n, p, t)
<1>1. s \in PeerState /\ Decent(s)
  BY DEF Work, Ready, Exclusive
<1>2. ASSUME s.acq # None, s.current # None PROVE Alone(Do(m, p))
  <2>1. t \in PeerState /\ t.acq # None /\ t.proc = s.proc /\ t.current = s.current /\ t.ctx = s.ctx
    BY <1>1, <1>2, RetriedType
  <2> HIDE DEF t
  <2>2. m \in Work /\ Changes(n, m, p, t)
    BY <2>1, PutType, PutChanges
  <2> HIDE DEF m
  <2>3. Decent(t) /\ (Serving(t) <=> Serving(s))
    BY <1>1, <1>2, <2>1 DEF Decent, Serving
  <2>4. Ready(m)
    BY <2>1, <2>2, <2>3, ChangesReady
  <2> QED
    BY <1>2, <2>1, <2>2, <2>4, DoAlone DEF Changes
<1> HIDE DEF m, t
<1>3. \/ ExpireTransaction(n, p) = n
      \/ s.current # None /\ ExpireTransaction(n, p) = Do(n, p)
      \/ ExpireTransaction(n, p) = CompleteTransaction(n, p, s.current.id, FALSE)
      \/ s.current # None /\ s.acq # None /\ ExpireTransaction(n, p) = Do(m, p)
  BY ExpireCases DEF m, t
<1> QED
  BY <1>2, <1>3, DoAlone, CompleteTransactionAlone, ReadyIsAlone

LEMMA HandleMsg1Alone ==
  ASSUME NEW n \in Work, Ready(n), NEW p \in Peer, ~Calm, NEW arbitration, NEW accepted \in BOOLEAN
  PROVE  Alone(HandleMsg1(n, p, arbitration, accepted))
<1>1. ASSUME NEW c \in {ToCall("Respond", p), SecurityCall(p, FALSE, TRUE)}
      PROVE  Ready(Then(n, c)) /\ Then(n, c) \in Work
  <2>1. c \in Calls
    BY CallType DEF Operations
  <2>2. Plain(c)
    BY DEF ToCall, SecurityCall, Plain
  <2> QED
    BY <2>1, <2>2, ThenReady
<1>2. ASSUME NEW c \in {ToCall("Respond", p), SecurityCall(p, FALSE, TRUE)}
      PROVE  Alone(Then(n, c)) /\ Alone(AbortSender(Then(n, c), p))
  BY <1>1, <1>2, AbortSenderAlone, ReadyIsAlone
<1>3. Alone(AbortSender(n, p)) /\ Alone(n)
  BY AbortSenderAlone, ReadyIsAlone
<1> QED
  BY <1>2, <1>3, HandleMsg1Cases

(* A peer that refuses the pair has the procedure started again with its   *)
(* completion, which the end of the transaction has called.                *)
LEMMA HandleMsg2Alone ==
  ASSUME NEW n \in Work, Ready(n), NEW p \in Peer, NEW id,
         NEW status \in {"OK", "VERIFICATION_FAILED", "UNKNOWN_PEER"}
  PROVE  Alone(HandleMsg2(n, p, id, status))
<1>1. status \in {"OK", "UNSUPPORTED", "VERIFICATION_FAILED", "UNKNOWN_PEER"} /\ status # "UNSUPPORTED"
  OBVIOUS
<1>2. Alone(CompleteTransaction(n, p, id, FALSE)) /\ Alone(CompleteTransaction(n, p, id, TRUE))
  BY CompleteTransactionAlone
<1>3. Alone(CompleteTransaction(Then(n, ToCall("EraseKey", p)), p, id, FALSE))
  <2>1. ToCall("EraseKey", p) \in Calls /\ Plain(ToCall("EraseKey", p))
    BY ToCallType DEF Operations
  <2> QED
    BY <2>1, ThenReady, CompleteTransactionAlone
<1>4. Alone(CompleteTransaction(Respond(n, p), p, id, TRUE))
  <2>1. Respond(n, p) \in Work /\ Ready(Respond(n, p))
    BY TouchCases, TouchesReady DEF Touches
  <2> QED
    BY <2>1, CompleteTransactionAlone
<1> QED
  BY <1>1, <1>2, <1>3, <1>4, HandleMsg2Cases

LEMMA HandleResponseAlone ==
  ASSUME NEW n \in Work, Ready(n), NEW p \in Peer, NEW id
  PROVE  Alone(HandleResponse(n, p, id))
<1>1. Alone(CompleteTransaction(n, p, n.peer[p].current.id, TRUE))
  BY CompleteTransactionAlone
<1>2. Alone(FinishAcquisition(n, p, TRUE))
  BY FinishAcquisitionAlone
<1> QED
  BY <1>1, <1>2, ReadyIsAlone, HandleResponseCases

LEMMA CleanupReady ==
  ASSUME NEW n \in Work, Ready(n), NEW p \in Peer
  PROVE  Cleanup(n, p) \in Work /\ Ready(Cleanup(n, p))
<1> DEFINE m == Cleanup(n, p)
           s == n.peer[p]
<1>1. PICK t \in PeerState :
         /\ t.proc = s.proc /\ t.acq = s.acq /\ t.ctx = s.ctx
         /\ m \in Work /\ m.peer[p] = t /\ \A q \in Peer \ {p} : m.peer[q] = n.peer[q]
         /\ m.ongoing = n.ongoing /\ m.collecting = n.collecting /\ m.retry = n.retry
         /\ m.calls[Len(m.calls)] = ToCall("Erase", p)
         /\ \A i \in DOMAIN m.calls :
              \/ i = Len(m.calls)
              \/ m.calls[i] \in {ToCall("FinishSecurity", p), ToCall("FinishAcquisition", p)}
  BY CleanupIs
<1> HIDE DEF m
<1>2. \A op \in {"FinishSecurity", "FinishAcquisition", "Erase"} : Plain(ToCall(op, p))
  BY ToCallType DEF Operations
<1>3. AllPlain(m)
  BY <1>1, <1>2 DEF AllPlain
<1>4. Decent(s)
  BY DEF Ready, Exclusive
<1>5. Decent(t) /\ (Serving(t) <=> Serving(s))
  BY <1>1, <1>4 DEF Decent, Serving
<1>6. \A q \in Peer : Decent(m.peer[q]) /\ (Serving(m.peer[q]) <=> Serving(n.peer[q]))
  BY <1>1, <1>5 DEF Ready, Exclusive
<1>7. n.ongoing \in Peer \cup {None}
  BY DEF Work
<1> QED
  BY <1>1, <1>3, <1>6, <1>7 DEF Ready, Exclusive, Waited, m

LEMMA SameOneIsAsked ==
  ASSUME node \in NodeState, OneIsAsked, NEW p \in Peer,
         node'.ongoing = node.ongoing, node'.collecting = node.collecting, node'.retry = node.retry,
         \A q \in Peer \ {p} : node'.peer[q] = node.peer[q],
         node'.peer[p].proc = node.peer[p].proc, node'.peer[p].acq = node.peer[p].acq,
         Calm => node'.peer[p].ctx = node.peer[p].ctx
  PROVE  OneIsAsked'
<1> DEFINE s(q) == node.peer[q]
           t(q) == node'.peer[q]
<1>1. ASSUME NEW q \in Peer PROVE Decent(t(q)) /\ (Serving(t(q)) <=> Serving(s(q)))
  <2>1. t(q).proc = s(q).proc /\ t(q).acq = s(q).acq /\ (Calm => t(q).ctx = s(q).ctx)
    BY <1>1
  <2>2. Decent(s(q))
    BY <1>1 DEF OneIsAsked, Exclusive
  <2> HIDE DEF s, t
  <2> QED
    BY <2>1, <2>2 DEF Decent, Serving
<1>2. node.ongoing \in Peer \cup {None}
  BY DEF NodeState
<1>3. \A q \in Peer : Decent(node'.peer[q]) /\ (Serving(node'.peer[q]) <=> Serving(node.peer[q]))
  BY <1>1
<1> QED
  BY <1>2, <1>3 DEF OneIsAsked, Exclusive, Waited

(* A query starts where no peer is asked, and one under way has asked none *)
(* yet.                                                                    *)
LEMMA StartQueryOneIsAsked ==
  ASSUME NEW n \in NodeState, Exclusive(n), n.ongoing = None, ~n.retry, node' = StartQuery(n)
  PROVE  OneIsAsked'
<1> DEFINE m == StartQuery(n)
<1>1. /\ m.peer = n.peer
      /\ \/ n.collecting /\ m = n
         \/ ~n.collecting /\ m.ongoing = n.ongoing /\ m.retry /\ ~m.collecting
         \/ ~n.collecting /\ m.ongoing = None /\ ~m.retry /\ m.collecting
  BY StartQueryIs
<1> HIDE DEF m
<1>2. Exclusive(m) /\ m.ongoing = None
  BY <1>1 DEF Exclusive
<1> QED
  BY <1>2 DEF OneIsAsked, Exclusive, Waited, m

LEMMA NotCalm ==
  ASSUME NEW p \in Peer, "expire" \in Environment[p] \/ "cross" \in Environment[p]
  PROVE  ~Calm
  BY DEF Calm

(* The inductive step: one case per action. *)
LEMMA OneIsAskedStep ==
  ASSUME \A p \in Peer : "refuse" \notin Environment[p], TypeOK, OneIsAsked, [Next]_vars
  PROVE  OneIsAsked'
<1>1. node \in NodeState /\ wire \subseteq Message
  BY DEF TypeOK
<1>2. ASSUME AcquireKeys PROVE OneIsAsked'
  BY <1>1, <1>2, StartQueryOneIsAsked DEF AcquireKeys, InProgress, OneIsAsked
<1>3. ASSUME QueryRetryTimer PROVE OneIsAsked'
  <2> DEFINE n == [node EXCEPT !.retry = FALSE]
  <2>1. /\ n \in NodeState /\ n.peer = node.peer /\ n.ongoing = node.ongoing
        /\ n.collecting = node.collecting /\ ~n.retry
    BY <1>1 DEF NodeState
  <2>2. node.retry /\ node' = StartQuery(n)
    BY <1>3 DEF QueryRetryTimer
  <2> HIDE DEF n
  <2>3. Exclusive(n) /\ n.ongoing = None
    BY <2>1, <2>2 DEF OneIsAsked, Exclusive
  <2> QED
    BY <2>1, <2>2, <2>3, StartQueryOneIsAsked
<1>4. ASSUME CollectTimer PROVE OneIsAsked'
  <2>1. PICK m \in Work :
          /\ m.peer = node.peer /\ m.calls = << >> /\ m.ongoing = None /\ ~m.collecting
          /\ m.retry = node.retry /\ Finish(StartNext(m), wire)
    BY <1>1, <1>4, CollectTimerIs
  <2>2. node.collecting
    BY <1>4 DEF CollectTimer
  <2>3. node.ongoing = None /\ ~node.retry /\ \A p \in Peer : p # None
    BY <2>2, NoneAssumption DEF OneIsAsked, Exclusive
  <2>4. Free(m)
    BY <2>1, <2>3 DEF Free, Nobody, AllPlain, OneIsAsked, Exclusive
  <2> QED
    BY <2>1, <2>4, StartNextAlone, StartNextType, FinishOneIsAsked
<1>5. ASSUME NEW p \in Peer, TransactionTimeout(p) PROVE OneIsAsked'
  <2>1. PICK o \in Orders, m \in Work : Touches(Begin(o), m, p) /\ Finish(ExpireTransaction(m, p), wire)
    BY <1>1, <1>5, TransactionTimeoutIs
  <2>2. Ready(m)
    BY <1>1, <2>1, BeginReady, TouchesReady
  <2> QED
    BY <2>1, <2>2, ExpireAlone, ExpireType, FinishOneIsAsked
<1>6. ASSUME NEW p \in Peer, ContextExpiring(p) PROVE OneIsAsked'
  <2>1. PICK o \in Orders, t \in PeerState, m \in Work :
          /\ t.proc = node.peer[p].proc /\ t.acq = node.peer[p].acq
          /\ Changes(Begin(o), m, p, t)
          /\ Finish(StartSecurity(m, p, FALSE, FALSE), wire)
    BY <1>1, <1>6, ContextExpiringIs
  <2>2. ~Calm
    BY <1>1, <1>6, ContextExpiringIs, NotCalm
  <2>3. Begin(o) \in Work /\ Ready(Begin(o)) /\ Begin(o).peer = node.peer
    BY <1>1, BeginReady, BeginType
  <2>4. Decent(node.peer[p])
    BY DEF OneIsAsked, Exclusive
  <2>5. Decent(t) /\ (Serving(t) <=> Serving(node.peer[p]))
    BY <2>1, <2>2, <2>4 DEF Decent, Serving
  <2>6. Ready(m)
    BY <2>1, <2>3, <2>5, ChangesReady
  <2> QED
    BY <2>1, <2>2, <2>6, StartSecurityAlone, StartSecurityType, FinishOneIsAsked
<1>7. ASSUME NEW p \in Peer, ContextExpired(p) \/ HandleBeacon(p) PROVE OneIsAsked'
  <2>1. /\ node'.ongoing = node.ongoing /\ node'.collecting = node.collecting
        /\ node'.retry = node.retry /\ \A q \in Peer \ {p} : node'.peer[q] = node.peer[q]
        /\ node'.peer[p].proc = node.peer[p].proc /\ node'.peer[p].acq = node.peer[p].acq
        /\ node'.peer[p].ctx # node.peer[p].ctx => "expire" \in Environment[p]
    BY <1>1, <1>7, ContextOrBeaconIs
  <2>2. Calm => node'.peer[p].ctx = node.peer[p].ctx
    BY <2>1, NotCalm
  <2> QED
    BY <1>1, <2>1, <2>2, SameOneIsAsked
<1>8. ASSUME NEW p \in Peer, CheckActivity(p) PROVE OneIsAsked'
  <2>1. PICK o \in Orders : Finish(Cleanup(Begin(o), p), {m \in wire : m.to # p})
    BY <1>8 DEF CheckActivity
  <2>2. Cleanup(Begin(o), p) \in Work /\ Ready(Cleanup(Begin(o), p))
    BY <1>1, BeginReady, CleanupReady
  <2> QED
    BY <2>1, <2>2, ReadyIsAlone, FinishOneIsAsked
<1>9. ASSUME NEW p \in Peer, HandleInformation(p) PROVE OneIsAsked'
  <2>1. /\ node'.ongoing = node.ongoing /\ node'.collecting = node.collecting
        /\ node'.retry = node.retry /\ node'.peer = node.peer
    BY <1>1, <1>9 DEF HandleInformation, NodeState
  <2> QED
    BY <1>1, <1>9, <2>1, SameOneIsAsked
<1>10. ASSUME NEW p \in Peer, PeerInitiates(p) PROVE OneIsAsked'
  <2>1. PICK o \in Orders, arbitration \in {"wins", "loses", "ties"}, accepted \in BOOLEAN :
          Finish(HandleMsg1(Begin(o), p, arbitration, accepted), wire)
    BY <1>10 DEF PeerInitiates
  <2>2. ~Calm
    BY <1>10, NotCalm DEF PeerInitiates
  <2>3. Begin(o) \in Work /\ Ready(Begin(o))
    BY <1>1, BeginReady
  <2> QED
    BY <2>1, <2>2, <2>3, HandleMsg1Alone, HandleMsg1Type, FinishOneIsAsked
<1>11. ASSUME NEW m \in wire, Answer(m) PROVE OneIsAsked'
  <2>1. m.to \in Peer
    BY <1>1 DEF Message
  <2>2. PICK o \in Orders, rest \in SUBSET Message :
           \/ \E status \in Statuses(m.to) : Finish(HandleMsg2(Begin(o), m.to, m.id, status), rest)
           \/ Finish(HandleResponse(Begin(o), m.to, m.id), rest)
    BY <1>1, <1>11, AnswerIs
  <2>3. Begin(o) \in Work /\ Ready(Begin(o))
    BY <1>1, BeginReady
  <2>4. HandleResponse(Begin(o), m.to, m.id) \in Work /\ Alone(HandleResponse(Begin(o), m.to, m.id))
    BY <2>1, <2>3, HandleResponseType, HandleResponseAlone
  <2>5. \A status \in Statuses(m.to) :
          /\ status \in {"OK", "VERIFICATION_FAILED", "UNKNOWN_PEER"}
          /\ status \in {"OK", "UNSUPPORTED", "VERIFICATION_FAILED", "UNKNOWN_PEER"}
    BY <2>1, StatusType
  <2>6. \A status \in Statuses(m.to) :
          /\ HandleMsg2(Begin(o), m.to, m.id, status) \in Work
          /\ Alone(HandleMsg2(Begin(o), m.to, m.id, status))
    BY <2>1, <2>3, <2>5, HandleMsg2Type, HandleMsg2Alone
  <2> QED
    BY <2>2, <2>4, <2>6, FinishOneIsAsked
<1>12. ASSUME (\E m \in wire : Silence(m)) \/ UNCHANGED vars PROVE OneIsAsked'
  <2>1. node' = node
    BY <1>12 DEF Silence, vars
  <2> QED
    BY <2>1 DEF OneIsAsked, Exclusive, Waited
<1>13. ASSUME NEW p \in Peer,
              TransactionTimeout(p) \/ ContextExpiring(p) \/ ContextExpired(p) \/ CheckActivity(p)
                \/ HandleBeacon(p) \/ HandleInformation(p) \/ PeerInitiates(p)
       PROVE  OneIsAsked'
  BY <1>5, <1>6, <1>7, <1>8, <1>9, <1>10, <1>13
<1> QED
  BY <1>2, <1>3, <1>4, <1>11, <1>12, <1>13 DEF Next

LEMMA OneIsAskedInit == Init => OneIsAsked
<1> SUFFICES ASSUME Init PROVE OneIsAsked
  OBVIOUS
<1>1. node.ongoing = None /\ ~node.collecting /\ ~node.retry
  BY DEF Init
<1>2. \A p \in Peer : node.peer[p].proc = None /\ node.peer[p].acq = None
  BY DEF Init, Absent
<1> QED
  BY <1>1, <1>2 DEF OneIsAsked, Exclusive, Waited, Decent, Serving

LEMMA OneIsAskedAlways ==
  ASSUME \A p \in Peer : "refuse" \notin Environment[p]
  PROVE  Spec => [](TypeOK /\ OneIsAsked)
<1>1. Init => OneIsAsked
  BY OneIsAskedInit
<1>2. TypeOK /\ OneIsAsked /\ [Next]_vars => OneIsAsked'
  BY OneIsAskedStep
<1> QED
  BY <1>1, <1>2, TypeCorrect, PTL DEF Spec

(* KeyAcquisition!OneAtATime: keys are acquired from one peer at a time,   *)
(* where no peer refuses the algorithm pair it is offered.  One that does  *)
(* has peer security started again with a completion that has been called  *)
(* already, when the next peer is being asked.                             *)
THEOREM AcquisitionsTakeTurns ==
  ASSUME \A p \in Peer : "refuse" \notin Environment[p]
  PROVE  Spec => []OneAtATime
<1>1. TypeOK /\ OneIsAsked => OneAtATime
  <2>1. \A p : Serves(p) <=> Serving(node.peer[p])
    BY DEF Serves, Serving
  <2> QED
    BY <2>1 DEF OneIsAsked, Exclusive, OneAtATime
<1> QED
  BY <1>1, OneIsAskedAlways, PTL

(* KeyAcquisition!OngoingIsWaited: ongoing_acquisition_peer, which blocks  *)
(* every further acquisition, is that of a procedure that will report,     *)
(* where peers only answer and contexts do not expire.  A renewal, or the  *)
(* procedure of a peer that initiates, has no completion, and the one that *)
(* finds it in progress is dropped.                                        *)
THEOREM OngoingAcquisitionIsWaited ==
  ASSUME \A p \in Peer : {"refuse", "cross", "expire"} \cap Environment[p] = {}
  PROVE  Spec => []OngoingIsWaited
<1>1. Calm /\ \A p \in Peer : "refuse" \notin Environment[p]
  BY DEF Calm
<1>2. TypeOK /\ OneIsAsked => OngoingIsWaited
  BY <1>1 DEF OneIsAsked, Waited, OngoingIsWaited, Serves, Serving
<1>3. Spec => [](TypeOK /\ OneIsAsked)
  BY <1>1, OneIsAskedAlways
<1> QED
  BY <1>2, <1>3, PTL
=============================================================================
