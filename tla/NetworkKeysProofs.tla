-------------------------- MODULE NetworkKeysProofs --------------------------
(***************************************************************************)
(* What holds of the network key at every node, whatever the network, the  *)
(* clocks, the operator and restarts do.  Each handler is a function from  *)
(* the state of a node to the next one; a lemma per function says that it  *)
(* keeps the state sound and changes the key only as it may.               *)
(***************************************************************************)
EXTENDS NetworkKeys, SequenceTheorems, TLAPS

-----------------------------------------------------------------------------
(* The preference between keys.                                            *)

(* key_preference_is_better is a strict total order of the expiration time *)
(* and priority at each instant: handing a set of keys around, in whatever *)
(* order, two nodes cannot prefer each other's key at the same time.       *)
THEOREM PreferenceIsStrictOrder ==
  ASSUME NEW j \in NetKey, NEW k \in NetKey, NEW m \in NetKey, NEW t \in Nat
  PROVE  /\ ~Better(k, k, t)
         /\ Better(k, m, t) => ~Better(m, k, t)
         /\ Better(j, k, t) /\ Better(k, m, t) => Better(j, m, t)
         /\ k.exp # m.exp \/ k.prio # m.prio => Better(k, m, t) \/ Better(m, k, t)
<1> j.exp \in Nat /\ k.exp \in Nat /\ m.exp \in Nat
    /\ j.prio \in Nat /\ k.prio \in Nat /\ m.prio \in Nat /\ Grace \in Nat
  BY ConstantsAssumption DEF NetKey
<1> QED
  BY DEF Better, Expiring

-----------------------------------------------------------------------------
(* The state of one node.                                                  *)

Sound(s) ==
  /\ s \in State
  /\ TimerMatchesKey(s)
  /\ s.held # None => s.refresh

(* The key is the same and its receive window has not opened. *)
Kept(old, new) ==
  /\ new # None
  /\ new.net = old.net
  /\ \A src \in Node : old.last[src] # None =>
       new.last[src] # None /\ new.last[src] >= old.last[src]

(* How a handler may change the key at time t. *)
Change(old, new, t) ==
  old # None =>
    \/ Kept(old, new)
    \/ new # None /\ Better(new.net, old.net, t)
    \/ new = None /\ old.net.exp <= t

LEMMA KeptIsReflexive ==
  ASSUME NEW c \in Context PROVE Kept(c, c)
BY NoneAssumption DEF Kept, Context

LEMMA UnchangedIsAChange ==
  ASSUME NEW s \in State, NEW t PROVE Change(s.held, s.held, t)
BY KeptIsReflexive DEF Change, State

LEMMA NextCreationIdType ==
  ASSUME NEW s \in State PROVE NextCreationId(s) \in {0, 1}
BY DEF NextCreationId

LEMMA EntryType ==
  ASSUME NEW s \in State, NEW k \in NetKey
  PROVE  /\ Entry(s, k) \in Context
         /\ Entry(s, k).net = k
         /\ Entry(s, k).timer = [cid |-> Entry(s, k).cid, at |-> k.exp]
BY NextCreationIdType DEF Entry, Context, Timer, NetKey

(* Installing a key keeps everything but the refresh timer right: that is  *)
(* armed by the caller.                                                    *)
Installed(s, k, t, r) ==
  /\ r \in State
  /\ TimerMatchesKey(r)
  /\ r.up = s.up
  /\ r.refresh = s.refresh
  /\ \/ r.held = s.held
     \/ r.held # None /\ (s.held # None => Better(k, s.held.net, t)) /\ r.held.net = k

LEMMA InstallKeySound ==
  ASSUME NEW s \in State, NEW k \in NetKey, NEW t \in Nat, TimerMatchesKey(s)
  PROVE  Installed(s, k, t, InstallKey(s, k, t))
<1> DEFINE e == Entry(s, k)
           cancelled == IF s.held = None THEN {} ELSE {s.held.timer}
           r == [s EXCEPT !.held = e, !.timers = (@ \ cancelled) \cup {e.timer}]
<1>1. CASE k.exp <= t \/ (s.held # None /\ ~Better(k, s.held.net, t))
  BY <1>1 DEF InstallKey, Installed
<1>2. CASE ~(k.exp <= t \/ (s.held # None /\ ~Better(k, s.held.net, t)))
  <2>1. InstallKey(s, k, t) = r
    BY <1>2 DEF InstallKey
  <2>2. /\ e \in Context /\ e.net = k /\ e.timer = [cid |-> e.cid, at |-> k.exp]
        /\ e.timer \in Timer /\ e # None
    BY EntryType, NoneAssumption DEF Context
  <2>3. s.timers = cancelled
    BY DEF TimerMatchesKey
  <2> HIDE DEF e
  <2>4. r \in State
    BY <2>2 DEF State
  <2>5. r.held = e /\ r.timers = {e.timer} /\ r.up = s.up /\ r.refresh = s.refresh
    BY <2>3 DEF State
  <2> QED
    BY <1>2, <2>1, <2>2, <2>4, <2>5 DEF TimerMatchesKey, Installed
<1> QED
  BY <1>1, <1>2

LEMMA ScheduleRefreshSound ==
  ASSUME NEW s \in State, TimerMatchesKey(s)
  PROVE  /\ Sound(ScheduleRefresh(s))
         /\ ScheduleRefresh(s).up = s.up
         /\ ScheduleRefresh(s).held = s.held
BY DEF ScheduleRefresh, Sound, TimerMatchesKey, State

LEMMA AcquireSound ==
  ASSUME NEW s \in State, TimerMatchesKey(s)
  PROVE  /\ Acquire(s) \in State
         /\ TimerMatchesKey(Acquire(s))
         /\ Acquire(s).up = s.up
         /\ Acquire(s).held = s.held
         /\ Acquire(s).refresh = s.refresh
BY DEF Acquire, TimerMatchesKey, State

LEMMA ClockType ==
  ASSUME now \in Nat, NEW n \in Node PROVE Clock(n) \in Nat
BY ConstantsAssumption DEF Clock

LEMMA SeedKeysSound ==
  ASSUME NEW n \in Node, NEW s \in State, TimerMatchesKey(s),
         NEW prio \in Priority[n], drawn \in Nat, now \in Nat
  PROVE  /\ SeedKeys(n, s, prio) \in State
         /\ TimerMatchesKey(SeedKeys(n, s, prio))
         /\ SeedKeys(n, s, prio).up = s.up
         /\ s.held # None => SeedKeys(n, s, prio).held = s.held
<1> DEFINE k == [key |-> drawn + 1, prio |-> prio, exp |-> Clock(n) + Timeout]
<1>1. k \in NetKey /\ Clock(n) \in Nat
  BY ConstantsAssumption, ClockType DEF NetKey
<1> HIDE DEF k
<1>2. CASE Seeds(n, s)
  <2>1. SeedKeys(n, s, prio) = InstallKey(s, k, Clock(n))
    BY <1>2 DEF SeedKeys, k
  <2> QED
    BY <1>1, <1>2, <2>1, InstallKeySound DEF Seeds, Installed
<1>3. CASE ~Seeds(n, s)
  BY <1>3 DEF SeedKeys
<1> QED
  BY <1>2, <1>3

LEMMA ExpireKeySound ==
  ASSUME NEW s, Sound(s), NEW tm \in s.timers, NEW t, tm.at <= t
  PROVE  /\ Sound(ExpireKey(s, tm))
         /\ ExpireKey(s, tm).up = s.up
         /\ Change(s.held, ExpireKey(s, tm).held, t)
<1>1. s.held # None /\ tm = s.held.timer /\ s.timers = {tm}
      /\ tm = [cid |-> s.held.cid, at |-> s.held.net.exp]
  BY DEF Sound, TimerMatchesKey
<1> DEFINE r == ExpireKey(s, tm)
<1>2. s.held.cid = tm.cid /\ s.timers \ {tm} = {}
  BY <1>1
<1>3. r.held = None /\ r.timers = {} /\ r.up = s.up /\ r \in State
  BY <1>1, <1>2 DEF ExpireKey, Sound, State
<1>4. s.held.net.exp <= t
  BY <1>1
<1> HIDE DEF r
<1>5. Sound(r) /\ Change(s.held, r.held, t)
  BY <1>3, <1>4 DEF Sound, TimerMatchesKey, Change
<1> QED
  BY <1>3, <1>5 DEF r

LEMMA AcceptSound ==
  ASSUME NEW c \in Context, NEW src \in Node, NEW sn \in Nat, NewSn(c, src, sn)
  PROVE  /\ Accept(c, src, sn) \in Context
         /\ Kept(c, Accept(c, src, sn))
         /\ Accept(c, src, sn).cid = c.cid
         /\ Accept(c, src, sn).timer = c.timer
         /\ ~NewSn(Accept(c, src, sn), src, sn)
<1> DEFINE r == Accept(c, src, sn)
<1>1. r \in Context /\ r.net = c.net /\ r.cid = c.cid /\ r.timer = c.timer
      /\ r.last = [c.last EXCEPT ![src] = sn]
  BY DEF Accept, Context
<1>2. c.last \in [Node -> Nat \cup {None}] /\ sn # None /\ r # None
  BY <1>1, NoneAssumption DEF Context
<1>3. \A q \in Node : c.last[q] # None => r.last[q] # None /\ r.last[q] >= c.last[q]
  BY <1>1, <1>2 DEF NewSn
<1>4. ~NewSn(r, src, sn)
  BY <1>1, <1>2 DEF NewSn
<1> QED
  BY <1>1, <1>2, <1>3, <1>4 DEF Kept

-----------------------------------------------------------------------------
(* The transport.                                                          *)

LEMMA RemoveIndexType ==
  ASSUME NEW s \in Seq(Message), NEW k \in 1 .. Len(s)
  PROVE  RemoveIndex(s, k) \in Seq(Message)
<1>1. /\ \A i \in 1 .. k - 1 : s[i] \in Message
      /\ \A i \in k + 1 .. Len(s) : s[i] \in Message
  BY ElementOfSeq
<1>2. SubSeq(s, 1, k - 1) \in Seq(Message) /\ SubSeq(s, k + 1, Len(s)) \in Seq(Message)
  BY <1>1, SubSeqProperties
<1> QED
  BY <1>2, ConcatProperties DEF RemoveIndex

(* A node that is down is sent nothing. *)
LEMMA TransmitSound ==
  ASSUME NEW box \in [Link -> Seq(Message)], NEW src, NEW to, NEW m \in Message
  PROVE  /\ Transmit(box, src, to, m) \in [Link -> Seq(Message)]
         /\ \A l \in Link : ~node[l[1]].up => Transmit(box, src, to, m)[l] = box[l]
<1>1. \A l \in Link : Append(box[l], m) \in Seq(Message)
  BY AppendProperties
<1> QED
  BY <1>1 DEF Transmit

-----------------------------------------------------------------------------
(* Steps.                                                                  *)

(* A node that is down has no state and is sent no frame. *)
DownIsEmpty ==
  /\ \A n \in Node : ~node[n].up => node[n] = Down
  /\ \A l \in Link : ~node[l[1]].up => inbox[l] = <<>>

IInv ==
  /\ TypeOK
  /\ \A n \in Node : Sound(node[n])
  /\ DownIsEmpty

(* What GivenUpForAReason and AcceptedOnceWhileHeld say of one step. *)
NotAgain(old, new, since) ==
  old # None /\ new # None /\ new.net = old.net =>
    \A a \in since : ~NewSn(new, a[1], a[3])

Proper ==
  \A n \in Node :
    /\ node'[n].up => Change(node[n].held, node'[n].held, Clock(n))
    /\ ~node'[n].up => node'[n].held = None
    /\ NotAgain(node[n].held, node'[n].held, accepted'[n] \ accepted[n])

(* A step that gives node n the state r. *)
LEMMA SetStep ==
  ASSUME IInv, NEW n \in Node, NEW r, Set(n, r),
         Sound(r), r.up, Change(node[n].held, r.held, Clock(n)),
         now' \in Nat, drawn' \in Nat,
         inbox' \in [Link -> Seq(Message)],
         \A l \in Link : ~node[l[1]].up => inbox'[l] = inbox[l],
         accepted' \in [Node -> SUBSET (Node \X Nat \X Nat)],
         \A m \in Node : m # n => accepted'[m] = accepted[m],
         NotAgain(node[n].held, r.held, accepted'[n] \ accepted[n])
  PROVE  IInv' /\ Proper
<1>1. node' = [node EXCEPT ![n] = r] /\ node \in [Node -> State] /\ r \in State
  BY DEF Set, IInv, TypeOK, Sound
<1>2. node'[n] = r /\ \A m \in Node : m # n => node'[m] = node[m]
  BY <1>1
<1>3. TypeOK'
  BY <1>1 DEF TypeOK
<1>4. (\A m \in Node : Sound(node[m]))'
  BY <1>2 DEF IInv
<1>5. \A l \in Link : l[1] \in Node
  BY DEF Link
<1>6. DownIsEmpty'
  BY <1>2, <1>5 DEF IInv, DownIsEmpty
<1>7. ASSUME NEW m \in Node, m # n
      PROVE  /\ Change(node[m].held, node'[m].held, Clock(m))
             /\ ~node'[m].up => node'[m].held = None
             /\ NotAgain(node[m].held, node'[m].held, accepted'[m] \ accepted[m])
  <2>1. node'[m] = node[m] /\ node[m] \in State
    BY <1>1, <1>2, <1>7
  <2>2. ~node[m].up => node[m].held = None
    BY DEF IInv, DownIsEmpty, Down
  <2>3. accepted'[m] \ accepted[m] = {}
    BY <1>7
  <2> QED
    BY <2>1, <2>2, <2>3, UnchangedIsAChange DEF NotAgain
<1> QED
  BY <1>2, <1>3, <1>4, <1>6, <1>7 DEF IInv, Proper

(* The case in which nothing is accepted. *)
LEMMA NothingAccepted ==
  ASSUME NEW n \in Node, NEW old, NEW new, accepted' = accepted
  PROVE  NotAgain(old, new, accepted'[n] \ accepted[n])
BY DEF NotAgain

LEMMA QuietStep ==
  ASSUME IInv, UNCHANGED <<node, accepted>>, now' \in Nat, drawn' \in Nat,
         inbox' \in [Link -> Seq(Message)],
         \A l \in Link : inbox[l] = <<>> => inbox'[l] = <<>>
  PROVE  IInv' /\ Proper
<1>1. TypeOK' /\ (\A n \in Node : Sound(node[n]))' /\ DownIsEmpty'
  BY DEF IInv, TypeOK, DownIsEmpty
<1>2. \A n \in Node : Change(node[n].held, node[n].held, Clock(n))
  BY UnchangedIsAChange DEF IInv, Sound
<1>3. Proper
  BY <1>2, NothingAccepted DEF Proper, IInv, DownIsEmpty, Down
<1> QED
  BY <1>1, <1>3 DEF IInv

LEMMA IInvFacts ==
  ASSUME IInv
  PROVE  /\ now \in Nat /\ drawn \in Nat
         /\ inbox \in [Link -> Seq(Message)]
         /\ accepted \in [Node -> SUBSET (Node \X Nat \X Nat)]
         /\ \A n \in Node : /\ ~node[n].up => node[n] = Down
                            /\ node[n] \in State
                            /\ TimerMatchesKey(node[n])
                            /\ node[n].held # None => node[n].refresh
                            /\ Clock(n) \in Nat
BY ClockType DEF IInv, TypeOK, Sound, DownIsEmpty

LEMMA DownSound == [Down EXCEPT !.up = TRUE] \in State
                   /\ TimerMatchesKey([Down EXCEPT !.up = TRUE])
                   /\ Sound(Down)
BY DEF Down, Sound, State, TimerMatchesKey

LEMMA InitializeStep ==
  ASSUME IInv, NEW n \in Node, Initialize(n)
  PROVE  IInv' /\ Proper
<1> DEFINE s == [Down EXCEPT !.up = TRUE]
           r(prio) == ScheduleRefresh(Acquire(SeedKeys(n, s, prio)))
<1>1. PICK prio \in Priority[n] : Set(n, r(prio))
  BY DEF Initialize
<1>2. s \in State /\ TimerMatchesKey(s) /\ s.up
  BY DownSound DEF Down
<1>3. drawn \in Nat /\ now \in Nat /\ drawn' \in Nat
  BY IInvFacts DEF Initialize, DrawIf
<1> HIDE DEF s
<1>4. Sound(r(prio)) /\ r(prio).up
  BY <1>2, <1>3, SeedKeysSound, AcquireSound, ScheduleRefreshSound
<1>5. Change(node[n].held, r(prio).held, Clock(n))
  BY DEF Initialize, IInv, DownIsEmpty, Down, Change
<1> HIDE DEF r
<1>6. /\ now' \in Nat /\ accepted' = accepted /\ inbox' = inbox
      /\ inbox \in [Link -> Seq(Message)]
      /\ accepted \in [Node -> SUBSET (Node \X Nat \X Nat)]
  BY IInvFacts DEF Initialize
<1> QED
  BY <1>1, <1>3, <1>4, <1>5, <1>6, NothingAccepted, SetStep

LEMMA ReconfigureStep ==
  ASSUME IInv, NEW n \in Node, Reconfigure(n)
  PROVE  IInv' /\ Proper
<1> DEFINE r(prio) == ScheduleRefresh(SeedKeys(n, node[n], prio))
<1>1. PICK prio \in Priority[n] : Set(n, r(prio))
  BY DEF Reconfigure
<1>2. node[n] \in State /\ TimerMatchesKey(node[n]) /\ node[n].up
  BY IInvFacts DEF Reconfigure
<1>3. drawn \in Nat /\ now \in Nat /\ drawn' \in Nat
  BY IInvFacts DEF Reconfigure, DrawIf
<1>4. Sound(r(prio)) /\ r(prio).up
      /\ (node[n].held # None => r(prio).held = node[n].held)
  BY <1>2, <1>3, SeedKeysSound, ScheduleRefreshSound
<1>5. Change(node[n].held, r(prio).held, Clock(n))
  BY <1>2, <1>4, UnchangedIsAChange DEF Change
<1> HIDE DEF r
<1>6. /\ now' \in Nat /\ accepted' = accepted /\ inbox' = inbox
      /\ inbox \in [Link -> Seq(Message)]
      /\ accepted \in [Node -> SUBSET (Node \X Nat \X Nat)]
  BY IInvFacts DEF Reconfigure
<1> QED
  BY <1>1, <1>3, <1>4, <1>5, <1>6, NothingAccepted, SetStep

LEMMA StopStep ==
  ASSUME IInv, NEW n \in Node, Stop(n)
  PROVE  IInv' /\ Proper
<1>1. node \in [Node -> State] /\ node' = [node EXCEPT ![n] = Down]
  BY DEF Stop, Set, IInv, TypeOK
<1>2. node'[n] = Down /\ \A m \in Node : m # n => node'[m] = node[m]
  BY <1>1
<1>3. /\ inbox' = [l \in Link |-> IF l[1] = n THEN <<>> ELSE inbox[l]]
      /\ accepted' = [accepted EXCEPT ![n] = {}]
      /\ now' = now /\ drawn' = drawn
  BY DEF Stop
<1>4. Sound(Down) /\ Down \in State /\ ~Down.up /\ Down.held = None
  BY DownSound DEF Sound, Down
<1>5. TypeOK'
  <2>1. inbox' \in [Link -> Seq(Message)]
    <3>1. <<>> \in Seq(Message)
      OBVIOUS
    <3> QED
      BY <1>3, <3>1 DEF IInv, TypeOK
  <2> QED
    BY <1>1, <1>3, <1>4, <2>1 DEF IInv, TypeOK
<1>6. (\A m \in Node : Sound(node[m]))'
  BY <1>2, <1>4 DEF IInv
<1>7. DownIsEmpty'
  BY <1>2, <1>3, <1>4 DEF IInv, DownIsEmpty, Link
<1>8. ASSUME NEW m \in Node, m # n
      PROVE  /\ Change(node[m].held, node'[m].held, Clock(m))
             /\ ~node'[m].up => node'[m].held = None
             /\ NotAgain(node[m].held, node'[m].held, accepted'[m] \ accepted[m])
  <2>1. node'[m] = node[m] /\ node[m] \in State
    BY <1>1, <1>2, <1>8
  <2>2. ~node[m].up => node[m].held = None
    BY DEF IInv, DownIsEmpty, Down
  <2>3. accepted'[m] \ accepted[m] = {}
    BY <1>3, <1>8 DEF IInv, TypeOK
  <2> QED
    BY <2>1, <2>2, <2>3, UnchangedIsAChange DEF NotAgain
<1>9. NotAgain(node[n].held, Down.held, accepted'[n] \ accepted[n])
  BY <1>4 DEF NotAgain
<1> QED
  BY <1>2, <1>4, <1>5, <1>6, <1>7, <1>8, <1>9 DEF IInv, Proper

(* A node that does something of its own accord is up. *)
LEMMA ActiveIsUp ==
  ASSUME IInv, NEW n \in Node,
         node[n].refresh \/ node[n].asking # None \/ node[n].timers # {}
  PROVE  node[n].up
BY IInvFacts DEF Down

LEMMA RefreshTimerStep ==
  ASSUME IInv, NEW n \in Node, RefreshTimer(n)
  PROVE  IInv' /\ Proper
<1> DEFINE s == node[n]
           sent == [s EXCEPT !.sn = (@ + 1) % Sns]
           m == [type |-> "refresh", sn |-> s.sn, net |-> s.held.net]
<1>1. s \in State /\ TimerMatchesKey(s) /\ s.up
  BY IInvFacts, ActiveIsUp DEF RefreshTimer
<1>2. /\ now' \in Nat /\ drawn' \in Nat /\ accepted' = accepted
      /\ inbox \in [Link -> Seq(Message)]
      /\ accepted \in [Node -> SUBSET (Node \X Nat \X Nat)]
  BY IInvFacts DEF RefreshTimer
<1>3. CASE s.held # None /\ s.held.net.exp > Clock(n)
  <2>1. /\ Set(n, ScheduleRefresh(sent))
        /\ inbox' = Transmit(inbox, n, Node, m)
    BY <1>3 DEF RefreshTimer
  <2>2. s.sn \in Nat /\ Sns \in Nat \ {0}
    BY <1>1, ConstantsAssumption DEF State
  <2>3. (s.sn + 1) % Sns \in Nat
    BY <2>2
  <2>4. sent \in State /\ TimerMatchesKey(sent) /\ sent.up /\ sent.held = s.held
    BY <1>1, <2>3 DEF State, TimerMatchesKey
  <2>5. m \in Message
    BY <1>1, <1>3, <2>2 DEF State, Context, Message, Refresh
  <2> HIDE DEF sent, m
  <2>6. Sound(ScheduleRefresh(sent)) /\ ScheduleRefresh(sent).up
        /\ ScheduleRefresh(sent).held = s.held
    BY <2>4, ScheduleRefreshSound
  <2>7. /\ inbox' \in [Link -> Seq(Message)]
        /\ \A l \in Link : ~node[l[1]].up => inbox'[l] = inbox[l]
    BY <1>2, <2>1, <2>5, TransmitSound
  <2> QED
    BY <1>1, <1>2, <2>1, <2>6, <2>7, UnchangedIsAChange, NothingAccepted, SetStep
<1>4. CASE ~(s.held # None /\ s.held.net.exp > Clock(n))
  <2>1. Set(n, ScheduleRefresh(s)) /\ inbox' = inbox
    BY <1>4 DEF RefreshTimer
  <2>2. Sound(ScheduleRefresh(s)) /\ ScheduleRefresh(s).up
        /\ ScheduleRefresh(s).held = s.held
    BY <1>1, ScheduleRefreshSound
  <2> QED
    BY <1>1, <1>2, <2>1, <2>2, UnchangedIsAChange, NothingAccepted, SetStep
<1> QED
  BY <1>3, <1>4

LEMMA AskStep ==
  ASSUME IInv, NEW n \in Node, NEW q \in Node, Ask(n, q)
  PROVE  IInv' /\ Proper
<1> DEFINE s == node[n]
           r == [s EXCEPT !.asking = q]
<1>1. s \in State /\ TimerMatchesKey(s) /\ (s.held # None => s.refresh) /\ s.up
  BY IInvFacts, ActiveIsUp, NoneAssumption DEF Ask
<1>2. Sound(r) /\ r.up /\ r.held = s.held
  BY <1>1 DEF Sound, State, TimerMatchesKey
<1>3. Set(n, r) /\ inbox' = Transmit(inbox, n, {q}, [type |-> "request"])
  BY DEF Ask
<1>4. [type |-> "request"] \in Message
  BY DEF Message, Request
<1>5. /\ now' \in Nat /\ drawn' \in Nat /\ accepted' = accepted
      /\ inbox' \in [Link -> Seq(Message)]
      /\ \A l \in Link : ~node[l[1]].up => inbox'[l] = inbox[l]
      /\ accepted \in [Node -> SUBSET (Node \X Nat \X Nat)]
  BY <1>3, <1>4, IInvFacts, TransmitSound DEF Ask
<1> HIDE DEF r
<1> QED
  BY <1>1, <1>2, <1>3, <1>5, UnchangedIsAChange, NothingAccepted, SetStep

LEMMA GiveUpStep ==
  ASSUME IInv, NEW n \in Node, GiveUp(n)
  PROVE  IInv' /\ Proper
<1> DEFINE s == node[n]
           r == [s EXCEPT !.asking = None]
<1>1. s \in State /\ TimerMatchesKey(s) /\ (s.held # None => s.refresh) /\ s.up
  BY IInvFacts, ActiveIsUp, NoneAssumption DEF GiveUp
<1>2. Sound(r) /\ r.up /\ r.held = s.held
  BY <1>1 DEF Sound, State, TimerMatchesKey
<1>3. Set(n, r)
  BY DEF GiveUp
<1>4. /\ now' \in Nat /\ drawn' \in Nat /\ accepted' = accepted /\ inbox' = inbox
      /\ inbox \in [Link -> Seq(Message)]
      /\ accepted \in [Node -> SUBSET (Node \X Nat \X Nat)]
  BY IInvFacts DEF GiveUp
<1> HIDE DEF r
<1> QED
  BY <1>1, <1>2, <1>3, <1>4, UnchangedIsAChange, NothingAccepted, SetStep

LEMMA ExpirationTimerStep ==
  ASSUME IInv, NEW n \in Node, NEW tm \in node[n].timers, ExpirationTimer(n, tm)
  PROVE  IInv' /\ Proper
<1> DEFINE r == ExpireKey(node[n], tm)
<1>1. Sound(node[n]) /\ node[n].up
  BY ActiveIsUp DEF IInv
<1>2. Set(n, r) /\ tm.at <= Clock(n)
  BY DEF ExpirationTimer
<1>3. Sound(r) /\ r.up /\ Change(node[n].held, r.held, Clock(n))
  BY <1>1, <1>2, ExpireKeySound
<1>4. /\ now' \in Nat /\ drawn' \in Nat /\ accepted' = accepted /\ inbox' = inbox
      /\ inbox \in [Link -> Seq(Message)]
      /\ accepted \in [Node -> SUBSET (Node \X Nat \X Nat)]
  BY IInvFacts DEF ExpirationTimer
<1> HIDE DEF r
<1> QED
  BY <1>2, <1>3, <1>4, NothingAccepted, SetStep

LEMMA OtherSteps ==
  ASSUME IInv,
         \/ Tick
         \/ \E l \in Link : \E k \in 1 .. Len(inbox[l]) : Lose(l, k) \/ Duplicate(l, k)
  PROVE  IInv' /\ Proper
<1>1. CASE Tick
  BY <1>1, IInvFacts, QuietStep DEF Tick
<1>2. ASSUME NEW l \in Link, NEW k \in 1 .. Len(inbox[l]), Lose(l, k)
      PROVE  IInv' /\ Proper
  <2>1. RemoveIndex(inbox[l], k) \in Seq(Message) /\ inbox[l] # <<>>
    BY IInvFacts, RemoveIndexType
  <2> QED
    BY <1>2, <2>1, IInvFacts, QuietStep DEF Lose
<1>3. ASSUME NEW l \in Link, NEW k \in 1 .. Len(inbox[l]), Duplicate(l, k)
      PROVE  IInv' /\ Proper
  <2>1. Append(inbox[l], inbox[l][k]) \in Seq(Message) /\ inbox[l] # <<>>
    BY IInvFacts, ElementOfSeq, AppendProperties
  <2> QED
    BY <1>3, <2>1, IInvFacts, QuietStep DEF Duplicate
<1> QED
  BY <1>1, <1>2, <1>3

(* Installing the key of a refresh after accepting the refresh. *)
LEMMA InstallAfterAccept ==
  ASSUME NEW s \in State, TimerMatchesKey(s), s.held # None, s.refresh, s.up,
         NEW src \in Node, NEW sn \in Nat, NewSn(s.held, src, sn),
         NEW k \in NetKey, NEW t \in Nat
  PROVE  LET r == InstallKey([s EXCEPT !.held = Accept(s.held, src, sn)], k, t) IN
         /\ Sound(r) /\ r.up
         /\ Change(s.held, r.held, t)
         /\ r.held # None /\ r.held.net = s.held.net => ~NewSn(r.held, src, sn)
<1> DEFINE c == Accept(s.held, src, sn)
           a == [s EXCEPT !.held = c]
           r == InstallKey(a, k, t)
<1>1. s.held \in Context
  BY DEF State
<1>2. /\ c \in Context /\ Kept(s.held, c) /\ ~NewSn(c, src, sn)
      /\ c.cid = s.held.cid /\ c.timer = s.held.timer
  BY <1>1, AcceptSound
<1>3. c.net = s.held.net /\ c # None /\ c.net \in NetKey
  BY <1>2 DEF Kept, Context
<1> HIDE DEF c
<1>4. /\ a \in State /\ a.held = c /\ a.timers = s.timers
      /\ a.up /\ a.refresh = s.refresh
  BY <1>2 DEF State
<1>5. TimerMatchesKey(a)
  BY <1>2, <1>3, <1>4 DEF TimerMatchesKey
<1> HIDE DEF a
<1>6. Installed(a, k, t, r)
  BY <1>4, <1>5, InstallKeySound
<1> HIDE DEF r
<1>7. /\ r \in State /\ TimerMatchesKey(r) /\ r.up /\ r.refresh
      /\ \/ r.held = c
         \/ r.held # None /\ Better(k, c.net, t) /\ r.held.net = k
  BY <1>3, <1>4, <1>6 DEF Installed
<1>8. ~Better(c.net, c.net, t)
  BY <1>3, PreferenceIsStrictOrder
<1>9. Sound(r) /\ Change(s.held, r.held, t)
      /\ (r.held # None /\ r.held.net = s.held.net => ~NewSn(r.held, src, sn))
  BY <1>2, <1>3, <1>7, <1>8 DEF Sound, Change
<1> QED
  BY <1>7, <1>9 DEF a, c, r

LEMMA ReceiveRefreshStep ==
  ASSUME IInv, NEW n \in Node, NEW src \in Node, NEW m \in Refresh, node[n].up,
         ReceiveRefresh(n, src, m), now' \in Nat, drawn' \in Nat,
         inbox' \in [Link -> Seq(Message)],
         \A l \in Link : ~node[l[1]].up => inbox'[l] = inbox[l]
  PROVE  IInv' /\ Proper
<1> DEFINE s == node[n]
           r == InstallKey([s EXCEPT !.held = Accept(s.held, src, m.sn)],
                           m.net, Clock(n))
<1>1. /\ s \in State /\ TimerMatchesKey(s) /\ Clock(n) \in Nat
      /\ (s.held # None => s.refresh)
      /\ accepted \in [Node -> SUBSET (Node \X Nat \X Nat)]
      /\ node \in [Node -> State]
  BY IInvFacts DEF IInv, TypeOK
<1>2. m.sn \in Nat /\ m.net \in NetKey /\ m.net.key \in Nat
  BY DEF Refresh, NetKey
<1>3. /\ Acquire(s) \in State /\ TimerMatchesKey(Acquire(s))
      /\ Acquire(s).up /\ Acquire(s).held = s.held /\ Acquire(s).refresh = s.refresh
  BY <1>1, AcquireSound
<1>4. CASE s.held = None \/ ~NewSn(s.held, src, m.sn) \/ ~Verifies(s.held, m)
  <2>1. PICK q \in {s, Acquire(s)} : Set(n, q) /\ accepted' = accepted
    BY <1>1, <1>4 DEF ReceiveRefresh, Set
  <2>2. Sound(q) /\ q.up /\ q.held = s.held
    BY <1>1, <1>3, <2>1 DEF Sound
  <2> QED
    BY <1>1, <2>1, <2>2, UnchangedIsAChange, NothingAccepted, SetStep
<1>5. CASE ~(s.held = None \/ ~NewSn(s.held, src, m.sn) \/ ~Verifies(s.held, m))
  <2>1. /\ Set(n, r)
        /\ accepted' = [accepted EXCEPT ![n] = @ \cup {<<src, m.net.key, m.sn>>}]
    BY <1>5 DEF ReceiveRefresh
  <2>2. /\ Sound(r) /\ r.up /\ Change(s.held, r.held, Clock(n))
        /\ (r.held # None /\ r.held.net = s.held.net => ~NewSn(r.held, src, m.sn))
    BY <1>1, <1>2, <1>5, InstallAfterAccept
  <2> HIDE DEF r
  <2>3. accepted'[n] \ accepted[n] \subseteq {<<src, m.net.key, m.sn>>}
    BY <1>1, <2>1
  <2>4. NotAgain(s.held, r.held, accepted'[n] \ accepted[n])
    BY <2>2, <2>3 DEF NotAgain
  <2>5. /\ accepted' \in [Node -> SUBSET (Node \X Nat \X Nat)]
        /\ \A q \in Node : q # n => accepted'[q] = accepted[q]
    BY <1>1, <1>2, <2>1
  <2> QED
    BY <2>1, <2>2, <2>4, <2>5, SetStep
<1> QED
  BY <1>4, <1>5

LEMMA ReceiveResponseStep ==
  ASSUME IInv, NEW n \in Node, NEW src \in Node, NEW m \in Response, node[n].up,
         ReceiveResponse(n, src, m), now' \in Nat, drawn' \in Nat,
         inbox' \in [Link -> Seq(Message)],
         \A l \in Link : ~node[l[1]].up => inbox'[l] = inbox[l]
  PROVE  IInv' /\ Proper
<1> DEFINE s == node[n]
           r(next) == ScheduleRefresh(InstallKey([s EXCEPT !.asking = next],
                                                 m.net, Clock(n)))
<1>1. /\ s \in State /\ TimerMatchesKey(s) /\ Clock(n) \in Nat
      /\ (s.held # None => s.refresh)
      /\ accepted' = accepted
      /\ accepted \in [Node -> SUBSET (Node \X Nat \X Nat)]
      /\ node \in [Node -> State]
      /\ m.net \in NetKey
  BY IInvFacts DEF IInv, TypeOK, ReceiveResponse, Response
<1>2. CASE s.asking = src
  <2>1. PICK next \in {None, Query} : Set(n, r(next))
    BY <1>2 DEF ReceiveResponse
  <2> DEFINE a == [s EXCEPT !.asking = next]
             i == InstallKey(a, m.net, Clock(n))
  <2>2. a \in State /\ TimerMatchesKey(a) /\ a.up
        /\ a.held = s.held
    BY <1>1 DEF State, TimerMatchesKey
  <2>3. r(next) = ScheduleRefresh(i)
    OBVIOUS
  <2> HIDE DEF a
  <2>4. Installed(a, m.net, Clock(n), i)
    BY <1>1, <2>2, InstallKeySound
  <2> HIDE DEF i, r
  <2>5. /\ i \in State /\ TimerMatchesKey(i) /\ i.up
        /\ \/ i.held = s.held
           \/ i.held # None /\ i.held.net = m.net
              /\ (s.held # None => Better(m.net, s.held.net, Clock(n)))
    BY <2>2, <2>4 DEF Installed
  <2>6. Sound(r(next)) /\ r(next).up /\ r(next).held = i.held
    BY <2>3, <2>5, ScheduleRefreshSound
  <2>7. Change(s.held, s.held, Clock(n))
    BY <1>1, UnchangedIsAChange
  <2>8. Change(s.held, i.held, Clock(n))
    BY <2>5, <2>7 DEF Change
  <2> QED
    BY <1>1, <2>1, <2>6, <2>8, NothingAccepted, SetStep
<1>3. CASE s.asking # src
  <2>1. Set(n, s)
    BY <1>1, <1>3 DEF ReceiveResponse, Set
  <2> QED
    BY <1>1, <2>1, UnchangedIsAChange, NothingAccepted, SetStep DEF Sound
<1> QED
  BY <1>2, <1>3

LEMMA ReceiveStep ==
  ASSUME IInv, NEW l \in Link, NEW k \in 1 .. Len(inbox[l]), Receive(l, k)
  PROVE  IInv' /\ Proper
<1> DEFINE n == l[1]
           m == inbox[l][k]
           box == [inbox EXCEPT ![l] = RemoveIndex(@, k)]
<1>1. n \in Node /\ l[2] \in Node
  BY DEF Link
<1>2. inbox[l] # <<>> /\ node[n].up
  BY <1>1 DEF IInv, DownIsEmpty, TypeOK
<1>3. m \in Message /\ inbox[l] \in Seq(Message)
  BY IInvFacts, ElementOfSeq
<1>4. /\ box \in [Link -> Seq(Message)]
      /\ \A j \in Link : ~node[j[1]].up => box[j] = inbox[j]
  BY <1>2, <1>3, IInvFacts, RemoveIndexType
<1>5. /\ now' \in Nat /\ drawn' \in Nat /\ node \in [Node -> State]
      /\ accepted \in [Node -> SUBSET (Node \X Nat \X Nat)]
  BY IInvFacts DEF Receive, IInv, TypeOK
<1>6. CASE m.type = "refresh"
  <2>1. ReceiveRefresh(n, l[2], m) /\ inbox' = box
    BY <1>6 DEF Receive
  <2>2. m \in Refresh
    BY <1>3, <1>6 DEF Message, Request, Response
  <2> HIDE DEF box, m, n
  <2> QED
    BY <1>1, <1>2, <1>4, <1>5, <2>1, <2>2, ReceiveRefreshStep
<1>7. CASE m.type = "response"
  <2>1. ReceiveResponse(n, l[2], m) /\ inbox' = box
    BY <1>7 DEF Receive
  <2>2. m \in Response
    BY <1>3, <1>7 DEF Message, Request, Refresh
  <2> HIDE DEF box, m, n
  <2> QED
    BY <1>1, <1>2, <1>4, <1>5, <2>1, <2>2, ReceiveResponseStep
<1>8. CASE m.type = "request"
  <2> DEFINE answer == [type |-> "response", net |-> node[n].held.net]
  <2>1. /\ node' = node /\ accepted' = accepted
        /\ inbox' = IF node[n].held = None THEN box
                    ELSE Transmit(box, n, {l[2]}, answer)
    BY <1>8 DEF Receive
  <2>2. node[n].held # None => answer \in Message
    BY <1>1, <1>5 DEF State, Context, Message, Response
  <2> HIDE DEF answer, box, m
  <2>3. /\ inbox' \in [Link -> Seq(Message)]
        /\ \A j \in Link : ~node[j[1]].up => inbox'[j] = inbox[j]
    BY <1>4, <2>1, <2>2, TransmitSound
  <2>4. Set(n, node[n]) /\ Sound(node[n])
    BY <1>1, <1>5, <2>1 DEF Set, IInv
  <2> QED
    BY <1>1, <1>2, <1>5, <2>1, <2>3, <2>4, UnchangedIsAChange, NothingAccepted,
       SetStep
<1> QED
  BY <1>6, <1>7, <1>8 DEF Receive

-----------------------------------------------------------------------------
(* The inductive invariant.                                                *)

LEMMA InvariantInit == Init => IInv
<1> SUFFICES ASSUME Init PROVE IInv
  OBVIOUS
<1>1. Sound(Down) /\ Down \in State
  BY DownSound DEF Sound
<1>2. TypeOK
  BY <1>1 DEF Init, TypeOK
<1> QED
  BY <1>1, <1>2 DEF Init, IInv, DownIsEmpty, Link

LEMMA InvariantStep == IInv /\ [Next]_vars => IInv' /\ [Proper]_vars
<1> SUFFICES ASSUME IInv, [Next]_vars PROVE IInv' /\ [Proper]_vars
  OBVIOUS
<1>1. CASE UNCHANGED vars
  BY <1>1 DEF vars, IInv, TypeOK, Sound, TimerMatchesKey, DownIsEmpty
<1>2. ASSUME NEW n \in Node,
             \/ Initialize(n) \/ Stop(n) \/ Reconfigure(n) \/ RefreshTimer(n)
             \/ GiveUp(n)
      PROVE  IInv' /\ Proper
  BY <1>2, InitializeStep, StopStep, ReconfigureStep, RefreshTimerStep, GiveUpStep
<1>3. ASSUME NEW n \in Node, NEW q \in Node, Ask(n, q) PROVE IInv' /\ Proper
  BY <1>3, AskStep
<1>4. ASSUME NEW n \in Node, NEW tm \in node[n].timers, ExpirationTimer(n, tm)
      PROVE  IInv' /\ Proper
  BY <1>4, ExpirationTimerStep
<1>5. ASSUME NEW l \in Link, NEW k \in 1 .. Len(inbox[l]), Receive(l, k)
      PROVE  IInv' /\ Proper
  BY <1>5, ReceiveStep
<1>6. CASE \/ Tick
           \/ \E l \in Link : \E k \in 1 .. Len(inbox[l]) : Lose(l, k) \/ Duplicate(l, k)
  BY <1>6, OtherSteps
<1> QED
  BY <1>1, <1>2, <1>3, <1>4, <1>5, <1>6 DEF Next

LEMMA Invariant == Spec => []IInv
BY InvariantInit, InvariantStep, PTL DEF Spec

-----------------------------------------------------------------------------
(* Theorems.                                                               *)

(* Every variable stays within its type: among others two creation ids are *)
(* enough for a key and its successor.                                     *)
THEOREM TypeCorrect == Spec => []TypeOK
<1>1. IInv => TypeOK
  BY DEF IInv
<1> QED
  BY <1>1, Invariant, PTL

(* The one pending expiration timer of a node is that of the key it holds, *)
(* through every replacement, expiry, reconfiguration and restart.         *)
THEOREM TimersAlwaysMatch == Spec => []TimersMatchKeys
<1>1. IInv => TimersMatchKeys
  BY DEF IInv, Sound, TimersMatchKeys
<1> QED
  BY <1>1, Invariant, PTL

(* A node that holds a key has its refresh timer armed, although           *)
(* network_install_key does not arm it and a refresh may install a key.    *)
THEOREM RefreshNeverStops == Spec => []RefreshKeepsRunning
<1>1. IInv => RefreshKeepsRunning
  BY DEF IInv, Sound, RefreshKeepsRunning
<1> QED
  BY <1>1, Invariant, PTL

(* A node gives up a key for one that key_preference_is_better prefers at  *)
(* that moment, at its expiration time, or when the process ends.          *)
THEOREM KeysGivenUpForAReason == Spec => GivenUpForAReason
<1>1. IInv /\ [Next]_vars =>
        [\A n \in Node :
           LET old == node[n].held
               new == node'[n].held
           IN  old # None =>
                 \/ new # None /\ (new.net = old.net \/ Better(new.net, old.net, Clock(n)))
                 \/ new = None /\ old.net.exp <= Clock(n)
                 \/ ~node'[n].up]_vars
  BY InvariantStep DEF Proper, Change, Kept
<1> QED
  BY <1>1, Invariant, PTL DEF Spec, GivenUpForAReason

(* While a node holds a key its receive window only closes, and a frame    *)
(* accepted under the key is refused from then on, although every refresh  *)
(* offers for installation the key that protects it.                       *)
THEOREM AcceptedOnce == Spec => AcceptedOnceWhileHeld
<1>1. IInv /\ [Next]_vars =>
        [\A n \in Node :
           LET old == node[n].held
               new == node'[n].held
           IN  old # None /\ new # None /\ new.net = old.net =>
                 /\ \A src \in Node :
                      old.last[src] # None =>
                        new.last[src] # None /\ new.last[src] >= old.last[src]
                 /\ \A a \in accepted'[n] \ accepted[n] : ~NewSn(new, a[1], a[3])]_vars
  <2> SUFFICES ASSUME IInv, Proper, NEW n \in Node,
                      node[n].held # None, node'[n].held # None,
                      node'[n].held.net = node[n].held.net
               PROVE  /\ Kept(node[n].held, node'[n].held)
                      /\ \A a \in accepted'[n] \ accepted[n] :
                           ~NewSn(node'[n].held, a[1], a[3])
    BY InvariantStep DEF Kept
  <2>1. node[n].held.net \in NetKey /\ Clock(n) \in Nat
    BY IInvFacts DEF State, Context
  <2>2. ~Better(node[n].held.net, node[n].held.net, Clock(n))
    BY <2>1, PreferenceIsStrictOrder
  <2>3. node'[n].up
    BY DEF Proper
  <2>4. Kept(node[n].held, node'[n].held)
    BY <2>2, <2>3 DEF Proper, Change
  <2> QED
    BY <2>4 DEF Proper, NotAgain
<1> QED
  BY <1>1, Invariant, PTL DEF Spec, AcceptedOnceWhileHeld
=============================================================================
