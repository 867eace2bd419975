--------------------------- MODULE KeyAcquisition ---------------------------
(***************************************************************************)
(* How one node of bfc-tunnel acquires network keys (node.cpp): the query, *)
(* the candidates it collects, and the peers it asks one after the other.  *)
(* Asking takes two procedures of the peer, peer security when there is no *)
(* context yet and then the request for the keys.  Both run on the one     *)
(* transaction queue of the peer and report through completion callbacks,  *)
(* which are called in the middle of the handler that ends a transaction   *)
(* and start the next procedure from there.                                *)
(*                                                                         *)
(* A handler is an operator on a working copy of the node.  What a function *)
(* of the code does once a callback has returned is put with the calls that *)
(* are still to be made, and Run makes those one after the other.          *)
(*                                                                         *)
(* The peers are the environment: what they send is chosen freely among    *)
(* what PeerSecurity and NetworkKeys can send.  The context table is cut   *)
(* down to what peer_select_sec_ctx finds in it, the algorithm pairs to    *)
(* whether one is known to work and how many are untried, and all keys     *)
(* have the one sec_ctx there is, so a peer is a candidate once.           *)
(***************************************************************************)
EXTENDS Integers, Sequences, FiniteSets, TLC

CONSTANTS
  Peer,
  NumPairs,      \* algorithm pairs the node supports
  MaxId,         \* bound: message ids in use at one peer
  MaxCalls,      \* bound: calls that one handler leaves to Run
  MaxInFlight,   \* bound: unanswered messages when a peer sends more
  MaxQueue,      \* bound: pending transactions, and timers whose id was lost
  Environment,   \* [Peer -> SUBSET EnvironmentKinds]: what may happen with it
  None

EnvironmentKinds ==
  {"silent", "duplicate", "late", "cross", "refuse", "forget", "stranger",
   "expire", "leave"}

ASSUME ConstantsAssumption ==
  /\ IsFiniteSet(Peer)
  /\ NumPairs \in Nat /\ MaxId \in Nat \ {0} /\ MaxCalls \in Nat
  /\ MaxInFlight \in Nat /\ MaxQueue \in Nat
  /\ Environment \in [Peer -> SUBSET EnvironmentKinds]

Id == 1 .. MaxId

(* A transaction is known by its callbacks: those of peer security, or     *)
(* those of an acquisition, which capture its request id.                  *)
Transaction == [kind : {"security"}, req : {None}] \cup [kind : {"keys"}, req : Id]

(* sec_proc_ctx: whether it has a completion_cb, and the id of its MSG1,   *)
(* which it has none of while its transaction is queued.                   *)
SecurityProcedure ==
  [mid : {None}, done : BOOLEAN, queued : {TRUE}, retries : Nat]
    \cup [mid : Id, done : BOOLEAN, queued : {FALSE}, retries : Nat]

(* net_key_acq_proc_ctx *)
KeyProcedure == [id : Id, retries : Nat]

CurrentTransaction == [id : Id, tx : Transaction]

ASSUME NoneAssumption ==
  None \notin Peer \cup SecurityProcedure \cup KeyProcedure \cup CurrentTransaction

PeerState ==
  [present : BOOLEAN, key : BOOLEAN,             \* in peers; in public_keys
   ctx : {"none", "expiring", "usable"},         \* what peer_select_sec_ctx finds
   known : BOOLEAN, untried : 0 .. NumPairs,     \* algorithm pairs
   proc : SecurityProcedure \cup {None},
   acq : KeyProcedure \cup {None},
   current : CurrentTransaction \cup {None},
   pending : Seq(Transaction),
   armed : BOOLEAN,                \* transaction_timer_id is pending
   orphans : Nat]                  \* transaction timers whose id was lost

Message == [to : Peer, type : {"msg1", "request"}, id : Id]

VARIABLES
  node,   \* the node: its peers and network_security_procedure_ctx
  wire    \* messages the peers have yet to answer

vars == <<node, wire>>

NodeState ==
  [peer : [Peer -> PeerState],
   candidates : SUBSET Peer,       \* network_key_candidates
   ongoing : Peer \cup {None},     \* ongoing_acquisition_peer
   collecting : BOOLEAN,           \* key_information_collect_timer_id
   retry : BOOLEAN]                \* query_retry_timer_id

TypeOK == node \in NodeState /\ wire \subseteq Message

Absent ==
  [present |-> FALSE, key |-> TRUE, ctx |-> "none", known |-> FALSE,
   untried |-> 0, proc |-> None, acq |-> None, current |-> None,
   pending |-> <<>>, armed |-> FALSE, orphans |-> 0]

Init ==
  /\ node = [peer |-> [p \in Peer |-> Absent], candidates |-> {},
             ongoing |-> None, collecting |-> FALSE, retry |-> FALSE]
  /\ wire = {}

-----------------------------------------------------------------------------
(* The working copy of a handler also has the messages it sends, the order *)
(* in which unordered_map lists the candidates, and the calls that are     *)
(* still to be made, the next one first: a function puts those it ends     *)
(* with before those of its caller.                                        *)

Orders == {o \in [1 .. Cardinality(Peer) -> Peer] :
             \A i, j \in DOMAIN o : o[i] = o[j] => i = j}

Operations ==
  {"StartSecurity", "ProcessPending", "ResetTransaction", "ArmTransactionTimer",
   "Respond", "EraseKey", "FinishSecurity", "FinishAcquisition", "Erase"}

Calls == [op : Operations, peer : Peer, done : BOOLEAN, force : BOOLEAN]

ToCall(op, p) == [op |-> op, peer |-> p, done |-> FALSE, force |-> FALSE]

SecurityCall(p, done, force) ==
  [op |-> "StartSecurity", peer |-> p, done |-> done, force |-> force]

Begin(order) ==
  [peer |-> node.peer, candidates |-> node.candidates, ongoing |-> node.ongoing,
   collecting |-> node.collecting, retry |-> node.retry,
   out |-> {}, order |-> order, calls |-> <<>>]

Then(n, c) == [n EXCEPT !.calls = <<c>> \o @]

Send(n, p, type, id) ==
  [n EXCEPT !.out = @ \cup {[to |-> p, type |-> type, id |-> id]}]

(* trid_ctr: an id that is not in use.  The counter is 8 bits wide; its    *)
(* wrap is a matter of PeerSecurity.                                       *)
UsedIds(n, p) ==
  LET s == n.peer[p]
  IN  {m.id : m \in {x \in wire \cup n.out : x.to = p}}
        \cup (IF s.proc = None THEN {} ELSE {s.proc.mid})
        \cup (IF s.acq = None THEN {} ELSE {s.acq.id})
        \cup (IF s.current = None THEN {} ELSE {s.current.id, s.current.tx.req})
        \cup {s.pending[i].req : i \in DOMAIN s.pending}
Fresh(n, p) ==
  CHOOSE i \in Id : Id \subseteq UsedIds(n, p) \/ i \notin UsedIds(n, p)

Security  == [kind |-> "security", req |-> None]
Keys(req) == [kind |-> "keys", req |-> req]

InProgress(n) ==
  \/ n.retry \/ n.collecting \/ n.ongoing # None \/ n.candidates # {}
  \/ \E p \in Peer : n.peer[p].acq # None

-----------------------------------------------------------------------------
(* The acquisition.                                                        *)

CompleteProcedure(n) ==
  [n EXCEPT !.retry = FALSE, !.ongoing = None, !.candidates = {}]

(* peer_start_network_key_acquisition_procedure; StartNext is the only     *)
(* caller, directly or through the completion of peer security, so the     *)
(* completion is always network_on_key_acquisition_complete.  It is        *)
(* dropped when an acquisition of the peer is in progress.                 *)
StartAcquisition(n, p) ==
  LET id == Fresh(n, p)
  IN  IF n.peer[p].acq # None THEN n
      ELSE IF n.peer[p].ctx = "none"
      THEN Then(n, SecurityCall(p, TRUE, FALSE))
      ELSE Then([n EXCEPT !.peer[p].acq = [id |-> id, retries |-> 0],
                          !.peer[p].pending = Append(@, Keys(id))],
                ToCall("ProcessPending", p))

(* network_start_next_key_acquisition: of the candidates that can be asked *)
(* the first; those before it are dropped.                                 *)
StartNext(n) ==
  LET Askable(p) == n.peer[p].present /\ n.peer[p].acq = None
      firsts == {i \in DOMAIN n.order : /\ n.order[i] \in n.candidates
                                        /\ Askable(n.order[i])}
      first  == CHOOSE i \in firsts : \A j \in firsts : i <= j
      before == {n.order[i] : i \in 1 .. first - 1}
  IN  IF n.ongoing # None THEN n
      ELSE IF firsts = {} THEN CompleteProcedure(n)
      ELSE StartAcquisition([n EXCEPT !.candidates = @ \ before,
                                      !.ongoing = n.order[first]], n.order[first])

(* Mutant: the peer stays the ongoing one. *)
AcquisitionComplete_KeepsOngoing(n, p, ok) ==
  LET m == [n EXCEPT !.candidates = IF ok THEN @ ELSE @ \ {p}]
  IN  IF m.candidates = {} THEN m ELSE StartNext(m)

(* network_on_key_acquisition_complete *)
AcquisitionComplete(n, p, ok) ==
  LET m == [n EXCEPT !.ongoing = IF @ = p THEN None ELSE @,
                     !.candidates = IF ok THEN @ ELSE @ \ {p}]
  IN  IF m.candidates = {} THEN CompleteProcedure(m) ELSE StartNext(m)

(* The completion that an acquisition hands to peer security. *)
SecurityComplete(n, p, ok) ==
  IF ok THEN StartAcquisition(n, p) ELSE AcquisitionComplete(n, p, FALSE)

(* peer_finish_security_procedure *)
FinishSecurity(n, p, ok) ==
  LET proc == n.peer[p].proc
      m    == [n EXCEPT !.peer[p].proc = None]
  IN  IF proc = None THEN n
      ELSE IF proc.done THEN SecurityComplete(m, p, ok) ELSE m

(* Mutant: net_key_acq_proc_ctx is not reset. *)
FinishAcquisition_KeepsContext(n, p, ok) ==
  LET m == [n EXCEPT !.candidates = IF ok THEN {} ELSE @]
  IN  IF n.peer[p].acq = None THEN n ELSE AcquisitionComplete(m, p, ok)

(* peer_finish_network_key_acquisition_procedure: the keys acquired remove *)
(* the candidates, which have the same sec_ctx.                            *)
FinishAcquisition(n, p, ok) ==
  LET m == [n EXCEPT !.peer[p].acq = None, !.candidates = IF ok THEN {} ELSE @]
  IN  IF n.peer[p].acq = None THEN n ELSE AcquisitionComplete(m, p, ok)

-----------------------------------------------------------------------------
(* The transactions of a peer.                                             *)

(* done_cb *)
Done(n, p, tx, ok) ==
  IF tx.kind = "security" THEN FinishSecurity(n, p, ok)
  ELSE FinishAcquisition(n, p, ok)

ResetTransaction(n, p) ==
  [n EXCEPT !.peer[p].armed = FALSE, !.peer[p].current = None]

(* Mutant: the queue is not processed after a transaction. *)
CompleteTransaction_NoPending(n, p, id, ok) ==
  LET current == n.peer[p].current
      m       == Then(n, ToCall("ResetTransaction", p))
  IN  IF current = None THEN n
      ELSE IF current.id # id THEN n
      ELSE Done(m, p, current.tx, ok)

(* peer_complete_transaction: the callback runs while the transaction is   *)
(* still current, so what it queues waits for it.                          *)
CompleteTransaction(n, p, id, ok) ==
  LET current == n.peer[p].current
      m       == Then(Then(n, ToCall("ProcessPending", p)), ToCall("ResetTransaction", p))
  IN  IF current = None THEN n
      ELSE IF current.id # id THEN n
      ELSE Done(m, p, current.tx, ok)

QueueSecurity(n, p, done) ==
  [n EXCEPT !.peer[p].proc = [mid |-> None, done |-> done, queued |-> TRUE, retries |-> 0],
            !.peer[p].pending = Append(@, Security)]

(* peer_start_security_procedure; a completion is dropped when a procedure *)
(* is in progress already.                                                 *)
StartSecurity(n, p, done, force) ==
  LET s == n.peer[p]
      Complete(ok) == IF done THEN SecurityComplete(n, p, ok) ELSE n
  IN  IF ~s.key THEN Complete(FALSE)
      ELSE IF ~force /\ s.ctx = "usable" THEN Complete(TRUE)
      ELSE IF s.proc # None THEN n
      ELSE Then(QueueSecurity(n, p, done), ToCall("ProcessPending", p))

(* No algorithm pair is left for the MSG1 that is to be made. *)
NoPairs(s) == s.proc.queued /\ ~s.known /\ s.untried = 0

(* do_cb of peer security: the MSG1 made on the first run is sent again on *)
(* the later ones.                                                         *)
SendMsg1(n, p, id) ==
  LET s    == n.peer[p]
      made == [n EXCEPT !.peer[p].proc = [@ EXCEPT !.mid = id, !.queued = FALSE],
                        !.peer[p].untried = IF s.known THEN @ ELSE @ - 1]
      m    == IF s.proc.queued THEN made ELSE n
  IN  IF s.proc = None THEN CompleteTransaction(n, p, id, FALSE)
      ELSE IF NoPairs(s) THEN CompleteTransaction(n, p, id, FALSE)
      ELSE Send([m EXCEPT !.peer[p].proc.retries = @ + 1],
                p, "msg1", m.peer[p].proc.mid)

(* do_cb of an acquisition: peer_send_message starts peer security when    *)
(* there is no context to send the request with; the transaction that is   *)
(* still current keeps it waiting.                                         *)
SendRequest(n, p, id, req) ==
  LET s == n.peer[p]
      m == IF s.key /\ s.proc = None THEN QueueSecurity(n, p, FALSE) ELSE n
  IN  IF s.acq = None THEN CompleteTransaction(n, p, id, FALSE)
      ELSE IF s.acq.id # req THEN CompleteTransaction(n, p, id, FALSE)
      ELSE IF s.ctx = "none" THEN CompleteTransaction(m, p, id, FALSE)
      ELSE Send(n, p, "request", req)

Do(n, p) ==
  LET current == n.peer[p].current
  IN  IF current.tx.kind = "security" THEN SendMsg1(n, p, current.id)
      ELSE SendRequest(n, p, current.id, current.tx.req)

ProcessPending(n, p) ==
  LET s == n.peer[p]
      m == [n EXCEPT !.peer[p].current = [id |-> Fresh(n, p), tx |-> Head(s.pending)],
                     !.peer[p].pending = Tail(s.pending)]
  IN  IF s.current # None \/ s.pending = <<>> THEN n
      ELSE Do(Then(m, ToCall("ArmTransactionTimer", p)), p)

(* The end of peer_process_pending_transactions: the timer is armed after  *)
(* do_cb, also when do_cb has completed the transaction, and wait_ms then  *)
(* overwrites the id of the timer that the next transaction was given.     *)
ArmTransactionTimer(n, p) ==
  [n EXCEPT !.peer[p].orphans = IF n.peer[p].armed THEN @ + 1 ELSE @,
            !.peer[p].armed = TRUE]

(* Mutants: the abort leaves the transaction, or the procedure. *)
AbortSender_KeepsTransaction(n, p) == FinishSecurity(n, p, FALSE)
AbortSender_KeepsProcedure(n, p) == ResetTransaction(n, p)

(* peer_abort_sender_security_procedure: whatever transaction is current   *)
(* is dropped, and the queue is not processed.                             *)
AbortSender(n, p) == FinishSecurity(ResetTransaction(n, p), p, FALSE)

Respond(n, p) == [n EXCEPT !.peer[p].ctx = "usable", !.peer[p].known = TRUE]

(* handle_btp_message of a MSG2 with VERIFICATION_FAILED *)
EraseKey(n, p) == [n EXCEPT !.peer[p].key = FALSE]

(* The end of peer_cleanup, and the erasure from peers. *)
Erase(n, p) ==
  [n EXCEPT !.peer[p] = [Absent EXCEPT !.key = n.peer[p].key],
            !.candidates = @ \ {p},
            !.ongoing = IF @ = p THEN None ELSE @]

Call(n, c) ==
  CASE c.op = "StartSecurity"       -> StartSecurity(n, c.peer, c.done, c.force)
    [] c.op = "ProcessPending"      -> ProcessPending(n, c.peer)
    [] c.op = "ResetTransaction"    -> ResetTransaction(n, c.peer)
    [] c.op = "ArmTransactionTimer" -> ArmTransactionTimer(n, c.peer)
    [] c.op = "Respond"             -> Respond(n, c.peer)
    [] c.op = "EraseKey"            -> EraseKey(n, c.peer)
    [] c.op = "FinishSecurity"      -> FinishSecurity(n, c.peer, FALSE)
    [] c.op = "FinishAcquisition"   -> FinishAcquisition(n, c.peer, FALSE)
    [] c.op = "Erase"               -> Erase(n, c.peer)

MakeCall(n) ==
  IF n.calls = <<>> THEN n ELSE Call([n EXCEPT !.calls = Tail(@)], Head(n.calls))

(* Every call that is left, and those that they leave in turn. *)
Run(n) ==
  LET run[k \in 0 .. MaxCalls] == IF k = 0 THEN n ELSE MakeCall(run[k - 1])
  IN  run[MaxCalls]

(* What the handler leaves, when rest of the messages stays on the wire.   *)
Finish(handler, rest) ==
  \E n \in {Run(handler)} :
    /\ n.calls = <<>>
    /\ \A p \in Peer :
         /\ Cardinality({m \in rest \cup n.out : m.to = p}) <= MaxInFlight
         /\ Len(n.peer[p].pending) <= MaxQueue
         /\ n.peer[p].orphans <= MaxQueue
    /\ node' = [peer |-> n.peer, candidates |-> n.candidates, ongoing |-> n.ongoing,
                collecting |-> n.collecting, retry |-> n.retry]
    /\ wire' = rest \cup n.out

-----------------------------------------------------------------------------
(* Timers.                                                                 *)

(* The expiration callbacks: the timer is one-shot and the retry does not  *)
(* arm it again.  Peer security names transaction 0 on its retry limit.    *)
ExpireSecurity(n, p) ==
  LET s == n.peer[p]
  IN  IF s.proc = None THEN n
      ELSE IF s.proc.mid # s.current.id \/ s.proc.retries >= 3 THEN n
      ELSE Do(n, p)

ExpireKeys(n, p) ==
  LET s == n.peer[p]
  IN  IF s.acq = None THEN n
      ELSE IF s.acq.id # s.current.tx.req THEN n
      ELSE IF s.acq.retries >= 3 THEN CompleteTransaction(n, p, s.current.id, FALSE)
      ELSE Do([n EXCEPT !.peer[p].acq.retries = @ + 1], p)

ExpireTransaction(n, p) ==
  IF n.peer[p].current = None THEN n
  ELSE IF n.peer[p].current.tx.kind = "security" THEN ExpireSecurity(n, p)
  ELSE ExpireKeys(n, p)

(* Without "late" a peer answers within transaction_timeout_ms. *)
Answered(p) == "late" \in Environment[p] \/ \A m \in wire : m.to # p

TransactionTimeout(p) ==
  /\ Answered(p)
  /\ \E o \in Orders :
       LET n == Begin(o)
       IN  \/ /\ node.peer[p].armed
              /\ Finish(ExpireTransaction([n EXCEPT !.peer[p].armed = FALSE], p), wire)
           \/ /\ node.peer[p].orphans > 0
              /\ Finish(ExpireTransaction([n EXCEPT !.peer[p].orphans = @ - 1], p), wire)

(* network_start_security_query_procedure *)
StartQuery(n) ==
  IF n.collecting THEN n
  ELSE IF \A p \in Peer : ~n.peer[p].present THEN [n EXCEPT !.retry = TRUE]
  ELSE [n EXCEPT !.retry = FALSE, !.candidates = {}, !.ongoing = None,
                 !.collecting = TRUE]

(* Mutant: an acquisition in progress is not looked at. *)
AcquireKeys_Again ==
  /\ ~node.retry /\ ~node.collecting
  /\ node' = StartQuery(node)
  /\ UNCHANGED wire

(* network_acquire_keys, from initialize or from a frame under a network   *)
(* key the node lacks.                                                     *)
AcquireKeys ==
  /\ ~InProgress(node)
  /\ node' = StartQuery(node)
  /\ UNCHANGED wire

QueryRetryTimer ==
  /\ node.retry
  /\ node' = StartQuery([node EXCEPT !.retry = FALSE])
  /\ UNCHANGED wire

(* network_finish_security_query_procedure; what was advertised may have   *)
(* expired in the meantime.                                                *)
CollectTimer ==
  /\ node.collecting
  /\ \E expired \in SUBSET node.candidates, o \in Orders :
       LET n == [Begin(o) EXCEPT
                   !.collecting = FALSE, !.ongoing = None,
                   !.candidates = {p \in @ \ expired : node.peer[p].present}]
       IN  Finish(StartNext(n), wire)

(* peer_mark_sec_ctx_expiring: a renewal is started, without a completion. *)
ContextExpiring(p) ==
  /\ "expire" \in Environment[p]
  /\ node.peer[p].ctx = "usable"
  /\ \E o \in Orders :
       Finish(StartSecurity([Begin(o) EXCEPT !.peer[p].ctx = "expiring"],
                            p, FALSE, FALSE), wire)

(* peer_expire_security_context; no answer is under way for as long as     *)
(* security_ctx_grace_period_s.                                            *)
ContextExpired(p) ==
  /\ "expire" \in Environment[p]
  /\ \A m \in wire : m.to # p
  /\ node.peer[p].ctx = "expiring"
  /\ node' = [node EXCEPT !.peer[p].ctx = "none"]
  /\ UNCHANGED wire

(* peer_cleanup: the callbacks of every transaction are called, then those *)
(* of the procedures that are left.                                        *)
Cleanup(n, p) ==
  LET s    == n.peer[p]
      txs  == (IF s.current = None THEN <<>> ELSE <<s.current.tx>>) \o s.pending
      idle == [ResetTransaction(n, p) EXCEPT !.peer[p].pending = <<>>]
      Finishing(tx) == IF tx.kind = "security" THEN "FinishSecurity" ELSE "FinishAcquisition"
  IN  [idle EXCEPT !.calls =
         [i \in DOMAIN txs |-> ToCall(Finishing(txs[i]), p)]
           \o <<ToCall("FinishSecurity", p), ToCall("FinishAcquisition", p), ToCall("Erase", p)>>]

(* peer_schedule_check_activity finds p silent for default_peer_timeout_s. *)
CheckActivity(p) ==
  /\ "leave" \in Environment[p]
  /\ node.peer[p].present
  /\ \E o \in Orders :
       Finish(Cleanup(Begin(o), p), {m \in wire : m.to # p})

-----------------------------------------------------------------------------
(* Messages from the peers.                                                *)

HandleBeacon(p) ==
  /\ ~node.peer[p].present
  /\ node' = [node EXCEPT !.peer[p].present = TRUE, !.peer[p].untried = NumPairs]
  /\ UNCHANGED wire

(* network_security_information: only while the node collects *)
HandleInformation(p) ==
  /\ node.collecting /\ node.peer[p].present
  /\ node' = [node EXCEPT !.candidates = @ \cup {p}]
  /\ UNCHANGED wire

(* MSG1 of the peer: arbitration, then the responder's part.  A procedure  *)
(* that has not sent its MSG1 still has priority 0.                        *)
HandleMsg1(n, p, arbitration, accepted) ==
  LET s      == n.peer[p]
      answer == IF accepted THEN Then(n, ToCall("Respond", p)) ELSE n
      again  == Then(n, SecurityCall(p, FALSE, TRUE))
  IN  IF ~s.key THEN n
      ELSE IF s.proc = None THEN answer
      ELSE IF arbitration = "wins" \/ s.proc.queued THEN AbortSender(answer, p)
      ELSE IF arbitration = "loses" THEN n
      ELSE AbortSender(again, p)

PeerInitiates(p) ==
  /\ "cross" \in Environment[p]
  /\ node.peer[p].present
  /\ \E o \in Orders, arbitration \in {"wins", "loses", "ties"}, accepted \in BOOLEAN :
       Finish(HandleMsg1(Begin(o), p, arbitration, accepted), wire)

(* UNSUPPORTED starts the procedure again with its completion, which the   *)
(* end of the transaction has called; UNKNOWN_PEER reports success,        *)
(* without a context.                                                      *)
HandleMsg2(n, p, id, status) ==
  LET s     == n.peer[p]
      again == [Then(n, SecurityCall(p, s.proc.done, TRUE)) EXCEPT !.peer[p].known = FALSE]
  IN  IF s.proc = None \/ ~s.key THEN CompleteTransaction(n, p, id, FALSE)
      ELSE CASE status = "UNSUPPORTED" -> CompleteTransaction(again, p, id, FALSE)
             [] status = "VERIFICATION_FAILED" ->
                  CompleteTransaction(Then(n, ToCall("EraseKey", p)), p, id, FALSE)
             [] status = "UNKNOWN_PEER" -> CompleteTransaction(n, p, id, TRUE)
             [] status = "OK" -> CompleteTransaction(Respond(n, p), p, id, TRUE)

(* network_keys_response, in one page.  Whatever transaction is current is *)
(* completed.  Which keys are installed is a matter of NetworkKeys.        *)
HandleResponse(n, p, id) ==
  LET s == n.peer[p]
  IN  IF s.acq = None THEN n
      ELSE IF s.acq.id # id THEN n
      ELSE IF s.current = None THEN FinishAcquisition(n, p, TRUE)
      ELSE CompleteTransaction(n, p, s.current.id, TRUE)

Statuses(p) ==
  {"OK"} \cup (IF "refuse" \in Environment[p] THEN {"UNSUPPORTED"} ELSE {})
         \cup (IF "forget" \in Environment[p] THEN {"VERIFICATION_FAILED"} ELSE {})
         \cup (IF "stranger" \in Environment[p] THEN {"UNKNOWN_PEER"} ELSE {})

(* The peer answers m and the answer arrives. *)
Answer(m) ==
  \E o \in Orders, rest \in {wire \ {m}, wire} :
    /\ rest = wire => "duplicate" \in Environment[m.to]
    /\ \/ /\ m.type = "msg1"
          /\ \E status \in Statuses(m.to) :
               Finish(HandleMsg2(Begin(o), m.to, m.id, status), rest)
       \/ /\ m.type = "request"
          /\ Finish(HandleResponse(Begin(o), m.to, m.id), rest)

(* The peer has no keys to share, or the message or the answer is lost. *)
Silence(m) ==
  /\ "silent" \in Environment[m.to]
  /\ wire' = wire \ {m}
  /\ UNCHANGED node

Next ==
  \/ AcquireKeys \/ QueryRetryTimer \/ CollectTimer
  \/ \E p \in Peer : \/ TransactionTimeout(p)
                     \/ ContextExpiring(p) \/ ContextExpired(p)
                     \/ CheckActivity(p) \/ HandleBeacon(p)
                     \/ HandleInformation(p) \/ PeerInitiates(p)
  \/ \E m \in wire : Answer(m) \/ Silence(m)

Spec == Init /\ [][Next]_vars

-----------------------------------------------------------------------------
(* Safety.                                                                 *)

(* The transaction that holds up the queue of a peer (peer_process_pending *)
(* _transactions starts no other) belongs to a procedure in progress: its  *)
(* own MSG1, or the request of the acquisition that goes on.               *)
TransactionHasProcedure ==
  \A p \in Peer :
    LET s == node.peer[p]
    IN  s.current # None =>
          \/ s.current.tx = Security /\ s.proc # None /\ s.proc.mid = s.current.id
          \/ s.acq # None /\ s.current.tx = Keys(s.acq.id)

(* A peer security procedure in progress has its transaction: queued until *)
(* the MSG1 is made, current afterwards.  Without one nothing would end it *)
(* and peer_start_security_procedure would never start another.            *)
SecurityHasTransaction ==
  \A p \in Peer :
    LET s == node.peer[p]
    IN  s.proc # None =>
          IF s.proc.queued THEN Security \in {s.pending[i] : i \in DOMAIN s.pending}
          ELSE s.current # None /\ s.current.id = s.proc.mid

(* The same for an acquisition of a peer: what peer_abort_sender, a late   *)
(* answer or the deletion of the peer ends is never the transaction of an  *)
(* acquisition that stays in progress.                                     *)
AcquisitionHasTransaction ==
  \A p \in Peer :
    LET s == node.peer[p]
    IN  s.acq # None =>
          \/ Keys(s.acq.id) \in {s.pending[i] : i \in DOMAIN s.pending}
          \/ s.current # None /\ s.current.tx = Keys(s.acq.id)

Serves(p) ==
  \/ node.peer[p].acq # None
  \/ node.peer[p].proc # None /\ node.peer[p].proc.done

(* Keys are acquired from one peer at a time (docs/behavior.md), the peer  *)
(* security that precedes the request included.                            *)
OneAtATime == \A p, q \in Peer : Serves(p) /\ Serves(q) => p = q

(* ongoing_acquisition_peer blocks every further acquisition, so a         *)
(* procedure that will report to network_on_key_acquisition_complete goes  *)
(* on at that peer.                                                        *)
OngoingIsWaited == node.ongoing # None => Serves(node.ongoing)

-----------------------------------------------------------------------------
(* Liveness.  The reactor serves timers that are due and messages that     *)
(* arrived.  The conditions are those under which the actions are enabled. *)

TimerDue(p) == Answered(p) /\ (node.peer[p].armed \/ node.peer[p].orphans > 0)
Unanswered(p) == \E m \in wire : m.to = p
AnswerFrom(p) == \E m \in wire : m.to = p /\ Answer(m)

Fairness ==
  /\ WF_vars(QueryRetryTimer)
  /\ []<>~node.collecting \/ []<><<CollectTimer>>_vars
  /\ \A p \in Peer :
       /\ []<>~TimerDue(p) \/ []<><<TransactionTimeout(p)>>_vars
       /\ []<>~Unanswered(p) \/ []<><<AnswerFrom(p)>>_vars

FairSpec == Spec /\ Fairness

(* An acquisition that has peers to query ends, with or without a key, so  *)
(* that network_acquire_keys can start another (docs/behavior.md).         *)
AcquisitionEnds == InProgress(node) /\ ~node.retry ~> ~InProgress(node)
=============================================================================
