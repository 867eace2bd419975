------------------------- MODULE RuntimeBooksProofs -------------------------
(***************************************************************************)
(* The registry, the node's ports, the sockets and the handlers of both    *)
(* reactors agree about every transport nobody is working on.  The         *)
(* argument follows a transport through the steps of add_transport,        *)
(* delete_transport and request_stop: at most one caller works on          *)
(* transports at a time, and its label and the step of the io thread's     *)
(* task tell how far the transport has got.                                *)
(***************************************************************************)
EXTENDS RuntimeProofs

\* The socket and what was set up with it are there, as the type wants it.
Bound(i) ==
    /\ i \in sockets
    /\ target[i] # "none" <=> kind[i] \in Multicast
Member(i) == i \in joined <=> kind[i] = "INTERNAL_MULTICAST"

Open(i) == Bound(i) /\ Member(i) /\ i \in initialized /\ i \in inReady /\ i \in fdReady
Free(i) == i \notin sockets /\ target[i] = "none"
Closed(i) ==
    i \notin initialized /\ i \notin joined /\ i \notin inReady /\ i \notin fdReady

\* Closed, except that rem_read_rdy may have still to call back.
Released(i) ==
    /\ Closed(i)
    /\ IF i \in removals THEN target[i] # "none" => kind[i] \in Multicast
                         ELSE Free(i)
Steady(i) == i \notin removals /\ (Open(i) \/ (Closed(i) /\ Free(i)))

\* A transport that nobody works on.
Resting(i) ==
    /\ i \in transports_ <=> i \in ports
    /\ IF i \in transports_ THEN Steady(i) ELSE Released(i)

\* The transport i of a caller whose task is t.
Opened(i, t) ==
    CASE t = "none"       -> i \notin removals /\ Closed(i) /\ Free(i)
      [] t = "add_reader" -> /\ i \notin removals /\ Bound(i) /\ Member(i)
                             /\ i \notin initialized /\ i \notin inReady /\ i \notin fdReady
      [] OTHER            -> /\ i \notin removals /\ Bound(i) /\ Member(i)
                             /\ i \notin initialized /\ i \in inReady /\ i \notin fdReady
LetGo(i, t) ==
    CASE t = "none"          -> Steady(i)
      [] t = "remove_reader" -> /\ i \notin removals /\ Bound(i)
                                /\ i \notin initialized /\ i \notin joined
                                /\ i \in inReady /\ i \in fdReady
      [] OTHER               -> /\ i \notin removals /\ Bound(i)
                                /\ i \notin initialized /\ i \notin joined
                                /\ i \notin inReady /\ i \in fdReady

\* How far the caller at label has got with i.
Stage(label, i, t) ==
    /\ label \in {"initialize", "add_port", "emplace"} => i \notin transports_
    /\ label \in Closing => i \in transports_
    /\ label \in {"emplace", "rem_port"} => i \in ports
    /\ label \in {"initialize", "add_port", "deinitialize", "get_future", "wait", "erase"}
          => i \notin ports
    /\ label = "initialize" => Opened(i, t)
    /\ label \in {"add_port", "emplace", "rem_port"} => Steady(i)
    /\ label = "deinitialize" => LetGo(i, t)
    /\ label \in {"get_future", "wait", "erase"} => Released(i)

Working == Opening \cup Closing \cup {"tear_down", "undefined"}
Worked(i) == \E c \in Callers : obj[c] = i

Workers ==
    /\ \A c \in Callers : obj[c] # NoTransport => at[c] \in Working /\ obj[c] \in created
    /\ \A c \in Callers : at[c] \in Opening \cup Closing => Stage(at[c], obj[c], task)
    /\ at["main"] = "tear_down" => obj["main"] \in torn \cup {NoTransport}
    /\ torn \subseteq created
    /\ torn # {} => console = "failed"
    /\ at["main"] = "clear" => transports_ \subseteq torn
    /\ at["main"] = "uninitialize" => transports_ = {}
    /\ \A i \in Transports : ~Worked(i) /\ i \notin torn => Resting(i)

BInv == IInv /\ Workers
-----------------------------------------------------------------------------
(***************************************************************************)
(* Facts about callers and transports.                                     *)
(***************************************************************************)

\* While one caller works on transports, the other holds none.
LEMMA OneWorker ==
    ASSUME BInv, NEW c \in Callers, at[c] \in Working \cup {"clear", "uninitialize"},
           NEW d \in Callers, d # c
    PROVE  obj[d] = NoTransport /\ at[d] \notin Opening \cup Closing
<1> USE DEF BInv, IInv, Phases, Workers, Working, Callers, Opening, Closing, TypeOK
<1>1. CASE c = "main"
  <2>1. console \notin {"listening", "closed"}
    BY <1>1
  <2>2. at["io"] = "idle"
    BY <2>1
  <2> QED
    BY <1>1, <2>2
<1>2. CASE c = "io"
  <2>1. at["io"] # "idle"
    BY <1>2 DEF IoLabels
  <2>2. console \in {"listening", "closed"}
    BY <2>1
  <2>3. at["main"] \in {"poll", "console_stop", "request_stop", "join", "ended"}
    BY <2>2
  <2> QED
    BY <1>2, <2>3
<1> QED
  BY <1>1, <1>2 DEF Callers

LEMMA WorksOn ==
    ASSUME BInv, NEW c \in Callers, at[c] \in Opening \cup Closing
    PROVE  /\ obj[c] \in Transports /\ obj[c] # NoTransport
           /\ Stage(at[c], obj[c], task)
BY RuntimeAssumption DEF BInv, IInv, TypeOK, Calls, Workers, RuntimeAssumption

\* Nothing the books say about j changes.
SameFor(j) ==
    /\ j \in transports_' <=> j \in transports_
    /\ j \in ports' <=> j \in ports
    /\ j \in initialized' <=> j \in initialized
    /\ j \in sockets' <=> j \in sockets
    /\ j \in joined' <=> j \in joined
    /\ j \in inReady' <=> j \in inReady
    /\ j \in fdReady' <=> j \in fdReady
    /\ j \in removals' <=> j \in removals
    /\ target'[j] = target[j]
    /\ kind'[j] = kind[j]

LEMMA SameResting ==
    ASSUME NEW j, SameFor(j), Resting(j)
    PROVE  Resting(j)'
BY DEF SameFor, Resting, Steady, Released, Open, Closed, Free, Bound, Member

LEMMA SameStage ==
    ASSUME NEW j, SameFor(j), NEW label, NEW t, Stage(label, j, t)
    PROVE  /\ label \in {"initialize", "add_port", "emplace"} => j \notin transports_'
           /\ label \in Closing => j \in transports_'
           /\ label \in {"emplace", "rem_port"} => j \in ports'
           /\ label \in {"initialize", "add_port", "deinitialize", "get_future",
                         "wait", "erase"} => j \notin ports'
           /\ label = "initialize" => Opened(j, t)'
           /\ label \in {"add_port", "emplace", "rem_port"} => Steady(j)'
           /\ label = "deinitialize" => LetGo(j, t)'
           /\ label \in {"get_future", "wait", "erase"} => Released(j)'
BY DEF SameFor, Stage, Steady, Released, Open, Closed, Free, Bound, Member, Opened, LetGo

-----------------------------------------------------------------------------
(***************************************************************************)
(* Kinds of steps.                                                         *)
(***************************************************************************)

\* A caller takes the transport it works on one step further.
LEMMA WorkerStep ==
    ASSUME BInv, IInv', NEW c \in Callers, at[c] \in Opening \cup Closing,
           UNCHANGED <<obj, torn, created, console>>,
           \A d \in Callers : d # c => at'[d] = at[d],
           at'[c] \in Opening \cup Closing,
           Stage(at[c], obj[c], task)',
           \A j \in Transports : j # obj[c] => SameFor(j)
    PROVE  Workers'
<1>1. /\ obj[c] \in Transports /\ obj[c] # NoTransport /\ obj[c] \in created
      /\ obj'[c] = obj[c]
  BY WorksOn DEF BInv, IInv, Calls
<1>2. ASSUME NEW d \in Callers, d # c
      PROVE  obj[d] = NoTransport /\ at'[d] \notin Opening \cup Closing
  BY <1>2, OneWorker DEF Working
<1>3. \A d \in Callers : obj'[d] # NoTransport => at'[d] \in Working /\ obj'[d] \in created'
  BY <1>1, <1>2 DEF Working
<1>4. \A d \in Callers : at'[d] \in Opening \cup Closing => Stage(at[d], obj[d], task)'
  BY <1>2
<1>5. at'["main"] = "tear_down" => obj'["main"] \in torn' \cup {NoTransport}
  BY <1>2 DEF Opening, Closing, Callers
<1>6. torn' \subseteq created' /\ (torn' # {} => console' = "failed")
  BY DEF BInv, Workers
<1>7. at'["main"] \notin {"clear", "uninitialize"}
  <2>1. CASE c = "main"
    BY <2>1 DEF Opening, Closing
  <2>2. CASE c = "io"
    <3>1. at'["main"] = at["main"]
      BY <2>2 DEF Callers
    <3> QED
      BY <2>2, <3>1, OneWorker DEF Callers, BInv, IInv, Phases, TypeOK, Opening, Closing
  <2> QED
    BY <2>1, <2>2 DEF Callers
<1>8. ASSUME NEW j \in Transports, ~Worked(j)', j \notin torn'
      PROVE  Resting(j)'
  <2>1. ~Worked(j) /\ j # obj[c]
    BY <1>8 DEF Worked
  <2> QED
    BY <1>8, <2>1, SameResting DEF BInv, Workers
<1> QED
  BY <1>3, <1>4, <1>5, <1>6, <1>7, <1>8 DEF Workers

\* Nothing happens to a transport, and whoever moves holds none.
LEMMA QuietStep ==
    ASSUME BInv, IInv', UNCHANGED <<obj, torn, created, task>>,
           torn # {} => console' = "failed",
           \A c \in Callers : \/ at'[c] = at[c]
                              \/ /\ obj[c] = NoTransport
                                 /\ at'[c] \notin Opening \cup Closing \cup {"clear", "uninitialize"},
           \A j \in Transports : SameFor(j)
    PROVE  Workers'
<1>1. \A c \in Callers : obj'[c] # NoTransport => at'[c] \in Working /\ obj'[c] \in created'
  BY DEF BInv, Workers
<1>2. ASSUME NEW c \in Callers, at'[c] \in Opening \cup Closing
      PROVE  Stage(at[c], obj[c], task)'
  <2>1. at'[c] = at[c] /\ Stage(at[c], obj[c], task) /\ obj[c] \in Transports
    BY <1>2, WorksOn
  <2> QED
    BY <2>1, SameStage DEF Stage
<1>3. at'["main"] = "tear_down" => obj'["main"] \in torn' \cup {NoTransport}
  BY DEF BInv, Workers, Callers
<1>4. torn' \subseteq created'
  BY DEF BInv, Workers
<1>5. /\ at'["main"] = "clear" => transports_' \subseteq torn'
      /\ at'["main"] = "uninitialize" => transports_' = {}
  <2>1. transports_' \subseteq Transports /\ transports_ \subseteq Transports
    BY DEF BInv, IInv, TypeOK
  <2>2. transports_' = transports_
    BY <2>1 DEF SameFor
  <2> QED
    BY <2>2 DEF BInv, Workers, Callers
<1>6. ASSUME NEW j \in Transports, ~Worked(j)', j \notin torn'
      PROVE  Resting(j)'
  BY <1>6, SameResting DEF BInv, Workers, Worked
<1> QED
  BY <1>1, <1>2, <1>3, <1>4, <1>5, <1>6 DEF Workers
\* A caller is done with its transport and returns.
LEMMA LeaveStep ==
    ASSUME BInv, IInv', NEW c \in Callers, NEW i, i = obj[c], at[c] \in Opening \cup Closing,
           UNCHANGED <<torn, created, console>>, Return(c),
           Resting(i)',
           \A j \in Transports : j # i => SameFor(j)
    PROVE  Workers'
<1>1. /\ obj'[c] = NoTransport /\ at'[c] \in {"idle", "ini"}
      /\ \A d \in Callers : d # c => at'[d] = at[d] /\ obj'[d] = obj[d]
  BY DEF Return, Goto, BInv, IInv, TypeOK
<1>2. ASSUME NEW d \in Callers, d # c
      PROVE  obj[d] = NoTransport /\ at[d] \notin Opening \cup Closing
  BY <1>2, OneWorker DEF Working
<1>3. \A d \in Callers : obj'[d] = NoTransport /\ at'[d] \notin Opening \cup Closing
  BY <1>1, <1>2 DEF Opening, Closing
<1>4. torn' \subseteq created' /\ (torn' # {} => console' = "failed")
  BY DEF BInv, Workers
<1>5. at'["main"] \notin {"clear", "uninitialize"}
  <2>1. CASE c = "main"
    BY <1>1, <2>1
  <2>2. CASE c = "io"
    <3>1. at'["main"] = at["main"]
      BY <1>1, <2>2 DEF Callers
    <3> QED
      BY <2>2, <3>1, OneWorker DEF Callers, BInv, IInv, Phases, TypeOK, Opening, Closing
  <2> QED
    BY <2>1, <2>2 DEF Callers
<1>6. ASSUME NEW j \in Transports, ~Worked(j)', j \notin torn'
      PROVE  Resting(j)'
  <2>1. CASE j = i
    BY <2>1
  <2>2. CASE j # i
    <3>1. ~Worked(j)
      BY <1>2, <2>2, RuntimeAssumption DEF Worked, RuntimeAssumption
    <3> QED
      BY <1>6, <2>2, <3>1, SameResting DEF BInv, Workers
  <2> QED
    BY <2>1, <2>2
<1>7. at'["main"] = "tear_down" => obj'["main"] \in torn' \cup {NoTransport}
  BY <1>3 DEF Callers
<1> QED
  BY <1>3, <1>4, <1>5, <1>6, <1>7 DEF Workers

\* A caller that holds none creates a transport, or takes one at rest.
LEMMA EnterStep ==
    ASSUME BInv, IInv', NEW c \in Callers, NEW i \in Transports, NEW h, h = obj[c],
           \A d \in Callers : d # c => obj[d] = NoTransport /\ at[d] \notin Opening \cup Closing,
           obj' = [obj EXCEPT ![c] = i],
           created' = created \/ created' = created \cup {i},
           i \in created',
           UNCHANGED <<torn, console>>,
           \A d \in Callers : d # c => at'[d] = at[d],
           at'[c] \in Opening \cup Closing,
           c = "io" => at["main"] \notin {"clear", "uninitialize"},
           Stage(at[c], i, task)',
           \A j \in Transports : j # i /\ j \notin torn /\ j # h => SameFor(j),
           h # i /\ h \in Transports \ torn => Resting(h)'
    PROVE  Workers'
<1>1. obj'[c] = i /\ \A d \in Callers : d # c => obj'[d] = NoTransport
  BY DEF BInv, IInv, TypeOK
<1>2. \A d \in Callers : obj'[d] # NoTransport => at'[d] \in Working /\ obj'[d] \in created'
  BY <1>1 DEF Working
<1>3. \A d \in Callers : at'[d] \in Opening \cup Closing => Stage(at[d], obj[d], task)'
  BY <1>1
<1>4. torn' \subseteq created' /\ (torn' # {} => console' = "failed")
  BY DEF BInv, Workers
<1>5. at'["main"] \notin {"clear", "uninitialize"}
  <2>1. CASE c = "main"
    BY <2>1 DEF Opening, Closing
  <2>2. CASE c = "io"
    BY <2>2 DEF Callers
  <2> QED
    BY <2>1, <2>2 DEF Callers
<1>6. at'["main"] = "tear_down" => obj'["main"] \in torn' \cup {NoTransport}
  BY <1>1 DEF Opening, Closing, Callers
<1>7. ASSUME NEW j \in Transports, ~Worked(j)', j \notin torn'
      PROVE  Resting(j)'
  <2>1. j # i
    BY <1>1, <1>7 DEF Worked
  <2>2. CASE j = h
    BY <1>7, <2>1, <2>2
  <2>3. CASE j # h
    <3>1. ~Worked(j)
      BY <2>3, RuntimeAssumption DEF Worked, RuntimeAssumption
    <3> QED
      BY <1>7, <2>1, <2>3, <3>1, SameResting DEF BInv, Workers
  <2> QED
    BY <2>2, <2>3
<1> QED
  BY <1>2, <1>3, <1>4, <1>5, <1>6, <1>7 DEF Workers
-----------------------------------------------------------------------------
(***************************************************************************)
(* add_transport, one step at a time.                                      *)
(***************************************************************************)
LEMMA TaskIsFree ==
    ASSUME NEW c, OnIo(c)
    PROVE  task = "none"
BY DEF OnIo, IoLoops

LEMMA InitializeStep ==
    ASSUME BInv, IInv', NEW c \in Callers, Initialize(c)
    PROVE  Workers'
<1> DEFINE i == obj[c]
<1>1. /\ at[c] = "initialize" /\ at' = at /\ obj' = obj
      /\ task = "none" /\ task' = "add_reader"
  BY TaskIsFree DEF Initialize, callVars
<1>2. i \in Transports /\ Stage("initialize", i, "none")
  BY <1>1, WorksOn DEF Opening
<1>3. i \notin transports_ /\ i \notin ports /\ i \notin removals /\ Closed(i) /\ Free(i)
  BY <1>2 DEF Stage, Opened
<1>4. /\ transports_' = transports_ /\ ports' = ports /\ removals' = removals
      /\ initialized' = initialized /\ inReady' = inReady /\ fdReady' = fdReady
      /\ kind' = kind
      /\ torn' = torn /\ created' = created /\ console' = console
      /\ sockets' = sockets \cup {i}
      /\ joined' = IF kind[i] = "INTERNAL_MULTICAST" THEN joined \cup {i} ELSE joined
      /\ target' = CASE kind[i] = "INTERNAL_MULTICAST" -> [target EXCEPT ![i] = "group"]
                     [] kind[i] = "EXTERNAL_MULTICAST" -> [target EXCEPT ![i] = "send"]
                     [] OTHER -> target
      /\ kind[i] \in Types
  BY DEF Initialize, OpenUnicast, OpenInternalMulticast, OpenExternalMulticast,
         registry, watches, procVars, Types
<1>5. target \in [Transports -> {"none", "group", "send"}]
  BY DEF BInv, IInv, TypeOK
<1>6. \A j \in Transports : j # i => SameFor(j)
  BY <1>4, <1>5 DEF SameFor
<1>7. Bound(i)' /\ Member(i)'
  BY <1>1, <1>2, <1>3, <1>4, <1>5 DEF Bound, Member, Closed, Free, Multicast, Types
<1>8. Stage(at[c], obj[c], task)'
  BY <1>1, <1>3, <1>4, <1>7 DEF Stage, Opened, Closing, Closed
<1> QED
  BY <1>1, <1>4, <1>6, <1>8, WorkerStep DEF Opening

LEMMA InitializeFailsStep ==
    ASSUME BInv, IInv', NEW c \in Callers, InitializeFails(c)
    PROVE  Workers'
<1> DEFINE i == obj[c]
<1>1. /\ at[c] = "initialize" /\ at'[c] = "add_port" /\ obj' = obj
      /\ \A d \in Callers : d # c => at'[d] = at[d]
      /\ task = "none" /\ task' = "none"
  BY TaskIsFree DEF InitializeFails, Goto, taskVars, BInv, IInv, TypeOK
<1>2. i \in Transports /\ Stage("initialize", i, "none")
  BY <1>1, WorksOn DEF Opening
<1>3. i \notin transports_ /\ i \notin ports /\ i \notin removals /\ Closed(i) /\ Free(i)
  BY <1>2 DEF Stage, Opened
<1>4. /\ transports_' = transports_ /\ ports' = ports
      /\ torn' = torn /\ created' = created /\ console' = console
      /\ \A j \in Transports : SameFor(j)
  BY DEF InitializeFails, registry, handles, watches, procVars, SameFor
<1>5. Steady(i)'
  BY <1>1, <1>2, <1>3, <1>4 DEF SameFor, Steady, Closed, Free
<1>6. Stage(at[c], obj[c], task)'
  BY <1>1, <1>3, <1>4, <1>5 DEF Stage, Closing
<1> QED
  BY <1>1, <1>4, <1>6, WorkerStep DEF Opening

\* The two steps of initialize that the io thread does after the socket.
LEMMA OpeningTaskStep ==
    ASSUME BInv, IInv', AddReader \/ Watch
    PROVE  Workers'
<1> DEFINE c == taskBy
           i == obj[taskBy]
<1>1. c \in Callers /\ at[c] = "initialize" /\ obj' = obj /\ taskBy' = taskBy
  BY DEF AddReader, Watch, BInv, IInv, TypeOK, Calls, callVars
<1>2. i \in Transports /\ Stage("initialize", i, task)
  BY <1>1, WorksOn DEF Opening
<1>3. /\ transports_' = transports_ /\ ports' = ports /\ removals' = removals
      /\ sockets' = sockets /\ joined' = joined /\ target' = target /\ kind' = kind
      /\ torn' = torn /\ created' = created /\ console' = console
  BY DEF AddReader, Watch, registry, watches, procVars, handles
<1>4. i \notin transports_ /\ i \notin ports
  BY <1>2 DEF Stage
<1>5. CASE AddReader
  <2>1. /\ task = "add_reader" /\ task' = "watch" /\ at' = at
        /\ initialized' = initialized /\ fdReady' = fdReady
        /\ inReady' = inReady \cup {i}
    BY <1>5 DEF AddReader, callVars, handles
  <2>2. /\ i \notin removals /\ Bound(i) /\ Member(i)
        /\ i \notin initialized /\ i \notin fdReady
    BY <1>2, <2>1 DEF Stage, Opened
  <2>3. Opened(i, "watch")'
    BY <1>1, <1>3, <2>1, <2>2 DEF Opened, Bound, Member
  <2>4. Stage(at[c], obj[c], task)'
    BY <1>1, <1>3, <1>4, <2>1, <2>3 DEF Stage, Closing
  <2>5. \A j \in Transports : j # i => SameFor(j)
    BY <1>3, <2>1 DEF SameFor
  <2> QED
    BY <1>1, <1>3, <2>1, <2>4, <2>5, WorkerStep DEF Opening
<1>6. CASE Watch
  <2>1. /\ task = "watch" /\ task' = "none"
        /\ at'[c] = "add_port"
        /\ \A d \in Callers : d # c => at'[d] = at[d]
        /\ initialized' = initialized \cup {i} /\ fdReady' = fdReady \cup {i}
        /\ inReady' = inReady
    BY <1>1, <1>6 DEF Watch, Goto, BInv, IInv, TypeOK
  <2>2. i \notin removals /\ Bound(i) /\ Member(i) /\ i \in inReady
    BY <1>2, <2>1 DEF Stage, Opened
  <2>3. Steady(i)'
    BY <1>1, <1>3, <2>1, <2>2 DEF Steady, Open, Bound, Member
  <2>4. Stage(at[c], obj[c], task)'
    BY <1>1, <1>3, <1>4, <2>1, <2>3 DEF Stage, Closing
  <2>5. \A j \in Transports : j # i => SameFor(j)
    BY <1>3, <2>1 DEF SameFor
  <2> QED
    BY <1>1, <1>3, <2>1, <2>4, <2>5, WorkerStep DEF Opening
<1> QED
  BY <1>5, <1>6

LEMMA AddPortStep ==
    ASSUME BInv, IInv', NEW c \in Callers, AddPort(c)
    PROVE  Workers'
<1> DEFINE i == obj[c]
<1>1. /\ at[c] = "add_port" /\ at'[c] = "emplace" /\ obj' = obj
      /\ \A d \in Callers : d # c => at'[d] = at[d]
  BY DEF AddPort, Goto, BInv, IInv, TypeOK
<1>2. i \in Transports /\ Stage("add_port", i, task)
  BY <1>1, WorksOn DEF Opening
<1>3. i \notin transports_ /\ Steady(i)
  BY <1>2 DEF Stage
<1>4. /\ transports_' = transports_ /\ ports' = ports \cup {i}
      /\ torn' = torn /\ created' = created /\ console' = console
      /\ UNCHANGED <<handles, watches, kind>>
  BY DEF AddPort, registry, procVars
<1>5. Steady(i)'
  BY <1>1, <1>3, <1>4 DEF Steady, Open, Closed, Free, Bound, Member, handles, watches
<1>6. Stage(at[c], obj[c], task)'
  BY <1>1, <1>3, <1>4, <1>5 DEF Stage, Closing
<1>7. \A j \in Transports : j # i => SameFor(j)
  BY <1>4 DEF SameFor, handles, watches
<1> QED
  BY <1>1, <1>4, <1>6, <1>7, WorkerStep DEF Opening

LEMMA EmplaceStep ==
    ASSUME BInv, IInv', NEW c \in Callers, Emplace(c)
    PROVE  Workers'
<1> SUFFICES ASSUME NEW i, i = obj[c] PROVE Workers'
  OBVIOUS
<1>1. at[c] = "emplace" /\ Return(c)
  BY DEF Emplace
<1>2. i \in Transports /\ Stage("emplace", i, task)
  BY <1>1, WorksOn DEF Opening
<1>3. i \in ports /\ Steady(i)
  BY <1>2 DEF Stage
<1>4. /\ transports_' = transports_ \cup {i} /\ ports' = ports
      /\ torn' = torn /\ created' = created /\ console' = console
      /\ UNCHANGED <<handles, watches, kind>>
  BY DEF Emplace, procVars
<1>5. Steady(i)'
  BY <1>3, <1>4 DEF Steady, Open, Closed, Free, Bound, Member, handles, watches
<1>6. Resting(i)'
  BY <1>3, <1>4, <1>5 DEF Resting
<1>7. \A j \in Transports : j # i => SameFor(j)
  BY <1>4 DEF SameFor, handles, watches
<1> QED
  BY <1>1, <1>4, <1>6, <1>7, LeaveStep DEF Opening
-----------------------------------------------------------------------------
(***************************************************************************)
(* delete_transport and the loop of request_stop, one step at a time.      *)
(***************************************************************************)
LEMMA RemPortStep ==
    ASSUME BInv, IInv', NEW c \in Callers, RemPort(c)
    PROVE  Workers'
<1> DEFINE i == obj[c]
<1>1. /\ at[c] = "rem_port" /\ at'[c] = "deinitialize" /\ obj' = obj /\ task' = task
      /\ \A d \in Callers : d # c => at'[d] = at[d]
  BY DEF RemPort, Goto, taskVars, BInv, IInv, TypeOK
<1>2. i \in Transports /\ Stage("rem_port", i, task)
  BY <1>1, WorksOn DEF Closing
<1>3. i \in transports_ /\ Steady(i)
  BY <1>2 DEF Stage, Closing
<1>4. task = "none"
  <2>1. task # "none" => /\ at[taskBy] \in {"initialize", "deinitialize"}
                         /\ taskBy \in Callers
    BY DEF BInv, IInv, TypeOK, Calls
  <2>2. \A d \in Callers : at[d] \notin {"initialize", "deinitialize"}
    BY <1>1, OneWorker DEF Working, Opening, Closing
  <2> QED
    BY <2>1, <2>2
<1>5. /\ transports_' = transports_ /\ ports' = ports \ {i}
      /\ torn' = torn /\ created' = created /\ console' = console
      /\ UNCHANGED <<handles, watches, kind>>
  BY DEF RemPort, registry, procVars
<1>6. Steady(i)'
  BY <1>1, <1>3, <1>5 DEF Steady, Open, Closed, Free, Bound, Member, handles, watches
<1>7. Stage(at[c], obj[c], task)'
  BY <1>1, <1>3, <1>4, <1>5, <1>6 DEF Stage, LetGo, Closing
<1>8. \A j \in Transports : j # i => SameFor(j)
  BY <1>5 DEF SameFor, handles, watches
<1> QED
  BY <1>1, <1>5, <1>7, <1>8, WorkerStep DEF Closing

LEMMA DeinitializeStep ==
    ASSUME BInv, IInv', NEW c \in Callers, Deinitialize(c)
    PROVE  Workers'
<1> DEFINE i == obj[c]
<1>1. /\ at[c] = "deinitialize" /\ at' = at /\ obj' = obj
      /\ task = "none" /\ task' = "remove_reader" /\ i \in initialized
  BY TaskIsFree DEF Deinitialize, callVars
<1>2. i \in Transports /\ Stage("deinitialize", i, "none")
  BY <1>1, WorksOn DEF Closing
<1>3. i \in transports_ /\ i \notin ports /\ Steady(i) /\ Open(i)
  BY <1>1, <1>2 DEF Stage, Closing, LetGo, Steady, Closed
<1>4. /\ transports_' = transports_ /\ ports' = ports /\ removals' = removals
      /\ sockets' = sockets /\ target' = target /\ kind' = kind
      /\ inReady' = inReady /\ fdReady' = fdReady
      /\ initialized' = initialized \ {i} /\ joined' = joined \ {i}
      /\ torn' = torn /\ created' = created /\ console' = console
  BY DEF Deinitialize, registry, watches, procVars
<1>5. LetGo(i, "remove_reader")'
  BY <1>1, <1>3, <1>4 DEF LetGo, Steady, Open, Bound
<1>6. Stage(at[c], obj[c], task)'
  BY <1>1, <1>3, <1>4, <1>5 DEF Stage, Closing
<1>7. \A j \in Transports : j # i => SameFor(j)
  BY <1>4 DEF SameFor
<1> QED
  BY <1>1, <1>4, <1>6, <1>7, WorkerStep DEF Closing

LEMMA DeinitializeIdleStep ==
    ASSUME BInv, IInv', NEW c \in Callers, DeinitializeIdle(c)
    PROVE  Workers'
<1> DEFINE i == obj[c]
<1>1. /\ at[c] = "deinitialize" /\ at'[c] = "get_future" /\ obj' = obj
      /\ \A d \in Callers : d # c => at'[d] = at[d]
      /\ task = "none" /\ i \notin initialized
  BY TaskIsFree DEF DeinitializeIdle, Goto, BInv, IInv, TypeOK
<1>2. i \in Transports /\ Stage("deinitialize", i, "none")
  BY <1>1, WorksOn DEF Closing
<1>3. /\ i \in transports_ /\ i \notin ports
      /\ i \notin removals /\ Closed(i) /\ Free(i)
  BY <1>1, <1>2 DEF Stage, Closing, LetGo, Steady, Open
<1>4. /\ transports_' = transports_ /\ ports' = ports
      /\ torn' = torn /\ created' = created /\ console' = console
      /\ UNCHANGED <<handles, watches, kind>>
  BY DEF DeinitializeIdle, registry, procVars
<1>5. Released(i)'
  BY <1>1, <1>3, <1>4 DEF Released, Closed, Free, handles, watches
<1>6. Stage(at[c], obj[c], task)'
  BY <1>1, <1>3, <1>4, <1>5 DEF Stage, Closing
<1>7. \A j \in Transports : j # i => SameFor(j)
  BY <1>4 DEF SameFor, handles, watches
<1> QED
  BY <1>1, <1>4, <1>6, <1>7, WorkerStep DEF Closing

LEMMA RemoveReaderStep ==
    ASSUME BInv, IInv', RemoveReader
    PROVE  Workers'
<1> DEFINE c == taskBy
           i == obj[taskBy]
<1>1. /\ c \in Callers /\ at[c] = "deinitialize" /\ obj' = obj /\ taskBy' = taskBy
      /\ at' = at /\ task = "remove_reader" /\ task' = "unwatch"
  BY DEF RemoveReader, BInv, IInv, TypeOK, Calls, callVars
<1>2. i \in Transports /\ Stage("deinitialize", i, task)
  BY <1>1, WorksOn DEF Closing
<1>3. i \in transports_ /\ i \notin ports /\ LetGo(i, "remove_reader")
  BY <1>1, <1>2 DEF Stage, Closing
<1>4. /\ transports_' = transports_ /\ ports' = ports /\ removals' = removals
      /\ UNCHANGED <<handles, kind, fdReady>> /\ inReady' = inReady \ {i}
      /\ torn' = torn /\ created' = created /\ console' = console
  BY DEF RemoveReader, registry, procVars
<1>5. LetGo(i, "unwatch")'
  BY <1>1, <1>3, <1>4 DEF LetGo, Bound, handles
<1>6. Stage(at[c], obj[c], task)'
  BY <1>1, <1>3, <1>4, <1>5 DEF Stage, Closing
<1>7. \A j \in Transports : j # i => SameFor(j)
  BY <1>4 DEF SameFor, handles
<1> QED
  BY <1>1, <1>4, <1>6, <1>7, WorkerStep DEF Closing

\* What the callback of rem_read_rdy does to a transport.
LEMMA ReleaseFrees ==
    ASSUME TypeOK, NEW i \in Transports, Release(i),
           target[i] # "none" => kind[i] \in Multicast
    PROVE  /\ sockets' = sockets \ {i} /\ target'[i] = "none"
           /\ \A j \in Transports : j # i => target'[j] = target[j]
BY DEF TypeOK, Release, ReleaseUnicast, ReleaseInternalMulticast,
       ReleaseExternalMulticast, Multicast

LEMMA UnwatchStep ==
    ASSUME BInv, IInv', Unwatch
    PROVE  Workers'
<1> SUFFICES ASSUME NEW c \in Callers, c = taskBy, NEW i, i = obj[taskBy]
             PROVE  Workers'
  BY DEF BInv, IInv, TypeOK
<1>1. /\ at[c] = "deinitialize" /\ obj' = obj /\ at'[c] = "get_future"
      /\ \A d \in Callers : d # c => at'[d] = at[d]
      /\ task = "unwatch"
  BY DEF Unwatch, Goto, BInv, IInv, TypeOK, Calls
<1>2. i \in Transports /\ Stage("deinitialize", i, task)
  BY <1>1, WorksOn DEF Closing
<1>3. /\ i \in transports_ /\ i \notin ports /\ i \notin removals /\ Bound(i)
      /\ i \notin initialized /\ i \notin joined /\ i \notin inReady
  BY <1>1, <1>2 DEF Stage, Closing, LetGo
<1>4. /\ transports_' = transports_ /\ ports' = ports /\ kind' = kind
      /\ initialized' = initialized /\ joined' = joined /\ inReady' = inReady
      /\ fdReady' = fdReady \ {i}
      /\ torn' = torn /\ created' = created /\ console' = console
  BY DEF Unwatch, registry, procVars
<1>5. Closed(i)'
  BY <1>3, <1>4 DEF Closed
<1>6. Released(i)' /\ \A j \in Transports : j # i => SameFor(j)
  <2>1. CASE Release(i) /\ UNCHANGED removals
    <3>1. /\ sockets' = sockets \ {i} /\ target'[i] = "none"
          /\ \A j \in Transports : j # i => target'[j] = target[j]
      BY <1>2, <1>3, <2>1, ReleaseFrees DEF Bound, BInv, IInv
    <3> QED
      BY <1>3, <1>4, <1>5, <2>1, <3>1 DEF Released, Free, SameFor
  <2>2. CASE removals' = removals \cup {i} /\ UNCHANGED <<sockets, target>>
    <3>1. i \in removals' /\ (target'[i] # "none" => kind'[i] \in Multicast)
      BY <1>3, <1>4, <2>2 DEF Bound
    <3>2. Released(i)'
      BY <1>5, <3>1 DEF Released
    <3> QED
      BY <1>4, <2>2, <3>2 DEF SameFor
  <2> QED
    BY <2>1, <2>2 DEF Unwatch
<1>7. Stage(at[c], obj[c], task)'
  BY <1>1, <1>3, <1>4, <1>6 DEF Stage, Closing
<1> QED
  BY <1>1, <1>4, <1>6, <1>7, WorkerStep DEF Closing
\* The callback comes from the loop of the io reactor, whatever the caller
\* that closed the transport has done since.
LEMMA RemovedStep ==
    ASSUME BInv, IInv', NEW i \in Transports, Removed(i)
    PROVE  Workers'
<1>1. /\ i \in removals /\ removals' = removals \ {i}
      /\ UNCHANGED <<at, obj, op, task, torn, created, console, transports_, ports,
                     initialized, joined, inReady, fdReady, kind>>
  BY DEF Removed, callVars, taskVars, procVars, registry
<1>2. Released(i) => Released(i)' /\ \A j \in Transports : j # i => SameFor(j)
  <2> SUFFICES ASSUME Released(i)
               PROVE  Released(i)' /\ \A j \in Transports : j # i => SameFor(j)
    OBVIOUS
  <2>1. /\ sockets' = sockets \ {i} /\ target'[i] = "none"
        /\ \A j \in Transports : j # i => target'[j] = target[j]
    BY <1>1, ReleaseFrees DEF Released, Removed, BInv, IInv
  <2>2. Closed(i)
    BY DEF Released
  <2> QED
    BY <1>1, <2>1, <2>2 DEF Released, Closed, Free, SameFor
<1>3. \A j \in Transports : j # i => SameFor(j)
  <2>1. Release(i)
    BY DEF Removed
  <2>2. \A j \in Transports : j # i => target'[j] = target[j] /\ (j \in sockets' <=> j \in sockets)
    BY <2>1 DEF BInv, IInv, TypeOK, Release, ReleaseUnicast, ReleaseInternalMulticast,
       ReleaseExternalMulticast
  <2> QED
    BY <1>1, <2>2 DEF SameFor
<1>4. ASSUME NEW c \in Callers, at'[c] \in Opening \cup Closing
      PROVE  Stage(at[c], obj[c], task)'
  <2>1. at'[c] = at[c] /\ obj'[c] = obj[c] /\ task' = task
        /\ Stage(at[c], obj[c], task) /\ obj[c] \in Transports
    BY <1>1, <1>4, WorksOn
  <2>2. CASE obj[c] # i
    <3>1. SameFor(obj[c])
      BY <1>3, <2>1, <2>2
    <3> QED
      BY <2>1, <3>1, SameStage DEF Stage
  <2>3. CASE obj[c] = i
    <3>1. at[c] \in {"get_future", "wait", "erase"}
      BY <1>1, <1>4, <2>1, <2>3 DEF Stage, Opened, LetGo, Steady, Opening, Closing
    <3>2. Released(i)'
      BY <1>2, <2>1, <2>3, <3>1 DEF Stage
    <3> QED
      BY <1>1, <2>1, <2>3, <3>1, <3>2 DEF Stage
  <2> QED
    BY <2>2, <2>3
<1>5. ASSUME NEW j \in Transports, ~Worked(j)', j \notin torn'
      PROVE  Resting(j)'
  <2>1. Resting(j)
    BY <1>1, <1>5 DEF BInv, Workers, Worked
  <2>2. CASE j # i
    BY <1>3, <2>1, <2>2, SameResting
  <2>3. CASE j = i
    <3>1. i \notin transports_ /\ i \notin ports /\ Released(i)
      BY <1>1, <2>1, <2>3 DEF Resting, Steady
    <3> QED
      BY <1>1, <1>2, <2>3, <3>1 DEF Resting
  <2> QED
    BY <2>2, <2>3
<1> QED
  BY <1>1, <1>4, <1>5 DEF BInv, Workers

\* The caller has what it waited for: it erases the entry, or request_stop
\* goes on with the next transport, or the future was no longer to be had.
LEMMA ClosedStep ==
    ASSUME BInv, IInv', NEW c \in Callers, GetFuture(c) \/ FutureReady(c)
    PROVE  Workers'
<1> SUFFICES ASSUME NEW i, i = obj[c] PROVE Workers'
  OBVIOUS
<1>1. /\ at[c] \in {"get_future", "wait"} /\ obj' = obj
      /\ at'[c] \in {"wait", "erase", "tear_down", "undefined"}
      /\ \A d \in Callers : d # c => at'[d] = at[d]
      /\ at'[c] = "tear_down" => op[c] = "stop"
  BY DEF GetFuture, FutureReady, Goto, AfterClosing, BInv, IInv, TypeOK
<1>2. i \in Transports /\ i # NoTransport /\ i \in created /\ Stage(at[c], i, task)
  BY <1>1, WorksOn DEF Closing, BInv, IInv, Calls
<1>3. i \in transports_ /\ i \notin ports /\ Released(i)
  BY <1>1, <1>2 DEF Stage, Closing
<1>4. /\ created' = created /\ console' = console /\ transports_' = transports_
      /\ \A j \in Transports : SameFor(j)
  BY DEF GetFuture, FutureReady, procVars, handles, watches, SameFor
<1>5. Released(i)'
  BY <1>2, <1>3, <1>4 DEF SameFor, Released, Closed, Free
<1>6. ASSUME NEW d \in Callers, d # c
      PROVE  obj[d] = NoTransport /\ at[d] \notin Opening \cup Closing
  BY <1>1, <1>6, OneWorker DEF Working, Closing
<1>7. CASE at'[c] \in {"wait", "erase"}
  <2>1. torn' = torn
    BY <1>1, <1>7 DEF GetFuture, FutureReady, AfterClosing, Goto, BInv, IInv, TypeOK
  <2>2. Stage(at[c], obj[c], task)'
    BY <1>1, <1>2, <1>3, <1>4, <1>5, <1>7 DEF Stage, Closing, SameFor
  <2> QED
    BY <1>1, <1>4, <1>7, <2>1, <2>2, WorkerStep DEF Closing
<1>8. CASE at'[c] \in {"tear_down", "undefined"}
  <2>1. torn' = torn \cup {i} \/ (torn' = torn /\ at'[c] = "undefined")
    BY <1>1, <1>8 DEF GetFuture, FutureReady, AfterClosing, Goto, BInv, IInv, TypeOK
  <2>2. at'[c] = "tear_down" => c = "main"
    BY <1>1 DEF BInv, IInv, Calls, Callers
  <2>3. torn' # torn => c = "main"
    <3>1. CASE c = "io"
      <4>1. op[c] # "stop"
        BY <3>1 DEF BInv, IInv, Calls
      <4>2. at'[c] # "tear_down"
        BY <1>1, <4>1
      <4>3. torn' = torn
        BY <4>1, <4>2 DEF GetFuture, FutureReady
      <4> QED
        BY <4>3
    <3> QED
      BY <3>1 DEF Callers
  <2>4. c = "main" => console = "failed"
    BY <1>1 DEF BInv, IInv, TypeOK, Phases, Opening
  <2>5. torn' \subseteq created' /\ (torn' # {} => console' = "failed")
    BY <1>2, <1>4, <2>1, <2>3, <2>4 DEF BInv, Workers
  <2>6. \A d \in Callers : /\ at'[d] \notin Opening \cup Closing
                           /\ obj'[d] # NoTransport => at'[d] \in Working /\ obj'[d] \in created'
    BY <1>1, <1>2, <1>4, <1>6, <1>8 DEF Opening, Closing, Working
  <2>7. at'["main"] = "tear_down" => obj'["main"] \in torn' \cup {NoTransport}
    <3>1. CASE c = "main"
      BY <1>1, <2>1, <3>1
    <3>2. CASE c = "io"
      BY <1>1, <1>6, <3>2 DEF Callers
    <3> QED
      BY <3>1, <3>2 DEF Callers
  <2>8. at'["main"] \notin {"clear", "uninitialize"}
    <3>1. CASE c = "main"
      BY <1>8, <3>1
    <3>2. CASE c = "io"
      <4>1. at'["main"] = at["main"]
        BY <1>1, <3>2 DEF Callers
      <4>2. console \in {"listening", "closed"}
        BY <1>1, <3>2 DEF BInv, IInv, TypeOK, Phases
      <4> QED
        BY <4>1, <4>2 DEF BInv, IInv, Phases
    <3> QED
      BY <3>1, <3>2 DEF Callers
  <2>9. ASSUME NEW j \in Transports, ~Worked(j)', j \notin torn'
        PROVE  Resting(j)'
    <3>1. ~Worked(j) /\ j \notin torn
      BY <1>1, <2>1, <2>9 DEF Worked
    <3> QED
      BY <1>4, <3>1, SameResting DEF BInv, Workers
  <2> QED
    BY <2>5, <2>6, <2>7, <2>8, <2>9 DEF Workers
<1> QED
  BY <1>1, <1>7, <1>8
\* A transport that was never created has nothing anywhere.
LEMMA NewIsClosed ==
    ASSUME BInv, NEW i \in Transports \ created
    PROVE  /\ i \notin transports_ /\ i \notin ports /\ i \notin removals
           /\ Closed(i) /\ Free(i)
<1>1. i \notin transports_ /\ i \notin removals
  BY DEF BInv, IInv, Calls, Readers
<1>2. i \notin torn /\ ~Worked(i)
  <2>1. \A c \in Callers : obj[c] # i
    BY RuntimeAssumption DEF BInv, Workers, RuntimeAssumption
  <2> QED
    BY <2>1 DEF BInv, Workers, Worked
<1>3. Resting(i)
  BY <1>2 DEF BInv, Workers
<1> QED
  BY <1>1, <1>3 DEF Resting, Released

LEMMA EraseStep ==
    ASSUME BInv, IInv', NEW c \in Callers, Erase(c)
    PROVE  Workers'
<1> SUFFICES ASSUME NEW i, i = obj[c] PROVE Workers'
  OBVIOUS
<1>1. /\ at[c] = "erase" /\ transports_' = transports_ \ {i}
      /\ UNCHANGED <<taskVars, cvVars, procVars, torn, ports, handles, watches>>
  BY DEF Erase, Destroy
<1>2. i \in Transports /\ i # NoTransport /\ i \in created /\ Stage("erase", i, task)
  BY <1>1, WorksOn DEF Closing, BInv, IInv, Calls
<1>3. i \notin ports /\ Released(i)
  BY <1>2 DEF Stage
<1>4. ASSUME NEW d \in Callers, d # c
      PROVE  obj[d] = NoTransport /\ at[d] \notin Opening \cup Closing
  BY <1>1, <1>4, OneWorker DEF Working, Closing
<1>5. task = "none"
  <2>1. task # "none" => /\ at[taskBy] \in {"initialize", "deinitialize"}
                         /\ taskBy \in Callers
    BY DEF BInv, IInv, TypeOK, Calls
  <2>2. \A d \in Callers : at[d] \notin {"initialize", "deinitialize"}
    BY <1>1, <1>4 DEF Opening, Closing
  <2> QED
    BY <2>1, <2>2
<1>6. CASE Return(c) /\ UNCHANGED <<created, kind, name>>
  <2>1. Resting(i)' /\ \A j \in Transports : j # i => SameFor(j)
    BY <1>1, <1>3, <1>6 DEF Resting, Released, Closed, Free, handles, watches, SameFor
  <2> QED
    BY <1>1, <1>6, <2>1, LeaveStep DEF Closing, procVars
<1>7. CASE /\ Create(c, name[i], kind[i]) /\ Goto(c, "initialize")
  <2>1. PICK k \in Transports \ created :
           /\ created' = created \cup {k}
           /\ kind' = [kind EXCEPT ![k] = kind[i]]
           /\ obj' = [obj EXCEPT ![c] = k]
    BY <1>7, CreateIsNew DEF BInv, IInv
  <2>2. k # i /\ k \notin transports_ /\ k \notin ports /\ k \notin removals
        /\ Closed(k) /\ Free(k)
    BY <1>2, NewIsClosed
  <2>3. /\ at'[c] = "initialize" /\ \A d \in Callers : d # c => at'[d] = at[d]
    BY <1>7 DEF Goto, BInv, IInv, TypeOK
  <2>4. Stage(at[c], k, task)'
    BY <1>1, <1>5, <2>2, <2>3
       DEF Stage, Opened, Closing, Closed, Free, handles, watches, taskVars
  <2>5. \A j \in Transports : j # k => kind'[j] = kind[j]
    BY <2>1 DEF BInv, IInv, TypeOK
  <2>6. \A j \in Transports : j # k /\ j # i => SameFor(j)
    BY <1>1, <2>5 DEF handles, watches, SameFor
  <2>7. Resting(i)'
    BY <1>1, <1>2, <1>3, <2>2, <2>5 DEF Resting, Released, Closed, Free, handles, watches
  <2>8. c = "io" => at["main"] \notin {"clear", "uninitialize"}
    BY <1>1, OneWorker DEF Callers, BInv, IInv, Phases, TypeOK
  <2> QED
    BY <1>1, <1>4, <2>1, <2>3, <2>4, <2>6, <2>7, <2>8, EnterStep DEF Opening, procVars
<1> QED
  BY <1>6, <1>7 DEF Erase

\* Nobody holds a transport while main reads the ini file or the io thread
\* reads a command.
LEMMA NobodyWorks ==
    ASSUME BInv, at["main"] = "ini" \/ (at["io"] = "idle" /\ console = "listening")
    PROVE  /\ task = "none" /\ torn = {}
           /\ at["main"] \notin {"clear", "uninitialize"}
           /\ \A c \in Callers : obj[c] = NoTransport /\ at[c] \notin Opening \cup Closing
<1>1. /\ at["main"] \in {"ini", "poll", "console_stop"} /\ at["io"] = "idle"
      /\ console # "failed"
  BY DEF BInv, IInv, TypeOK, Phases
<1>2. \A c \in Callers : at[c] \notin Working
  BY <1>1 DEF Callers, Working, Opening, Closing
<1>3. \A c \in Callers : obj[c] = NoTransport /\ at[c] \notin Opening \cup Closing
  BY <1>2 DEF BInv, Workers, Working
<1>4. task = "none"
  BY <1>3 DEF BInv, IInv, TypeOK, Calls, Opening, Closing
<1> QED
  BY <1>1, <1>3, <1>4 DEF BInv, Workers

LEMMA StartAddStep ==
    ASSUME BInv, IInv', NEW c \in Callers, NEW n, NEW type, StartAdd(c, n, type),
           at["main"] = "ini" \/ (at["io"] = "idle" /\ console = "listening"),
           UNCHANGED <<taskVars, procVars, transports_, torn, ports, handles, watches>>
    PROVE  Workers'
<1>1. /\ task = "none" /\ torn = {}
      /\ at["main"] \notin {"clear", "uninitialize"}
      /\ \A d \in Callers : obj[d] = NoTransport /\ at[d] \notin Opening \cup Closing
  BY NobodyWorks
<1>2. PICK k \in Transports \ created :
         /\ created' = created \cup {k}
         /\ kind' = [kind EXCEPT ![k] = type]
         /\ obj' = [obj EXCEPT ![c] = k]
  BY CreateIsNew DEF BInv, IInv, StartAdd
<1>3. k \notin transports_ /\ k \notin ports /\ k \notin removals /\ Closed(k) /\ Free(k)
  BY NewIsClosed
<1>4. /\ at'[c] = "initialize" /\ \A d \in Callers : d # c => at'[d] = at[d]
  BY DEF StartAdd, Goto, BInv, IInv, TypeOK
<1>5. Stage(at[c], k, task)'
  BY <1>1, <1>3, <1>4
     DEF Stage, Opened, Closing, Closed, Free, handles, watches, taskVars
<1>6. \A j \in Transports : j # k => kind'[j] = kind[j]
  BY <1>2 DEF BInv, IInv, TypeOK
<1>7. \A j \in Transports : j # k => SameFor(j)
  BY <1>6 DEF handles, watches, SameFor
<1> QED
  BY <1>1, <1>2, <1>4, <1>5, <1>7, RuntimeAssumption, EnterStep
     DEF Opening, procVars, RuntimeAssumption

LEMMA CommandRemoveStep ==
    ASSUME BInv, IInv', NEW what, NEW i \in Transports, CommandRemove(what, i)
    PROVE  Workers'
<1>1. /\ at["io"] = "idle" /\ console = "listening" /\ i \in transports_
      /\ obj' = [obj EXCEPT !["io"] = i]
      /\ UNCHANGED <<taskVars, procVars, registry, ports, handles, watches>>
  BY DEF CommandRemove, Command, IoLoops
<1>2. /\ task = "none" /\ torn = {}
      /\ at["main"] \notin {"clear", "uninitialize"}
      /\ \A d \in Callers : obj[d] = NoTransport /\ at[d] \notin Opening \cup Closing
  BY <1>1, NobodyWorks
<1>3. /\ at'["io"] = "rem_port" /\ \A d \in Callers : d # "io" => at'[d] = at[d]
  BY DEF CommandRemove, Goto, BInv, IInv, TypeOK, Callers
<1>4. ~Worked(i) /\ i \notin torn /\ i \in created
  BY <1>1, <1>2, RuntimeAssumption DEF Worked, RuntimeAssumption, BInv, IInv, Calls
<1>5. Resting(i)
  BY <1>4 DEF BInv, Workers
<1>6. \A j \in Transports : SameFor(j)
  BY <1>1 DEF registry, handles, watches, SameFor
<1>7. i \in transports_' /\ i \in ports' /\ Steady(i)'
  BY <1>1, <1>5, <1>6 DEF Resting, Steady, SameFor, Open, Closed, Free, Bound, Member
<1>8. Stage(at["io"], i, task)'
  BY <1>3, <1>7 DEF Stage
<1> QED
  BY <1>1, <1>2, <1>3, <1>4, <1>6, <1>8, RuntimeAssumption, EnterStep
     DEF Closing, procVars, registry, RuntimeAssumption, Callers

LEMMA TearDownNextStep ==
    ASSUME BInv, IInv', TearDownNext
    PROVE  Workers'
<1>1. /\ at["main"] = "tear_down"
      /\ UNCHANGED <<taskVars, procVars, registry, ports, handles, watches>>
      /\ \A d \in Callers : d # "main" => at'[d] = at[d]
  BY DEF TearDownNext, Goto, BInv, IInv, TypeOK, Callers
<1>2. obj["main"] \in torn \cup {NoTransport}
  BY <1>1 DEF BInv, Workers
<1>3. \A d \in Callers : d # "main" =>
         obj[d] = NoTransport /\ at[d] \notin Opening \cup Closing
  BY <1>1, OneWorker DEF Working, Callers
<1>4. \A j \in Transports : SameFor(j)
  BY <1>1 DEF registry, handles, watches, SameFor
<1>5. ASSUME NEW i \in transports_ \ torn, obj' = [obj EXCEPT !["main"] = i],
             Goto("main", "rem_port")
      PROVE  Workers'
  <2>1. i \in Transports /\ i \in created
    BY DEF BInv, IInv, TypeOK, Calls
  <2>2. ~Worked(i)
    BY <1>2, <1>3, <2>1, RuntimeAssumption DEF Worked, RuntimeAssumption, Callers
  <2>3. Resting(i)
    BY <2>1, <2>2 DEF BInv, Workers
  <2>4. i \in transports_' /\ i \in ports' /\ Steady(i)'
    BY <1>4, <2>1, <2>3 DEF Resting, Steady, SameFor, Open, Closed, Free, Bound, Member
  <2>5. at'["main"] = "rem_port"
    BY <1>5 DEF Goto, BInv, IInv, TypeOK, Callers
  <2>6. Stage(at["main"], i, task)'
    BY <2>4, <2>5 DEF Stage
  <2> QED
    BY <1>1, <1>2, <1>3, <1>4, <1>5, <2>1, <2>5, <2>6, RuntimeAssumption, EnterStep
       DEF Closing, procVars, registry, RuntimeAssumption, Callers
<1>6. ASSUME transports_ \subseteq torn, obj' = [obj EXCEPT !["main"] = NoTransport],
             Goto("main", "clear")
      PROVE  Workers'
  <2>1. /\ at'["main"] = "clear" /\ obj'["main"] = NoTransport
        /\ \A d \in Callers : d # "main" => obj'[d] = NoTransport
    BY <1>3, <1>6 DEF Goto, BInv, IInv, TypeOK, Callers
  <2>2. \A d \in Callers : at'[d] \notin Opening \cup Closing
    BY <1>1, <1>3, <2>1 DEF Opening, Closing
  <2>3. ASSUME NEW j \in Transports, j \notin torn'
        PROVE  Resting(j)'
    <3>1. ~Worked(j) /\ j \notin torn
      BY <1>1, <1>2, <1>3, <2>3, RuntimeAssumption
         DEF Worked, RuntimeAssumption, Callers, registry
    <3> QED
      BY <1>4, <3>1, SameResting DEF BInv, Workers
  <2>4. transports_' \subseteq torn' /\ torn' \subseteq created'
        /\ (torn' # {} => console' = "failed")
    BY <1>1, <1>6 DEF registry, procVars, BInv, Workers
  <2> QED
    BY <2>1, <2>2, <2>3, <2>4 DEF Workers, Callers
<1> QED
  BY <1>5, <1>6 DEF TearDownNext
-----------------------------------------------------------------------------
(***************************************************************************)
(* The rest of main, the commands and the traffic.                         *)
(***************************************************************************)

\* What is destroyed is torn down, and the last port goes when no transport
\* is left.
LEMMA ClearStep ==
    ASSUME BInv, IInv', Clear
    PROVE  Workers'
<1>1. /\ at["main"] = "clear" /\ transports_ \subseteq torn
      /\ at'["main"] \in {"clear", "uninitialize"}
      /\ at'["main"] = "uninitialize" => transports_' = {}
      /\ \A d \in Callers : d # "main" => at'[d] = at[d]
      /\ UNCHANGED <<op, obj, taskVars, procVars, created, torn, kind, ports,
                     handles, watches>>
      /\ \/ \E i \in transports_ : transports_' = transports_ \ {i}
         \/ transports_' = transports_
  BY DEF Clear, Goto, Destroy, BInv, IInv, TypeOK, Callers, Workers
<1>2. \A d \in Callers : d # "main" => obj[d] = NoTransport /\ at[d] \notin Opening \cup Closing
  BY <1>1, OneWorker DEF Callers
<1>3. obj["main"] = NoTransport
  BY <1>1 DEF BInv, Workers, Callers, Working, Opening, Closing
<1>4. \A d \in Callers : obj'[d] = NoTransport /\ at'[d] \notin Opening \cup Closing
  BY <1>1, <1>2, <1>3 DEF Callers, Opening, Closing
<1>5. ASSUME NEW j \in Transports, j \notin torn'
      PROVE  Resting(j)'
  <2>1. ~Worked(j) /\ j \notin torn /\ SameFor(j)
    BY <1>1, <1>2, <1>3, <1>5, RuntimeAssumption
       DEF Worked, RuntimeAssumption, SameFor, handles, watches
  <2> QED
    BY <2>1, SameResting DEF BInv, Workers
<1> QED
  BY <1>1, <1>4, <1>5 DEF BInv, Workers, Callers, procVars

LEMMA UninitializeStep ==
    ASSUME BInv, IInv', Uninitialize
    PROVE  Workers'
<1>1. /\ at["main"] = "uninitialize" /\ transports_ = {} /\ transports_' = {}
      /\ ports' = {} /\ at'["main"] = "halt_io"
      /\ \A d \in Callers : d # "main" => at'[d] = at[d]
      /\ UNCHANGED <<obj, taskVars, procVars, created, torn, kind, handles, watches>>
  BY DEF Uninitialize, Goto, BInv, IInv, TypeOK, Callers, Workers, registry
<1>2. \A d \in Callers : d # "main" => obj[d] = NoTransport /\ at[d] \notin Opening \cup Closing
  BY <1>1, OneWorker DEF Callers
<1>3. obj["main"] = NoTransport
  BY <1>1 DEF BInv, Workers, Callers, Working, Opening, Closing
<1>4. \A d \in Callers : obj'[d] = NoTransport /\ at'[d] \notin Opening \cup Closing
  BY <1>1, <1>2, <1>3 DEF Callers, Opening, Closing
<1>5. ASSUME NEW j \in Transports, j \notin torn'
      PROVE  Resting(j)'
  <2>1. ~Worked(j) /\ j \notin torn
    BY <1>1, <1>2, <1>3, <1>5, RuntimeAssumption DEF Worked, RuntimeAssumption
  <2>2. Resting(j) /\ j \notin ports
    BY <1>1, <2>1 DEF BInv, Workers, Resting
  <2>3. SameFor(j)
    BY <1>1, <2>2 DEF SameFor, handles, watches
  <2> QED
    BY <2>2, <2>3, SameResting
<1> QED
  BY <1>1, <1>4, <1>5 DEF BInv, Workers, Callers, procVars

LEMMA OtherMainStep ==
    ASSUME BInv, IInv',
           \/ StartConsole \/ SeeStop \/ StopConsole \/ RequestStop \/ Halt \/ Join
    PROVE  Workers'
<1>1. /\ UNCHANGED <<obj, torn, created, task, transports_, kind, ports, handles, watches>>
      /\ \A d \in Callers : d # "main" => at'[d] = at[d]
      /\ at["main"] \in {"ini", "poll", "console_stop", "request_stop", "halt_io",
                         "halt_cv", "join"}
      /\ at'["main"] \in {"poll", "request_stop", "console_stop", "join", "tear_down",
                          "halt_cv", "ended"}
      /\ console' # console => at["main"] \in {"ini", "console_stop"}
  BY DEF StartConsole, SeeStop, StopConsole, RequestStop, Halt, Join, Goto, BInv,
         IInv, TypeOK, Callers, registry, taskVars, procVars
<1>2. obj["main"] = NoTransport
  BY <1>1 DEF BInv, Workers, Callers, Working, Opening, Closing
<1>3. torn # {} => console' = "failed"
  BY <1>1 DEF BInv, IInv, Phases, Workers
<1>4. \A j \in Transports : SameFor(j)
  BY <1>1 DEF handles, watches, SameFor
<1> QED
  BY <1>1, <1>2, <1>3, <1>4, QuietStep DEF Callers, Opening, Closing

LEMMA OtherStep ==
    ASSUME BInv, IInv',
           \/ CommandOther \/ NodeAnswers \/ CommandStop \/ Check \/ Send
           \/ \E i \in Transports : NodePushes(i) \/ TakeBatch(i)
           \/ UNCHANGED vars
    PROVE  Workers'
<1>1. /\ UNCHANGED <<torn, created, task, console, transports_, kind, ports, handles, watches>>
      /\ \A d \in Callers : d # "io" => at'[d] = at[d]
      /\ at'["io"] = at["io"] \/ (at["io"] \in {"idle", "ask"} /\ at'["io"] \in {"idle", "ask"})
  BY DEF CommandOther, Command, IoLoops, NodeAnswers, Return, CommandStop, Check, Send,
         NodePushes, TakeBatch, vars, Goto, BInv, IInv, TypeOK, Callers, registry,
         taskVars, procVars, callVars
<1>2. at["io"] \in {"idle", "ask"} => obj["io"] = NoTransport
  BY DEF BInv, Workers, Callers, Working, Opening, Closing
<1>3. obj' = obj
  <2>1. CASE NodeAnswers
    BY <1>2, <2>1 DEF NodeAnswers, Return, BInv, IInv, TypeOK, Callers
  <2>2. CASE ~NodeAnswers
    BY <2>2 DEF CommandOther, CommandStop, Check, Send, NodePushes, TakeBatch, vars, callVars
  <2> QED
    BY <2>1, <2>2
<1>4. \A j \in Transports : SameFor(j)
  BY <1>1 DEF handles, watches, SameFor
<1>5. torn # {} => console' = "failed"
  BY <1>1 DEF BInv, Workers
<1> QED
  BY <1>1, <1>2, <1>3, <1>4, <1>5, QuietStep DEF Callers, Opening, Closing

-----------------------------------------------------------------------------
(***************************************************************************)
(* The invariant and the theorem.                                          *)
(***************************************************************************)
LEMMA WorkersInit == Init => Workers
<1> SUFFICES ASSUME Init PROVE Workers
  OBVIOUS
<1>1. \A c \in Callers : obj[c] = NoTransport /\ at[c] \notin Opening \cup Closing
  BY DEF Init, Callers, Opening, Closing
<1>2. \A j \in Transports : Resting(j)
  BY DEF Init, Resting, Released, Closed, Free
<1> QED
  BY <1>1, <1>2 DEF Init, Workers, Callers

LEMMA WorkersStep ==
    ASSUME BInv, IInv', [Next]_vars
    PROVE  Workers'
<1>1. ASSUME NEW c \in Callers, Call(c)
      PROVE  Workers'
  BY <1>1, InitializeStep, InitializeFailsStep, AddPortStep, EmplaceStep, RemPortStep,
     DeinitializeStep, DeinitializeIdleStep, ClosedStep, EraseStep DEF Call
<1>2. CASE Task
  BY <1>2, OpeningTaskStep, RemoveReaderStep, UnwatchStep DEF Task
<1>3. CASE Main
  BY <1>3, OtherMainStep, TearDownNextStep, ClearStep, UninitializeStep DEF Main
<1>4. CASE Input
  <2>1. ASSUME NEW r \in Requests, LoadTransport(r[1], r[2])
        PROVE  Workers'
    BY <2>1, StartAddStep DEF LoadTransport, promises, Callers
  <2>2. ASSUME NEW r \in Requests, CommandAdd(r[1], r[2])
        PROVE  Workers'
    BY <2>2, StartAddStep DEF CommandAdd, Command, IoLoops, Callers
  <2> QED
    BY <1>4, <2>1, <2>2, CommandRemoveStep, OtherStep DEF Input
<1>5. CASE Traffic \/ NodeAnswers \/ UNCHANGED vars
  BY <1>5, OtherStep DEF Traffic
<1>6. ASSUME NEW i \in Transports, Removed(i)
      PROVE  Workers'
  BY <1>6, RemovedStep
<1> QED
  BY <1>1, <1>2, <1>3, <1>4, <1>5, <1>6 DEF Next

LEMMA BooksInvariant == Spec => []BInv
<1>1. Init => BInv
  BY InitTypes, InitParts, WorkersInit DEF BInv, IInv
<1>2. BInv /\ [Next]_vars => BInv'
  <2> SUFFICES ASSUME BInv, [Next]_vars PROVE BInv'
    OBVIOUS
  <2>1. IInv'
    BY TypesStep, CallsStep, PhasesStep, ReadersStep DEF BInv, IInv
  <2> QED
    BY <2>1, WorkersStep DEF BInv
<1> QED
  BY <1>1, <1>2, PTL DEF Spec

\* Whatever main and the console add, modify, delete or tear down, and
\* whichever of their steps fails: of a transport nobody is working on the
\* registry, the node's ports, the socket, the membership, the destination and
\* the handlers of both reactors tell the same.
THEOREM BooksAlwaysAgree == Spec => []BooksAgree
<1>1. BInv => BooksAgree
  <2> SUFFICES ASSUME BInv, NEW i \in Transports, ~Busy(i)
               PROVE  /\ i \in transports_ <=> i \in ports
                      /\ i \in initialized => i \in transports_
                      /\ i \in initialized <=> i \in sockets
                      /\ i \in initialized <=> i \in inReady
                      /\ i \in initialized <=> i \in fdReady
                      /\ i \in joined <=> i \in initialized /\ kind[i] = "INTERNAL_MULTICAST"
                      /\ target[i] # "none" <=> i \in initialized /\ kind[i] \in Multicast
    BY DEF BooksAgree
  <2>1. Resting(i) /\ i \notin removals
    BY DEF Busy, BInv, Workers, Worked
  <2> QED
    BY <2>1 DEF Resting, Steady, Released, Open, Closed, Free, Bound, Member
<1> QED
  BY <1>1, BooksInvariant, PTL
=============================================================================
