--------------------------- MODULE RuntimeProofs ---------------------------
(***************************************************************************)
(* Proofs about Runtime, for any transports, names and commands: the types,*)
(* that transports_ is used by one thread at a time, and that the cv thread*)
(* never sends on a socket the io thread has let go.                       *)
(***************************************************************************)
EXTENDS Runtime, TLAPS

(***************************************************************************)
(* Which caller is where: who works on a transport knows one that exists,  *)
(* and the io thread is in a step of the caller that waits for it.         *)
(***************************************************************************)
Calls ==
    /\ \A c \in Callers : at[c] \in Opening \cup Closing => obj[c] \in created
    /\ task \in {"add_reader", "watch"} => at[taskBy] = "initialize"
    /\ task \in {"remove_reader", "unwatch"} => at[taskBy] = "deinitialize"
    /\ transports_ \subseteq created
    /\ cvAt # "idle" => batch > 0
    /\ op["io"] # "stop"
    /\ at["main"] \in Closing \cup {"tear_down"} =>
          op["main"] = "stop" /\ at["main"] # "erase"

\* The console is there only between the loading of the transports and the
\* end, and the io thread works for it only then.
Phases ==
    /\ console = "off" => at["main"] \in {"ini"} \cup Opening
    /\ console = "listening" => at["main"] \in {"poll", "console_stop"}
    /\ console = "closed" => stop_requested /\ at["main"] \in {"request_stop", "join", "ended"}
    /\ console = "failed" => at["main"] \notin {"ini", "poll", "console_stop"} \cup Opening
    /\ at["main"] = "console_stop" => stop_requested
    /\ at["io"] # "idle" => console \in {"listening", "closed"}

\* A transport with a handler at its input queue has all that a send needs;
\* what is being closed, or waits for the callback of rem_read_rdy, has none.
Ready(i) ==
    /\ i \in sockets
    /\ kind[i] = "INTERNAL_MULTICAST" => target[i] = "group"
    /\ kind[i] = "EXTERNAL_MULTICAST" => target[i] = "send"
Readers ==
    /\ inReady \cup removals \subseteq created
    /\ inReady \cap removals = {}
    /\ \A i \in inReady : Ready(i)
    /\ \A c \in Callers : at[c] = "initialize" => obj[c] \notin removals
    /\ task = "add_reader" => Ready(obj[taskBy])
    /\ task = "unwatch" => obj[taskBy] \notin inReady
    /\ cvAt # "idle" => cvObj \in inReady

IInv == TypeOK /\ Calls /\ Phases /\ Readers

-----------------------------------------------------------------------------
(***************************************************************************)
(* Facts about the helpers.                                                *)
(***************************************************************************)

\* The object that add_transport makes is a transport that did not exist.
LEMMA CreateIsNew ==
    ASSUME TypeOK, NEW c \in Callers, NEW n, NEW type, Create(c, n, type)
    PROVE  \E i \in Transports \ created :
              /\ created' = created \cup {i}
              /\ name' = [name EXCEPT ![i] = n]
              /\ kind' = [kind EXCEPT ![i] = type]
              /\ obj' = [obj EXCEPT ![c] = i]
<1> DEFINE i == CHOOSE i \in Transports : i \notin created
<1>1. created \subseteq Transports /\ created # Transports
  BY DEF TypeOK, Create
<1>2. i \in Transports \ created
  BY <1>1
<1> QED
  BY <1>2 DEF Create

-----------------------------------------------------------------------------
(***************************************************************************)
(* Types.                                                                  *)
(***************************************************************************)
LEMMA InitTypes == Init => TypeOK
<1> SUFFICES ASSUME Init PROVE TypeOK
  OBVIOUS
<1>1. /\ at \in [Callers -> MainLabels \cup IoLabels]
      /\ at["main"] \in MainLabels /\ at["io"] \in IoLabels
  BY DEF Init, Callers, MainLabels, IoLabels
<1>2. taskBy \in Callers
  BY DEF Init, Callers
<1>3. /\ op \in [Callers -> {"none", "add", "modify", "delete", "other", "stop"}]
      /\ obj \in [Callers -> Transports \cup {NoTransport}]
      /\ cvObj \in Transports \cup {NoTransport}
      /\ batch \in 0..QueueBound
  BY RuntimeAssumption DEF Init, RuntimeAssumption
<1>4. /\ kind \in [Transports -> Types \cup {"none"}]
      /\ name \in [Transports -> Names \cup {"none"}]
      /\ target \in [Transports -> {"none", "group", "send"}]
      /\ in \in [Transports -> 0..QueueBound]
  BY RuntimeAssumption DEF Init, RuntimeAssumption
<1> QED
  BY <1>1, <1>2, <1>3, <1>4 DEF Init, TypeOK

LEMMA TypesStep ==
    ASSUME TypeOK, Calls, [Next]_vars
    PROVE  TypeOK'
<1> USE RuntimeAssumption
<1> USE DEF TypeOK, RuntimeAssumption, Callers, Types, MainLabels, IoLabels, Opening, Closing,
            callVars, taskVars, cvVars, procVars, registry, handles, watches, promises
<1>a. ASSUME NEW c \in Callers, at[c] \in Opening \cup Closing
      PROVE  obj[c] \in Transports
  BY <1>a DEF Calls
<1>b. task # "none" => obj[taskBy] \in Transports
  BY <1>a DEF Calls
<1>1. ASSUME NEW c \in Callers, Initialize(c)
      PROVE  TypeOK'
  BY <1>1, <1>a DEF Initialize, OpenUnicast, OpenInternalMulticast, OpenExternalMulticast
<1>2. ASSUME NEW c \in Callers, InitializeFails(c)
      PROVE  TypeOK'
  BY <1>2, <1>a DEF InitializeFails, Goto
<1>3. CASE AddReader
  BY <1>3, <1>b DEF AddReader
<1>4. CASE Watch
  BY <1>4, <1>b DEF Watch, Goto
<1>5. ASSUME NEW c \in Callers, AddPort(c)
      PROVE  TypeOK'
  BY <1>5, <1>a DEF AddPort, Goto
<1>6. ASSUME NEW c \in Callers, Emplace(c)
      PROVE  TypeOK'
  BY <1>6, <1>a DEF Emplace, Return, Goto
<1>7. ASSUME NEW c \in Callers, RemPort(c)
      PROVE  TypeOK'
  BY <1>7, <1>a DEF RemPort, Goto
<1>8. ASSUME NEW c \in Callers, Deinitialize(c)
      PROVE  TypeOK'
  BY <1>8, <1>a DEF Deinitialize
<1>9. ASSUME NEW c \in Callers, DeinitializeIdle(c)
      PROVE  TypeOK'
  BY <1>9, <1>a DEF DeinitializeIdle, Goto
<1>10. CASE RemoveReader
  BY <1>10, <1>b DEF RemoveReader
<1>11. CASE Unwatch
  BY <1>11, <1>b DEF Unwatch, Goto, Release, ReleaseUnicast, ReleaseInternalMulticast, ReleaseExternalMulticast
<1>12. ASSUME NEW c \in Callers, GetFuture(c)
      PROVE  TypeOK'
  BY <1>12, <1>a DEF GetFuture, Goto, AfterClosing, Calls
<1>13. ASSUME NEW c \in Callers, FutureReady(c)
      PROVE  TypeOK'
  BY <1>13, <1>a DEF FutureReady, Goto, AfterClosing, Calls
<1>14. ASSUME NEW c \in Callers, Erase(c)
      PROVE  TypeOK'
  <2>1. CASE Return(c) /\ UNCHANGED <<created, kind, name>>
    BY <1>14, <2>1, <1>a DEF Erase, Destroy, Return, Goto
  <2>2. CASE /\ Create(c, name[obj[c]], kind[obj[c]])
             /\ Goto(c, "initialize")
             /\ UNCHANGED op
    <3>1. PICK i \in Transports \ created :
             /\ created' = created \cup {i}
             /\ name' = [name EXCEPT ![i] = name[obj[c]]]
             /\ kind' = [kind EXCEPT ![i] = kind[obj[c]]]
             /\ obj' = [obj EXCEPT ![c] = i]
      BY <2>2, CreateIsNew
    <3>2. obj[c] \in Transports
      BY <1>14, <1>a DEF Erase
    <3> QED
      BY <1>14, <2>2, <3>1, <3>2 DEF Erase, Destroy, Goto
  <2> QED
    BY <1>14, <2>1, <2>2 DEF Erase
<1>15. ASSUME NEW r \in Requests, LoadTransport(r[1], r[2])
      PROVE  TypeOK'
  <2>1. r[1] \in Names /\ r[2] \in Types
    OBVIOUS
  <2>2. Create("main", r[1], r[2])
    BY <1>15 DEF LoadTransport, StartAdd
  <2>3. PICK i \in Transports \ created :
           /\ created' = created \cup {i}
           /\ name' = [name EXCEPT ![i] = r[1]]
           /\ kind' = [kind EXCEPT ![i] = r[2]]
           /\ obj' = [obj EXCEPT !["main"] = i]
    BY <2>2, CreateIsNew
  <2> QED
    BY <1>15, <2>1, <2>3 DEF LoadTransport, StartAdd, Goto
<1>16. CASE StartConsole
  BY <1>16, <1>b DEF StartConsole, Goto
<1>17. CASE SeeStop
  BY <1>17, <1>b DEF SeeStop, Goto
<1>18. CASE StopConsole
  BY <1>18, <1>b DEF StopConsole, Goto
<1>19. CASE RequestStop
  BY <1>19, <1>b DEF RequestStop, Goto
<1>20. CASE TearDownNext
  BY <1>20, <1>b DEF TearDownNext, Goto
<1>21. CASE Clear
  BY <1>21, <1>b DEF Clear, Destroy, Goto
<1>22. CASE Uninitialize
  BY <1>22, <1>b DEF Uninitialize, Goto
<1>23. CASE Halt
  <2>1. running' \subseteq running
    BY <1>23 DEF Halt
  <2>2. \/ Goto("main", "halt_cv")
        \/ Goto("main", "join")
    BY <1>23 DEF Halt
  <2>3. UNCHANGED <<op, obj, taskVars, cvVars, console, stop_requested, registry,
                    ports, handles, watches, promises, in>>
    BY <1>23 DEF Halt
  <2> QED
    BY <2>1, <2>2, <2>3 DEF Goto
<1>24. CASE Join
  BY <1>24, <1>b DEF Join, Goto
<1>25. ASSUME NEW r \in Requests, CommandAdd(r[1], r[2])
      PROVE  TypeOK'
  <2>1. r[1] \in Names /\ r[2] \in Types
    OBVIOUS
  <2>2. Create("io", r[1], r[2])
    BY <1>25 DEF CommandAdd, StartAdd
  <2>3. PICK i \in Transports \ created :
           /\ created' = created \cup {i}
           /\ name' = [name EXCEPT ![i] = r[1]]
           /\ kind' = [kind EXCEPT ![i] = r[2]]
           /\ obj' = [obj EXCEPT !["io"] = i]
    BY <2>2, CreateIsNew
  <2> QED
    BY <1>25, <2>1, <2>3 DEF CommandAdd, StartAdd, Goto
<1>26. ASSUME NEW c \in {"delete", "modify"}, NEW i \in Transports, CommandRemove(c, i)
      PROVE  TypeOK'
  BY <1>26, <1>a DEF CommandRemove, Goto
<1>27. CASE CommandOther
  BY <1>27, <1>b DEF CommandOther, Goto
<1>28. CASE NodeAnswers
  BY <1>28, <1>b DEF NodeAnswers, Return, Goto
<1>29. CASE CommandStop
  BY <1>29, <1>b DEF CommandStop
<1>30. ASSUME NEW i \in Transports, NodePushes(i)
      PROVE  TypeOK'
  BY <1>30, <1>a DEF NodePushes
<1>31. ASSUME NEW i \in Transports, TakeBatch(i)
      PROVE  TypeOK'
  BY <1>31, <1>a DEF TakeBatch
<1>32. CASE Check
  BY <1>32, <1>b DEF Check, NextPdu, Calls
<1>33. CASE Send
  BY <1>33, <1>b DEF Send, NextPdu, Calls
<1>34. ASSUME NEW i \in Transports, Removed(i)
      PROVE  TypeOK'
  BY <1>34, <1>a DEF Removed, Release, ReleaseUnicast, ReleaseInternalMulticast, ReleaseExternalMulticast
<1>35. CASE UNCHANGED vars
  BY <1>35 DEF vars
<1>36. ASSUME NEW c \in Callers, Call(c)
       PROVE  TypeOK'
  BY <1>1, <1>2, <1>5, <1>6, <1>7, <1>8, <1>9, <1>12, <1>13, <1>14, <1>36 DEF Call
<1>37. CASE Task
  BY <1>3, <1>4, <1>10, <1>11, <1>37 DEF Task
<1>38. CASE Main
  BY <1>16, <1>17, <1>18, <1>19, <1>20, <1>21, <1>22, <1>23, <1>24, <1>38 DEF Main
<1>39. CASE Input
  BY <1>15, <1>25, <1>26, <1>27, <1>29, <1>39 DEF Input
<1>40. CASE Traffic
  BY <1>30, <1>31, <1>32, <1>33, <1>40 DEF Traffic
<1> QED
  BY <1>28, <1>34, <1>35, <1>36, <1>37, <1>38, <1>39, <1>40 DEF Next

-----------------------------------------------------------------------------
(***************************************************************************)
(* The parts of the invariant.                                             *)
(***************************************************************************)
LEMMA InitParts == Init => Calls /\ Phases /\ Readers
  BY DEF Init, Calls, Phases, Readers, Callers, Opening, Closing

\* Who works on a transport keeps one that exists; a task of the io thread
\* ends before its caller moves on.
LEMMA CallsStep ==
    ASSUME IInv, [Next]_vars
    PROVE  Calls'
<1> USE DEF IInv, TypeOK, Calls, Callers, MainLabels, IoLabels, Opening,
            Closing, callVars, taskVars, cvVars, procVars, registry, handles,
            watches, promises
<1>1. ASSUME NEW c \in Callers, Initialize(c)
      PROVE  Calls'
  BY <1>1 DEF Initialize, OpenUnicast, OpenInternalMulticast,
     OpenExternalMulticast, OnIo, OnCv, IoLoops
<1>2. ASSUME NEW c \in Callers, InitializeFails(c)
      PROVE  Calls'
  BY <1>2 DEF InitializeFails, Goto, OnIo, OnCv, IoLoops
<1>3. CASE AddReader
  BY <1>3 DEF AddReader, OnIo, OnCv, IoLoops
<1>4. CASE Watch
  BY <1>4 DEF Watch, Goto, OnIo, OnCv, IoLoops
<1>5. ASSUME NEW c \in Callers, AddPort(c)
      PROVE  Calls'
  BY <1>5 DEF AddPort, Goto, OnIo, OnCv, IoLoops
<1>6. ASSUME NEW c \in Callers, Emplace(c)
      PROVE  Calls'
  BY <1>6 DEF Emplace, Return, Goto, OnIo, OnCv, IoLoops
<1>7. ASSUME NEW c \in Callers, RemPort(c)
      PROVE  Calls'
  BY <1>7 DEF RemPort, Goto, OnIo, OnCv, IoLoops
<1>8. ASSUME NEW c \in Callers, Deinitialize(c)
      PROVE  Calls'
  BY <1>8 DEF Deinitialize, OnIo, OnCv, IoLoops
<1>9. ASSUME NEW c \in Callers, DeinitializeIdle(c)
      PROVE  Calls'
  BY <1>9 DEF DeinitializeIdle, Goto, OnIo, OnCv, IoLoops
<1>10. CASE RemoveReader
  BY <1>10 DEF RemoveReader, OnIo, OnCv, IoLoops
<1>11. CASE Unwatch
  BY <1>11 DEF Unwatch, Goto, Release, ReleaseUnicast,
     ReleaseInternalMulticast, ReleaseExternalMulticast, OnIo, OnCv, IoLoops
<1>12. ASSUME NEW c \in Callers, GetFuture(c)
      PROVE  Calls'
  BY <1>12 DEF GetFuture, Goto, AfterClosing, Calls, OnIo, OnCv, IoLoops
<1>13. ASSUME NEW c \in Callers, FutureReady(c)
      PROVE  Calls'
  BY <1>13 DEF FutureReady, Goto, AfterClosing, Calls, OnIo, OnCv, IoLoops
<1>14. ASSUME NEW c \in Callers, Erase(c)
      PROVE  Calls'
  <2>1. CASE Return(c) /\ UNCHANGED <<created, kind, name>>
    BY <1>14, <2>1 DEF Erase, Destroy, Return, Goto
  <2>2. CASE /\ op[c] = "modify"
             /\ Create(c, name[obj[c]], kind[obj[c]])
             /\ Goto(c, "initialize")
             /\ UNCHANGED op
    <3>1. PICK i \in Transports \ created :
             /\ created' = created \cup {i}
             /\ name' = [name EXCEPT ![i] = name[obj[c]]]
             /\ kind' = [kind EXCEPT ![i] = kind[obj[c]]]
             /\ obj' = [obj EXCEPT ![c] = i]
      BY <2>2, CreateIsNew
    <3> QED
      BY <1>14, <2>2, <3>1 DEF Erase, Destroy, Goto
  <2> QED
    BY <1>14, <2>1, <2>2 DEF Erase
<1>15. ASSUME NEW r \in Requests, LoadTransport(r[1], r[2])
      PROVE  Calls'
  <2>1. PICK i \in Transports \ created :
           /\ created' = created \cup {i}
           /\ name' = [name EXCEPT ![i] = r[1]]
           /\ kind' = [kind EXCEPT ![i] = r[2]]
           /\ obj' = [obj EXCEPT !["main"] = i]
    BY <1>15, CreateIsNew DEF LoadTransport, StartAdd
  <2> QED
    BY <1>15, <2>1 DEF LoadTransport, StartAdd, Goto, Command, IoLoops
<1>16. CASE StartConsole
  BY <1>16 DEF StartConsole, Goto, OnIo, OnCv, IoLoops
<1>17. CASE SeeStop
  BY <1>17 DEF SeeStop, Goto, OnIo, OnCv, IoLoops
<1>18. CASE StopConsole
  BY <1>18 DEF StopConsole, Goto, OnIo, OnCv, IoLoops
<1>19. CASE RequestStop
  BY <1>19 DEF RequestStop, Goto, OnIo, OnCv, IoLoops
<1>20. CASE TearDownNext
  BY <1>20 DEF TearDownNext, Goto, OnIo, OnCv, IoLoops
<1>21. CASE Clear
  BY <1>21 DEF Clear, Destroy, Goto, OnIo, OnCv, IoLoops
<1>22. CASE Uninitialize
  BY <1>22 DEF Uninitialize, Goto, OnIo, OnCv, IoLoops
<1>23. CASE Halt
  BY <1>23 DEF Halt, Goto, OnIo, OnCv, IoLoops
<1>24. CASE Join
  BY <1>24 DEF Join, Goto, OnIo, OnCv, IoLoops
<1>25. ASSUME NEW r \in Requests, CommandAdd(r[1], r[2])
      PROVE  Calls'
  <2>1. PICK i \in Transports \ created :
           /\ created' = created \cup {i}
           /\ name' = [name EXCEPT ![i] = r[1]]
           /\ kind' = [kind EXCEPT ![i] = r[2]]
           /\ obj' = [obj EXCEPT !["io"] = i]
    BY <1>25, CreateIsNew DEF CommandAdd, StartAdd
  <2> QED
    BY <1>25, <2>1 DEF CommandAdd, StartAdd, Goto, Command, IoLoops
<1>26. ASSUME NEW c \in {"delete", "modify"}, NEW i \in Transports, CommandRemove(c, i)
      PROVE  Calls'
  BY <1>26 DEF CommandRemove, Goto, OnIo, OnCv, IoLoops, Command
<1>27. CASE CommandOther
  BY <1>27 DEF CommandOther, Goto, Command, OnIo, OnCv, IoLoops
<1>28. CASE NodeAnswers
  BY <1>28 DEF NodeAnswers, Return, Goto, OnIo, OnCv, IoLoops
<1>29. CASE CommandStop
  BY <1>29 DEF CommandStop, Command, OnIo, OnCv, IoLoops
<1>30. ASSUME NEW i \in Transports, NodePushes(i)
      PROVE  Calls'
  BY <1>30 DEF NodePushes, OnIo, OnCv, IoLoops
<1>31. ASSUME NEW i \in Transports, TakeBatch(i)
      PROVE  Calls'
  BY <1>31 DEF TakeBatch, OnIo, OnCv, IoLoops
<1>32. CASE Check
  BY <1>32 DEF Check, NextPdu, Calls, OnIo, OnCv, IoLoops
<1>33. CASE Send
  BY <1>33 DEF Send, NextPdu, Calls, OnIo, OnCv, IoLoops
<1>34. ASSUME NEW i \in Transports, Removed(i)
      PROVE  Calls'
  BY <1>34 DEF Removed, Release, ReleaseUnicast, ReleaseInternalMulticast,
     ReleaseExternalMulticast, OnIo, OnCv, IoLoops
<1>35. CASE UNCHANGED vars
  BY <1>35 DEF vars
<1>36. ASSUME NEW c \in Callers, Call(c)
       PROVE  Calls'
  BY <1>1, <1>2, <1>5, <1>6, <1>7, <1>8, <1>9, <1>12, <1>13, <1>14, <1>36 DEF Call
<1>37. CASE Task
  BY <1>3, <1>4, <1>10, <1>11, <1>37 DEF Task
<1>38. CASE Main
  BY <1>16, <1>17, <1>18, <1>19, <1>20, <1>21, <1>22, <1>23, <1>24, <1>38 DEF Main
<1>39. CASE Input
  BY <1>15, <1>25, <1>26, <1>27, <1>29, <1>39 DEF Input
<1>40. CASE Traffic
  BY <1>30, <1>31, <1>32, <1>33, <1>40 DEF Traffic
<1> QED
  BY <1>28, <1>34, <1>35, <1>36, <1>37, <1>38, <1>39, <1>40 DEF Next

\* The console is served only while main polls or is past the transports.
LEMMA PhasesStep ==
    ASSUME IInv, [Next]_vars
    PROVE  Phases'
<1> USE DEF IInv, TypeOK, Calls, Phases, Callers, MainLabels, IoLabels,
            Opening, Closing, callVars, taskVars, cvVars, procVars, registry,
            handles, watches, promises
<1>1. ASSUME NEW c \in Callers, Initialize(c)
      PROVE  Phases'
  BY <1>1 DEF Initialize, OpenUnicast, OpenInternalMulticast,
     OpenExternalMulticast, OnIo, OnCv, IoLoops
<1>2. ASSUME NEW c \in Callers, InitializeFails(c)
      PROVE  Phases'
  BY <1>2 DEF InitializeFails, Goto, OnIo, OnCv, IoLoops
<1>3. CASE AddReader
  BY <1>3 DEF AddReader, OnIo, OnCv, IoLoops
<1>4. CASE Watch
  BY <1>4 DEF Watch, Goto, OnIo, OnCv, IoLoops
<1>5. ASSUME NEW c \in Callers, AddPort(c)
      PROVE  Phases'
  BY <1>5 DEF AddPort, Goto, OnIo, OnCv, IoLoops
<1>6. ASSUME NEW c \in Callers, Emplace(c)
      PROVE  Phases'
  BY <1>6 DEF Emplace, Return, Goto, OnIo, OnCv, IoLoops
<1>7. ASSUME NEW c \in Callers, RemPort(c)
      PROVE  Phases'
  BY <1>7 DEF RemPort, Goto, OnIo, OnCv, IoLoops
<1>8. ASSUME NEW c \in Callers, Deinitialize(c)
      PROVE  Phases'
  BY <1>8 DEF Deinitialize, OnIo, OnCv, IoLoops
<1>9. ASSUME NEW c \in Callers, DeinitializeIdle(c)
      PROVE  Phases'
  BY <1>9 DEF DeinitializeIdle, Goto, OnIo, OnCv, IoLoops
<1>10. CASE RemoveReader
  BY <1>10 DEF RemoveReader, OnIo, OnCv, IoLoops
<1>11. CASE Unwatch
  BY <1>11 DEF Unwatch, Goto, Release, ReleaseUnicast,
     ReleaseInternalMulticast, ReleaseExternalMulticast, OnIo, OnCv, IoLoops
<1>12. ASSUME NEW c \in Callers, GetFuture(c)
      PROVE  Phases'
  BY <1>12 DEF GetFuture, Goto, AfterClosing, Calls, OnIo, OnCv, IoLoops
<1>13. ASSUME NEW c \in Callers, FutureReady(c)
      PROVE  Phases'
  BY <1>13 DEF FutureReady, Goto, AfterClosing, Calls, OnIo, OnCv, IoLoops
<1>14. ASSUME NEW c \in Callers, Erase(c)
      PROVE  Phases'
  <2>1. CASE Return(c) /\ UNCHANGED <<created, kind, name>>
    BY <1>14, <2>1 DEF Erase, Destroy, Return, Goto
  <2>2. CASE /\ op[c] = "modify"
             /\ Create(c, name[obj[c]], kind[obj[c]])
             /\ Goto(c, "initialize")
             /\ UNCHANGED op
    <3>1. PICK i \in Transports \ created :
             /\ created' = created \cup {i}
             /\ name' = [name EXCEPT ![i] = name[obj[c]]]
             /\ kind' = [kind EXCEPT ![i] = kind[obj[c]]]
             /\ obj' = [obj EXCEPT ![c] = i]
      BY <2>2, CreateIsNew
    <3> QED
      BY <1>14, <2>2, <3>1 DEF Erase, Destroy, Goto
  <2> QED
    BY <1>14, <2>1, <2>2 DEF Erase
<1>15. ASSUME NEW r \in Requests, LoadTransport(r[1], r[2])
      PROVE  Phases'
  <2>1. PICK i \in Transports \ created :
           /\ created' = created \cup {i}
           /\ name' = [name EXCEPT ![i] = r[1]]
           /\ kind' = [kind EXCEPT ![i] = r[2]]
           /\ obj' = [obj EXCEPT !["main"] = i]
    BY <1>15, CreateIsNew DEF LoadTransport, StartAdd
  <2> QED
    BY <1>15, <2>1 DEF LoadTransport, StartAdd, Goto, Command, IoLoops
<1>16. CASE StartConsole
  BY <1>16 DEF StartConsole, Goto, OnIo, OnCv, IoLoops
<1>17. CASE SeeStop
  BY <1>17 DEF SeeStop, Goto, OnIo, OnCv, IoLoops
<1>18. CASE StopConsole
  BY <1>18 DEF StopConsole, Goto, OnIo, OnCv, IoLoops
<1>19. CASE RequestStop
  BY <1>19 DEF RequestStop, Goto, OnIo, OnCv, IoLoops
<1>20. CASE TearDownNext
  BY <1>20 DEF TearDownNext, Goto, OnIo, OnCv, IoLoops
<1>21. CASE Clear
  BY <1>21 DEF Clear, Destroy, Goto, OnIo, OnCv, IoLoops
<1>22. CASE Uninitialize
  BY <1>22 DEF Uninitialize, Goto, OnIo, OnCv, IoLoops
<1>23. CASE Halt
  BY <1>23 DEF Halt, Goto, OnIo, OnCv, IoLoops
<1>24. CASE Join
  BY <1>24 DEF Join, Goto, OnIo, OnCv, IoLoops
<1>25. ASSUME NEW r \in Requests, CommandAdd(r[1], r[2])
      PROVE  Phases'
  <2>1. PICK i \in Transports \ created :
           /\ created' = created \cup {i}
           /\ name' = [name EXCEPT ![i] = r[1]]
           /\ kind' = [kind EXCEPT ![i] = r[2]]
           /\ obj' = [obj EXCEPT !["io"] = i]
    BY <1>25, CreateIsNew DEF CommandAdd, StartAdd
  <2> QED
    BY <1>25, <2>1 DEF CommandAdd, StartAdd, Goto, Command, IoLoops
<1>26. ASSUME NEW c \in {"delete", "modify"}, NEW i \in Transports, CommandRemove(c, i)
      PROVE  Phases'
  BY <1>26 DEF CommandRemove, Goto, OnIo, OnCv, IoLoops, Command
<1>27. CASE CommandOther
  BY <1>27 DEF CommandOther, Goto, Command, OnIo, OnCv, IoLoops
<1>28. CASE NodeAnswers
  BY <1>28 DEF NodeAnswers, Return, Goto, OnIo, OnCv, IoLoops
<1>29. CASE CommandStop
  BY <1>29 DEF CommandStop, Command, OnIo, OnCv, IoLoops
<1>30. ASSUME NEW i \in Transports, NodePushes(i)
      PROVE  Phases'
  BY <1>30 DEF NodePushes, OnIo, OnCv, IoLoops
<1>31. ASSUME NEW i \in Transports, TakeBatch(i)
      PROVE  Phases'
  BY <1>31 DEF TakeBatch, OnIo, OnCv, IoLoops
<1>32. CASE Check
  BY <1>32 DEF Check, NextPdu, Calls, OnIo, OnCv, IoLoops
<1>33. CASE Send
  BY <1>33 DEF Send, NextPdu, Calls, OnIo, OnCv, IoLoops
<1>34. ASSUME NEW i \in Transports, Removed(i)
      PROVE  Phases'
  BY <1>34 DEF Removed, Release, ReleaseUnicast, ReleaseInternalMulticast,
     ReleaseExternalMulticast, OnIo, OnCv, IoLoops
<1>35. CASE UNCHANGED vars
  BY <1>35 DEF vars
<1>36. ASSUME NEW c \in Callers, Call(c)
       PROVE  Phases'
  BY <1>1, <1>2, <1>5, <1>6, <1>7, <1>8, <1>9, <1>12, <1>13, <1>14, <1>36 DEF Call
<1>37. CASE Task
  BY <1>3, <1>4, <1>10, <1>11, <1>37 DEF Task
<1>38. CASE Main
  BY <1>16, <1>17, <1>18, <1>19, <1>20, <1>21, <1>22, <1>23, <1>24, <1>38 DEF Main
<1>39. CASE Input
  BY <1>15, <1>25, <1>26, <1>27, <1>29, <1>39 DEF Input
<1>40. CASE Traffic
  BY <1>30, <1>31, <1>32, <1>33, <1>40 DEF Traffic
<1> QED
  BY <1>28, <1>34, <1>35, <1>36, <1>37, <1>38, <1>39, <1>40 DEF Next

\* A handler goes before what it needs, and comes after it.
LEMMA ReadersStep ==
    ASSUME IInv, [Next]_vars
    PROVE  Readers'
<1> USE DEF IInv, TypeOK, Calls, Phases, Readers, Ready, Callers, Types,
            callVars, taskVars, cvVars, procVars, registry, handles, watches,
            promises, Opening, Closing
<1>1. ASSUME NEW c \in Callers, Initialize(c)
      PROVE  Readers'
  BY <1>1 DEF Initialize, OpenUnicast, OpenInternalMulticast,
     OpenExternalMulticast, OnIo, OnCv, IoLoops
<1>2. ASSUME NEW c \in Callers, InitializeFails(c)
      PROVE  Readers'
  BY <1>2 DEF InitializeFails, Goto, OnIo, OnCv, IoLoops
<1>3. CASE AddReader
  BY <1>3 DEF AddReader, OnIo, OnCv, IoLoops
<1>4. CASE Watch
  BY <1>4 DEF Watch, Goto, OnIo, OnCv, IoLoops
<1>5. ASSUME NEW c \in Callers, AddPort(c)
      PROVE  Readers'
  BY <1>5 DEF AddPort, Goto, OnIo, OnCv, IoLoops
<1>6. ASSUME NEW c \in Callers, Emplace(c)
      PROVE  Readers'
  BY <1>6 DEF Emplace, Return, Goto, OnIo, OnCv, IoLoops
<1>7. ASSUME NEW c \in Callers, RemPort(c)
      PROVE  Readers'
  BY <1>7 DEF RemPort, Goto, OnIo, OnCv, IoLoops
<1>8. ASSUME NEW c \in Callers, Deinitialize(c)
      PROVE  Readers'
  BY <1>8 DEF Deinitialize, OnIo, OnCv, IoLoops
<1>9. ASSUME NEW c \in Callers, DeinitializeIdle(c)
      PROVE  Readers'
  BY <1>9 DEF DeinitializeIdle, Goto, OnIo, OnCv, IoLoops
<1>10. CASE RemoveReader
  BY <1>10 DEF RemoveReader, OnIo, OnCv, IoLoops
<1>11. CASE Unwatch
  <2> DEFINE i == obj[taskBy]
  <2>1. /\ task = "unwatch" /\ task' = "none"
        /\ at[taskBy] = "deinitialize"
        /\ at' = [at EXCEPT ![taskBy] = "get_future"]
        /\ i \in created /\ i \notin inReady
        /\ UNCHANGED <<created, kind, inReady, cvAt, cvObj, obj, taskBy>>
    BY <1>11 DEF Unwatch, Goto
  <2>2. ASSUME NEW c \in Callers, at'[c] = "initialize"
        PROVE  at[c] = "initialize" /\ obj[c] # i
    <3>1. c # taskBy /\ at[c] = "initialize"
      BY <2>1, <2>2
    <3>2. ~(at["main"] = "deinitialize" /\ at["io"] = "initialize")
      OBVIOUS
    <3>3. CASE obj[c] = i
      <4>1. taskBy = "io" /\ c = "main"
        BY <2>1, <3>1, <3>2
      <4> QED
        BY <2>1, <3>1, <4>1
    <3> QED
      BY <3>1, <3>3
  <2>3. CASE Release(i) /\ UNCHANGED removals
    BY <2>1, <2>2, <2>3 DEF Release, ReleaseUnicast, ReleaseInternalMulticast,
       ReleaseExternalMulticast
  <2>4. CASE removals' = removals \cup {i} /\ UNCHANGED <<sockets, target>>
    BY <2>1, <2>2, <2>4
  <2> QED
    BY <1>11, <2>3, <2>4 DEF Unwatch
<1>12. ASSUME NEW c \in Callers, GetFuture(c)
      PROVE  Readers'
  BY <1>12 DEF GetFuture, Goto, AfterClosing, Calls, OnIo, OnCv, IoLoops
<1>13. ASSUME NEW c \in Callers, FutureReady(c)
      PROVE  Readers'
  BY <1>13 DEF FutureReady, Goto, AfterClosing, Calls, OnIo, OnCv, IoLoops
<1>14. ASSUME NEW c \in Callers, Erase(c)
      PROVE  Readers'
  <2>1. CASE Return(c) /\ UNCHANGED <<created, kind, name>>
    BY <1>14, <2>1 DEF Erase, Destroy, Return, Goto
  <2>2. CASE /\ op[c] = "modify"
             /\ Create(c, name[obj[c]], kind[obj[c]])
             /\ Goto(c, "initialize")
             /\ UNCHANGED op
    <3>1. PICK i \in Transports \ created :
             /\ created' = created \cup {i}
             /\ name' = [name EXCEPT ![i] = name[obj[c]]]
             /\ kind' = [kind EXCEPT ![i] = kind[obj[c]]]
             /\ obj' = [obj EXCEPT ![c] = i]
      BY <2>2, CreateIsNew
    <3> QED
      BY <1>14, <2>2, <3>1 DEF Erase, Destroy, Goto
  <2> QED
    BY <1>14, <2>1, <2>2 DEF Erase
<1>15. ASSUME NEW r \in Requests, LoadTransport(r[1], r[2])
      PROVE  Readers'
  <2>1. PICK i \in Transports \ created :
           /\ created' = created \cup {i}
           /\ name' = [name EXCEPT ![i] = r[1]]
           /\ kind' = [kind EXCEPT ![i] = r[2]]
           /\ obj' = [obj EXCEPT !["main"] = i]
    BY <1>15, CreateIsNew DEF LoadTransport, StartAdd
  <2> QED
    BY <1>15, <2>1 DEF LoadTransport, StartAdd, Goto, Command, IoLoops
<1>16. CASE StartConsole
  BY <1>16 DEF StartConsole, Goto, OnIo, OnCv, IoLoops
<1>17. CASE SeeStop
  BY <1>17 DEF SeeStop, Goto, OnIo, OnCv, IoLoops
<1>18. CASE StopConsole
  BY <1>18 DEF StopConsole, Goto, OnIo, OnCv, IoLoops
<1>19. CASE RequestStop
  BY <1>19 DEF RequestStop, Goto, OnIo, OnCv, IoLoops
<1>20. CASE TearDownNext
  BY <1>20 DEF TearDownNext, Goto, OnIo, OnCv, IoLoops
<1>21. CASE Clear
  BY <1>21 DEF Clear, Destroy, Goto, OnIo, OnCv, IoLoops
<1>22. CASE Uninitialize
  BY <1>22 DEF Uninitialize, Goto, OnIo, OnCv, IoLoops
<1>23. CASE Halt
  BY <1>23 DEF Halt, Goto, OnIo, OnCv, IoLoops
<1>24. CASE Join
  BY <1>24 DEF Join, Goto, OnIo, OnCv, IoLoops
<1>25. ASSUME NEW r \in Requests, CommandAdd(r[1], r[2])
      PROVE  Readers'
  <2>1. PICK i \in Transports \ created :
           /\ created' = created \cup {i}
           /\ name' = [name EXCEPT ![i] = r[1]]
           /\ kind' = [kind EXCEPT ![i] = r[2]]
           /\ obj' = [obj EXCEPT !["io"] = i]
    BY <1>25, CreateIsNew DEF CommandAdd, StartAdd
  <2> QED
    BY <1>25, <2>1 DEF CommandAdd, StartAdd, Goto, Command, IoLoops
<1>26. ASSUME NEW c \in {"delete", "modify"}, NEW i \in Transports, CommandRemove(c, i)
      PROVE  Readers'
  BY <1>26 DEF CommandRemove, Goto, OnIo, OnCv, IoLoops, Command
<1>27. CASE CommandOther
  BY <1>27 DEF CommandOther, Goto, Command, OnIo, OnCv, IoLoops
<1>28. CASE NodeAnswers
  BY <1>28 DEF NodeAnswers, Return, Goto, OnIo, OnCv, IoLoops
<1>29. CASE CommandStop
  BY <1>29 DEF CommandStop, Command, OnIo, OnCv, IoLoops
<1>30. ASSUME NEW i \in Transports, NodePushes(i)
      PROVE  Readers'
  BY <1>30 DEF NodePushes, OnIo, OnCv, IoLoops
<1>31. ASSUME NEW i \in Transports, TakeBatch(i)
      PROVE  Readers'
  BY <1>31 DEF TakeBatch, OnIo, OnCv, IoLoops
<1>32. CASE Check
  BY <1>32 DEF Check, NextPdu, Calls, OnIo, OnCv, IoLoops
<1>33. CASE Send
  BY <1>33 DEF Send, NextPdu, Calls, OnIo, OnCv, IoLoops
<1>34. ASSUME NEW i \in Transports, Removed(i)
      PROVE  Readers'
  BY <1>34 DEF Removed, Release, ReleaseUnicast, ReleaseInternalMulticast,
     ReleaseExternalMulticast, OnIo, OnCv, IoLoops
<1>35. CASE UNCHANGED vars
  BY <1>35 DEF vars
<1>36. ASSUME NEW c \in Callers, Call(c)
       PROVE  Readers'
  BY <1>1, <1>2, <1>5, <1>6, <1>7, <1>8, <1>9, <1>12, <1>13, <1>14, <1>36 DEF Call
<1>37. CASE Task
  BY <1>3, <1>4, <1>10, <1>11, <1>37 DEF Task
<1>38. CASE Main
  BY <1>16, <1>17, <1>18, <1>19, <1>20, <1>21, <1>22, <1>23, <1>24, <1>38 DEF Main
<1>39. CASE Input
  BY <1>15, <1>25, <1>26, <1>27, <1>29, <1>39 DEF Input
<1>40. CASE Traffic
  BY <1>30, <1>31, <1>32, <1>33, <1>40 DEF Traffic
<1> QED
  BY <1>28, <1>34, <1>35, <1>36, <1>37, <1>38, <1>39, <1>40 DEF Next

-----------------------------------------------------------------------------
(***************************************************************************)
(* The theorems.                                                           *)
(***************************************************************************)

\* The invariant holds at the start and every step keeps it.
THEOREM Invariant == Spec => []IInv
<1>1. Init => IInv
  BY InitTypes, InitParts DEF IInv
<1>2. IInv /\ [Next]_vars => IInv'
  BY TypesStep, CallsStep, PhasesStep, ReadersStep DEF IInv
<1> QED
  BY <1>1, <1>2, PTL DEF Spec

\* Every variable keeps its type, whatever main and the console do.
THEOREM TypesHold == Spec => []TypeOK
<1>1. IInv => TypeOK
  BY DEF IInv
<1> QED
  BY <1>1, Invariant, PTL

\* main and the io thread never use the registry of transports at the same
\* time, although it has no lock: the console is opened after main has loaded
\* its transports, and once it has been open main goes straight to join.
THEOREM RegistryHasOneUser == Spec => []RegistryExclusive
<1>1. IInv => RegistryExclusive
  <2> SUFFICES ASSUME IInv, Using("main"), Using("io") PROVE FALSE
    BY DEF RegistryExclusive
  <2>1. at["io"] # "idle"
    BY DEF Using, Opening, Closing
  <2>2. console \in {"listening", "closed"}
    BY <2>1 DEF IInv, Phases
  <2>3. at["main"] \in {"poll", "console_stop", "request_stop", "join", "ended"}
    BY <2>2 DEF IInv, Phases
  <2> QED
    BY <2>3 DEF Using, Opening, Closing
<1> QED
  BY <1>1, Invariant, PTL

\* The cv thread never sends through a socket, or to a destination, that the
\* io thread has let go: the handler at the input queue is taken away on the
\* cv thread first, between two PDUs.
THEOREM SenderIsSafe == Spec => []SenderHasSocket
<1>1. IInv => SenderHasSocket
  <2> SUFFICES ASSUME IInv, cvAt = "send" PROVE SenderHasSocket
    BY DEF SenderHasSocket
  <2>1. Ready(cvObj)
    BY DEF IInv, Readers
  <2>2. kind[cvObj] \in Multicast => Route(cvObj, "none") # "none"
    <3>1. CASE kind[cvObj] = "INTERNAL_MULTICAST"
      BY <2>1, <3>1 DEF Ready, Route, InternalMulticastRoute
    <3>2. CASE kind[cvObj] = "EXTERNAL_MULTICAST"
      BY <2>1, <3>2 DEF Ready, Route, ExternalMulticastRoute
    <3> QED
      BY <3>1, <3>2 DEF Multicast
  <2> QED
    BY <2>1, <2>2 DEF Ready, SenderHasSocket
<1> QED
  BY <1>1, Invariant, PTL

=============================================================================
