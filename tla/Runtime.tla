------------------------------ MODULE Runtime ------------------------------
(***************************************************************************)
(* The threads of one bfc_tunnel process and the transports they share:    *)
(* the main thread (main, node_runtime), the io reactor (sockets, console) *)
(* and the cv reactor (the node).  A transport is opened and closed by a   *)
(* caller, the main thread or the io thread on behalf of a console         *)
(* command, in steps that dispatch_sync runs on the thread they belong to: *)
(* the caller waits for the io thread, which waits for the cv thread.      *)
(*                                                                         *)
(* The two reactors belong to the library bfc.  What it leaves open is     *)
(* left open here: the callback of rem_read_rdy runs before the call       *)
(* returns, or later from the loop of the io reactor.                      *)
(***************************************************************************)
EXTENDS Naturals, FiniteSets

CONSTANTS
    Transports,   \* transport objects; each is created at most once
    NoTransport,  \* the obj of a thread that works on none
    Names,        \* the names under which transports are registered
    Requests,     \* pairs of a name and a type that transports are added with
    Commands,     \* the console commands that arrive
    QueueBound    \* BOUND: PDUs in the input queue of a transport

Callers == {"main", "io"}
Types == {"UNICAST", "INTERNAL_MULTICAST", "EXTERNAL_MULTICAST"}
Multicast == {"INTERNAL_MULTICAST", "EXTERNAL_MULTICAST"}

ASSUME RuntimeAssumption ==
    /\ NoTransport \notin Transports
    /\ "none" \notin Names
    /\ Requests \subseteq Names \X Types
    /\ Commands \subseteq {"add", "modify", "delete", "other", "stop"}
    /\ QueueBound \in Nat

(***************************************************************************)
(* node_runtime.hpp, main.cpp: where each thread is, and the registry.     *)
(***************************************************************************)
VARIABLES
    at,              \* what a caller does next, or waits for
    op,              \* the operation of node_runtime a caller is in
    obj,             \* the transport it works on
    task,            \* the step of initialize or deinitialize the io thread is in
    taskBy,          \* the caller that waits for it
    cvAt, cvObj,     \* the cv thread: idle, or at a PDU of a transport
    batch,           \* the PDUs it has still to handle
    running,         \* the reactors that have not been stopped
    console,         \* the listening socket of the console
    stop_requested,
    transports_,     \* the registry
    created,         \* transports that exist or have existed
    torn             \* transports request_stop is done with

(***************************************************************************)
(* The transports, their sockets and what is registered for them.          *)
(***************************************************************************)
VARIABLES
    kind, name,      \* type and name of a transport
    ports,           \* transports whose port the node has, with its handler
    initialized,     \* state == E_TRANSPORT_STATE_INITIALIZED
    sockets,         \* sock is open
    joined,          \* mreq is in force
    target,          \* group_addr or send_address
    inReady,         \* on_in_queue_ready is registered with the cv reactor
    fdReady,         \* on_sock_recv_ready is registered with the io reactor
    removals,        \* rem_read_rdy has still to call back
    promised,        \* deinitialize_promise holds a promise
    fulfilled,       \* its value is set
    in               \* the PDUs in the input queue

callVars == <<at, op, obj>>
taskVars == <<task, taskBy>>
cvVars == <<cvAt, cvObj, batch>>
procVars == <<running, console, stop_requested>>
registry == <<transports_, created, torn, kind, name>>
handles == <<initialized, sockets, joined, target>>
watches == <<inReady, fdReady, removals>>
promises == <<promised, fulfilled>>
vars == <<callVars, taskVars, cvVars, procVars, registry, ports, handles,
          watches, promises, in>>

Opening == {"initialize", "add_port", "emplace"}
Closing == {"rem_port", "deinitialize", "get_future", "wait", "erase"}
MainLabels == Opening \cup Closing \cup
    {"ini", "poll", "console_stop", "request_stop", "tear_down", "clear",
     "uninitialize", "halt_io", "halt_cv", "join", "ended", "undefined"}
IoLabels == Opening \cup Closing \cup {"idle", "ask", "undefined"}

(***************************************************************************)
(* Init: main has constructed the runtime and start() has run both         *)
(* reactors; the node is initialized and has no port yet.                  *)
(***************************************************************************)
Init ==
    /\ at = [c \in Callers |-> IF c = "main" THEN "ini" ELSE "idle"]
    /\ op = [c \in Callers |-> "none"]
    /\ obj = [c \in Callers |-> NoTransport]
    /\ task = "none" /\ taskBy = "main"
    /\ cvAt = "idle" /\ cvObj = NoTransport /\ batch = 0
    /\ running = {"io", "cv"} /\ console = "off" /\ stop_requested = FALSE
    /\ transports_ = {} /\ created = {} /\ torn = {}
    /\ kind = [i \in Transports |-> "none"] /\ name = [i \in Transports |-> "none"]
    /\ ports = {} /\ initialized = {} /\ sockets = {} /\ joined = {}
    /\ target = [i \in Transports |-> "none"]
    /\ inReady = {} /\ fdReady = {} /\ removals = {}
    /\ promised = {} /\ fulfilled = {}
    /\ in = [i \in Transports |-> 0]

-----------------------------------------------------------------------------
(***************************************************************************)
(* dispatch_sync: a task of c runs on the io thread at once when c is the  *)
(* io thread, and else when that thread is back in its loop; on the cv     *)
(* thread, between two of its own callbacks.  c waits until it is over.    *)
(***************************************************************************)
IoLoops == "io" \in running /\ at["io"] = "idle" /\ task = "none"
\* Mutant: a task is queued on the thread that waits for it, too
OnIo_Queued(c) == IoLoops
OnIo(c) == IF c = "io" THEN task = "none" ELSE IoLoops
\* Mutant: a task does not wait until a callback is over
OnCv_AnyTime == "cv" \in running
OnCv == "cv" \in running /\ cvAt = "idle"

Goto(c, label) == at' = [at EXCEPT ![c] = label]

\* the operation returns to main, or to the console command
Return(c) ==
    /\ Goto(c, IF c = "io" THEN "idle" ELSE "ini")
    /\ op' = [op EXCEPT ![c] = "none"]
    /\ obj' = [obj EXCEPT ![c] = NoTransport]

Named(n) == {i \in transports_ : name[i] = n}

Create(c, n, type) ==
    LET i == CHOOSE i \in Transports : i \notin created IN
    /\ created # Transports
    /\ created' = created \cup {i}
    /\ name' = [name EXCEPT ![i] = n]
    /\ kind' = [kind EXCEPT ![i] = type]
    /\ obj' = [obj EXCEPT ![c] = i]

\* add_transport, up to its first dispatch: a free name, the fields its type
\* needs, and the new object
StartAdd(c, n, type) ==
    /\ Named(n) = {}
    /\ Goto(c, "initialize")
    /\ Create(c, n, type)

-----------------------------------------------------------------------------
(***************************************************************************)
(* initialize, on the io thread.  The three transports differ in what they *)
(* set up beside the socket.                                               *)
(***************************************************************************)
OpenUnicast(i) ==
    /\ kind[i] = "UNICAST"
    /\ sockets' = sockets \cup {i}
    /\ UNCHANGED <<joined, target>>

OpenInternalMulticast(i) ==
    /\ kind[i] = "INTERNAL_MULTICAST"
    /\ sockets' = sockets \cup {i}
    /\ joined' = joined \cup {i}
    /\ target' = [target EXCEPT ![i] = "group"]

OpenExternalMulticast(i) ==
    /\ kind[i] = "EXTERNAL_MULTICAST"
    /\ sockets' = sockets \cup {i}
    /\ target' = [target EXCEPT ![i] = "send"]
    /\ UNCHANGED joined

Initialize(c) ==
    LET i == obj[c] IN
    /\ at[c] = "initialize" /\ OnIo(c)
    /\ i \notin initialized
    /\ OpenUnicast(i) \/ OpenInternalMulticast(i) \/ OpenExternalMulticast(i)
    /\ task' = "add_reader" /\ taskBy' = c
    /\ UNCHANGED <<callVars, cvVars, procVars, registry, ports, initialized,
                   watches, promises, in>>

\* Mutant: the socket that could not be bound is not let go
InitializeFails_KeepsSocket(c) ==
    /\ at[c] = "initialize" /\ OnIo(c)
    /\ Goto(c, "add_port")
    /\ sockets' = sockets \cup {obj[c]}
    /\ UNCHANGED <<op, obj, taskVars, cvVars, procVars, registry, ports,
                   initialized, joined, target, watches, promises, in>>

\* a socket that cannot be made, bound or joined is let go, and add_transport
\* goes on without being told
InitializeFails(c) ==
    /\ at[c] = "initialize" /\ OnIo(c)
    /\ Goto(c, "add_port")
    /\ UNCHANGED <<op, obj, taskVars, cvVars, procVars, registry, ports,
                   handles, watches, promises, in>>

AddReader ==
    /\ task = "add_reader" /\ OnCv
    /\ inReady' = inReady \cup {obj[taskBy]}
    /\ task' = "watch"
    /\ UNCHANGED <<callVars, taskBy, cvVars, procVars, registry, ports,
                   handles, fdReady, removals, promises, in>>

Watch ==
    /\ task = "watch"
    /\ fdReady' = fdReady \cup {obj[taskBy]}
    /\ initialized' = initialized \cup {obj[taskBy]}
    /\ task' = "none"
    /\ Goto(taskBy, "add_port")
    /\ UNCHANGED <<op, obj, taskBy, cvVars, procVars, registry, ports,
                   sockets, joined, target, inReady, removals, promises, in>>

\* node::add_port, on the cv thread
AddPort(c) ==
    /\ at[c] = "add_port" /\ OnCv
    /\ ports' = ports \cup {obj[c]}
    /\ Goto(c, "emplace")
    /\ UNCHANGED <<op, obj, taskVars, cvVars, procVars, registry, handles,
                   watches, promises, in>>

Emplace(c) ==
    /\ at[c] = "emplace"
    /\ transports_' = transports_ \cup {obj[c]}
    /\ Return(c)
    /\ UNCHANGED <<taskVars, cvVars, procVars, created, torn, kind, name, ports,
                   handles, watches, promises, in>>

-----------------------------------------------------------------------------
(***************************************************************************)
(* delete_transport and the loop of request_stop: the port leaves the      *)
(* node, then deinitialize closes the transport in steps of both reactors. *)
(***************************************************************************)
RemPort(c) ==
    /\ at[c] = "rem_port" /\ OnCv
    /\ ports' = ports \ {obj[c]}
    /\ Goto(c, "deinitialize")
    /\ UNCHANGED <<op, obj, taskVars, cvVars, procVars, registry, handles,
                   watches, promises, in>>

Deinitialize(c) ==
    LET i == obj[c] IN
    /\ at[c] = "deinitialize" /\ OnIo(c)
    /\ i \in initialized
    /\ promised' = promised \cup {i}
    /\ fulfilled' = fulfilled \ {i}
    /\ initialized' = initialized \ {i}
    /\ joined' = joined \ {i}                   \* IP_DROP_MEMBERSHIP
    /\ task' = "remove_reader" /\ taskBy' = c
    /\ UNCHANGED <<callVars, cvVars, procVars, registry, ports, sockets,
                   target, watches, in>>

\* a transport that was never initialized: the value is set and the promise
\* taken away before the caller comes for its future
DeinitializeIdle(c) ==
    LET i == obj[c] IN
    /\ at[c] = "deinitialize" /\ OnIo(c)
    /\ i \notin initialized
    /\ promised' = promised \ {i}
    /\ fulfilled' = fulfilled \cup {i}
    /\ Goto(c, "get_future")
    /\ UNCHANGED <<op, obj, taskVars, cvVars, procVars, registry, ports,
                   handles, watches, in>>

RemoveReader ==
    /\ task = "remove_reader" /\ OnCv
    /\ inReady' = inReady \ {obj[taskBy]}
    /\ task' = "unwatch"
    /\ UNCHANGED <<callVars, taskBy, cvVars, procVars, registry, ports,
                   handles, fdReady, removals, promises, in>>

\* what the callback of rem_read_rdy does
ReleaseUnicast(i) ==
    /\ kind[i] = "UNICAST"
    /\ sockets' = sockets \ {i}
    /\ UNCHANGED target

ReleaseInternalMulticast(i) ==
    /\ kind[i] = "INTERNAL_MULTICAST"
    /\ sockets' = sockets \ {i}
    /\ target' = [target EXCEPT ![i] = "none"]

ReleaseExternalMulticast(i) ==
    /\ kind[i] = "EXTERNAL_MULTICAST"
    /\ sockets' = sockets \ {i}
    /\ target' = [target EXCEPT ![i] = "none"]

Release(i) ==
    /\ ReleaseUnicast(i) \/ ReleaseInternalMulticast(i) \/ ReleaseExternalMulticast(i)
    /\ fulfilled' = IF i \in promised THEN fulfilled \cup {i} ELSE fulfilled
    /\ promised' = promised \ {i}

\* rem_read_rdy, which calls back at once or later
Unwatch ==
    LET i == obj[taskBy] IN
    /\ task = "unwatch"
    /\ fdReady' = fdReady \ {i}
    /\ \/ Release(i) /\ UNCHANGED removals
       \/ removals' = removals \cup {i} /\ UNCHANGED <<sockets, target, promises>>
    /\ task' = "none"
    /\ Goto(taskBy, "get_future")
    /\ UNCHANGED <<op, obj, taskBy, cvVars, procVars, registry, ports,
                   initialized, joined, inReady, in>>

Removed(i) ==
    /\ i \in removals /\ IoLoops
    /\ Release(i)
    /\ removals' = removals \ {i}
    /\ UNCHANGED <<callVars, taskVars, cvVars, procVars, registry, ports,
                   initialized, joined, inReady, fdReady, in>>

AfterClosing(c) == IF op[c] = "stop" THEN "tear_down" ELSE "erase"

\* deinitialize_promise->get_future(): undefined once the promise is gone
GetFuture(c) ==
    /\ at[c] = "get_future"
    /\ IF obj[c] \in promised THEN Goto(c, "wait")
       ELSE \E label \in {AfterClosing(c), "undefined"} : Goto(c, label)
    /\ torn' = IF at'[c] = "tear_down" THEN torn \cup {obj[c]} ELSE torn
    /\ UNCHANGED <<op, obj, taskVars, cvVars, procVars, transports_, created,
                   kind, name, ports, handles, watches, promises, in>>

FutureReady(c) ==
    /\ at[c] = "wait"
    /\ obj[c] \in fulfilled
    /\ promised' = promised \ {obj[c]}
    /\ Goto(c, AfterClosing(c))
    /\ torn' = IF op[c] = "stop" THEN torn \cup {obj[c]} ELSE torn
    /\ UNCHANGED <<op, obj, taskVars, cvVars, procVars, transports_, created,
                   kind, name, ports, handles, watches, fulfilled, in>>

\* the entry goes, and with it the object, its queues and its promise
Destroy(i) ==
    /\ transports_' = transports_ \ {i}
    /\ in' = [in EXCEPT ![i] = 0]
    /\ promised' = promised \ {i} /\ fulfilled' = fulfilled \ {i}

\* the last step of delete_transport; modify_transport goes on to add the name
\* again, with the same type and a new object, or fails to
Erase(c) ==
    LET i == obj[c] IN
    /\ at[c] = "erase"
    /\ Destroy(i)
    /\ \/ Return(c) /\ UNCHANGED <<created, kind, name>>
       \/ /\ op[c] = "modify"
          /\ Create(c, name[i], kind[i])
          /\ Goto(c, "initialize")
          /\ UNCHANGED op
    /\ UNCHANGED <<taskVars, cvVars, procVars, torn, ports, handles, watches>>

-----------------------------------------------------------------------------
(***************************************************************************)
(* The main thread: load_ini, the console, the poll loop, and the end.     *)
(***************************************************************************)
LoadTransport(n, type) ==
    /\ at["main"] = "ini"
    /\ StartAdd("main", n, type)
    /\ op' = [op EXCEPT !["main"] = "add"]
    /\ UNCHANGED <<taskVars, cvVars, procVars, transports_, torn, ports,
                   handles, watches, promises, in>>

\* console->start; main stops the runtime when it fails
StartConsole ==
    /\ at["main"] = "ini"
    /\ \/ console' = "listening" /\ Goto("main", "poll")
       \/ console' = "failed" /\ Goto("main", "request_stop")
    /\ UNCHANGED <<op, obj, taskVars, cvVars, running, stop_requested, registry,
                   ports, handles, watches, promises, in>>

SeeStop ==
    /\ at["main"] = "poll" /\ stop_requested
    /\ Goto("main", "console_stop")
    /\ UNCHANGED <<op, obj, taskVars, cvVars, procVars, registry, ports,
                   handles, watches, promises, in>>

StopConsole ==
    /\ at["main"] = "console_stop"
    /\ console' = "closed"
    /\ Goto("main", "request_stop")
    /\ UNCHANGED <<op, obj, taskVars, cvVars, running, stop_requested, registry,
                   ports, handles, watches, promises, in>>

\* Mutant: every caller tears down
RequestStop_Always ==
    /\ at["main"] = "request_stop"
    /\ stop_requested' = TRUE
    /\ Goto("main", "tear_down") /\ op' = [op EXCEPT !["main"] = "stop"]
    /\ UNCHANGED <<obj, taskVars, cvVars, running, console, registry, ports,
                   handles, watches, promises, in>>

\* stop_requested.exchange(true): the first caller tears down
RequestStop ==
    /\ at["main"] = "request_stop"
    /\ stop_requested' = TRUE
    /\ IF stop_requested
       THEN Goto("main", "join") /\ UNCHANGED op
       ELSE Goto("main", "tear_down") /\ op' = [op EXCEPT !["main"] = "stop"]
    /\ UNCHANGED <<obj, taskVars, cvVars, running, console, registry, ports,
                   handles, watches, promises, in>>

TearDownNext ==
    /\ at["main"] = "tear_down"
    /\ \/ \E i \in transports_ \ torn :
             /\ obj' = [obj EXCEPT !["main"] = i]
             /\ Goto("main", "rem_port")
       \/ /\ transports_ \subseteq torn
          /\ obj' = [obj EXCEPT !["main"] = NoTransport]
          /\ Goto("main", "clear")
    /\ UNCHANGED <<op, taskVars, cvVars, procVars, registry, ports, handles,
                   watches, promises, in>>

\* Mutant: the reactors are stopped before the node is uninitialized
Clear_ReactorsFirst ==
    /\ at["main"] = "clear" /\ transports_ = {}
    /\ running' = {}
    /\ Goto("main", "uninitialize")
    /\ UNCHANGED <<op, obj, taskVars, cvVars, console, stop_requested, registry,
                   ports, handles, watches, promises, in>>

\* transports_.clear(): every destructor waits for the io thread once more
Clear ==
    /\ at["main"] = "clear"
    /\ \/ /\ IoLoops
          /\ \E i \in transports_ : Destroy(i)
          /\ UNCHANGED at
       \/ /\ transports_ = {}
          /\ Goto("main", "uninitialize")
          /\ UNCHANGED <<transports_, promises, in>>
    /\ UNCHANGED <<op, obj, taskVars, cvVars, procVars, created, torn, kind, name,
                   ports, handles, watches>>

Uninitialize ==
    /\ at["main"] = "uninitialize" /\ OnCv
    /\ ports' = {}
    /\ Goto("main", "halt_io")
    /\ UNCHANGED <<op, obj, taskVars, cvVars, procVars, registry, handles,
                   watches, promises, in>>

\* io_reactor->stop(), then cv_reactor->stop()
Halt ==
    /\ \/ at["main"] = "halt_io" /\ running' = running \ {"io"} /\ Goto("main", "halt_cv")
       \/ at["main"] = "halt_cv" /\ running' = running \ {"cv"} /\ Goto("main", "join")
    /\ UNCHANGED <<op, obj, taskVars, cvVars, console, stop_requested, registry,
                   ports, handles, watches, promises, in>>

\* wait(): both threads have left run()
Join ==
    /\ at["main"] = "join"
    /\ running = {} /\ at["io"] = "idle" /\ task = "none" /\ cvAt = "idle"
    /\ Goto("main", "ended")
    /\ UNCHANGED <<op, obj, taskVars, cvVars, procVars, registry, ports,
                   handles, watches, promises, in>>

-----------------------------------------------------------------------------
(***************************************************************************)
(* A line of a console client, handled on the io thread.  Every command    *)
(* but those on transports asks the node, on the cv thread.                *)
(***************************************************************************)
Command(c) == c \in Commands /\ console = "listening" /\ IoLoops

CommandAdd(n, type) ==
    /\ Command("add")
    /\ StartAdd("io", n, type)
    /\ op' = [op EXCEPT !["io"] = "add"]
    /\ UNCHANGED <<taskVars, cvVars, procVars, transports_, torn, ports,
                   handles, watches, promises, in>>

CommandRemove(c, i) ==
    /\ c \in {"delete", "modify"} /\ Command(c)
    /\ i \in transports_
    /\ Goto("io", "rem_port")
    /\ op' = [op EXCEPT !["io"] = c]
    /\ obj' = [obj EXCEPT !["io"] = i]
    /\ UNCHANGED <<taskVars, cvVars, procVars, registry, ports, handles,
                   watches, promises, in>>

CommandOther ==
    /\ Command("other")
    /\ Goto("io", "ask")
    /\ op' = [op EXCEPT !["io"] = "other"]
    /\ UNCHANGED <<obj, taskVars, cvVars, procVars, registry, ports, handles,
                   watches, promises, in>>

NodeAnswers ==
    /\ at["io"] = "ask" /\ OnCv
    /\ Return("io")
    /\ UNCHANGED <<taskVars, cvVars, procVars, registry, ports, handles,
                   watches, promises, in>>

\* /stop: signal_stop
CommandStop ==
    /\ Command("stop")
    /\ stop_requested' = TRUE
    /\ UNCHANGED <<callVars, taskVars, cvVars, running, console, registry,
                   ports, handles, watches, promises, in>>

-----------------------------------------------------------------------------
(***************************************************************************)
(* Traffic.  The node pushes PDUs; a transport takes what is there as one  *)
(* batch and looks at its state before every PDU.  What goes to the output *)
(* queue (received PDUs, reports of failed ones) changes nothing here: the *)
(* node ignores the reports, and handle_pdu has modules of its own.        *)
(***************************************************************************)
NodePushes(i) ==
    /\ OnCv /\ i \in ports
    /\ in[i] < QueueBound
    /\ in' = [in EXCEPT ![i] = @ + 1]
    /\ UNCHANGED <<callVars, taskVars, cvVars, procVars, registry, ports,
                   handles, watches, promises>>

\* on_in_queue_ready
TakeBatch(i) ==
    /\ OnCv /\ i \in inReady /\ in[i] > 0
    /\ cvAt' = "check" /\ cvObj' = i /\ batch' = in[i]
    /\ in' = [in EXCEPT ![i] = 0]
    /\ UNCHANGED <<callVars, taskVars, procVars, registry, ports, handles,
                   watches, promises>>

NextPdu ==
    /\ batch' = batch - 1
    /\ IF batch = 1 THEN cvAt' = "idle" /\ cvObj' = NoTransport
                    ELSE cvAt' = "check" /\ UNCHANGED cvObj

\* handle: a PDU for a transport that is not initialized is reported
Check ==
    /\ cvAt = "check"
    /\ \/ cvObj \in initialized /\ cvAt' = "send" /\ UNCHANGED <<cvObj, batch>>
       \/ cvObj \notin initialized /\ NextPdu
    /\ UNCHANGED <<callVars, taskVars, procVars, registry, ports, handles,
                   watches, promises, in>>

Send ==
    /\ cvAt = "send"
    /\ NextPdu
    /\ UNCHANGED <<callVars, taskVars, procVars, registry, ports, handles,
                   watches, promises, in>>

\* where send is called to for a PDU with address d (of no family, v4 or v6):
\* "none" stands for a PDU that is reported as failed instead
UnicastRoute(d) == d
InternalMulticastRoute(i, d) ==
    CASE d = "none" -> target[i] [] d = "v6" -> "none" [] OTHER -> d
ExternalMulticastRoute(i) == target[i]

Route(i, d) ==
    CASE kind[i] = "UNICAST"            -> UnicastRoute(d)
      [] kind[i] = "INTERNAL_MULTICAST" -> InternalMulticastRoute(i, d)
      [] OTHER                          -> ExternalMulticastRoute(i)

-----------------------------------------------------------------------------
Call(c) ==
    \/ Initialize(c) \/ InitializeFails(c) \/ AddPort(c) \/ Emplace(c)
    \/ RemPort(c) \/ Deinitialize(c) \/ DeinitializeIdle(c)
    \/ GetFuture(c) \/ FutureReady(c) \/ Erase(c)

Task == AddReader \/ Watch \/ RemoveReader \/ Unwatch

Main == StartConsole \/ SeeStop \/ StopConsole \/ RequestStop \/ TearDownNext
        \/ Clear \/ Uninitialize \/ Halt \/ Join

Input ==
    \/ \E r \in Requests : LoadTransport(r[1], r[2]) \/ CommandAdd(r[1], r[2])
    \/ \E c \in {"delete", "modify"}, i \in Transports : CommandRemove(c, i)
    \/ CommandOther \/ CommandStop

Traffic == Check \/ Send \/ \E i \in Transports : NodePushes(i) \/ TakeBatch(i)

Next ==
    \/ \E c \in Callers : Call(c)
    \/ Task \/ Main \/ Input \/ Traffic \/ NodeAnswers
    \/ \E i \in Transports : Removed(i)

Spec == Init /\ [][Next]_vars

(***************************************************************************)
(* The threads run, a PDU in the hands of the cv thread is dealt with, and *)
(* a reactor serves what is queued for it between its other callbacks.     *)
(* Nothing makes a command or a PDU arrive.                                *)
(***************************************************************************)
Fairness ==
    /\ SF_vars(Call("main")) /\ SF_vars(Call("io") \/ NodeAnswers)
    /\ SF_vars(Task) /\ SF_vars(\E i \in Transports : Removed(i))
    /\ WF_vars(Main) /\ WF_vars(Check \/ Send)

FairSpec == Spec /\ Fairness

-----------------------------------------------------------------------------
TypeOK ==
    /\ at \in [Callers -> MainLabels \cup IoLabels]
    /\ at["main"] \in MainLabels /\ at["io"] \in IoLabels
    /\ op \in [Callers -> {"none", "add", "modify", "delete", "other", "stop"}]
    /\ obj \in [Callers -> Transports \cup {NoTransport}]
    /\ task \in {"none", "add_reader", "watch", "remove_reader", "unwatch"}
    /\ taskBy \in Callers
    /\ cvAt \in {"idle", "check", "send"}
    /\ cvObj \in Transports \cup {NoTransport}
    /\ batch \in 0..QueueBound
    /\ running \subseteq {"io", "cv"}
    /\ console \in {"off", "listening", "failed", "closed"}
    /\ stop_requested \in BOOLEAN
    /\ kind \in [Transports -> Types \cup {"none"}]
    /\ name \in [Transports -> Names \cup {"none"}]
    /\ target \in [Transports -> {"none", "group", "send"}]
    /\ in \in [Transports -> 0..QueueBound]
    /\ transports_ \cup created \cup torn \subseteq Transports
    /\ ports \cup initialized \cup sockets \cup joined \subseteq Transports
    /\ inReady \cup fdReady \cup removals \subseteq Transports
    /\ promised \cup fulfilled \subseteq Transports

\* The cv thread sends without a lock on a transport that the io thread may be
\* closing: while a PDU is in its hands the socket is open, and a beacon, which
\* has no address of its own, still has the destination of a multicast
\* transport (udp_*_transport.cpp: handle against the callback of rem_read_rdy).
SenderHasSocket ==
    cvAt = "send" =>
        /\ cvObj \in sockets
        /\ kind[cvObj] \in Multicast => Route(cvObj, "none") # "none"

\* transports_ has no lock: main and the io thread are never both in an
\* operation that reads or writes it (node_runtime.cpp: add_, modify_,
\* delete_transport, request_stop).
Using(c) == at[c] \in Opening \cup Closing \cup {"tear_down", "clear"}
RegistryExclusive == ~(Using("main") /\ Using("io"))

\* Between operations the four places that know a transport agree: it is
\* registered exactly when the node has its port; its socket, its membership,
\* its destination and its two handlers are there exactly while it is
\* initialized; and nothing is left of one that is not registered.
Busy(i) ==
    \/ \E c \in Callers : obj[c] = i
    \/ i \in removals \/ i \in torn
BooksAgree ==
    \A i \in Transports : ~Busy(i) =>
        /\ i \in transports_ <=> i \in ports
        /\ i \in initialized => i \in transports_
        /\ i \in initialized <=> i \in sockets
        /\ i \in initialized <=> i \in inReady
        /\ i \in initialized <=> i \in fdReady
        /\ i \in joined <=> i \in initialized /\ kind[i] = "INTERNAL_MULTICAST"
        /\ target[i] # "none" <=> i \in initialized /\ kind[i] \in Multicast

\* Adding a transport from the console ends: the io thread waits for the cv
\* thread, which never waits for it (initialize, add_port).
AddCompletes == op["io"] = "add" ~> at["io"] = "idle"

\* When the console cannot start, main takes everything down in an order in
\* which nobody waits for a reactor that has been stopped, and ends.
FailedStartEnds == console = "failed" ~> at["main"] \in {"ended", "undefined"}

\* /stop ends the process.
StopEndsProcess == stop_requested ~> at["main"] = "ended"

=============================================================================
