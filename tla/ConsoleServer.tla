---------------------------- MODULE ConsoleServer ----------------------------
(***************************************************************************)
(* console_server: the TCP sessions of the node console.  One io thread    *)
(* runs the callbacks of the reactor, one at a time; clients send, read    *)
(* and disconnect at any moment, file descriptors are used again, and the  *)
(* main thread closes everything after /stop without asking the io thread. *)
(*                                                                         *)
(* What a client sends is a sequence of tokens: the text of a command, the *)
(* text of something that is none, a carriage return or a line feed.  It   *)
(* is sent in pieces, which the io thread takes as they have come.  A      *)
(* reply has two parts, so that the socket may take one without the other. *)
(***************************************************************************)
EXTENDS Integers, FiniteSets, FiniteSetsExt, Sequences, SequencesExt

CONSTANTS
    Clients,    \* the programs that connect, each at most once
    NoClient,   \* the entry of a file descriptor that is not in clients_
    Script,     \* the tokens each client sends, as far as it gets
    Cuts,       \* after which of them what it sends may be cut
    Capacity,   \* BOUND: parts of replies the socket of a client can hold
    MaxLines    \* BOUND: lines of one session

ASSUME ConsoleAssumption ==
    /\ IsFiniteSet(Clients) /\ NoClient \notin Clients
    /\ Script \in [Clients -> Seq(STRING)] /\ Cuts \in [Clients -> SUBSET Nat]
    /\ Capacity \in Nat \ {0} /\ MaxLines \in Nat

VARIABLES
    \* the clients and the kernel
    sent, recvd,    \* how many tokens it has sent, and the io thread has taken
    ended,          \* no, eof (its side is shut), reset
    backlog,        \* clients waiting to be accepted
    session,        \* none, open or closed, as the client sees it
    received,       \* parts of replies its socket has taken
    unread,         \* how many of them it has not read
    \* console_server
    listening,      \* listen_sock_ is open
    clients_,       \* the client_s of a file descriptor
    read_buf, write_buf, write_armed,
    stop_requested,
    \* the io reactor and the threads
    readers, writers,   \* file descriptors with a callback
    requested,          \* req_write is pending
    io, ioFd,           \* what the io thread is in, and for whom
    main

clientVars == <<sent, ended, unread>>
kernelVars == <<recvd, received, backlog, session>>
bufVars == <<read_buf, write_buf, write_armed>>
reactorVars == <<readers, writers, requested>>
threadVars == <<io, ioFd, main>>
vars == <<clientVars, kernelVars, listening, clients_, bufVars, stop_requested,
          reactorVars, threadVars>>

FDs == 1..Cardinality(Clients)

Init ==
    /\ sent = [c \in Clients |-> 0] /\ recvd = [c \in Clients |-> 0]
    /\ ended = [c \in Clients |-> "no"]
    /\ backlog = {} /\ session = [c \in Clients |-> "none"]
    /\ received = [c \in Clients |-> << >>] /\ unread = [c \in Clients |-> 0]
    /\ listening = TRUE
    /\ clients_ = [fd \in FDs |-> NoClient]
    /\ read_buf = [c \in Clients |-> << >>] /\ write_buf = [c \in Clients |-> << >>]
    /\ write_armed = [c \in Clients |-> FALSE]
    /\ stop_requested = FALSE
    /\ readers = {} /\ writers = {} /\ requested = {}
    /\ io = "loop" /\ ioFd = 0 /\ main = "poll"


-----------------------------------------------------------------------------
(***************************************************************************)
(* parser.hpp, console_commands.cpp, table.hpp, up to what tells replies   *)
(* apart.  A line is what lies between two line feeds; one carriage return *)
(* before the line feed belongs to it.                                     *)
(***************************************************************************)
parse_command(line) == IF line[1] \in {"list", "add", "stop"} THEN line[1] ELSE "none"
dispatch_command(cmd) == cmd
frame_reply(body) == <<body, "blank line">>

Chomp(line) ==
    IF line # << >> /\ Last(line) = "cr" THEN Front(line) ELSE line

-----------------------------------------------------------------------------
(***************************************************************************)
(* The clients, and the kernel between them and the server.                *)
(***************************************************************************)
Arrived(c) == SubSeq(Script[c], recvd[c] + 1, sent[c])
Space(c) == Capacity - unread[c]

ClientConnects(c) ==
    /\ listening /\ session[c] = "none" /\ c \notin backlog
    /\ backlog' = backlog \cup {c}
    /\ UNCHANGED <<clientVars, recvd, received, session, listening, clients_,
                   bufVars, stop_requested, reactorVars, threadVars>>

ClientSends(c) ==
    /\ (session[c] = "open" \/ c \in backlog) /\ ended[c] = "no"
    /\ \E n \in Cuts[c] : /\ sent[c] < n /\ n <= Len(Script[c])
                          /\ sent' = [sent EXCEPT ![c] = n]
    /\ UNCHANGED <<ended, unread, kernelVars, listening, clients_,
                   bufVars, stop_requested, reactorVars, threadVars>>

ClientReads(c) ==
    /\ unread[c] > 0 /\ ended[c] # "reset"
    /\ unread' = [unread EXCEPT ![c] = 0]
    /\ UNCHANGED <<sent, ended, kernelVars, listening, clients_,
                   bufVars, stop_requested, reactorVars, threadVars>>

ClientLeaves(c) ==
    /\ session[c] = "open" \/ c \in backlog
    /\ \/ ended[c] = "no" /\ ended' = [ended EXCEPT ![c] = "eof"]
       \/ ended[c] # "reset" /\ ended' = [ended EXCEPT ![c] = "reset"]
    /\ UNCHANGED <<sent, unread, kernelVars, listening, clients_,
                   bufVars, stop_requested, reactorVars, threadVars>>

-----------------------------------------------------------------------------
(***************************************************************************)
(* The callbacks of the reactor, on the io thread.                         *)
(***************************************************************************)
In(label, fd) == io = label /\ ioFd = fd
Enter(label, fd) == io' = label /\ ioFd' = fd
Leave == io' = "loop" /\ ioFd' = 0

\* Mutant: the last character stays in the buffer.
Rest_FromLast(buf, n) == SubSeq(buf, n, Len(buf))
Rest(buf, n) == SubSeq(buf, n + 1, Len(buf))

\* Mutant: the write callback of a closed client stays.
CloseClient_KeepsWriter(fd) ==
    /\ clients_' = [clients_ EXCEPT ![fd] = NoClient]
    /\ session' = [session EXCEPT ![clients_[fd]] = "closed"]
    /\ readers' = readers \ {fd}
    /\ UNCHANGED <<writers, requested>>

\* the reactor may or may not drop a request that is pending at rem_write_rdy
CloseClient(fd) ==
    LET c == clients_[fd] IN
    /\ clients_' = [clients_ EXCEPT ![fd] = NoClient]
    /\ session' = [session EXCEPT ![c] = "closed"]
    /\ readers' = readers \ {fd}
    /\ writers' = IF write_armed[c] THEN writers \ {fd} ELSE writers
    /\ requested' \in {requested, requested \ {fd}}

OnAcceptReady ==
    /\ io = "loop" /\ listening /\ backlog # {}
    /\ Enter("accept", 0)
    /\ UNCHANGED <<clientVars, kernelVars, listening, clients_, bufVars,
                   stop_requested, reactorVars, main>>

\* one turn of the loop; the kernel hands out the least free descriptor
Accept ==
    /\ io = "accept" /\ listening
    /\ IF backlog = {}
       THEN Leave /\ UNCHANGED <<backlog, session, clients_, readers>>
       ELSE LET fd == Min({f \in FDs : clients_[f] = NoClient}) IN
            /\ \E c \in backlog :
                  /\ backlog' = backlog \ {c}
                  /\ session' = [session EXCEPT ![c] = "open"]
                  /\ clients_' = [clients_ EXCEPT ![fd] = c]
            /\ readers' = readers \cup {fd}
            /\ UNCHANGED <<io, ioFd>>
    /\ UNCHANGED <<clientVars, recvd, received, listening, bufVars,
                   stop_requested, writers, requested, main>>

Readable(c) == Arrived(c) # << >> \/ ended[c] # "no"

OnClientRead(fd) ==
    /\ io = "loop" /\ fd \in readers
    /\ clients_[fd] # NoClient /\ Readable(clients_[fd])
    /\ Enter("recv", fd)
    /\ UNCHANGED <<clientVars, kernelVars, listening, clients_, bufVars,
                   stop_requested, reactorVars, main>>

\* recv until there is nothing more: what has come is kept, an end of the
\* stream and an error close the client before its lines are looked at
Recv ==
    LET c == clients_[ioFd] IN
    /\ io = "recv" /\ c # NoClient
    /\ \/ /\ Arrived(c) # << >> /\ ended[c] # "reset"
          /\ read_buf' = [read_buf EXCEPT ![c] = @ \o Arrived(c)]
          /\ recvd' = [recvd EXCEPT ![c] = sent[c]]
          /\ UNCHANGED <<session, clients_, reactorVars, io, ioFd>>
       \/ /\ (Arrived(c) = << >> /\ ended[c] = "eof") \/ ended[c] = "reset"
          /\ CloseClient(ioFd)
          /\ Leave
          /\ UNCHANGED <<read_buf, recvd>>
       \/ /\ Arrived(c) = << >> /\ ended[c] = "no"
          /\ Enter("lines", ioFd)
          /\ UNCHANGED <<read_buf, recvd, session, clients_, reactorVars>>
    /\ UNCHANGED <<clientVars, received, backlog, listening, write_buf,
                   write_armed, stop_requested, main>>

\* Mutant: what is still in the buffer is overwritten.
QueueWrite_Replaces(fd, data) ==
    LET c == clients_[fd] IN
    /\ write_buf' = [write_buf EXCEPT ![c] = data]
    /\ write_armed' = [write_armed EXCEPT ![c] = TRUE]
    /\ writers' = writers \cup {fd}
    /\ requested' = requested \cup {fd}

QueueWrite(fd, data) ==
    LET c == clients_[fd] IN
    /\ write_buf' = [write_buf EXCEPT ![c] = @ \o data]
    /\ write_armed' = [write_armed EXCEPT ![c] = TRUE]
    /\ writers' = IF write_armed[c] THEN writers ELSE writers \cup {fd}
    /\ requested' = requested \cup {fd}

\* handle_line for one line of the buffer, or the end of on_client_read
HandleLine(fd, line) ==
    LET cmd == parse_command(line) IN
    /\ IF cmd = "none" THEN QueueWrite(fd, frame_reply("parse error"))
                       ELSE QueueWrite(fd, frame_reply(dispatch_command(cmd)))
    /\ stop_requested' = (stop_requested \/ cmd = "stop")

NextLine ==
    LET c   == clients_[ioFd]
        pos == SelectInSeq(read_buf[c], LAMBDA t : t = "nl")
        line == Chomp(SubSeq(read_buf[c], 1, pos - 1)) IN
    /\ io = "lines" /\ c # NoClient
    /\ \/ /\ pos = 0
          /\ Leave
          /\ UNCHANGED <<bufVars, stop_requested, writers, requested>>
       \/ /\ pos # 0
          /\ read_buf' = [read_buf EXCEPT ![c] = Rest(@, pos)]
          /\ IF line = << >>
             THEN UNCHANGED <<write_buf, write_armed, stop_requested, writers, requested>>
             ELSE HandleLine(ioFd, line)
          /\ UNCHANGED <<io, ioFd>>
    /\ UNCHANGED <<clientVars, kernelVars, listening, clients_, readers, main>>

\* a request is over when its callback runs
OnClientWrite(fd) ==
    LET c == clients_[fd] IN
    /\ io = "loop" /\ fd \in writers \cap requested
    /\ c = NoClient \/ Space(c) > 0 \/ ended[c] = "reset"
    /\ requested' = requested \ {fd}
    /\ IF c = NoClient THEN UNCHANGED <<io, ioFd>> ELSE Enter("send", fd)
    /\ UNCHANGED <<clientVars, kernelVars, listening, clients_, bufVars,
                   stop_requested, readers, writers, main>>

\* how much of the buffer the socket takes
Taken(c) == Min({Space(c), Len(write_buf[c])})

\* EAGAIN.  Mutant: the next callback is not asked for.
TryAgain_Forgotten(fd) == UNCHANGED requested
TryAgain(fd) == requested' = requested \cup {fd}

Send ==
    LET c == clients_[ioFd]
        n == Taken(c) IN
    /\ io = "send" /\ c # NoClient
    /\ \/ /\ write_buf[c] = << >>
          /\ Leave
          /\ UNCHANGED <<write_buf, received, unread, session, clients_, reactorVars>>
       \/ /\ write_buf[c] # << >> /\ ended[c] # "reset" /\ n > 0
          /\ write_buf' = [write_buf EXCEPT ![c] = Rest(@, n)]
          /\ received' = [received EXCEPT ![c] = @ \o SubSeq(write_buf[c], 1, n)]
          /\ unread' = [unread EXCEPT ![c] = @ + n]
          /\ UNCHANGED <<io, ioFd, session, clients_, reactorVars>>
       \/ /\ write_buf[c] # << >> /\ ended[c] # "reset" /\ n = 0
          /\ TryAgain(ioFd)
          /\ Leave
          /\ UNCHANGED <<write_buf, received, unread, session, clients_, readers, writers>>
       \/ /\ write_buf[c] # << >> /\ ended[c] = "reset"
          /\ CloseClient(ioFd)
          /\ Leave
          /\ UNCHANGED <<write_buf, received, unread>>
    /\ UNCHANGED <<sent, ended, recvd, backlog, listening, read_buf,
                   write_armed, stop_requested, main>>

-----------------------------------------------------------------------------
(***************************************************************************)
(* stop, on the main thread, which knows nothing of what the io thread is  *)
(* in.  While both are at clients_ anything may happen to the latter.      *)
(***************************************************************************)
Stop ==
    /\ main = "poll" /\ stop_requested
    /\ main' = "close"
    /\ listening' = FALSE /\ backlog' = {}
    /\ UNCHANGED <<clientVars, recvd, received, session, clients_, bufVars,
                   stop_requested, reactorVars, io, ioFd>>

StopClient(fd) ==
    /\ main = "close" /\ clients_[fd] # NoClient
    /\ CloseClient(fd)
    /\ UNCHANGED <<clientVars, recvd, received, backlog, listening, bufVars,
                   stop_requested, threadVars>>

Stopped ==
    /\ main = "close" /\ \A fd \in FDs : clients_[fd] = NoClient
    /\ main' = "stopped"
    /\ UNCHANGED <<clientVars, kernelVars, listening, clients_, bufVars,
                   stop_requested, reactorVars, io, ioFd>>

Race ==
    /\ main # "poll" /\ io \notin {"loop", "undefined"}
    /\ Enter("undefined", 0)
    /\ UNCHANGED <<clientVars, kernelVars, listening, clients_, bufVars,
                   stop_requested, reactorVars, main>>

-----------------------------------------------------------------------------
Client == \E c \in Clients :
    ClientConnects(c) \/ ClientSends(c) \/ ClientReads(c) \/ ClientLeaves(c)
Callback == Accept \/ Recv \/ NextLine \/ Send
Main == Stop \/ Stopped \/ \E fd \in FDs : StopClient(fd)

Next ==
    \/ Client \/ OnAcceptReady \/ Callback \/ Main \/ Race
    \/ \E fd \in FDs : OnClientRead(fd) \/ OnClientWrite(fd)

Spec == Init /\ [][Next]_vars

(***************************************************************************)
(* A callback runs to its end, and the reactor serves every descriptor     *)
(* that stays ready; a client that stays reads what has come.  No client   *)
(* has to connect or to send.                                              *)
(***************************************************************************)
Fairness ==
    /\ WF_vars(Callback) /\ SF_vars(OnAcceptReady)
    /\ \A fd \in FDs : SF_vars(OnClientRead(fd)) /\ SF_vars(OnClientWrite(fd))
    /\ \A c \in Clients : WF_vars(ClientReads(c))

FairSpec == Spec /\ Fairness

-----------------------------------------------------------------------------
(***************************************************************************)
(* The refinement.  What has been asked are the lines of all that a client *)
(* has sent; what has been answered are those of what the io thread has    *)
(* taken out of the buffer.                                                *)
(***************************************************************************)
LineAt(tokens, n) ==
    LET feeds == {i \in 1..n - 1 : tokens[i] = "nl"}
    IN  Chomp(SubSeq(tokens, Max({0} \cup feeds) + 1, n - 1))

\* the lines that the first n tokens hold, for each n
LinesOf(tokens) ==
    LET said[n \in 0..Len(tokens)] ==
            IF n = 0 THEN << >>
            ELSE IF tokens[n] # "nl" \/ LineAt(tokens, n) = << >> THEN said[n - 1]
            ELSE Append(said[n - 1], LineAt(tokens, n))
    IN  [n \in 0..Len(tokens) |-> said[n]]
Said == [c \in Clients |-> LinesOf(Script[c])]

Promise == INSTANCE ConsoleSession WITH
    asked    <- [c \in Clients |-> Said[c][sent[c]]],
    answered <- [c \in Clients |-> Len(Said[c][recvd[c] - Len(read_buf[c])])],
    gone     <- {c \in Clients : ended[c] # "no"},
    stopping <- stop_requested

\* Whatever the clients do and however their bytes are cut up, the server does
\* what ConsoleSession promises (console_server.cpp against docs/console.md).
KeepsThePromise == Promise!Spec
EveryLineAnswered == Promise!EveryLineAnswered

Parts == {"list", "add", "stop", "parse error", "blank line"}

TypeOK ==
    /\ recvd \in [Clients -> Nat] /\ sent \in [Clients -> Nat]
    /\ \A c \in Clients : recvd[c] <= sent[c] /\ sent[c] <= Len(Script[c])
    /\ ended \in [Clients -> {"no", "eof", "reset"}]
    /\ session \in [Clients -> {"none", "open", "closed"}]
    /\ backlog \subseteq Clients
    /\ unread \in [Clients -> 0..Capacity]
    /\ clients_ \in [FDs -> Clients \cup {NoClient}]
    /\ read_buf \in [Clients -> Seq(STRING)] /\ write_buf \in [Clients -> Seq(Parts)]
    /\ \A c \in Clients : Len(read_buf[c]) <= recvd[c]
    /\ received \in [Clients -> Seq(Parts)]
    /\ listening \in BOOLEAN /\ stop_requested \in BOOLEAN
    /\ write_armed \in [Clients -> BOOLEAN]
    /\ readers \cup writers \cup requested \subseteq FDs
    /\ io \in {"loop", "accept", "recv", "lines", "send", "undefined"}
    /\ ioFd \in FDs \cup {0}
    /\ main \in {"poll", "close", "stopped"}

\* Bytes in write_buf never wait for a callback that nobody has asked for: the
\* callback is registered and requested, unless it is running
\* (queue_write, on_client_write).
WritesArePending ==
    \A fd \in FDs :
        clients_[fd] # NoClient /\ write_buf[clients_[fd]] # << >> /\ ioFd # fd
        /\ io # "undefined"
            => fd \in writers \cap requested

\* A descriptor is used again as soon as it is closed: the callbacks that are
\* registered for it are those of the client that has it now
\* (on_accept_ready, close_client).
CallbacksMatchClients ==
    \A fd \in FDs :
        /\ fd \in readers <=> clients_[fd] # NoClient
        /\ fd \in writers <=> clients_[fd] # NoClient /\ write_armed[clients_[fd]]

=============================================================================
