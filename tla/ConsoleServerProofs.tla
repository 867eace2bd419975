------------------------- MODULE ConsoleServerProofs -------------------------
(***************************************************************************)
(* Theorems about the console server: its callbacks match its clients,     *)
(* bytes that wait to be written wait for a callback that will come, and it *)
(* implements the session every client is promised.                        *)
(*                                                                         *)
(* The invariant IInv says where a client stands with the server and with  *)
(* the reactor.  RInv adds what has gone through the two buffers: read_buf *)
(* holds what follows the last line taken out of it, and what a client has *)
(* received and what is still in write_buf are the replies to the lines    *)
(* taken out.  Every step then is a step of ConsoleSession or a stutter.   *)
(***************************************************************************)
EXTENDS ConsoleServer, TLAPS, FiniteSetTheorems, WellFoundedInduction

\* A client has one descriptor at most and is open while it has one; a reply
\* in write_buf has armed the write callback; a callback runs for a descriptor.
Places ==
    /\ \A fd, other \in FDs :
          clients_[fd] # NoClient /\ clients_[other] = clients_[fd] => other = fd
    /\ \A fd \in FDs : clients_[fd] # NoClient => session[clients_[fd]] = "open"
    /\ \A c \in backlog : session[c] = "none"
    /\ \A c \in Clients : session[c] = "none" => ~write_armed[c]
    /\ \A c \in Clients : write_buf[c] # << >> => write_armed[c]
    /\ io \in {"recv", "lines", "send"} => ioFd \in FDs

\* WritesArePending, for any client of clients_: the callback that will write
\* the buffer is registered and requested.
Pending == io # "undefined" => \A fd \in FDs :
    clients_[fd] # NoClient /\ write_buf[clients_[fd]] # << >> /\ ~In("send", fd)
        => fd \in writers \cap requested

IInv == TypeOK /\ Places /\ CallbacksMatchClients /\ Pending

-----------------------------------------------------------------------------
(***************************************************************************)
(* What the actions take for granted: a least element, and a descriptor for *)
(* every client that is accepted.                                          *)
(***************************************************************************)

\* Min picks the least element.
LEMMA LeastExists ==
    ASSUME NEW S, S \subseteq Nat, S # {}
    PROVE  Min(S) \in S /\ \A y \in S : Min(S) <= y
<1> DEFINE R == OpToRel(<, Nat)
<1>1. PICK x \in S : \A y \in S : <<y, x>> \notin R
  BY NatLessThanWellFounded, WFMin, Zenon
<1>2. \A y \in S : x <= y
  <2> SUFFICES ASSUME NEW y \in S, ~(x <= y) PROVE FALSE
    OBVIOUS
  <2>1. <<y, x>> \in R
    BY y < x, x \in Nat, y \in Nat DEF OpToRel
  <2> QED
    BY <1>1, <2>1
<1> QED
  BY <1>2 DEF Min

\* There are as many descriptors as clients, and 0 is none of them.
LEMMA FDsFinite == IsFiniteSet(FDs) /\ Cardinality(FDs) = Cardinality(Clients) /\ FDs \subseteq Nat \ {0}
<1>1. Cardinality(Clients) \in Nat
  BY ConsoleAssumption, FS_CardinalityType
<1> DEFINE k == Cardinality(Clients)
<1>2. FDs = 1..k
  BY DEF FDs
<1> HIDE DEF k
<1>3. IsFiniteSet(1..k) /\ Cardinality(1..k) = IF 1 > k THEN 0 ELSE k - 1 + 1
  BY <1>1, FS_Interval DEF k
<1>4. k \in Nat
  BY <1>1 DEF k
<1> QED
  BY <1>2, <1>3, <1>4 DEF k

\* accept never runs out of descriptors: a client that waits in the backlog
\* holds none, so one is free.
LEMMA FreeDescriptor ==
    ASSUME TypeOK, Places, backlog # {}
    PROVE  LET fd == Min({f \in FDs : clients_[f] = NoClient})
           IN  fd \in FDs /\ clients_[fd] = NoClient
<1> DEFINE free == {f \in FDs : clients_[f] = NoClient}
<1>1. PICK c \in Clients : c \in backlog
  BY DEF TypeOK
<1>2. free # {}
  <2> SUFFICES ASSUME free = {} PROVE FALSE
    OBVIOUS
  <2> DEFINE others == Clients \ {c}
  <2>1. clients_ \in [FDs -> others]
    BY <1>1 DEF TypeOK, Places
  <2>2. IsFiniteSet(others) /\ Cardinality(others) < Cardinality(FDs)
    <3>1. IsFiniteSet(others) /\ Cardinality(others) = Cardinality(Clients) - 1
      BY <1>1, FS_RemoveElement, ConsoleAssumption
    <3>2. Cardinality(Clients) \in Nat
      BY ConsoleAssumption, FS_CardinalityType
    <3> QED
      BY <3>1, <3>2, FDsFinite
  <2> HIDE DEF others
  <2>3. PICK x, y \in FDs : x # y /\ clients_[x] = clients_[y]
    <3>1. IsFiniteSet(FDs)
      BY FDsFinite
    <3> QED
      BY <2>1, <2>2, <3>1, FS_PigeonHole
  <2> QED
    BY <2>3 DEF Places
<1>3. free \subseteq Nat
  BY FDsFinite
<1>4. Min(free) \in free
  BY <1>2, <1>3, LeastExists
<1> QED
  BY <1>4

\* The socket takes what there is, or what there is room for.
LEMMA TakenType ==
    ASSUME TypeOK, NEW c \in Clients
    PROVE  /\ Taken(c) \in Nat /\ Taken(c) <= Space(c) /\ Taken(c) <= Len(write_buf[c])
           /\ Taken(c) = 0 => Space(c) = 0 \/ write_buf[c] = << >>
<1>1. Space(c) \in Nat /\ Len(write_buf[c]) \in Nat
  BY ConsoleAssumption DEF TypeOK, Space
<1>2. Taken(c) \in {Space(c), Len(write_buf[c])} /\ \A y \in {Space(c), Len(write_buf[c])} : Taken(c) <= y
  BY <1>1, LeastExists DEF Taken
<1> QED
  BY <1>1, <1>2 DEF TypeOK

-----------------------------------------------------------------------------
(***************************************************************************)
(* One lemma per action: it keeps IInv.                                    *)
(***************************************************************************)

\* A client in the backlog has no session yet.
LEMMA ClientConnectsKeeps ==
    ASSUME IInv, NEW c \in Clients, ClientConnects(c)
    PROVE  IInv'
<1> USE DEF ClientConnects, vars, clientVars, kernelVars, bufVars, reactorVars, threadVars
<1>1. TypeOK'
  BY DEF IInv, TypeOK
<1>2. Places'
  BY DEF IInv, TypeOK, Places
<1>3. CallbacksMatchClients'
  BY DEF IInv, TypeOK, Places, CallbacksMatchClients
<1>4. Pending'
  BY DEF IInv, TypeOK, Places, CallbacksMatchClients, Pending, In
<1> QED
  BY <1>1, <1>2, <1>3, <1>4 DEF IInv

\* Sending moves sent to a later cut of the script, which is in its range.
LEMMA ClientSendsKeeps ==
    ASSUME IInv, NEW c \in Clients, ClientSends(c)
    PROVE  IInv'
<1> USE DEF ClientSends, vars, clientVars, kernelVars, bufVars, reactorVars, threadVars
<1>1. TypeOK'
  <2>1. PICK n \in Nat : n <= Len(Script[c]) /\ sent[c] < n /\ sent' = [sent EXCEPT ![c] = n]
    BY ConsoleAssumption
  <2>2. Script[c] \in Seq(STRING) /\ Len(Script[c]) \in Nat
    BY ConsoleAssumption
  <2>3. sent' \in [Clients -> Nat]
    BY <2>1 DEF IInv, TypeOK
  <2>4. \A d \in Clients : sent'[d] <= Len(Script[d]) /\ recvd'[d] <= sent'[d]
    BY <2>1, <2>2 DEF IInv, TypeOK
  <2> QED
    BY <2>3, <2>4 DEF IInv, TypeOK
<1>2. Places'
  BY DEF IInv, TypeOK, Places
<1>3. CallbacksMatchClients'
  BY DEF IInv, TypeOK, Places, CallbacksMatchClients
<1>4. Pending'
  BY DEF IInv, TypeOK, Places, CallbacksMatchClients, Pending, In
<1> QED
  BY <1>1, <1>2, <1>3, <1>4 DEF IInv

\* Reading touches nothing the server knows.
LEMMA ClientReadsKeeps ==
    ASSUME IInv, NEW c \in Clients, ClientReads(c)
    PROVE  IInv'
<1> USE DEF ClientReads, vars, clientVars, kernelVars, bufVars, reactorVars, threadVars
<1>1. TypeOK'
  BY ConsoleAssumption DEF IInv, TypeOK
<1>2. Places'
  BY DEF IInv, TypeOK, Places
<1>3. CallbacksMatchClients'
  BY DEF IInv, TypeOK, Places, CallbacksMatchClients
<1>4. Pending'
  BY DEF IInv, TypeOK, Places, CallbacksMatchClients, Pending, In
<1> QED
  BY <1>1, <1>2, <1>3, <1>4 DEF IInv

\* Leaving touches nothing the server knows: it finds out when it reads.
LEMMA ClientLeavesKeeps ==
    ASSUME IInv, NEW c \in Clients, ClientLeaves(c)
    PROVE  IInv'
<1> USE DEF ClientLeaves, vars, clientVars, kernelVars, bufVars, reactorVars, threadVars
<1>1. TypeOK'
  BY DEF IInv, TypeOK
<1>2. Places'
  BY DEF IInv, TypeOK, Places
<1>3. CallbacksMatchClients'
  BY DEF IInv, TypeOK, Places, CallbacksMatchClients
<1>4. Pending'
  BY DEF IInv, TypeOK, Places, CallbacksMatchClients, Pending, In
<1> QED
  BY <1>1, <1>2, <1>3, <1>4 DEF IInv

\* accept is called on the io thread.
LEMMA OnAcceptReadyKeeps ==
    ASSUME IInv, OnAcceptReady
    PROVE  IInv'
<1> USE DEF OnAcceptReady, vars, clientVars, kernelVars, bufVars, reactorVars, threadVars, Enter
<1>1. TypeOK'
  BY DEF IInv, TypeOK
<1>2. Places'
  BY DEF IInv, TypeOK, Places
<1>3. CallbacksMatchClients'
  BY DEF IInv, TypeOK, Places, CallbacksMatchClients
<1>4. Pending'
  BY DEF IInv, TypeOK, Places, CallbacksMatchClients, Pending, In
<1> QED
  BY <1>1, <1>2, <1>3, <1>4 DEF IInv

\* on_accept_ready gives the client a descriptor that nobody else has, and a
\* read callback.
LEMMA AcceptKeeps ==
    ASSUME IInv, Accept
    PROVE  IInv'
<1> USE DEF Accept, Leave, vars, clientVars, kernelVars, bufVars, reactorVars, threadVars
<1>1. CASE backlog = {}
  <2>1. TypeOK'
    BY <1>1 DEF IInv, TypeOK
  <2> QED
    BY <1>1, <2>1 DEF IInv, TypeOK, Places, CallbacksMatchClients, Pending, In
<1>2. CASE backlog # {}
  <2> DEFINE fd == Min({f \in FDs : clients_[f] = NoClient})
  <2>1. fd \in FDs /\ clients_[fd] = NoClient
    BY <1>2, FreeDescriptor DEF IInv
  <2>2. PICK c \in backlog : /\ backlog' = backlog \ {c}
                             /\ session' = [session EXCEPT ![c] = "open"]
                             /\ clients_' = [clients_ EXCEPT ![fd] = c]
    BY <1>2
  <2>3. /\ readers' = readers \cup {fd} /\ io' = "accept" /\ ioFd' = ioFd
        /\ UNCHANGED <<clientVars, recvd, received, listening, bufVars,
                       stop_requested, writers, requested, main>>
    BY <1>2
  <2>4. c \in Clients /\ session[c] = "none" /\ ~write_armed[c] /\ write_buf[c] = << >>
        /\ c # NoClient /\ \A other \in FDs : clients_[other] # c
    <3>1. c \in Clients /\ c # NoClient
      BY ConsoleAssumption DEF IInv, TypeOK
    <3>2. session[c] = "none"
      BY DEF IInv, Places
    <3> QED
      BY <3>1, <3>2 DEF IInv, Places
  <2>0. io = "accept"
    OBVIOUS
  <2> HIDE DEF fd, Accept
  <2>5. TypeOK'
    BY <2>1, <2>2, <2>3, <2>4 DEF IInv, TypeOK
  <2>6. Places'
    BY <2>1, <2>2, <2>3, <2>4 DEF IInv, TypeOK, Places
  <2>7. CallbacksMatchClients'
    BY <2>1, <2>2, <2>3, <2>4 DEF IInv, TypeOK, Places, CallbacksMatchClients
  <2>8. Pending'
    <3> SUFFICES ASSUME NEW g \in FDs, clients_'[g] # NoClient, write_buf[clients_'[g]] # << >>
                 PROVE  g \in writers \cap requested
      BY <2>3 DEF Pending
    <3>1. g # fd
      BY <2>1, <2>2, <2>4 DEF IInv, TypeOK
    <3>2. clients_'[g] = clients_[g]
      BY <2>1, <2>2, <3>1 DEF IInv, TypeOK
    <3> QED
      BY <2>0, <3>2 DEF IInv, Pending, In
  <2> QED
    BY <2>5, <2>6, <2>7, <2>8 DEF IInv
<1> QED
  BY <1>1, <1>2

\* The read callback runs for a descriptor with a client.
LEMMA OnClientReadKeeps ==
    ASSUME IInv, NEW fd \in FDs, OnClientRead(fd)
    PROVE  IInv'
<1> USE DEF OnClientRead, vars, clientVars, kernelVars, bufVars, reactorVars, threadVars, Enter
<1>1. TypeOK'
  BY DEF IInv, TypeOK
<1>2. Places'
  BY DEF IInv, TypeOK, Places
<1>3. CallbacksMatchClients'
  BY DEF IInv, TypeOK, Places, CallbacksMatchClients
<1>4. Pending'
  BY DEF IInv, TypeOK, Places, CallbacksMatchClients, Pending, In
<1> QED
  BY <1>1, <1>2, <1>3, <1>4 DEF IInv

\* close_client, whoever calls it and wherever io goes on: the client, its
\* session and both callbacks go together.
LEMMA ClosingKeeps ==
    ASSUME IInv, NEW fd \in FDs, clients_[fd] # NoClient, CloseClient(fd),
           UNCHANGED <<clientVars, recvd, received, backlog, listening, bufVars,
                       stop_requested, main>>,
           UNCHANGED <<io, ioFd>> \/ (ioFd = fd /\ Leave /\ io # "undefined")
    PROVE  IInv'
<1> USE DEF CloseClient, Leave, vars, clientVars, kernelVars, bufVars, reactorVars, threadVars
<1>1. TypeOK'
  BY DEF IInv, TypeOK
<1>2. Places'
  BY DEF IInv, TypeOK, Places
<1>3. CallbacksMatchClients'
  BY DEF IInv, TypeOK, Places, CallbacksMatchClients
<1>4. Pending'
  <2> SUFFICES ASSUME io' # "undefined", NEW g \in FDs, clients_'[g] # NoClient,
                      write_buf[clients_'[g]] # << >>, ~In("send", g)'
               PROVE  g \in writers' \cap requested'
    BY DEF Pending
  <2>1. g # fd /\ clients_[g] = clients_'[g]
    BY DEF IInv, TypeOK
  <2>2. ~In("send", g) /\ io # "undefined"
    BY <2>1 DEF In, IInv, TypeOK
  <2>3. g \in writers \cap requested
    BY <2>1, <2>2 DEF IInv, Pending
  <2> QED
    BY <2>1, <2>3
<1> QED
  BY <1>1, <1>2, <1>3, <1>4 DEF IInv

\* on_client_read takes what has arrived or closes the client.
LEMMA RecvKeeps ==
    ASSUME IInv, Recv
    PROVE  IInv'
<1> DEFINE c == clients_[ioFd]
<1>1. ioFd \in FDs /\ c # NoClient /\ c \in Clients
  BY DEF Recv, IInv, Places, TypeOK
<1>2. CASE /\ Arrived(c) # << >> /\ ended[c] # "reset"
           /\ read_buf' = [read_buf EXCEPT ![c] = @ \o Arrived(c)]
           /\ recvd' = [recvd EXCEPT ![c] = sent[c]]
           /\ UNCHANGED <<session, clients_, reactorVars, io, ioFd>>
  <2>1. Arrived(c) \in Seq(STRING) /\ Len(Arrived(c)) = sent[c] - recvd[c]
    BY <1>1, ConsoleAssumption DEF Arrived, IInv, TypeOK
  <2>2. UNCHANGED <<clientVars, received, backlog, listening, write_buf,
                    write_armed, stop_requested, main>>
    BY DEF Recv
  <2> HIDE DEF c
  <2>3. TypeOK'
    BY <1>1, <1>2, <2>1, <2>2 DEF IInv, TypeOK, clientVars, reactorVars
  <2>4. Places' /\ CallbacksMatchClients' /\ Pending'
    BY <1>1, <1>2, <2>1, <2>2
       DEF IInv, TypeOK, Places, CallbacksMatchClients, Pending, In, reactorVars
  <2> QED
    BY <2>3, <2>4 DEF IInv
<1>3. CASE CloseClient(ioFd) /\ Leave /\ UNCHANGED <<read_buf, recvd>>
  <2>1. io # "undefined"
    BY DEF Recv
  <2> QED
    BY <1>1, <1>3, <2>1, ClosingKeeps DEF Recv, bufVars
<1>4. CASE Enter("lines", ioFd) /\ UNCHANGED <<read_buf, recvd, session, clients_, reactorVars>>
  <2> USE DEF Recv, Enter, clientVars, reactorVars
  <2>1. TypeOK'
    BY <1>1, <1>4 DEF IInv, TypeOK
  <2> QED
    BY <1>1, <1>4, <2>1 DEF IInv, Places, CallbacksMatchClients, Pending, In
<1> QED
  BY <1>1, <1>2, <1>3, <1>4 DEF Recv

\* The first line feed of the buffer, and what is before it.
FirstFeed(c) == SelectInSeq(read_buf[c], LAMBDA t : t = "nl")
LineOf(c) == Chomp(SubSeq(read_buf[c], 1, FirstFeed(c) - 1))

\* The first line feed, if there is any.
LEMMA FirstFeedType ==
    ASSUME TypeOK, NEW c \in Clients
    PROVE  LET pos == FirstFeed(c) IN
           /\ pos \in 0..Len(read_buf[c])
           /\ \A i \in DOMAIN read_buf[c] : i < pos => read_buf[c][i] # "nl"
           /\ pos = 0 => \A i \in DOMAIN read_buf[c] : read_buf[c][i] # "nl"
           /\ pos # 0 => read_buf[c][pos] = "nl"
<1> DEFINE feeds == {i \in 1..Len(read_buf[c]) : read_buf[c][i] = "nl"}
<1>1. FirstFeed(c) = IF feeds # {} THEN Min(feeds) ELSE 0
  BY DEF FirstFeed, SelectInSeq
<1>2. read_buf[c] \in Seq(STRING)
  BY DEF TypeOK
<1>3. feeds # {} => Min(feeds) \in feeds /\ \A i \in feeds : Min(feeds) <= i
  BY <1>2, LeastExists, feeds \subseteq Nat
<1> HIDE DEF feeds
<1>4. \A i : i \in feeds <=> i \in 1..Len(read_buf[c]) /\ read_buf[c][i] = "nl"
  BY DEF feeds
<1>5. Len(read_buf[c]) \in Nat /\ DOMAIN read_buf[c] = 1..Len(read_buf[c])
  BY <1>2
<1> QED
  BY <1>1, <1>3, <1>4, <1>5

\* What queue_write leaves behind.
LEMMA QueueWriteKeeps ==
    ASSUME IInv, NEW fd \in FDs, clients_[fd] # NoClient,
           NEW data \in Seq(Parts), QueueWrite(fd, data),
           read_buf' \in [Clients -> Seq(STRING)],
           \A c \in Clients : Len(read_buf'[c]) <= recvd[c],
           stop_requested' \in BOOLEAN,
           UNCHANGED <<clientVars, kernelVars, listening, clients_, readers, threadVars>>
    PROVE  IInv'
<1> USE DEF QueueWrite, clientVars, kernelVars, threadVars
<1>1. TypeOK'
  <2>1. write_buf[clients_[fd]] \o data \in Seq(Parts)
    BY DEF IInv, TypeOK
  <2>2. write_buf' \in [Clients -> Seq(Parts)] /\ write_armed' \in [Clients -> BOOLEAN]
    BY <2>1 DEF IInv, TypeOK
  <2> QED
    BY <2>2 DEF IInv, TypeOK
<1>2. Places'
  BY DEF IInv, TypeOK, Places
<1>3. CallbacksMatchClients'
  BY DEF IInv, TypeOK, Places, CallbacksMatchClients
<1>4. Pending'
  BY DEF IInv, TypeOK, Places, CallbacksMatchClients, Pending, In
<1> QED
  BY <1>1, <1>2, <1>3, <1>4 DEF IInv

\* A reply has two parts.
LEMMA PairIsSeq ==
    ASSUME NEW S, NEW a \in S, NEW b \in S
    PROVE  <<a, b>> \in Seq(S)
OBVIOUS

\* Every reply is made of the known parts.
LEMMA ReplyType ==
    ASSUME NEW line
    PROVE  /\ frame_reply("parse error") \in Seq(Parts)
           /\ parse_command(line) # "none" =>
                 frame_reply(dispatch_command(parse_command(line))) \in Seq(Parts)
<1>1. ASSUME NEW body \in Parts PROVE frame_reply(body) \in Seq(Parts)
  <2>1. "blank line" \in Parts
    BY DEF Parts
  <2> QED
    BY <2>1, PairIsSeq DEF frame_reply
<1>2. parse_command(line) # "none" => parse_command(line) \in Parts
  BY DEF parse_command, Parts
<1> QED
  BY <1>1, <1>2 DEF dispatch_command, Parts

\* A line leaves read_buf, and its reply arms the write callback.
LEMMA NextLineKeeps ==
    ASSUME IInv, NextLine
    PROVE  IInv'
<1> DEFINE c == clients_[ioFd]
           pos == FirstFeed(c)
           line == LineOf(c)
<1>1. ioFd \in FDs /\ c # NoClient /\ c \in Clients
  BY DEF NextLine, IInv, Places, TypeOK
<1>2. UNCHANGED <<clientVars, kernelVars, listening, clients_, readers, main>>
  BY DEF NextLine
<1>3. CASE pos = 0 /\ Leave /\ UNCHANGED <<bufVars, stop_requested, writers, requested>>
  <2> USE DEF Leave, clientVars, kernelVars, bufVars
  <2>0. io = "lines"
    BY DEF NextLine
  <2>1. TypeOK'
    BY <1>2, <1>3 DEF IInv, TypeOK
  <2> QED
    BY <1>2, <1>3, <2>0, <2>1 DEF IInv, Places, CallbacksMatchClients, Pending, In
<1>4. CASE /\ pos # 0
           /\ read_buf' = [read_buf EXCEPT ![c] = Rest(@, pos)]
           /\ IF line = << >>
              THEN UNCHANGED <<write_buf, write_armed, stop_requested, writers, requested>>
              ELSE HandleLine(ioFd, line)
           /\ UNCHANGED <<io, ioFd>>
  <2>1. pos \in 1..Len(read_buf[c]) /\ read_buf[c] \in Seq(STRING)
    BY <1>1, <1>4, FirstFeedType DEF IInv, TypeOK
  <2>2. Rest(read_buf[c], pos) \in Seq(STRING) /\ Len(Rest(read_buf[c], pos)) <= Len(read_buf[c])
    BY <2>1 DEF Rest
  <2>3. /\ read_buf' \in [Clients -> Seq(STRING)]
        /\ \A d \in Clients : Len(read_buf'[d]) <= recvd[d]
    <3> HIDE DEF c, pos, line
    <3> QED
      BY <1>1, <1>4, <2>2 DEF IInv, TypeOK
  <2>4. CASE line = << >>
    <3> HIDE DEF c, pos, line
    <3> USE DEF clientVars, kernelVars
    <3>1. TypeOK'
      BY <1>2, <1>4, <2>3, <2>4 DEF IInv, TypeOK
    <3> QED
      BY <1>2, <1>4, <2>4, <3>1 DEF IInv, Places, CallbacksMatchClients, Pending, In
  <2>5. CASE line # << >>
    <3>1. PICK data \in Seq(Parts) : QueueWrite(ioFd, data)
      BY <1>4, <2>5, ReplyType DEF HandleLine
    <3>2. stop_requested' \in BOOLEAN
      BY <1>4, <2>5 DEF HandleLine, IInv, TypeOK
    <3> HIDE DEF c, pos, line
    <3> QED
      BY <1>1, <1>2, <1>4, <2>3, <3>1, <3>2, QueueWriteKeeps DEF threadVars, c
  <2> QED
    BY <2>4, <2>5
<1> QED
  BY <1>1, <1>3, <1>4 DEF NextLine, FirstFeed, LineOf

\* The write callback consumes its request and runs.
LEMMA OnClientWriteKeeps ==
    ASSUME IInv, NEW fd \in FDs, OnClientWrite(fd)
    PROVE  IInv'
<1> USE DEF OnClientWrite, vars, clientVars, kernelVars, bufVars, reactorVars, threadVars, Enter
<1>1. TypeOK'
  BY DEF IInv, TypeOK
<1>2. Places'
  BY DEF IInv, TypeOK, Places
<1>3. CallbacksMatchClients'
  BY DEF IInv, TypeOK, Places, CallbacksMatchClients
<1>4. Pending'
  BY DEF IInv, TypeOK, Places, CallbacksMatchClients, Pending, In
<1> QED
  BY <1>1, <1>2, <1>3, <1>4 DEF IInv

\* on_client_write empties the buffer, asks for another callback or closes the
\* client.
LEMMA SendKeeps ==
    ASSUME IInv, Send
    PROVE  IInv'
<1> DEFINE c == clients_[ioFd]
           n == Taken(c)
<1>1. ioFd \in FDs /\ c # NoClient /\ c \in Clients /\ io = "send"
  BY DEF Send, IInv, Places, TypeOK
<1>2. UNCHANGED <<sent, ended, recvd, backlog, listening, read_buf,
                  write_armed, stop_requested, main>>
  BY DEF Send
<1>3. CASE /\ write_buf[c] = << >>
           /\ Leave
           /\ UNCHANGED <<write_buf, received, unread, session, clients_, reactorVars>>
  <2> USE DEF Leave, reactorVars
  <2>1. TypeOK'
    BY <1>2, <1>3 DEF IInv, TypeOK
  <2>2. Places' /\ CallbacksMatchClients'
    BY <1>2, <1>3 DEF IInv, Places, CallbacksMatchClients
  <2>3. Pending'
    BY <1>1, <1>2, <1>3 DEF IInv, Pending, In
  <2> QED
    BY <2>1, <2>2, <2>3 DEF IInv
<1>4. CASE /\ write_buf[c] # << >> /\ ended[c] # "reset" /\ n > 0
           /\ write_buf' = [write_buf EXCEPT ![c] = Rest(@, n)]
           /\ received' = [received EXCEPT ![c] = @ \o SubSeq(write_buf[c], 1, n)]
           /\ unread' = [unread EXCEPT ![c] = @ + n]
           /\ UNCHANGED <<io, ioFd, session, clients_, reactorVars>>
  <2>1. n \in Nat /\ n <= Space(c) /\ n <= Len(write_buf[c])
    BY <1>1, TakenType DEF IInv
  <2>2. write_buf[c] \in Seq(Parts) /\ received[c] \in Seq(Parts)
    BY <1>1 DEF IInv, TypeOK
  <2>3. /\ Rest(write_buf[c], n) \in Seq(Parts)
        /\ received[c] \o SubSeq(write_buf[c], 1, n) \in Seq(Parts)
    BY <1>4, <2>1, <2>2 DEF Rest
  <2>4. unread[c] + n \in 0..Capacity
    BY <1>1, <2>1, ConsoleAssumption DEF IInv, TypeOK, Space
  <2> HIDE DEF c, n
  <2> USE DEF reactorVars
  <2>5. TypeOK'
    BY <1>1, <1>2, <1>4, <2>3, <2>4 DEF IInv, TypeOK
  <2>6. Places'
    BY <1>1, <1>2, <1>4, <2>3 DEF IInv, TypeOK, Places
  <2>7. CallbacksMatchClients'
    BY <1>2, <1>4 DEF IInv, CallbacksMatchClients
  <2>8. Pending'
    BY <1>1, <1>2, <1>4 DEF IInv, TypeOK, Places, Pending, In, c
  <2> QED
    BY <2>5, <2>6, <2>7, <2>8 DEF IInv
<1>5. CASE /\ write_buf[c] # << >> /\ TryAgain(ioFd)
           /\ Leave
           /\ UNCHANGED <<write_buf, received, unread, session, clients_, readers, writers>>
  <2> USE DEF Leave, TryAgain
  <2>1. TypeOK'
    BY <1>1, <1>2, <1>5 DEF IInv, TypeOK
  <2>2. Places' /\ CallbacksMatchClients'
    BY <1>2, <1>5 DEF IInv, Places, CallbacksMatchClients
  <2>3. ioFd \in writers
    BY <1>1, <1>5 DEF IInv, Places, CallbacksMatchClients
  <2>4. Pending'
    BY <1>1, <1>2, <1>5, <2>3 DEF IInv, Pending, In
  <2> QED
    BY <2>1, <2>2, <2>4 DEF IInv
<1>6. CASE CloseClient(ioFd) /\ Leave /\ UNCHANGED <<write_buf, received, unread>>
  BY <1>1, <1>2, <1>6, ClosingKeeps DEF clientVars, bufVars
<1> QED
  BY <1>1, <1>3, <1>4, <1>5, <1>6 DEF Send

\* stop begins: the listener closes and the backlog goes with it.
LEMMA StopKeeps ==
    ASSUME IInv, Stop
    PROVE  IInv'
<1> USE DEF Stop, vars, clientVars, kernelVars, bufVars, reactorVars, threadVars
<1>1. TypeOK'
  BY DEF IInv, TypeOK
<1>2. Places'
  BY DEF IInv, TypeOK, Places
<1>3. CallbacksMatchClients'
  BY DEF IInv, TypeOK, Places, CallbacksMatchClients
<1>4. Pending'
  BY DEF IInv, TypeOK, Places, CallbacksMatchClients, Pending, In
<1> QED
  BY <1>1, <1>2, <1>3, <1>4 DEF IInv

\* stop closes one client after the other.
LEMMA StopClientKeeps ==
    ASSUME IInv, NEW fd \in FDs, StopClient(fd)
    PROVE  IInv'
BY ClosingKeeps DEF StopClient, threadVars

\* stop returns.
LEMMA StoppedKeeps ==
    ASSUME IInv, Stopped
    PROVE  IInv'
<1> USE DEF Stopped, vars, clientVars, kernelVars, bufVars, reactorVars, threadVars
<1>1. TypeOK'
  BY DEF IInv, TypeOK
<1>2. Places'
  BY DEF IInv, TypeOK, Places
<1>3. CallbacksMatchClients'
  BY DEF IInv, TypeOK, Places, CallbacksMatchClients
<1>4. Pending'
  BY DEF IInv, TypeOK, Places, CallbacksMatchClients, Pending, In
<1> QED
  BY <1>1, <1>2, <1>3, <1>4 DEF IInv

\* Once the two threads have met, io is undefined and nothing is asked of it.
LEMMA RaceKeeps ==
    ASSUME IInv, Race
    PROVE  IInv'
<1> USE DEF Race, vars, clientVars, kernelVars, bufVars, reactorVars, threadVars, Enter
<1>1. TypeOK'
  BY DEF IInv, TypeOK
<1>2. Places'
  BY DEF IInv, TypeOK, Places
<1>3. CallbacksMatchClients'
  BY DEF IInv, TypeOK, Places, CallbacksMatchClients
<1>4. Pending'
  BY DEF IInv, TypeOK, Places, CallbacksMatchClients, Pending, In
<1> QED
  BY <1>1, <1>2, <1>3, <1>4 DEF IInv

-----------------------------------------------------------------------------
(***************************************************************************)
(* IInv holds throughout.                                                  *)
(***************************************************************************)

\* Nobody is connected at the start.
LEMMA InitHolds == Init => IInv
<1> SUFFICES ASSUME Init PROVE IInv
  OBVIOUS
<1> USE DEF Init
<1>1. TypeOK
  <2>1. << >> \in Seq(STRING) /\ << >> \in Seq(Parts) /\ Len(<< >>) = 0
    OBVIOUS
  <2>2. \A c \in Clients : Len(Script[c]) \in Nat
    BY ConsoleAssumption
  <2> QED
    <3>1. /\ recvd \in [Clients -> Nat] /\ sent \in [Clients -> Nat]
          /\ \A c \in Clients : recvd[c] <= sent[c] /\ sent[c] <= Len(Script[c])
      BY <2>2
    <3>2. /\ read_buf \in [Clients -> Seq(STRING)] /\ write_buf \in [Clients -> Seq(Parts)]
          /\ received \in [Clients -> Seq(Parts)]
          /\ \A c \in Clients : Len(read_buf[c]) <= recvd[c]
      BY <2>1
    <3>3. unread \in [Clients -> 0..Capacity]
      BY ConsoleAssumption
    <3> QED
      BY <3>1, <3>2, <3>3 DEF TypeOK
<1>2. Places /\ CallbacksMatchClients /\ Pending
  BY DEF Places, CallbacksMatchClients, Pending
<1> QED
  BY <1>1, <1>2 DEF IInv

\* Every step keeps IInv.
LEMMA StepKeeps == IInv /\ [Next]_vars => IInv'
<1> SUFFICES ASSUME IInv, [Next]_vars PROVE IInv'
  OBVIOUS
<1>1. CASE Client
  BY <1>1, ClientConnectsKeeps, ClientSendsKeeps, ClientReadsKeeps, ClientLeavesKeeps DEF Client
<1>2. CASE OnAcceptReady
  BY <1>2, OnAcceptReadyKeeps
<1>3. CASE Callback
  BY <1>3, AcceptKeeps, RecvKeeps, NextLineKeeps, SendKeeps DEF Callback
<1>4. CASE Main
  BY <1>4, StopKeeps, StoppedKeeps, StopClientKeeps DEF Main
<1>5. CASE Race
  BY <1>5, RaceKeeps
<1>6. CASE \E fd \in FDs : OnClientRead(fd) \/ OnClientWrite(fd)
  BY <1>6, OnClientReadKeeps, OnClientWriteKeeps
<1>7. CASE UNCHANGED vars
  <2> USE <1>7 DEF vars, clientVars, kernelVars, bufVars, reactorVars, threadVars
  <2>1. TypeOK'
    BY DEF IInv, TypeOK
  <2> QED
    BY <2>1 DEF IInv, Places, CallbacksMatchClients, Pending, In
<1> QED
  BY <1>1, <1>2, <1>3, <1>4, <1>5, <1>6, <1>7 DEF Next

\* The invariant holds in every reachable state: one fact for the initial state,
\* one for every step.
THEOREM Inductive == Spec => []IInv
BY InitHolds, StepKeeps, PTL DEF Spec

\* Every variable keeps its type, no client is sent more than its script, and
\* the server holds no token that it has not received.
THEOREM TypesHold == Spec => []TypeOK
<1>1. IInv => TypeOK
  BY DEF IInv
<1> QED
  BY <1>1, Inductive, PTL

\* The reactor calls back for the descriptors of clients and for no other: a
\* client that is closed leaves no callback behind (close_client, accept_client).
THEOREM CallbacksAlwaysMatch == Spec => []CallbacksMatchClients
<1>1. IInv => CallbacksMatchClients
  BY DEF IInv
<1> QED
  BY <1>1, Inductive, PTL

\* Bytes in write_buf never wait for a callback that nobody has asked for
\* (queue_write, on_client_write).
THEOREM WritesAlwaysPending == Spec => []WritesArePending
<1>1. IInv => WritesArePending
  BY DEF IInv, Pending, WritesArePending, In
<1> QED
  BY <1>1, Inductive, PTL

-----------------------------------------------------------------------------
(***************************************************************************)
(* Induction, as a least counterexample: what the recursive functions behind *)
(* FlattenSeq and LinesOf yield.                                           *)
(***************************************************************************)

\* A set of numbers that holds the first and with each the next holds all, up
\* to a bound.
LEMMA NatSetInduction ==
  ASSUME NEW S, 0 \in S, \A n \in Nat : n \in S => n + 1 \in S
  PROVE  \A n \in Nat : n \in S
<1> DEFINE T == Nat \ S
           R == OpToRel(<, Nat)
<1>1. IsWellFoundedOn(R, Nat)
  BY NatLessThanWellFounded
<1>2. \A x, y \in Nat : <<y, x>> \in R <=> y < x
  BY DEF OpToRel
<1> HIDE DEF R
<1>3. SUFFICES ASSUME T # {} PROVE FALSE
  OBVIOUS
<1>4. PICK x \in T : \A y \in T : ~ (<<y, x>> \in R)
  BY <1>1, <1>3, WFMin
<1>5. x \in Nat /\ x # 0
  BY <1>4
<1> DEFINE y == x - 1
<1>6. y \in Nat /\ y + 1 = x /\ y < x
  BY <1>5
<1> HIDE DEF y
<1>7. y \in T
  BY <1>4, <1>6
<1>8. <<y, x>> \in R
  BY <1>2, <1>5, <1>6
<1> QED  BY <1>4, <1>7, <1>8

\* f carries out the recursion of FlattenSeq for q.
Flattens(f, q) == f = [i \in 1..Len(q) |-> IF i = 1 THEN q[i] ELSE f[i - 1] \o q[i]]

\* There is such a function, for every sequence of sequences.
LEMMA FlattenExists ==
  ASSUME NEW S, NEW q \in Seq(Seq(S))
  PROVE  \E f : Flattens(f, q)
<1> DEFINE Upto(n) == \E f : f = [i \in 1..n |-> IF i = 1 THEN q[i] ELSE f[i - 1] \o q[i]]
           N == {n \in Nat : Upto(n)}
<1>1. 0 \in N
  <2>1. [i \in 1..0 |-> 0] = [i \in 1..0 |-> IF i = 1 THEN q[i] ELSE [j \in 1..0 |-> 0][i - 1] \o q[i]]
    OBVIOUS
  <2> QED
    BY <2>1
<1>2. ASSUME NEW n \in Nat, n \in N PROVE n + 1 \in N
  <2>1. PICK f : f = [i \in 1..n |-> IF i = 1 THEN q[i] ELSE f[i - 1] \o q[i]]
    BY <1>2
  <2> DEFINE g == [i \in 1..n + 1 |-> IF i \in 1..n THEN f[i]
                                      ELSE IF i = 1 THEN q[i] ELSE f[n] \o q[i]]
  <2>2. \A i \in 1..n + 1 : g[i] = IF i = 1 THEN q[i] ELSE g[i - 1] \o q[i]
    <3> SUFFICES ASSUME NEW i \in 1..n + 1 PROVE g[i] = IF i = 1 THEN q[i] ELSE g[i - 1] \o q[i]
      OBVIOUS
    <3>1. CASE i = 1
      BY <2>1, <3>1
    <3>2. CASE i # 1
      <4>1. i - 1 \in 1..n /\ g[i - 1] = f[i - 1]
        BY <3>2
      <4>2. CASE i = n + 1
        <5>1. i - 1 = n /\ i \notin 1..n
          BY <4>2
        <5>2. g[i] = f[n] \o q[i]
          BY <3>2, <5>1
        <5> QED BY <3>2, <4>1, <5>1, <5>2
      <4>3. CASE i # n + 1
        <5>1. i \in 1..n /\ g[i] = f[i]
          BY <4>3
        <5>2. f[i] = f[i - 1] \o q[i]
          BY <2>1, <3>2, <5>1
        <5> QED BY <3>2, <4>1, <5>1, <5>2
      <4> QED BY <4>2, <4>3
    <3> QED BY <3>1, <3>2
  <2>3. g = [i \in 1..n + 1 |-> IF i = 1 THEN q[i] ELSE g[i - 1] \o q[i]]
    BY <2>2
  <2> HIDE DEF g
  <2>4. Upto(n + 1)
    BY <2>3
  <2> HIDE DEF Upto
  <2> QED
    BY <2>4
<1> HIDE DEF N
<1>3. \A n \in Nat : n \in N
  BY <1>1, <1>2, NatSetInduction
<1>4. Len(q) \in N
  BY <1>3
<1> QED
  BY <1>4 DEF N, Flattens

\* FlattenSeq is the last value of that function.
LEMMA FlattenIs ==
  ASSUME NEW S, NEW q \in Seq(Seq(S)), Len(q) # 0
  PROVE  \E f : Flattens(f, q) /\ FlattenSeq(q) = f[Len(q)]
<1> DEFINE flatten[i \in 1..Len(q)] == IF i = 1 THEN q[i] ELSE flatten[i - 1] \o q[i]
<1>1. Flattens(flatten, q)
  BY FlattenExists, Zenon DEF Flattens
<1>2. FlattenSeq(q) = flatten[Len(q)]
  BY Zenon DEF FlattenSeq
<1> QED
  BY <1>1, <1>2

\* One more step of the recursion.
LEMMA FlattenStep ==
  ASSUME NEW f, NEW q, Flattens(f, q), NEW i \in 1..Len(q)
  PROVE  f[i] = IF i = 1 THEN q[i] ELSE f[i - 1] \o q[i]
<1> DEFINE F == [j \in 1..Len(q) |-> IF j = 1 THEN q[j] ELSE f[j - 1] \o q[j]]
<1>1. F[i] = IF i = 1 THEN q[i] ELSE f[i - 1] \o q[i]
  OBVIOUS
<1>2. f = F
  BY Zenon DEF Flattens
<1> HIDE DEF F
<1> QED
  BY <1>1, <1>2

\* The functions of a sequence and of a longer one agree on the shorter.
LEMMA FlattenAgrees ==
  ASSUME NEW S, NEW q \in Seq(Seq(S)), NEW x \in Seq(S), NEW f, NEW g,
         Flattens(f, q), Flattens(g, Append(q, x))
  PROVE  \A i \in 1..Len(q) : g[i] = f[i] /\ f[i] \in Seq(S)
<1> DEFINE N == {n \in Nat : n \in 1..Len(q) => g[n] = f[n] /\ f[n] \in Seq(S)}
<1>1. 0 \in N
  OBVIOUS
<1>2. ASSUME NEW n \in Nat, n \in N PROVE n + 1 \in N
  <2> SUFFICES ASSUME n + 1 \in 1..Len(q) PROVE g[n + 1] = f[n + 1] /\ f[n + 1] \in Seq(S)
    OBVIOUS
  <2>1. n + 1 \in 1..Len(Append(q, x)) /\ Append(q, x)[n + 1] = q[n + 1] /\ q[n + 1] \in Seq(S)
    OBVIOUS
  <2>2. f[n + 1] = IF n = 0 THEN q[n + 1] ELSE f[n] \o q[n + 1]
    BY FlattenStep
  <2>3. g[n + 1] = IF n = 0 THEN q[n + 1] ELSE g[n] \o q[n + 1]
    <3> DEFINE qx == Append(q, x)
    <3>1. Flattens(g, qx) /\ n + 1 \in 1..Len(qx) /\ qx[n + 1] = q[n + 1]
      BY <2>1
    <3> HIDE DEF qx
    <3> QED
      BY <3>1, FlattenStep
  <2>4. n # 0 => g[n] = f[n] /\ f[n] \in Seq(S)
    BY <1>2
  <2> QED
    BY <2>1, <2>2, <2>3, <2>4
<1> HIDE DEF N
<1>3. \A n \in Nat : n \in N
  BY <1>1, <1>2, NatSetInduction
<1> QED
  BY <1>3 DEF N

\* Flattening one sequence more adds it at the end: the replies to one line
\* more are the replies so far and one reply.
LEMMA FlattenAppend ==
  ASSUME NEW S, NEW q \in Seq(Seq(S)), NEW x \in Seq(S)
  PROVE  /\ FlattenSeq(Append(q, x)) = FlattenSeq(q) \o x
         /\ FlattenSeq(q) \in Seq(S)
<1> DEFINE qx == Append(q, x)
<1>1. qx \in Seq(Seq(S)) /\ Len(qx) = Len(q) + 1 /\ Len(q) \in Nat /\ qx[Len(q) + 1] = x
  OBVIOUS
<1>2. PICK g : Flattens(g, qx) /\ FlattenSeq(qx) = g[Len(qx)]
  <2>1. qx \in Seq(Seq(S)) /\ Len(qx) > 0
    BY <1>1
  <2> HIDE DEF qx
  <2> QED
    BY ONLY <2>1, FlattenIs
<1>5. g[Len(q) + 1] = IF Len(q) + 1 = 1 THEN x ELSE g[Len(q) + 1 - 1] \o x
  <2> DEFINE k == Len(q) + 1
  <2>1. k \in 1..Len(qx) /\ qx[k] = x
    BY <1>1
  <2>2. g[k] = IF k = 1 THEN qx[k] ELSE g[k - 1] \o qx[k]
    <3> HIDE DEF qx, k
    <3> QED
      BY <1>2, <2>1, FlattenStep
  <2> HIDE DEF qx
  <2> QED
    BY <2>1, <2>2
<1>3. CASE Len(q) = 0
  <2>1. FlattenSeq(q) = << >>
    BY <1>3 DEF FlattenSeq
  <2>2. g[1] = x
    BY <1>1, <1>3, <1>5
  <2> QED
    BY <1>1, <1>2, <1>3, <2>1, <2>2
<1>4. CASE Len(q) # 0
  <2>1. PICK f : Flattens(f, q) /\ FlattenSeq(q) = f[Len(q)]
    BY <1>4, FlattenIs
  <2>2. g[Len(q)] = f[Len(q)] /\ f[Len(q)] \in Seq(S)
    BY <1>1, <1>2, <1>4, <2>1, FlattenAgrees
  <2>3. g[Len(q) + 1] = g[Len(q)] \o x
    BY <1>1, <1>4, <1>5
  <2> HIDE DEF qx
  <2> QED
    BY <1>1, <1>2, <2>1, <2>2, <2>3 DEF qx
<1> QED
  BY <1>3, <1>4

\* f carries out the recursion of LinesOf for the first m tokens.
Tells(f, tokens, m) ==
    f = [n \in 0..m |->
            IF n = 0 THEN << >>
            ELSE IF tokens[n] # "nl" \/ LineAt(tokens, n) = << >> THEN f[n - 1]
            ELSE Append(f[n - 1], LineAt(tokens, n))]

\* One more step of the recursion.
LEMMA TellsStep ==
    ASSUME NEW f, NEW tokens, NEW m \in Nat, Tells(f, tokens, m)
    PROVE  /\ f[0] = << >>
           /\ \A n \in 1..m :
                 f[n] = IF tokens[n] # "nl" \/ LineAt(tokens, n) = << >> THEN f[n - 1]
                        ELSE Append(f[n - 1], LineAt(tokens, n))
<1> DEFINE F == [n \in 0..m |->
                    IF n = 0 THEN << >>
                    ELSE IF tokens[n] # "nl" \/ LineAt(tokens, n) = << >> THEN f[n - 1]
                    ELSE Append(f[n - 1], LineAt(tokens, n))]
<1>1. F[0] = << >>
  OBVIOUS
<1>2. \A n \in 1..m : F[n] = IF tokens[n] # "nl" \/ LineAt(tokens, n) = << >> THEN f[n - 1]
                             ELSE Append(f[n - 1], LineAt(tokens, n))
  OBVIOUS
<1>3. f = F
  BY Zenon DEF Tells
<1> HIDE DEF F
<1> QED
  BY <1>1, <1>2, <1>3

\* There is such a function, for every number of tokens.
LEMMA TellsExists ==
    ASSUME NEW tokens, NEW m \in Nat
    PROVE  \E f : Tells(f, tokens, m)
<1> DEFINE N == {n \in Nat : \E f : Tells(f, tokens, n)}
<1>1. 0 \in N
  <2> DEFINE g == [n \in 0..0 |-> << >>]
  <2>1. g = [n \in 0..0 |->
                IF n = 0 THEN << >>
                ELSE IF tokens[n] # "nl" \/ LineAt(tokens, n) = << >> THEN g[n - 1]
                ELSE Append(g[n - 1], LineAt(tokens, n))]
    OBVIOUS
  <2>2. Tells(g, tokens, 0)
    BY <2>1 DEF Tells
  <2> QED
    BY <2>2
<1>2. ASSUME NEW k \in Nat, k \in N PROVE k + 1 \in N
  <2>1. PICK f : Tells(f, tokens, k)
    BY <1>2
  <2> DEFINE last == IF tokens[k + 1] # "nl" \/ LineAt(tokens, k + 1) = << >> THEN f[k]
                     ELSE Append(f[k], LineAt(tokens, k + 1))
             g == [n \in 0..k + 1 |-> IF n = k + 1 THEN last ELSE f[n]]
  <2>2. \A n \in 0..k + 1 :
           g[n] = IF n = 0 THEN << >>
                  ELSE IF tokens[n] # "nl" \/ LineAt(tokens, n) = << >> THEN g[n - 1]
                  ELSE Append(g[n - 1], LineAt(tokens, n))
    <3> SUFFICES ASSUME NEW n \in 0..k + 1
                 PROVE  g[n] = IF n = 0 THEN << >>
                               ELSE IF tokens[n] # "nl" \/ LineAt(tokens, n) = << >> THEN g[n - 1]
                               ELSE Append(g[n - 1], LineAt(tokens, n))
      OBVIOUS
    <3>1. CASE n = 0
      BY <2>1, <3>1, TellsStep
    <3>2. CASE n = k + 1
      <4>1. g[n] = last /\ g[k] = f[k] /\ n - 1 = k /\ n # 0
        BY <3>2
      <4> QED
        BY <3>2, <4>1
    <3>3. CASE n \in 1..k
      <4>1. g[n] = f[n] /\ g[n - 1] = f[n - 1] /\ n # 0
        BY <3>3
      <4> HIDE DEF g, last
      <4> QED
        BY <2>1, <3>3, <4>1, TellsStep
    <3> QED
      BY <3>1, <3>2, <3>3
  <2>3. g = [n \in 0..k + 1 |->
                IF n = 0 THEN << >>
                ELSE IF tokens[n] # "nl" \/ LineAt(tokens, n) = << >> THEN g[n - 1]
                ELSE Append(g[n - 1], LineAt(tokens, n))]
    BY <2>2
  <2>4. Tells(g, tokens, k + 1)
    <3> HIDE DEF g
    <3> QED
      BY <2>3 DEF Tells
  <2> QED
    BY <2>4
<1> HIDE DEF N
<1>3. \A n \in Nat : n \in N
  BY <1>1, <1>2, NatSetInduction
<1> QED
  BY <1>3 DEF N

\* LinesOf is such a function.
LEMMA LinesOfTells ==
    ASSUME NEW tokens, Len(tokens) \in Nat
    PROVE  Tells(LinesOf(tokens), tokens, Len(tokens))
<1> DEFINE said[n \in 0..Len(tokens)] ==
               IF n = 0 THEN << >>
               ELSE IF tokens[n] # "nl" \/ LineAt(tokens, n) = << >> THEN said[n - 1]
               ELSE Append(said[n - 1], LineAt(tokens, n))
<1>1. Tells(said, tokens, Len(tokens))
  BY TellsExists, Zenon DEF Tells
<1>2. LinesOf(tokens) = [n \in 0..Len(tokens) |-> said[n]]
  BY Zenon DEF LinesOf
<1>3. said = [n \in 0..Len(tokens) |-> said[n]]
  <2>1. \E e : said = [n \in 0..Len(tokens) |-> e[n]]
    <3> DEFINE e == [n \in 0..Len(tokens) |->
                    IF n = 0 THEN << >>
                    ELSE IF tokens[n] # "nl" \/ LineAt(tokens, n) = << >> THEN said[n - 1]
                    ELSE Append(said[n - 1], LineAt(tokens, n))]
    <3>1. said = e
      BY <1>1, Zenon DEF Tells
    <3>2. e = [n \in 0..Len(tokens) |-> e[n]]
      OBVIOUS
    <3> HIDE DEF said, e
    <3> QED BY <3>1, <3>2
  <2> HIDE DEF said
  <2> QED
    BY <2>1
<1> HIDE DEF said
<1> QED
  BY <1>1, <1>2, <1>3

\* The lines of a sequence of tokens, where they end.
LinesIn(tokens) == {LineAt(tokens, n) : n \in 1..Len(tokens)}

\* What LinesOf says of one token more.
LEMMA LinesOfStep ==
    ASSUME NEW tokens, Len(tokens) \in Nat
    PROVE  /\ LinesOf(tokens)[0] = << >>
           /\ \A n \in 1..Len(tokens) :
                 LinesOf(tokens)[n] =
                    IF tokens[n] # "nl" \/ LineAt(tokens, n) = << >> THEN LinesOf(tokens)[n - 1]
                    ELSE Append(LinesOf(tokens)[n - 1], LineAt(tokens, n))
BY LinesOfTells, TellsStep

\* LinesOf yields sequences of lines.
LEMMA LinesOfType ==
    ASSUME NEW tokens, Len(tokens) \in Nat
    PROVE  \A n \in 0..Len(tokens) : LinesOf(tokens)[n] \in Seq(LinesIn(tokens))
<1> DEFINE N == {n \in Nat : n <= Len(tokens) => LinesOf(tokens)[n] \in Seq(LinesIn(tokens))}
<1>1. 0 \in N
  <2>1. LinesOf(tokens)[0] = << >>
    BY LinesOfStep
  <2> DEFINE T == LinesIn(tokens)
  <2>2. << >> \in Seq(T)
    OBVIOUS
  <2> HIDE DEF T
  <2>3. LinesOf(tokens)[0] \in Seq(T)
    BY <2>1, <2>2
  <2> QED
    BY <2>3 DEF T
<1>2. ASSUME NEW n \in Nat, n \in N PROVE n + 1 \in N
  <2> SUFFICES ASSUME n + 1 <= Len(tokens) PROVE LinesOf(tokens)[n + 1] \in Seq(LinesIn(tokens))
    OBVIOUS
  <2>1. LinesOf(tokens)[n] \in Seq(LinesIn(tokens))
    BY <1>2
  <2>2. LineAt(tokens, n + 1) \in LinesIn(tokens)
    BY DEF LinesIn
  <2> DEFINE k == n + 1
  <2>3. k \in 1..Len(tokens) /\ k - 1 = n
    OBVIOUS
  <2>4. \/ LinesOf(tokens)[k] = LinesOf(tokens)[n]
        \/ LinesOf(tokens)[k] = Append(LinesOf(tokens)[n], LineAt(tokens, k))
    <3> HIDE DEF k
    <3> QED
      BY <2>3, LinesOfStep
  <2>5. Append(LinesOf(tokens)[n], LineAt(tokens, n + 1)) \in Seq(LinesIn(tokens))
    BY <2>1, <2>2
  <2> QED
    BY <2>1, <2>4, <2>5
<1> HIDE DEF N
<1>3. \A n \in Nat : n \in N
  BY <1>1, <1>2, NatSetInduction
<1> QED
  BY <1>3 DEF N

\* More tokens only add lines.
LEMMA LinesOfGrows ==
    ASSUME NEW tokens, Len(tokens) \in Nat, NEW m \in 0..Len(tokens)
    PROVE  \A n \in m..Len(tokens) :
              /\ Len(LinesOf(tokens)[m]) <= Len(LinesOf(tokens)[n])
              /\ \A k \in 1..Len(LinesOf(tokens)[m]) :
                    LinesOf(tokens)[n][k] = LinesOf(tokens)[m][k]
<1> DEFINE few == LinesOf(tokens)[m]
           Grown(n) == LET many == LinesOf(tokens)[n] IN
                       Len(few) <= Len(many) /\ \A k \in 1..Len(few) : many[k] = few[k]
           N == {n \in Nat : m + n <= Len(tokens) => Grown(m + n)}
<1>0. m \in Nat /\ few \in Seq(LinesIn(tokens))
  BY LinesOfType
<1>1. 0 \in N
  BY <1>0
<1>2. ASSUME NEW n \in Nat, n \in N PROVE n + 1 \in N
  <2> SUFFICES ASSUME m + (n + 1) <= Len(tokens) PROVE Grown(m + (n + 1))
    OBVIOUS
  <2> DEFINE i == m + n
  <2>1. i \in 0..Len(tokens) /\ i + 1 \in 1..Len(tokens) /\ (i + 1) - 1 = i /\ m + (n + 1) = i + 1
    BY <1>0
  <2>2. Grown(i)
    BY <1>2, <2>1
  <2> HIDE DEF i
  <2>3. LinesOf(tokens)[i] \in Seq(LinesIn(tokens)) /\ LineAt(tokens, i + 1) \in LinesIn(tokens)
    BY <2>1, LinesOfType DEF LinesIn
  <2>4. \/ LinesOf(tokens)[i + 1] = LinesOf(tokens)[i]
        \/ LinesOf(tokens)[i + 1] = Append(LinesOf(tokens)[i], LineAt(tokens, i + 1))
    BY <2>1, LinesOfStep
  <2> HIDE DEF few
  <2>5. CASE LinesOf(tokens)[i + 1] = LinesOf(tokens)[i]
    BY <2>1, <2>2, <2>5
  <2>6. CASE LinesOf(tokens)[i + 1] = Append(LinesOf(tokens)[i], LineAt(tokens, i + 1))
    <3> DEFINE many == LinesOf(tokens)[i]
               more == Append(many, LineAt(tokens, i + 1))
    <3>1. Len(more) = Len(many) + 1 /\ \A k \in 1..Len(many) : more[k] = many[k]
      BY <2>3
    <3>2. Len(few) \in Nat /\ Len(many) \in Nat
      BY <1>0, <2>3
    <3>3. Len(few) <= Len(many) /\ \A k \in 1..Len(few) : many[k] = few[k]
      BY <2>2
    <3> HIDE DEF many, more
    <3>4. Len(few) <= Len(more) /\ \A k \in 1..Len(few) : more[k] = few[k]
      BY <3>1, <3>2, <3>3
    <3>5. LinesOf(tokens)[i + 1] = more
      BY <2>6 DEF more, many
    <3> HIDE DEF Grown
    <3>6. Grown(i + 1) <=> /\ Len(few) <= Len(LinesOf(tokens)[i + 1])
                           /\ \A k \in 1..Len(few) : LinesOf(tokens)[i + 1][k] = few[k]
      BY DEF Grown
    <3> QED
      BY <2>1, <3>4, <3>5, <3>6
  <2> QED
    BY <2>1, <2>4, <2>5, <2>6
<1> HIDE DEF N, Grown
<1>3. \A n \in Nat : n \in N
  BY <1>1, <1>2, NatSetInduction
<1>4. ASSUME NEW n \in m..Len(tokens) PROVE Grown(n)
  <2>1. n - m \in Nat /\ m + (n - m) = n
    BY <1>0
  <2> QED
    BY <1>3, <2>1 DEF N
<1> QED
  BY <1>4 DEF Grown

\* Tokens without a line feed add none.
LEMMA LinesOfSame ==
    ASSUME NEW tokens, Len(tokens) \in Nat, NEW m \in 0..Len(tokens), NEW n \in m..Len(tokens),
           \A i \in m + 1..n : tokens[i] # "nl"
    PROVE  LinesOf(tokens)[n] = LinesOf(tokens)[m]
<1> DEFINE N == {k \in Nat : m + k <= n => LinesOf(tokens)[m + k] = LinesOf(tokens)[m]}
<1>1. 0 \in N
  OBVIOUS
<1>2. ASSUME NEW k \in Nat, k \in N PROVE k + 1 \in N
  <2> SUFFICES ASSUME m + (k + 1) <= n PROVE LinesOf(tokens)[m + (k + 1)] = LinesOf(tokens)[m]
    OBVIOUS
  <2> DEFINE i == m + k
  <2>1. i + 1 \in 1..Len(tokens) /\ (i + 1) - 1 = i /\ m + (k + 1) = i + 1 /\ i + 1 \in m + 1..n
    OBVIOUS
  <2>2. LinesOf(tokens)[i] = LinesOf(tokens)[m]
    BY <1>2, <2>1
  <2> HIDE DEF i
  <2> QED
    BY <2>1, <2>2, LinesOfStep
<1> HIDE DEF N
<1>3. \A k \in Nat : k \in N
  BY <1>1, <1>2, NatSetInduction
<1>4. n - m \in Nat /\ m + (n - m) = n
  OBVIOUS
<1> QED
  BY <1>3, <1>4 DEF N

\* The line that ends at n, where the last line feed before n is at p.
LEMMA LineAtIs ==
    ASSUME NEW tokens, NEW n \in Nat, NEW p \in 0..n - 1, p = 0 \/ tokens[p] = "nl",
           \A i \in p + 1..n - 1 : tokens[i] # "nl"
    PROVE  LineAt(tokens, n) = Chomp(SubSeq(tokens, p + 1, n - 1))
<1> DEFINE feeds == {i \in 1..n - 1 : tokens[i] = "nl"}
           S == {0} \cup feeds
<1>1. p \in S
  OBVIOUS
<1>2. \A i \in S : i <= p /\ i \in Nat
  OBVIOUS
<1>3. Max(S) = p
  <2> HIDE DEF S
  <2> QED
    <3>1. Max(S) \in S /\ \A i \in S : Max(S) >= i
      BY <1>1, <1>2 DEF Max
    <3>2. Max(S) <= p /\ Max(S) \in Nat /\ p \in Nat /\ Max(S) >= p
      BY <1>1, <1>2, <3>1
    <3> QED
      BY <3>2
<1> HIDE DEF S
<1> QED
  BY <1>3 DEF LineAt, S

-----------------------------------------------------------------------------
(***************************************************************************)
(* What has gone through the buffers.                                      *)
(***************************************************************************)

\* How many tokens of c have been taken out of read_buf.
Parsed(c) == recvd[c] - Len(read_buf[c])

\* read_buf is what follows the last line feed that was taken out; replies
\* leave in the order of their lines; stop runs when it was asked for.
Streams ==
    /\ \A c \in Clients :
          /\ read_buf[c] = SubSeq(Script[c], Parsed(c) + 1, recvd[c])
          /\ Parsed(c) = 0 \/ Script[c][Parsed(c)] = "nl"
          /\ received[c] \o write_buf[c] = Promise!Replies(Said[c][Parsed(c)])
    /\ main # "poll" => stop_requested

RInv == IInv /\ Streams

\* What a client says is what its script says.
LEMMA SaidIs ==
    ASSUME NEW c \in Clients
    PROVE  Said[c] = LinesOf(Script[c]) /\ Script[c] \in Seq(STRING) /\ Len(Script[c]) \in Nat
BY ConsoleAssumption DEF Said

\* What has been parsed has been received, and what has been received has been
\* sent.
LEMMA ParsedType ==
    ASSUME IInv, NEW c \in Clients
    PROVE  /\ Parsed(c) \in 0..recvd[c]
           /\ recvd[c] \in 0..sent[c]
           /\ sent[c] \in 0..Len(Script[c])
           /\ read_buf[c] \in Seq(STRING)
           /\ received[c] \in Seq(Parts) /\ write_buf[c] \in Seq(Parts)
<1>1. read_buf[c] \in Seq(STRING) /\ Len(read_buf[c]) \in Nat
  BY DEF IInv, TypeOK
<1> QED
  BY <1>1 DEF IInv, TypeOK, Parsed

\* handle_line queues the reply that is promised, and asks for a stop when that
\* is promised.
LEMMA ReplyIs ==
    ASSUME NEW line \in Seq(STRING), line # << >>
    PROVE  LET cmd == parse_command(line) IN
           /\ Promise!Reply(line) = IF cmd = "none" THEN frame_reply("parse error")
                                    ELSE frame_reply(dispatch_command(cmd))
           /\ Promise!IsStop(line) <=> cmd = "stop"
<1>1. Head(line) = line[1]
  OBVIOUS
<1> QED
  BY <1>1 DEF Promise!Reply, Promise!IsStop, Promise!Parses, Promise!Commands,
              parse_command, frame_reply, dispatch_command

\* A promised reply is made of the known parts.
LEMMA ReplyParts ==
    ASSUME NEW line
    PROVE  Promise!Reply(line) \in Seq(Parts)
<1>1. \A body \in Parts : <<body, "blank line">> \in Seq(Parts)
  <2>1. "blank line" \in Parts
    BY DEF Parts
  <2> QED
    BY <2>1, PairIsSeq
<1> DEFINE body == IF Promise!Parses(line) THEN Head(line) ELSE "parse error"
<1>2. body \in Parts
  BY DEF Promise!Parses, Promise!Commands, Parts
<1>3. Promise!Reply(line) = <<body, "blank line">>
  BY DEF Promise!Reply
<1> HIDE DEF body
<1> QED
  BY <1>1, <1>2, <1>3

\* One line more, one reply more.
LEMMA RepliesAppend ==
    ASSUME NEW S, NEW lines \in Seq(S), NEW line \in S
    PROVE  /\ Promise!Replies(Append(lines, line)) = Promise!Replies(lines) \o Promise!Reply(line)
           /\ Promise!Replies(lines) \in Seq(Parts)
<1> DEFINE q == [k \in DOMAIN lines |-> Promise!Reply(lines[k])]
           all == [k \in DOMAIN Append(lines, line) |-> Promise!Reply(Append(lines, line)[k])]
<1>1. q \in Seq(Seq(Parts)) /\ Promise!Reply(line) \in Seq(Parts)
  BY ReplyParts
<1>2. all = Append(q, Promise!Reply(line))
  OBVIOUS
<1>3. Promise!Replies(lines) = FlattenSeq(q)
  BY DEF Promise!Replies, Promise!FlattenSeq, FlattenSeq
<1>4. Promise!Replies(Append(lines, line)) = FlattenSeq(all)
  BY DEF Promise!Replies, Promise!FlattenSeq, FlattenSeq
<1> HIDE DEF q, all
<1> QED
  BY <1>1, <1>2, <1>3, <1>4, FlattenAppend

\* No lines, no replies.
LEMMA RepliesEmpty == Promise!Replies(<< >>) = << >>
BY DEF Promise!Replies, Promise!FlattenSeq

\* What SubSeq cuts out of a sequence.
LEMMA PartIs ==
    ASSUME NEW S, NEW s, NEW m, NEW n,
           s \in Seq(S), m \in Nat, n \in Nat, m <= n, n <= Len(s), Len(s) \in Nat
    PROVE  /\ SubSeq(s, m + 1, n) \in Seq(S) /\ Len(SubSeq(s, m + 1, n)) = n - m
           /\ \A i \in 1..n - m : SubSeq(s, m + 1, n)[i] = s[m + i]
OBVIOUS

\* A line feed in read_buf ends a line of the script.
LEMMA LineEnds ==
    ASSUME IInv, Streams, NEW c \in Clients, FirstFeed(c) # 0
    PROVE  LET end  == Parsed(c) + FirstFeed(c)
               line == LineOf(c) IN
           /\ end \in 1..recvd[c] /\ Script[c][end] = "nl"
           /\ line \in Seq(STRING)
           /\ Said[c][end] = IF line = << >> THEN Said[c][Parsed(c)]
                             ELSE Append(Said[c][Parsed(c)], line)
           /\ line = LineAt(Script[c], end)
           /\ Rest(read_buf[c], FirstFeed(c)) = SubSeq(Script[c], end + 1, recvd[c])
<1> DEFINE p == Parsed(c)
           r == recvd[c]
           buf == read_buf[c]
           pos == FirstFeed(c)
           end == p + pos
           tokens == Script[c]
<1>1. /\ p \in Nat /\ r \in Nat /\ p <= r /\ r <= Len(tokens)
      /\ tokens \in Seq(STRING) /\ Len(tokens) \in Nat /\ buf \in Seq(STRING)
      /\ Said[c] = LinesOf(tokens)
  BY ParsedType, SaidIs
<1>2. buf = SubSeq(tokens, p + 1, r) /\ (p = 0 \/ tokens[p] = "nl")
  BY DEF Streams
<1>3. /\ pos \in 1..Len(buf) /\ buf[pos] = "nl"
      /\ \A i \in 1..Len(buf) : i < pos => buf[i] # "nl"
  BY <1>1, FirstFeedType DEF IInv
<1>4. LineOf(c) = Chomp(SubSeq(buf, 1, pos - 1))
  BY DEF LineOf
<1>5. Rest(buf, pos) = SubSeq(buf, pos + 1, Len(buf))
  BY DEF Rest
<1> HIDE DEF p, r, buf, pos, tokens
<1>6. Len(buf) = r - p /\ \A i \in 1..Len(buf) : buf[i] = tokens[p + i]
  BY <1>1, <1>2
<1>7. end \in 1..r /\ tokens[end] = "nl"
  BY <1>1, <1>3, <1>6
<1>8. \A i \in p + 1..end - 1 : tokens[i] # "nl"
  <2> SUFFICES ASSUME NEW i \in p + 1..end - 1 PROVE tokens[i] # "nl"
    OBVIOUS
  <2> DEFINE j == i - p
  <2>1. j \in 1..Len(buf) /\ j < pos /\ p + j = i
    BY <1>1, <1>3
  <2> HIDE DEF j
  <2> QED
    BY <1>3, <1>6, <2>1
<1>9. SubSeq(buf, 1, pos - 1) = SubSeq(tokens, p + 1, end - 1)
  BY <1>1, <1>2, <1>3, <1>6
<1>10. LineAt(tokens, end) = Chomp(SubSeq(tokens, p + 1, end - 1))
  BY <1>1, <1>2, <1>3, <1>8, LineAtIs
<1>11. LineOf(c) = LineAt(tokens, end)
  BY <1>4, <1>9, <1>10
<1>12. LineOf(c) \in Seq(STRING)
  <2> DEFINE part == SubSeq(buf, 1, pos - 1)
  <2>1. part \in Seq(STRING)
    BY <1>1, <1>3
  <2> HIDE DEF part
  <2>2. Chomp(part) \in Seq(STRING)
    <3>1. part # << >> => Front(part) \in Seq(STRING)
      BY <2>1 DEF Front
    <3> QED
      BY <2>1, <3>1 DEF Chomp
  <2> QED
    BY <1>4, <2>2 DEF part
<1>13. Rest(buf, pos) = SubSeq(tokens, end + 1, r)
  <2> DEFINE one == SubSeq(buf, pos + 1, Len(buf))
             other == SubSeq(tokens, end + 1, r)
  <2>1. one \in Seq(STRING) /\ Len(one) = Len(buf) - pos /\ \A i \in 1..Len(one) : one[i] = buf[pos + i]
    BY <1>1, <1>3
  <2>2. other \in Seq(STRING) /\ Len(other) = r - end /\ \A i \in 1..Len(other) : other[i] = tokens[end + i]
    <3>1. end \in Nat /\ end <= r
      BY <1>1, <1>7
    <3> HIDE DEF end
    <3>2. /\ other \in Seq(STRING) /\ Len(other) = r - end
          /\ \A i \in 1..r - end : other[i] = tokens[end + i]
      BY ONLY <1>1, <3>1, PartIs
    <3> QED
      BY <3>2
  <2>3. Len(one) = Len(other)
    BY <1>6, <2>1, <2>2, <1>1, <1>3
  <2>4. \A i \in 1..Len(one) : one[i] = other[i]
    <3> SUFFICES ASSUME NEW i \in 1..Len(one) PROVE one[i] = other[i]
      OBVIOUS
    <3>1. p \in Nat /\ pos \in 1..Len(buf) /\ Len(buf) \in Nat
      BY <1>1, <1>3
    <3>2. i \in Nat /\ i <= Len(buf) - pos /\ i >= 1
      BY <2>1, <3>1
    <3> HIDE DEF one
    <3>3. pos + i \in 1..Len(buf) /\ p + (pos + i) = end + i
      BY <3>1, <3>2
    <3> QED
      BY <1>6, <2>1, <2>2, <2>3, <3>3
  <2> HIDE DEF one, other
  <2>5. one = other
    BY <2>1, <2>2, <2>3, <2>4
  <2> QED
    BY <1>5, <2>5 DEF one, other
<1>14. LinesOf(tokens)[end - 1] = LinesOf(tokens)[p]
  <2> DEFINE n == end - 1
  <2>1. p \in 0..Len(tokens) /\ n \in p..Len(tokens) /\ \A i \in p + 1..n : tokens[i] # "nl"
    BY <1>1, <1>3, <1>7, <1>8
  <2> HIDE DEF n
  <2>2. LinesOf(tokens)[n] = LinesOf(tokens)[p]
    BY <1>1, <2>1, LinesOfSame
  <2> QED
    BY <2>2 DEF n
<1>15. Said[c][end] = IF LineOf(c) = << >> THEN Said[c][p] ELSE Append(Said[c][p], LineOf(c))
  <2>1. end \in 1..Len(tokens)
    BY <1>1, <1>7
  <2> HIDE DEF end
  <2> QED
    BY <1>1, <1>7, <1>11, <1>14, <2>1, LinesOfStep
<1> QED
  BY <1>7, <1>11, <1>12, <1>13, <1>15 DEF p, r, buf, pos, tokens

\* What a client has been promised: the lines that have come, and as many
\* replies as lines have been taken out.
LEMMA SaidGrows ==
    ASSUME IInv, NEW c \in Clients, NEW n \in 0..sent[c]
    PROVE  /\ Len(Said[c][n]) \in 0..Len(Said[c][sent[c]])
           /\ Said[c][n] = SubSeq(Said[c][sent[c]], 1, Len(Said[c][n]))
           /\ Said[c][n] \in Seq(LinesIn(Script[c]))
           /\ Said[c][sent[c]] \in Seq(LinesIn(Script[c]))
<1> DEFINE few == Said[c][n]
           many == Said[c][sent[c]]
<1>1. sent[c] \in n..Len(Script[c]) /\ n \in 0..Len(Script[c])
  BY ParsedType, SaidIs
<1>2. few \in Seq(LinesIn(Script[c])) /\ many \in Seq(LinesIn(Script[c]))
  BY <1>1, SaidIs, LinesOfType
<1>3. Len(few) <= Len(many) /\ \A k \in 1..Len(few) : many[k] = few[k]
  <2> DEFINE tokens == Script[c]
             m == sent[c]
  <2>1. Len(tokens) \in Nat /\ n \in 0..Len(tokens) /\ m \in n..Len(tokens)
    BY <1>1, SaidIs
  <2>2. few = LinesOf(tokens)[n] /\ many = LinesOf(tokens)[m]
    BY SaidIs
  <2> HIDE DEF tokens, m, few, many
  <2> QED
    BY <2>1, <2>2, LinesOfGrows
<1> HIDE DEF few, many
<1>4. few = SubSeq(many, 1, Len(few))
  BY <1>2, <1>3
<1> QED
  BY <1>2, <1>3, <1>4 DEF few, many

-----------------------------------------------------------------------------
(***************************************************************************)
(* The refinement, one action after the other.                             *)
(***************************************************************************)
\* What ConsoleServer substitutes for the variables of the session.
Asked == [c \in Clients |-> Said[c][sent[c]]]
Answered == [c \in Clients |-> Len(Said[c][Parsed(c)])]
Gone == {c \in Clients : ended[c] # "no"}

\* Two adjacent parts of a sequence make one.
LEMMA SubSeqJoin ==
    ASSUME NEW S, NEW tokens \in Seq(S), NEW p \in Nat, NEW r \in Nat, NEW s \in Nat,
           p <= r, r <= s, s <= Len(tokens)
    PROVE  SubSeq(tokens, p + 1, r) \o SubSeq(tokens, r + 1, s) = SubSeq(tokens, p + 1, s)
<1> DEFINE one == SubSeq(tokens, p + 1, r)
           two == SubSeq(tokens, r + 1, s)
           both == SubSeq(tokens, p + 1, s)
<1>1. one \in Seq(S) /\ Len(one) = r - p /\ \A i \in 1..r - p : one[i] = tokens[p + i]
  OBVIOUS
<1>2. two \in Seq(S) /\ Len(two) = s - r /\ \A i \in 1..s - r : two[i] = tokens[r + i]
  OBVIOUS
<1>3. both \in Seq(S) /\ Len(both) = s - p /\ \A i \in 1..s - p : both[i] = tokens[p + i]
  OBVIOUS
<1> HIDE DEF one, two, both
<1>4. \A i \in 1..s - p : (one \o two)[i] = both[i]
  <2> SUFFICES ASSUME NEW i \in 1..s - p PROVE (one \o two)[i] = both[i]
    OBVIOUS
  <2>1. CASE i <= r - p
    BY <1>1, <1>2, <1>3, <2>1
  <2>2. CASE i > r - p
    <3>1. i - (r - p) \in 1..s - r /\ r + (i - (r - p)) = p + i
      BY <2>2
    <3>2. (one \o two)[i] = two[i - (r - p)]
      BY <1>1, <1>2, <2>2
    <3> QED
      BY <1>2, <1>3, <3>1, <3>2
  <2>3. i <= r - p \/ i > r - p
    OBVIOUS
  <2> QED
    BY <2>1, <2>2, <2>3
<1> QED
  BY <1>1, <1>2, <1>3, <1>4 DEF one, two, both

\* A step that leaves the buffers alone.
LEMMA StreamsSame ==
    ASSUME Streams, UNCHANGED <<recvd, read_buf, received, write_buf>>,
           main' # "poll" => stop_requested'
    PROVE  Streams' /\ Answered' = Answered
<1>1. \A c \in Clients : Parsed(c)' = Parsed(c)
  BY DEF Parsed
<1> QED
  BY <1>1 DEF Streams, Answered, Promise!Replies, Promise!Reply, Promise!Parses

\* A step that changes nothing of the session.
LEMMA Stutters ==
    ASSUME UNCHANGED <<session, Asked, Answered, received, Gone, stop_requested>>
    PROVE  [Promise!Next]_(Promise!vars)
BY DEF Promise!vars, Asked, Answered, Gone, Parsed

\* A step that opens a session.
LEMMA ConnectStep ==
    ASSUME NEW c \in Clients, session[c] = "none",
           session' = [session EXCEPT ![c] = "open"],
           UNCHANGED <<Asked, Answered, received, Gone, stop_requested>>
    PROVE  [Promise!Next]_(Promise!vars)
BY DEF Promise!Next, Promise!Connect, Asked, Answered, Gone, Parsed

\* close_client is allowed: the client has gone, or stop was asked for.
LEMMA CloseStep ==
    ASSUME IInv, Streams, NEW fd \in FDs, clients_[fd] # NoClient, CloseClient(fd),
           ended[clients_[fd]] # "no" \/ main # "poll",
           UNCHANGED <<Asked, Answered, received, Gone, stop_requested>>
    PROVE  [Promise!Next]_(Promise!vars)
<1> DEFINE c == clients_[fd]
<1>1. c \in Clients /\ session[c] = "open"
  BY DEF IInv, TypeOK, Places
<1>2. session' = [session EXCEPT ![c] = "closed"]
  BY DEF CloseClient
<1>3. c \in Gone \/ stop_requested
  BY <1>1 DEF Streams, Gone
<1>4. Promise!Close(c)
  BY <1>1, <1>2, <1>3 DEF Promise!Close, Asked, Answered, Gone, Parsed
<1> QED
  BY <1>1, <1>4 DEF Promise!Next

\* What a client sends only adds to the lines it has asked.
LEMMA ClientSendsRefines ==
    ASSUME RInv, NEW c \in Clients, ClientSends(c)
    PROVE  Streams' /\ [Promise!Next]_(Promise!vars)
<1> USE DEF ClientSends, clientVars, kernelVars, bufVars, threadVars
<1>1. Streams' /\ Answered' = Answered
  BY StreamsSame DEF RInv, Streams
<1>2. PICK n \in Nat : sent[c] < n /\ n <= Len(Script[c]) /\ sent' = [sent EXCEPT ![c] = n]
  BY ConsoleAssumption
<1>3. Asked' = [Asked EXCEPT ![c] = Said[c][n]]
  BY <1>2 DEF Asked, RInv, IInv, TypeOK
<1>4. IsPrefix(Asked[c], Asked'[c])
  <2> DEFINE few == LinesOf(Script[c])[sent[c]]
             many == LinesOf(Script[c])[n]
  <2>1. sent[c] \in 0..Len(Script[c]) /\ n \in sent[c]..Len(Script[c]) /\ Len(Script[c]) \in Nat
    BY <1>2, ParsedType, SaidIs DEF RInv
  <2>2. Len(few) <= Len(many) /\ \A k \in 1..Len(few) : many[k] = few[k]
    <3> DEFINE tokens == Script[c]
               m == sent[c]
    <3>1. Len(tokens) \in Nat /\ m \in 0..Len(tokens) /\ n \in m..Len(tokens)
      BY <2>1
    <3>2. few = LinesOf(tokens)[m] /\ many = LinesOf(tokens)[n]
      OBVIOUS
    <3> HIDE DEF ClientSends, tokens, m, few, many
    <3>3. \A i \in m..Len(tokens) :
             /\ Len(LinesOf(tokens)[m]) <= Len(LinesOf(tokens)[i])
             /\ \A k \in 1..Len(LinesOf(tokens)[m]) : LinesOf(tokens)[i][k] = LinesOf(tokens)[m][k]
      BY <3>1, LinesOfGrows
    <3> QED
      BY <3>1, <3>2, <3>3
  <2>3. few \in Seq(LinesIn(Script[c])) /\ many \in Seq(LinesIn(Script[c]))
    BY <2>1, LinesOfType
  <2>4. Asked[c] = few /\ Asked'[c] = many
    BY <1>3, SaidIs DEF Asked
  <2> HIDE DEF few, many
  <2> QED
    BY <2>2, <2>3, <2>4 DEF IsPrefix
<1>5. Promise!Ask(c)
  BY <1>1, <1>3, <1>4
     DEF Promise!Ask, Promise!IsPrefix, IsPrefix, Asked, Answered, Gone, Parsed
<1> QED
  BY <1>1, <1>5 DEF Promise!Next

\* A client leaves once, whatever it does after.
LEMMA ClientLeavesRefines ==
    ASSUME RInv, NEW c \in Clients, ClientLeaves(c)
    PROVE  Streams' /\ [Promise!Next]_(Promise!vars)
<1> USE DEF ClientLeaves, clientVars, kernelVars, bufVars, threadVars
<1>1. Streams' /\ Answered' = Answered
  BY StreamsSame DEF RInv, Streams
<1>2. Gone' = Gone \cup {c}
  BY DEF Gone, RInv, IInv, TypeOK
<1>3. Promise!Disconnect(c)
  BY <1>1, <1>2 DEF Promise!Disconnect, Asked, Answered, Gone, Parsed
<1> QED
  BY <1>1, <1>3 DEF Promise!Next

\* on_accept_ready opens a session or stutters.
LEMMA AcceptRefines ==
    ASSUME RInv, Accept
    PROVE  Streams' /\ [Promise!Next]_(Promise!vars)
<1> USE DEF Accept, Leave, clientVars, kernelVars, bufVars, threadVars
<1>1. Streams' /\ Answered' = Answered
  BY StreamsSame DEF RInv, Streams
<1>2. Asked' = Asked /\ Gone' = Gone
  BY DEF Asked, Gone
<1>3. CASE backlog = {}
  BY <1>1, <1>2, <1>3, Stutters
<1>4. CASE backlog # {}
  <2>1. PICK c \in backlog : session' = [session EXCEPT ![c] = "open"]
    BY <1>4
  <2>2. c \in Clients /\ session[c] = "none"
    BY DEF RInv, IInv, TypeOK, Places
  <2> QED
    BY <1>1, <1>2, <2>1, <2>2, ConnectStep
<1> QED
  BY <1>3, <1>4

\* on_client_read moves what has arrived into read_buf, a stutter, or closes
\* the client.
LEMMA RecvRefines ==
    ASSUME RInv, Recv
    PROVE  Streams' /\ [Promise!Next]_(Promise!vars)
<1> DEFINE c == clients_[ioFd]
<1>1. ioFd \in FDs /\ c # NoClient /\ c \in Clients
  BY DEF Recv, RInv, IInv, Places, TypeOK
<1>2. UNCHANGED <<sent, ended, received, write_buf, stop_requested, main>>
  BY DEF Recv, clientVars
<1>3. Asked' = Asked /\ Gone' = Gone
  BY <1>2 DEF Asked, Gone
<1>4. CASE /\ read_buf' = [read_buf EXCEPT ![c] = @ \o Arrived(c)]
           /\ recvd' = [recvd EXCEPT ![c] = sent[c]]
           /\ UNCHANGED session
  <2>1. /\ Parsed(c) \in 0..recvd[c] /\ recvd[c] \in 0..sent[c] /\ sent[c] \in 0..Len(Script[c])
        /\ Script[c] \in Seq(STRING) /\ read_buf[c] \in Seq(STRING)
        /\ read_buf[c] = SubSeq(Script[c], Parsed(c) + 1, recvd[c])
    BY <1>1, ParsedType, SaidIs DEF RInv, Streams
  <2>2. read_buf'[c] = read_buf[c] \o Arrived(c) /\ recvd'[c] = sent[c]
    BY <1>1, <1>4 DEF RInv, IInv, TypeOK
  <2>3. read_buf'[c] = SubSeq(Script[c], Parsed(c) + 1, sent[c])
    <3> DEFINE p == Parsed(c)
               r == recvd[c]
               s == sent[c]
               tokens == Script[c]
    <3>1. p \in Nat /\ r \in Nat /\ s \in Nat /\ p <= r /\ r <= s /\ s <= Len(tokens)
      BY <2>1
    <3>2. tokens \in Seq(STRING)
      BY <2>1
    <3>3. read_buf'[c] = SubSeq(tokens, p + 1, r) \o SubSeq(tokens, r + 1, s)
      BY <2>1, <2>2 DEF Arrived
    <3> HIDE DEF p, r, s, tokens
    <3> QED
      BY <3>1, <3>2, <3>3, SubSeqJoin DEF p, s, tokens
  <2>4. recvd'[c] - Len(read_buf'[c]) = Parsed(c)
    <3> DEFINE p == Parsed(c)
               s == sent[c]
    <3> HIDE DEF c, p, s
    <3>1. Len(SubSeq(Script[c], p + 1, s)) = s - p /\ s \in Nat /\ p \in Nat
      BY <2>1 DEF p, s
    <3> QED
      BY <2>2, <2>3, <3>1 DEF p, s
  <2>5. \A d \in Clients : d # c => read_buf'[d] = read_buf[d] /\ recvd'[d] = recvd[d]
    BY <1>4 DEF RInv, IInv, TypeOK
  <2>6. \A d \in Clients : recvd'[d] - Len(read_buf'[d]) = Parsed(d)
    BY <2>4, <2>5 DEF Parsed
  <2> HIDE DEF c
  <2>7. Answered' = Answered
    BY <2>6 DEF Answered, Parsed
  <2>8. Streams'
    BY <1>2, <2>2, <2>3, <2>5, <2>6
       DEF RInv, Streams, Parsed, Promise!Replies, Promise!Reply, Promise!Parses
  <2> QED
    BY <1>2, <1>3, <1>4, <2>7, <2>8, Stutters
<1>5. CASE /\ ended[c] # "no" /\ CloseClient(ioFd)
           /\ UNCHANGED <<read_buf, recvd>>
  <2>1. Streams' /\ Answered' = Answered
    BY <1>2, <1>5, StreamsSame DEF RInv, Streams
  <2> QED
    BY <1>1, <1>2, <1>3, <1>5, <2>1, CloseStep DEF RInv
<1>6. CASE UNCHANGED <<read_buf, recvd, session>>
  <2>1. Streams' /\ Answered' = Answered
    BY <1>2, <1>6, StreamsSame DEF RInv, Streams
  <2> QED
    BY <1>2, <1>3, <1>6, <2>1, Stutters
<1> QED
  BY <1>4, <1>5, <1>6 DEF Recv

\* A line of c, up to end, has been taken out of its buffer.
LEMMA LineTaken ==
    ASSUME RInv, NEW c \in Clients, NEW end \in 1..recvd[c], Script[c][end] = "nl",
           read_buf' = [read_buf EXCEPT ![c] = SubSeq(Script[c], end + 1, recvd[c])],
           \A d \in Clients : d # c => write_buf'[d] = write_buf[d],
           received[c] \o write_buf'[c] = Promise!Replies(Said[c][end]),
           stop_requested => stop_requested', UNCHANGED <<recvd, received, main>>
    PROVE  Streams' /\ Answered' = [Answered EXCEPT ![c] = Len(Said[c][end])]
<1>1. recvd[c] \in Nat /\ recvd[c] <= Len(Script[c]) /\ Script[c] \in Seq(STRING)
  BY ParsedType, SaidIs DEF RInv
<1>2. read_buf'[c] = SubSeq(Script[c], end + 1, recvd[c])
  BY DEF RInv, IInv, TypeOK
<1>3. Len(SubSeq(Script[c], end + 1, recvd[c])) = recvd[c] - end
  <2> DEFINE r == recvd[c]
  <2>1. r \in Nat /\ r <= Len(Script[c]) /\ end \in 1..r
    BY <1>1
  <2> HIDE DEF r
  <2>2. Len(SubSeq(Script[c], end + 1, r)) = r - end
    BY <1>1, <2>1
  <2> QED
    BY <2>2 DEF r
<1>4. recvd'[c] - Len(read_buf'[c]) = end
  BY <1>1, <1>2, <1>3
<1>5. \A d \in Clients : d # c => read_buf'[d] = read_buf[d]
  BY DEF RInv, IInv, TypeOK
<1>6. \A d \in Clients : Parsed(d)' = IF d = c THEN end ELSE Parsed(d)
  <2>1. ASSUME NEW d \in Clients, d # c PROVE Parsed(d)' = Parsed(d)
    BY <1>5, <2>1 DEF Parsed
  <2>2. Parsed(c)' = end
    BY <1>4 DEF Parsed
  <2> QED
    BY <2>1, <2>2
<1>7. Streams'
  <2>1. ASSUME NEW d \in Clients, d # c
        PROVE  /\ read_buf'[d] = SubSeq(Script[d], Parsed(d)' + 1, recvd'[d])
               /\ Parsed(d)' = 0 \/ Script[d][Parsed(d)'] = "nl"
               /\ received'[d] \o write_buf'[d] = Promise!Replies(Said[d][Parsed(d)'])
    <3>1. read_buf'[d] = read_buf[d] /\ Parsed(d)' = Parsed(d) /\ write_buf'[d] = write_buf[d]
      BY <1>5, <1>6, <2>1
    <3>2. /\ read_buf[d] = SubSeq(Script[d], Parsed(d) + 1, recvd[d])
          /\ Parsed(d) = 0 \/ Script[d][Parsed(d)] = "nl"
          /\ received[d] \o write_buf[d] = Promise!Replies(Said[d][Parsed(d)])
      BY <2>1 DEF RInv, Streams
    <3> QED
      BY <3>1, <3>2
  <2>2. /\ read_buf'[c] = SubSeq(Script[c], Parsed(c)' + 1, recvd'[c])
        /\ Script[c][Parsed(c)'] = "nl"
        /\ received'[c] \o write_buf'[c] = Promise!Replies(Said[c][Parsed(c)'])
    BY <1>2, <1>6
  <2>3. main' # "poll" => stop_requested'
    BY DEF RInv, Streams
  <2> QED
    BY <2>1, <2>2, <2>3 DEF Streams, Promise!Replies, Promise!Reply, Promise!Parses
<1>8. Answered' = [Answered EXCEPT ![c] = Len(Said[c][end])]
  BY <1>6 DEF Answered
<1> QED
  BY <1>7, <1>8

\* Concatenation.
LEMMA ConcatAssociates ==
    \A a, b, d \in Seq(Parts) :
        /\ (a \o b) \o d = a \o (b \o d)
        /\ a \o b \in Seq(Parts) /\ Len(a \o b) = Len(a) + Len(b)
OBVIOUS

\* A line taken out of read_buf is the next line asked, and it is answered; an
\* empty one is neither.
LEMMA NextLineRefines ==
    ASSUME RInv, NextLine
    PROVE  Streams' /\ [Promise!Next]_(Promise!vars)
<1> SUFFICES ASSUME NEW c, c = clients_[ioFd]
             PROVE  Streams' /\ [Promise!Next]_(Promise!vars)
  OBVIOUS
<1> DEFINE pos == FirstFeed(c)
           line == LineOf(c)
           end == Parsed(c) + pos
<1>1. ioFd \in FDs /\ c # NoClient /\ c \in Clients /\ session[c] = "open"
  BY DEF NextLine, RInv, IInv, Places, TypeOK
<1>2. UNCHANGED <<sent, ended, recvd, received, session, main>>
  BY DEF NextLine, clientVars, kernelVars
<1>3. Asked' = Asked /\ Gone' = Gone
  BY <1>2 DEF Asked, Gone
<1>4. CASE UNCHANGED <<bufVars, stop_requested>>
  <2>1. Streams' /\ Answered' = Answered
    BY <1>2, <1>4, StreamsSame DEF RInv, Streams, bufVars
  <2> QED
    BY <1>2, <1>3, <1>4, <2>1, Stutters
<1>5. CASE /\ pos # 0
           /\ read_buf' = [read_buf EXCEPT ![c] = Rest(@, pos)]
           /\ IF line = << >>
              THEN UNCHANGED <<write_buf, write_armed, stop_requested, writers, requested>>
              ELSE HandleLine(ioFd, line)
  <2>1. /\ end \in 1..recvd[c] /\ Script[c][end] = "nl"
        /\ line \in Seq(STRING)
        /\ Said[c][end] = IF line = << >> THEN Said[c][Parsed(c)]
                          ELSE Append(Said[c][Parsed(c)], line)
        /\ line = LineAt(Script[c], end)
        /\ Rest(read_buf[c], pos) = SubSeq(Script[c], end + 1, recvd[c])
    BY <1>1, <1>5, LineEnds DEF RInv
  <2>2. read_buf' = [read_buf EXCEPT ![c] = SubSeq(Script[c], end + 1, recvd[c])]
    BY <1>5, <2>1
  <2>3. received[c] \o write_buf[c] = Promise!Replies(Said[c][Parsed(c)])
    BY <1>1 DEF RInv, Streams
  <2> HIDE DEF pos, line, end
  <2>4. CASE line = << >>
    <3>1. UNCHANGED <<write_buf, stop_requested>> /\ Said[c][end] = Said[c][Parsed(c)]
      BY <1>5, <2>1, <2>4
    <3>2. Streams' /\ Answered' = [Answered EXCEPT ![c] = Len(Said[c][Parsed(c)])]
      <4>1. received[c] \o write_buf'[c] = Promise!Replies(Said[c][end])
        BY <2>3, <3>1
      <4>2. Streams' /\ Answered' = [Answered EXCEPT ![c] = Len(Said[c][end])]
        BY <1>1, <1>2, <2>1, <2>2, <3>1, <4>1, LineTaken
      <4> QED
        BY <3>1, <4>2
    <3>3. Answered' = Answered
      BY <3>2 DEF Answered
    <3> QED
      BY <1>2, <1>3, <3>1, <3>2, <3>3, Stutters
  <2>5. CASE line # << >>
    <3> DEFINE few == Said[c][Parsed(c)]
               many == Said[c][sent[c]]
               reply == Promise!Reply(line)
    <3>1. /\ write_buf' = [write_buf EXCEPT ![c] = @ \o reply]
          /\ stop_requested' = (stop_requested \/ Promise!IsStop(line))
      BY <1>5, <2>1, <2>5, ReplyIs DEF HandleLine, QueueWrite
    <3>2. /\ few \in Seq(LinesIn(Script[c])) /\ line \in LinesIn(Script[c])
          /\ Said[c][end] = Append(few, line)
      <4>1. Parsed(c) \in 0..sent[c] /\ end \in 1..Len(Script[c])
        BY <1>1, <2>1, ParsedType DEF RInv
      <4>2. few \in Seq(LinesIn(Script[c]))
        BY <1>1, <4>1, SaidGrows DEF RInv
      <4> QED
        BY <2>1, <2>5, <4>1, <4>2 DEF LinesIn
    <3>3. received[c] \o write_buf'[c] = Promise!Replies(Said[c][end])
      <4>1. write_buf'[c] = write_buf[c] \o reply
        BY <1>1, <3>1 DEF RInv, IInv, TypeOK
      <4>2. received[c] \in Seq(Parts) /\ write_buf[c] \in Seq(Parts) /\ reply \in Seq(Parts)
        BY <1>1, ParsedType, ReplyParts DEF RInv
      <4>3. Promise!Replies(Append(few, line)) = Promise!Replies(few) \o reply
        BY <3>2, RepliesAppend
      <4>4. received[c] \o write_buf[c] = Promise!Replies(few)
        BY <2>3
      <4> HIDE DEF few, reply
      <4>5. received[c] \o write_buf'[c] = Promise!Replies(few) \o reply
        <5> DEFINE x == received[c]
                   y == write_buf[c]
        <5>1. x \in Seq(Parts) /\ y \in Seq(Parts) /\ reply \in Seq(Parts)
          BY <4>2
        <5> HIDE DEF x, y
        <5>2. (x \o y) \o reply = x \o (y \o reply)
          BY ONLY <5>1, ConcatAssociates
        <5> QED
          BY <4>1, <4>4, <5>2 DEF x, y
      <4> QED
        BY <3>2, <4>3, <4>5
    <3>4. Streams' /\ Answered' = [Answered EXCEPT ![c] = Len(Said[c][end])]
      <4>1. \A d \in Clients : d # c => write_buf'[d] = write_buf[d]
        BY <3>1 DEF RInv, IInv, TypeOK
      <4> QED
        BY <1>1, <1>2, <2>1, <2>2, <3>1, <3>3, <4>1, LineTaken
    <3>5. Len(Said[c][end]) = Len(few) + 1 /\ Answered[c] = Len(few) /\ Asked[c] = many
      BY <1>1, <3>2 DEF Answered, Asked
    <3>6. Len(few) < Len(many) /\ many[Len(few) + 1] = line
      <4> DEFINE more == Said[c][end]
      <4>1. end \in 0..sent[c]
        BY <1>1, <2>1, ParsedType DEF RInv
      <4>2. Len(more) \in 0..Len(many) /\ more = SubSeq(many, 1, Len(more)) /\ many \in Seq(LinesIn(Script[c]))
        BY <1>1, <4>1, SaidGrows DEF RInv
      <4>3. more = Append(few, line) /\ few \in Seq(LinesIn(Script[c]))
        BY <3>2
      <4> HIDE DEF few, many, more
      <4>4. Len(more) = Len(few) + 1 /\ more[Len(few) + 1] = line /\ Len(few) \in Nat
        BY <3>2, <4>3
      <4> QED
        BY <4>2, <4>4
    <3>7. Promise!Answer(c)
      <4>1. Answered' = [Answered EXCEPT ![c] = @ + 1]
        BY <1>1, <3>4, <3>5 DEF Answered
      <4>2. Answered[c] < Len(Asked[c]) /\ Asked[c][Answered[c] + 1] = line
        BY <3>5, <3>6
      <4> HIDE DEF few, many, reply
      <4> QED
        BY <1>1, <1>2, <1>3, <3>1, <4>1, <4>2
           DEF Promise!Answer, Promise!IsStop, Asked, Answered, Gone, Parsed
    <3> QED
      BY <1>1, <3>4, <3>7 DEF Promise!Next
  <2> QED
    BY <2>4, <2>5
<1> QED
  BY <1>4, <1>5 DEF NextLine, FirstFeed, LineOf

\* on_client_write passes on a part of the replies, in order.
LEMMA SendRefines ==
    ASSUME RInv, Send
    PROVE  Streams' /\ [Promise!Next]_(Promise!vars)
<1> SUFFICES ASSUME NEW c, c = clients_[ioFd]
             PROVE  Streams' /\ [Promise!Next]_(Promise!vars)
  OBVIOUS
<1> DEFINE n == Taken(c)
<1>1. ioFd \in FDs /\ c # NoClient /\ c \in Clients /\ session[c] = "open"
  BY DEF Send, RInv, IInv, Places, TypeOK
<1>2. UNCHANGED <<sent, ended, recvd, read_buf, stop_requested, main>>
  BY DEF Send
<1>3. Asked' = Asked /\ Gone' = Gone /\ Answered' = Answered
  BY <1>2 DEF Asked, Gone, Answered, Parsed
<1>4. CASE /\ n > 0
           /\ write_buf' = [write_buf EXCEPT ![c] = Rest(@, n)]
           /\ received' = [received EXCEPT ![c] = @ \o SubSeq(write_buf[c], 1, n)]
           /\ UNCHANGED session
  <2> DEFINE in == received[c]
             out == write_buf[c]
             replies == Promise!Replies(Said[c][Parsed(c)])
  <2>1. n \in 1..Len(out)
    BY <1>1, <1>4, TakenType DEF RInv, IInv
  <2>2. in \in Seq(Parts) /\ out \in Seq(Parts) /\ in \o out = replies
    BY <1>1, ParsedType DEF RInv, Streams
  <2>3. /\ received'[c] = in \o SubSeq(out, 1, n) /\ write_buf'[c] = SubSeq(out, n + 1, Len(out))
        /\ \A d \in Clients : d # c => received'[d] = received[d] /\ write_buf'[d] = write_buf[d]
    BY <1>1, <1>4 DEF RInv, IInv, TypeOK, Rest
  <2>4. /\ received'[c] \o write_buf'[c] = replies
        /\ received'[c] = SubSeq(replies, 1, Len(in) + n)
        /\ Len(in) + n \in Len(in) + 1..Len(replies)
    <3> HIDE DEF in, out, replies, n
    <3> DEFINE one == SubSeq(out, 1, n)
               two == SubSeq(out, n + 1, Len(out))
    <3>1. one \in Seq(Parts) /\ two \in Seq(Parts) /\ one \o two = out /\ Len(one) = n
      <4>1. one = SubSeq(out, 0 + 1, n) /\ out = SubSeq(out, 0 + 1, Len(out))
        BY <2>2
      <4>2. SubSeq(out, 0 + 1, n) \o two = SubSeq(out, 0 + 1, Len(out))
        BY <2>1, <2>2, SubSeqJoin
      <4>3. one \in Seq(Parts) /\ two \in Seq(Parts) /\ Len(one) = n
        BY <2>1, <2>2
      <4> HIDE DEF two
      <4> QED
        BY <4>1, <4>2, <4>3
    <3> HIDE DEF one, two
    <3>2. (in \o one) \o two = replies
      <4>1. in \in Seq(Parts) /\ one \in Seq(Parts) /\ two \in Seq(Parts)
        BY <2>2, <3>1
      <4>2. (in \o one) \o two = in \o (one \o two)
        BY ONLY <4>1, ConcatAssociates
      <4> QED
        BY <2>2, <3>1, <4>2
    <3>3. in \o one = SubSeq((in \o one) \o two, 1, Len(in) + n)
      <4> DEFINE start == in \o one
      <4>1. start \in Seq(Parts) /\ Len(start) = Len(in) + n
        BY <2>2, <3>1, ConcatAssociates
      <4> HIDE DEF start
      <4>2. start = SubSeq(start \o two, 1, Len(start))
        BY <3>1, <4>1
      <4> QED
        BY <4>1, <4>2 DEF start
    <3>4. Len(replies) = Len(in) + Len(out) /\ Len(in) \in Nat /\ Len(out) \in Nat
      BY <2>2
    <3>5. received'[c] = in \o one /\ write_buf'[c] = two
      BY <2>3 DEF one, two
    <3>6. Len(in) + n \in Len(in) + 1..Len(replies)
      BY <2>1, <3>4
    <3> QED
      BY <3>2, <3>3, <3>5, <3>6
  <2>5. Streams'
    <3>1. \A d \in Clients : received'[d] \o write_buf'[d] = received[d] \o write_buf[d]
      BY <2>2, <2>3, <2>4
    <3>2. \A d \in Clients : Parsed(d)' = Parsed(d)
      BY <1>2 DEF Parsed
    <3> QED
      BY <1>2, <3>1, <3>2 DEF RInv, Streams, Promise!Replies, Promise!Reply, Promise!Parses
  <2>6. Said[c][Parsed(c)] = SubSeq(Asked[c], 1, Answered[c])
    <3>1. Parsed(c) \in 0..sent[c]
      BY <1>1, ParsedType DEF RInv
    <3> QED
      BY <1>1, <3>1, SaidGrows DEF RInv, Asked, Answered
  <2>7. Promise!Receive(c)
    <3>1. received' = [received EXCEPT ![c] = SubSeq(replies, 1, Len(in) + n)]
      BY <1>1, <1>4, <2>3, <2>4 DEF RInv, IInv, TypeOK
    <3>2. \E k \in Len(received[c]) + 1..Len(Promise!Replies(SubSeq(Asked[c], 1, Answered[c]))) :
             received' = [received EXCEPT ![c] = SubSeq(Promise!Replies(SubSeq(Asked[c], 1, Answered[c])), 1, k)]
      <4> HIDE DEF n
      <4> QED
        BY <2>4, <2>6, <3>1
    <3> QED
      BY <1>1, <1>2, <1>3, <1>4, <3>2 DEF Promise!Receive, Asked, Answered, Gone, Parsed
  <2> QED
    BY <1>1, <2>5, <2>7 DEF Promise!Next
<1>5. CASE UNCHANGED <<write_buf, received, session>>
  <2>1. Streams'
    BY <1>2, <1>5, StreamsSame DEF RInv, Streams
  <2> QED
    BY <1>2, <1>3, <1>5, <2>1, Stutters
<1>6. CASE ended[c] = "reset" /\ CloseClient(ioFd) /\ UNCHANGED <<write_buf, received>>
  <2>1. Streams'
    BY <1>2, <1>6, StreamsSame DEF RInv, Streams
  <2> QED
    BY <1>1, <1>2, <1>3, <1>6, <2>1, CloseStep DEF RInv
<1> QED
  BY <1>4, <1>5, <1>6 DEF Send

-----------------------------------------------------------------------------
(***************************************************************************)
(* The server keeps its promise.                                           *)
(***************************************************************************)

\* Nothing has gone through the buffers at the start.
LEMMA StreamsStart == Init => Streams /\ Promise!Init
<1> SUFFICES ASSUME Init PROVE Streams /\ Promise!Init
  OBVIOUS
<1>1. \A c \in Clients : /\ recvd[c] = 0 /\ sent[c] = 0 /\ read_buf[c] = << >>
                         /\ received[c] = << >> /\ write_buf[c] = << >> /\ ended[c] = "no"
  BY DEF Init
<1>2. \A c \in Clients : Parsed(c) = 0
  BY <1>1 DEF Parsed
<1>3. \A c \in Clients : Said[c][0] = << >>
  BY SaidIs, LinesOfStep
<1>4. ASSUME NEW c \in Clients
      PROVE  /\ read_buf[c] = SubSeq(Script[c], Parsed(c) + 1, recvd[c])
             /\ received[c] \o write_buf[c] = Promise!Replies(Said[c][Parsed(c)])
  <2>1. SubSeq(Script[c], 1, 0) = << >>
    BY SaidIs
  <2>2. Promise!Replies(Said[c][0]) = << >>
    BY <1>3, RepliesEmpty
  <2>3. << >> \o << >> = << >>
    OBVIOUS
  <2>4. /\ read_buf[c] = << >> /\ Parsed(c) + 1 = 1 /\ recvd[c] = 0
        /\ received[c] = << >> /\ write_buf[c] = << >>
    BY <1>1, <1>2
  <2> QED
    BY <1>2, <2>1, <2>2, <2>3, <2>4
<1>5. Streams
  BY <1>2, <1>4 DEF Streams, Init
<1>6. Asked = [c \in Clients |-> << >>] /\ Answered = [c \in Clients |-> 0] /\ Gone = {}
  BY <1>1, <1>2, <1>3 DEF Asked, Answered, Gone
<1>7. Promise!Init
  BY <1>6 DEF Init, Promise!Init, Asked, Answered, Gone, Parsed
<1> QED
  BY <1>5, <1>7

\* Actions that neither client nor session can tell from nothing.
LEMMA QuietStep ==
    ASSUME RInv, UNCHANGED <<sent, ended, recvd, received, session, read_buf, write_buf,
                             stop_requested>>,
           main' = main \/ stop_requested
    PROVE  Streams' /\ [Promise!Next]_(Promise!vars)
<1>1. Streams' /\ Answered' = Answered
  BY StreamsSame DEF RInv, Streams
<1>2. Asked' = Asked /\ Gone' = Gone
  BY DEF Asked, Gone
<1> QED
  BY <1>1, <1>2, Stutters

\* stop may close a client that has not gone.
LEMMA StopClientRefines ==
    ASSUME RInv, NEW fd \in FDs, StopClient(fd)
    PROVE  Streams' /\ [Promise!Next]_(Promise!vars)
<1> USE DEF StopClient, clientVars, bufVars, threadVars
<1>1. Streams' /\ Answered' = Answered
  BY StreamsSame DEF RInv, Streams
<1>2. Asked' = Asked /\ Gone' = Gone
  BY DEF Asked, Gone
<1> QED
  BY <1>1, <1>2, CloseStep DEF RInv

\* Every step keeps Streams and is a step of the session or a stutter.
LEMMA StepRefines == RInv /\ [Next]_vars => Streams' /\ [Promise!Next]_(Promise!vars)
<1> SUFFICES ASSUME RInv, [Next]_vars
             PROVE  Streams' /\ [Promise!Next]_(Promise!vars)
  OBVIOUS
<1> USE DEF clientVars, kernelVars, bufVars, reactorVars, threadVars
<1>1. CASE Client
  <2>1. PICK c \in Clients :
           ClientConnects(c) \/ ClientSends(c) \/ ClientReads(c) \/ ClientLeaves(c)
    BY <1>1 DEF Client
  <2>2. CASE ClientConnects(c) \/ ClientReads(c)
    BY <2>2, QuietStep DEF ClientConnects, ClientReads
  <2> QED
    BY <2>1, <2>2, ClientSendsRefines, ClientLeavesRefines
<1>2. CASE OnAcceptReady \/ Race \/ Stop \/ Stopped
  BY <1>2, QuietStep DEF OnAcceptReady, Race, Stop, Stopped, RInv, Streams
<1>3. CASE Callback
  BY <1>3, AcceptRefines, RecvRefines, NextLineRefines, SendRefines DEF Callback
<1>4. CASE Main
  BY <1>2, <1>4, StopClientRefines DEF Main
<1>5. CASE \E fd \in FDs : OnClientRead(fd) \/ OnClientWrite(fd)
  BY <1>5, QuietStep DEF OnClientRead, OnClientWrite
<1>6. CASE UNCHANGED vars
  BY <1>6, QuietStep DEF vars
<1> QED
  BY <1>1, <1>2, <1>3, <1>4, <1>5, <1>6 DEF Next

\* The server implements the session every client is promised: whole lines, in
\* order, one reply each, wherever the bytes were cut and however the two
\* threads take turns (on_client_read, handle_line, on_client_write, stop).
THEOREM ServerKeepsThePromise == Spec => KeepsThePromise
<1>1. Init => RInv /\ Promise!Init
  BY InitHolds, StreamsStart DEF RInv
<1>2. RInv /\ [Next]_vars => RInv'
  BY StepKeeps, StepRefines DEF RInv
<1>3. RInv /\ [Next]_vars => [Promise!Next]_(Promise!vars)
  BY StepRefines
<1> QED
  BY <1>1, <1>2, <1>3, PTL DEF Spec, KeepsThePromise, Promise!Spec

=============================================================================
