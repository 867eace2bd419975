--------------------------- MODULE ConsoleSession ---------------------------
(***************************************************************************)
(* What the console promises to its clients, as docs/console.md states it: *)
(* every line gets one reply, the replies of a session come in the order   *)
(* of its lines, and a session ends only when its client disconnects or    *)
(* after /stop, without touching the others.  Nothing is said of sockets,  *)
(* buffers and callbacks: ConsoleServer implements this.                   *)
(***************************************************************************)
EXTENDS Naturals, Sequences, SequencesExt

CONSTANTS
    Clients,    \* the programs that connect, each at most once
    MaxLines    \* BOUND: the lines of a session EveryLineAnswered speaks of

VARIABLES
    session,    \* none, open or closed
    asked,      \* the lines a client has sent
    answered,   \* how many of them have been carried out
    received,   \* the parts of replies its host has taken in
    gone,       \* the clients that have disconnected
    stopping    \* /stop has been carried out
vars == <<session, asked, answered, received, gone, stopping>>

(***************************************************************************)
(* console/parser.hpp, table.hpp: the reply to a line is a body and a      *)
(* blank line; a line without a command gets an error for a body.          *)
(***************************************************************************)
Commands == {"list", "add", "stop"}
Parses(line) == Head(line) \in Commands
IsStop(line) == Head(line) = "stop"
Reply(line) == <<IF Parses(line) THEN Head(line) ELSE "parse error", "blank line">>
Replies(lines) == FlattenSeq([k \in DOMAIN lines |-> Reply(lines[k])])

Init ==
    /\ session = [c \in Clients |-> "none"]
    /\ asked = [c \in Clients |-> << >>]
    /\ answered = [c \in Clients |-> 0]
    /\ received = [c \in Clients |-> << >>]
    /\ gone = {} /\ stopping = FALSE

Connect(c) ==
    /\ session[c] = "none"
    /\ session' = [session EXCEPT ![c] = "open"]
    /\ UNCHANGED <<asked, answered, received, gone, stopping>>

\* any number of lines more; a line is a sequence of tokens and not empty
Ask(c) ==
    /\ c \notin gone
    /\ IsPrefix(asked[c], asked'[c])
    /\ asked' = [asked EXCEPT ![c] = asked'[c]]
    /\ UNCHANGED <<session, answered, received, gone, stopping>>

\* the next line is carried out; /stop is answered like any other
Answer(c) ==
    LET line == asked[c][answered[c] + 1] IN
    /\ session[c] = "open"
    /\ answered[c] < Len(asked[c])
    /\ answered' = [answered EXCEPT ![c] = @ + 1]
    /\ stopping' = (stopping \/ IsStop(line))
    /\ UNCHANGED <<session, asked, received, gone>>

\* some more of what has been answered, in order
Receive(c) ==
    LET replies == Replies(SubSeq(asked[c], 1, answered[c])) IN
    /\ session[c] = "open"
    /\ \E n \in Len(received[c]) + 1 .. Len(replies) :
          received' = [received EXCEPT ![c] = SubSeq(replies, 1, n)]
    /\ UNCHANGED <<session, asked, answered, gone, stopping>>

Disconnect(c) ==
    /\ gone' = gone \cup {c}
    /\ UNCHANGED <<session, asked, answered, received, stopping>>

Close(c) ==
    /\ session[c] = "open"
    /\ c \in gone \/ stopping
    /\ session' = [session EXCEPT ![c] = "closed"]
    /\ UNCHANGED <<asked, answered, received, gone, stopping>>

Next == \E c \in Clients :
    Connect(c) \/ Ask(c) \/ Answer(c) \/ Receive(c) \/ Disconnect(c) \/ Close(c)

Spec == Init /\ [][Next]_vars

\* c has the whole of its first n replies
Served(c, n) ==
    /\ Len(asked[c]) >= n
    /\ Len(received[c]) >= Len(Replies(SubSeq(asked[c], 1, n)))

\* A client that stays, and reads, receives the whole reply to each of its
\* lines, unless the process is stopped first.
EveryLineAnswered ==
    \A c \in Clients, n \in 1..MaxLines :
        Len(asked[c]) >= n ~> Served(c, n) \/ c \in gone \/ stopping

=============================================================================
