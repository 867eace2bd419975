-------------------------- MODULE MCConsoleServer --------------------------
(***************************************************************************)
(* Two clients, that send in two pieces each.  A line comes in two pieces, *)
(* two lines in one, with a carriage return or without; one is empty, one  *)
(* is no command, and one stops the process.                               *)
(***************************************************************************)
EXTENDS ConsoleServer

CONSTANTS c1, c2

MCScript == c1 :> <<"bad", "cr", "nl", "list", "nl">>
            @@ c2 :> <<"cr", "nl", "stop", "nl", "add">>
MCCuts == c1 :> {2, 5} @@ c2 :> {3, 5}

=============================================================================
