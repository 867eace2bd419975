----------------------------- MODULE MCRuntime -----------------------------
(***************************************************************************)
(* Two transports, of one name, the second in place of the first, or of    *)
(* two; all three types.                                                   *)
(***************************************************************************)
EXTENDS Runtime

CONSTANTS t1, t2

MCRequests == {<<"a", "UNICAST">>, <<"b", "INTERNAL_MULTICAST">>,
               <<"b", "EXTERNAL_MULTICAST">>}

=============================================================================
