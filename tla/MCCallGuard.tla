---------------------------- MODULE MCCallGuard -----------------------------
(***************************************************************************)
(* A main and three functions: f calls g and h, h calls itself and f, so   *)
(* that calls repeat, nest and recurse, directly and through another       *)
(* function.  The regions are those of Link_addr.txt for main, Sum,        *)
(* initialise_benchmark and InitSeed.                                      *)
(***************************************************************************)
EXTENDS CallGuard

MCFunction == {"main", "f", "g", "h"}

MCCalls == {<<"main", "f">>, <<"main", "h">>, <<"f", "g">>, <<"f", "h">>,
            <<"h", "h">>, <<"h", "f">>}

MCRegionStart ==
  [f \in MCFunction |-> CASE f = "main" -> 134234624
                          [] f = "f"    -> 134234112
                          [] f = "g"    -> 134235136
                          [] f = "h"    -> 134235904]

MCRegionSize ==
  [f \in MCFunction |-> CASE f = "main" -> 7
                          [] f = "f"    -> 8
                          [] f = "g"    -> 6
                          [] f = "h"    -> 5]
=============================================================================
