------------------------- MODULE MCInstrumentedRun -------------------------
(***************************************************************************)
(* A main that calls f and g in a loop, an f that calls g and itself on    *)
(* different paths, and a leaf g; and the same with a g that also returns  *)
(* from a block that is not its last, which is what clang makes of a       *)
(* return inside a loop without an end.                                    *)
(***************************************************************************)
EXTENDS InstrumentedRun

MCMain ==
  << <<Work, CallOf("f"), Branch({2, 3})>>,
     <<CallOf("g"), CallOf("g"), Branch({2, 3})>>,
     <<Phi, Work, Return>> >>

MCF ==
  << <<Work, Branch({2, 3, 4})>>,
     <<CallOf("g"), CallOf("f"), Branch({4})>>,
     <<CallOf("f"), Branch({2, 3, 4})>>,
     <<Return>> >>

MCHelpers == [h \in {"MPU_Config", "Read_Caller_addr", "Read_Caller_size"} |->
                << <<Work, Return>> >>]

MCProgram ==
  MCHelpers @@ [f \in {"main", "f", "g"} |->
     CASE f = "main" -> MCMain
       [] f = "f"    -> MCF
       [] f = "g"    -> << <<Work, Return>> >>]

MCEarlyProgram ==
  MCHelpers @@ [f \in {"main", "f", "g"} |->
     CASE f = "main" -> MCMain
       [] f = "f"    -> MCF
       [] f = "g"    -> << <<Branch({2})>>, <<Branch({3, 4})>>,
                           <<Return>>, <<Work, Branch({2})>> >>]

MCRegionStart ==
  [f \in {"main", "f", "g"} |-> CASE f = "main" -> 134234624
                                  [] f = "f"    -> 134234112
                                  [] f = "g"    -> 134235136]

MCRegionSize ==
  [f \in {"main", "f", "g"} |-> CASE f = "main" -> 7
                                  [] f = "f"    -> 8
                                  [] f = "g"    -> 6]
=============================================================================
