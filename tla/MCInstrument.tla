---------------------------- MODULE MCInstrument ----------------------------
(***************************************************************************)
(* A main and two functions around the functions of mpu_configure.c: calls *)
(* next to each other, at the start and at the end of a block, behind a    *)
(* phi, of a function itself, through a pointer and of a declaration; one, *)
(* two, three and four blocks, with the return in the last one or before it.     *)
(***************************************************************************)
EXTENDS Instrument

MCOrder ==
  <<"main", "f", "MPU_Config", "Read_Caller_addr", "Read_Caller_size", "g">>

Leaf == << <<Work, Return>> >>

Mains ==
  { << <<CallOf("f"), CallOf("g"), Return>> >>,
    << <<Work, Branch({2})>>, <<CallOf("f"), Work, Return>> >> }

Bodies ==
  { Leaf,
    << <<CallOf("g"), Return>> >>,
    << <<CallOf("g"), CallOf("f"), Work, Return>> >>,
    << <<Work, Branch({2, 3})>>, <<CallOf("g"), Branch({3})>>,
       <<Phi, CallOf("f"), Return>> >>,
    << <<Branch({2})>>, <<CallOf("g"), Branch({3, 4})>>, <<Return>>,
       <<Work, Branch({2})>> >>,
    << <<Work, Indirect, Return>> >> }

MCPrograms ==
  { [h \in ToSet(MCOrder) |-> CASE h = "main" -> m
                                [] h = "f"    -> b
                                [] h = "g"    -> c
                                [] OTHER      -> Leaf] :
      m \in Mains, b \in Bodies,
      c \in {Leaf, << <<Branch({2})>>, <<CallOf("f"), Return>> >>, <<>>} }
=============================================================================
