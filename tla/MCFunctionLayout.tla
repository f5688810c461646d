-------------------------- MODULE MCFunctionLayout -------------------------
(***************************************************************************)
(* A main and two functions with sizes around the boundaries of regions of *)
(* 32, 64 and 128 bytes, so that they come in every order and with equal   *)
(* sizes, for every numbering of the two sections.  The listing ends with  *)
(* the code of .MPU, which function.txt does not name, or with a function, *)
(* or a function is missing, as one that is inlined everywhere is.         *)
(***************************************************************************)
EXTENDS FunctionLayout

MCNames == <<"main", "f", "g">>

Item(f, before, prev, last) ==
  [name |-> f, before |-> before, prev |-> prev, last |-> last]

Driver == Item("MPU_Config", 76, 4, 2)

Halfwords(f) == {Item(f, b, 2, 2) : b \in {12, 30, 32, 60, 62, 64}}

MCListings ==
  {<<m, f, g, Driver>> : m \in Halfwords("main"), f \in Halfwords("f"),
                         g \in Halfwords("g")}
    \cup {<<m, g, Driver, f>> : m \in Halfwords("main"),
                               f \in Halfwords("f"), g \in Halfwords("g")}
    \cup {<<m, Driver, g>> : m \in Halfwords("main"), g \in Halfwords("g")}

(* Functions that end with a literal word or a wide instruction.           *)
MCWideListings ==
  {<<m, Item("f", 30, 2, 4), Item("g", 40, 2, 2), Driver>> :
     m \in Halfwords("main")}
=============================================================================
