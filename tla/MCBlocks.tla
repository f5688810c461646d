------------------------------ MODULE MCBlocks ------------------------------
(***************************************************************************)
(* A behaviour is one of BlockLayout with nothing to do for the passes, or *)
(* one of BlockPasses with nothing to lay out.                             *)
(*                                                                         *)
(* The layout has eight functions, as many as the corrections of           *)
(* Insert_Nop and one more; the second and the last vary: up to three      *)
(* blocks, with little and with much room in their regions, of every form, *)
(* or no block at all.  The passes see blocks with up to three calls, in a *)
(* loop, behind a phi, next to each other and through a pointer, with and  *)
(* without code in the driver's functions.                                 *)
(***************************************************************************)
EXTENDS Blocks
-----------------------------------------------------------------------------
MCLayoutOrder == <<"f1", "f2", "f3", "f4", "f5", "f6", "f7", "f8">>

Block(before, last) == [before |-> before, last |-> last]

Form == {"short", "wide", "falls", "bare"}

Bodies ==
  {<<Block(10, "short")>>}
    \cup { <<Block(m, x), Block(n, y)>> : m \in {4}, n \in {120, 122, 130},
                                          x \in Form, y \in Form }
    \cup { <<Block(20, x), Block(6, y), Block(12, "short")>> :
             x \in Form, y \in Form }

Fixed == <<Block(40, "short"), Block(60, "short")>>

MCListings ==
  { [f \in ToSet(MCLayoutOrder) |-> CASE f = "f2" -> g
                                      [] f = "f8" -> h
                                      [] OTHER    -> Fixed] :
      g \in Bodies, h \in {<<>>, Fixed, <<Block(4, "wide"), Block(8, "short")>>} }
-----------------------------------------------------------------------------
MCOrder ==
  <<"Config_execute", "main", "MPU_Config", "Read_Caller_addr", "f">>

Leaf == << <<Work, Return>> >>

PassBodies ==
  { Leaf,
    << <<CallOf("f"), CallOf("f"), Work, CallOf("main"), Return>> >>,
    << <<CallOf("f"), Branch({2})>>,
       <<Phi, CallOf("f"), Work, CallOf("f"), Branch({2, 3})>>,
       <<CallOf("main"), Return>> >>,
    << <<Branch({2, 3})>>, <<CallOf("f"), CallOf("f"), CallOf("f"), Branch({3})>>,
       <<Phi, Work, CallOf("f"), CallOf("main"), Branch({4, 2})>>, <<Return>> >>,
    << <<CallOf("f"), Work, Indirect, Return>> >> }

MCPrograms ==
  { [h \in ToSet(MCOrder) |-> CASE h = "main" -> m
                                [] h = "f"    -> g
                                [] h = "Read_Caller_addr" -> r
                                [] OTHER      -> Leaf] :
      m \in PassBodies, g \in PassBodies \cup {<<>>}, r \in {Leaf, <<>>} }
-----------------------------------------------------------------------------
NoProgram == [f \in Name |-> <<>>]

NoPasses ==
  /\ source = NoProgram /\ body = NoProgram
  /\ todo = {} /\ pass = "none"
  /\ fn = 1 /\ blk = 1 /\ pos = 0 /\ calls = 0

NoLayout ==
  /\ code = CHOOSE l \in Listings : TRUE
  /\ pc = "stopped" /\ turn = 1 /\ block = 1
  /\ label = [f \in ToSet(LayoutOrder) |-> <<>>] /\ sizes = label
  /\ start = [f \in ToSet(LayoutOrder) |-> 0] /\ addrs = label /\ nops = label

layout == <<code, pc, turn, label, sizes, start, addrs, block, nops>>

MCInit == (Init /\ NoLayout) \/ (Layout!Init /\ NoPasses)
MCNext == (Next /\ UNCHANGED layout) \/ (Layout!Next /\ UNCHANGED vars)
MCSpec == MCInit /\ [][MCNext]_<<vars, layout>>
=============================================================================
