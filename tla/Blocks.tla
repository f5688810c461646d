------------------------------- MODULE Blocks -------------------------------
(***************************************************************************)
(* The two halves of the older pipeline, the passes of BlockPasses and the *)
(* programs of BlockLayout.  They share no state, because llc and objdump  *)
(* stand between them.                                                     *)
(***************************************************************************)
EXTENDS BlockPasses

CONSTANTS LayoutOrder, Listings    \* Order and Listings of BlockLayout

VARIABLES
  code, pc, turn, label, sizes, start, addrs, block, nops   \* BlockLayout's

Layout == INSTANCE BlockLayout WITH Order <- LayoutOrder, i <- turn, b <- block

ASSUME LayoutAssumption == Layout!Listed

(* The variables of either half keep their types.                          *)
Types == TypeOK /\ Layout!TypeOK

(* The properties of the layout, as BlockLayout states them.               *)
AddressesExact == Layout!AddressesExact
PaddedToRegion == Layout!PaddedToRegion
=============================================================================
