----------------------------- MODULE MpuRegions -----------------------------
(***************************************************************************)
(* What the protection unit promises the code that calls mpu_configure.c:  *)
(* a region is only ever replaced as a whole, base and attributes          *)
(* together, and only while the unit is off.                               *)
(***************************************************************************)
CONSTANTS
  Region,    \* the numbers of the regions
  Setting,   \* the pairs of a base and attributes a caller can ask for
  Reset      \* the content of a region nobody has configured yet

VARIABLES
  on,        \* is the unit enforcing its regions
  view       \* the content of every region

vars == <<on, view>>

TypeOK ==
  /\ on \in BOOLEAN
  /\ view \in [Region -> Setting \cup {Reset}]

Init ==
  /\ on = FALSE
  /\ view = [r \in Region |-> Reset]

TurnOff ==
  /\ on
  /\ on' = FALSE
  /\ UNCHANGED view

Replace(r, s) ==
  /\ ~on
  /\ view' = [view EXCEPT ![r] = s]
  /\ UNCHANGED on

TurnOn ==
  /\ ~on
  /\ on' = TRUE
  /\ UNCHANGED view

Next ==
  \/ TurnOff
  \/ \E r \in Region, s \in Setting : Replace(r, s)
  \/ TurnOn

Spec == Init /\ [][Next]_vars
=============================================================================
