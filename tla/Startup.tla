------------------------------ MODULE Startup ------------------------------
(***************************************************************************)
(* The processor from reset to the end: Reset_Handler fills the memory,    *)
(* main stores, grows its stack and calls _sbrk, and an access the unit    *)
(* denies goes to MemManage_Handler, which lights an LED and returns to    *)
(* the access.  The processor may be reset between any two steps.          *)
(*                                                                         *)
(* Memory is the cells 1 .. Top-1: .data, .bss, and from End on what the   *)
(* heap, from below, and the stack, from above, share.  heap_end is a      *)
(* variable of _sbrk, hence a cell of .bss like any other.                 *)
(***************************************************************************)
EXTENDS Integers

CONSTANTS
  DataSize, BssSize,  \* the cells of .data and of .bss
  HeapCell,           \* the cell of heap_end
  Top,                \* STACK_START
  Junk,               \* what unwritten memory or a program's store may hold
  Increments          \* the arguments of _sbrk

ASSUME StartupAssumption ==
  /\ DataSize \in Nat /\ BssSize \in Nat /\ Top \in Nat
  /\ HeapCell \in DataSize + 1 .. DataSize + BssSize
  /\ DataSize + BssSize + 1 < Top
  /\ Junk \subseteq 1 .. Top /\ Increments \subseteq Int

End    == DataSize + BssSize + 1   \* the linker's symbol end
Static == 1 .. End - 1
Image  == [c \in 1 .. DataSize |-> c]

VARIABLES
  at,      \* what runs next
  i,       \* the loops' counter
  ram,     \* the memory
  sp,      \* the stack's lowest cell
  faults,  \* SHCSR: memory faults are enabled
  clock,   \* the clock of the LED's port: "off", "starting" or "on"
  mode,    \* the LED's pin is an output
  out,     \* the pin is high
  got,     \* sum of what _sbrk has granted in this run
  lowest,  \* the lowest sp of this run
  grantSp  \* sp at the last grant of this run

led  == <<clock, mode, out>>
run  == <<got, lowest, grantSp>>
bootVars == <<at, i, ram, sp, faults, led, run>>

heapEnd == ram[HeapCell]
Lit     == mode /\ out
Handler == {"clock", "mode", "data", "exit"}
InFault == at \in Handler \cup {"fault"}

Fresh ==
  /\ at' = "copy" /\ i' = 0 /\ sp' = Top /\ faults' = FALSE
  /\ clock' = "off" /\ mode' = FALSE /\ out' = FALSE
  /\ got' = 0 /\ lowest' = Top /\ grantSp' = Top

BootInit ==
  /\ \E v \in Junk : ram = [c \in 1 .. Top - 1 |-> v]
  /\ at = "copy" /\ i = 0 /\ sp = Top /\ faults = FALSE
  /\ clock = "off" /\ mode = FALSE /\ out = FALSE
  /\ got = 0 /\ lowest = Top /\ grantSp = Top

(* A reset clears the peripherals and leaves the memory as it is.          *)
Reset == Fresh /\ UNCHANGED ram
-----------------------------------------------------------------------------
(* Reset_Handler.                                                          *)
CopyData ==
  /\ at = "copy" /\ i < DataSize
  /\ ram' = [ram EXCEPT ![1 + i] = Image[1 + i]]
  /\ i' = i + 1
  /\ UNCHANGED <<at, sp, faults, led, run>>

DataCopied ==
  /\ at = "copy" /\ i = DataSize
  /\ at' = "zero" /\ i' = 0
  /\ UNCHANGED <<ram, sp, faults, led, run>>

(* Mistake: the loop runs while i <= size.                                 *)
ZeroPastEnd ==
  /\ at = "zero" /\ i <= BssSize
  /\ ram' = [ram EXCEPT ![DataSize + 1 + i] = 0]
  /\ i' = i + 1
  /\ UNCHANGED <<at, sp, faults, led, run>>

ZeroBss ==
  /\ at = "zero" /\ i < BssSize
  /\ ram' = [ram EXCEPT ![DataSize + 1 + i] = 0]
  /\ i' = i + 1
  /\ UNCHANGED <<at, sp, faults, led, run>>

(* Mistake: memory is zero after a reset, so .bss needs no loop.           *)
BssTakenForZero ==
  /\ at = "zero"
  /\ at' = "init"
  /\ UNCHANGED <<i, ram, sp, faults, led, run>>

BssZeroed ==
  /\ at = "zero" /\ i >= BssSize
  /\ at' = "init"
  /\ UNCHANGED <<i, ram, sp, faults, led, run>>

(* __libc_init_array, then main.                                           *)
CallMain ==
  /\ at = "init"
  /\ at' = "main"
  /\ UNCHANGED <<i, ram, sp, faults, led, run>>

(* main has no caller: Reset_Handler returns to the address its link       *)
(* register held at reset, which is never executable.                      *)
MainReturns ==
  /\ at = "main"
  /\ at' = IF faults THEN "fault" ELSE "hang"
  /\ UNCHANGED <<i, ram, sp, faults, led, run>>
-----------------------------------------------------------------------------
(* What the program does.                                                  *)
Store ==
  /\ at = "main"
  /\ \E c \in Static \ {HeapCell}, v \in Junk : ram' = [ram EXCEPT ![c] = v]
  /\ UNCHANGED <<at, i, sp, faults, led, run>>

(* Nothing stops the stack at the heap.  Below the memory it is a fault    *)
(* that cannot be stacked.                                                 *)
PushOver(v) ==
  /\ ram' = [ram EXCEPT ![sp - 1] = v]
  /\ sp' = sp - 1
  /\ lowest' = IF sp - 1 < lowest THEN sp - 1 ELSE lowest

Push ==
  /\ at = "main"
  /\ IF sp > 1
       THEN (\E v \in Junk : PushOver(v)) /\ UNCHANGED at
       ELSE at' = "hang" /\ UNCHANGED <<ram, sp, lowest>>
  /\ UNCHANGED <<i, faults, led, got, grantSp>>

Pop ==
  /\ at = "main" /\ sp < Top
  /\ sp' = sp + 1
  /\ UNCHANGED <<at, i, ram, faults, led, run>>

(* A whole call of MPU_Config.                                             *)
Configure ==
  /\ at = "main" /\ ~faults
  /\ faults' = TRUE
  /\ UNCHANGED <<at, i, ram, sp, led, run>>

(* An access the unit denies, possible once it has been configured.        *)
Violate ==
  /\ at = "main" /\ faults
  /\ at' = "fault"
  /\ UNCHANGED <<i, ram, sp, faults, led, run>>
-----------------------------------------------------------------------------
(* _sbrk.  Its callers give back no more than they were granted, and call  *)
(* it no more once the stack has run over heap_end.                        *)
Begin == IF heapEnd = 0 THEN End ELSE heapEnd

MayRequest(d) ==
  at = "main" /\ d \in Increments /\ got + d >= 0 /\ lowest > HeapCell

(* Mistake: the old end is compared with the stack.                        *)
SbrkComparesOld ==
  /\ \E d \in Increments :
       /\ MayRequest(d) /\ Begin <= sp
       /\ ram' = [ram EXCEPT ![HeapCell] = Begin + d]
       /\ got' = got + d
  /\ grantSp' = sp
  /\ UNCHANGED <<at, i, sp, faults, led, lowest>>

SbrkGrants ==
  /\ \E d \in Increments :
       /\ MayRequest(d) /\ Begin + d <= sp
       /\ ram' = [ram EXCEPT ![HeapCell] = Begin + d]
       /\ got' = got + d
  /\ grantSp' = sp
  /\ UNCHANGED <<at, i, sp, faults, led, lowest>>

(* Mistake: heap_end is moved before it is compared.                       *)
SbrkRefusesLate ==
  /\ \E d \in Increments :
       /\ MayRequest(d) /\ Begin + d > sp
       /\ ram' = [ram EXCEPT ![HeapCell] = Begin + d]
  /\ UNCHANGED <<at, i, sp, faults, led, run>>

SbrkRefuses ==
  /\ \E d \in Increments : MayRequest(d) /\ Begin + d > sp
  /\ ram' = [ram EXCEPT ![HeapCell] = Begin]
  /\ UNCHANGED <<at, i, sp, faults, led, run>>
-----------------------------------------------------------------------------
(* A fault.  The processor stacks a frame and enters the handler.          *)
TakeFault ==
  /\ at = "fault"
  /\ IF sp > 1
       THEN (\E v \in Junk : PushOver(v)) /\ at' = "clock"
       ELSE at' = "hang" /\ UNCHANGED <<ram, sp, lowest>>
  /\ UNCHANGED <<i, faults, led, got, grantSp>>

(* The port takes writes once its clock runs, which may be after the       *)
(* instruction that follows the one that starts it.                        *)
SetClock ==
  /\ at = "clock"
  /\ at' = "mode"
  /\ clock' = IF clock = "off" THEN "starting" ELSE "on"
  /\ UNCHANGED <<i, ram, sp, faults, mode, out, run>>

SetMode ==
  /\ at = "mode"
  /\ at' = "data"
  /\ mode' \in CASE clock = "on" -> {TRUE}
                 [] clock = "starting" -> {mode, TRUE}
                 [] clock = "off" -> {mode}
  /\ clock' = IF clock = "off" THEN "off" ELSE "on"
  /\ UNCHANGED <<i, ram, sp, faults, out, run>>

SetData ==
  /\ at = "data"
  /\ at' = "exit"
  /\ out' = (out \/ clock = "on")
  /\ UNCHANGED <<i, ram, sp, faults, clock, mode, run>>

(* Mistake: the handler steps over the instruction.                        *)
ExitBehind ==
  /\ at = "exit"
  /\ at' = "main" /\ sp' = sp + 1
  /\ UNCHANGED <<i, ram, faults, led, run>>

(* Mistake: the handler ends in an endless loop, as the others do.         *)
ExitToLoop ==
  /\ at = "exit"
  /\ at' = "hang"
  /\ UNCHANGED <<i, ram, sp, faults, led, run>>

(* The handler returns to the instruction that faulted.                    *)
ExitHandler ==
  /\ at = "exit"
  /\ at' = "fault" /\ sp' = sp + 1
  /\ UNCHANGED <<i, ram, faults, led, run>>

(* Default_Handler, which every other exception enters.                    *)
Hang == at = "hang" /\ UNCHANGED bootVars
-----------------------------------------------------------------------------
StartUp == CopyData \/ DataCopied \/ ZeroBss \/ BssZeroed \/ CallMain
Main    == Store \/ Push \/ Pop \/ Configure \/ Violate \/ SbrkGrants
           \/ SbrkRefuses \/ MainReturns
Fault   == TakeFault \/ SetClock \/ SetMode \/ SetData \/ ExitHandler

BootNext == Reset \/ StartUp \/ Main \/ Fault \/ Hang

(* A fault is taken and its handler runs; nothing promises a reset, nor    *)
(* that the program ends.                                                  *)
BootSpec == BootInit /\ [][BootNext]_bootVars /\ WF_bootVars(Fault)
-----------------------------------------------------------------------------
(* The variables keep their types.                                         *)
BootTypeOK ==
  /\ at \in {"copy", "zero", "init", "main", "fault", "hang"} \cup Handler
  /\ i \in 0 .. (IF at = "copy" THEN DataSize ELSE BssSize)
  /\ ram \in [1 .. Top - 1 -> Int]
  /\ sp \in 1 .. Top /\ lowest \in 1 .. Top /\ grantSp \in 1 .. Top
  /\ faults \in BOOLEAN /\ mode \in BOOLEAN /\ out \in BOOLEAN
  /\ clock \in {"off", "starting", "on"}
  /\ got \in Nat

(* main starts with its variables as the program declares them, whatever   *)
(* an earlier run has left and wherever a reset has cut it or Reset_Handler *)
(* short.                                                                  *)
MainSeesImage ==
  at = "init" =>
    /\ \A c \in 1 .. DataSize : ram[c] = Image[c]
    /\ \A c \in DataSize + 1 .. End - 1 : ram[c] = 0

(* As long as the stack has not reached it, heap_end is the end of exactly *)
(* what this run was granted: a refused call changes nothing, and no run   *)
(* goes on with the heap of the one before.                                *)
HeapAccounted ==
  at \notin {"copy", "zero"} /\ lowest > HeapCell /\ heapEnd # 0
    => heapEnd = End + got

(* The heap and the stack only meet when the stack grows: at the last call *)
(* that was granted, the stack was not below the heap's end.               *)
HeapClearWhenGranted ==
  at \notin {"copy", "zero"} /\ lowest > HeapCell /\ got > 0
    => heapEnd <= grantSp

(* Until a reset, nothing of the program runs behind a denied access.      *)
FaultIsFinal == [][InFault => InFault' \/ at' \in {"hang", "copy"}]_bootVars

(* A denied access is shown by the LED, though the first writes of the     *)
(* handler may be lost: it returns to the access and so runs again.        *)
FaultShown == (at = "fault" /\ sp > 1) ~> (Lit \/ at = "copy")
=============================================================================
