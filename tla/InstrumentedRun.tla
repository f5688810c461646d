-------------------------- MODULE InstrumentedRun --------------------------
(***************************************************************************)
(* The processor runs the module that the passes have made, instruction by *)
(* instruction, with the calls of mpu_configure.c that they inserted as    *)
(* single steps.  Which way a branch goes is left open.                    *)
(*                                                                         *)
(* Every such run is one of CallGuard.                                     *)
(***************************************************************************)
EXTENDS MpuRegisters, Image

CONSTANTS
  Program,      \* the module before the passes
  RegionStart,  \* Link_addr.txt, as in CallGuard
  RegionSize,
  MaxDepth      \* bound on the depth of the stack

Main     == "main"
Function == DOMAIN Program \ Helper
Code     == Image(Program)

(* A block of f as the compiler leaves it: its last instruction and no     *)
(* other is a terminator, and what it calls or branches to is there.       *)
Compiled(f, b) ==
  /\ b # <<>>
  /\ \A i \in DOMAIN b :
       /\ b[i].op \in {"br", "ret"} <=> i = Len(b)
       /\ b[i].to \subseteq 2 .. Len(Program[f])
       /\ b[i].region = "-"
       /\ IsCall(b[i]) => \E g \in Function \ {Main} : b[i] = CallOf(g)

(* A module whose passes do not stop.  The first block of a function has   *)
(* none in front of it, so it has no phis and is branched to from nowhere. *)
ASSUME ProgramAssumption ==
  /\ Program \in [DOMAIN Program -> Seq(BasicBlock(DOMAIN Program))]
  /\ DOMAIN Program \cap Reserved = {}
  /\ Main \in DOMAIN Program
  /\ \A f \in Function :
       /\ Program[f] # <<>>
       /\ Program[f][1][1].op # "phi"
       /\ \A k \in DOMAIN Program[f] : Compiled(f, Program[f][k])

ASSUME RegionAssumption ==
  /\ RegionStart \in [Function -> Nat]
  /\ RegionSize \in [Function -> 4 .. 31]
  /\ \A f \in Function : RegionStart[f] % 32 = 0
  /\ \A f, g \in Function : RegionStart[f] = RegionStart[g] => f = g

ASSUME DepthAssumption == MaxDepth \in Nat \ {0}

VARIABLES
  ctrl, rnr, rbar, rasr,   \* the registers of the protection unit
  stack                    \* the frames: the next instruction of a function
                           \* and the two values it read on entry

vars == <<ctrl, rnr, rbar, rasr, stack>>

EntryFrame(f) == [fn |-> f, blk |-> 1, pos |-> 1, addr |-> 0, size |-> 0]

depth == Len(stack)
Top   == stack[depth]

InstAt(fr) == Code[fr.fn][fr.blk][fr.pos]
Running    == depth > 0
I          == InstAt(Top)      \* the instruction that comes next
Advance    == stack' = [stack EXCEPT ![depth].pos = @ + 1]

(* What CallGuard calls the point a frame is at.                           *)
Calls ==
  {c \in Function \X Function :
     \E k \in DOMAIN Program[c[1]] : Contains(Program[c[1]][k], CallOf(c[2]))}

ReturnsLast ==
  {f \in Function : \A k \in DOMAIN Program[f] :
     Last(Program[f][k]) = Return <=> k = Len(Program[f])}

Point(fr) ==
  LET x == InstAt(fr)
  IN  CASE x = ReadAddr -> "readAddr"
        [] x = ReadSize -> "readSize"
        [] IsConfig(x) /\ x.num = 1 -> "own"
        [] IsOwnCall(x) -> "call"
        [] /\ x = Return
           /\ fr.fn \in ReturnsLast
           /\ fr.pos > 1 /\ Code[fr.fn][fr.blk][fr.pos - 1].region = "saved"
             -> "return"
        [] OTHER -> "body"

GuardFrame(fr) ==
  [fn |-> fr.fn, pc |-> Point(fr),
   callee |-> IF IsOwnCall(InstAt(fr)) THEN InstAt(fr).callee ELSE fr.fn,
   addr |-> fr.addr, size |-> fr.size]

(* The frames of CallGuard's stack when the processor's is s.              *)
Frames(s) ==
  [d \in 1 .. MaxDepth |->
     IF d <= Len(s) THEN GuardFrame(s[d])
     ELSE [fn |-> Main, pc |-> "own", callee |-> Main, addr |-> 0, size |-> 0]]

Guard == INSTANCE CallGuard WITH frame <- Frames(stack)
-----------------------------------------------------------------------------
Init ==
  /\ ctrl = CtrlOff
  /\ rnr = 0
  /\ rbar = [r \in Region |-> 0]
  /\ rasr = [r \in Region |-> 0]
  /\ stack = <<EntryFrame(Main)>>

Compute ==
  /\ Running /\ I.op \in {"work", "phi"}
  /\ Advance
  /\ UNCHANGED <<ctrl, rnr, rbar, rasr>>

Jump ==
  /\ Running /\ I.op = "br"
  /\ \E k \in I.to :
       stack' = [stack EXCEPT ![depth].blk = k, ![depth].pos = 1]
  /\ UNCHANGED <<ctrl, rnr, rbar, rasr>>

ReadCallerAddr ==
  /\ Running /\ I = ReadAddr
  /\ rnr' = 1
  /\ stack' = [stack EXCEPT
                 ![depth].pos = @ + 1,
                 ![depth].addr = BaseField(RbarRead(rbar[1], 1))]
  /\ UNCHANGED <<ctrl, rbar, rasr>>

ReadCallerSize ==
  /\ Running /\ I = ReadSize
  /\ rnr' = 1
  /\ stack' = [stack EXCEPT
                 ![depth].pos = @ + 1,
                 ![depth].size = SizeOf(rasr[1])]
  /\ UNCHANGED <<ctrl, rbar, rasr>>

(* MPU_Config of a listed region: the function's own, or that of what it   *)
(* is about to call, for which there is room.                              *)
ConfigureListed ==
  /\ Running /\ IsConfig(I) /\ I.region # "saved"
  /\ I.num = 2 => depth < MaxDepth
  /\ Guard!Configure(RegionStart[I.region], RegionSize[I.region], I.num)
  /\ Advance

(* MPU_Config of the values read on entry.                                 *)
ConfigureSaved ==
  /\ Running /\ IsConfig(I) /\ I.region = "saved"
  /\ Guard!Configure(Top.addr, Top.size, I.num)
  /\ Advance

CallFunction ==
  /\ Running /\ IsOwnCall(I)
  /\ stack' = Append([stack EXCEPT ![depth].pos = @ + 1],
                     EntryFrame(I.callee))
  /\ UNCHANGED <<ctrl, rnr, rbar, rasr>>

ReturnToCaller ==
  /\ Running /\ I = Return
  /\ stack' = Front(stack)
  /\ UNCHANGED <<ctrl, rnr, rbar, rasr>>

(* The bound: where the stack is full, a run ends in front of a call.      *)
Full ==
  /\ Running /\ IsConfig(I) /\ I.region # "saved" /\ I.num = 2
  /\ depth = MaxDepth
  /\ UNCHANGED vars

Returned ==                        \* main has returned to Reset_Handler
  /\ depth = 0
  /\ UNCHANGED vars

Next ==
  \/ Compute
  \/ Jump
  \/ ReadCallerAddr
  \/ ReadCallerSize
  \/ ConfigureListed
  \/ ConfigureSaved
  \/ CallFunction
  \/ ReturnToCaller
  \/ Full
  \/ Returned

Spec == Init /\ [][Next]_vars
-----------------------------------------------------------------------------
StackFrame ==
  [fn : Function, blk : Nat, pos : Nat, addr : Nat, size : 0 .. 31]

TypeOK ==
  /\ ctrl \in {CtrlOff, CtrlOn}
  /\ rnr \in Region
  /\ rbar \in [Region -> Nat]
  /\ rasr \in [Region -> Nat]
  /\ stack \in Seq(StackFrame)
  /\ depth <= MaxDepth
  /\ \A d \in 1 .. depth :
       /\ stack[d].fn \in Function
       /\ stack[d].blk \in DOMAIN Code[stack[d].fn]
       /\ stack[d].pos \in DOMAIN Code[stack[d].fn][stack[d].blk]

(* The instructions the passes insert make every run follow the protocol   *)
(* of CallGuard, along every path through every function.                  *)
GuardSpec == Guard!Spec

(* A return finds its caller open in region 2, whichever of its returns a  *)
(* function takes.                                                         *)
CallerConnected ==
  [][(depth' < depth /\ depth' > 0) => Guard!Opens(2, Top'.fn)]_vars
=============================================================================
