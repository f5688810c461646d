--------------------------------- MODULE Ir ---------------------------------
(***************************************************************************)
(* What the passes see of LLVM's intermediate representation: a function   *)
(* is a sequence of basic blocks in layout order, a declaration has none,  *)
(* and a block is a sequence of instructions that ends with a terminator.  *)
(*                                                                         *)
(* The first two arguments of a call of MPU_Config, a base and a size,     *)
(* are one name here: that of the function whose region they are, or       *)
(*   "first", "rest"  the constants Insert_Function leaves behind          *)
(*   "saved"          the two values read on entry to the function         *)
(*   "junk"           whatever lies behind the end of a table              *)
(***************************************************************************)
EXTENDS Naturals, SequencesExt

MpuFunction == {"MPU_Config", "MPU_zero_region"}
ReadFunction == {"Read_Caller_addr", "Read_Caller_size"}
Helper == MpuFunction \cup ReadFunction \cup {"Config_execute", "read_execute"}

Placeholder == {"first", "rest", "junk"}

(* What stands here for something else is the name of no function.         *)
Reserved == Placeholder \cup {"saved", "pointer", "-"}

Inst(op, callee, region, num, to) ==
  [op |-> op, callee |-> callee, region |-> region, num |-> num, to |-> to]

(* The instructions of a module whose functions are named by Names.        *)
Symbol(Names) == Names \cup Helper \cup Reserved
Instruction(Names) ==
  [op : {"phi", "work", "call", "br", "ret"}, callee : Symbol(Names),
   region : Symbol(Names), num : 0 .. 2, to : SUBSET Nat]
BasicBlock(Names) == Seq(Instruction(Names))

Phi       == Inst("phi", "-", "-", 0, {})
Work      == Inst("work", "-", "-", 0, {})
CallOf(g) == Inst("call", g, "-", 0, {})
Indirect  == CallOf("pointer")
Branch(to) == Inst("br", "-", "-", 0, to)
Return    == Inst("ret", "-", "-", 0, {})

ReadAddr == CallOf("Read_Caller_addr")
ReadSize == CallOf("Read_Caller_size")
MpuConfig(region, num) == Inst("call", "MPU_Config", region, num, {})

IsCall(x)   == x.op = "call"             \* getOpcode() == 56
IsConfig(x) == IsCall(x) /\ x.callee = "MPU_Config"

(* A call of the program's own, as opposed to one a pass has inserted.     *)
IsOwnCall(x) == IsCall(x) /\ x.callee \notin Helper

(* BB->getFirstNonPHI(), as an index.                                      *)
FirstNonPhi(blk) == SelectInSeq(blk, LAMBDA x : x.op # "phi")

(* The calls of the program's own in the block.                            *)
OwnCalls(blk) ==
  FlattenSeq([i \in DOMAIN blk |-> IF IsOwnCall(blk[i]) THEN <<blk[i]>> ELSE <<>>])

(* The block with everything the passes insert taken out again.            *)
Erase(blk) ==
  FlattenSeq([i \in DOMAIN blk |->
                IF IsCall(blk[i]) /\ blk[i].callee \in Helper
                  THEN <<>> ELSE <<blk[i]>>])
=============================================================================
