----------------------------- MODULE CallGuard ------------------------------
(***************************************************************************)
(* How an instrumented program moves the two regions of the protection     *)
(* unit along its calls and returns.                                       *)
(*                                                                         *)
(* Insert_Function puts MPU_Config(own, 1) at the start of every function  *)
(* and behind every call, and MPU_Config(callee, 2) before every call;     *)
(* Connect_Function makes every function but main read region 1, that is,  *)
(* its caller's region, on entry, and open it again as region 2 in its     *)
(* last basic block; Set_Operand fills in the regions.  A call of a        *)
(* function of mpu_configure.c is one step here: MpuConfigure shows its    *)
(* register accesses.                                                      *)
(*                                                                         *)
(* The stack of frames is the processor's: only its top runs.              *)
(***************************************************************************)
EXTENDS MpuRegisters

CONSTANTS
  Function,     \* the functions of the program, as listed by Find_Function
  Main,         \* the one that Connect_Function leaves out
  Calls,        \* the call sites: <<f, g>> when f has a call of g
  ReturnsLast,  \* the functions whose only return ends their last block
  RegionStart,  \* Link_addr.txt: where a function's region starts
  RegionSize,   \* to_size of the region_size of Link_addr.txt
  MaxDepth      \* bound on the depth of the stack

ASSUME FunctionAssumption ==
  /\ Main \in Function
  /\ Calls \subseteq Function \X (Function \ {Main})
  /\ ReturnsLast \subseteq Function
  /\ MaxDepth \in Nat \ {0}

(* What Link_addr.txt guarantees: regions of at least 32 bytes, aligned to *)
(* 32 bytes, and no two functions in one.                                  *)
ASSUME RegionAssumption ==
  /\ RegionStart \in [Function -> Nat]
  /\ RegionSize \in [Function -> 4 .. 31]
  /\ \A f \in Function : RegionStart[f] % 32 = 0
  /\ \A f, g \in Function : RegionStart[f] = RegionStart[g] => f = g

VARIABLES
  ctrl, rnr, rbar, rasr,   \* the registers of the protection unit
  depth,                   \* the number of frames, 0 once main has returned
  frame                    \* the frames, the running one at depth

mpu  == <<ctrl, rnr, rbar, rasr>>
vars == <<ctrl, rnr, rbar, rasr, depth, frame>>

(* Where a function can be:                                                *)
(*   readAddr, readSize  at the calls Connect_Function put at its start    *)
(*   own                 at MPU_Config(own, 1), at its start or behind a   *)
(*                       call                                              *)
(*   body                in its own code                                   *)
(*   call                between MPU_Config(callee, 2) and the call        *)
(*   return              at its return, its caller open in region 2        *)
Point == {"readAddr", "readSize", "own", "body", "call", "return"}

Frame == [fn : Function, pc : Point, callee : Function,
          addr : Nat, size : 0 .. 31]

(* A new frame of f.  The values its two reads will fill are undefined.    *)
Entry(f) ==
  [fn |-> f, pc |-> IF f = Main THEN "own" ELSE "readAddr",
   callee |-> f, addr |-> 0, size |-> 0]

Top == frame[depth]

At(p) == depth > 0 /\ Top.pc = p

Goto(p) == frame' = [frame EXCEPT ![depth].pc = p]

(* MPU_Config(start, size, num)                                            *)
Configure(start, size, num) ==
  /\ ctrl' = CtrlOn
  /\ rnr' = num
  /\ rbar' = [rbar EXCEPT ![num] = BaseField(start)]
  /\ rasr' = [rasr EXCEPT ![num] = ConfigAttributes(size)]
-----------------------------------------------------------------------------
Init ==
  /\ ctrl = CtrlOff
  /\ rnr = 0
  /\ rbar = [r \in Region |-> 0]
  /\ rasr = [r \in Region |-> 0]
  /\ depth = 1
  /\ frame = [d \in 1 .. MaxDepth |-> Entry(Main)]

(* Mistake: the region is not selected before it is read.                  *)
ReadSelectedAddr ==
  /\ At("readAddr")
  /\ frame' = [frame EXCEPT
                 ![depth].pc = "readSize",
                 ![depth].addr = BaseField(RbarRead(rbar[rnr], rnr))]
  /\ UNCHANGED <<ctrl, rnr, rbar, rasr, depth>>

ReadAddr ==                        \* Read_Caller_addr
  /\ At("readAddr")
  /\ rnr' = 1
  /\ frame' = [frame EXCEPT
                 ![depth].pc = "readSize",
                 ![depth].addr = BaseField(RbarRead(rbar[rnr'], rnr'))]
  /\ UNCHANGED <<ctrl, rbar, rasr, depth>>

ReadSize ==                        \* Read_Caller_size
  /\ At("readSize")
  /\ rnr' = 1
  /\ frame' = [frame EXCEPT
                 ![depth].pc = "own",
                 ![depth].size = SizeOf(rasr[rnr'])]
  /\ UNCHANGED <<ctrl, rbar, rasr, depth>>

(* Mistake: what region 2 is open for already is not configured again.     *)
ConfigureOwnOnce ==
  /\ At("own")
  /\ IF rbar[2] = RegionStart[Top.fn]
       THEN UNCHANGED mpu
       ELSE Configure(RegionStart[Top.fn], RegionSize[Top.fn], 1)
  /\ Goto("body")
  /\ UNCHANGED depth

ConfigureOwn ==                    \* function start, or behind a call
  /\ At("own")
  /\ Configure(RegionStart[Top.fn], RegionSize[Top.fn], 1)
  /\ Goto("body")
  /\ UNCHANGED depth

(* Mistake: the callee is opened in the caller's own region.               *)
ConfigureCalleeInOne(g) ==
  /\ At("body")
  /\ <<Top.fn, g>> \in Calls
  /\ depth < MaxDepth
  /\ Configure(RegionStart[g], RegionSize[g], 1)
  /\ frame' = [frame EXCEPT ![depth].pc = "call", ![depth].callee = g]
  /\ UNCHANGED depth

ConfigureCallee(g) ==              \* before a call of g
  /\ At("body")
  /\ <<Top.fn, g>> \in Calls
  /\ depth < MaxDepth
  /\ Configure(RegionStart[g], RegionSize[g], 2)
  /\ frame' = [frame EXCEPT ![depth].pc = "call", ![depth].callee = g]
  /\ UNCHANGED depth

Call ==
  /\ At("call")
  /\ depth' = depth + 1
  /\ frame' = [frame EXCEPT ![depth].pc = "own",
                            ![depth].callee = Top.fn,
                            ![depth + 1] = Entry(Top.callee)]
  /\ UNCHANGED mpu

(* Mistake: nothing is inserted before the end of the last basic block.    *)
ForgetCaller ==
  /\ At("body")
  /\ Top.fn # Main
  /\ Goto(IF Top.fn \in ReturnsLast THEN "return" ELSE "body")
  /\ UNCHANGED <<ctrl, rnr, rbar, rasr, depth>>

ConfigureCaller ==                 \* before the end of the last basic block
  /\ At("body")
  /\ Top.fn # Main
  /\ Configure(Top.addr, Top.size, 2)
  /\ Goto(IF Top.fn \in ReturnsLast THEN "return" ELSE "body")
  /\ UNCHANGED depth

(* Nothing is inserted before a return that does not end the last block,   *)
(* or before that of main.                                                 *)
AtReturn ==
  \/ At("return")
  \/ At("body") /\ (Top.fn = Main \/ Top.fn \notin ReturnsLast)

Return ==
  /\ AtReturn
  /\ depth' = depth - 1
  /\ frame' = [frame EXCEPT ![depth] = Entry(Main)]
  /\ UNCHANGED mpu

Returned ==                        \* main has returned to Reset_Handler
  /\ depth = 0
  /\ UNCHANGED vars

Next ==
  \/ ReadAddr
  \/ ReadSize
  \/ ConfigureOwn
  \/ \E g \in Function : ConfigureCallee(g)
  \/ Call
  \/ ConfigureCaller
  \/ Return
  \/ Returned

Spec == Init /\ [][Next]_vars
-----------------------------------------------------------------------------
TypeOK ==
  /\ ctrl \in {CtrlOff, CtrlOn}
  /\ rnr \in Region
  /\ rbar \in [Region -> Nat]
  /\ rasr \in [Region -> Nat]
  /\ depth \in 0 .. MaxDepth
  /\ frame \in [1 .. MaxDepth -> Frame]

(* Region r is open for exactly the bytes of f's region.                   *)
Opens(r, f) ==
  /\ RegionEnabled(rasr[r])
  /\ rbar[r] = RegionStart[f]
  /\ SizeOf(rasr[r]) = RegionSize[f]

Open == {f \in Function : \E r \in Region : Opens(r, f)}

(* The function that runs is open whenever the unit is enforcing: on       *)
(* entry, while it switches, in its body, at its return, and after the     *)
(* return of a function it called.  It never depends on the default map.   *)
RunningOpen ==
  (depth > 0 /\ CtrlEnable(ctrl)) => Top.fn \in Open

(* What a function saves on entry is its caller's region, through any      *)
(* calls it makes afterwards, recursive ones included.                     *)
SavedIsCaller ==
  \A d \in 2 .. depth :
    frame[d].pc \notin {"readAddr", "readSize"} =>
      /\ frame[d].addr = RegionStart[frame[d - 1].fn]
      /\ frame[d].size = RegionSize[frame[d - 1].fn]

(* In its body a function has opened itself only: neither the caller it    *)
(* came from nor any function it has called is still open.                 *)
BodyConfined == At("body") => Open = {Top.fn}

(* Control goes from one function to another only through region 2, which  *)
(* is open for the function it goes to.                                    *)
TransferThroughRegionTwo ==
  [][(depth' # depth /\ depth' > 0) => Opens(2, frame'[depth'].fn)]_vars
=============================================================================
