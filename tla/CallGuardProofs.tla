-------------------------- MODULE CallGuardProofs ---------------------------
(***************************************************************************)
(* The properties of CallGuard for every program, every call graph, every  *)
(* layout of the regions and every depth of the stack.                     *)
(*                                                                         *)
(* None of the properties is inductive: what a return opens depends on     *)
(* what the function saved when it was entered, what it saved depends on   *)
(* what region 1 held then, and that on the caller having opened itself    *)
(* before the call.  IInv says, for every point of the running function,   *)
(* which function each region is open for.  Region 1 is right in every     *)
(* program, region 2 in those whose functions return from their last       *)
(* blocks, ReturnsConnected.                                               *)
(***************************************************************************)
EXTENDS CallGuard, TLAPS

(* Every function but main returns from its last block, the only one in    *)
(* which Connect_Function opens the caller.                                *)
ReturnsConnected == Function \ {Main} \subseteq ReturnsLast

(* Regions 1 and 2 are the only ones in use.                               *)
OnlyTwo == \A r \in Region \ {1, 2} : ~RegionEnabled(rasr[r])

(* Main is at the bottom of the stack and nowhere else, and every function *)
(* below the running one is waiting to open itself again.                  *)
Waiting ==
  /\ \A d \in 1 .. depth : frame[d].fn = Main <=> d = 1
  /\ \A d \in 1 .. depth : d < depth => frame[d].pc = "own"
  /\ depth = 1 => Top.pc \notin {"readAddr", "readSize"}

Fresh == ctrl = CtrlOff /\ depth = 1 /\ Top.pc = "own" /\ ~RegionEnabled(rasr[2])

OnEntry ==
  /\ Opens(1, frame[depth - 1].fn)
  /\ Opens(2, Top.fn)
  /\ Top.pc = "readSize" => Top.addr = RegionStart[frame[depth - 1].fn]

InBody ==
  /\ Opens(1, Top.fn)
  /\ ReturnsConnected /\ RegionEnabled(rasr[2]) => Opens(2, Top.fn)

BeforeCall ==
  /\ depth < MaxDepth
  /\ Top.callee # Main
  /\ Opens(1, Top.fn)
  /\ Opens(2, Top.callee)

BeforeReturn == Top.fn # Main => Opens(2, frame[depth - 1].fn)

(* Which function each region is open for, at every point.                 *)
Opened ==
  depth > 0 =>
    /\ Top.pc \in {"readAddr", "readSize"} => OnEntry
    /\ Top.pc = "own" /\ ReturnsConnected => Fresh \/ Opens(2, Top.fn)
    /\ Top.pc = "body" => InBody
    /\ Top.pc = "call" => BeforeCall
    /\ Top.pc = "return" => Opens(1, Top.fn) /\ BeforeReturn

IInv == TypeOK /\ OnlyTwo /\ Waiting /\ Opened /\ SavedIsCaller
-----------------------------------------------------------------------------
(* The words: the base and the size of a function's region survive being   *)
(* written to a region, and the region is enabled.                         *)
LEMMA SizeField31 ==
  ASSUME NEW s \in 0 .. 31
  PROVE  /\ ConfigAttributes(s) \in Nat
         /\ RegionEnabled(ConfigAttributes(s))
         /\ SizeOf(ConfigAttributes(s)) = s
BY DEF ConfigAttributes, SizeField, RegionEnabled, SizeOf

(* A base aligned to 32 bytes survives being written, and being read with  *)
(* the number of the region below it.                                      *)
LEMMA AlignedBase ==
  ASSUME NEW b \in Nat, b % 32 = 0, NEW r \in Region
  PROVE  /\ BaseField(b) = b
         /\ BaseField(RbarRead(b, r)) = b
BY DEF BaseField, RbarRead, Region

(* MPU_Config(f's region, num) opens region num for f, and leaves every    *)
(* other region what it was.                                               *)
LEMMA ConfigureOpens ==
  ASSUME TypeOK, NEW f \in Function, NEW num \in {1, 2},
         Configure(RegionStart[f], RegionSize[f], num)
  PROVE  /\ RegionEnabled(rasr'[num])
         /\ rbar'[num] = RegionStart[f]
         /\ SizeOf(rasr'[num]) = RegionSize[f]
         /\ \A r \in Region \ {num} :
              rbar'[r] = rbar[r] /\ rasr'[r] = rasr[r]
         /\ ctrl' = CtrlOn
         /\ rnr' \in Region
         /\ rbar' \in [Region -> Nat]
         /\ rasr' \in [Region -> Nat]
<1>1. /\ RegionStart[f] \in Nat
      /\ RegionStart[f] % 32 = 0
      /\ RegionSize[f] \in 0 .. 31
  BY RegionAssumption
<1>2. num \in Region
  BY DEF Region
<1>3. /\ BaseField(RegionStart[f]) = RegionStart[f]
      /\ ConfigAttributes(RegionSize[f]) \in Nat
      /\ RegionEnabled(ConfigAttributes(RegionSize[f]))
      /\ SizeOf(ConfigAttributes(RegionSize[f])) = RegionSize[f]
  BY <1>1, <1>2, SizeField31, AlignedBase
<1>4. /\ rbar' = [rbar EXCEPT ![num] = RegionStart[f]]
      /\ rasr' = [rasr EXCEPT ![num] = ConfigAttributes(RegionSize[f])]
      /\ ctrl' = CtrlOn
      /\ rnr' = num
  BY <1>3 DEF Configure
<1>5. rbar \in [Region -> Nat] /\ rasr \in [Region -> Nat]
  BY DEF TypeOK
<1>6. /\ rbar'[num] = RegionStart[f]
      /\ rasr'[num] = ConfigAttributes(RegionSize[f])
  BY <1>2, <1>4, <1>5
<1> QED
  BY <1>1, <1>2, <1>3, <1>4, <1>5, <1>6

(* What is read from a region that is open for f is f's region.            *)
LEMMA ReadOpen ==
  ASSUME NEW f \in Function, Opens(1, f)
  PROVE  /\ BaseField(RbarRead(rbar[1], 1)) = RegionStart[f]
         /\ SizeOf(rasr[1]) = RegionSize[f]
BY RegionAssumption, AlignedBase DEF Opens, Region
-----------------------------------------------------------------------------
(* In the initial state main is about to open itself for the first time.   *)
LEMMA InitInvariant == Init => IInv
<1> SUFFICES ASSUME Init
             PROVE  IInv
  OBVIOUS
<1>1. Main \in Function /\ MaxDepth \in Nat /\ 1 \in 1 .. MaxDepth
  BY FunctionAssumption
<1>2. Entry(Main) \in Frame
  BY <1>1 DEF Entry, Frame, Point
<1>3. /\ depth = 1
      /\ Top = Entry(Main)
      /\ Top.fn = Main
      /\ Top.pc = "own"
  BY <1>1 DEF Init, Top, Entry
<1>4. TypeOK
  BY <1>1, <1>2 DEF Init, TypeOK, Region
<1>5. \A r \in Region : ~RegionEnabled(rasr[r])
  <2>1. ~RegionEnabled(0)
    BY DEF RegionEnabled
  <2>2. \A r \in Region : rasr[r] = 0
    BY DEF Init
  <2> QED
    BY <2>1, <2>2
<1>6. OnlyTwo
  BY <1>5 DEF OnlyTwo
<1>7. Waiting
  BY <1>3 DEF Waiting, Top
<1>8. Opened
  BY <1>3, <1>5 DEF Opened, Fresh, Init, Region
<1>9. SavedIsCaller
  BY <1>3 DEF SavedIsCaller
<1> QED
  BY <1>4, <1>6, <1>7, <1>8, <1>9 DEF IInv
-----------------------------------------------------------------------------
(* A step that only moves the running function on within itself leaves the *)
(* stack below it alone.                                                   *)
LEMMA StackKept ==
  ASSUME IInv, depth > 0, depth' = depth,
         NEW x \in Frame, frame' = [frame EXCEPT ![depth] = x],
         x.fn = Top.fn,
         x.pc = "readSize" => Top.pc = "readAddr",
         x.pc # "readAddr"
  PROVE  /\ frame' \in [1 .. MaxDepth -> Frame]
         /\ depth' \in 1 .. MaxDepth
         /\ Top' = x
         /\ \A d \in 1 .. depth - 1 : frame'[d] = frame[d]
         /\ Waiting'
<1>1. /\ depth \in 1 .. MaxDepth
      /\ frame \in [1 .. MaxDepth -> Frame]
      /\ MaxDepth \in Nat
  BY FunctionAssumption DEF IInv, TypeOK
<1>2. /\ frame' \in [1 .. MaxDepth -> Frame]
      /\ frame'[depth] = x
      /\ \A d \in 1 .. depth - 1 : frame'[d] = frame[d]
  BY <1>1
<1>3. Top' = x
  BY <1>2 DEF Top
<1>4. \A d \in 1 .. depth : frame'[d].fn = frame[d].fn
  BY <1>1, <1>2 DEF Top
<1>5. Waiting'
  BY <1>1, <1>2, <1>3, <1>4 DEF IInv, Waiting
<1> QED
  BY <1>1, <1>2, <1>3, <1>5

(* Where the running function is, and what is below it.                    *)
LEMMA RunningTop ==
  ASSUME IInv, depth > 0
  PROVE  depth \in 1 .. MaxDepth /\ MaxDepth \in Nat /\ Top \in Frame
BY FunctionAssumption DEF IInv, TypeOK, Top

LEMMA CallerBelow ==
  ASSUME IInv, depth > 0, depth # 1
  PROVE  /\ depth - 1 \in 1 .. MaxDepth
         /\ frame[depth - 1] \in Frame
         /\ frame[depth - 1].fn \in Function
<1>1. depth - 1 \in 1 .. MaxDepth
  BY RunningTop
<1>2. frame[depth - 1] \in Frame
  BY <1>1 DEF IInv, TypeOK
<1> QED
  BY <1>1, <1>2 DEF Frame

(* Only a function that was called reads its caller's region.              *)
LEMMA EnteredByCall ==
  ASSUME IInv, NEW p \in {"readAddr", "readSize"}, At(p)
  PROVE  /\ depth > 0
         /\ depth \in 1 .. MaxDepth
         /\ Top \in Frame
         /\ Top.pc = p
         /\ depth - 1 \in 1 .. MaxDepth
         /\ frame[depth - 1].fn \in Function
         /\ OnEntry
<1>1. depth > 0 /\ Top.pc = p
  BY DEF At
<1>2. depth # 1
  BY <1>1 DEF IInv, Waiting
<1>3. OnEntry
  BY <1>1 DEF IInv, Opened
<1> QED
  BY <1>1, <1>2, <1>3, RunningTop, CallerBelow

(* A function is entered with its caller open in region 1, so that is what *)
(* it saves.                                                               *)
LEMMA ReadAddrInvariant == IInv /\ ReadAddr => IInv'
<1> SUFFICES ASSUME IInv, ReadAddr
             PROVE  IInv'
  OBVIOUS
<1> DEFINE base == BaseField(RbarRead(rbar[1], 1))
<1> DEFINE x == [Top EXCEPT !.pc = "readSize", !.addr = base]
<1>1. /\ depth > 0
      /\ depth \in 1 .. MaxDepth
      /\ Top \in Frame
      /\ Top.pc = "readAddr"
      /\ depth - 1 \in 1 .. MaxDepth
      /\ frame[depth - 1].fn \in Function
      /\ OnEntry
  BY EnteredByCall DEF ReadAddr
<1>2. Opens(1, frame[depth - 1].fn) /\ Opens(2, Top.fn)
  BY <1>1 DEF OnEntry
<1>3. base = RegionStart[frame[depth - 1].fn]
  BY <1>1, <1>2, ReadOpen
<1>4. base \in Nat
  BY <1>1, <1>3, RegionAssumption
<1>5. /\ x \in Frame
      /\ x.fn = Top.fn
      /\ x.addr = base
      /\ x.pc = "readSize"
      /\ x.pc # "readAddr"
  BY <1>1, <1>4 DEF Frame, Point
<1>6. /\ frame' = [frame EXCEPT ![depth] = x]
      /\ depth' = depth
      /\ rnr' = 1
      /\ UNCHANGED <<ctrl, rbar, rasr>>
  BY <1>1 DEF ReadAddr, Top, IInv, TypeOK
<1> HIDE DEF x
<1>7. /\ frame' \in [1 .. MaxDepth -> Frame]
      /\ depth' \in 1 .. MaxDepth
      /\ Top' = x
      /\ \A d \in 1 .. depth - 1 : frame'[d] = frame[d]
      /\ Waiting'
  BY <1>1, <1>5, <1>6, StackKept
<1>8. TypeOK'
  BY <1>6, <1>7 DEF IInv, TypeOK, Region
<1>9. OnlyTwo'
  BY <1>6 DEF IInv, OnlyTwo
<1>10. Opened'
  BY <1>1, <1>2, <1>3, <1>5, <1>6, <1>7 DEF Opened, OnEntry, Opens
<1>11. SavedIsCaller'
  BY <1>1, <1>5, <1>6, <1>7 DEF IInv, SavedIsCaller, Top
<1> QED
  BY <1>7, <1>8, <1>9, <1>10, <1>11 DEF IInv

(* The size follows the base.                                              *)
LEMMA ReadSizeInvariant == IInv /\ ReadSize => IInv'
<1> SUFFICES ASSUME IInv, ReadSize
             PROVE  IInv'
  OBVIOUS
<1> DEFINE x == [Top EXCEPT !.pc = "own", !.size = SizeOf(rasr[1])]
<1>1. /\ depth > 0
      /\ depth \in 1 .. MaxDepth
      /\ Top \in Frame
      /\ Top.pc = "readSize"
      /\ depth - 1 \in 1 .. MaxDepth
      /\ frame[depth - 1].fn \in Function
      /\ OnEntry
  BY EnteredByCall DEF ReadSize
<1>2. /\ Opens(1, frame[depth - 1].fn)
      /\ Opens(2, Top.fn)
      /\ Top.addr = RegionStart[frame[depth - 1].fn]
  BY <1>1 DEF OnEntry
<1>3. SizeOf(rasr[1]) = RegionSize[frame[depth - 1].fn]
  BY <1>1, <1>2, ReadOpen
<1>4. SizeOf(rasr[1]) \in 0 .. 31
  BY <1>1, <1>3, RegionAssumption
<1>5. /\ x \in Frame
      /\ x.fn = Top.fn
      /\ x.addr = Top.addr
      /\ x.size = SizeOf(rasr[1])
      /\ x.pc = "own"
      /\ x.pc # "readAddr"
      /\ x.pc # "readSize"
  BY <1>1, <1>4 DEF Frame, Point
<1>6. /\ frame' = [frame EXCEPT ![depth] = x]
      /\ depth' = depth
      /\ rnr' = 1
      /\ UNCHANGED <<ctrl, rbar, rasr>>
  BY <1>1 DEF ReadSize, Top, IInv, TypeOK
<1> HIDE DEF x
<1>7. /\ frame' \in [1 .. MaxDepth -> Frame]
      /\ depth' \in 1 .. MaxDepth
      /\ Top' = x
      /\ \A d \in 1 .. depth - 1 : frame'[d] = frame[d]
      /\ Waiting'
  BY <1>1, <1>5, <1>6, StackKept
<1>8. TypeOK'
  BY <1>6, <1>7 DEF IInv, TypeOK, Region
<1>9. OnlyTwo'
  BY <1>6 DEF IInv, OnlyTwo
<1>10. Opened'
  BY <1>1, <1>2, <1>5, <1>6, <1>7 DEF Opened, Opens
<1>11. SavedIsCaller'
  BY <1>1, <1>2, <1>3, <1>5, <1>6, <1>7 DEF IInv, SavedIsCaller, Top
<1> QED
  BY <1>7, <1>8, <1>9, <1>10, <1>11 DEF IInv

(* The function opens itself in region 1; region 2 is open for it already  *)
(* if its caller or the function it called has seen to that.               *)
LEMMA ConfigureOwnInvariant == IInv /\ ConfigureOwn => IInv'
<1> SUFFICES ASSUME IInv, ConfigureOwn
             PROVE  IInv'
  OBVIOUS
<1> DEFINE x == [Top EXCEPT !.pc = "body"]
<1>1. /\ depth > 0
      /\ depth \in 1 .. MaxDepth
      /\ Top \in Frame
      /\ Top.pc = "own"
      /\ Top.fn \in Function
  BY RunningTop DEF ConfigureOwn, At, Frame
<1>2. ReturnsConnected => Fresh \/ Opens(2, Top.fn)
  BY <1>1 DEF IInv, Opened
<1>3. /\ x \in Frame
      /\ x.fn = Top.fn
      /\ x.addr = Top.addr
      /\ x.size = Top.size
      /\ x.pc = "body"
      /\ x.pc # "readAddr"
      /\ x.pc # "readSize"
  BY <1>1 DEF Frame, Point
<1>4. /\ frame' = [frame EXCEPT ![depth] = x]
      /\ depth' = depth
  BY <1>1 DEF ConfigureOwn, Goto, Top, IInv, TypeOK
<1> HIDE DEF x
<1>5. /\ RegionEnabled(rasr'[1])
      /\ rbar'[1] = RegionStart[Top.fn]
      /\ SizeOf(rasr'[1]) = RegionSize[Top.fn]
      /\ \A r \in Region \ {1} : rbar'[r] = rbar[r] /\ rasr'[r] = rasr[r]
      /\ ctrl' = CtrlOn
      /\ rnr' \in Region
      /\ rbar' \in [Region -> Nat]
      /\ rasr' \in [Region -> Nat]
  BY <1>1, ConfigureOpens DEF ConfigureOwn, IInv
<1>6. /\ frame' \in [1 .. MaxDepth -> Frame]
      /\ depth' \in 1 .. MaxDepth
      /\ Top' = x
      /\ \A d \in 1 .. depth - 1 : frame'[d] = frame[d]
      /\ Waiting'
  BY <1>1, <1>3, <1>4, StackKept
<1>7. TypeOK'
  BY <1>5, <1>6 DEF IInv, TypeOK
<1>8. OnlyTwo'
  BY <1>5 DEF IInv, OnlyTwo
<1>9. InBody'
  <2>1. rbar'[2] = rbar[2] /\ rasr'[2] = rasr[2]
    BY <1>5 DEF Region
  <2> QED
    BY <1>2, <1>3, <1>5, <1>6, <2>1 DEF InBody, Opens, Fresh
<1>10. Opened'
  BY <1>3, <1>6, <1>9 DEF Opened
<1>11. SavedIsCaller'
  BY <1>1, <1>3, <1>4, <1>6 DEF IInv, SavedIsCaller, Top
<1> QED
  BY <1>6, <1>7, <1>8, <1>10, <1>11 DEF IInv

(* Before a call the callee replaces whatever region 2 was open for.       *)
LEMMA ConfigureCalleeInvariant ==
  \A g \in Function : IInv /\ ConfigureCallee(g) => IInv'
<1> SUFFICES ASSUME NEW g \in Function, IInv, ConfigureCallee(g)
             PROVE  IInv'
  OBVIOUS
<1> DEFINE x == [Top EXCEPT !.pc = "call", !.callee = g]
<1>1. /\ depth > 0
      /\ depth < MaxDepth
      /\ depth \in 1 .. MaxDepth
      /\ Top \in Frame
      /\ Top.pc = "body"
      /\ Top.fn \in Function
      /\ g # Main
  BY RunningTop, FunctionAssumption DEF ConfigureCallee, At, Frame
<1>2. Opens(1, Top.fn)
  BY <1>1 DEF IInv, Opened, InBody
<1>3. /\ x \in Frame
      /\ x.fn = Top.fn
      /\ x.callee = g
      /\ x.addr = Top.addr
      /\ x.size = Top.size
      /\ x.pc = "call"
      /\ x.pc # "readAddr"
      /\ x.pc # "readSize"
  BY <1>1 DEF Frame, Point
<1>4. /\ frame' = [frame EXCEPT ![depth] = x]
      /\ depth' = depth
  BY <1>1 DEF ConfigureCallee, Top, IInv, TypeOK
<1> HIDE DEF x
<1>5. /\ RegionEnabled(rasr'[2])
      /\ rbar'[2] = RegionStart[g]
      /\ SizeOf(rasr'[2]) = RegionSize[g]
      /\ \A r \in Region \ {2} : rbar'[r] = rbar[r] /\ rasr'[r] = rasr[r]
      /\ ctrl' = CtrlOn
      /\ rnr' \in Region
      /\ rbar' \in [Region -> Nat]
      /\ rasr' \in [Region -> Nat]
  BY <1>1, ConfigureOpens DEF ConfigureCallee, IInv
<1>6. /\ frame' \in [1 .. MaxDepth -> Frame]
      /\ depth' \in 1 .. MaxDepth
      /\ Top' = x
      /\ \A d \in 1 .. depth - 1 : frame'[d] = frame[d]
      /\ Waiting'
  BY <1>1, <1>3, <1>4, StackKept
<1>7. TypeOK'
  BY <1>5, <1>6 DEF IInv, TypeOK
<1>8. OnlyTwo'
  BY <1>5 DEF IInv, OnlyTwo
<1>9. BeforeCall'
  <2>1. rbar'[1] = rbar[1] /\ rasr'[1] = rasr[1]
    BY <1>5 DEF Region
  <2> QED
    BY <1>1, <1>2, <1>3, <1>4, <1>5, <1>6, <2>1 DEF BeforeCall, Opens
<1>10. Opened'
  BY <1>3, <1>6, <1>9 DEF Opened
<1>11. SavedIsCaller'
  BY <1>1, <1>3, <1>4, <1>6 DEF IInv, SavedIsCaller, Top
<1> QED
  BY <1>6, <1>7, <1>8, <1>10, <1>11 DEF IInv

(* The callee is entered with its caller open in region 1 and itself in    *)
(* region 2.                                                               *)
LEMMA CallInvariant == IInv /\ Call => IInv'
<1> SUFFICES ASSUME IInv, Call
             PROVE  IInv'
  OBVIOUS
<1> DEFINE g == Top.callee
<1> DEFINE x == [Top EXCEPT !.pc = "own", !.callee = Top.fn]
<1>1. /\ depth > 0
      /\ depth < MaxDepth
      /\ depth \in 1 .. MaxDepth
      /\ depth + 1 \in 1 .. MaxDepth
      /\ Top \in Frame
      /\ Top.pc = "call"
      /\ g \in Function
      /\ g # Main
      /\ Opens(1, Top.fn)
      /\ Opens(2, g)
  BY RunningTop DEF Call, At, IInv, Opened, BeforeCall, Frame
<1>2. /\ Entry(g) \in Frame
      /\ Entry(g).fn = g
      /\ Entry(g).pc = "readAddr"
  BY <1>1 DEF Entry, Frame, Point
<1>3. /\ x \in Frame
      /\ x.fn = Top.fn
      /\ x.pc = "own"
      /\ x.addr = Top.addr
      /\ x.size = Top.size
  BY <1>1 DEF Frame, Point
<1>4. frame \in [1 .. MaxDepth -> Frame]
  BY DEF IInv, TypeOK
<1>5. /\ depth' = depth + 1
      /\ frame' = [frame EXCEPT ![depth] = x,
                                ![depth + 1] = Entry(g)]
      /\ UNCHANGED <<ctrl, rnr, rbar, rasr>>
  BY <1>1, <1>4 DEF Call, Top, mpu
<1> HIDE DEF g, x
<1>6. /\ depth # depth + 1
      /\ frame' \in [1 .. MaxDepth -> Frame]
      /\ frame'[depth] = x
      /\ frame'[depth + 1] = Entry(g)
      /\ \A d \in 1 .. depth - 1 : frame'[d] = frame[d]
  <2> DEFINE mid == [frame EXCEPT ![depth] = x]
  <2>1. /\ mid \in [1 .. MaxDepth -> Frame]
        /\ mid[depth] = x
        /\ \A d \in 1 .. depth - 1 : mid[d] = frame[d]
    BY <1>1, <1>3, <1>4
  <2>2. frame' = [mid EXCEPT ![depth + 1] = Entry(g)]
    BY <1>5
  <2> HIDE DEF mid
  <2>3. /\ frame' \in [1 .. MaxDepth -> Frame]
        /\ frame'[depth + 1] = Entry(g)
        /\ \A d \in 1 .. depth : frame'[d] = mid[d]
    BY <1>1, <1>2, <2>1, <2>2
  <2> QED
    BY <1>1, <2>1, <2>3
<1>7. Top' = Entry(g)
  BY <1>5, <1>6 DEF Top
<1>8. TypeOK'
  BY <1>1, <1>5, <1>6 DEF IInv, TypeOK
<1>9. OnlyTwo'
  BY <1>5 DEF IInv, OnlyTwo
<1>10. Waiting'
  <2>1. \A d \in 1 .. depth : frame'[d].fn = Main <=> d = 1
    BY <1>1, <1>3, <1>6 DEF IInv, Waiting, Top
  <2>2. \A d \in 1 .. depth : frame'[d].pc = "own"
    BY <1>1, <1>3, <1>6 DEF IInv, Waiting
  <2>3. \A d \in 1 .. depth' : d < depth' => d \in 1 .. depth
    BY <1>1, <1>5
  <2>4. \A d \in 1 .. depth' : d \in 1 .. depth \/ d = depth + 1
    BY <1>1, <1>5
  <2>5. frame'[depth + 1].fn # Main /\ depth + 1 # 1 /\ depth' # 1
    BY <1>1, <1>2, <1>5, <1>6
  <2>6. \A d \in 1 .. depth' : frame'[d].fn = Main <=> d = 1
    BY <2>1, <2>4, <2>5
  <2>7. \A d \in 1 .. depth' : d < depth' => frame'[d].pc = "own"
    BY <2>2, <2>3
  <2> QED
    BY <2>5, <2>6, <2>7 DEF Waiting
<1>11. OnEntry'
  BY <1>1, <1>2, <1>3, <1>5, <1>6, <1>7 DEF OnEntry, Opens
<1>12. Opened'
  BY <1>2, <1>7, <1>11 DEF Opened
<1>13. SavedIsCaller'
  <2>1. \A d \in 1 .. depth : /\ frame'[d].fn = frame[d].fn
                              /\ frame'[d].addr = frame[d].addr
                              /\ frame'[d].size = frame[d].size
    BY <1>1, <1>3, <1>6 DEF Top
  <2>2. \A d \in 1 .. depth : frame[d].pc \notin {"readAddr", "readSize"}
    BY <1>1 DEF IInv, Waiting, Top
  <2>3. \A d \in 2 .. depth :
          /\ frame[d].addr = RegionStart[frame[d - 1].fn]
          /\ frame[d].size = RegionSize[frame[d - 1].fn]
    BY <1>1, <2>2 DEF IInv, SavedIsCaller
  <2>4. \A d \in 2 .. depth :
          /\ frame'[d].addr = RegionStart[frame'[d - 1].fn]
          /\ frame'[d].size = RegionSize[frame'[d - 1].fn]
    BY <1>1, <2>1, <2>3
  <2>5. \A d \in 2 .. depth' : d \in 2 .. depth \/ d = depth + 1
    BY <1>1, <1>5
  <2>6. frame'[depth + 1].pc = "readAddr"
    BY <1>2, <1>6
  <2> QED
    BY <2>4, <2>5, <2>6 DEF SavedIsCaller
<1> QED
  BY <1>8, <1>9, <1>10, <1>12, <1>13 DEF IInv

(* What a function saved on entry is its caller, which it opens last.      *)
LEMMA ConfigureCallerInvariant ==
  IInv /\ ConfigureCaller => IInv'
<1> SUFFICES ASSUME IInv, ConfigureCaller
             PROVE  IInv'
  OBVIOUS
<1> DEFINE p == IF Top.fn \in ReturnsLast THEN "return" ELSE "body"
<1> DEFINE x == [Top EXCEPT !.pc = p]
<1> DEFINE h == frame[depth - 1].fn
<1>1. /\ depth > 0
      /\ depth \in 1 .. MaxDepth
      /\ Top \in Frame
      /\ Top.pc = "body"
      /\ Top.fn \in Function
      /\ Top.fn # Main
      /\ Opens(1, Top.fn)
  BY RunningTop DEF ConfigureCaller, At, Frame, IInv, Opened, InBody
<1>2. depth # 1 /\ h \in Function
  BY <1>1, CallerBelow DEF IInv, Waiting, Top
<1>3. Top.addr = RegionStart[h] /\ Top.size = RegionSize[h]
  BY <1>1, <1>2 DEF IInv, SavedIsCaller, Top
<1>4. /\ x \in Frame
      /\ x.fn = Top.fn
      /\ x.addr = Top.addr
      /\ x.size = Top.size
      /\ x.pc = p
      /\ p \in {"return", "body"}
      /\ p = "body" => ~ReturnsConnected
      /\ x.pc # "readAddr"
      /\ x.pc # "readSize"
  BY <1>1 DEF Frame, Point, ReturnsConnected
<1>5. /\ frame' = [frame EXCEPT ![depth] = x]
      /\ depth' = depth
  BY <1>1 DEF ConfigureCaller, Goto, Top, IInv, TypeOK
<1> HIDE DEF p, x, h
<1>6. /\ RegionEnabled(rasr'[2])
      /\ rbar'[2] = RegionStart[h]
      /\ SizeOf(rasr'[2]) = RegionSize[h]
      /\ \A r \in Region \ {2} : rbar'[r] = rbar[r] /\ rasr'[r] = rasr[r]
      /\ ctrl' = CtrlOn
      /\ rnr' \in Region
      /\ rbar' \in [Region -> Nat]
      /\ rasr' \in [Region -> Nat]
  BY <1>2, <1>3, ConfigureOpens DEF ConfigureCaller, IInv
<1>7. /\ frame' \in [1 .. MaxDepth -> Frame]
      /\ depth' \in 1 .. MaxDepth
      /\ Top' = x
      /\ \A d \in 1 .. depth - 1 : frame'[d] = frame[d]
      /\ Waiting'
  BY <1>1, <1>4, <1>5, StackKept
<1>8. TypeOK'
  BY <1>6, <1>7 DEF IInv, TypeOK
<1>9. OnlyTwo'
  BY <1>6 DEF IInv, OnlyTwo
<1>10. Opens(1, Top.fn)'
  <2>1. rbar'[1] = rbar[1] /\ rasr'[1] = rasr[1]
    BY <1>6 DEF Region
  <2> QED
    BY <1>1, <1>4, <1>7, <2>1 DEF Opens
<1>11. BeforeReturn'
  <2>1. frame'[depth' - 1].fn = h
    BY <1>1, <1>2, <1>5, <1>7 DEF h
  <2> QED
    BY <1>6, <2>1 DEF BeforeReturn, Opens
<1>12. Opened'
  BY <1>4, <1>7, <1>10, <1>11 DEF Opened, InBody
<1>13. SavedIsCaller'
  BY <1>1, <1>4, <1>5, <1>7 DEF IInv, SavedIsCaller, Top
<1> QED
  BY <1>7, <1>8, <1>9, <1>12, <1>13 DEF IInv

(* Main returns to nobody; every other function that returns from its last *)
(* block has opened its caller.                                            *)
LEMMA ReturnOpens ==
  ASSUME IInv, AtReturn
  PROVE  depth > 0 /\ (ReturnsConnected => BeforeReturn)
<1>1. depth > 0 /\ Top.fn \in Function
  BY RunningTop DEF AtReturn, At, Frame
<1>2. CASE At("return")
  BY <1>1, <1>2 DEF At, IInv, Opened
<1>3. CASE Top.fn = Main \/ Top.fn \notin ReturnsLast
  BY <1>1, <1>3 DEF ReturnsConnected, BeforeReturn
<1> QED
  BY <1>1, <1>2, <1>3 DEF AtReturn

(* A return finds the caller about to open itself, and open in region 2 if *)
(* the functions are connected.                                            *)
LEMMA ReturnInvariant == IInv /\ Return => IInv'
<1> SUFFICES ASSUME IInv, Return
             PROVE  IInv'
  OBVIOUS
<1>1. /\ depth > 0
      /\ depth \in 1 .. MaxDepth
      /\ MaxDepth \in Nat
      /\ ReturnsConnected => BeforeReturn
  BY RunningTop, ReturnOpens DEF Return, AtReturn, At
<1>2. Entry(Main) \in Frame
  BY FunctionAssumption DEF Entry, Frame, Point
<1>3. frame \in [1 .. MaxDepth -> Frame]
  BY DEF IInv, TypeOK
<1>4. /\ depth' = depth - 1
      /\ frame' = [frame EXCEPT ![depth] = Entry(Main)]
      /\ UNCHANGED <<ctrl, rnr, rbar, rasr>>
  BY DEF Return, mpu
<1>5. /\ frame' \in [1 .. MaxDepth -> Frame]
      /\ \A d \in 1 .. depth - 1 : frame'[d] = frame[d]
  BY <1>1, <1>2, <1>3, <1>4
<1>6. TypeOK'
  BY <1>1, <1>4, <1>5 DEF IInv, TypeOK
<1>7. OnlyTwo'
  BY <1>4 DEF IInv, OnlyTwo
<1>8. SavedIsCaller'
  BY <1>1, <1>4, <1>5 DEF IInv, SavedIsCaller
<1>9. CASE depth = 1
  BY <1>4, <1>6, <1>7, <1>8, <1>9 DEF IInv, Waiting, Opened
<1>10. CASE depth # 1
  <2>1. depth - 1 \in 1 .. depth - 1
    BY <1>1, <1>10
  <2>2. Top' = frame[depth - 1]
    BY <1>4, <1>5, <2>1 DEF Top
  <2>3. frame[depth - 1].pc = "own"
    BY <1>1, <2>1 DEF IInv, Waiting
  <2>4. Waiting'
    BY <1>1, <1>4, <1>5, <2>1, <2>2, <2>3 DEF IInv, Waiting
  <2>5. Top.fn # Main
    BY <1>1, <1>10 DEF IInv, Waiting, Top
  <2>6. ReturnsConnected => Opens(2, frame[depth - 1].fn)
    BY <1>1, <2>5 DEF BeforeReturn
  <2>7. Opened'
    BY <1>4, <2>2, <2>3, <2>6 DEF Opened, Opens
  <2> QED
    BY <1>6, <1>7, <1>8, <2>4, <2>7 DEF IInv
<1> QED
  BY <1>9, <1>10
-----------------------------------------------------------------------------
(* IInv is inductive.                                                      *)
LEMMA NextInvariant == IInv /\ [Next]_vars => IInv'
<1> SUFFICES ASSUME IInv, [Next]_vars
             PROVE  IInv'
  OBVIOUS
<1>1. CASE ReadAddr
  BY <1>1, ReadAddrInvariant
<1>2. CASE ReadSize
  BY <1>2, ReadSizeInvariant
<1>3. CASE ConfigureOwn
  BY <1>3, ConfigureOwnInvariant
<1>4. CASE \E g \in Function : ConfigureCallee(g)
  BY <1>4, ConfigureCalleeInvariant
<1>5. CASE Call
  BY <1>5, CallInvariant
<1>6. CASE ConfigureCaller
  BY <1>6, ConfigureCallerInvariant
<1>7. CASE Return
  BY <1>7, ReturnInvariant
<1>8. CASE UNCHANGED vars
  BY <1>8 DEF vars, IInv, TypeOK, OnlyTwo, Waiting, Opened, OnEntry, Fresh,
              InBody, BeforeCall, BeforeReturn, SavedIsCaller, Opens, Top
<1> QED
  BY <1>1, <1>2, <1>3, <1>4, <1>5, <1>6, <1>7, <1>8
     DEF Next, Returned

(* IInv holds in every state of every instrumented program.                *)
THEOREM Invariance == Spec => []IInv
<1>1. Init => IInv
  BY InitInvariant
<1>2. IInv /\ [Next]_vars => IInv'
  BY NextInvariant
<1> QED
  BY <1>1, <1>2, PTL DEF Spec

(* The variables keep their types: the addresses and sizes that are read   *)
(* from the registers are ones that can be written to them again.          *)
THEOREM TypeCorrect == Spec => []TypeOK
<1>1. IInv => TypeOK
  BY DEF IInv
<1> QED
  BY <1>1, Invariance, PTL

(* The code of Connect_Function reads the caller's region, whatever calls  *)
(* have come before, and wherever the functions called return from: a      *)
(* function opens itself in region 1 before each of its calls.             *)
THEOREM SavedCaller == Spec => []SavedIsCaller
<1>1. IInv => SavedIsCaller
  BY DEF IInv
<1> QED
  BY <1>1, Invariance, PTL

(* The one point where the function that runs may be closed with the unit  *)
(* on is in front of MPU_Config(own, 1), where a call returns to.          *)
THEOREM ClosedOnlyAtOwn == Spec => [](RunningOpen \/ At("own"))
<1>1. IInv => RunningOpen \/ At("own")
  <2> SUFFICES ASSUME IInv, depth > 0, Top.pc # "own"
               PROVE  Top.fn \in Open
    BY DEF RunningOpen, At
  <2>1. Top \in Frame /\ Top.fn \in Function
    BY RunningTop DEF Frame
  <2>2. Opens(1, Top.fn) \/ Opens(2, Top.fn)
    BY <2>1 DEF IInv, Opened, OnEntry, InBody, BeforeCall, Frame, Point
  <2> QED
    BY <2>1, <2>2 DEF Open, Region
<1> QED
  BY <1>1, Invariance, PTL

(* The function that runs is open at every point of it once the unit is    *)
(* on: what Insert_Function and Connect_Function put around calls and at   *)
(* both ends of a function never leaves it closed.                         *)
THEOREM RunningIsOpen == ReturnsConnected => (Spec => []RunningOpen)
<1> SUFFICES ASSUME ReturnsConnected
             PROVE  Spec => []RunningOpen
  OBVIOUS
<1>1. IInv => RunningOpen
  <2> SUFFICES ASSUME IInv, depth > 0, CtrlEnable(ctrl)
               PROVE  Top.fn \in Open
    BY DEF RunningOpen
  <2>1. Top \in Frame /\ Top.fn \in Function
    BY RunningTop DEF Frame
  <2>2. ~Fresh
    BY DEF Fresh, CtrlEnable, CtrlOff
  <2>3. Opens(1, Top.fn) \/ Opens(2, Top.fn)
    BY <2>1, <2>2
       DEF IInv, Opened, OnEntry, InBody, BeforeCall, Frame, Point
  <2> QED
    BY <2>1, <2>3 DEF Open, Region
<1> QED
  BY <1>1, Invariance, PTL

(* In its body a function has no other function open.                      *)
THEOREM BodyIsConfined == ReturnsConnected => (Spec => []BodyConfined)
<1> SUFFICES ASSUME ReturnsConnected
             PROVE  Spec => []BodyConfined
  OBVIOUS
<1>1. IInv => BodyConfined
  <2> SUFFICES ASSUME IInv, At("body")
               PROVE  Open = {Top.fn}
    BY DEF BodyConfined
  <2>1. depth > 0 /\ Top.pc = "body"
    BY DEF At
  <2>2. Top.fn \in Function
    BY <2>1, RunningTop DEF Frame
  <2>3. InBody
    BY <2>1 DEF IInv, Opened
  <2>4. Top.fn \in Open
    BY <2>2, <2>3 DEF Open, InBody, Region
  <2>5. ASSUME NEW f \in Function, NEW r \in Region, Opens(r, f)
        PROVE  f = Top.fn
    <3>1. r \in {1, 2}
      BY <2>5 DEF IInv, OnlyTwo, Opens
    <3>2. Opens(r, Top.fn)
      BY <2>3, <2>5, <3>1 DEF InBody, Opens
    <3> QED
      BY <2>2, <2>5, <3>2, RegionAssumption DEF Opens
  <2> QED
    BY <2>4, <2>5 DEF Open
<1> QED
  BY <1>1, Invariance, PTL

(* Every call and every return goes through region 2, open for the         *)
(* function that runs next.                                                *)
THEOREM TransfersThroughRegionTwo ==
  ReturnsConnected => (Spec => TransferThroughRegionTwo)
<1> SUFFICES ASSUME ReturnsConnected
             PROVE  Spec => TransferThroughRegionTwo
  OBVIOUS
<1> DEFINE T == (depth' # depth /\ depth' > 0) => Opens(2, frame'[depth'].fn)
<1>1. IInv /\ [Next]_vars => [T]_vars
  <2> SUFFICES ASSUME IInv, Next, depth' # depth, depth' > 0
               PROVE  Opens(2, frame'[depth'].fn)
    OBVIOUS
  <2>1. Call \/ Return
    BY DEF Next, ReadAddr, ReadSize, ConfigureOwn, ConfigureCallee,
           ConfigureCaller, Returned, vars
  <2>2. CASE Call
    <3>1. depth > 0 /\ Top.pc = "call" /\ BeforeCall
      BY <2>2 DEF Call, At, IInv, Opened
    <3>2. depth \in 1 .. MaxDepth /\ depth + 1 \in 1 .. MaxDepth
      BY <3>1, RunningTop DEF BeforeCall
    <3>3. frame'[depth + 1] = Entry(Top.callee) /\ depth' = depth + 1
      BY <2>2, <3>2 DEF Call, IInv, TypeOK
    <3> QED
      BY <3>1, <3>3 DEF BeforeCall, Entry
  <2>3. CASE Return
    <3>1. depth > 0 /\ BeforeReturn
      BY <2>3, ReturnOpens DEF Return
    <3>2. depth \in 1 .. MaxDepth /\ MaxDepth \in Nat /\ depth' = depth - 1
      BY <2>3, <3>1, RunningTop DEF Return
    <3>3. depth # 1
      BY <3>2
    <3>4. frame'[depth'] = frame[depth - 1]
      BY <2>3, <3>2, <3>3 DEF Return, IInv, TypeOK
    <3>5. Top.fn # Main
      BY <3>2, <3>3 DEF IInv, Waiting, Top
    <3> QED
      BY <3>1, <3>4, <3>5 DEF BeforeReturn
  <2> QED
    BY <2>1, <2>2, <2>3
<1> QED
  BY <1>1, Invariance, PTL DEF TransferThroughRegionTwo, Spec
=============================================================================
