--------------------------- MODULE FirmwareProofs ---------------------------
(***************************************************************************)
(* The parts of the firmware that are written in C, whatever is built      *)
(* around them.                                                            *)
(*                                                                         *)
(* mpu_configure.c, for every set of calls, and that it implements         *)
(* MpuRegions.  The invariant says what each access finds: whether the     *)
(* unit is on and its faults are reported, which region is selected, and   *)
(* what every region holds, the one that is half written included.         *)
(*                                                                         *)
(* The startup code and the fault handlers, for memory of any size and any *)
(* stack.                                                                  *)
(***************************************************************************)
EXTENDS MpuConfigure, Startup, TLAPS
-----------------------------------------------------------------------------
(* The driver.                                                             *)
Quiet == ctrl = CtrlOff /\ ~shcsr /\ \A r \in Region : rasr[r] = 0

Guarded == ctrl = CtrlOn /\ shcsr

(* The state of the unit at each access.                                   *)
UnitAt ==
  /\ pc \in {"caller", "clearFaults", "selectOne", "read"} => Quiet \/ Guarded
  /\ pc = "disable" => ~shcsr
  /\ pc \in {"select", "base", "attributes", "enable"} =>
       ctrl = CtrlOff /\ ~shcsr
  /\ pc = "setFaults" => ctrl = CtrlOn /\ ~shcsr

(* The region that the accesses of a call go to.                           *)
SelectedAt ==
  /\ pc \in {"base", "attributes"} => rnr = req.num
  /\ pc = "attributes" => rbar[rnr] = BaseField(req.start)

(* Every region holds a setting somebody asked for, or nothing.            *)
Held == \A r \in Region : View[r] \in Setting \cup {<<0, 0>>}

IInv == TypeOK /\ UnitAt /\ SelectedAt /\ Held
-----------------------------------------------------------------------------
(* Clearing the low bits of a base twice is clearing them once.            *)
LEMMA BaseFieldFacts ==
  ASSUME NEW w \in Nat
  PROVE  BaseField(w) \in Nat /\ BaseField(BaseField(w)) = BaseField(w)
BY DEF BaseField

LEMMA AttributeFacts ==
  ASSUME NEW size \in Nat
  PROVE  /\ ConfigAttributes(size) \in Nat
         /\ ZeroAttributes(size) \in Nat
         /\ SizeOf(size) \in Nat
         /\ ~ExecuteNever(ConfigAttributes(size))
BY DEF ConfigAttributes, ZeroAttributes, SizeField, SizeOf, ExecuteNever

LEMMA RequestFacts ==
  ASSUME NEW q \in Requests
  PROVE  /\ BaseField(BaseWord(q)) = BaseField(q.start)
         /\ BaseField(q.start) \in Nat
         /\ Attributes(q) \in Nat
         /\ q.num \in Region
         /\ <<BaseField(q.start), Attributes(q)>> \in Setting
BY RequestsAssumption, BaseFieldFacts, AttributeFacts
   DEF BaseWord, Attributes, Setting
-----------------------------------------------------------------------------
LEMMA InitInvariant == Init => IInv
<1> SUFFICES ASSUME Init
             PROVE  IInv
  OBVIOUS
<1>1. TypeOK
  <2>1. 0 \in Region
    BY DEF Region
  <2> QED
    BY <2>1 DEF Init, TypeOK
<1>2. UnitAt /\ SelectedAt
  BY DEF Init, UnitAt, Quiet, SelectedAt
<1>3. Held
  BY DEF Init, Held, View
<1> QED
  BY <1>1, <1>2, <1>3 DEF IInv

(* A step that leaves the regions, the call in progress and the half       *)
(* written region alone leaves what the regions hold alone.                *)
LEMMA ViewKept ==
  ASSUME UNCHANGED <<rbar, rasr>>, pc # "attributes", pc' # "attributes"
  PROVE  View' = View
BY DEF View

LEMMA NextInvariant == IInv /\ [Next]_vars => IInv'
<1> SUFFICES ASSUME IInv, [Next]_vars
             PROVE  IInv'
  OBVIOUS
<1> USE DEF IInv
<1>1. ASSUME NEW q \in Requests, Enter(q)
      PROVE  IInv'
  <2>1. TypeOK'
    BY <1>1 DEF Enter, TypeOK
  <2>2. UnitAt'
    BY <1>1 DEF Enter, UnitAt, Quiet, Guarded
  <2>3. SelectedAt'
    BY <1>1 DEF Enter, SelectedAt
  <2>4. Held'
    BY <1>1, ViewKept DEF Enter, Held, Setting
  <2> QED
    BY <2>1, <2>2, <2>3, <2>4
<1>2. CASE ClearFaults
  <2>1. TypeOK'
    BY <1>2 DEF ClearFaults, TypeOK
  <2>2. UnitAt' /\ SelectedAt'
    BY <1>2 DEF ClearFaults, UnitAt, SelectedAt
  <2>3. Held'
    BY <1>2, ViewKept DEF ClearFaults, Held, Setting
  <2> QED
    BY <2>1, <2>2, <2>3
<1>3. CASE Disable
  <2>1. TypeOK'
    BY <1>3 DEF Disable, TypeOK
  <2>2. UnitAt' /\ SelectedAt'
    BY <1>3 DEF Disable, UnitAt, SelectedAt
  <2>3. Held'
    BY <1>3, ViewKept DEF Disable, Held, Setting
  <2> QED
    BY <2>1, <2>2, <2>3
<1>4. CASE Select
  <2>1. TypeOK'
    BY <1>4, RequestFacts DEF Select, TypeOK
  <2>2. UnitAt' /\ SelectedAt'
    BY <1>4 DEF Select, UnitAt, SelectedAt
  <2>3. Held'
    BY <1>4, ViewKept DEF Select, Held, Setting
  <2> QED
    BY <2>1, <2>2, <2>3
<1>5. CASE WriteBase
  <2>1. req \in Requests /\ rnr = req.num /\ rnr \in Region
    BY <1>5 DEF WriteBase, TypeOK, SelectedAt
  <2>2. rbar' = [rbar EXCEPT ![rnr] = BaseField(req.start)]
    BY <1>5, <2>1, RequestFacts DEF WriteBase
  <2>3. TypeOK'
    BY <1>5, <2>1, <2>2, RequestFacts DEF WriteBase, TypeOK
  <2>4. UnitAt'
    BY <1>5 DEF WriteBase, UnitAt
  <2>5. SelectedAt'
    BY <1>5, <2>1, <2>2 DEF WriteBase, SelectedAt, TypeOK
  <2>6. Held'
    <3> SUFFICES ASSUME NEW r \in Region
                 PROVE  View'[r] \in Setting \cup {<<0, 0>>}
      BY DEF Held, Setting
    <3>1. CASE r = req.num
      BY <1>5, <2>1, <3>1, RequestFacts DEF WriteBase, View
    <3>2. CASE r # req.num
      BY <1>5, <2>1, <2>2, <3>2 DEF WriteBase, View, Held, TypeOK
    <3> QED
      BY <3>1, <3>2
  <2> QED
    BY <2>3, <2>4, <2>5, <2>6
<1>6. CASE WriteAttributes
  <2>1. req \in Requests /\ rnr = req.num /\ rnr \in Region
    BY <1>6 DEF WriteAttributes, TypeOK, SelectedAt
  <2>2. TypeOK'
    BY <1>6, <2>1, RequestFacts DEF WriteAttributes, TypeOK
  <2>3. UnitAt' /\ SelectedAt'
    BY <1>6 DEF WriteAttributes, UnitAt, SelectedAt
  <2>4. View' = View
    <3> SUFFICES ASSUME NEW r \in Region
                 PROVE  View'[r] = View[r]
      BY DEF View
    <3>1. CASE r = req.num
      BY <1>6, <2>1, <3>1 DEF WriteAttributes, View, SelectedAt, TypeOK
    <3>2. CASE r # req.num
      BY <1>6, <2>1, <3>2 DEF WriteAttributes, View, TypeOK
    <3> QED
      BY <3>1, <3>2
  <2>5. Held'
    BY <2>4 DEF Held, Setting
  <2> QED
    BY <2>2, <2>3, <2>5
<1>7. CASE Enable
  <2>1. TypeOK'
    BY <1>7 DEF Enable, TypeOK
  <2>2. UnitAt' /\ SelectedAt'
    BY <1>7 DEF Enable, UnitAt, SelectedAt
  <2>3. Held'
    BY <1>7, ViewKept DEF Enable, Held, Setting
  <2> QED
    BY <2>1, <2>2, <2>3
<1>8. CASE SetFaults
  <2>1. TypeOK'
    BY <1>8 DEF SetFaults, TypeOK
  <2>2. UnitAt' /\ SelectedAt'
    BY <1>8 DEF SetFaults, UnitAt, SelectedAt, Guarded
  <2>3. Held'
    BY <1>8, ViewKept DEF SetFaults, Held, Setting
  <2> QED
    BY <2>1, <2>2, <2>3
<1>9. CASE SelectOne
  <2>1. TypeOK'
    BY <1>9 DEF SelectOne, TypeOK, Region
  <2>2. UnitAt' /\ SelectedAt'
    BY <1>9 DEF SelectOne, UnitAt, SelectedAt, Quiet, Guarded
  <2>3. Held'
    BY <1>9, ViewKept DEF SelectOne, Held, Setting
  <2> QED
    BY <2>1, <2>2, <2>3
<1>10. CASE Read
  <2>1. /\ rnr \in Region
        /\ BaseField(RbarRead(rbar[rnr], rnr)) \in Nat
        /\ SizeOf(rasr[rnr]) \in Nat
    BY BaseFieldFacts, AttributeFacts DEF TypeOK, RbarRead, Region
  <2>2. TypeOK'
    BY <1>10, <2>1 DEF Read, TypeOK
  <2>3. UnitAt' /\ SelectedAt'
    BY <1>10 DEF Read, UnitAt, SelectedAt, Quiet, Guarded
  <2>4. Held'
    BY <1>10, ViewKept DEF Read, Held, Setting
  <2> QED
    BY <2>2, <2>3, <2>4
<1>11. CASE UNCHANGED vars
  BY <1>11 DEF vars, TypeOK, UnitAt, Quiet, Guarded, SelectedAt, Held, View,
               Setting
<1> QED
  BY <1>1, <1>2, <1>3, <1>4, <1>5, <1>6, <1>7, <1>8, <1>9, <1>10, <1>11
     DEF Next

(* IInv holds whatever calls are made, in whatever order.                  *)
THEOREM Invariance == Spec => []IInv
BY InitInvariant, NextInvariant, PTL DEF Spec

(* Registers and arguments stay words, and only regions the unit has are   *)
(* selected.                                                               *)
THEOREM TypeCorrect == Spec => []TypeOK
<1>1. IInv => TypeOK
  BY DEF IInv
<1> QED
  BY <1>1, Invariance, PTL

(* Memory faults are reported only while the unit enforces its regions.    *)
THEOREM FaultsAreEnforced == Spec => []FaultsFollowEnable
<1>1. IInv => FaultsFollowEnable
  BY DEF IInv, TypeOK, UnitAt, Quiet, Guarded, FaultsFollowEnable,
         CtrlEnable, CtrlOn, CtrlOff
<1> QED
  BY <1>1, Invariance, PTL

(* Every way out of mpu_configure.c leaves the unit on and its faults      *)
(* reported, once a region has been configured.                            *)
THEOREM CallerIsProtected == Spec => []CallerProtected
<1>1. IInv => CallerProtected
  <2> SUFFICES ASSUME IInv, pc = "caller",
                      NEW r \in Region, RegionEnabled(rasr[r])
               PROVE  CtrlEnable(ctrl) /\ shcsr
    BY DEF CallerProtected
  <2>1. ~RegionEnabled(0)
    BY DEF RegionEnabled
  <2>2. Guarded
    BY <2>1 DEF IInv, UnitAt, Quiet
  <2> QED
    BY <2>2 DEF Guarded, CtrlEnable, CtrlOn
<1> QED
  BY <1>1, Invariance, PTL
-----------------------------------------------------------------------------
(* No data region that MPU_zero_region takes away contains the switching   *)
(* code.                                                                   *)
CodeSpared ==
  \A q \in Requests :
    q.fn = "MPU_zero_region" =>
      ~Covers(BaseField(q.start), ZeroAttributes(q.size), MpuCode)

LEMMA HighestRegion ==
  ASSUME NEW S \in SUBSET Region, S # {}
  PROVE  \E r \in S : \A s \in S : s <= r
<1>1. CASE 7 \in S
  BY <1>1 DEF Region
<1>2. CASE 7 \notin S /\ 6 \in S
  BY <1>2 DEF Region
<1>3. CASE {6, 7} \cap S = {} /\ 5 \in S
  BY <1>3 DEF Region
<1>4. CASE {5, 6, 7} \cap S = {} /\ 4 \in S
  BY <1>4 DEF Region
<1>5. CASE {4, 5, 6, 7} \cap S = {} /\ 3 \in S
  BY <1>5 DEF Region
<1>6. CASE {3, 4, 5, 6, 7} \cap S = {}
  <2>1. S \subseteq 0 .. 2
    BY <1>6 DEF Region
  <2>2. CASE 2 \in S
    BY <2>1, <2>2
  <2>3. CASE 2 \notin S /\ 1 \in S
    BY <2>1, <2>3
  <2>4. CASE 2 \notin S /\ 1 \notin S
    <3>1. \A s \in S : s = 0
      BY <2>1, <2>4
    <3>2. PICK s \in S : TRUE
      OBVIOUS
    <3> QED
      BY <3>1, <3>2
  <2> QED
    BY <2>2, <2>3, <2>4
<1> QED
  BY <1>1, <1>2, <1>3, <1>4, <1>5, <1>6

(* The code of .MPU can be fetched at every access: with the unit on, what *)
(* covers it, if anything, is a region of MPU_Config, which is executable, *)
(* and what covers nothing is in the default memory map.                   *)
THEOREM SwitchCodeIsFetchable ==
  CodeSpared => (Spec => []SwitchCodeFetchable)
<1> SUFFICES ASSUME CodeSpared
             PROVE  Spec => []SwitchCodeFetchable
  OBVIOUS
<1>1. IInv => SwitchCodeFetchable
  <2> SUFFICES ASSUME IInv, CtrlEnable(ctrl)
               PROVE  SwitchCodeFetchable
    BY DEF SwitchCodeFetchable, Fetchable
  <2> DEFINE hits == {r \in Region : Covers(rbar[r], rasr[r], MpuCode)}
  <2>1. ctrl = CtrlOn /\ CtrlDefault(ctrl)
    BY DEF IInv, TypeOK, CtrlEnable, CtrlDefault, CtrlOn, CtrlOff
  <2>2. pc # "attributes"
    BY <2>1 DEF IInv, UnitAt, CtrlOn, CtrlOff
  <2>3. ASSUME NEW r \in hits
        PROVE  ~ExecuteNever(rasr[r])
    <3>1. <<rbar[r], rasr[r]>> \in Setting \cup {<<0, 0>>}
      BY <2>2 DEF IInv, Held, View
    <3>2. Covers(rbar[r], rasr[r], MpuCode)
      OBVIOUS
    <3>3. rasr[r] # 0
      BY <3>2 DEF Covers, RegionEnabled
    <3>4. PICK q \in Requests :
            rbar[r] = BaseField(q.start) /\ rasr[r] = Attributes(q)
      BY <3>1, <3>3 DEF Setting
    <3>5. CASE q.fn = "MPU_zero_region"
      BY <3>2, <3>4, <3>5 DEF CodeSpared, Attributes
    <3>6. CASE q.fn # "MPU_zero_region"
      BY <3>4, <3>6, RequestsAssumption, AttributeFacts DEF Attributes
    <3> QED
      BY <3>5, <3>6
  <2>4. CASE hits = {}
    BY <2>1, <2>4 DEF SwitchCodeFetchable, Fetchable
  <2>5. CASE hits # {}
    <3>1. PICK r \in hits : \A s \in hits : s <= r
      BY <2>5, HighestRegion
    <3> QED
      BY <2>3, <3>1 DEF SwitchCodeFetchable, Fetchable
  <2> QED
    BY <2>4, <2>5
<1> QED
  BY <1>1, Invariance, PTL
-----------------------------------------------------------------------------
LEMMA InitRefines == Init => Regions!Init
BY DEF Init, Regions!Init, View, CtrlEnable, CtrlOff

(* An access that leaves the unit as it is and the regions as they are is  *)
(* a stuttering step of MpuRegions.                                        *)
LEMMA Stutter ==
  ASSUME UNCHANGED <<ctrl, rbar, rasr>>, pc # "attributes", pc' # "attributes"
  PROVE  UNCHANGED Regions!vars
BY ViewKept DEF Regions!vars, CtrlEnable

LEMMA NextRefines == IInv /\ [Next]_vars => [Regions!Next]_(Regions!vars)
<1> SUFFICES ASSUME IInv, [Next]_vars
             PROVE  [Regions!Next]_(Regions!vars)
  OBVIOUS
<1>1. ASSUME NEW q \in Requests, Enter(q)
      PROVE  UNCHANGED Regions!vars
  BY <1>1, Stutter DEF Enter
<1>2. CASE ClearFaults
  BY <1>2, Stutter DEF ClearFaults
<1>3. CASE Disable
  <2>1. View' = View
    BY <1>3, ViewKept DEF Disable
  <2>2. ~CtrlEnable(ctrl')
    BY <1>3 DEF Disable, CtrlEnable, CtrlOff
  <2>3. CASE CtrlEnable(ctrl)
    BY <2>1, <2>2, <2>3 DEF Regions!Next, Regions!TurnOff
  <2>4. CASE ~CtrlEnable(ctrl)
    BY <2>1, <2>2, <2>4 DEF Regions!vars, CtrlEnable
  <2> QED
    BY <2>3, <2>4
<1>4. CASE Select
  BY <1>4, Stutter DEF Select
<1>5. CASE WriteBase
  <2> DEFINE s == <<BaseField(req.start), Attributes(req)>>
  <2>1. req \in Requests /\ rnr = req.num /\ rnr \in Region
    BY <1>5 DEF WriteBase, IInv, TypeOK, SelectedAt
  <2>2. rbar' = [rbar EXCEPT ![rnr] = BaseField(req.start)]
    BY <1>5, <2>1, RequestFacts DEF WriteBase
  <2>3. View' = [View EXCEPT ![req.num] = s]
    <3>1. View' = [r \in Region |-> IF r = req.num THEN s ELSE View[r]]
      BY <1>5, <2>1, <2>2 DEF WriteBase, View, IInv, TypeOK
    <3> QED
      BY <3>1, <2>1 DEF View
  <2>4. ~CtrlEnable(ctrl) /\ CtrlEnable(ctrl') = CtrlEnable(ctrl)
    BY <1>5 DEF WriteBase, IInv, UnitAt, CtrlEnable, CtrlOff
  <2>5. s \in Setting
    BY <2>1, RequestFacts
  <2>6. Regions!Replace(req.num, s)
    BY <2>3, <2>4 DEF Regions!Replace
  <2> QED
    BY <2>1, <2>5, <2>6 DEF Regions!Next
<1>6. CASE WriteAttributes
  <2>1. rnr = req.num /\ rnr \in Region /\ rbar[rnr] = BaseField(req.start)
    BY <1>6 DEF WriteAttributes, IInv, TypeOK, SelectedAt
  <2>2. View' = View
    BY <1>6, <2>1 DEF WriteAttributes, View, IInv, TypeOK
  <2> QED
    BY <1>6, <2>2 DEF WriteAttributes, Regions!vars, CtrlEnable
<1>7. CASE Enable
  <2>1. View' = View
    BY <1>7, ViewKept DEF Enable
  <2>2. ~CtrlEnable(ctrl) /\ CtrlEnable(ctrl')
    BY <1>7 DEF Enable, IInv, UnitAt, CtrlEnable, CtrlOff, CtrlOn
  <2> QED
    BY <2>1, <2>2 DEF Regions!Next, Regions!TurnOn
<1>8. CASE SetFaults
  BY <1>8, Stutter DEF SetFaults
<1>9. CASE SelectOne
  BY <1>9, Stutter DEF SelectOne
<1>10. CASE Read
  BY <1>10, Stutter DEF Read
<1>11. CASE UNCHANGED vars
  BY <1>11 DEF vars, Regions!vars, View, CtrlEnable
<1> QED
  BY <1>1, <1>2, <1>3, <1>4, <1>5, <1>6, <1>7, <1>8, <1>9, <1>10, <1>11
     DEF Next

(* The register accesses implement MpuRegions: a region is replaced as a   *)
(* whole, and only while the unit is off.                                  *)
THEOREM Refinement == Spec => RegionsSpec
<1>1. Init => Regions!Init
  BY InitRefines
<1>2. IInv /\ [Next]_vars => [Regions!Next]_(Regions!vars)
  BY NextRefines
<1> QED
  BY <1>1, <1>2, Invariance, PTL DEF Spec, RegionsSpec, Regions!Spec
-----------------------------------------------------------------------------
(* The startup code and the handlers.                                      *)

(* The loops have done the cells in front of their counter.                *)
Filled ==
  /\ at = "copy" => \A c \in 1 .. i : ram[c] = Image[c]
  /\ at = "zero" =>
       /\ \A c \in 1 .. DataSize : ram[c] = Image[c]
       /\ \A c \in DataSize + 1 .. DataSize + i : ram[c] = 0

(* No run has got anything before main, lowest is what its name says, and  *)
(* the handler's frame is on the stack.                                    *)
Counted ==
  /\ at \in {"copy", "zero", "init"} => got = 0
  /\ lowest <= sp
  /\ at \in Handler => sp < Top

(* heap_end while the stack has not run over it.                           *)
Heap ==
  at \notin {"copy", "zero"} /\ lowest > HeapCell =>
    /\ (heapEnd = 0 /\ got = 0) \/ heapEnd = End + got
    /\ got > 0 => End + got <= grantSp

BootInv == BootTypeOK /\ Filled /\ MainSeesImage /\ Counted /\ Heap
-----------------------------------------------------------------------------
LEMMA BootBegins == BootInit => BootInv
<1> SUFFICES ASSUME BootInit PROVE BootInv
  OBVIOUS
<1>1. PICK v \in Junk : ram = [c \in 1 .. Top - 1 |-> v]
  BY DEF BootInit
<1>2. ram \in [1 .. Top - 1 -> Int]
  BY <1>1, StartupAssumption
<1>3. BootTypeOK
  <2>1. i \in 0 .. (IF at = "copy" THEN DataSize ELSE BssSize)
    BY StartupAssumption DEF BootInit
  <2>2. sp \in 1 .. Top /\ lowest \in 1 .. Top /\ grantSp \in 1 .. Top
    BY StartupAssumption DEF BootInit
  <2> QED
    BY <1>2, <2>1, <2>2 DEF BootInit, BootTypeOK
<1>4. Filled /\ MainSeesImage /\ Counted /\ Heap
  BY StartupAssumption DEF BootInit, Filled, MainSeesImage, Counted,
      Heap, Handler
<1> QED
  BY <1>3, <1>4 DEF BootInv

(* A push changes the cell below the stack and nothing else.               *)
LEMMA Pushed ==
  ASSUME BootInv, sp > 1, NEW v \in Junk, PushOver(v)
  PROVE  /\ ram' \in [1 .. Top - 1 -> Int]
         /\ sp' \in 1 .. Top - 1 /\ lowest' \in 1 .. Top
         /\ lowest' <= sp' /\ lowest' <= lowest
         /\ lowest' > HeapCell => heapEnd' = heapEnd
<1> USE StartupAssumption
<1>1. /\ sp \in 2 .. Top /\ lowest \in 1 .. Top /\ lowest <= sp
      /\ ram \in [1 .. Top - 1 -> Int] /\ v \in Int
  BY DEF BootInv, BootTypeOK, Counted
<1>2. ram' = [ram EXCEPT ![sp - 1] = v] /\ sp - 1 \in 1 .. Top - 1
  BY <1>1 DEF PushOver
<1>3. sp' \in 1 .. Top - 1 /\ lowest' \in 1 .. Top /\ lowest' <= sp' /\ lowest'
    <= lowest
  BY <1>1 DEF PushOver
<1>4. ram' \in [1 .. Top - 1 -> Int]
  BY <1>1, <1>2
<1>5. ASSUME lowest' > HeapCell PROVE heapEnd' = heapEnd
  <2>1. HeapCell # sp - 1
    BY <1>1, <1>3, <1>5 DEF PushOver
  <2> QED
    BY <1>1, <1>2, <2>1 DEF heapEnd
<1> QED
  BY <1>3, <1>4, <1>5

-----------------------------------------------------------------------------
(* The loops of Reset_Handler, from any memory.                            *)
LEMMA StartUpKeeps == BootInv /\ (Reset \/ StartUp) => BootInv'
<1> SUFFICES ASSUME BootInv, Reset \/ StartUp PROVE BootInv'
  OBVIOUS
<1> USE StartupAssumption
<1> USE DEF BootInv, BootTypeOK, Filled, MainSeesImage, Counted, Heap,
    heapEnd, Handler
<1>1. CASE Reset
  <2>1. i' = 0 /\ at' = "copy" /\ ram' = ram
    BY <1>1 DEF Reset, Fresh
  <2>2. BootTypeOK'
    <3>1. i' \in 0 .. (IF at' = "copy" THEN DataSize ELSE BssSize)
      BY <2>1
    <3>2. sp' \in 1 .. Top /\ lowest' \in 1 .. Top /\ grantSp' \in 1 .. Top
      BY <1>1 DEF Reset, Fresh
    <3> QED
      BY <1>1, <2>1, <3>1, <3>2 DEF Reset, Fresh
  <2>3. Filled' /\ MainSeesImage' /\ Counted' /\ Heap'
    BY <1>1, <2>1 DEF Reset, Fresh
  <2> QED
    BY <2>2, <2>3
<1>2. CASE CopyData
  <2>1. 1 + i \in 1 .. Top - 1 /\ 1 + i \in 1 .. DataSize /\ 1 + i \in Int
    BY <1>2 DEF CopyData
  <2>2. ram' \in [1 .. Top - 1 -> Int]
    BY <1>2, <2>1 DEF CopyData, Image
  <2>3. \A c \in 1 .. i' : ram'[c] = Image[c]
    BY <1>2, <2>1 DEF CopyData
  <2> QED
    BY <1>2, <2>1, <2>2, <2>3 DEF CopyData, led, run
<1>3. CASE DataCopied
  BY <1>3 DEF DataCopied, led, run
<1>4. CASE ZeroBss
  <2>1. DataSize + 1 + i \in DataSize + 1 .. Top - 1
    BY <1>4 DEF ZeroBss
  <2>2. ram' \in [1 .. Top - 1 -> Int]
    BY <1>4, <2>1 DEF ZeroBss
  <2>3. \A c \in 1 .. DataSize : ram'[c] = Image[c]
    BY <1>4, <2>1 DEF ZeroBss
  <2>4. \A c \in DataSize + 1 .. DataSize + i' : ram'[c] = 0
    BY <1>4, <2>1 DEF ZeroBss
  <2> QED
    BY <1>4, <2>1, <2>2, <2>3, <2>4 DEF ZeroBss, led, run
<1>5. CASE BssZeroed
  <2>1. i = BssSize
    BY <1>5 DEF BssZeroed
  <2> QED
    BY <1>5, <2>1 DEF BssZeroed, led, run, End
<1>6. CASE CallMain
  BY <1>6 DEF CallMain, led, run, End
<1> QED
  BY <1>1, <1>2, <1>3, <1>4, <1>5, <1>6 DEF StartUp

(* Where the heap ends before a call of _sbrk.                             *)
LEMMA HeapBegins ==
  ASSUME BootInv, at = "main", lowest > HeapCell
  PROVE  Begin = End + got /\ Begin \in Int
<1>1. got \in Nat /\ End \in Nat /\ End # 0
  BY StartupAssumption DEF BootInv, BootTypeOK, End
<1>2. (heapEnd = 0 /\ got = 0) \/ heapEnd = End + got
  BY DEF BootInv, Heap
<1>3. CASE heapEnd = 0 /\ got = 0
  BY <1>1, <1>3 DEF Begin
<1>4. CASE heapEnd = End + got
  BY <1>1, <1>4 DEF Begin
<1> QED
  BY <1>2, <1>3, <1>4

(* main, its stack and its heap.                                           *)
LEMMA MainKeeps == BootInv /\ Main => BootInv'
<1> SUFFICES ASSUME BootInv, Main PROVE BootInv'
  OBVIOUS
<1> USE StartupAssumption
<1>1. CASE Store
  BY <1>1 DEF Store, Static, End, led, run, BootInv,
      BootTypeOK, Filled, MainSeesImage, Counted, Heap, heapEnd
<1>2. CASE Push
  <2>1. CASE sp > 1
    <3>1. PICK v \in Junk : PushOver(v)
      BY <1>2, <2>1 DEF Push
    <3>2. /\ ram' \in [1 .. Top - 1 -> Int]
          /\ sp' \in 1 .. Top - 1 /\ lowest' \in 1 .. Top
          /\ lowest' <= sp' /\ lowest' <= lowest
          /\ lowest' > HeapCell => heapEnd' = heapEnd
      BY <2>1, <3>1, Pushed
    <3> QED
      BY <1>2, <2>1, <3>2
      DEF Push, led, BootInv, BootTypeOK, Filled, MainSeesImage,
          Counted, Heap, Handler
  <2>2. CASE ~(sp > 1)
    BY <1>2, <2>2
    DEF Push, led, BootInv, BootTypeOK, Filled, MainSeesImage,
        Counted, Heap, heapEnd
  <2> QED
    BY <2>1, <2>2
<1>3. CASE Pop \/ Configure \/ Violate \/ MainReturns
  <2>1. CASE Pop
    BY <2>1 DEF Pop, led, run, BootInv, BootTypeOK, Filled,
        MainSeesImage, Counted, Heap, heapEnd, Handler
  <2>2. CASE Configure \/ Violate \/ MainReturns
    BY <2>2 DEF Configure, Violate, MainReturns, led,
        run, BootInv, BootTypeOK, Filled, MainSeesImage, Counted, Heap,
        heapEnd, Handler
  <2> QED
    BY <1>3, <2>1, <2>2
<1>4. CASE SbrkGrants
  <2>1. PICK d \in Increments :
          /\ MayRequest(d) /\ Begin + d <= sp
          /\ ram' = [ram EXCEPT ![HeapCell] = Begin + d]
          /\ got' = got + d
    BY <1>4 DEF SbrkGrants
  <2>2. /\ d \in Int /\ got' \in Nat /\ HeapCell \in 1 .. Top - 1
        /\ End \in Nat /\ End > 0 /\ sp \in 1 .. Top
    BY <2>1 DEF MayRequest, BootInv, BootTypeOK, End
  <2>3. Begin = End + got
    BY <2>1, HeapBegins DEF MayRequest
  <2>4. ram' \in [1 .. Top - 1 -> Int] /\ heapEnd' = End + got'
    BY <2>1, <2>2, <2>3 DEF BootInv, BootTypeOK, heapEnd
  <2> QED
    BY <1>4, <2>1, <2>2, <2>3, <2>4 DEF SbrkGrants, MayRequest,
        led, BootInv, BootTypeOK, Filled, MainSeesImage, Counted, Heap
<1>5. CASE SbrkRefuses
  <2>1. HeapCell \in 1 .. Top - 1 /\ lowest > HeapCell /\ at = "main"
    BY <1>5 DEF SbrkRefuses, MayRequest
  <2>2. Begin = End + got /\ Begin \in Int
    BY <2>1, HeapBegins
  <2>3. ram' \in [1 .. Top - 1 -> Int] /\ heapEnd' = End + got
    BY <1>5, <2>1, <2>2 DEF SbrkRefuses, BootInv, BootTypeOK, heapEnd
  <2> QED
    BY <1>5, <2>1, <2>2, <2>3 DEF SbrkRefuses, led, run, BootInv,
        BootTypeOK, Filled, MainSeesImage, Counted, Heap
<1> QED
  BY <1>1, <1>2, <1>3, <1>4, <1>5 DEF Main

(* The handler.                                                            *)
LEMMA FaultKeeps == BootInv /\ Fault => BootInv'
<1> SUFFICES ASSUME BootInv, Fault PROVE BootInv'
  OBVIOUS
<1> USE StartupAssumption
<1>1. CASE TakeFault
  <2>1. CASE sp > 1
    <3>1. PICK v \in Junk : PushOver(v)
      BY <1>1, <2>1 DEF TakeFault
    <3>2. /\ ram' \in [1 .. Top - 1 -> Int]
          /\ sp' \in 1 .. Top - 1 /\ lowest' \in 1 .. Top
          /\ lowest' <= sp' /\ lowest' <= lowest
          /\ lowest' > HeapCell => heapEnd' = heapEnd
      BY <2>1, <3>1, Pushed
    <3> QED
      BY <1>1, <2>1, <3>2
      DEF TakeFault, led, BootInv, BootTypeOK, Filled,
          MainSeesImage, Counted, Heap, Handler
  <2>2. CASE ~(sp > 1)
    BY <1>1, <2>2
    DEF TakeFault, led, BootInv, BootTypeOK, Filled,
        MainSeesImage, Counted, Heap, heapEnd
  <2> QED
    BY <2>1, <2>2
<1>2. CASE SetClock \/ SetMode \/ SetData
  BY <1>2 DEF SetClock, SetMode, SetData, run, Handler,
      BootInv, BootTypeOK, Filled, MainSeesImage, Counted, Heap, heapEnd
<1>3. CASE ExitHandler
  BY <1>3 DEF ExitHandler, run, led, Handler, BootInv,
      BootTypeOK, Filled, MainSeesImage, Counted, Heap, heapEnd
<1> QED
  BY <1>1, <1>2, <1>3 DEF Fault

LEMMA BootInductive == BootSpec => []BootInv
<1>1. BootInit => BootInv
  BY BootBegins
<1>2. BootInv /\ [BootNext]_bootVars => BootInv'
  <2>1. BootInv /\ UNCHANGED bootVars => BootInv'
    BY DEF bootVars, led, run, BootInv, BootTypeOK, Filled,
        MainSeesImage, Counted, Heap, heapEnd, Handler
  <2> QED
    BY <2>1, StartUpKeeps, MainKeeps, FaultKeeps DEF BootNext, Hang
<1> QED
  BY <1>1, <1>2, PTL DEF BootSpec
-----------------------------------------------------------------------------
(* Memory of any size: the variables keep their types.                     *)
THEOREM BootTypeCorrect == BootSpec => []BootTypeOK
<1>1. BootInv => BootTypeOK
  BY DEF BootInv
<1> QED
  BY <1>1, BootInductive, PTL

(* However often a reset cuts a run short, main finds its variables as     *)
(* declared.                                                               *)
THEOREM MainStartsFromImage == BootSpec => []MainSeesImage
<1>1. BootInv => MainSeesImage
  BY DEF BootInv
<1> QED
  BY <1>1, BootInductive, PTL

(* heap_end is the end of what this run was granted, for any requests.     *)
THEOREM HeapIsAccounted == BootSpec => []HeapAccounted
<1>1. BootInv => HeapAccounted
  BY DEF BootInv, Heap, HeapAccounted
<1> QED
  BY <1>1, BootInductive, PTL

(* Only a growing stack brings the heap and the stack together.            *)
THEOREM HeapIsClearWhenGranted == BootSpec => []HeapClearWhenGranted
<1>1. BootInv => HeapClearWhenGranted
  BY DEF BootInv, BootTypeOK, Heap, HeapClearWhenGranted
<1> QED
  BY <1>1, BootInductive, PTL

(* No step but a reset leaves a fault for anything but the endless loop.   *)
THEOREM FaultsAreFinal == BootSpec => FaultIsFinal
<1>1. [BootNext]_bootVars =>
        [InFault => InFault' \/ at' \in {"hang", "copy"}]_bootVars
  <2> SUFFICES ASSUME BootNext, InFault
               PROVE  InFault' \/ at' \in {"hang", "copy"}
    BY DEF bootVars
  <2>1. CASE Reset
    BY <2>1 DEF Reset, Fresh
  <2>2. CASE Fault
    BY <2>2 DEF Fault, TakeFault, SetClock, SetMode,
        SetData, ExitHandler, InFault, Handler
  <2>3. ~StartUp /\ ~Main
    BY DEF StartUp, CopyData, DataCopied, ZeroBss,
        BssZeroed, CallMain, Main, Store, Push, Pop,
        Configure, Violate, SbrkGrants, SbrkRefuses,
        MayRequest, MainReturns, InFault, Handler
  <2> QED
    BY <2>1, <2>2, <2>3 DEF BootNext, Hang, InFault, Handler
<1> QED
  BY <1>1, PTL DEF BootSpec, FaultIsFinal
=============================================================================
