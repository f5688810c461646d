---------------------------- MODULE MpuConfigure ----------------------------
(***************************************************************************)
(* mpu_configure.c, one register access per step.                          *)
(*                                                                         *)
(* The registers are volatile (mpu_configure.h), so the compiler keeps the *)
(* accesses and their order.  Between two calls the caller runs; a call is *)
(* any of Requests, so nothing here depends on who calls and when.         *)
(***************************************************************************)
EXTENDS MpuRegisters

CONSTANTS
  Requests,  \* the calls: [fn, start, size, num]
  MpuCode    \* an address of the section .MPU, where these functions lie

Writers == {"MPU_Config", "MPU_zero_region"}
Readers == {"Read_Caller_addr", "Read_Caller_size"}

ASSUME RequestsAssumption ==
  \A q \in Requests :
    /\ q.fn \in Writers \cup Readers
    /\ q.start \in Nat /\ ~ValidBit(q.start)
    /\ q.size \in Nat
    /\ q.num \in Region

VARIABLES
  pc,       \* the access that comes next, "caller" between two calls
  req,      \* the arguments of the call in progress, or of the last one
  shcsr,    \* MEMFAULTENA, bit 16 of SCB->SHCSR
  ctrl,     \* MPU->CTRL
  rnr,      \* MPU->RNR
  rbar,     \* the address field of every region's MPU->RBAR
  rasr,     \* every region's MPU->RASR
  result    \* the value the last reader returned

vars == <<pc, req, shcsr, ctrl, rnr, rbar, rasr, result>>

(* The word MPU->RBAR gets: only MPU_zero_region masks its argument.       *)
BaseWord(q) ==
  IF q.fn = "MPU_zero_region" THEN BaseField(q.start) ELSE q.start

Attributes(q) ==
  IF q.fn = "MPU_zero_region" THEN ZeroAttributes(q.size)
                              ELSE ConfigAttributes(q.size)

(* The regions are off after a reset.                                      *)
Init ==
  /\ pc = "caller"
  /\ req \in Requests
  /\ shcsr = FALSE
  /\ ctrl = CtrlOff
  /\ rnr = 0
  /\ rbar = [r \in Region |-> 0]
  /\ rasr = [r \in Region |-> 0]
  /\ result = 0

Enter(q) ==
  /\ pc = "caller"
  /\ req' = q
  /\ pc' = IF q.fn \in Writers THEN "clearFaults" ELSE "selectOne"
  /\ UNCHANGED <<shcsr, ctrl, rnr, rbar, rasr, result>>

(* Mistake: the write is left out, as it is in a comment of                *)
(* MPU_zero_region.                                                        *)
KeepFaults ==
  /\ pc = "clearFaults"
  /\ pc' = "disable"
  /\ UNCHANGED <<req, shcsr, ctrl, rnr, rbar, rasr, result>>

ClearFaults ==                     \* SCB->SHCSR &= ~(1 << 16)
  /\ pc = "clearFaults"
  /\ shcsr' = FALSE
  /\ pc' = "disable"
  /\ UNCHANGED <<req, ctrl, rnr, rbar, rasr, result>>

(* Mistake: the regions are changed while the unit is on.                  *)
StayEnabled ==
  /\ pc = "disable"
  /\ pc' = "select"
  /\ UNCHANGED <<req, shcsr, ctrl, rnr, rbar, rasr, result>>

Disable ==                         \* MPU->CTRL = 0U
  /\ pc = "disable"
  /\ ctrl' = CtrlOff
  /\ pc' = "select"
  /\ UNCHANGED <<req, shcsr, rnr, rbar, rasr, result>>

(* Mistake: the last two arguments are swapped.                            *)
SelectSize ==
  /\ pc = "select"
  /\ rnr' = req.size
  /\ pc' = "base"
  /\ UNCHANGED <<req, shcsr, ctrl, rbar, rasr, result>>

Select ==                          \* MPU->RNR = num
  /\ pc = "select"
  /\ rnr' = req.num
  /\ pc' = "base"
  /\ UNCHANGED <<req, shcsr, ctrl, rbar, rasr, result>>

WriteBase ==                       \* MPU->RBAR = ...
  /\ pc = "base"
  /\ rbar' = [rbar EXCEPT ![rnr] = BaseField(BaseWord(req))]
  /\ pc' = "attributes"
  /\ UNCHANGED <<req, shcsr, ctrl, rnr, rasr, result>>

WriteAttributes ==                 \* MPU->RASR = ...
  /\ pc = "attributes"
  /\ rasr' = [rasr EXCEPT ![rnr] = Attributes(req)]
  /\ pc' = "enable"
  /\ UNCHANGED <<req, shcsr, ctrl, rnr, rbar, result>>

Enable ==                          \* MPU->CTRL = (1 << 2) | (1 << 0)
  /\ pc = "enable"
  /\ ctrl' = CtrlOn
  /\ pc' = "setFaults"
  /\ UNCHANGED <<req, shcsr, rnr, rbar, rasr, result>>

(* Mistake: the function returns with the faults still masked.             *)
ReturnMasked ==
  /\ pc = "setFaults"
  /\ pc' = "caller"
  /\ UNCHANGED <<req, shcsr, ctrl, rnr, rbar, rasr, result>>

SetFaults ==                       \* SCB->SHCSR |= (1 << 16)
  /\ pc = "setFaults"
  /\ shcsr' = TRUE
  /\ pc' = "caller"
  /\ UNCHANGED <<req, ctrl, rnr, rbar, rasr, result>>

SelectOne ==                       \* MPU->RNR = 1
  /\ pc = "selectOne"
  /\ rnr' = 1
  /\ pc' = "read"
  /\ UNCHANGED <<req, shcsr, ctrl, rbar, rasr, result>>

Read ==                            \* addr = ... or size = ..., and return
  /\ pc = "read"
  /\ result' = IF req.fn = "Read_Caller_addr"
                 THEN BaseField(RbarRead(rbar[rnr], rnr))
                 ELSE SizeOf(rasr[rnr])
  /\ pc' = "caller"
  /\ UNCHANGED <<req, shcsr, ctrl, rnr, rbar, rasr>>

Next ==
  \/ \E q \in Requests : Enter(q)
  \/ ClearFaults
  \/ Disable
  \/ Select
  \/ WriteBase
  \/ WriteAttributes
  \/ Enable
  \/ SetFaults
  \/ SelectOne
  \/ Read

Spec == Init /\ [][Next]_vars
-----------------------------------------------------------------------------
TypeOK ==
  /\ pc \in {"caller", "clearFaults", "disable", "select", "base",
             "attributes", "enable", "setFaults", "selectOne", "read"}
  /\ req \in Requests
  /\ shcsr \in BOOLEAN
  /\ ctrl \in {CtrlOff, CtrlOn}
  /\ rnr \in Region
  /\ rbar \in [Region -> Nat]
  /\ rasr \in [Region -> Nat]
  /\ result \in Nat

(* May the processor fetch an instruction at a?  The region with the       *)
(* highest number that covers a decides; where none does, privileged code  *)
(* falls back on the default memory map if PRIVDEFENA is set.              *)
Fetchable(a) ==
  LET hits == {r \in Region : Covers(rbar[r], rasr[r], a)}
  IN  \/ ~CtrlEnable(ctrl)
      \/ hits = {} /\ CtrlDefault(ctrl)
      \/ \E r \in hits : (\A s \in hits : s <= r) /\ ~ExecuteNever(rasr[r])

(* The switching code can always fetch itself: it lies in .MPU, which no   *)
(* function's region covers, and it keeps running with the unit enabled,   *)
(* both before the write that disables it and after the one that enables   *)
(* it again.                                                               *)
SwitchCodeFetchable == Fetchable(MpuCode)

(* A memory fault is only reported as one while the regions are enforced:  *)
(* MEMFAULTENA is cleared before the unit is turned off and set after it   *)
(* is turned on, whatever was requested before.                            *)
FaultsFollowEnable == shcsr => CtrlEnable(ctrl)

(* From the first configuration on, the caller never runs with the unit    *)
(* off or its faults masked: every way out of a call restores both.        *)
CallerProtected ==
  (pc = "caller" /\ \E r \in Region : RegionEnabled(rasr[r]))
     => CtrlEnable(ctrl) /\ shcsr

(* The abstract view: a region whose base is written and whose attributes  *)
(* are still to come already counts as the setting that was requested.     *)
Setting ==
  {<<BaseField(q.start), Attributes(q)>> : q \in Requests}

View ==
  [r \in Region |->
     IF pc = "attributes" /\ r = req.num
       THEN <<BaseField(req.start), Attributes(req)>>
       ELSE <<rbar[r], rasr[r]>>]

Regions == INSTANCE MpuRegions
             WITH Reset <- <<0, 0>>, on <- CtrlEnable(ctrl), view <- View

(* The register accesses implement MpuRegions: no region is replaced while *)
(* the unit is on, and none ever holds the base of one request with the    *)
(* attributes of another.                                                  *)
RegionsSpec == Regions!Spec
=============================================================================
