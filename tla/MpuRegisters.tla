---------------------------- MODULE MpuRegisters ----------------------------
(***************************************************************************)
(* The words that mpu_configure.c writes to and reads from the memory      *)
(* protection unit of a Cortex-M4, and what the unit makes of them.        *)
(*                                                                         *)
(* A word is a natural number; a bit field is a quotient and a remainder.  *)
(* Only the fields the program writes exist here.                          *)
(***************************************************************************)
EXTENDS Integers

(* The regions MPU->RNR can select. *)
Region == 0 .. 7

(* The fields of the words: MEMFAULTENA is bit 16 of SCB->SHCSR, and       *)
(* MPU->CTRL = (1 << 2) | (1 << 0) sets PRIVDEFENA and ENABLE.             *)
CtrlOff == 0

(* Mistake: the regions enforced without the default memory map, as in the *)
(* line that mpu_configure.c has commented out.                            *)
CtrlEnableOnly == 1

CtrlOn == 5

CtrlEnable(ctrl)  == ctrl % 2 = 1
CtrlDefault(ctrl) == (ctrl \div 4) % 2 = 1

(* word & 0xFFFFFFE0 *)
BaseField(word) == word - (word % 32)

(* size & 0x1F *)
SizeField(size) == size % 32

(* (0b111 << AP_BIT) | ((size & 0x1F) << SIZE_BIT) | (0b1 << ENABLE_BIT),  *)
(* the attributes MPU_Config gives a region: read-only, executable.        *)
ConfigAttributes(size) == 117440512 + SizeField(size) * 2 + 1

(* The attributes MPU_zero_region gives a region: XN, AP = 0b011.          *)
ZeroAttributes(size) == 268435456 + 50331648 + SizeField(size) * 2 + 1

(* Mistake: the field is shifted but not masked.                           *)
SizeUnmasked(rasr) == rasr \div 2

(* ((MPU->RASR) >> 1) & 0x1F, the value Read_Caller_size returns.          *)
SizeOf(rasr) == (rasr \div 2) % 32

(* The unit's own view of a region's attributes.                           *)
RegionEnabled(rasr) == rasr % 2 = 1
ExecuteNever(rasr)  == (rasr \div 268435456) % 2 = 1

(* A write of MPU->RBAR keeps the address field; a read returns it with    *)
(* the selected region's number below it.  A word whose VALID bit is set   *)
(* would name its region itself; no caller passes one.                     *)
ValidBit(word)      == (word \div 16) % 2 = 1
RbarRead(base, rnr) == base + rnr

(* The bytes a region covers are 2^(SIZE+1) from its base.                 *)
Covers(base, rasr, a) ==
  /\ RegionEnabled(rasr)
  /\ base <= a
  /\ a < base + 2 ^ (SizeOf(rasr) + 1)
=============================================================================
