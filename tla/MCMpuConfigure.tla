--------------------------- MODULE MCMpuConfigure ---------------------------
(***************************************************************************)
(* Two functions' regions at the addresses Link_addr.txt gives Sum and     *)
(* main, the placeholder Insert_Function leaves before a call, a data      *)
(* region taken away by MPU_zero_region, and the two readers.              *)
(***************************************************************************)
EXTENDS MpuConfigure

MCRequests ==
  [fn : {"MPU_Config"}, start : {134234112}, size : {8}, num : {1, 2}]
    \cup [fn : {"MPU_Config"}, start : {134234624}, size : {7}, num : {1, 2}]
    \cup {[fn |-> "MPU_Config", start |-> 134234114, size |-> 0, num |-> 2],
          [fn |-> "MPU_zero_region", start |-> 536870912, size |-> 13, num |-> 0],
          [fn |-> "Read_Caller_addr", start |-> 0, size |-> 0, num |-> 1],
          [fn |-> "Read_Caller_size", start |-> 0, size |-> 0, num |-> 1]}

(* 0x08001000, in the output section .text.                                *)
MCMpuCode == 134221824
=============================================================================
