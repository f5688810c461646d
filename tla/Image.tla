------------------------------- MODULE Image --------------------------------
(***************************************************************************)
(* The module that the passes make of one they can handle, as a function   *)
(* of it: what Instrument computes step by step and InstrumentedRun runs.  *)
(***************************************************************************)
EXTENDS Ir

(* Around every call of g in f: open g, call it, open f again.             *)
AroundCalls(f, b) ==
  FlattenSeq([i \in DOMAIN b |->
                IF IsOwnCall(b[i])
                  THEN <<MpuConfig(b[i].callee, 2), b[i], MpuConfig(f, 1)>>
                  ELSE <<b[i]>>])

(* Mistake: a function opens itself before it reads who called it.         *)
EntryCodeReadsLast(f) ==
  <<MpuConfig(f, 1)>> \o (IF f = "main" THEN <<>> ELSE <<ReadAddr, ReadSize>>)

(* At the start of f and before the end of its last block.                 *)
EntryCode(f) ==
  (IF f = "main" THEN <<>> ELSE <<ReadAddr, ReadSize>>) \o <<MpuConfig(f, 1)>>

(* Mistake: the caller is opened in region 1.                              *)
ExitCodeInOne(f) == IF f = "main" THEN <<>> ELSE <<MpuConfig("saved", 1)>>

ExitCode(f) == IF f = "main" THEN <<>> ELSE <<MpuConfig("saved", 2)>>

WithEntry(f, b) ==
  LET i == FirstNonPhi(b)
  IN  SubSeq(b, 1, i - 1) \o EntryCode(f) \o SubSeq(b, i, Len(b))

(* Mistake: the call replaces the terminator.                              *)
WithExitForReturn(f, b) == Front(b) \o ExitCode(f)

WithExit(f, b) == Front(b) \o ExitCode(f) \o <<Last(b)>>

ImageBlock(f, blocks, k) ==
  LET b == AroundCalls(f, blocks[k])
      c == IF k = 1 THEN WithEntry(f, b) ELSE b
  IN  IF k = Len(blocks) THEN WithExit(f, c) ELSE c

Image(module) ==
  [f \in DOMAIN module |->
     IF f \in Helper
       THEN module[f]
       ELSE [k \in DOMAIN module[f] |-> ImageBlock(f, module[f], k)]]
=============================================================================
