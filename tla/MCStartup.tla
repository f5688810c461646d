----------------------------- MODULE MCStartup -----------------------------
(* Two cells of .data, two of .bss and a gap of three for heap and stack.  *)
EXTENDS Startup
MCIncrements == {-1, 1, 2}
=============================================================================
