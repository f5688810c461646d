-------------------------- MODULE MCBuildPipeline --------------------------
(* The build by one make after the other, with serial and parallel ones.   *)
EXTENDS BuildPipeline
=============================================================================
