-------------------------- MODULE MCSandboxManager --------------------------
(***************************************************************************)
(* SandboxManager for TLC.  No action and no property names a key or a     *)
(* call, and only safety is checked, so both may be permuted.              *)
(***************************************************************************)
EXTENDS SandboxManager, TLC

Symmetry == Permutations(Keys) \cup Permutations(Calls)
=============================================================================
