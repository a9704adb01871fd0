------------------------ MODULE MCOperationPipeline ------------------------
(***************************************************************************)
(* Instances of OperationPipeline.  k1 is a source-sensitive operation     *)
(* that advances the project (commitWorkingCopy); k2 advances the project  *)
(* and retries on BUSY (saveSpec); k3 does neither and, like createProject, *)
(* has no project to audit.                                                *)
(***************************************************************************)
EXTENDS OperationPipeline, TLC

CONSTANTS c1, c2, c3, k1, k2, k3, b1, b2, s1

CallSymmetry == Permutations(Calls)
=============================================================================
