--------------------------- MODULE MCApprovalGate ---------------------------
(***************************************************************************)
(* One tool call on instance i1; its user rejects it and approves it, a    *)
(* stranger approves it, each on any instance.                             *)
(***************************************************************************)
EXTENDS ApprovalGate, TLC

CONSTANTS w1, i1, i2, r1, r2, r3

Home == w1 :> i1
Target == [r \in Resolves |-> w1]
=============================================================================
