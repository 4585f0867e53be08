------------------------------ MODULE MCApproval ------------------------------
(* Small instances of module Approval for TLC. *)
EXTENDS Approval, TLC

MCSymmetry == Permutations(Responders) \cup Permutations(Ids)

=============================================================================
