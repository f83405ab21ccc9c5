------------------------------ MODULE MCBeadm ------------------------------
(* Small instances of Beadm for TLC. *)
EXTENDS Beadm, TLC

Symmetry == Permutations(BE) \cup Permutations(Proc)
=============================================================================
