----------------------------- MODULE MCBalance -----------------------------
(* Small instances of Balance for TLC: the cutoffs of the script, a disk that *)
(* is either short of space or not, and sizes that change or stay.           *)
EXTENDS Balance
=============================================================================
