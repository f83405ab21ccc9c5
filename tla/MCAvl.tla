------------------------------- MODULE MCAvl -------------------------------
(* Small instances of Avl for TLC: nodes are named by the key they start with. *)
EXTENDS Avl

CONSTANTS
    Deep,        \* nodes of the larger trees, whose keys stay as they are
    Shallow      \* nodes of the smaller ones, whose keys may change

MCNode == 1..Deep
MCStartKey == [n \in MCNode |-> n]
MCScopes == {[nodes |-> 1..Deep, moved |-> 0, destroy |-> FALSE],
             [nodes |-> 1..Shallow, moved |-> 1, destroy |-> TRUE]}
=============================================================================
