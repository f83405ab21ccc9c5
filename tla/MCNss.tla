------------------------------- MODULE MCNss -------------------------------
(* Small instances of Nss for TLC. *)
EXTENDS Nss

\* Lines of 6 characters with a shell of 2, and one line that is longer.
u1 == [name |-> "u1", len |-> 6, shell |-> 2]
u2 == [name |-> "u2", len |-> 6, shell |-> 2]
u3 == [name |-> "u3", len |-> 12, shell |-> 2]
MCUserDBs == {<<u1, u3, u2>>, <<u2>>}

\* Groups without members, with two, and one that lacks its gid.
g1 == [name |-> "g1", len |-> 2, mem |-> <<>>, gid |-> TRUE]
g2 == [name |-> "g2", len |-> 2, mem |-> <<2, 3>>, gid |-> TRUE]
g3 == [name |-> "g3", len |-> 2, mem |-> <<>>, gid |-> FALSE]
g4 == [name |-> "g4", len |-> 3, mem |-> <<4>>, gid |-> TRUE]
MCGroupDBs == {<<g1, g3, g2>>, <<g4>>}
=============================================================================
