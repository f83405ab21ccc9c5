---------------------------- MODULE MCAptWrapper ----------------------------
(* Small instances of AptWrapper for TLC. *)
EXTENDS AptWrapper

\* "bootenv-1", "bootenv-2", "-1": the names apt-wrapper can choose.
MCBE == {<<bootenv, 1>>, <<bootenv, 2>>, <<NoName, 1>>}

\* "bootenv-1" and "bootenv-2": a dist-upgrade may start from a BE other than "@".
MCTwoBEs == {<<bootenv, 1>>, <<bootenv, 2>>}
=============================================================================
