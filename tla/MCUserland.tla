----------------------------- MODULE MCUserland -----------------------------
(* Small instances of Userland for TLC. *)
EXTENDS Userland, TLC

CONSTANTS v1, v2, so, h

\* The second version no longer installs the header.
MCInstalls == v1 :> {so, h} @@ v2 :> {so}

Lib(list)     == [name |-> "lib", list |-> list, base |-> TRUE, ok |-> TRUE]
Dev(list, ok) == [name |-> "lib-dev", list |-> list, base |-> FALSE, ok |-> ok]

\* A library with its -dev package, as liblzo, one package without a list, as
\* tmux, and three that build-deb does not expect.
MCLayouts == {<<Lib({so}), Dev({h}, TRUE)>>, <<Lib(NoList)>>,
              <<Lib({so}), Dev({h}, FALSE)>>, <<Lib({so}), Dev(NoList, TRUE)>>,
              <<Lib(NoList), Dev(NoList, TRUE)>>}

MCBudget == [outage |-> 1, stop |-> 1, ignored |-> 1, edit |-> 1]
=============================================================================
