----------------------------- MODULE Enumeration -----------------------------
(***************************************************************************)
(* What a name service promises to a caller that enumerates a database with *)
(* a set, get, ..., get, end sequence of calls: the entries the database    *)
(* had when the enumeration was opened, each one once and in their order,   *)
(* however the database changes in the meantime.  Only its own set opens    *)
(* it, only its own get moves it and only its own end closes it, unless a   *)
(* call of another database is known to wipe it out.                        *)
(***************************************************************************)
EXTENDS Naturals, Sequences

VARIABLES
    source,      \* the database
    rest,        \* entries this enumeration has still to deliver
    got,         \* entries it has delivered
    lossy,       \* may the entry that comes next be lost ?
    call         \* the last call: its own "set", "get" or "end", a "wipe" by
                 \* another database's call, or a call that is to change nothing

EnumInit == rest = <<>> /\ got = <<>>

Open ==
    /\ call' = "set"
    /\ \E n \in 0..Len(source) : rest' = SubSeq(source, 1, n)
    /\ got' = <<>>

Deliver ==
    /\ call' = "get"
    /\ rest # <<>>
    /\ got'  = Append(got, Head(rest))
    /\ rest' = Tail(rest)

Skip ==
    /\ call' = "get"
    /\ rest # <<>> /\ lossy
    /\ rest' = Tail(rest)
    /\ UNCHANGED got

Close ==
    /\ call' \in {"end", "wipe"}
    /\ rest' = <<>>
    /\ UNCHANGED got

EnumNext == Open \/ Deliver \/ Skip \/ Close

\* Changes of the database itself are no steps of an enumeration.
EnumSpec == EnumInit /\ [][EnumNext]_<<rest, got>>
=============================================================================
