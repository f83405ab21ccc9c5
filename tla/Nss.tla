-------------------------------- MODULE Nss --------------------------------
(***************************************************************************)
(* nss_nvos, the name-service backend that adds the users and groups of     *)
(* nvOS to a host's passwd, shadow and group databases, for Linux and for   *)
(* Solaris.                                                                 *)
(*                                                                         *)
(* set*ent takes a snapshot from nvOS, get*ent delivers one entry of it     *)
(* into the caller's buffer, end*ent drops it.  On Linux one static         *)
(* g_backend serves every database, and some calls clear all of it; on      *)
(* Solaris each database has a backend of its own.  A NULL info, a NULL     *)
(* list and an empty one are the same here: <<>>, and 0 is a NULL group.    *)
(***************************************************************************)
EXTENDS Integers, SequencesExt, FiniteSetsExt

CONSTANTS
    UserDBs,     \* nvOS user lists: sequences of [name, len, shell]
    GroupDBs,    \* nvOS group lists: sequences of [name, len, mem, gid]
    BufLens,     \* buffers a caller starts with
    MaxBuf,      \* and the one it never outgrows
    PtrSize,     \* sizeof (char *)
    MaxOpens     \* set*ent calls

ASSUME NssAssumption ==
    /\ PtrSize \in Nat /\ MaxBuf \in Nat /\ MaxOpens \in Nat
    /\ BufLens \subseteq 1..MaxBuf
    /\ UserDBs \subseteq Seq([name : STRING, len : Nat, shell : Nat])
    /\ GroupDBs \subseteq
           Seq([name : STRING, len : Nat, mem : Seq(Nat), gid : BOOLEAN])
    /\ <<>> \notin UserDBs               \* nvOS has its built-in users

VARIABLES
    platform,    \* "linux" or "sunos"
    users, groups,  \* what nvOS holds
    be,          \* the backends: [info, index, list, group]
    buf,         \* size of the buffer the caller of each database offers
    got,         \* names each enumeration has delivered since its set*ent
    last,        \* the last call, "set", "get" or "end", and its database
    opens

nssVars == <<platform, users, groups, be, buf, got, last, opens>>

UserDB == IF platform = "linux" THEN {"passwd"} ELSE {"passwd", "shadow"}
DB     == {"passwd", "shadow", "group"}

Zero == [info |-> <<>>, index |-> 0, list |-> <<>>, group |-> 0]

\* g_backend on Linux, nvos_backend_t of the database on Solaris.
Backend(d) == IF platform = "linux" THEN "passwd" ELSE d

\* nvos_nss_userop(NVOS_USER_GETINFO): a copy of the whole list, or NULL when
\* nvOS cannot be reached, answers with an error, or memory runs out.
nvos_nss_userop == {users, <<>>}

\* The groups of a list that have a gid, in their order.  The n-th of them is
\* the one with n of them up to it.
with_gid(s) ==
    LET K == {i \in DOMAIN s : s[i].gid} IN
    [n \in 1..Cardinality(K) |->
        s[CHOOSE i \in K : Cardinality({j \in K : j <= i}) = n]]

\* nvos_nss_get_groups: one callback per group, which drops a group without a
\* gid; whatever came before an error is kept, and the error is not reported.
nvos_nss_get_groups == Prefixes(with_gid(groups))

\* buf_alloc: bytes in use after taking size more of the buffer, -1 for none.
buf_alloc(used, size, buflen) ==
    IF used < 0 \/ buflen - used < size THEN -1 ELSE used + size

\* copy_group: the name, the vector of members and its NULL, each member.
copy_group(g, buflen) ==
    FoldLeft(LAMBDA used, size : buf_alloc(used, size, buflen), 0,
             <<g.len + 1, PtrSize * (Len(g.mem) + 1)>>
               \o [i \in DOMAIN g.mem |-> g.mem[i] + 1])

\* Does a line that is cut to the buffer parse?  On Linux the shell, its last
\* field, may be cut as well, and may be lost if nothing is left of it.
user_to_passwd_ent(u, buflen) ==
    LET spare == buflen - 1 - (u.len - IF platform = "linux" THEN u.shell ELSE 0)
    IN  {fits \in BOOLEAN : \/ fits /\ spare >= 0
                            \/ ~fits /\ spare < 0
                            \/ ~fits /\ spare = 0 /\ platform = "linux"}

----------------------------------------------------------------------------
Set(d, new) ==
    /\ opens < MaxOpens /\ opens' = opens + 1
    /\ be' = [be EXCEPT ![Backend(d)] = new]
    /\ buf' \in {[buf EXCEPT ![d] = n] : n \in BufLens}
    /\ got' = [got EXCEPT ![d] = <<>>]
    /\ last' = <<"set", d>>
    /\ UNCHANGED <<platform, users, groups>>

\* Mutant: the position of an earlier enumeration is kept.
setpwent_keeps_index(d) ==
    /\ d \in UserDB
    /\ \E info \in nvos_nss_userop :
           Set(d, [be[Backend(d)] EXCEPT !.info = info])

\* setpwent clears all of g_backend first; Solaris' setent only its own part.
setpwent(d) ==
    /\ d \in UserDB
    /\ \E info \in nvos_nss_userop :
           Set(d, IF platform = "linux" THEN [Zero EXCEPT !.info = info]
                  ELSE [be[d] EXCEPT !.info = info, !.index = 0])

\* Mutant: endpwent clears all of g_backend, as its neighbours do.
endpwent_clears_all(d) ==
    /\ d \in UserDB
    /\ be' = [be EXCEPT ![Backend(d)] = Zero]
    /\ last' = <<"end", d>>
    /\ UNCHANGED <<platform, users, groups, buf, got, opens>>

\* On Linux endpwent drops the list and keeps the position.
endpwent(d) ==
    /\ d \in UserDB
    /\ be' = [be EXCEPT ![Backend(d)].info = <<>>,
                        ![Backend(d)].index = IF platform = "linux" THEN @ ELSE 0]
    /\ last' = <<"end", d>>
    /\ UNCHANGED <<platform, users, groups, buf, got, opens>>

\* getpwent_r moves on before it knows whether the entry fits.
getpwent_r(d) ==
    /\ d \in UserDB
    /\ LET b == be[Backend(d)] IN
           /\ b.index < Len(b.info)
           /\ be' = [be EXCEPT ![Backend(d)].index = @ + 1]
           /\ \E fits \in user_to_passwd_ent(b.info[b.index + 1], buf[d]) :
                 got' = IF fits
                        THEN [got EXCEPT ![d] = Append(@, b.info[b.index + 1].name)]
                        ELSE got
    /\ last' = <<"get", d>>
    /\ UNCHANGED <<platform, users, groups, buf, opens>>

\* An older list is not freed.
setgrent ==
    \E list \in nvos_nss_get_groups :
        Set("group", [be[Backend("group")] EXCEPT
                         !.list = list, !.group = IF list = <<>> THEN 0 ELSE 1])

\* Mutant: endgrent frees the list and leaves the iteration where it was.
endgrent_keeps_group ==
    /\ be' = [be EXCEPT ![Backend("group")].list = <<>>]
    /\ last' = <<"end", "group">>
    /\ UNCHANGED <<platform, users, groups, buf, got, opens>>

\* On Linux endgrent clears the users' part of g_backend too.
endgrent ==
    /\ be' = [be EXCEPT ![Backend("group")] =
                 IF platform = "linux" THEN Zero
                 ELSE [@ EXCEPT !.list = <<>>, !.group = 0]]
    /\ last' = <<"end", "group">>
    /\ UNCHANGED <<platform, users, groups, buf, got, opens>>

nv_slist_iter_next(b) == IF b.group < Len(b.list) THEN b.group + 1 ELSE 0

\* Mutant: the entry stays the current one after it was delivered.
getgrent_stuck ==
    LET b == be[Backend("group")] IN
    /\ b.group # 0 /\ copy_group(b.list[b.group], buf["group"]) >= 0
    /\ got' = [got EXCEPT !["group"] = <<b.list[b.group].name>>]
    /\ last' = <<"get", "group">>
    /\ UNCHANGED <<platform, users, groups, be, buf, opens>>

\* An entry that fits is delivered.
getgrent_r ==
    LET b == be[Backend("group")] IN
    /\ b.group # 0 /\ copy_group(b.list[b.group], buf["group"]) >= 0
    /\ be'  = [be EXCEPT ![Backend("group")].group = nv_slist_iter_next(b)]
    /\ got' = [got EXCEPT !["group"] = Append(@, b.list[b.group].name)]
    /\ last' = <<"get", "group">>
    /\ UNCHANGED <<platform, users, groups, buf, opens>>

\* ERANGE: Linux keeps the entry for a call with a larger buffer, and the C
\* library doubles it; Solaris has moved on already, and the entry is lost.
getgrent_erange ==
    LET b == be[Backend("group")] IN
    /\ b.group # 0 /\ copy_group(b.list[b.group], buf["group"]) < 0
    /\ be' = IF platform = "linux" THEN be
             ELSE [be EXCEPT !["group"].group = nv_slist_iter_next(b)]
    /\ buf' = [buf EXCEPT !["group"] =
                  IF platform = "linux" THEN Min({2 * @, MaxBuf}) ELSE @]
    /\ last' = <<"get", "group">>
    /\ UNCHANGED <<platform, users, groups, got, opens>>

\* An administrator changes the users or groups of nvOS.
Change ==
    /\ \/ users' \in UserDBs /\ UNCHANGED groups
       \/ groups' \in GroupDBs /\ UNCHANGED users
    /\ UNCHANGED <<platform, be, buf, got, last, opens>>

----------------------------------------------------------------------------
NssInit ==
    /\ platform \in {"linux", "sunos"}
    /\ users \in UserDBs /\ groups \in GroupDBs
    /\ be  = [d \in DB |-> Zero]
    /\ buf = [d \in DB |-> MaxBuf]
    /\ got = [d \in DB |-> <<>>]
    /\ last = <<"none", "group">>
    /\ opens = 0

GetGroup == getgrent_r \/ getgrent_erange

NssNext ==
    \/ \E d \in DB : setpwent(d) \/ endpwent(d) \/ getpwent_r(d)
    \/ setgrent \/ endgrent \/ GetGroup
    \/ Change

\* A caller goes on calling getgrent until it has had every group.
NssSpec == NssInit /\ [][NssNext]_nssVars /\ WF_nssVars(GetGroup)

----------------------------------------------------------------------------
(* Properties.                                                             *)

Names(s) == [i \in DOMAIN s |-> s[i].name]

usersLeft(d) ==
    LET b == be[Backend(d)] IN
    IF d \in UserDB THEN SubSeq(b.info, b.index + 1, Len(b.info)) ELSE <<>>

groupsLeft ==
    LET b == be[Backend("group")] IN
    IF b.group = 0 THEN <<>> ELSE SubSeq(b.list, b.group, Len(b.list))

tooLong(d) == FALSE \in user_to_passwd_ent(Head(usersLeft(d)), buf[d])

\* The calls that on Linux wipe out the state of another database too: endgrent
\* that of passwd (438), setpwent that of group (229).
wipes == {<<<<"end", "group">>, "passwd">>, <<<<"set", "passwd">>, "group">>}

\* What the last call is to the enumeration of database d.
callTo(d) ==
    IF last[2] = d THEN last[1]
    ELSE IF platform = "linux" /\ <<last, d>> \in wipes THEN "wipe" ELSE "other"

Passwd == INSTANCE Enumeration WITH
    source <- Names(users), rest <- Names(usersLeft("passwd")),
    got <- got["passwd"], lossy <- tooLong("passwd"), call <- callTo("passwd")

Shadow == INSTANCE Enumeration WITH
    source <- Names(users), rest <- Names(usersLeft("shadow")),
    got <- got["shadow"], lossy <- tooLong("shadow"), call <- callTo("shadow")

Groups == INSTANCE Enumeration WITH
    source <- Names(with_gid(groups)),
    rest   <- Names(groupsLeft), got <- got["group"],
    lossy  <- platform = "sunos" /\ copy_group(Head(groupsLeft), buf["group"]) < 0,
    call   <- callTo("group")

\* However set, get and end calls of the databases mix, each pass over the
\* users delivers the list taken by its setpwent, in order and nothing twice.
\* Before its own endpwent it loses an entry that the caller's buffer cannot
\* hold and, on Linux, everything that is left at an endgrent, which clears the
\* shared g_backend (nss_linux_nvos.c 438); no other call disturbs it
\* (nss_linux_nvos.c 168-186, 221-254; nss_solaris_nvos.c 59-109).
UsersEnumerate == Passwd!EnumSpec /\ Shadow!EnumSpec

\* The same for groups, which on Linux lose everything that is left at a
\* setpwent (229) and nothing to a short buffer: the call is repeated with a
\* larger one (nss_linux_nvos.c 423-461).
GroupsEnumerate == Groups!EnumSpec

\* The group that the next getgrent reads belongs to a list that has not been
\* freed or cleared, whichever database was ended in between (433-440, and
\* 229, where setpwent clears the groups' part as well).
CursorInside == \A d \in DB : be[d].group \in 0..Len(be[d].list)

\* A caller that repeats getgrent comes to an end, also when entries need a
\* larger buffer and nvOS changes its groups all the time (442-461).
GroupLoopEnds == be[Backend("group")].group # 0 ~> be[Backend("group")].group = 0
=============================================================================
