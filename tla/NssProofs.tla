----------------------------- MODULE NssProofs -----------------------------
(***************************************************************************)
(* Theorems about Nss: the iteration of the groups never leaves the list    *)
(* it walks over, and each database implements Enumeration, for every list  *)
(* of users and groups, every buffer and every number of calls.             *)
(***************************************************************************)
EXTENDS Nss, SequenceTheorems, FiniteSetTheorems, TLAPS

\* The lists a snapshot of nvOS' groups can be.
Lists == {<<>>} \cup UNION {Prefixes(with_gid(s)) : s \in GroupDBs}

(* The inductive invariant, one conjunct per part of it.                   *)
BackendTypes ==
    /\ platform \in {"linux", "sunos"}
    /\ users \in UserDBs /\ groups \in GroupDBs
    /\ DOMAIN be = DB /\ DOMAIN got = DB
    /\ \A d \in DB :
           be[d] \in [info : UserDBs \cup {<<>>}, index : Nat,
                      list : Lists, group : Nat]

NssInv == BackendTypes /\ CursorInside

----------------------------------------------------------------------------
(* Sequences and their names.                                              *)

\* with_gid yields a sequence.
LEMMA WithGidIsSeq ==
    ASSUME NEW s \in GroupDBs
    PROVE  \E S : with_gid(s) \in Seq(S)
<1> DEFINE K == {i \in DOMAIN s : s[i].gid}
           at(n) == s[CHOOSE i \in K : Cardinality({j \in K : j <= i}) = n]
           S == {at(n) : n \in 1..Cardinality(K)}
<1>1. Cardinality(K) \in Nat
  <2>1. DOMAIN s = 1..Len(s) /\ Len(s) \in Nat
    BY NssAssumption, LenProperties
  <2>2. IsFiniteSet(1..Len(s))
    BY <2>1, FS_Interval
  <2>3. K \subseteq 1..Len(s)
    BY <2>1
  <2> QED BY <2>2, <2>3, FS_Subset, FS_CardinalityType
<1>2. with_gid(s) = [n \in 1..Cardinality(K) |-> at(n)]
  BY DEF with_gid
<1> HIDE DEF K, at
<1>3. [n \in 1..Cardinality(K) |-> at(n)] \in [1..Cardinality(K) -> S]
  OBVIOUS
<1>4. [1..Cardinality(K) -> S] \subseteq Seq(S)
  BY <1>1, SeqDef
<1> QED BY <1>2, <1>3, <1>4

\* What a snapshot of the groups is: a prefix of those with a gid.
LEMMA ListIsSeq ==
    ASSUME NEW l \in Lists
    PROVE  \E S : l \in Seq(S)
<1>1. CASE l = <<>>
  BY <1>1
<1>2. ASSUME NEW s \in GroupDBs, l \in Prefixes(with_gid(s))
      PROVE  \E S : l \in Seq(S)
  <2>1. PICK S : with_gid(s) \in Seq(S)
    BY WithGidIsSeq
  <2>2. PICK n \in 0..Len(with_gid(s)) : l = SubSeq(with_gid(s), 1, n)
    BY <1>2 DEF Prefixes
  <2>3. l \in Seq(S)
    BY <2>1, <2>2
  <2> QED BY <2>3
<1>3. l = <<>> \/ \E s \in GroupDBs : l \in Prefixes(with_gid(s))
  BY Zenon DEF Lists
<1> QED BY <1>1, <1>2, <1>3

\* Names works entry by entry.
LEMMA NamesOfSeq ==
    ASSUME NEW S, NEW s \in Seq(S)
    PROVE  /\ Names(s) \in Seq({e.name : e \in S})
           /\ Len(Names(s)) = Len(s)
           /\ \A i \in 1..Len(s) : Names(s)[i] = s[i].name
<1> DEFINE N == {e.name : e \in S}
<1>1. Len(s) \in Nat /\ DOMAIN s = 1..Len(s) /\ \A i \in 1..Len(s) : s[i] \in S
  BY LenProperties, ElementOfSeq
<1>2. Names(s) = [i \in 1..Len(s) |-> s[i].name]
  BY <1>1 DEF Names
<1>3. \A i \in 1..Len(s) : s[i].name \in N
  BY <1>1
<1> HIDE DEF N
<1>4. Names(s) \in [1..Len(s) -> N]
  BY <1>2, <1>3
<1>5. Names(s) \in Seq(N)
  BY <1>1, <1>4, SeqDef
<1>6. Len(Names(s)) = Len(s)
  BY <1>1, <1>2, <1>5, LenProperties
<1> QED BY <1>2, <1>5, <1>6 DEF N

\* The names of a part are that part of the names.
LEMMA NamesOfSubSeq ==
    ASSUME NEW S, NEW s \in Seq(S), NEW m \in Nat \ {0}, NEW n \in 0..Len(s)
    PROVE  Names(SubSeq(s, m, n)) = SubSeq(Names(s), m, n)
<1> DEFINE N == {e.name : e \in S}
           t == SubSeq(s, m, n)
           u == SubSeq(Names(s), m, n)
<1>0. Len(s) \in Nat /\ \A i \in m..n : s[i] \in S
  BY LenProperties, ElementOfSeq
<1>1. /\ t \in Seq(S) /\ Len(t) = IF m <= n THEN n - m + 1 ELSE 0
      /\ \A i \in 1..n - m + 1 : t[i] = s[m + i - 1]
  BY <1>0, SubSeqProperties
<1>2. /\ Names(s) \in Seq(N) /\ Len(Names(s)) = Len(s)
      /\ \A i \in 1..Len(s) : Names(s)[i] = s[i].name
  BY NamesOfSeq
<1>3. \A i \in m..n : Names(s)[i] \in N
  BY <1>0, <1>2, ElementOfSeq
<1> HIDE DEF N
<1>4. /\ u \in Seq(N) /\ Len(u) = IF m <= n THEN n - m + 1 ELSE 0
      /\ \A i \in 1..n - m + 1 : u[i] = Names(s)[m + i - 1]
  BY <1>3, SubSeqProperties
<1> HIDE DEF t
<1>5. /\ Names(t) \in Seq(N) /\ Len(Names(t)) = Len(t)
      /\ \A i \in 1..Len(t) : Names(t)[i] = t[i].name
  BY <1>1, NamesOfSeq DEF N
<1> HIDE DEF u
<1>6. ASSUME NEW i \in 1..Len(t)
      PROVE  Names(t)[i] = u[i]
  <2>1. i \in 1..n - m + 1 /\ m + i - 1 \in 1..Len(s)
    BY <1>0, <1>1
  <2> QED BY <2>1, <1>1, <1>2, <1>4, <1>5
<1>7. Names(t) = u
  BY <1>1, <1>4, <1>5, <1>6, SeqEqual
<1> QED BY <1>7 DEF t, u

\* What is left of a sequence, and what delivering its next entry leaves.
LEMMA NamesLeft ==
    ASSUME NEW S, NEW s \in Seq(S), NEW m \in 1..Len(s)
    PROVE  LET left(k) == SubSeq(s, k, Len(s)) IN
           /\ Head(left(m)) = s[m]
           /\ Names(left(m)) # <<>>
           /\ Head(Names(left(m))) = s[m].name
           /\ Tail(Names(left(m))) = Names(left(m + 1))
<1> DEFINE N == {e.name : e \in S}
<1>1. /\ Names(s) \in Seq(N) /\ Len(Names(s)) = Len(s)
      /\ Names(s)[m] = s[m].name
  BY NamesOfSeq
<1> HIDE DEF N
<1>2. /\ Len(s) \in Nat /\ Len(s) \in 0..Len(s)
      /\ m \in Nat \ {0} /\ m + 1 \in Nat \ {0}
  BY LenProperties
<1>3. /\ Names(SubSeq(s, m, Len(s))) = SubSeq(Names(s), m, Len(s))
      /\ Names(SubSeq(s, m + 1, Len(s))) = SubSeq(Names(s), m + 1, Len(s))
  BY <1>2, NamesOfSubSeq
<1>4. Head(SubSeq(s, m, Len(s))) = s[m]
  BY <1>2, HeadTailOfSubSeq
<1>5. /\ Head(SubSeq(Names(s), m, Len(s))) = Names(s)[m]
      /\ Tail(SubSeq(Names(s), m, Len(s))) = SubSeq(Names(s), m + 1, Len(s))
  BY <1>1, <1>2, HeadTailOfSubSeq
<1>6. SubSeq(Names(s), m, Len(s)) # <<>>
  <2>1. \A i \in m..Len(s) : Names(s)[i] \in N
    BY <1>1, <1>2, ElementOfSeq
  <2>2. Len(SubSeq(Names(s), m, Len(s))) = Len(s) - m + 1
    BY <1>2, <2>1, SubSeqProperties
  <2>3. Len(<<>>) = 0 /\ Len(s) - m + 1 # 0
    BY <1>2
  <2> QED BY <2>2, <2>3, Zenon
<1> QED BY <1>1, <1>3, <1>4, <1>5, <1>6

----------------------------------------------------------------------------
(* The invariant.                                                          *)

\* Every list has a length, and a list just taken is one of Lists.
LEMMA ListLength == \A l \in Lists : Len(l) \in Nat
<1> SUFFICES ASSUME NEW l \in Lists PROVE Len(l) \in Nat
  OBVIOUS
<1>1. PICK S : l \in Seq(S)
  BY ListIsSeq
<1> QED BY <1>1

LEMMA NssInitInv == NssInit => NssInv
BY EmptySeq DEF NssInit, NssInv, BackendTypes, CursorInside, Zero, DB, Lists

\* What a backend may hold.
Backends == [info : UserDBs \cup {<<>>}, index : Nat, list : Lists, group : Nat]

\* A step that gives one backend a value whose group lies in its list.
LEMMA BackendSet ==
    ASSUME NssInv, NEW x \in DB, NEW new \in Backends,
           new.group \in 0..Len(new.list),
           be' = [be EXCEPT ![x] = new],
           DOMAIN got' = DB,
           platform' = platform, users' = users, groups' = groups
    PROVE  NssInv'
BY DEF NssInv, BackendTypes, CursorInside, Backends

LEMMA NssNextInv == NssInv /\ [NssNext]_nssVars => NssInv'
<1> SUFFICES ASSUME NssInv, [NssNext]_nssVars PROVE NssInv'
  OBVIOUS
<1>0. /\ \A d \in DB : be[d] \in Backends /\ be[d].group \in 0..Len(be[d].list)
      /\ \A d \in DB : Backend(d) \in DB
      /\ DOMAIN got = DB
      /\ users \in UserDBs /\ groups \in GroupDBs
      /\ platform \in {"linux", "sunos"}
      /\ DOMAIN be = DB
      /\ "group" \in DB
  BY DEF NssInv, BackendTypes, CursorInside, Backends, Backend, DB
<1>1. CASE UNCHANGED nssVars
  BY <1>1 DEF nssVars, NssInv, BackendTypes, CursorInside
<1>z. Zero \in Backends /\ Zero.group \in 0..Len(Zero.list)
  BY EmptySeq DEF Zero, Backends, Lists
<1>2. ASSUME NEW d \in DB, setpwent(d) PROVE NssInv'
  <2>1. PICK info \in nvos_nss_userop :
            Set(d, IF platform = "linux" THEN [Zero EXCEPT !.info = info]
                   ELSE [be[d] EXCEPT !.info = info, !.index = 0])
    BY <1>2 DEF setpwent
  <2> DEFINE new == IF platform = "linux" THEN [Zero EXCEPT !.info = info]
                    ELSE [be[d] EXCEPT !.info = info, !.index = 0]
  <2>2. info \in UserDBs \cup {<<>>}
    BY <1>0 DEF nvos_nss_userop
  <2>3. new \in Backends /\ new.group \in 0..Len(new.list)
    <3>1. /\ [Zero EXCEPT !.info = info] \in Backends
          /\ [Zero EXCEPT !.info = info].group = Zero.group
          /\ [Zero EXCEPT !.info = info].list = Zero.list
      BY <1>z, <2>2 DEF Backends
    <3>2. /\ [be[d] EXCEPT !.info = info, !.index = 0] \in Backends
          /\ [be[d] EXCEPT !.info = info, !.index = 0].group = be[d].group
          /\ [be[d] EXCEPT !.info = info, !.index = 0].list = be[d].list
      BY <1>0, <2>2 DEF Backends
    <3> QED BY <1>0, <1>z, <3>1, <3>2, Zenon
  <2> HIDE DEF new
  <2>4. /\ be' = [be EXCEPT ![Backend(d)] = new] /\ DOMAIN got' = DB
        /\ platform' = platform /\ users' = users /\ groups' = groups
    BY <1>0, <2>1 DEF Set, new
  <2> QED BY <1>0, <2>3, <2>4, BackendSet
<1>3. ASSUME NEW d \in DB, endpwent(d) PROVE NssInv'
  <2> DEFINE b == be[Backend(d)]
             new == [b EXCEPT !.info = <<>>,
                              !.index = IF platform = "linux" THEN @ ELSE 0]
  <2>0. b \in Backends /\ b.group \in 0..Len(b.list)
    BY <1>0
  <2>2. be' = [be EXCEPT ![Backend(d)] = new]
    BY <1>0, <1>3 DEF endpwent, Backends
  <2>1. new \in Backends /\ new.group = b.group /\ new.list = b.list
    <3> HIDE DEF b
    <3> QED BY <2>0 DEF Backends
  <2>3. /\ new.group \in 0..Len(new.list) /\ DOMAIN got' = DB
        /\ platform' = platform /\ users' = users /\ groups' = groups
    BY <1>0, <1>3, <2>0, <2>1 DEF endpwent
  <2> HIDE DEF new
  <2> QED BY <1>0, <2>1, <2>2, <2>3, BackendSet
<1>4. ASSUME NEW d \in DB, getpwent_r(d) PROVE NssInv'
  <2> DEFINE b == be[Backend(d)]
             new == [b EXCEPT !.index = @ + 1]
  <2>0. b \in Backends /\ b.group \in 0..Len(b.list)
    BY <1>0
  <2>2. be' = [be EXCEPT ![Backend(d)] = new]
    BY <1>0, <1>4 DEF getpwent_r
  <2>1. new \in Backends /\ new.group = b.group /\ new.list = b.list
    <3> HIDE DEF b
    <3> QED BY <2>0 DEF Backends
  <2>3. /\ new.group \in 0..Len(new.list) /\ DOMAIN got' = DB
        /\ platform' = platform /\ users' = users /\ groups' = groups
    BY <1>0, <1>4, <2>0, <2>1 DEF getpwent_r
  <2> HIDE DEF new
  <2> QED BY <1>0, <2>1, <2>2, <2>3, BackendSet
<1>5. CASE setgrent
  <2>1. PICK list \in nvos_nss_get_groups :
            Set("group", [be[Backend("group")] EXCEPT
                         !.list = list, !.group = IF list = <<>> THEN 0 ELSE 1])
    BY <1>5 DEF setgrent
  <2> DEFINE new == [be[Backend("group")] EXCEPT
                         !.list = list, !.group = IF list = <<>> THEN 0 ELSE 1]
  <2>2. list \in Lists
    BY <1>0 DEF nvos_nss_get_groups, Lists
  <2>3. (IF list = <<>> THEN 0 ELSE 1) \in 0..Len(list)
    <3>1. PICK S : list \in Seq(S)
      BY <2>2, ListIsSeq
    <3> QED BY <3>1
  <2>4. new \in Backends /\ new.group \in 0..Len(new.list)
    BY <1>0, <2>2, <2>3 DEF Backends
  <2>5. /\ be' = [be EXCEPT ![Backend("group")] = new] /\ DOMAIN got' = DB
        /\ platform' = platform /\ users' = users /\ groups' = groups
    BY <1>0, <2>1 DEF Set
  <2> HIDE DEF new
  <2> QED BY <1>0, <2>4, <2>5, BackendSet
<1>6. CASE endgrent
  <2> DEFINE b == be[Backend("group")]
             new == IF platform = "linux" THEN Zero
                    ELSE [b EXCEPT !.list = <<>>, !.group = 0]
  <2>1. [b EXCEPT !.list = <<>>, !.group = 0] \in Backends
    BY <1>0 DEF Backends, Lists
  <2>2. new \in Backends /\ new.group \in 0..Len(new.list)
    BY <1>0, <1>z, <2>1 DEF Backends
  <2>3. be' = [be EXCEPT ![Backend("group")] = new]
    BY <1>0, <1>6 DEF endgrent
  <2>4. /\ DOMAIN got' = DB
        /\ platform' = platform /\ users' = users /\ groups' = groups
    BY <1>0, <1>6 DEF endgrent
  <2> HIDE DEF new
  <2> QED BY <1>0, <2>2, <2>3, <2>4, BackendSet
<1>g. LET b == be[Backend("group")]
          new == [b EXCEPT !.group = nv_slist_iter_next(b)]
      IN  new \in Backends /\ new.group \in 0..Len(new.list)
  BY <1>0, ListLength DEF nv_slist_iter_next, Backends
<1>7. CASE getgrent_r
  <2> DEFINE b == be[Backend("group")]
             new == [b EXCEPT !.group = nv_slist_iter_next(b)]
  <2>1. /\ be' = [be EXCEPT ![Backend("group")] = new] /\ DOMAIN got' = DB
        /\ platform' = platform /\ users' = users /\ groups' = groups
    BY <1>0, <1>7 DEF getgrent_r
  <2>2. new \in Backends /\ new.group \in 0..Len(new.list)
    BY <1>g
  <2> HIDE DEF new
  <2> QED BY <1>0, <2>1, <2>2, BackendSet
<1>8. CASE getgrent_erange
  <2> DEFINE b == be[Backend("group")]
             new == [b EXCEPT !.group = nv_slist_iter_next(b)]
  <2>1. CASE platform = "linux"
    BY <1>0, <1>8, <2>1 DEF getgrent_erange, NssInv, BackendTypes, CursorInside
  <2>2. CASE platform = "sunos"
    <3>1. /\ be' = [be EXCEPT ![Backend("group")] = new] /\ DOMAIN got' = DB
          /\ platform' = platform /\ users' = users /\ groups' = groups
      BY <1>0, <1>8, <2>2 DEF getgrent_erange, Backend
    <3>2. new \in Backends /\ new.group \in 0..Len(new.list)
      BY <1>g
    <3> HIDE DEF new
    <3> QED BY <1>0, <3>1, <3>2, BackendSet
  <2> QED BY <1>0, <2>1, <2>2
<1>9. CASE Change
  BY <1>9 DEF Change, NssInv, BackendTypes, CursorInside
<1> QED BY <1>1, <1>2, <1>3, <1>4, <1>5, <1>6, <1>7, <1>8, <1>9
        DEF NssNext, GetGroup

\* The group that the next getgrent reads is one of the list it walks over,
\* whatever calls of the three databases came in between and however nvOS
\* changed its groups (nss_linux_nvos.c 423-461, nss_solaris_nvos.c).
THEOREM CursorStaysInside == NssSpec => []CursorInside
<1>1. NssInv => CursorInside
  BY DEF NssInv
<1> QED BY <1>1, NssInitInv, NssNextInv, PTL DEF NssSpec

----------------------------------------------------------------------------
(* The users of passwd and of shadow implement Enumeration.                 *)

\* What an enumeration of the users has still to deliver.
rest(d) == Names(usersLeft(d))

\* Every list of users is a sequence of entries.
UserEntry == [name : STRING, len : Nat, shell : Nat]

LEMMA UserLists ==
    ASSUME NssInv, NEW d \in DB
    PROVE  /\ be[Backend(d)].info \in Seq(UserEntry)
           /\ be[Backend(d)].index \in Nat
           /\ Backend(d) \in DB
<1>1. UserDBs \cup {<<>>} \subseteq Seq(UserEntry)
  BY NssAssumption, EmptySeq DEF UserEntry
<1>2. Backend(d) \in DB
  BY DEF Backend, DB
<1>3. be[Backend(d)] \in [info : UserDBs \cup {<<>>}, index : Nat,
                          list : Lists, group : Nat]
  BY <1>2 DEF NssInv, BackendTypes
<1> QED BY <1>1, <1>2, <1>3

\* Whether a line parses is true or false.
LEMMA FitsOrNot ==
    ASSUME NEW u, NEW n
    PROVE  user_to_passwd_ent(u, n) \subseteq BOOLEAN
BY Zenon DEF user_to_passwd_ent

\* The names of nothing.
LEMMA NamesOfNothing == Names(<<>>) = <<>>
BY DEF Names

\* Nothing is left behind the end of a list.
LEMMA NothingLeft ==
    ASSUME NEW k \in Nat \ {0}
    PROVE  SubSeq(<<>>, k, Len(<<>>)) = <<>>
BY SubSeqEmpty

\* Steps that leave the users' part of a backend alone leave what is left.
LEMMA RestKept ==
    ASSUME NEW d \in DB, platform' = platform,
           be'[Backend(d)].info = be[Backend(d)].info,
           be'[Backend(d)].index = be[Backend(d)].index
    PROVE  rest(d)' = rest(d)
BY DEF rest, usersLeft, Backend, UserDB, Names

\* getpwent_r delivers the first entry that is left, or loses it if the
\* caller's buffer is too short.
LEMMA GetIsDeliver ==
    ASSUME NssInv, NEW d \in DB, getpwent_r(d)
    PROVE  /\ rest(d) # <<>> /\ rest(d)' = Tail(rest(d))
           /\ \/ got'[d] = Append(got[d], Head(rest(d)))
              \/ tooLong(d) /\ got'[d] = got[d]
           /\ \A e \in DB : e # d => got'[e] = got[e]
           /\ callTo(d)' = "get"
<1>0. callTo(d)' = "get"
  BY DEF getpwent_r, callTo
<1> DEFINE b == be[Backend(d)]
           e == b.info[b.index + 1]
<1>1. b.info \in Seq(UserEntry) /\ b.index \in Nat /\ Backend(d) \in DB
  BY UserLists
<1>2. /\ d \in UserDB /\ b.index < Len(b.info)
      /\ be' = [be EXCEPT ![Backend(d)].index = @ + 1]
      /\ platform' = platform
      /\ \E fits \in user_to_passwd_ent(e, buf[d]) :
            got' = IF fits THEN [got EXCEPT ![d] = Append(@, e.name)] ELSE got
  BY DEF getpwent_r
<1>3. be'[Backend(d)].info = b.info /\ be'[Backend(d)].index = b.index + 1
  BY <1>1, <1>2 DEF NssInv, BackendTypes
<1>4. /\ usersLeft(d) = SubSeq(b.info, b.index + 1, Len(b.info))
      /\ usersLeft(d)' = SubSeq(b.info, (b.index + 1) + 1, Len(b.info))
  BY <1>1, <1>2, <1>3 DEF usersLeft, Backend, UserDB
<1>5. /\ Head(usersLeft(d)) = e
      /\ rest(d) # <<>> /\ Head(rest(d)) = e.name
      /\ Tail(rest(d)) = rest(d)'
  <2> DEFINE s == b.info
             m == b.index + 1
  <2>1. s \in Seq(UserEntry) /\ m \in 1..Len(s)
    BY <1>1, <1>2
  <2>2. /\ Head(SubSeq(s, m, Len(s))) = s[m]
        /\ Names(SubSeq(s, m, Len(s))) # <<>>
        /\ Head(Names(SubSeq(s, m, Len(s)))) = s[m].name
        /\ Tail(Names(SubSeq(s, m, Len(s)))) = Names(SubSeq(s, m + 1, Len(s)))
    <3> HIDE DEF s, m
    <3> QED BY <2>1, NamesLeft
  <2>3. rest(d)' = Names(SubSeq(b.info, (b.index + 1) + 1, Len(b.info)))
    BY <1>4 DEF rest, Names
  <2> QED BY <1>4, <2>1, <2>2, <2>3 DEF rest
<1>6. PICK fits \in user_to_passwd_ent(e, buf[d]) :
            got' = IF fits THEN [got EXCEPT ![d] = Append(@, e.name)] ELSE got
  BY <1>2
<1>7. fits \in BOOLEAN
  BY FitsOrNot, Zenon
<1>8. DOMAIN got = DB
  BY DEF NssInv, BackendTypes
<1>9. CASE fits = TRUE
  <2>1. got' = [got EXCEPT ![d] = Append(@, e.name)]
    BY <1>6, <1>9
  <2> HIDE DEF e
  <2> QED BY <1>0, <1>5, <1>8, <2>1
<1>10. CASE fits = FALSE
  <2>1. got' = got
    BY <1>6, <1>10
  <2>2. tooLong(d)
    BY <1>5, <1>6, <1>10 DEF tooLong
  <2> QED BY <1>0, <1>5, <2>1, <2>2
<1> QED BY <1>7, <1>9, <1>10

\* setpwent opens an enumeration of the whole list, or of nothing.
LEMMA SetIsOpen ==
    ASSUME NssInv, NEW d \in DB, setpwent(d)
    PROVE  /\ \E n \in 0..Len(Names(users)) : rest(d)' = SubSeq(Names(users), 1, n)
           /\ got'[d] = <<>>
           /\ \A e \in DB : e # d => got'[e] = got[e]
           /\ callTo(d)' = "set"
<1>0. /\ DOMAIN got = DB /\ DOMAIN be = DB /\ Backend(d) \in DB
      /\ users \in Seq(UserEntry)
      /\ platform \in {"linux", "sunos"}
      /\ be[d] \in Backends
  BY NssAssumption DEF NssInv, BackendTypes, Backend, DB, UserEntry, Backends
<1>1. PICK info \in {users, <<>>} :
          Set(d, IF platform = "linux" THEN [Zero EXCEPT !.info = info]
                 ELSE [be[d] EXCEPT !.info = info, !.index = 0])
  BY DEF setpwent, nvos_nss_userop
<1>2. d \in UserDB
  BY DEF setpwent
<1>3. got' = [got EXCEPT ![d] = <<>>] /\ platform' = platform
  BY <1>1 DEF Set
<1>4. be'[Backend(d)].info = info /\ be'[Backend(d)].index = 0
  <2> DEFINE new == IF platform = "linux" THEN [Zero EXCEPT !.info = info]
                    ELSE [be[d] EXCEPT !.info = info, !.index = 0]
  <2>1. new.info = info /\ new.index = 0
    BY <1>0 DEF Zero, Backends
  <2> HIDE DEF new
  <2>2. be' = [be EXCEPT ![Backend(d)] = new]
    BY <1>1 DEF Set, new
  <2> QED BY <1>0, <2>1, <2>2
<1>5. info \in Seq(UserEntry)
  BY <1>0, EmptySeq
<1>6. usersLeft(d)' = info
  <2>1. usersLeft(d)' = SubSeq(info, 1, Len(info))
    BY <1>2, <1>3, <1>4 DEF usersLeft, Backend, UserDB
  <2> QED BY <1>5, <2>1, SubSeqFull
<1>7. rest(d)' = Names(info)
  BY <1>6 DEF rest, Names
<1>8. /\ Names(users) \in Seq({x.name : x \in UserEntry})
      /\ Len(Names(users)) = Len(users) /\ Len(users) \in Nat
  BY <1>0, NamesOfSeq, LenProperties
<1>9. \E n \in 0..Len(Names(users)) : rest(d)' = SubSeq(Names(users), 1, n)
  <2>1. CASE info = users
    <3>1. rest(d)' = SubSeq(Names(users), 1, Len(Names(users)))
      BY <1>7, <1>8, <2>1, SubSeqFull
    <3> QED BY <1>8, <3>1
  <2>2. CASE info = <<>>
    <3>1. SubSeq(Names(users), 1, 0) = <<>>
      BY SubSeqEmpty
    <3>2. rest(d)' = <<>>
      BY <1>7, <2>2, NamesOfNothing
    <3> QED BY <1>8, <3>1, <3>2
  <2> QED BY <2>1, <2>2
<1>10. callTo(d)' = "set"
  BY <1>1 DEF Set, callTo
<1> QED BY <1>0, <1>3, <1>9, <1>10

\* endpwent and, on Linux, endgrent drop what is left; an endpwent of another
\* database, and an endgrent on Solaris, drop nothing.
LEMMA EndIsClose ==
    ASSUME NssInv, NEW d \in {"passwd", "shadow"}, NEW e \in DB,
           endpwent(e) \/ endgrent
    PROVE  /\ \/ callTo(d)' \in {"end", "wipe"} /\ rest(d)' = <<>>
              \/ rest(d)' = rest(d)
           /\ got'[d] = got[d]
<1>0. /\ d \in DB /\ DOMAIN be = DB /\ Backend(d) \in DB /\ Backend(e) \in DB
      /\ platform \in {"linux", "sunos"} /\ platform' = platform /\ got' = got
      /\ Backend(d)' = Backend(d)
      /\ be[Backend(d)] \in Backends /\ be[Backend(e)] \in Backends
      /\ "group" \in DB /\ be["group"] \in Backends
  BY DEF NssInv, BackendTypes, Backend, DB, Backends, endpwent, endgrent
<1>1. ASSUME be'[Backend(d)].info = <<>>, be'[Backend(d)].index \in Nat
      PROVE  rest(d)' = <<>>
  <2>1. usersLeft(d)' = <<>>
    <3>1. be'[Backend(d)].index + 1 \in Nat \ {0}
      BY <1>1
    <3>2. SubSeq(<<>>, be'[Backend(d)].index + 1, Len(<<>>)) = <<>>
      BY <3>1, NothingLeft
    <3> QED BY <1>0, <1>1, <3>2 DEF usersLeft, Backend, UserDB
  <2> QED BY <2>1, NamesOfNothing DEF rest, Names
<1>s. ASSUME platform = "linux", d = "shadow"
      PROVE  rest(d)' = rest(d)
  BY <1>0, <1>s DEF rest, usersLeft, UserDB, Names
<1>2. CASE endpwent(e)
  <2>1. CASE e = d
    <3> DEFINE new == [be[Backend(d)] EXCEPT !.info = <<>>,
                          !.index = IF platform = "linux" THEN @ ELSE 0]
    <3>1. be' = [be EXCEPT ![Backend(d)] = new]
      BY <1>0, <1>2, <2>1 DEF endpwent, Backends
    <3>2. new.info = <<>> /\ new.index \in Nat
      BY <1>0 DEF Backends
    <3> HIDE DEF new
    <3>3. be'[Backend(d)] = new
      BY <1>0, <3>1
    <3>4. callTo(d)' = "end"
      BY <1>2, <2>1 DEF endpwent, callTo
    <3> QED BY <1>0, <1>1, <3>2, <3>3, <3>4
  <2>2. CASE e # d /\ platform = "linux"
    <3>1. d = "shadow"
      BY <1>2, <2>2 DEF endpwent, UserDB
    <3> QED BY <1>0, <1>s, <2>2, <3>1
  <2>3. CASE e # d /\ platform = "sunos"
    <3>1. be'[Backend(d)] = be[Backend(d)]
      BY <1>0, <1>2, <2>3 DEF endpwent, Backend
    <3> QED BY <1>0, <3>1, RestKept
  <2> QED BY <1>0, <2>1, <2>2, <2>3
<1>3. CASE endgrent
  <2>1. CASE platform = "linux" /\ d = "passwd"
    <3>1. be'[Backend(d)] = Zero
      BY <1>0, <1>3, <2>1 DEF endgrent, Backend
    <3>2. last' = <<"end", "group">> /\ platform' = "linux"
      BY <1>0, <1>3, <2>1 DEF endgrent
    <3>3. callTo(d)' = "wipe"
      BY <2>1, <3>2 DEF callTo, wipes
    <3> QED BY <1>0, <1>1, <3>1, <3>3 DEF Zero
  <2>2. CASE platform = "sunos"
    <3>1. be'[Backend(d)] = be[Backend(d)]
      BY <1>0, <1>3, <2>2 DEF endgrent, Backend
    <3> QED BY <1>0, <3>1, RestKept
  <2> QED BY <1>0, <1>s, <2>1, <2>2
<1> QED BY <1>0, <1>2, <1>3

\* Calls of the groups' part do not touch an enumeration of the users, except
\* for an endgrent on Linux.
LEMMA GroupsAside ==
    ASSUME NssInv, NEW d \in {"passwd", "shadow"}, setgrent \/ GetGroup
    PROVE  rest(d)' = rest(d) /\ got'[d] = got[d]
<1>0. /\ d \in DB /\ DOMAIN be = DB /\ Backend(d) \in DB /\ d # "group"
      /\ platform \in {"linux", "sunos"}
      /\ be[Backend(d)] \in Backends
      /\ "group" \in DB /\ Backend("group") \in DB
      /\ DOMAIN got = DB
      /\ be[Backend("group")] \in Backends
  BY DEF NssInv, BackendTypes, Backend, DB, Backends
<1>1. ASSUME NEW l, NEW g,
             be' = [be EXCEPT ![Backend("group")] =
                       [be[Backend("group")] EXCEPT !.list = l, !.group = g]],
             platform' = platform
      PROVE  rest(d)' = rest(d)
  <2> DEFINE new == [be[Backend("group")] EXCEPT !.list = l, !.group = g]
  <2>1. /\ new.info = be[Backend("group")].info
        /\ new.index = be[Backend("group")].index
    BY <1>0 DEF Backends
  <2> HIDE DEF new
  <2>2. be' = [be EXCEPT ![Backend("group")] = new]
    BY <1>1 DEF new
  <2>3. /\ be'[Backend(d)].info = be[Backend(d)].info
        /\ be'[Backend(d)].index = be[Backend(d)].index
    BY <1>0, <2>1, <2>2
  <2> QED BY <1>0, <1>1, <2>3, RestKept
<1>2. CASE setgrent
  <2>1. PICK list \in nvos_nss_get_groups :
            Set("group", [be[Backend("group")] EXCEPT
                         !.list = list, !.group = IF list = <<>> THEN 0 ELSE 1])
    BY <1>2 DEF setgrent
  <2>2. /\ platform' = platform /\ got' = [got EXCEPT !["group"] = <<>>]
        /\ be' = [be EXCEPT ![Backend("group")] =
                     [be[Backend("group")] EXCEPT
                         !.list = list, !.group = IF list = <<>> THEN 0 ELSE 1]]
    BY <2>1 DEF Set
  <2>3. got'[d] = got[d]
    BY <1>0, <2>2
  <2> QED BY <1>1, <2>2, <2>3
<1>3. ASSUME NEW g, be' = [be EXCEPT ![Backend("group")].group = g],
             platform' = platform
      PROVE  rest(d)' = rest(d)
  <2> DEFINE new == [be[Backend("group")] EXCEPT !.group = g]
  <2>1. /\ new.info = be[Backend("group")].info
        /\ new.index = be[Backend("group")].index
    BY <1>0 DEF Backends
  <2>2. be' = [be EXCEPT ![Backend("group")] = new]
    BY <1>3
  <2> HIDE DEF new
  <2>3. /\ be'[Backend(d)].info = be[Backend(d)].info
        /\ be'[Backend(d)].index = be[Backend(d)].index
    BY <1>0, <2>1, <2>2
  <2> QED BY <1>0, <1>3, <2>3, RestKept
<1>4. CASE getgrent_r
  <2>1. got'[d] = got[d]
    BY <1>0, <1>4 DEF getgrent_r
  <2> QED BY <1>3, <1>4, <2>1 DEF getgrent_r
<1>5. CASE getgrent_erange
  <2>1. CASE platform = "linux"
    BY <1>0, <1>5, <2>1, RestKept DEF getgrent_erange, Backend
  <2>2. CASE platform = "sunos"
    BY <1>0, <1>3, <1>5, <2>2 DEF getgrent_erange, Backend
  <2> QED BY <1>0, <2>1, <2>2
<1> QED BY <1>2, <1>4, <1>5 DEF GetGroup

\* A call of another database of users.
LEMMA OthersAside ==
    ASSUME NssInv, NEW d \in {"passwd", "shadow"}, NEW e \in DB, e # d,
           setpwent(e) \/ getpwent_r(e)
    PROVE  rest(d)' = rest(d) /\ got'[d] = got[d]
<1>0. /\ d \in DB /\ DOMAIN be = DB /\ platform \in {"linux", "sunos"}
      /\ platform' = platform /\ Backend(d) \in DB
  BY DEF NssInv, BackendTypes, Backend, DB, setpwent, Set, getpwent_r
<1>1. got'[d] = got[d]
  BY <1>0, SetIsOpen, GetIsDeliver
<1>2. CASE platform = "linux"
  \* Only passwd is there, so d is shadow and has nothing left.
  BY <1>0, <1>1, <1>2 DEF setpwent, getpwent_r, UserDB, rest, usersLeft, Names
<1>3. CASE platform = "sunos"
  <2>1. be'[Backend(d)] = be[Backend(d)]
    BY <1>0, <1>3 DEF setpwent, getpwent_r, Set, Backend
  <2> QED BY <1>0, <1>1, <2>1, RestKept
<1> QED BY <1>0, <1>2, <1>3

\* Every step is one of an enumeration of d's users, or none.
UsersStep(d) ==
    \/ /\ callTo(d)' = "set"
       /\ \E n \in 0..Len(Names(users)) : rest(d)' = SubSeq(Names(users), 1, n)
       /\ got'[d] = <<>>
    \/ /\ callTo(d)' = "get" /\ rest(d) # <<>> /\ rest(d)' = Tail(rest(d))
       /\ \/ got'[d] = Append(got[d], Head(rest(d)))
          \/ tooLong(d) /\ got'[d] = got[d]
    \/ callTo(d)' \in {"end", "wipe"} /\ rest(d)' = <<>> /\ got'[d] = got[d]
    \/ rest(d)' = rest(d) /\ got'[d] = got[d]

LEMMA StepOfUsers ==
    ASSUME NssInv, [NssNext]_nssVars, NEW d \in {"passwd", "shadow"}
    PROVE  UsersStep(d)
<1>0. d \in DB
  BY DEF DB
<1>1. CASE UNCHANGED nssVars
  BY <1>0, <1>1, RestKept DEF nssVars, UsersStep, Backend
<1>2. ASSUME NEW e \in DB, setpwent(e) PROVE UsersStep(d)
  <2>1. CASE e = d
    BY <1>2, <2>1, SetIsOpen DEF UsersStep
  <2>2. CASE e # d
    BY <1>2, <2>2, OthersAside DEF UsersStep
  <2> QED BY <2>1, <2>2
<1>3. ASSUME NEW e \in DB, endpwent(e) PROVE UsersStep(d)
  BY <1>3, EndIsClose DEF UsersStep
<1>4. ASSUME NEW e \in DB, getpwent_r(e) PROVE UsersStep(d)
  <2>1. CASE e = d
    BY <1>4, <2>1, GetIsDeliver DEF UsersStep
  <2>2. CASE e # d
    BY <1>4, <2>2, OthersAside DEF UsersStep
  <2> QED BY <2>1, <2>2
<1>5. CASE setgrent \/ GetGroup
  BY <1>5, GroupsAside DEF UsersStep
<1>6. CASE endgrent
  BY <1>0, <1>6, EndIsClose DEF UsersStep
<1>7. CASE Change
  BY <1>0, <1>7, RestKept DEF Change, UsersStep, Backend
<1> QED BY <1>1, <1>2, <1>3, <1>4, <1>5, <1>6, <1>7 DEF NssNext

LEMMA InitOfUsers ==
    ASSUME NssInit, NEW d \in {"passwd", "shadow"}
    PROVE  rest(d) = <<>> /\ got[d] = <<>>
<1>1. be[Backend(d)] = Zero /\ got[d] = <<>>
  BY DEF NssInit, Backend, DB
<1>2. usersLeft(d) = <<>>
  BY <1>1, NothingLeft DEF usersLeft, Zero
<1> QED BY <1>1, <1>2, NamesOfNothing DEF rest

\* However the calls of the databases mix and nvOS changes, each pass over the
\* users implements Enumeration: entries of the list that its setpwent took,
\* in order and none twice, until its own endpwent or, on Linux, an endgrent
\* cuts it short (nss_linux_nvos.c 168-254, 438, nss_solaris_nvos.c 59-109).
THEOREM UsersImplementEnumeration == NssSpec => UsersEnumerate
<1>1. NssInit => Passwd!EnumInit /\ Shadow!EnumInit
  BY InitOfUsers DEF Passwd!EnumInit, Shadow!EnumInit, rest
<1>2. NssInv /\ [NssNext]_nssVars =>
          [Passwd!EnumNext]_<<Names(usersLeft("passwd")), got["passwd"]>>
  <2> SUFFICES ASSUME NssInv, [NssNext]_nssVars
               PROVE  [Passwd!EnumNext]_<<Names(usersLeft("passwd")), got["passwd"]>>
    OBVIOUS
  <2>1. UsersStep("passwd")
    BY StepOfUsers
  <2> QED BY <2>1 DEF UsersStep, rest, Passwd!EnumNext, Passwd!Open,
                      Passwd!Deliver, Passwd!Skip, Passwd!Close
<1>3. NssInv /\ [NssNext]_nssVars =>
          [Shadow!EnumNext]_<<Names(usersLeft("shadow")), got["shadow"]>>
  <2> SUFFICES ASSUME NssInv, [NssNext]_nssVars
               PROVE  [Shadow!EnumNext]_<<Names(usersLeft("shadow")), got["shadow"]>>
    OBVIOUS
  <2>1. UsersStep("shadow")
    BY StepOfUsers
  <2> QED BY <2>1 DEF UsersStep, rest, Shadow!EnumNext, Shadow!Open,
                      Shadow!Deliver, Shadow!Skip, Shadow!Close
<1> QED BY <1>1, <1>2, <1>3, NssInitInv, NssNextInv, PTL
        DEF NssSpec, UsersEnumerate, Passwd!EnumSpec, Shadow!EnumSpec

----------------------------------------------------------------------------
(* The groups implement Enumeration.                                       *)

groupRest == Names(groupsLeft)

\* getgrent's backend, and what it holds.
LEMMA GroupBackend ==
    ASSUME NssInv
    PROVE  /\ Backend("group") \in DB /\ "group" \in DB /\ DOMAIN be = DB
           /\ DOMAIN got = DB /\ platform \in {"linux", "sunos"}
           /\ \A d \in DB : be[d] \in Backends
           /\ be[Backend("group")].group \in 0..Len(be[Backend("group")].list)
BY DEF NssInv, BackendTypes, CursorInside, Backend, DB, Backends

\* Steps that leave the groups' part of its backend alone.
LEMMA GroupRestKept ==
    ASSUME platform' = platform,
           be'[Backend("group")].list = be[Backend("group")].list,
           be'[Backend("group")].group = be[Backend("group")].group
    PROVE  groupRest' = groupRest
BY DEF groupRest, groupsLeft, Backend, Names

\* Moving on leaves the tail.
LEMMA NextIsTail ==
    ASSUME NssInv, be[Backend("group")].group # 0, platform' = platform,
           be' = [be EXCEPT ![Backend("group")].group =
                     nv_slist_iter_next(be[Backend("group")])]
    PROVE  LET b == be[Backend("group")] IN
           /\ Head(groupsLeft) = b.list[b.group]
           /\ groupRest # <<>> /\ Head(groupRest) = b.list[b.group].name
           /\ groupRest' = Tail(groupRest)
<1> DEFINE b == be[Backend("group")]
           s == b.list
           m == b.group
<1>0. b \in Backends /\ m \in 0..Len(s) /\ m # 0 /\ s \in Lists
  BY GroupBackend DEF Backends
<1>1. PICK S : s \in Seq(S)
  BY <1>0, ListIsSeq
<1>2. Len(s) \in Nat /\ m \in 1..Len(s)
  BY <1>0, <1>1
<1>3. /\ Head(SubSeq(s, m, Len(s))) = s[m]
      /\ Names(SubSeq(s, m, Len(s))) # <<>>
      /\ Head(Names(SubSeq(s, m, Len(s)))) = s[m].name
      /\ Tail(Names(SubSeq(s, m, Len(s)))) = Names(SubSeq(s, m + 1, Len(s)))
  <2> HIDE DEF s, m
  <2> QED BY <1>1, <1>2, NamesLeft
<1>4. groupsLeft = SubSeq(s, m, Len(s))
  BY <1>0 DEF groupsLeft
<1>5. groupsLeft' = SubSeq(s, m + 1, Len(s))
  <2>0. /\ be'[Backend("group")].list = s
        /\ be'[Backend("group")].group = IF m < Len(s) THEN m + 1 ELSE 0
    <3> DEFINE new == [b EXCEPT !.group = nv_slist_iter_next(b)]
    <3>1. new.list = s /\ new.group = nv_slist_iter_next(b)
      BY <1>0 DEF Backends
    <3>2. be'[Backend("group")] = new
      BY GroupBackend
    <3> HIDE DEF new, b
    <3> QED BY <3>1, <3>2 DEF nv_slist_iter_next
  <2>1. groupsLeft' = IF be'[Backend("group")].group = 0 THEN <<>>
                      ELSE SubSeq(s, be'[Backend("group")].group, Len(s))
    BY <2>0 DEF groupsLeft, Backend
  <2> HIDE DEF b, s, m
  <2>2. CASE m < Len(s)
    <3>1. be'[Backend("group")].group = m + 1 /\ m + 1 # 0
      BY <1>2, <2>0, <2>2
    <3> QED BY <2>1, <3>1, Zenon
  <2>3. CASE m = Len(s)
    <3>1. SubSeq(s, m + 1, Len(s)) = <<>>
      BY <1>2, <2>3, SubSeqEmpty
    <3> QED BY <1>2, <2>0, <2>1, <2>3, <3>1
  <2> QED BY <1>2, <2>2, <2>3
<1>6. groupRest' = Names(SubSeq(s, m + 1, Len(s)))
  BY <1>5 DEF groupRest, Names
<1> QED BY <1>3, <1>4, <1>6 DEF groupRest

\* Every step is one of an enumeration of the groups, or none.
GroupsStep ==
    LET src == Names(with_gid(groups)) IN
    \/ /\ callTo("group")' = "set"
       /\ \E n \in 0..Len(src) : groupRest' = SubSeq(src, 1, n)
       /\ got'["group"] = <<>>
    \/ /\ callTo("group")' = "get" /\ groupRest # <<>>
       /\ groupRest' = Tail(groupRest)
       /\ \/ got'["group"] = Append(got["group"], Head(groupRest))
          \/ /\ platform = "sunos" /\ copy_group(Head(groupsLeft), buf["group"]) < 0
             /\ got'["group"] = got["group"]
    \/ /\ callTo("group")' \in {"end", "wipe"}
       /\ groupRest' = <<>> /\ got'["group"] = got["group"]
    \/ groupRest' = groupRest /\ got'["group"] = got["group"]

\* A list that is cleared with its cursor leaves nothing.
LEMMA GroupsCleared ==
    ASSUME platform' = platform, be'[Backend("group")].group = 0
    PROVE  groupRest' = <<>>
<1>1. groupsLeft' = <<>>
  BY DEF groupsLeft, Backend
<1> QED BY <1>1, NamesOfNothing DEF groupRest, Names

LEMMA SetgrentIsOpen ==
    ASSUME NssInv, setgrent
    PROVE  GroupsStep
<1> DEFINE all == with_gid(groups)
<1>1. PICK list \in nvos_nss_get_groups :
          Set("group", [be[Backend("group")] EXCEPT
                       !.list = list, !.group = IF list = <<>> THEN 0 ELSE 1])
  BY DEF setgrent
<1>2. /\ platform' = platform /\ got' = [got EXCEPT !["group"] = <<>>]
      /\ be' = [be EXCEPT ![Backend("group")] =
                   [be[Backend("group")] EXCEPT
                       !.list = list, !.group = IF list = <<>> THEN 0 ELSE 1]]
  BY <1>1 DEF Set
<1>3. /\ be'[Backend("group")].list = list
      /\ be'[Backend("group")].group = IF list = <<>> THEN 0 ELSE 1
  BY <1>2, GroupBackend DEF Backends
<1>4. got'["group"] = <<>> /\ callTo("group")' = "set"
  BY <1>1, <1>2, GroupBackend DEF Set, callTo
<1>5. PICK S : all \in Seq(S)
  BY WithGidIsSeq DEF NssInv, BackendTypes
<1> HIDE DEF all
<1>6. PICK n \in 0..Len(all) : list = SubSeq(all, 1, n)
  BY <1>1 DEF nvos_nss_get_groups, Prefixes, all
<1>7. list \in Seq(S)
  BY <1>5, <1>6
<1>8. groupsLeft' = list
  <2>1. CASE list = <<>>
    BY <1>2, <1>3, <2>1 DEF groupsLeft, Backend
  <2>2. CASE list # <<>>
    <3>1. groupsLeft' = SubSeq(list, 1, Len(list))
      BY <1>2, <1>3, <2>2 DEF groupsLeft, Backend
    <3> QED BY <1>7, <3>1, SubSeqFull
  <2> QED BY <2>1, <2>2
<1>9. groupRest' = SubSeq(Names(all), 1, n)
  <2>1. groupRest' = Names(list)
    BY <1>8 DEF groupRest, Names
  <2> QED BY <1>5, <1>6, <2>1, NamesOfSubSeq
<1>10. n \in 0..Len(Names(all))
  BY <1>5, <1>6, NamesOfSeq
<1> QED BY <1>4, <1>9, <1>10 DEF GroupsStep, all

LEMMA StepOfGroups ==
    ASSUME NssInv, [NssNext]_nssVars
    PROVE  GroupsStep
<1>1. CASE UNCHANGED nssVars
  BY <1>1, GroupRestKept DEF nssVars, GroupsStep, Backend
<1>2. ASSUME NEW e \in DB, setpwent(e) PROVE GroupsStep
  <2>0. platform' = platform /\ e # "group"
    BY <1>2 DEF setpwent, Set, UserDB
  <2>1. got'["group"] = got["group"]
    BY <1>2, <2>0, SetIsOpen, GroupBackend
  <2>2. CASE platform = "linux"
    <3>1. PICK info \in nvos_nss_userop : Set(e, [Zero EXCEPT !.info = info])
      BY <1>2, <2>2 DEF setpwent
    <3>2. be'[Backend("group")] = [Zero EXCEPT !.info = info]
      BY <3>1, <2>2, GroupBackend DEF Set, Backend
    <3>3. be'[Backend("group")].group = 0
      BY <3>2 DEF Zero
    <3>4. last' = <<"set", "passwd">> /\ platform' = "linux"
      BY <1>2, <2>0, <2>2, <3>1 DEF setpwent, Set, UserDB
    <3>5. callTo("group")' = "wipe"
      BY <3>4 DEF callTo, wipes
    <3> QED BY <2>0, <2>1, <3>3, <3>5, GroupsCleared DEF GroupsStep
  <2>3. CASE platform = "sunos"
    <3>1. be'[Backend("group")] = be[Backend("group")]
      BY <1>2, <2>0, <2>3, GroupBackend DEF setpwent, Set, Backend
    <3> QED BY <2>0, <2>1, <3>1, GroupRestKept DEF GroupsStep
  <2> QED BY <2>2, <2>3, GroupBackend
<1>3. ASSUME NEW e \in DB, endpwent(e) \/ getpwent_r(e) PROVE GroupsStep
  <2>0. platform' = platform /\ e # "group" /\ Backend(e) \in DB
    BY <1>3 DEF endpwent, getpwent_r, UserDB, Backend, DB
  <2>1. got'["group"] = got["group"]
    BY <1>3, <2>0, GetIsDeliver, GroupBackend DEF endpwent
  <2>2. PICK i, x : be' = [be EXCEPT ![Backend(e)].info = i, ![Backend(e)].index = x]
    <3>1. CASE endpwent(e)
      BY <3>1 DEF endpwent
    <3>2. CASE getpwent_r(e)
      <4>1. be' = [be EXCEPT ![Backend(e)].index = @ + 1]
        BY <3>2 DEF getpwent_r
      <4>2. be[Backend(e)] \in Backends
        BY <2>0, GroupBackend
      <4>3. be' = [be EXCEPT ![Backend(e)].info = be[Backend(e)].info,
                             ![Backend(e)].index = be[Backend(e)].index + 1]
        BY <2>0, <4>1, <4>2, GroupBackend DEF Backends
      <4> QED BY <4>3
    <3> QED BY <1>3, <3>1, <3>2
  <2>3. /\ be'[Backend("group")].list = be[Backend("group")].list
        /\ be'[Backend("group")].group = be[Backend("group")].group
    BY <2>0, <2>2, GroupBackend DEF Backends
  <2> QED BY <2>0, <2>1, <2>3, GroupRestKept DEF GroupsStep
<1>4. CASE setgrent
  BY <1>4, SetgrentIsOpen
<1>5. CASE endgrent
  <2>1. be'[Backend("group")].group = 0
    BY <1>5, GroupBackend DEF endgrent, Zero, Backends
  <2>2. callTo("group")' = "end"
    BY <1>5 DEF endgrent, callTo
  <2> QED BY <1>5, <2>1, <2>2, GroupsCleared DEF endgrent, GroupsStep
<1>6. CASE getgrent_r
  <2> DEFINE b == be[Backend("group")]
  <2>1. /\ b.group # 0 /\ platform' = platform
        /\ be' = [be EXCEPT ![Backend("group")].group = nv_slist_iter_next(b)]
        /\ got' = [got EXCEPT !["group"] = Append(@, b.list[b.group].name)]
    BY <1>6 DEF getgrent_r
  <2>2. got'["group"] = Append(got["group"], b.list[b.group].name)
    BY <2>1, GroupBackend
  <2>3. callTo("group")' = "get"
    BY <1>6 DEF getgrent_r, callTo
  <2> QED BY <2>1, <2>2, <2>3, NextIsTail DEF GroupsStep
<1>7. CASE getgrent_erange
  <2> DEFINE b == be[Backend("group")]
  <2>1. CASE platform = "linux"
    BY <1>7, <2>1, GroupRestKept DEF getgrent_erange, GroupsStep, Backend
  <2>2. CASE platform = "sunos"
    <3>1. /\ b.group # 0 /\ platform' = platform
          /\ copy_group(b.list[b.group], buf["group"]) < 0
          /\ be' = [be EXCEPT ![Backend("group")].group = nv_slist_iter_next(b)]
          /\ got' = got
      BY <1>7, <2>2 DEF getgrent_erange, Backend
    <3>2. callTo("group")' = "get"
      BY <1>7 DEF getgrent_erange, callTo
    <3> QED BY <2>2, <3>1, <3>2, NextIsTail DEF GroupsStep
  <2> QED BY <2>1, <2>2, GroupBackend
<1>8. CASE Change
  BY <1>8, GroupRestKept DEF Change, GroupsStep, Backend
<1> QED BY <1>1, <1>2, <1>3, <1>4, <1>5, <1>6, <1>7, <1>8 DEF NssNext, GetGroup

\* The same for the groups: a pass delivers, in order and none twice, a prefix
\* of the groups that had a gid when its setgrent ran, on Linux without losing
\* one to a short buffer, until its own endgrent or, on Linux, a setpwent cuts
\* it short (nss_linux_nvos.c 229, 384-461).
THEOREM GroupsImplementEnumeration == NssSpec => GroupsEnumerate
<1>1. NssInit => Groups!EnumInit
  <2> SUFFICES ASSUME NssInit PROVE Groups!EnumInit
    OBVIOUS
  <2>1. be[Backend("group")] = Zero /\ got["group"] = <<>>
    BY DEF NssInit, Backend, DB
  <2>2. groupsLeft = <<>>
    BY <2>1 DEF groupsLeft, Zero
  <2> QED BY <2>1, <2>2, NamesOfNothing DEF Groups!EnumInit
<1>2. NssInv /\ [NssNext]_nssVars =>
          [Groups!EnumNext]_<<Names(groupsLeft), got["group"]>>
  <2> SUFFICES ASSUME NssInv, [NssNext]_nssVars
               PROVE  [Groups!EnumNext]_<<Names(groupsLeft), got["group"]>>
    OBVIOUS
  <2>1. GroupsStep
    BY StepOfGroups
  <2> QED BY <2>1 DEF GroupsStep, groupRest, Groups!EnumNext, Groups!Open,
                      Groups!Deliver, Groups!Skip, Groups!Close
<1> QED BY <1>1, <1>2, NssInitInv, NssNextInv, PTL
        DEF NssSpec, GroupsEnumerate, Groups!EnumSpec
=============================================================================
