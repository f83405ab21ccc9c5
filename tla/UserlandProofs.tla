--------------------------- MODULE UserlandProofs ---------------------------
(***************************************************************************)
(* The build gate for every set of versions, files and package layouts, any *)
(* number of mirrors and of outages, stops and edits: what is published was *)
(* verified, is complete and current, and never lacks its base package.     *)
(***************************************************************************)
EXTENDS Userland, FiniteSetTheorems, TLAPS

Debs == [File -> Content] \cup {NoDeb, Torn}

Types ==
    /\ version \in Version /\ hashed \in BOOLEAN /\ layout \in Layouts
    /\ archive \in [Version -> {"none", "good"} \cup Wrong]
    /\ newer \subseteq Version
    /\ tree \in Content /\ obj \in Content /\ proto \in [File -> Content]
    /\ repo \in [Names -> [Version -> Debs]]
    /\ pc \in {"idle", "fetch", "validate", "touch", "unpack", "build",
              "install", "publish"}
    /\ turn \in Nat /\ status \in 0..2 /\ left \subseteq Version
    /\ spent \in [Kinds -> Nat]

----------------------------------------------------------------------------
(* What is published was verified.                                         *)

\* The Makefile gives a hash, no fetch that died left a wrong archive, and no
\* failure was ignored.
Guarded == hashed /\ left = {} /\ spent["ignored"] = 0

\* An archive that make would not fetch again is a good one or is not there,
\* unless it has just been fetched and is about to be validated.
TrustedIsGood ==
    \A v \in newer : archive[v] \in {"none", "good"} \/ (v = version /\ pc = "validate")

\* While the sources are searched there is no archive.
SearchStartsBare == pc = "fetch" /\ turn > 0 => archive[version] = "none"

\* The component's own file is looked at only if it is older than the Makefile.
OwnIsOlder ==
    pc \in {"fetch", "validate"} /\ turn = 0 /\ archive[version] # "none" =>
        version \notin newer

\* From the touch on the work is done on a good archive and what comes of it.
GoodFromTouch ==
    /\ pc \in {"touch", "unpack"} => archive[version] = "good"
    /\ pc = "build"   => tree # Bad
    /\ pc = "install" => obj # Bad
    /\ \A f \in File : proto[f] # Bad

Verified ==
    Guarded => /\ TrustedIsGood /\ SearchStartsBare /\ OwnIsOlder
               /\ GoodFromTouch /\ SourceVerified

----------------------------------------------------------------------------
(* What a make publishes is complete and current.                          *)

Sound == spent["ignored"] = 0 /\ archive[version] = "good"

Current ==
    Sound =>
        /\ pc = "build"   => tree = version
        /\ pc = "install" => obj = version
        /\ pc = "publish" =>
              /\ \A f \in Installs[version] : proto[f] = version
              /\ Proper => \A i \in DOMAIN layout : i < turn => Complete(i, version)
        /\ pc = "idle" /\ status = 0 /\ Proper =>
              \A i \in DOMAIN layout : Complete(i, version)

----------------------------------------------------------------------------
(* No package without its base.                                            *)

\* A package is written only if at most the first one is a base package, and
\* after that one.
BaseFirst ==
    /\ pc = "publish" /\ turn > 0 => Bases \subseteq {1}
    /\ \A p \in Names, v \in Version : repo[p][v] # NoDeb => Bases \subseteq {1}
    /\ spent["ignored"] = 0 /\ pc = "publish" /\ turn > 1 =>
          \A j \in Bases : repo[layout[j].name][version] # NoDeb

Inv == Types /\ Verified /\ Current /\ BaseFirst /\ BaseIsThere

----------------------------------------------------------------------------
\* The package of a turn of build-deb's loop has a name, flags and a list.
LEMMA PackageTypes ==
    ASSUME Types, NEW i \in DOMAIN layout
    PROVE  /\ i \in 1..Len(layout) /\ Len(layout) \in Nat
           /\ layout[i].name \in Names
           /\ layout[i].list \in (SUBSET File) \cup {NoList}
           /\ layout[i].base \in BOOLEAN /\ layout[i].ok \in BOOLEAN
<1>1. layout \in Seq(Directories)
    BY LayoutsAssumption DEF Types
<1>2. layout[i].name \in Names
    BY DEF Types, Names
<1>3. i \in 1..Len(layout) /\ Len(layout) \in Nat
    BY <1>1
<1>4. layout[i] \in Directories
    BY <1>1, <1>3
<1> QED
    BY <1>2, <1>3, <1>4 DEF Directories

\* Where dpkg-deb writes a package.
LEMMA WriteTypes ==
    ASSUME Types, NEW p \in Names, NEW d \in Debs
    PROVE  /\ [repo EXCEPT ![p][version] = d] \in [Names -> [Version -> Debs]]
           /\ \A q \in Names, v \in Version :
                 [repo EXCEPT ![p][version] = d][q][v] =
                     IF q = p /\ v = version THEN d ELSE repo[q][v]
BY DEF Types

LEMMA SpendTypes ==
    ASSUME Types, NEW k \in Kinds
    PROVE  /\ Spend(k) => spent' \in [Kinds -> Nat]
           /\ Free => spent' \in [Kinds -> Nat]
BY DEF Types, Spend, Free

LEMMA StagedTypes ==
    ASSUME Types, NEW i
    PROVE  Staged(i) \in [File -> Content]
BY DEF Types, Staged, Content

LEMMA TypesInit == Init => Types
BY UserlandAssumption DEF Init, Types, Content, Debs, Kinds, Wrong

LEMMA TypesStep == Types /\ [Next]_vars => Types'
<1> SUFFICES ASSUME Types, [Next]_vars PROVE Types'
    OBVIOUS
<1> USE UserlandAssumption DEF Types, setting, files, Try, Goto, Fail, Free, Wrong
<1>1. CASE MakePublish
    BY <1>1 DEF MakePublish
<1>2. CASE Download
    <2>1. spent' \in [Kinds -> Nat]
        BY <1>2, SpendTypes DEF Download, Kinds
    <2> QED
        BY <1>2, <2>1 DEF Download, NextSource
<1>3. CASE Validate
    BY <1>3 DEF Validate, NextSource
<1>4. CASE Touch
    BY <1>4 DEF Touch
<1>5. CASE CutOff
    <2>1. spent' \in [Kinds -> Nat]
        BY <1>5, SpendTypes DEF CutOff, Kinds
    <2> QED
        BY <1>5, <2>1 DEF CutOff
<1>6. CASE Unpack
    <2>1. spent' \in [Kinds -> Nat]
        BY <1>6, SpendTypes DEF Unpack, Kinds
    <2>2. tree' \in Content
        BY <1>6 DEF Unpack, Unpacked, Content
    <2> QED
        BY <1>6, <2>1, <2>2 DEF Unpack
<1>7. CASE Build
    BY <1>7 DEF Build, Content
<1>8. CASE Install
    BY <1>8 DEF Install
<1>9. CASE CheckLists
    BY <1>9 DEF CheckLists
<1>10. CASE PublishPackage
    <2>1. spent' \in [Kinds -> Nat]
        BY <1>10, SpendTypes DEF PublishPackage, Kinds
    <2>2. turn \in DOMAIN layout /\ layout[turn].name \in Names /\ version \in Version
        BY <1>10, PackageTypes DEF PublishPackage
    <2>3. /\ Staged(turn) \in Debs
          /\ [f \in File |-> None] \in Debs
        BY StagedTypes DEF Debs, Content
    <2>4. repo' \in [Names -> [Version -> Debs]]
        <3>1. repo' = repo \/ \E d \in Debs :
                  repo' = [repo EXCEPT ![layout[turn].name][version] = d]
            BY <1>10, <2>3 DEF PublishPackage, Write, Package
        <3>2. ASSUME NEW d \in Debs,
                     repo' = [repo EXCEPT ![layout[turn].name][version] = d]
              PROVE  repo' \in [Names -> [Version -> Debs]]
            BY <2>2, <3>2, WriteTypes
        <3> QED
            BY <3>1, <3>2
    <2>5. pc' \in {"idle", "publish"} /\ turn' \in Nat /\ status' \in 0..2
        BY <1>10 DEF PublishPackage, EndTurn
    <2> QED
        BY <1>10, <2>1, <2>4, <2>5 DEF PublishPackage
<1>11. CASE Stop
    <2>1. spent' \in [Kinds -> Nat]
        BY <1>11, SpendTypes DEF Stop, Kinds
    <2>2. tree' \in Content /\ obj' \in Content /\ proto' \in [File -> Content]
        BY <1>11 DEF Stop, Content
    <2>3. repo' \in [Names -> [Version -> Debs]]
        <3>0. repo \in [Names -> [Version -> Debs]] /\ Torn \in Debs
            BY DEF Types, Debs
        <3>1. repo' = repo \/ \E torn \in SUBSET ({Package} \cap DOMAIN layout) :
                  repo' = [p \in Names |-> IF \E i \in torn : layout[i].name = p
                                          THEN [repo[p] EXCEPT ![version] = Torn]
                                          ELSE repo[p]]
            BY <1>11, Zenon DEF Stop
        <3>2. \A p \in Names : /\ repo[p] \in [Version -> Debs]
                              /\ [repo[p] EXCEPT ![version] = Torn] \in [Version -> Debs]
            <4> SUFFICES ASSUME NEW p \in Names, NEW r, r = repo[p]
                         PROVE  /\ r \in [Version -> Debs]
                                /\ [r EXCEPT ![version] = Torn] \in [Version -> Debs]
                OBVIOUS
            <4>1. r \in [Version -> Debs]
                BY <3>0
            <4> HIDE DEF Debs
            <4> QED
                BY <3>0, <4>1
        <3>3. ASSUME NEW torn
              PROVE  [p \in Names |-> IF \E i \in torn : layout[i].name = p
                                      THEN [repo[p] EXCEPT ![version] = Torn]
                                      ELSE repo[p]] \in [Names -> [Version -> Debs]]
            <4> DEFINE after(p) == IF \E i \in torn : layout[i].name = p
                                   THEN [repo[p] EXCEPT ![version] = Torn] ELSE repo[p]
            <4>1. \A p \in Names : after(p) \in [Version -> Debs]
                BY <3>2, Zenon
            <4> HIDE DEF after
            <4>2. [p \in Names |-> after(p)] \in [Names -> [Version -> Debs]]
                BY <4>1, Zenon
            <4> QED
                BY <4>2 DEF after
        <3>4. CASE repo' = repo
            BY <3>0, <3>4
        <3>5. CASE repo' # repo
            <4>1. PICK torn \in SUBSET ({Package} \cap DOMAIN layout) :
                  repo' = [p \in Names |-> IF \E i \in torn : layout[i].name = p
                                          THEN [repo[p] EXCEPT ![version] = Torn]
                                          ELSE repo[p]]
                BY <3>1, <3>5, Zenon
            <4> QED
                BY <3>3, <4>1, Zenon
        <3> QED
            BY <3>4, <3>5
    <2> QED
        BY <1>11, <2>1, <2>2, <2>3 DEF Stop
<1>12. CASE Clean
    BY <1>12 DEF Clean, Content
<1>13. CASE Edit
    <2>1. spent' \in [Kinds -> Nat]
        BY <1>13, SpendTypes DEF Edit, Kinds
    <2> QED
        BY <1>13, <2>1 DEF Edit, Content
<1>14. CASE UNCHANGED vars
    BY <1>14 DEF vars
<1> QED
    BY <1>1, <1>2, <1>3, <1>4, <1>5, <1>6, <1>7, <1>8, <1>9, <1>10, <1>11, <1>12,
       <1>13, <1>14 DEF Next, MakeStep

----------------------------------------------------------------------------
\* Events are only counted up; hash and packages are the Makefile's throughout.
LEMMA CountsGrow ==
    ASSUME Types, [Next]_vars
    PROVE  /\ UNCHANGED <<hashed, layout>> /\ left \subseteq left'
           /\ \A k \in Kinds : spent'[k] = 0 => spent[k] = 0
<1>0. left \subseteq left'
    BY DEF Next, MakeStep, vars, MakePublish, Download, Validate, Touch, CutOff,
           Unpack, Build, Install, CheckLists, PublishPackage, Stop, Clean, Edit
<1>1. UNCHANGED <<hashed, layout>> /\ (spent' = spent \/ \E k \in Kinds : Spend(k))
    BY DEF Next, MakeStep, vars, setting, Free, Kinds, MakePublish, Download,
           Validate, Touch, CutOff, Unpack, Build, Install, CheckLists,
           PublishPackage, Stop, Clean, Edit
<1>2. ASSUME NEW k \in Kinds, Spend(k), NEW l \in Kinds, spent'[l] = 0
      PROVE  spent[l] = 0
    BY <1>2 DEF Types, Spend
<1> QED
    BY <1>0, <1>1, <1>2

LEMMA GuardedBefore ==
    ASSUME Types, [Next]_vars, Guarded'
    PROVE  Guarded /\ left' = {} /\ ~Spend("ignored")
<1>1. Guarded
    BY CountsGrow DEF Guarded, Kinds
<1>2. left' = {} /\ ~Spend("ignored")
    BY <1>1 DEF Types, Kinds, Guarded, Spend
<1> QED
    BY <1>1, <1>2

LEMMA VerifiedStep ==
    ASSUME Types, Verified, [Next]_vars
    PROVE  Verified'
<1> SUFFICES ASSUME Guarded'
             PROVE  /\ TrustedIsGood' /\ SearchStartsBare' /\ OwnIsOlder'
                    /\ GoodFromTouch' /\ SourceVerified'
    BY DEF Verified
<1>1. /\ Guarded /\ left' = {} /\ ~Spend("ignored")
      /\ TrustedIsGood /\ SearchStartsBare /\ OwnIsOlder
      /\ GoodFromTouch /\ SourceVerified
    BY GuardedBefore DEF Verified
<1> USE UserlandAssumption DEF Types, setting, files, Try, Goto, Fail, Free
<1>2. CASE MakePublish
    BY <1>1, <1>2 DEF MakePublish, TrustedIsGood, SearchStartsBare, OwnIsOlder, GoodFromTouch,
                      SourceVerified, Guarded
<1>3. CASE Download
    BY <1>1, <1>3 DEF Download, NextSource, TrustedIsGood, SearchStartsBare, OwnIsOlder,
                      GoodFromTouch, SourceVerified, Guarded
<1>4. CASE Validate
    BY <1>1, <1>4 DEF Validate, valid, Wrong, NextSource, TrustedIsGood, SearchStartsBare, OwnIsOlder,
                      GoodFromTouch, SourceVerified, Guarded
<1>5. CASE Touch
    BY <1>1, <1>5 DEF Touch, TrustedIsGood, SearchStartsBare, OwnIsOlder, GoodFromTouch,
                      SourceVerified, Guarded
<1>6. CASE CutOff
    <2>1. TrustedIsGood'
        BY <1>1, <1>6 DEF CutOff, Wrong, TrustedIsGood, SearchStartsBare, OwnIsOlder,
                          GoodFromTouch
    <2> QED
        BY <1>1, <1>6, <2>1 DEF CutOff, SearchStartsBare, OwnIsOlder, GoodFromTouch,
                                SourceVerified, Guarded
<1>7. CASE Unpack
    BY <1>1, <1>7 DEF Unpack, Unpacked, TrustedIsGood, SearchStartsBare, OwnIsOlder, GoodFromTouch,
                      SourceVerified, Guarded
<1>8. CASE Build
    BY <1>1, <1>8 DEF Build, TrustedIsGood, SearchStartsBare, OwnIsOlder, GoodFromTouch,
                      SourceVerified, Guarded
<1>9. CASE Install
    BY <1>1, <1>9 DEF Install, TrustedIsGood, SearchStartsBare, OwnIsOlder, GoodFromTouch,
                      SourceVerified, Guarded
<1>10. CASE CheckLists
    BY <1>1, <1>10 DEF CheckLists, TrustedIsGood, SearchStartsBare, OwnIsOlder, GoodFromTouch,
                      SourceVerified, Guarded
<1>11. CASE PublishPackage
    <2>1. TrustedIsGood' /\ SearchStartsBare' /\ OwnIsOlder' /\ GoodFromTouch'
        BY <1>1, <1>11 DEF PublishPackage, EndTurn, TrustedIsGood, SearchStartsBare, OwnIsOlder,
                           GoodFromTouch
    <2>2. SourceVerified'
        <3>1. CASE UNCHANGED repo
            BY <1>1, <3>1 DEF SourceVerified, Guarded
        <3>2. CASE Write(Staged(turn))
            <4>1. turn \in DOMAIN layout /\ layout[turn].name \in Names
                BY <1>11, PackageTypes DEF PublishPackage
            <4>2. \A f \in File : Staged(turn)[f] # Bad
                BY <1>1 DEF Staged, GoodFromTouch
            <4>3. Staged(turn) \in Debs
                BY StagedTypes DEF Debs
            <4>4. \A q \in Names, v \in Version :
                      repo'[q][v] = repo[q][v] \/ repo'[q][v] = Staged(turn)
                BY <3>2, <4>1, <4>3, WriteTypes DEF Write, Package
            <4> QED
                BY <1>1, <4>2, <4>4 DEF SourceVerified, Guarded
        <3> QED
            BY <1>1, <1>11, <3>1, <3>2 DEF PublishPackage, Package
    <2> QED
        BY <2>1, <2>2
<1>12. CASE Stop
    <2>1. TrustedIsGood' /\ SearchStartsBare' /\ OwnIsOlder' /\ GoodFromTouch'
        BY <1>1, <1>12 DEF Stop, TrustedIsGood, SearchStartsBare, OwnIsOlder, GoodFromTouch
    <2>2. \A p \in Names, v \in Version :
              repo'[p][v] = repo[p][v] \/ repo'[p][v] = Torn
        <3> SUFFICES ASSUME NEW p \in Names, NEW v \in Version
                     PROVE  repo'[p][v] = repo[p][v] \/ repo'[p][v] = Torn
            OBVIOUS
        <3>1. repo'[p] = repo[p] \/ repo'[p] = [repo[p] EXCEPT ![version] = Torn]
            BY <1>12 DEF Stop
        <3>2. repo[p] \in [Version -> Debs]
            OBVIOUS
        <3> QED
            BY <3>1, <3>2
    <2>3. SourceVerified'
        BY <1>1, <2>2 DEF SourceVerified, Guarded
    <2> QED
        BY <2>1, <2>3
<1>13. CASE Clean
    BY <1>1, <1>13 DEF Clean, TrustedIsGood, SearchStartsBare, OwnIsOlder, GoodFromTouch,
                       SourceVerified, Guarded
<1>14. CASE Edit
    BY <1>1, <1>14 DEF Edit, TrustedIsGood, SearchStartsBare, OwnIsOlder, GoodFromTouch,
                       SourceVerified, Guarded
<1>15. CASE UNCHANGED vars
    BY <1>1, <1>15 DEF vars, TrustedIsGood, SearchStartsBare, OwnIsOlder, GoodFromTouch,
                       SourceVerified, Guarded
<1> QED
    BY <1>2, <1>3, <1>4, <1>5, <1>6, <1>7, <1>8, <1>9, <1>10, <1>11, <1>12, <1>13,
       <1>14, <1>15 DEF Next, MakeStep

----------------------------------------------------------------------------
\* A proper layout has one package, or each has its list: what is staged for
\* package i is what is installed.
LEMMA StagedIsInstalled ==
    ASSUME Types, Proper, NEW i \in DOMAIN layout,
           \A f \in Installs[version] : proto[f] = version
    PROVE  \A f \in Installs[version] :
               i \in Unlisted \/ f \in layout[i].list => Staged(i)[f] = version
<1> SUFFICES ASSUME NEW f \in Installs[version],
                    i \in Unlisted \/ f \in layout[i].list
             PROVE  Staged(i)[f] = version
    OBVIOUS
<1>1. f \in File /\ proto[f] = version /\ version # None
    BY UserlandAssumption DEF Types
<1>2. f \in FileList(i)
    <2>1. CASE Unlisted = {}
        BY <2>1 DEF FileList
    <2>2. CASE Len(layout) = 1
        <3>1. i = 1
            BY <2>2, PackageTypes
        <3> QED
            BY <1>1, <3>1 DEF FileList, Unlisted
    <2> QED
        BY <2>1, <2>2 DEF Proper
<1> QED
    BY <1>1, <1>2 DEF Staged

\* dpkg-deb of the package whose turn it is completes that one, and leaves the
\* packages of other names alone.
LEMMA WriteCompletes ==
    ASSUME Types, Proper, turn \in DOMAIN layout, Write(Staged(turn)),
           UNCHANGED setting,
           \A f \in Installs[version] : proto[f] = version,
           \A i \in DOMAIN layout : i < turn => Complete(i, version)
    PROVE  \A i \in DOMAIN layout : i < turn + 1 => Complete(i, version)'
<1> SUFFICES ASSUME NEW i \in DOMAIN layout, i < turn + 1
             PROVE  Complete(i, version)'
    OBVIOUS
<1>1. /\ layout[turn].name \in Names /\ layout[i].name \in Names
      /\ i \in Nat /\ turn \in Nat /\ version \in Version
    BY PackageTypes DEF Types
<1>2. Staged(turn) \in Debs /\ Staged(turn) \notin {NoDeb, Torn}
    BY StagedTypes, UserlandAssumption DEF Debs
<1>3. repo'[layout[i].name][version] =
          IF i = turn THEN Staged(turn) ELSE repo[layout[i].name][version]
    <2>1. layout[i].name = layout[turn].name => i = turn
        BY LayoutsAssumption DEF Types
    <2> QED
        BY <1>1, <1>2, <2>1, WriteTypes DEF Write, Package
<1>4. CASE i = turn
    BY <1>2, <1>3, <1>4, StagedIsInstalled DEF Complete, setting, Unlisted
<1>5. CASE i < turn
    BY <1>1, <1>3, <1>5 DEF Complete, setting, Unlisted
<1> QED
    BY <1>1, <1>4, <1>5

LEMMA CurrentStep ==
    ASSUME Types, Current, [Next]_vars
    PROVE  Current'
<1> SUFFICES ASSUME Sound' PROVE Current'
    BY DEF Current
<1>1. /\ spent["ignored"] = 0 /\ ~Spend("ignored")
      /\ UNCHANGED layout
    <2>1. spent["ignored"] = 0 /\ UNCHANGED layout
        BY CountsGrow DEF Sound, Kinds
    <2>2. ~Spend("ignored")
        BY <2>1 DEF Types, Kinds, Sound, Spend
    <2> QED
        BY <2>1, <2>2
<1> USE UserlandAssumption DEF Types, setting, files, Try, Goto, Fail, Free
<1>2. CASE MakePublish
    BY <1>2 DEF MakePublish, Current
<1>3. CASE Download
    BY <1>3 DEF Download, NextSource, Current
<1>4. CASE Validate
    BY <1>4 DEF Validate, NextSource, Current
<1>5. CASE Touch
    BY <1>5 DEF Touch, Current
<1>6. CASE CutOff
    BY <1>6 DEF CutOff, Current
<1>7. CASE Unpack
    BY <1>1, <1>7 DEF Unpack, Unpacked, Current, Sound
<1>8. CASE Build
    BY <1>1, <1>8 DEF Build, Current, Sound
<1>9. CASE Install
    <2>1. \A i \in DOMAIN layout : ~(i < 0)
        BY PackageTypes
    <2>2. Sound /\ pc = "install" /\ pc' = "publish" /\ turn' = 0 /\ UNCHANGED version
        BY <1>1, <1>9 DEF Install, Sound
    <2>3. \A f \in Installs[version] : proto'[f] = version
        BY <1>9, <2>2 DEF Install, Current
    <2> QED
        BY <1>1, <2>1, <2>2, <2>3 DEF Current
<1>10. CASE CheckLists
    BY <1>1, <1>10, PackageTypes DEF CheckLists, Current, Sound
<1>11. CASE PublishPackage
    <2>1. /\ turn \in DOMAIN layout /\ turn \in 1..Len(layout)
          /\ \A i \in DOMAIN layout : i \in 1..Len(layout)
          /\ Len(layout) \in Nat
        BY <1>11, PackageTypes DEF PublishPackage
    <2>2. Sound /\ pc = "publish" /\ UNCHANGED <<version, archive, proto>>
        BY <1>1, <1>11 DEF PublishPackage, Sound
    <2>3. \A f \in Installs[version] : proto[f] = version
        BY <2>2 DEF Current
    <2>4. Proper' = Proper
        BY <1>1 DEF Proper, Unlisted, Bases
    <2>5. CASE Write(Staged(turn)) /\ EndTurn(0)
        <3>1. ASSUME Proper
              PROVE  \A i \in DOMAIN layout : i < turn + 1 => Complete(i, version)'
            BY <1>1, <1>11, <2>1, <2>2, <2>3, <2>5, <3>1, WriteCompletes
            DEF Current, PublishPackage
        <3>2. CASE turn < Len(layout)
            BY <1>1, <2>1, <2>2, <2>3, <2>4, <2>5, <3>1, <3>2 DEF Current, EndTurn
        <3>3. CASE turn = Len(layout)
            BY <1>1, <2>1, <2>2, <2>3, <2>4, <2>5, <3>1, <3>3 DEF Current, EndTurn
        <3> QED
            BY <2>1, <3>2, <3>3
    <2>6. CASE Fail
        BY <2>6 DEF Current
    <2> QED
        BY <1>1, <1>11, <2>5, <2>6 DEF PublishPackage, Package
<1>12. CASE Stop
    BY <1>12 DEF Stop, Current
<1>13. CASE Clean
    <2>1. Sound /\ pc = "idle" /\ UNCHANGED <<version, repo, pc, status>>
        BY <1>1, <1>13 DEF Clean, Sound
    <2>2. Proper' = Proper /\ \A i : Complete(i, version)' = Complete(i, version)
        BY <1>1, <2>1 DEF Proper, Complete, Unlisted, Bases
    <2> QED
        BY <1>1, <2>1, <2>2 DEF Current
<1>14. CASE Edit
    BY <1>14 DEF Edit, Current
<1>15. CASE UNCHANGED vars
    BY <1>1, <1>15 DEF vars, Current, Sound, Proper, Complete, Unlisted, Bases
<1> QED
    BY <1>2, <1>3, <1>4, <1>5, <1>6, <1>7, <1>8, <1>9, <1>10, <1>11, <1>12, <1>13,
       <1>14, <1>15 DEF Next, MakeStep

----------------------------------------------------------------------------
\* build-deb goes on past its tests only if at most the first package is a base.
LEMMA OneBaseIsFirst ==
    ASSUME Types, ~(Cardinality(Bases) > 1)
    PROVE  Bases \subseteq {1}
<1> SUFFICES ASSUME NEW i \in Bases, i # 1 PROVE FALSE
    OBVIOUS
<1>1. layout \in Seq(Directories) \ {<<>>}
    BY LayoutsAssumption DEF Types
<1>2. DOMAIN layout = 1..Len(layout) /\ Len(layout) \in Nat
    BY <1>1
<1>3. {1, i} \subseteq Bases
    <2>1. i \in DOMAIN layout /\ layout[i].base
        BY DEF Bases
    <2>2. layout[1].base
        BY <2>1, LayoutsAssumption DEF Types
    <2>3. 1 \in DOMAIN layout
        BY <1>2, <2>1
    <2> QED
        BY <2>1, <2>2, <2>3 DEF Bases
<1>4. IsFiniteSet(Bases)
    <2>1. IsFiniteSet(1..Len(layout))
        BY <1>2, FS_Interval
    <2>2. Bases \subseteq 1..Len(layout)
        BY <1>2 DEF Bases
    <2> QED
        BY <2>1, <2>2, FS_Subset
<1>5. Cardinality({1, i}) = 2
    <2>1. IsFiniteSet({1}) /\ Cardinality({1}) = 1
        BY FS_Singleton
    <2>2. Cardinality({1} \cup {i}) = Cardinality({1}) + 1
        BY <2>1, FS_AddElement
    <2>3. {1} \cup {i} = {1, i}
        OBVIOUS
    <2> QED
        BY <2>1, <2>2, <2>3
<1>6. Cardinality({1, i}) <= Cardinality(Bases) /\ Cardinality(Bases) \in Nat
    BY <1>3, <1>4, FS_Subset, FS_CardinalityType
<1> QED
    BY <1>5, <1>6

LEMMA BaseStep ==
    ASSUME Types, BaseFirst, BaseIsThere, [Next]_vars
    PROVE  BaseFirst' /\ BaseIsThere'
<1>1. UNCHANGED layout /\ Bases' = Bases
    BY CountsGrow DEF Bases
<1>2. spent'["ignored"] = 0 => spent["ignored"] = 0 /\ ~Spend("ignored")
    BY CountsGrow DEF Types, Kinds, Spend
<1> USE DEF Types, setting, files, Try, Goto, Fail, Free
<1>3. CASE UNCHANGED repo /\ (pc' # "publish" \/ turn' = 0)
    BY <1>1, <1>2, <1>3 DEF BaseFirst, BaseIsThere
<1>4. CASE CheckLists
    <2>1. pc' # "publish" \/ (turn' = 1 /\ Bases \subseteq {1})
        BY <1>4, OneBaseIsFirst DEF CheckLists
    <2> QED
        BY <1>1, <1>2, <1>4, <2>1 DEF CheckLists, BaseFirst, BaseIsThere
<1>5. CASE PublishPackage
    <2>1. /\ turn \in DOMAIN layout /\ turn \in 1..Len(layout) /\ pc = "publish"
          /\ layout[turn].name \in Names
        BY <1>5, PackageTypes DEF PublishPackage
    <2>2. Bases \subseteq {1}
        BY <2>1 DEF BaseFirst
    <2>3. CASE Fail /\ UNCHANGED repo
        BY <1>3, <2>3
    <2>4. ASSUME NEW d \in Debs, d # NoDeb, Write(d), UNCHANGED version,
                 pc' = "idle" \/ (pc' = "publish" /\ turn' = turn + 1)
          PROVE  BaseFirst' /\ BaseIsThere'
        <3>1. \A q \in Names, v \in Version :
                  repo'[q][v] = IF q = layout[turn].name /\ v = version THEN d
                                ELSE repo[q][v]
            BY <2>1, <2>4, WriteTypes DEF Write, Package
        <3>2. spent'["ignored"] = 0 =>
                  \A j \in Bases : repo'[layout[j].name][version] # NoDeb
            <4> SUFFICES ASSUME spent'["ignored"] = 0, NEW j \in Bases
                         PROVE  repo'[layout[j].name][version] # NoDeb
                OBVIOUS
            <4>1. j = 1 /\ layout[j].name \in Names
                BY <2>2, PackageTypes DEF Bases
            <4> QED
                BY <1>2, <2>1, <2>4, <3>1, <4>1 DEF BaseFirst
        <3>3. BaseFirst'
            BY <1>1, <2>2, <2>4, <3>2 DEF BaseFirst
        <3>4. BaseIsThere'
            <4> SUFFICES ASSUME spent'["ignored"] = 0, NEW i \in DOMAIN layout,
                                NEW j \in Bases, NEW v \in Version,
                                repo'[layout[i].name][v] # NoDeb
                         PROVE  repo'[layout[j].name][v] # NoDeb
                BY <1>1 DEF BaseIsThere
            <4>1. layout[i].name \in Names /\ layout[j].name \in Names
                BY PackageTypes DEF Bases
            <4>2. CASE v = version
                BY <3>2, <4>2
            <4>3. CASE v # version
                BY <1>2, <3>1, <4>1, <4>3 DEF BaseIsThere
            <4> QED
                BY <4>2, <4>3
        <3> QED
            BY <3>3, <3>4
    <2>5. /\ Staged(turn) \in Debs /\ Staged(turn) # NoDeb
          /\ [f \in File |-> None] \in Debs /\ [f \in File |-> None] # NoDeb
        <3>1. Staged(turn) \in [File -> Content] /\ [f \in File |-> None] \in [File -> Content]
            BY StagedTypes DEF Content
        <3> QED
            BY <3>1, UserlandAssumption DEF Debs
    <2>6. CASE UNCHANGED repo /\ EndTurn(2) /\ Spend("ignored")
        BY <1>1, <1>2, <2>1, <2>2, <2>6 DEF EndTurn, BaseFirst, BaseIsThere
    <2> QED
        BY <1>5, <2>3, <2>4, <2>5, <2>6 DEF PublishPackage, EndTurn, Package
<1>6. CASE Stop
    <2>1. CASE UNCHANGED repo
        BY <1>3, <1>6, <2>1 DEF Stop
    <2>2. CASE pc = "publish" /\ repo' # repo
        <3>1. /\ turn \in DOMAIN layout
              /\ \A q \in Names, v \in Version :
                    repo'[q][v] = IF q = layout[turn].name /\ v = version THEN Torn
                                  ELSE repo[q][v]
            BY <1>6, <2>2 DEF Stop, Package
        <3>2. turn \in 1..Len(layout) /\ Bases \subseteq {1} /\ Torn # NoDeb
            BY <2>2, <3>1, PackageTypes, UserlandAssumption DEF BaseFirst
        <3>3. BaseFirst'
            BY <1>1, <1>6, <3>2 DEF Stop, BaseFirst
        <3>4. BaseIsThere'
            <4> SUFFICES ASSUME spent'["ignored"] = 0, NEW i \in DOMAIN layout,
                                NEW j \in Bases, NEW v \in Version,
                                repo'[layout[i].name][v] # NoDeb
                         PROVE  repo'[layout[j].name][v] # NoDeb
                BY <1>1 DEF BaseIsThere
            <4>1. /\ layout[i].name \in Names /\ layout[j].name \in Names
                  /\ j = 1
                BY <3>2, PackageTypes DEF Bases
            <4>2. CASE v = version
                BY <1>2, <2>2, <3>1, <3>2, <4>1, <4>2 DEF BaseFirst
            <4>3. CASE v # version
                BY <1>2, <3>1, <4>1, <4>3 DEF BaseIsThere
            <4> QED
                BY <4>2, <4>3
        <3> QED
            BY <3>3, <3>4
    <2> QED
        BY <1>6, <2>1, <2>2 DEF Stop
<1>7. CASE UNCHANGED vars
    BY <1>1, <1>7 DEF vars, BaseFirst, BaseIsThere
<1>8. CASE MakePublish \/ Download \/ Validate \/ Touch \/ CutOff \/ Unpack \/ Build
             \/ Install \/ Clean \/ Edit
    BY <1>3, <1>8 DEF MakePublish, Download, NextSource, Validate, Touch, CutOff,
                      Unpack, Build, Install, Clean, Edit
<1> QED
    BY <1>4, <1>5, <1>6, <1>7, <1>8 DEF Next, MakeStep

----------------------------------------------------------------------------
LEMMA InitInv == Init => Inv
<1> SUFFICES ASSUME Init PROVE Inv
    OBVIOUS
<1>1. Types
    BY TypesInit
<1>2. Verified
    BY UserlandAssumption DEF Init, Verified, TrustedIsGood, SearchStartsBare, OwnIsOlder,
                              GoodFromTouch, SourceVerified, Names
<1>3. Current
    BY DEF Init, Current
<1>4. BaseFirst /\ BaseIsThere
    BY <1>1, PackageTypes DEF Init, BaseFirst, BaseIsThere
<1> QED
    BY <1>1, <1>2, <1>3, <1>4 DEF Inv

LEMMA NextInv == Inv /\ [Next]_vars => Inv'
BY TypesStep, VerifiedStep, CurrentStep, BaseStep DEF Inv

\* No archive that failed its hash reaches a package, for any mirrors, layouts
\* and numbers of outages, stops and edits, unless a fetch dies, cut off or of an
\* archive that does not uncompress, and leaves a wrong archive behind
\* (userland-fetch 59-68, 229-261).
THEOREM PublishedIsVerified == Spec => []SourceVerified
<1>1. Inv => SourceVerified
    BY DEF Inv, Verified, Guarded, SourceVerified
<1> QED
    BY <1>1, InitInv, NextInv, PTL DEF Spec

\* A make publish that succeeds on a good archive leaves every package of a
\* proper layout complete and of the Makefile's version, whatever the makes
\* before it left behind.
THEOREM SuccessIsCurrent == Spec => []PublishedIsCurrent
<1>1. Inv => PublishedIsCurrent
    BY DEF Inv, Current, Sound, PublishedIsCurrent
<1> QED
    BY <1>1, InitInv, NextInv, PTL DEF Spec

\* No package that requires the base package is in the repository without it,
\* wherever makes are stopped.
THEOREM BaseIsNeverMissing == Spec => []BaseIsThere
<1>1. Inv => BaseIsThere
    BY DEF Inv
<1> QED
    BY <1>1, InitInv, NextInv, PTL DEF Spec
=============================================================================
