------------------------------ MODULE Userland ------------------------------
(***************************************************************************)
(* The build gate: what "make publish" does in a component's directory.     *)
(*                                                                         *)
(* userland-fetch gets the component's archive from its own file, from the  *)
(* mirrors of DOWNLOAD_SEARCH_PATH and last from COMPONENT_ARCHIVE_URL, and *)
(* verifies it; userland-unpack unpacks it; configure, build and install    *)
(* follow, each in a recipe of its own; build-deb writes one .deb for each  *)
(* directory of debian/ into the repository.  The targets download, unpack  *)
(* and patch are no files, so make runs every recipe again each time, but   *)
(* for the archive's: it trusts an archive that is newer than the Makefile. *)
(* Content is the version it comes from, Bad if that is not what the        *)
(* Makefile's hash stands for or only a part of it, and None.               *)
(***************************************************************************)
EXTENDS Naturals, Sequences, FiniteSets

CONSTANTS
    Version,     \* versions of the component
    File,        \* files a component can install
    Installs,    \* Installs[v]: those that version v does
    Mirrors,     \* mirrors in DOWNLOAD_SEARCH_PATH
    Layouts,     \* debian/: sequences of [name, list, base, ok]
    Budget,      \* Budget[k]: how many events of kind k may happen
    Bad, None, NoList, NoDeb, Torn

Kinds   == {"outage", "stop", "ignored", "edit"}
Wrong   == {"bad", "corrupt"}
Content == Version \cup {Bad, None}

ASSUME UserlandAssumption ==
    /\ Version # {} /\ {Bad, None} \cap Version = {} /\ Bad # None
    /\ Installs \in [Version -> SUBSET File]
    /\ Mirrors \in Nat /\ Budget \in [Kinds -> Nat]
    /\ NoDeb # Torn /\ \A l \in SUBSET File : l # NoList
    /\ \A c \in [File -> Content] : c \notin {NoDeb, Torn}

\* What build-deb finds in a package's directory: its file list, a basepkg file,
\* and is the control information complete ?
Directories == [name : STRING, list : {NoList} \cup SUBSET File,
                base : BOOLEAN, ok : BOOLEAN]

\* A package is a directory, so no two have one name.  The shell sorts debian/*,
\* and the base package's name is the beginning of the others' in each component
\* that has one.
ASSUME LayoutsAssumption ==
    \A l \in Layouts :
        /\ l \in Seq(Directories) \ {<<>>}
        /\ \A i, j \in DOMAIN l : l[i].name = l[j].name => i = j
        /\ (\E i \in DOMAIN l : l[i].base) => l[1].base

VARIABLES
    version,     \* COMPONENT_VERSION in the Makefile
    hashed,      \* does the Makefile give a COMPONENT_ARCHIVE_HASH ?
    layout,      \* the packages of debian/, in the order of the shell's *
    archive,     \* archive[v]: "none", "good", "bad" or "corrupt": bad, and its
                 \* payload cannot be uncompressed
    newer,       \* versions whose archive is newer than the Makefile
    tree,        \* SOURCE_DIR of this version
    obj,         \* the build directory
    proto,       \* proto[f]: what the prototype area has of file f
    repo,        \* repo[p][v]: p's .deb of version v, or NoDeb, or Torn
    pc,          \* the recipe make is in
    turn,        \* the source it tries, or the package it builds
    status,      \* of the last make of this Makefile: 0, 2, or 1 for none yet
    left,        \* versions of which a fetch that died left a wrong archive
    spent        \* events of each kind so far

files    == <<tree, obj, proto, repo>>
setting  == <<version, hashed, layout>>
vars     == <<setting, archive, newer, files, pc, turn, status, left, spent>>

Names == UNION {{l[i].name : i \in DOMAIN l} : l \in Layouts}

Spend(k)  == spent[k] < Budget[k] /\ spent' = [spent EXCEPT ![k] = @ + 1]
Free      == UNCHANGED spent
Try(l, n) == pc' = l /\ turn' = n /\ UNCHANGED status
Goto(l)   == Try(l, 0)
Fail      == pc' = "idle" /\ turn' = 0 /\ status' = 2

----------------------------------------------------------------------------
\* make publish: the recipe of the archive runs if there is none or it is older
\* than the Makefile.
MakePublish ==
    /\ pc = "idle"
    /\ pc' = IF archive[version] = "none" \/ version \notin newer
             THEN "fetch" ELSE "unpack"
    /\ turn' = 0 /\ status' = 1
    /\ UNCHANGED <<setting, archive, newer, files, left, spent>>

\* The next of download_paths, or exit 1 after the last one, the URL.
NextSource ==
    IF turn > Mirrors THEN Fail ELSE Try("fetch", turn + 1)

\* One source: the file itself, if it is there, then the mirrors and the URL, by
\* download or by copying a file, which keeps its age.
Download ==
    /\ pc = "fetch"
    /\ \/ /\ turn = 0 /\ archive[version] # "none"
          /\ Try("validate", 0) /\ Free /\ UNCHANGED <<archive, newer>>
       \/ /\ turn = 0 /\ archive[version] = "none"
          /\ Try("fetch", 1) /\ Free /\ UNCHANGED <<archive, newer>>
       \/ /\ turn > 0
          /\ IF turn > Mirrors THEN Spend("outage") ELSE Free
          /\ NextSource /\ UNCHANGED <<archive, newer>>
       \/ /\ turn > 0
          /\ \E c \in {"good"} \cup Wrong :
                 /\ archive' = [archive EXCEPT ![version] = c]
                 /\ IF c \in Wrong /\ turn > Mirrors THEN Spend("outage") ELSE Free
          /\ newer' \in {newer, newer \cup {version}}
          /\ Try("validate", turn)
    /\ UNCHANGED <<setting, files, left>>

\* validate_container or validate_payload.
valid == archive[version] = "good" \/ ~hashed

\* Mutant: a file that does not validate stays.
ValidateKeeps ==
    /\ pc = "validate"
    /\ IF valid THEN Goto("touch") ELSE NextSource
    /\ UNCHANGED <<setting, archive, newer, files, left, spent>>

\* A file with another hash is removed and the next source is tried.  Reading
\* the payload of a corrupt one ends the script with zlib.error or EOFError,
\* which it does not catch: the file stays as it is.
Validate ==
    /\ pc = "validate"
    /\ \/ valid /\ Goto("touch") /\ UNCHANGED <<archive, left>>
       \/ /\ ~valid /\ archive[version] = "bad" /\ NextSource
          /\ archive' = [archive EXCEPT ![version] = "none"] /\ UNCHANGED left
       \/ /\ ~valid /\ archive[version] = "corrupt" /\ Fail
          /\ left' = left \cup {version} /\ UNCHANGED archive
    /\ UNCHANGED <<setting, newer, files, spent>>

Touch ==
    /\ pc = "touch"
    /\ newer' = newer \cup {version}
    /\ Goto("unpack")
    /\ UNCHANGED <<setting, archive, files, left, spent>>

\* What a fetch leaves that is cut off by an exception while it reads (exit 1),
\* by an interrupt of make, which removes the target, or by a power cut.
CutOff ==
    /\ pc \in {"fetch", "validate", "touch"}
    /\ \/ UNCHANGED <<archive, newer>>
       \/ /\ turn > 0 \/ pc = "touch"
          /\ archive' = [archive EXCEPT ![version] = "none"] /\ UNCHANGED newer
       \/ /\ turn > 0 /\ pc = "fetch"
          /\ archive' \in {[archive EXCEPT ![version] = c] : c \in Wrong}
          /\ newer' = newer \cup {version}
    /\ left' = left \cup {v \in {version} : turn > 0 /\ archive'[v] \in Wrong}
    /\ Fail /\ Spend("stop")
    /\ UNCHANGED <<setting, files>>

----------------------------------------------------------------------------
\* What userland-unpack makes of the archive.
Unpacked == IF archive[version] = "good" THEN {version} ELSE {Bad, None}

\* Mutant: SOURCE_DIR is not removed, and renaming over it fails.
UnpackOver ==
    /\ pc = "unpack"
    /\ IF tree # None THEN Fail /\ UNCHANGED tree
       ELSE tree' \in Unpacked /\ Goto("build")
    /\ UNCHANGED <<setting, archive, newer, obj, proto, repo, left, spent>>

\* .unpacked: rm -r, userland-unpack, touch.  The status of tar is not looked
\* at; touch fails if there is no directory.
Unpack ==
    /\ pc = "unpack"
    /\ \/ tree' \in Unpacked /\ Free
       \/ tree' = Bad /\ Spend("ignored")
    /\ IF tree' = None THEN Fail ELSE Goto("build")
    /\ UNCHANGED <<setting, archive, newer, obj, proto, repo, left>>

\* Mutant: the objects of an earlier build are kept.
BuildAgain ==
    /\ pc = "build"
    /\ obj' = IF obj = None THEN tree ELSE obj
    /\ Goto("install")
    /\ UNCHANGED <<setting, archive, newer, tree, proto, repo, left, spent>>

\* .configured, which empties the build directory, and .built.  An incomplete
\* tree may build all the same.
Build ==
    /\ pc = "build"
    /\ \/ obj' = tree /\ Goto("install")
       \/ tree = Bad /\ obj' \in {None, Bad} /\ Fail
    /\ UNCHANGED <<setting, archive, newer, tree, proto, repo, left, spent>>

\* .installed: nothing empties the prototype area.
Install ==
    /\ pc = "install"
    /\ proto' = [f \in File |-> IF f \in Installs[version] THEN obj ELSE proto[f]]
    /\ Goto("publish")
    /\ UNCHANGED <<setting, archive, newer, tree, obj, repo, left, spent>>

----------------------------------------------------------------------------
\* build-deb.  Packages without a file list, and those with a basepkg file.
Unlisted == {i \in DOMAIN layout : layout[i].list = NoList}
Bases    == {i \in DOMAIN layout : layout[i].base}

\* A list is generated if one is missing: for the first package, whichever
\* lacks it.
FileList(i) ==
    IF Unlisted # {} THEN IF i = 1 THEN {f \in File : proto[f] # None}
                          ELSE IF i \in Unlisted THEN {} ELSE layout[i].list
    ELSE layout[i].list

CheckLists ==
    /\ pc = "publish" /\ turn = 0
    /\ IF Cardinality(Unlisted) > 1 \/ Cardinality(Bases) > 1
       THEN Fail ELSE Try("publish", 1)
    /\ UNCHANGED <<setting, archive, newer, files, left, spent>>

\* The staged files: rsync leaves out, unnoticed, what is not installed.
Staged(i) == [f \in File |-> IF f \in FileList(i) THEN proto[f] ELSE None]

\* Mutant: the last package comes first.
PackageAtEnd == Len(layout) + 1 - turn

\* The package of this turn of the loop.
Package == turn

\* dpkg-deb writes the .deb of this turn.
Write(deb) == repo' = [repo EXCEPT ![layout[Package].name][version] = deb]

EndTurn(rc) ==
    \/ turn < Len(layout) /\ Try("publish", turn + 1)
    \/ turn = Len(layout) /\ pc' = "idle" /\ turn' = 0 /\ status' = rc

\* One turn of the loop: the control file, the staged files, dpkg-deb.  A failing
\* rsync goes unnoticed, and so does dpkg-deb's failure but for the last one.
PublishPackage ==
    /\ pc = "publish" /\ turn \in DOMAIN layout
    /\ \/ ~layout[Package].ok /\ Fail /\ Free /\ UNCHANGED repo
       \/ /\ layout[Package].ok
          /\ \/ Write(Staged(Package)) /\ EndTurn(0) /\ Free
             \/ Write([f \in File |-> None]) /\ EndTurn(0) /\ Spend("ignored")
             \/ UNCHANGED repo /\ EndTurn(2) /\ Spend("ignored")
    /\ UNCHANGED <<setting, archive, newer, tree, obj, proto, left>>

\* A command fails on which make stops, or the power is cut: what the recipe
\* has done so far stays.
Stop ==
    /\ \/ /\ pc = "unpack" /\ tree' \in {tree, None, Bad}
          /\ UNCHANGED <<obj, proto, repo>>
       \/ /\ pc = "build" /\ obj' \in {obj, None, Bad}
          /\ UNCHANGED <<tree, proto, repo>>
       \/ /\ pc = "install"
          /\ \E done \in SUBSET Installs[version] :
                 proto' = [f \in File |-> IF f \in done THEN obj ELSE proto[f]]
          /\ UNCHANGED <<tree, obj, repo>>
       \/ /\ pc = "publish"
          /\ \E torn \in SUBSET ({Package} \cap DOMAIN layout) :
                 repo' = [p \in Names |-> IF \E i \in torn : layout[i].name = p
                                         THEN [repo[p] EXCEPT ![version] = Torn]
                                         ELSE repo[p]]
          /\ UNCHANGED <<tree, obj, proto>>
    /\ Fail /\ Spend("stop")
    /\ UNCHANGED <<setting, archive, newer, left>>

----------------------------------------------------------------------------
\* make clean, and clobber, which takes the archive too.
Clean ==
    /\ pc = "idle"
    /\ tree' = None /\ obj' = None /\ proto' = [f \in File |-> None]
    /\ archive' \in {archive, [archive EXCEPT ![version] = "none"]}
    /\ UNCHANGED <<setting, newer, repo, pc, turn, status, left, spent>>

\* The Makefile is edited, to this version or to another one, whose SOURCE_DIR
\* has another name.
Edit ==
    /\ pc = "idle" /\ Spend("edit")
    /\ version' \in Version
    /\ newer' = {}
    /\ tree' = IF version' = version THEN tree ELSE None
    /\ status' = 1
    /\ UNCHANGED <<hashed, layout, archive, obj, proto, repo, pc, turn, left>>

Init ==
    /\ version \in Version /\ hashed \in BOOLEAN /\ layout \in Layouts
    /\ \E old \in {"none"} \cup Wrong : archive = [v \in Version |-> old]
    /\ newer = {}
    /\ tree = None /\ obj = None /\ proto = [f \in File |-> None]
    /\ repo = [p \in Names |-> [v \in Version |-> NoDeb]]
    /\ pc = "idle" /\ turn = 0 /\ status = 1 /\ left = {}
    /\ spent = [k \in Kinds |-> 0]

MakeStep == Download \/ Validate \/ Touch \/ Unpack \/ Build \/ Install
              \/ CheckLists \/ PublishPackage

Next == MakePublish \/ MakeStep \/ CutOff \/ Stop \/ Clean \/ Edit

\* make goes on until it ends, and is called again.
Spec == Init /\ [][Next]_vars /\ WF_vars(MakeStep) /\ WF_vars(MakePublish)

----------------------------------------------------------------------------
(* Properties.                                                             *)

\* debian/ is as build-deb expects it: the one package, or each with its list.
Proper ==
    /\ \A i \in DOMAIN layout : layout[i].ok
    /\ Unlisted = {} \/ Len(layout) = 1
    /\ Cardinality(Bases) <= 1

\* Package i of version v has each of its files, and has it from v.
Complete(i, v) ==
    /\ repo[layout[i].name][v] \notin {NoDeb, Torn}
    /\ \A f \in Installs[v] :
           i \in Unlisted \/ f \in layout[i].list => repo[layout[i].name][v][f] = v

\* Nothing that failed its hash is built into a package, whatever the mirrors
\* answer and whichever commands fail or are repeated, as long as no fetch dies
\* and leaves a wrong archive behind: cut off, or by an exception on an archive
\* that does not uncompress (userland-fetch 59-68, 229-261, prep-download.mk
\* 50-56).
SourceVerified ==
    hashed /\ left = {} /\ spent["ignored"] = 0 =>
        \A p \in Names, v \in Version :
            repo[p][v] \notin {NoDeb, Torn} => \A f \in File : repo[p][v][f] # Bad

\* When make publish succeeds on a good archive, every package is complete and
\* of the Makefile's version, whatever earlier makes left behind when they were
\* stopped and whatever version they built (prep-unpack.mk 43-47,
\* configure.mk 131-160, build-deb 94-327).
PublishedIsCurrent ==
    /\ pc = "idle" /\ status = 0 /\ spent["ignored"] = 0
    /\ archive[version] = "good" /\ Proper
    => \A i \in DOMAIN layout : Complete(i, version)

\* A package that requires its base package (= version) never stands in the
\* repository without it, also when make is stopped between the two: debian/*
\* names the base first (build-deb 94, 171-179).
BaseIsThere ==
    spent["ignored"] = 0 =>
        \A i \in DOMAIN layout, j \in Bases, v \in Version :
            repo[layout[i].name][v] # NoDeb => repo[layout[j].name][v] # NoDeb

\* However earlier makes have failed, one that is repeated completes the
\* packages of the Makefile's version in the end, unless a fetch of that version
\* died and left a wrong archive: make trusts that archive, or dies of it again.
Recovers ==
    [](version \notin left /\ hashed /\ Proper)
        => []<>(\A i \in DOMAIN layout : Complete(i, version))
=============================================================================
