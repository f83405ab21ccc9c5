# Verification of the Pluribus Linux userland: boot environments, name service, AVL trees and the build gate

This directory holds TLA+ specifications of the logic the Pluribus userland
gate owns, the TLC configurations that check them on small instances, and TLAPS
proofs of their safety properties. Paths below are relative to the
repository root.

## 1. The system

The gate (`README`, `make-rules/`, `tools/`) fetches, patches, builds and
packages software for Pluribus switches. Almost everything under `components/`
is vendored (FRR, Open vSwitch, systemd, LXC, OpenSSH, Net-SNMP, ipmitool,
linuxptp, wpa_supplicant, libedit, ifupdown, cbitset). The logic written for
these switches is in a few places:

| component | source | state it keeps | operations |
|---|---|---|---|
| beadm | `components/bootenv-tools/bootenv-tools-src/beadm` | btrfs subvolumes with `.bootable` markers and fstabs, quota groups, `/etc/grub.d/50_custom_*`, `grub.cfg`, `grubenv` | create, destroy, activate, list |
| apt-wrapper | `.../apt-wrapper` | the new BE, mounts inside it | dist-upgrade; any other apt-get command |
| btrfs_balance.sh | `.../btrfs_balance.sh` | the cache file, the abort file, loop counters | one run, started periodically |
| libnvavl | `components/libnvavl/avl.c` | an AVL tree | find, insert, remove, walk, update, destroy |
| nss_nvos | `components/nss_nvos/` | on Linux one static backend for all enumerations, on Solaris one per database | set, get, end of passwd, shadow and group; lookups by name and id |
| build gate | `tools/build-deb`, `tools/userland-fetch`, `tools/userland-unpack`, `make-rules/*.mk` | the archive and its age, source tree, build directory, prototype area, the repository of .debs | fetch, unpack, configure, build, install, publish, clean, clobber |
| libnvmore, libnvutil | `components/libnvmore`, `components/libnvutil` | terminal state | paging, password prompt, UUIDs |

How they interact. apt-wrapper calls `beadm list`, `beadm create` and
`beadm activate` as child processes. beadm, GRUB and the kernel share the btrfs
file system: beadm writes subvolumes, fstabs, `grub.cfg` and `grubenv`; GRUB
reads the last two at boot; the kernel mounts the chosen subvolume. Nothing
locks one beadm out while another runs. A software upgrade and
btrfs_balance.sh talk through the abort file in `/run`; successive balance
runs talk through the cache file. nss_nvos is called by the C library on behalf of any
process that enumerates users or groups, and asks nvOS for them. In the build gate
each recipe reads the files the one before it wrote; successive makes share
those files and the ages of the archive and the Makefile.

What is hard. Every command is a shell script whose steps are external
programs. Most statuses are ignored, a power cut may fall between any two steps,
two commands may interleave at any of them, and the state that survives is
spread over six places that must agree for the switch to boot. The name service
keeps positions in lists that calls of another database may clear. The gate trusts
whatever an earlier make, stopped anywhere, left under a final name. `PROJECT.json`
lists these hazards at their lines.

What makes each component correct:

* beadm: the running root and `@` survive everything; the BEs listed, the
  grub.d scripts and the menu agree; an activated BE is what boots, and what
  boots mounts itself; a command that reports success is complete.
* apt-wrapper: the running BE is left untouched; the next boot moves only to a
  completely upgraded BE; success means the upgrade takes effect.
* btrfs_balance.sh: an abort is heeded promptly; cutoffs are respected; no work
  is skipped that was not tried; every run ends.
* libnvavl: in-order contents equal the inserted set, sibling heights differ by at
  most one and match the balance fields, parent links mirror child links.
* nss_nvos: an enumeration yields the entries of one snapshot, in order and each
  once, also across ERANGE retries. On Linux two calls of another database cut it short
  (section 5); no other one disturbs it.
* build gate: only verified source reaches a package; a make that succeeds leaves
  complete packages of the current version; a make that failed can be repeated. A fetch that
  dies and leaves a wrong archive is the exception to the first and the last (section 5).

## 2. Modules

| module | role |
|---|---|
| `Beadm` | beadm with GRUB, btrfs and the boot as its environment |
| `AptWrapper` | EXTENDS `Beadm`: the wrapper composed with the beadm it calls and with an administrator's beadm |
| `Balance` | btrfs_balance.sh with the file system and the software upgrade as its environment |
| `Avl` | avl.c with the users of a tree as its environment |
| `Enumeration` | abstract: what one enumeration of a database promises |
| `Nss` | nss_nvos with nvOS and the callers as its environment; implements `Enumeration` three times |
| `Userland` | the build gate with the mirrors, the developer and the commands of the recipes as its environment |
| `MCBeadm`, `MCAptWrapper`, `MCBalance`, `MCAvl`, `MCNss`, `MCUserland` | instances for TLC |
| `BeadmProofs`, `BeadmTogetherProofs`, `BeadmAloneProofs` | theorems about `Beadm`: in general, for any number of commands at once, for one at a time; each EXTENDS the one before |
| `AptProofs` | theorems about `AptWrapper` composed with `Beadm` |
| `BalanceProofs`, `AvlProofs`, `NssProofs`, `UserlandProofs` | theorems about `Balance`, `Avl`, `Nss` and `Userland` |

Definitions described as "Mutant" in the modules are deliberate mistakes; each
replaces the definition after it in a sensitivity test and makes one property
fail. No specification uses them.

### Beadm

State. `subvol`, `bootable`, `fstab`, `image`, `nested` and `qgroup` are what
btrfs holds; `entry` is the set of grub.d scripts that contain a menuentry,
`menu` what `grub.cfg` offers, `nextEntry` the variable in `grubenv`; `running`
is the root mounted now. Each process has a program counter and the shell
variables that outlive a step: the command, its argument, `-a`, and the
`next_entry` it sourced when it began (`seen`).

Actions follow the script, one per external command: `CreateCheck`, `Snapshot`,
`TouchBootable`, `fix_root_fstab_entry`, `generate_grub_entry`, `prep_chroot`,
`CollectEntries` and `InstallMenu` (the two halves of update-grub),
`tear_down_chroot`, `activate_be`, `EditEnv`; and `DestroyCheck`,
`QgroupDestroy`, `DeleteSubvol`, `delete_grub_entry`, `ResetNextEntry`.
`StatusIgnored` is the failure of a command whose status beadm does not look
at. `list_be` is a pure operator: the listing changes nothing.

Details that matter and come from the code or from how it uses btrfs and GRUB:

* A snapshot whose destination exists is created *inside* it, under the
  source's own name; from `/` the command fails. This is how a half-created BE
  of an earlier power cut meets the next create.
* `.bootable` is copied by the snapshot when the source is a BE, but `@` has
  none: a clone of `@` is unmarked until `touch`, a clone of a BE is not.
* Two commands stack their bind mounts on `/.rootbe`. `mnt` counts the layers of each
  mount point; an umount takes the topmost one away, whoever made it.
  While another command's update-grub runs (`InChroot`) it may meet EBUSY, which is a
  consequence of the interleaving and spends no fault (`UmountFails`). Only the status of the last
  umount, that of `proc`, is returned.
* `CURRENTBE` is read from `/etc/mtab`, in the form `subvol=@/<BE>`. It is `-`
  under `-F`, when the provisioning system runs (`Installer`).
* GRUB is external. It boots `next_entry` if the menu has it, otherwise the
  default entry, `@`. Whether it manages to clear `next_entry` on btrfs depends
  on its build, so `Boot` allows both.
* `beadm list` would also name a marked snapshot that lies inside another subvolume;
  `be_list` names those directly below `@`, the ones the other commands accept.

### AptWrapper

`stage` follows the script from the choice of the name (`DistUpgrade`) through
`CheckCreated`, `Mount`, `Upgrade`, `Umount`, `Finish` and `Activated`. The child
beadm is the process `Apt` of `Beadm`, whose steps are `Beadm`'s own actions. A BE
name is a pair of a word and a number, which is all the script's `cut` and `grep`
tell apart. `Admin` is the set of terminals at which beadm commands are given beside the
wrapper. `urandom`
is the host's `/dev/urandom`, `busy` counts for each BE how often a dist-upgrade
has mounted its file systems inside: `Mount` stacks, or mounts only some or none of them when
a mount fails, unnoticed; `Umount` takes one layer off.
`THISBE` is the line of the listing marked `NR`; when another BE has
been activated no line is, and the name becomes `-1`. The marker file
`SKIP_ROOTFS_CHECK` is part of the image's content and is left out.

### Balance

`Begin` is the head of the script, `get_usages` and `Decide` the decision,
`TestAbort`, `StartBalance` and the two `Sleep` actions are `run_balance` with
the code after its call, `LoopTest` the `while` conditions. Which space is wasted
is the file system's business, so `get_wasted` yields either answer. The
increments (+5, -1), cutoffs and counters are those of the script. `asked`, `started` and
`tried` are history variables: no other variable depends on them. `asked` is true from an
abort request until a run heeds it, ends or finds the file out of date; `started` counts
the balances started in that time, over the end of a run too. A failing `btrfs fi show` in
`get_usages` (230-236) is left out.

### Avl

`nd` holds every `avl_node_t`: two children, parent, index in the parent and
balance. `Tmp` is the node on the stack of `avl_remove`. A call that changes the
tree is a first action that links or unlinks a node (`avl_add`,
`avl_insert_here`, `avl_remove`, `Update`, `Reinsert`) followed by one action per
turn of its loop (`InsertUp`, `RemoveUp`), so that properties can be stated between
two rotations too. Loops that only read (`avl_find`, `avl_walk`, `Descend`) are
uses of `Follow`, a recursive function from a pointer to the first one at which the loop
stops. Each call of `avl_destroy_nodes` is one action; its cookie is
the pair of parent and child index the code packs into a pointer. The library
leaves locking to its users, so there is one caller. What callers must guarantee
(a new key is not in the tree, `avl_insert_here` names a neighbour, the update
variants are told the right direction) is a guard; the ASSERTs on the tree's state go into
`ok`. Not among them are the ASSERT of `avl_nearest` (231), that the tree is empty
when the caller's cookie has no node, and the nodes `Descend` passes on its way down,
of which only the last is compared with `freed`. `held` and `freed` are history
variables. The packing of parent, index and balance into one word on 64-bit
machines is left out: `TypeOK` shows the balance stays within
its two bits.

### Nss and Enumeration

`be` holds the backends: the users' snapshot `info` with its position `index`, the
groups' snapshot `list` with the current `group`. `Backend(d)` is where the two
platforms differ: `g_backend` for every database, or one structure each. `setpwent`,
`endpwent` and `getpwent_r` take the database, passwd or shadow (Linux has no shadow
enumeration here). `nvos_nss_userop` and
`nvos_nss_get_groups` are nvOS's answers: all users or none; any prefix of the groups.
Of a passwd line only its length and its shell's matter, of a group the sizes
`copy_group` allocates. `getgrent_erange` is the call whose
buffer is too small, with the C library's retry. `got` and `last`, the last call and its
database, are history variables.

`Enumeration` is the contract: an enumeration opens with a prefix of the database,
delivers the rest in order, may be closed early, and may lose an entry only where
`lossy` says so. `call` ties each of these steps to a call: its own set opens it, its own get
moves it, its own end closes it, and so may a "wipe", a call of another database that is known to clear it.
`Nss` instantiates it as `Passwd`, `Shadow` and `Groups`. In the
mapping `call` is `callTo` of the database, whose wipes are those of the Linux backend
(endgrent for the users, setpwent for the groups), so that any other call that
disturbed a pass would refute the refinement; `rest` is what lies beyond the backend's position and `lossy` is true exactly where
the code moves on although the entry does not fit: both platforms for users, only
Solaris for groups. Lookups by name and id keep no state and are left out.

### Userland

One make of one component is a sequence of recipes, `pc`. Content is abstracted to
where it comes from: a version, `Bad` (not what the hash stands for, or a
part), or `None`. `archive[v]` is what is in the archive directory under v's name:
nothing, the right file, a "bad" one or a "corrupt" one, of which even the payload cannot be
read. `newer` says whose archive make takes to be up to date, which is all it knows.

`MakePublish` enters at the fetch or, for an up-to-date archive, behind it.
`Download`, `Validate` and `Touch` are userland-fetch and the rest of its
recipe; `Unpack`, `Build` (configure and build), `Install` are the
recipes that follow, `CheckLists` and `PublishPackage` build-deb's tests and one turn
of its loop over `debian/*`. `Clean` is clean or clobber, `Edit` a change of the
Makefile. Failures are events with a `Budget` each: an `outage` of the last source, a
fetch or a recipe on which make is `stop`ped half way, a failing
command whose status is `ignored`. Mirrors may be missing or lie at any time,
without a budget. `Validate` removes a bad archive and goes on; of a corrupt one the script
dies (`validate` catches only IOError, not zlib.error or EOFError) and leaves it where it
is. `left`, a history variable, has the versions of which a fetch that died so, or was cut off,
left a wrong archive.

`Layouts` are the shapes of `debian/`: a package has a file list or none, a
`basepkg` file or none, and a control file that build-deb accepts or not.

## 3. Runs

| run | result | what it shows |
|---|---|---|
| `beadm_alone` | pass | One command at a time. Undisturbed: `MenuIsCurrent`, `BootsItself`, `ActivationBoots`, `QuotaPerBE`, `CreateClonesUndisturbed`. With two power cuts anywhere: `SuccessIsComplete`. With a failing command as well: `RunningKept` |
| `beadm_activates_by_name` | violation | `CreateKeepsBootTarget`: with `@` running, `create -a b`, `destroy b`, `create b`: `next_entry` still names b and the plain create is activated (beadm:489) |
| `beadm_crash_clone` | violation | `CreateClones`: after a power cut between snapshot and touch, a create from another BE nests its snapshot and continues with the old content (beadm:314) |
| `beadm_lost_entry` | violation | `MenuIsCurrent` with two processes: the update-grub that collected first installs last (beadm:282) |
| `apt_upgrade` | pass | `UpgradeTakesEffect`, `BootMovesToUpgraded`, `RunningUntouched` with a failing command and two power cuts |
| `bootenv_together` | pass | An administrator's beadm commands beside dist-upgrades, over two BE names: `RunningKept`, `DestroySafe`, `RunningUntouched`, `RunningMountsItself`, `MenuMountsItself`, `ChrootMounted` |
| `apt_name_taken` | violation | `NameIsFree`: back in `@` after an upgrade the name bootenv-1 is chosen again (apt-wrapper:47-51) |
| `balance_runs` | pass | `AbortStopsRun`, `WithinCutoff`, `SkipsAreEarned`, `RunEnds` with two failures, an abort and a power cut |
| `balance_aborted_twice` | violation | `SkipsOnlyAfterTrying`: two aborted runs count as tries (btrfs_balance.sh:336) |
| `avl_trees` | pass | `IsTheSet`, `Linked` at every step; `Balanced`, `FindsIt`, `Neighbours` between calls; `AssertsHold`, `DestroyFreesAll` |
| `nss_enumerations` | pass | `UsersEnumerate`, `GroupsEnumerate` (the refinements of `Enumeration`), `CursorInside`, `GroupLoopEnds`, on both platforms with changing users and groups and incomplete answers of nvOS |
| `userland_publish` | pass | `SourceVerified`, `PublishedIsCurrent`, `BaseIsThere`, `Recovers`, with one event of each kind, in any combination, and any answer of the mirror |

Bounds. Two BE names let one BE be cloned from another, a nested snapshot
collide, and a destroyed BE be compared with a surviving one; two images tell a
clone of the right source from another. Two processes are enough for every
overlap of two script positions, and what holds for overlapping commands is proved
for any number of them (section 4). Two power cuts let one fall into the repair of the other. The
wrapper's names are the three it can choose within two upgrades. In `bootenv_together` they are
two, bootenv-1 and bootenv-2: a dist-upgrade can then start from a BE that the
administrator can destroy, create or activate beside it. That run has no failures and no power
cuts, for the reason given with `RunningIsUntouchedTogether` below. One mount point (`Binds`) is
enough where its umount is the one whose status counts, and `beadm_alone` has a second one whose
status does not; `MaxMounts` bounds the layers that EBUSY leaves behind. Balance
uses the script's own cutoffs and rebalance limit; `MAX_FAILURES` is 2 instead of 20
in `balance_runs`, so that two failing commands reach it. The trees have up to 12 nodes, the
size of the smallest tree in which one removal needs two rotations; keys are
changed and trees destroyed with up to 7 nodes, the size of the smallest tree of
height 4, one node at a time having another key than it began with. For `Nss`,
three opens let every database be opened, or one a second time between others; the buffers (5 and 16
bytes, doubled up to 64) are too small for an entry, cut a line just
where its shell begins, or are large enough. `Userland` has two versions, so that old files meet a
new build, one mirror and the URL, a layout for each outcome of build-deb's tests, and one event
of each kind (one `stop`, in the fetch or in a later recipe): two kinds can meet in one make, and every make can be followed by
a clean or a broken one.
Symmetry over BE names and processes is sound:
no property or action tells them apart, and no liveness property is checked
with symmetry.

Fairness. `Balance`: `WF_vars(Step)`, the shell goes on with the script it has
started; it is not assumed that runs begin, that space is reclaimed or that commands
succeed. `Nss`: `WF_nssVars(GetGroup)`, a caller's loop goes on calling getgrent while it gets
entries or ERANGE, as the C library's and every caller's loop does. `Userland`:
`WF_vars(MakeStep)`, make goes on with its recipes, and `WF_vars(MakePublish)`, it is
called again; the second is an assumption on the developer or the nightly build,
and without it nothing is promised. `NssAssumption` says that nvOS always has users
(its built-in accounts), so that an empty list stands for no answer.

Deadlock checking is on in every run: a reboot, a new command, a change
of nvOS's users or another make is always possible.

## 4. Proofs

TLAPS proves the following for every value of the constants. Each theorem names the
property that a run of section 3 checks; the runs also evaluate the assumptions.
Except for the refinements and action properties all have one shape: an invariant
`IInv` that contains the property or implies it at rest, `Init => IInv`, and
`IInv /\ [Next]_vars => IInv'` with one step per action.

### beadm, any number of commands at once

From `NamesAssumption` (the special names are distinct and no BE has one),
`BoundsAssumption` and `ProcAssumption` (the processes are finitely many, which every
kernel ensures and the counting of mounts needs).

* `TypeCorrect`, `RunningIsKept`, `DestroyIsSafe` (`BeadmProofs`). `RunningKept` is not
  inductive: the delete step does not repeat the tests. `DestroySafe` is the
  strengthening: between the tests and the deletion the argument is neither `@` nor the
  running root. It is preserved because `running` changes only in `Boot`, which ends
  every process.
* `ChrootStaysMounted`, `MenuEntriesMountThemselves`, `RunningBEMountsItself`
  (`BeadmTogetherProofs`). `ChrootMounted` says that an update-grub has its mounts;
  `MountsCounted` is what makes it inductive: each mount point is mounted at least as often as there are
  processes between `prep_chroot` and `tear_down_chroot`. Not exactly as often, since EBUSY
  leaves layers behind. For the fstabs,
  `SubvolsMountThemselves` says that a subvolume that mounts another one as `/` has a
  create in the window between its snapshot and `fix_root_fstab_entry`.

The lemmas are about `HostStep`, a step of beadm or a step of the host that leaves
beadm's state alone (`ContentStep`). `NextIsHostStep` makes them lemmas about
`Beadm`, `AptIsHostStep` about `AptWrapper`, so that nothing is proved twice.

### beadm, one command at a time

From `Alone == \E me : Proc = {me}` as well, the hypothesis without which
`beadm_lost_entry` refutes `MenuIsCurrent`.

* `SuccessMeansComplete`, with any number of power cuts. `CreateDone` and `DestroyDone`
  say what a command has achieved by each of its labels; `CmdFits` says which command a
  label belongs to.
* `MenuStaysCurrent`, `NextBootWorks`, `ActivationDecides`, `QuotasFollow`,
  `CreateTakesACopy`, undisturbed. `SettledAt` describes, label by label, by what one BE
  the subvolumes, markers, quota groups, scripts and menu may differ while a
  command is under way; at rest (`Settled`) they agree.

### apt-wrapper

* `AptRunningIsKept`, `AptChrootStaysMounted`, `AptFstabsAreRight`: the theorems above also
  hold of the composition, with any number of administrators.
* With no administrator beside it (`Admin = {}`), any number of failing commands and
  power cuts: `UpgradeHasEffect`, `BootMovesOnlyToUpgraded`, `RunningIsUntouched`. The invariant `WrapperInv` follows a dist-upgrade through its stages:
  `BootChain` says that the running BE and the one to boot next are listed, so that create
  refuses their names; `Fresh` that the new BE is therefore neither of them;
  `UpgradedFirst` that it is upgraded before it is activated; `MenuFollows` and
  `Delivered` what the menu has by then.
* With any administrators while nothing fails and the power stays on
  (`MaxFaults = 0`, `MaxCrashes = 0`): `RunningIsUntouchedTogether`. Neither hypothesis can be
  dropped altogether: a BE that boots without its marker, left by a failure or by power
  cuts, is not listed, so a create beside it may take its name, and the snapshot inside
  it goes on as if it were new; with two BE names one power cut suffices for that.
### btrfs_balance.sh

For all sizes, cutoffs of at least 5 and all bounds:

* `TypeCorrect`; the step down by one never passes zero.
* `AbortIsPrompt`. `AbortSeen` says that a request no run has heeded is still on disk, and
  that between the test that missed it and the start of a balance none has been started since: the
  next test finds it.
* `CutoffIsKept`. `Climbing` extends the bound to the positions between the loops'
  test and the balance; `CacheWritten` gives the type of the cache at the point where
  a cutoff is appended to it.
* `SkipsEarned`, from `NotResized` (the total size is always the same). `Earned` says what
  the cache stands for at each label: if it takes given sizes for unchanged, then their
  first cutoff was tried and is on record, or both were. The hypothesis is necessary: the script
  caches the total size and does not compare it (line 243), the cutoffs depend
  on it, and with two totals the invariant fails. The run has one total for the same reason.

### libnvavl

From `NodesAssumption` (nodes, `NULL` and `Tmp` are distinct, keys are integers), for every
set of nodes and keys and every sequence of calls the library allows: all that
`avl_trees` checks.

* `AvlTypes`, `AvlAsserts`, `AvlLinked`, `AvlIsTheSet`, `AvlBalanced`, `AvlFindsIt`,
  `AvlNeighbours`, `AvlDestroyed`.

What the recursive functions of `Avl` compute is not proved by induction along the tree,
which the prover cannot do. Instead the invariant `AvlInv` says that two functions exist: `sub`
gives every node the set of nodes below it, `ht` gives it its height. Locally,
`sub[n]` is `n` and the two sets of its children, all keys of one on one side and all of the other on the other
(`IsTree`), and the balance of `n` is the difference of the two heights (`Hts`). From these,
the lemmas `FollowStops`, `BelowIsSub` and `HeightIs` derive what `Follow`, `Below` and `Height`
compute: a least node for which it were not so cannot exist, the sets being finite and
smaller below. For a step the proof gives the new `sub` and `ht`, which differ from the old
at a few nodes or on the way to the root.

* While a call climbs (`InsertUp`, `RemoveUp`) the heights are right except at one place: there the
  balance was set for a subtree one level lower (insert) or higher (remove) than it is (`Told`).
  An insert also needs `Grown`: the subtree it comes from is the new node or is not
  balanced. Without it a single rotation would leave a tree one level higher than before the insert, and the
  code returns after one rotation (550-554).
* `RotateOnce` and `RotateTwice` take a tree to a tree (`RotateOnceTree`, `RotateTwiceTree`), with
  the balances the code computes (`RotateOnceHeights`, `RotateTwiceHeights`), also for the balanced
  child that only a remove meets.
* The swap of `avl_remove` (717-745) followed by the splice equals taking out the
  neighbour, which has at most one child (`Cut`), and then giving it the deleted node's place (`Renamed`). Said in this
  way, the case in which the neighbour is the deleted node's own child, which the code patches at 724-725,
  matters for the fields written (`SwapSplices`) and no longer for the tree.
* `Midway` holds between two calls of `avl_destroy_nodes`: what has not been returned is a tree;
  the way from its root to the cookie turns right only where the left side is gone; off
  that way the heights are right. The ASSERTs at `check_right_side` follow, that no node is
  looked at after it was returned, and that only the last call returns NULL.

### nss_nvos

From `NssAssumption` (the lists are sequences of entries, nvOS has users):

* `CursorStaysInside`. `BackendTypes` is the strengthening: each list is a prefix of the groups
  with a gid of some state of nvOS.
* `UsersImplementEnumeration` and `GroupsImplementEnumeration`: `NssSpec` implements
  `Enumeration` for passwd, shadow and group. Initial states map to initial
  states; `StepOfUsers` and `StepOfGroups` map every step to an open, a delivery, a loss
  that `lossy` allows, a close by its own end or a known wipe, or a stutter. They rest on `NamesLeft` (what moving on by
  one entry leaves) and on `RestKept` and `GroupRestKept` (which calls leave an enumeration of another
  database alone, on one shared backend or on three). `with_gid` counts instead of
  folding, so that nothing here needs induction over a list.

### the build gate

From `UserlandAssumption` and `LayoutsAssumption` (a package is a directory; the base
package is the first that the shell's `debian/*` yields, as in each of the three components that
have one: `libfixbuf`, `log4c`, `liblzo`, each beside its `-dev`):

* `PublishedIsVerified`, while `left` is empty. `TrustedIsGood`: an archive newer than the Makefile is good or
  absent unless it is about to be validated; `OwnIsOlder`: the file that is in place when a fetch begins
  is older than the Makefile, so a fetch that dies of it adds no trusted one. `GoodFromTouch` carries this through tree,
  objects and prototype area.
* `SuccessIsCurrent`. `Current` says what is of the current version at each recipe,
  and which packages are complete at each turn of build-deb's loop.
* `BaseIsNeverMissing`. `BaseFirst`: whatever is written was written after its base.

### Only model-checked

Every invariant and every action property of the passing runs is proved. What is left to TLC:

* Liveness under fairness: `RunEnds`, `GroupLoopEnds`, `Recovers`. The prover does not
  handle fairness.
* The properties of the runs that end in a violation, which are false.

## 5. Behaviour found while modelling that no run refutes

* apt-wrapper:87 calls `beadm delete`, which beadm does not have (its command
  is `destroy`, beadm:564). After a failed apt-get the half-upgraded BE stays,
  marked bootable and in the menu. `Finish` models this.
* apt-wrapper:81-83: when the umount of `dev` fails, `rm .../dev/urandom`
  removes the running system's device. `Umount` models this with `urandom`; `RunningUntouched` says
  that nothing of `/dev` is lost as long as no command has failed.
* beadm:131-133: when two commands overlap, the umount of one may meet EBUSY under the
  other's update-grub. A layer then stays mounted on `/.rootbe` after both have ended; and when it is
  the umount of `proc`, a create whose BE is complete and in the menu exits 2 and
  skips the activation that `-a` asked for. `ChrootMounted` states what does hold.
* btrfs_balance.sh:168 says that for 24 hours after an abort nothing is done. The file is
  removed by the first run that sees it (176, 289), so the run after that balances again;
  `AbortStopsRun` is therefore about the time until a run heeds the request.
* btrfs_balance.sh:243 caches the total size and does not compare it: after a
  resize alone, the run is skipped.
* btrfs_balance.sh:344 tests the status of `sleep`, not of the balance, so a
  failing 0% balance does not stop the run; and lines 384 and 423 store the
  status of the test `[ $? -ne 0 ]`, always 0.
* A BE whose create was cut off after `.bootable` exists is accepted by
  `activate`, which exits 0 while GRUB has no entry for it and boots `@`.
  `ActivationBoots` is therefore stated for runs without power cuts.
* nss_linux_nvos.c:86: a passwd line cut to the buffer inside its last field still
  parses, and the user gets a shell that does not exist. Line 184 advances
  before the entry is known to fit, so a user whose line is too long is lost where
  a group (454) is asked for again. The Solaris backend loses both.
* nss_linux_nvos.c:438 and 229: endgrent clears the users' part of the shared backend and
  setpwent the groups', so that a pass over the other database in the same process ends there, as if
  it had come to its end. The contract names these as wipes; endpwent, setgrent and
  the get calls disturb no other pass.
* nss_nvos.c:203: an error of nvOS in the middle of the groups is not reported; the
  enumeration is short.
* userland-fetch:132-139 writes the archive under its final name, and
  prep-download.mk:50-56 has no `.DELETE_ON_ERROR`: a fetch cut off leaves a part of the
  archive, newer than the Makefile, which later makes unpack without verifying it.
* userland-fetch:59-68 catches only IOError while it reads. For a file whose hash is wrong the
  payload is hashed too (249): a corrupt `.gz` then raises zlib.error, a truncated `.bz2` EOFError, and
  the script ends before `os.remove` (259). A file just downloaded stays, newer than the
  Makefile, and the next make unpacks it unverified; an older one stays too, and every later make dies of it
  until a clobber. `SourceVerified` and `Recovers` except the versions of which
  a fetch that died in one of these two ways left a wrong archive (`left`).
* userland-unpack:136 drops the status of the uncompress and tar commands.
* build-deb:314-326: rsync's status is never looked at, and dpkg-deb's is that of the
  script only for the last package.
* Nothing empties the prototype area between makes, so a package without a file
  list also carries files that only an earlier version installed.
* build-deb:181 says a libc dependency is inserted "if not already present"; the
  test at 182 holds when grep (167) has found one, or when there is no depends file.
* build-deb:47 tests a variable that is not set yet and never fires.
  With one missing list among several packages, lines 86-92 write a list for the first
  package, whichever lacks its own; with three or more packages the basename at 89-91 fails,
  which `FileList` leaves out.
* `BaseIsThere` counts a `.deb` that a stop left half-written (`Torn`) as there: a base package
  that is published again and cut off stands torn beside its `-dev`.
* build-deb:119-129: a Version or Section given by one package holds for the
  packages after it that give none.
* build-deb:296-299: the cp of the trigger scripts names no source.

## 6. Plan

Order, the most important behaviour first:

1. Done: `Beadm`, `AptWrapper`, `Balance`, `Avl`, `Nss` with `Enumeration`, `Userland`,
   and the proofs of section 4.
2. Left: `BootPromise`, an abstract specification of what a BE manager promises (a set
   of complete BEs, the one that runs and the one that boots next), implemented by
   `Beadm` with one process. `AloneInv` is the invariant the refinement needs.

## 7. Not modelled

Vendored software (FRR, Open vSwitch, systemd, LXC, OpenSSH, Net-SNMP, ipmitool,
linuxptp, wpa_supplicant, libedit, ifupdown, cbitset) is by far the larger part of
the lines under `components/`. It is other projects' logic, kept here to be built;
what this repository does with it is the build gate, which is modelled. libnvmore and libnvutil are
terminal I/O and text formatting. The gate's Python and Perl helpers
(bass-o-matic, gen-components, userland-mangler, ips2tgz) are batch
transformations without state. In the scripts that are modelled, option
syntax, messages, sizes and dates of the listing, log rotation, progress lines
and unit conversion are left out. Name-service lookups by name
or id keep no state. Of the make rules, patches (a component with a downloaded
archive has none here), the variants for other build systems than configure (ant,
setup.py, gem: the same chain of recipes) and IPS publication are left out; of build-deb, the text of
the control file.
