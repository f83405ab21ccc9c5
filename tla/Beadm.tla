------------------------------- MODULE Beadm -------------------------------
(***************************************************************************)
(* beadm, the boot-environment (BE) manager of bootenv-tools.              *)
(*                                                                         *)
(* A BE is a btrfs subvolume below "@" that holds a complete root image    *)
(* and a .bootable marker, has an /etc/grub.d/50_custom_<BE> script and,   *)
(* once update-grub has run, a menu entry in grub.cfg.  grubenv's          *)
(* next_entry names the BE to boot next.  Every beadm command is a shell   *)
(* script: each external command it runs is one step here, nothing locks   *)
(* one beadm out while another one runs, the status of most commands is    *)
(* ignored, and a power cut may fall between any two of them.              *)
(***************************************************************************)
EXTENDS Naturals, FiniteSets

CONSTANTS
    BE,          \* names of boot environments below "@"
    Root,        \* "@", the base BE
    Installer,   \* "-", CURRENTBE under -F: the provisioning system runs
    NoBE,        \* next_entry is not set
    Image,       \* contents a root image can have
    Proc,        \* beadm processes
    Binds,       \* what prep_chroot bind-mounts on /.rootbe: sys, dev and proc
    proc,        \* the last of them to be unmounted
    MaxMounts,   \* bounds the mounts that commands leave stacked there
    MaxFaults,   \* steps in which external commands may fail
    MaxCrashes   \* power cuts while a beadm is running

ASSUME NamesAssumption ==
    /\ Root \notin BE /\ Installer \notin BE /\ NoBE \notin BE
    /\ Root # Installer /\ Root # NoBE /\ Installer # NoBE
    /\ Image # {}
ASSUME BindsAssumption == proc \in Binds
ASSUME BoundsAssumption ==
    MaxMounts \in Nat /\ MaxFaults \in Nat /\ MaxCrashes \in Nat
ASSUME ProcAssumption == IsFiniteSet(Proc)

VARIABLES
    subvol,      \* subvolumes that exist: "@" and the BEs below it
    bootable,    \* subvolumes holding a .bootable file
    fstab,       \* the subvolume each one's /etc/fstab mounts as /
    image,       \* the content of each subvolume
    nested,      \* <<b, c>>: a snapshot of c was created inside b
    qgroup,      \* subvolumes whose quota group exists
    entry,       \* BEs with a menuentry in /.rootbe/etc/grub.d/50_custom_*
    menu,        \* BEs with a menuentry in grub.cfg
    nextEntry,   \* next_entry in grubenv
    running,     \* the BE mounted as /
    mnt,         \* how often each of Binds is mounted, stacked, on /.rootbe
    busy,        \* how often file systems are mounted inside each BE
    pc,          \* what each beadm process does next
    cmd,         \* its command
    arg,         \* the beName argument
    auto,        \* was create given -a ?
    seen,        \* the process's next_entry, sourced from grubenv at start
    grab,        \* entries update-grub has collected
    rc,          \* exit status
    faults, crashes

btrfs  == <<subvol, bootable, fstab, image, nested, qgroup>>
grub   == <<entry, menu, nextEntry>>
host   == <<running, mnt, busy, crashes>>
local  == <<cmd, arg, auto, seen>>
vars   == <<btrfs, grub, host, local, pc, grab, rc, faults>>

Names == BE \cup {Root}

\* Stands for the content of a subvolume that is gone.
NoImage == CHOOSE i \in Image : TRUE

\* The commands whose exit status beadm ignores, and what it runs next.
After == [touch      |-> "fstab",       fstab    |-> "grub_entry",
          grub_entry |-> "prep_chroot", install  |-> "tear_down",
          qgroup     |-> "delete",      delete   |-> "rm_entry",
          rm_entry   |-> "prep_chroot", editenv  |-> "exit"]

Labels == {"idle", "create", "destroy", "activate", "snapshot", "reset",
           "prep_chroot", "update_grub", "tear_down"}
             \cup {"touch", "fstab", "grub_entry", "install", "qgroup",
                   "delete", "rm_entry", "editenv", "exit"}

\* CURRENTBE: read from /etc/mtab at start, and "/" cannot change under a
\* living process.
CURRENTBE == running

is_valid_be(b) == b \in bootable \/ b = Root

\* next_entry as every command knows it: grubenv's, or else the current BE.
next_entry == IF nextEntry = NoBE THEN CURRENTBE ELSE nextEntry

be_list == {b \in Names : is_valid_be(b)}

\* "beadm list" marks the BE that is active now and the one after a reboot.
list_be == [b \in be_list |-> [N |-> b = CURRENTBE, R |-> b = next_entry]]

Alive(p) == pc[p] \notin {"idle", "exit"}

Goto(p, l)    == pc' = [pc EXCEPT ![p] = l] /\ UNCHANGED rc
Exit(p, code) == pc' = [pc EXCEPT ![p] = "exit"]
                   /\ rc' = [rc EXCEPT ![p] = code]
Fault         == faults < MaxFaults /\ faults' = faults + 1
NoFault       == UNCHANGED faults

----------------------------------------------------------------------------
\* Start of the script: source grubenv, default next_entry to the current BE.
\* Only a destroy uses that value later.
Invoke(p, c, b, a) ==
    /\ ~Alive(p)
    /\ pc'   = [pc   EXCEPT ![p] = c]
    /\ rc'   = [rc   EXCEPT ![p] = 0]
    /\ cmd'  = [cmd  EXCEPT ![p] = c]
    /\ arg'  = [arg  EXCEPT ![p] = b]
    /\ auto' = [auto EXCEPT ![p] = a]
    /\ seen' = [seen EXCEPT ![p] = IF c = "destroy" THEN next_entry ELSE NoBE]
    /\ NoFault /\ UNCHANGED <<btrfs, grub, host, grab>>

\* create_be: refuse a name that is a BE already.
CreateCheck(p) ==
    /\ pc[p] = "create"
    /\ IF is_valid_be(arg[p]) THEN Exit(p, 2) ELSE Goto(p, "snapshot")
    /\ NoFault /\ UNCHANGED <<btrfs, grub, host, local, grab>>

\* The subvolume create_be clones.
SRCPATH == IF CURRENTBE = Installer THEN Root ELSE CURRENTBE

\* Mutant: the base image is cloned whatever BE is running.
SnapshotOfRoot(p) ==
    /\ arg[p] \notin subvol
    /\ subvol'   = subvol \cup {arg[p]}
    /\ bootable' = bootable
    /\ fstab'    = [fstab EXCEPT ![arg[p]] = fstab[Root]]
    /\ image'    = [image EXCEPT ![arg[p]] = image[Root]]
    /\ qgroup'   = qgroup \cup {arg[p]}
    /\ UNCHANGED nested

\* btrfs subvolume snapshot SRCPATH DESTPATH for a DESTPATH that is free.
SnapshotNew(p) ==
    /\ arg[p] \notin subvol
    /\ subvol'   = subvol \cup {arg[p]}
    /\ bootable' = IF SRCPATH \in bootable THEN bootable \cup {arg[p]}
                                           ELSE bootable
    /\ fstab'    = [fstab EXCEPT ![arg[p]] = fstab[SRCPATH]]
    /\ image'    = [image EXCEPT ![arg[p]] = image[SRCPATH]]
    /\ qgroup'   = qgroup \cup {arg[p]}
    /\ UNCHANGED nested

\* When DESTPATH is a directory, the snapshot goes inside it under SRCPATH's
\* own name; that of "/" is no subvolume name, so from "@" the command fails.
SnapshotInside(p) ==
    /\ arg[p] \in subvol
    /\ CURRENTBE # Root
    /\ <<arg[p], CURRENTBE>> \notin nested
    /\ nested' = nested \cup {<<arg[p], CURRENTBE>>}
    /\ UNCHANGED <<subvol, bootable, fstab, image, qgroup>>

Snapshot(p) ==
    /\ pc[p] = "snapshot"
    /\ \/ (SnapshotNew(p) \/ SnapshotInside(p)) /\ Goto(p, "touch") /\ NoFault
       \/ /\ arg[p] \in subvol
          /\ CURRENTBE = Root \/ <<arg[p], CURRENTBE>> \in nested
          /\ Exit(p, 2) /\ NoFault /\ UNCHANGED btrfs
       \/ Exit(p, 2) /\ Fault /\ UNCHANGED btrfs
    /\ UNCHANGED <<grub, host, local, grab>>

\* Mutant: the .bootable marker is left to the snapshot.
TouchNothing(p) ==
    /\ pc[p] = "touch"
    /\ Goto(p, "fstab")
    /\ NoFault /\ UNCHANGED <<btrfs, grub, host, local, grab>>

\* touch .bootable: fails, unnoticed, when the subvolume is gone.
TouchBootable(p) ==
    /\ pc[p] = "touch"
    /\ bootable' = bootable \cup ({arg[p]} \cap subvol)
    /\ Goto(p, "fstab")
    /\ NoFault
    /\ UNCHANGED <<subvol, fstab, image, nested, qgroup, grub, host, local, grab>>

\* Mutant: the clone keeps the fstab of its source.
fstab_kept(p) ==
    /\ pc[p] = "fstab"
    /\ Goto(p, "grub_entry")
    /\ NoFault /\ UNCHANGED <<btrfs, grub, host, local, grab>>

fix_root_fstab_entry(p) ==
    /\ pc[p] = "fstab"
    /\ fstab' = IF arg[p] \in subvol THEN [fstab EXCEPT ![arg[p]] = arg[p]]
                                     ELSE fstab
    /\ Goto(p, "grub_entry")
    /\ NoFault
    /\ UNCHANGED <<subvol, bootable, image, nested, qgroup, grub, host, local, grab>>

\* The menuentry is written only when the BE holds a kernel and its initrd.
add_grub_entry(b) == {b} \cap subvol

generate_grub_entry(p) ==
    /\ pc[p] = "grub_entry"
    /\ \/ entry' = (entry \ {arg[p]}) \cup add_grub_entry(arg[p]) /\ NoFault
       \/ entry' = entry \ {arg[p]} /\ Fault
    /\ Goto(p, "prep_chroot")
    /\ UNCHANGED <<btrfs, menu, nextEntry, host, local, grab>>

----------------------------------------------------------------------------
\* update_grub_cfg: bind-mount sys dev proc, run update-grub, unmount.  No
\* status is looked at.
prep_chroot(p) ==
    /\ pc[p] = "prep_chroot"
    /\ \E done \in SUBSET Binds :
           /\ mnt' = [i \in Binds |-> IF i \in done THEN mnt[i] + 1 ELSE mnt[i]]
           /\ IF done = Binds THEN NoFault ELSE Fault
    /\ Goto(p, "update_grub")
    /\ UNCHANGED <<btrfs, grub, running, busy, crashes, local, grab>>

\* update-grub runs the scripts of grub.d and then installs grub.cfg.
CollectEntries(p) ==
    /\ pc[p] = "update_grub"
    /\ grab' = [grab EXCEPT ![p] = entry]
    /\ Goto(p, "install")
    /\ NoFault /\ UNCHANGED <<btrfs, grub, host, local>>

InstallMenu(p) ==
    /\ pc[p] = "install"
    /\ menu' = grab[p]
    /\ grab' = [grab EXCEPT ![p] = {}]
    /\ Goto(p, "tear_down")
    /\ NoFault /\ UNCHANGED <<btrfs, entry, nextEntry, host, local>>

\* update-grub is running in process p's chroot, with files of the mounts open.
InChroot(p) == pc[p] \in {"update_grub", "install"}

\* Only the status of the last umount is returned, and only create looks at it.
AfterTearDown(p, ok) ==
    \/ cmd[p] = "destroy" /\ Goto(p, "reset")
    \/ cmd[p] # "destroy" /\ ~ok /\ Exit(p, 2)
    \/ cmd[p] # "destroy" /\ ok /\ auto[p] /\ Goto(p, "activate")
    \/ cmd[p] # "destroy" /\ ok /\ ~auto[p] /\ Exit(p, 0)

\* Mutant: an umount counts even if nothing was mounted.
tear_down_blindly(p) ==
    /\ pc[p] = "tear_down"
    /\ mnt' = [i \in Binds |-> mnt[i] - 1] /\ AfterTearDown(p, TRUE)
    /\ NoFault /\ UNCHANGED <<btrfs, grub, running, busy, crashes, local, grab>>

\* Mutant: a clean-up that unmounts until nothing is mounted any more.
tear_down_all(p) ==
    /\ pc[p] = "tear_down"
    /\ mnt' = [i \in Binds |-> 0] /\ AfterTearDown(p, TRUE)
    /\ NoFault /\ UNCHANGED <<btrfs, grub, running, busy, crashes, local, grab>>

\* An umount takes the topmost mount away, whichever command made it.  It fails
\* with nothing mounted, and it fails (EBUSY) when another command's update-grub
\* has a file of the mount open: neither is a fault, the interleaving does it.
UmountFails(p, i) ==
    \/ mnt[i] = 0
    \/ mnt[i] < MaxMounts /\ \E q \in Proc \ {p} : InChroot(q)

tear_down_chroot(p) ==
    /\ pc[p] = "tear_down"
    /\ \E kept \in SUBSET Binds :
           /\ \A i \in Binds : mnt[i] = 0 => i \in kept
           /\ mnt' = [i \in Binds |-> IF i \in kept THEN mnt[i] ELSE mnt[i] - 1]
           /\ AfterTearDown(p, proc \notin kept)
           /\ IF \A i \in kept : UmountFails(p, i) THEN NoFault ELSE Fault
    /\ UNCHANGED <<btrfs, grub, running, busy, crashes, local, grab>>

----------------------------------------------------------------------------
\* Mutant: the current BE is activated in every case.
TargetCurrent(p) == CURRENTBE

\* activate_be, of the argument or, after a destroy, of the current BE.
Target(p) == IF cmd[p] = "destroy" THEN CURRENTBE ELSE arg[p]

activate_be(p) ==
    /\ pc[p] = "activate"
    /\ IF is_valid_be(Target(p)) THEN Goto(p, "editenv") ELSE Exit(p, 2)
    /\ NoFault /\ UNCHANGED <<btrfs, grub, host, local, grab>>

EditEnv(p) ==
    /\ pc[p] = "editenv"
    /\ nextEntry' = Target(p)
    /\ Exit(p, 0)
    /\ NoFault /\ UNCHANGED <<btrfs, entry, menu, host, local, grab>>

----------------------------------------------------------------------------
\* Mutant: only "@" is protected.
DestroyCheckRootOnly(p) ==
    /\ pc[p] = "destroy"
    /\ IF ~is_valid_be(arg[p]) THEN Exit(p, 2)
       ELSE IF arg[p] = Root THEN Exit(p, 1)
       ELSE Goto(p, "qgroup")
    /\ NoFault /\ UNCHANGED <<btrfs, grub, host, local, grab>>

\* do_delete: refuse an unknown BE, the current BE and "@".
DestroyCheck(p) ==
    /\ pc[p] = "destroy"
    /\ IF ~is_valid_be(arg[p]) THEN Exit(p, 2)
       ELSE IF arg[p] \in {CURRENTBE, Root} THEN Exit(p, 1)
       ELSE Goto(p, "qgroup")
    /\ NoFault /\ UNCHANGED <<btrfs, grub, host, local, grab>>

\* Mutant: quota groups are never destroyed.
QgroupKept(p) ==
    /\ pc[p] = "qgroup"
    /\ Goto(p, "delete")
    /\ NoFault /\ UNCHANGED <<btrfs, grub, host, local, grab>>

QgroupDestroy(p) ==
    /\ pc[p] = "qgroup"
    /\ qgroup' = qgroup \ {arg[p]}
    /\ Goto(p, "delete")
    /\ NoFault
    /\ UNCHANGED <<subvol, bootable, fstab, image, nested, grub, host, local, grab>>

\* btrfs keeps a subvolume that holds another one; one with file systems
\* mounted inside is kept by some kernels and deleted, with its mounts, by others.
Deletable(b) ==
    IF b \notin subvol \/ (\E c \in Names \cup {Installer} : <<b, c>> \in nested)
    THEN {{}}
    ELSE IF busy[b] > 0 THEN {{}, {b}} ELSE {{b}}

DeleteSubvol(p) ==
    /\ pc[p] = "delete"
    /\ \E gone \in Deletable(arg[p]) :
           /\ subvol'   = subvol \ gone
           /\ bootable' = bootable \ gone
           /\ fstab'    = [b \in Names |-> IF b \in gone THEN Root ELSE fstab[b]]
           /\ image'    = [b \in Names |-> IF b \in gone THEN NoImage ELSE image[b]]
           /\ busy'     = [b \in Names |-> IF b \in gone THEN 0 ELSE busy[b]]
    /\ Goto(p, "rm_entry")
    /\ NoFault
    /\ UNCHANGED <<nested, qgroup, grub, running, mnt, crashes, local, grab>>

\* Mutant: the 50_custom_<BE> script stays.
grub_entry_kept(p) ==
    /\ pc[p] = "rm_entry"
    /\ Goto(p, "prep_chroot")
    /\ NoFault /\ UNCHANGED <<btrfs, grub, host, local, grab>>

delete_grub_entry(p) ==
    /\ pc[p] = "rm_entry"
    /\ entry' = entry \ {arg[p]}
    /\ Goto(p, "prep_chroot")
    /\ NoFault /\ UNCHANGED <<btrfs, menu, nextEntry, host, local, grab>>

\* End of do_delete: if the BE was the sourced next_entry, activate the
\* current BE, unless that is "@".
ResetNextEntry(p) ==
    /\ pc[p] = "reset"
    /\ IF arg[p] = seen[p] /\ CURRENTBE # Root
       THEN Goto(p, "activate") ELSE Exit(p, 0)
    /\ NoFault /\ UNCHANGED <<btrfs, grub, host, local, grab>>

\* A command fails (no space, I/O error) and the script goes on regardless.
StatusIgnored(p) ==
    /\ pc[p] \in DOMAIN After
    /\ pc' = [pc EXCEPT ![p] = After[pc[p]]]
    /\ grab' = [grab EXCEPT ![p] = {}]
    /\ Fault /\ UNCHANGED <<btrfs, grub, host, local, rc>>

----------------------------------------------------------------------------
\* GRUB boots next_entry if the menu has it, otherwise the default entry, "@".
BootTarget == IF nextEntry \in menu THEN nextEntry ELSE Root

\* An entry whose subvolume is gone does not boot: the operator picks another.
\* GRUB may or may not be able to clear next_entry on this file system.
Boot ==
    /\ running' \in IF BootTarget \in subvol THEN {BootTarget}
                    ELSE (menu \cap subvol) \cup {Root}
    /\ nextEntry' \in {nextEntry, NoBE}
    /\ mnt'  = [i \in Binds |-> 0]
    /\ busy' = [b \in Names |-> 0]
    /\ pc'   = [p \in Proc |-> "idle"]
    /\ cmd'  = [p \in Proc |-> "activate"]
    /\ arg'  = [p \in Proc |-> Root]
    /\ auto' = [p \in Proc |-> FALSE]
    /\ seen' = [p \in Proc |-> NoBE]
    /\ grab' = [p \in Proc |-> {}]
    /\ rc'   = [p \in Proc |-> 0]
    /\ NoFault /\ UNCHANGED <<btrfs, entry, menu>>

Reboot == (\A p \in Proc : ~Alive(p)) /\ Boot /\ UNCHANGED crashes

PowerCut ==
    /\ \E p \in Proc : Alive(p)
    /\ crashes < MaxCrashes /\ crashes' = crashes + 1
    /\ Boot

\* The running system changes its own root image.
WriteRoot ==
    /\ running # Installer
    /\ \E i \in Image : image' = [image EXCEPT ![running] = i]
    /\ UNCHANGED <<subvol, bootable, fstab, nested, qgroup, grub, host, local,
                   pc, grab, rc, faults>>

----------------------------------------------------------------------------
Init ==
    /\ subvol = {Root} /\ bootable = {} /\ nested = {} /\ qgroup = {Root}
    /\ fstab = [b \in Names |-> Root]
    /\ image \in [Names -> Image] /\ (\A b \in Names : image[b] = image[Root])
    /\ entry = {} /\ menu = {} /\ nextEntry = NoBE
    /\ running \in {Root, Installer}
    /\ mnt = [i \in Binds |-> 0] /\ busy = [b \in Names |-> 0]
    /\ faults = 0 /\ crashes = 0
    /\ pc   = [p \in Proc |-> "idle"]
    /\ cmd  = [p \in Proc |-> "activate"]
    /\ arg  = [p \in Proc |-> Root]
    /\ auto = [p \in Proc |-> FALSE]
    /\ seen = [p \in Proc |-> NoBE]
    /\ grab = [p \in Proc |-> {}]
    /\ rc   = [p \in Proc |-> 0]

BeadmStep(p) ==
    \/ CreateCheck(p) \/ Snapshot(p) \/ TouchBootable(p)
    \/ fix_root_fstab_entry(p) \/ generate_grub_entry(p)
    \/ prep_chroot(p) \/ CollectEntries(p) \/ InstallMenu(p)
    \/ tear_down_chroot(p) \/ activate_be(p) \/ EditEnv(p)
    \/ DestroyCheck(p) \/ QgroupDestroy(p) \/ DeleteSubvol(p)
    \/ delete_grub_entry(p) \/ ResetNextEntry(p) \/ StatusIgnored(p)

Command(p) ==
    \E b \in Names :
        \/ \E a \in BOOLEAN : Invoke(p, "create", b, a)
        \/ Invoke(p, "destroy", b, FALSE)
        \/ Invoke(p, "activate", b, FALSE)

Next ==
    \/ \E p \in Proc : Command(p) \/ BeadmStep(p)
    \/ Reboot \/ PowerCut \/ WriteRoot

Spec == Init /\ [][Next]_vars

----------------------------------------------------------------------------
TypeOK ==
    /\ subvol \subseteq Names /\ bootable \subseteq subvol
    /\ nested \subseteq Names \X (Names \cup {Installer})
    /\ qgroup \subseteq Names /\ busy \in [Names -> Nat]
    /\ fstab \in [Names -> Names] /\ image \in [Names -> Image]
    /\ entry \subseteq Names /\ menu \subseteq Names
    /\ nextEntry \in Names \cup {Installer, NoBE}
    /\ running \in Names \cup {Installer}
    /\ mnt \in [Binds -> Nat] /\ faults \in Nat /\ crashes \in Nat
    /\ pc \in [Proc -> Labels] /\ arg \in [Proc -> Names]
    /\ cmd \in [Proc -> {"create", "destroy", "activate"}]
    /\ auto \in [Proc -> BOOLEAN] /\ rc \in [Proc -> 0..2]
    /\ seen \in [Proc -> Names \cup {Installer, NoBE}]
    /\ grab \in [Proc -> SUBSET Names]

----------------------------------------------------------------------------
(* Properties.                                                             *)

AtRest      == \A p \in Proc : ~Alive(p)
Undisturbed == faults = 0 /\ crashes = 0

\* The root file system in use is never deleted, nor is "@", which holds every
\* other BE and the boot loader's files, whatever commands interleave, fail or
\* are cut off: do_delete tests this once (464-472) and deletes later (481).
RunningKept == Root \in subvol /\ running \in subvol \cup {Installer}

\* What makes RunningKept inductive: a destroy past its tests never aims at
\* "@" or the running BE, since no reboot lets it live on (464-481).
DestroySafe ==
    \A p \in Proc : pc[p] \in {"qgroup", "delete"} => arg[p] \notin {running, Root}

\* With no command under way, what beadm lists as BEs, what grub.d holds and
\* what GRUB offers are one set (create_be 321-330, do_delete 481-483).
MenuIsCurrent == AtRest /\ Undisturbed => entry = bootable /\ menu = bootable

\* With no command under way the next boot finds its root subvolume, and that
\* BE's fstab mounts the BE itself as "/", not the BE it was cloned from
\* (fix_root_fstab_entry 326, update_grub_cfg 330 and 483).
BootsItself ==
    AtRest /\ Undisturbed => BootTarget \in subvol /\ fstab[BootTarget] = BootTarget

\* A command that was to activate a BE and exits 0 has made it the BE of the
\* next boot: it is in next_entry and in the menu (activate_be 355-357).
ActivationBoots ==
    Undisturbed =>
        \A p \in Proc :
            /\ pc[p] = "exit" /\ rc[p] = 0
            /\ cmd[p] = "activate" \/ (cmd[p] = "create" /\ auto[p])
            => BootTarget = arg[p]

\* A create that gets past its snapshot (314-319) has a copy of the running
\* root image under the new name, also after power cuts.
CreateClones ==
    [][\A p \in Proc : pc[p] = "snapshot" /\ pc'[p] = "touch"
                          => image'[arg[p]] = image[SRCPATH]]_vars

\* CreateClones while nothing was cut off or has failed.
CreateClonesUndisturbed ==
    [][Undisturbed =>
          \A p \in Proc : pc[p] = "snapshot" /\ pc'[p] = "touch"
                             => image'[arg[p]] = image[SRCPATH]]_vars

\* A create without -a leaves the next boot as it was, until a reboot
\* (do_create 345 activates only when asked to).
CreateKeepsBootTarget ==
    [][\A p \in Proc : cmd[p] = "create" /\ ~auto[p] /\ Alive(p) /\ pc'[p] # "idle"
                          => BootTarget' = BootTarget]_vars

\* With no command under way every subvolume has its quota group and no
\* quota group outlives its subvolume (474-481): "beadm list" sizes need it.
QuotaPerBE == AtRest /\ Undisturbed => qgroup = subvol

\* Whatever was cut off before, while no command has failed unnoticed, a create
\* that exits 0 leaves a listed BE that GRUB offers and that mounts itself, and
\* a destroy that exits 0 leaves GRUB nothing of it and, unless it held another
\* subvolume, no subvolume (create_be 300-330, do_delete 478-483).
SuccessIsComplete ==
    \A p \in Proc :
        pc[p] = "exit" /\ rc[p] = 0 /\ faults = 0 =>
            /\ cmd[p] = "create" =>
                   arg[p] \in bootable \cap menu /\ fstab[arg[p]] = arg[p]
            /\ cmd[p] = "destroy" =>
                   /\ arg[p] \notin entry \cup menu
                   /\ arg[p] \in subvol => \E c \in Names \cup {Installer} :
                                               <<arg[p], c>> \in nested

\* No command's unmounting, stacked as the mounts are and wherever an umount
\* meets EBUSY, takes /sys, /dev or /proc from under the update-grub of another
\* command (118-134, 278-284): the count of mounts never falls below the
\* commands that still need one.
ChrootMounted ==
    faults = 0 => \A p \in Proc : InChroot(p) => \A i \in Binds : mnt[i] > 0

\* With two commands interleaving, a BE that runs was booted with an fstab that
\* mounts it as "/", and no command has since pointed that fstab elsewhere
\* (fix_root_fstab_entry 326).
RunningMountsItself == running \in BE /\ Undisturbed => fstab[running] = running

\* Once two interleaved commands have ended, every BE GRUB offers mounts itself
\* as "/", even where the menu itself is out of date (create_be 326-330).
MenuMountsItself ==
    AtRest /\ Undisturbed => \A b \in menu \cap subvol : fstab[b] = b
=============================================================================
