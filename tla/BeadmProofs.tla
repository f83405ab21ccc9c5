---------------------------- MODULE BeadmProofs ----------------------------
(***************************************************************************)
(* Beadm keeps its types and never deletes the running root or "@", for    *)
(* every number of BEs and processes and whatever fails or is cut off.     *)
(***************************************************************************)
EXTENDS Beadm, TLAPS

\* The inductive invariant: RunningKept needs DestroySafe, because the tests of
\* do_delete and its delete are different steps.
Inv == TypeOK /\ RunningKept /\ DestroySafe

\* A step of the system around beadm: it writes root images, mounts and unmounts
\* file systems in a BE, or fails; none of beadm's own state changes.  WriteRoot
\* is one, and so are the steps of apt-wrapper between its beadm commands.
ContentStep ==
    /\ image' \in [Names -> Image] /\ busy' \in [Names -> Nat]
    /\ faults' \in {faults, faults + 1}
    /\ UNCHANGED <<subvol, bootable, fstab, nested, qgroup, grub, running, mnt,
                   crashes, local, pc, grab, rc>>

Crash == Boot /\ crashes' = crashes + 1

\* What can happen to beadm's state, by itself or under apt-wrapper.
HostStep ==
    \/ \E p \in Proc : Command(p) \/ BeadmStep(p)
    \/ Reboot \/ Crash \/ ContentStep

\* A step of one process goes to a label, and every label is in Labels.
LEMMA AfterInLabels == \A l \in DOMAIN After : After[l] \in Labels
BY DEF After, Labels

LEMMA AfterNotArmed ==
    \A l \in DOMAIN After : After[l] \in {"qgroup", "delete"} => l = "qgroup"
BY DEF After

LEMMA InitInv == Init => Inv
<1> SUFFICES ASSUME Init PROVE Inv
    OBVIOUS
<1> USE NamesAssumption DEF Init, Names
<1>1. TypeOK
    BY DEF TypeOK, Labels
<1>2. RunningKept
    BY DEF RunningKept
<1>3. DestroySafe
    BY DEF DestroySafe
<1> QED
    BY <1>1, <1>2, <1>3 DEF Inv

LEMMA CreateStep ==
    ASSUME Inv, NEW p \in Proc,
           CreateCheck(p) \/ Snapshot(p) \/ TouchBootable(p)
             \/ fix_root_fstab_entry(p) \/ generate_grub_entry(p)
    PROVE  Inv'
<1> USE NamesAssumption DEF btrfs, grub, host, local, Goto, Exit, NoFault, Fault
<1>1. CASE CreateCheck(p)
    <2>1. TypeOK'
        BY <1>1 DEF Inv, TypeOK, CreateCheck, Labels
    <2>2. RunningKept' /\ DestroySafe'
        BY <1>1 DEF Inv, TypeOK, CreateCheck, RunningKept, DestroySafe
    <2> QED
        BY <2>1, <2>2 DEF Inv
<1>2. CASE Snapshot(p)
    <2>1. TypeOK'
        <3>1. SRCPATH \in Names
            BY DEF Inv, TypeOK, SRCPATH, CURRENTBE, Names
        <3>2. CASE SnapshotNew(p) /\ Goto(p, "touch") /\ NoFault
            BY <1>2, <3>1, <3>2 DEF Inv, TypeOK, Snapshot, SnapshotNew, Labels
        <3>3. CASE SnapshotInside(p) /\ Goto(p, "touch") /\ NoFault
            BY <1>2, <3>3 DEF Inv, TypeOK, Snapshot, SnapshotInside, Labels, CURRENTBE
        <3>4. CASE Exit(p, 2) /\ UNCHANGED btrfs
            BY <1>2, <3>4 DEF Inv, TypeOK, Snapshot, Labels
        <3> QED
            BY <1>2, <3>2, <3>3, <3>4 DEF Snapshot
    <2>2. RunningKept' /\ DestroySafe'
        BY <1>2 DEF Inv, TypeOK, Snapshot, SnapshotNew, SnapshotInside, RunningKept, DestroySafe
    <2> QED
        BY <2>1, <2>2 DEF Inv
<1>3. CASE TouchBootable(p)
    <2>1. TypeOK'
        BY <1>3 DEF Inv, TypeOK, TouchBootable, Labels
    <2>2. RunningKept' /\ DestroySafe'
        BY <1>3 DEF Inv, TypeOK, TouchBootable, RunningKept, DestroySafe
    <2> QED
        BY <2>1, <2>2 DEF Inv
<1>4. CASE fix_root_fstab_entry(p)
    <2>1. TypeOK'
        BY <1>4 DEF Inv, TypeOK, fix_root_fstab_entry, Labels
    <2>2. RunningKept' /\ DestroySafe'
        BY <1>4 DEF Inv, TypeOK, fix_root_fstab_entry, RunningKept, DestroySafe
    <2> QED
        BY <2>1, <2>2 DEF Inv
<1>5. CASE generate_grub_entry(p)
    <2>1. TypeOK'
        BY <1>5, BoundsAssumption DEF Inv, TypeOK, generate_grub_entry, add_grub_entry, Labels
    <2>2. RunningKept' /\ DestroySafe'
        BY <1>5 DEF Inv, TypeOK, generate_grub_entry, RunningKept, DestroySafe
    <2> QED
        BY <2>1, <2>2 DEF Inv
<1> QED
    BY <1>1, <1>2, <1>3, <1>4, <1>5

LEMMA GrubStep ==
    ASSUME Inv, NEW p \in Proc,
           prep_chroot(p) \/ CollectEntries(p) \/ InstallMenu(p)
             \/ tear_down_chroot(p)
    PROVE  Inv'
<1> USE NamesAssumption DEF btrfs, grub, host, local, Goto, Exit, NoFault, Fault
<1>1. CASE prep_chroot(p)
    <2>1. TypeOK'
        <3>1. mnt' \in [Binds -> Nat] /\ faults' \in Nat
            BY <1>1 DEF Inv, TypeOK, prep_chroot
        <3>2. pc' = [pc EXCEPT ![p] = "update_grub"] /\ UNCHANGED rc
            BY <1>1 DEF prep_chroot
        <3> QED
            BY <1>1, <3>1, <3>2 DEF Inv, TypeOK, prep_chroot, Labels
    <2>2. RunningKept' /\ DestroySafe'
        BY <1>1 DEF Inv, TypeOK, prep_chroot, RunningKept, DestroySafe
    <2> QED
        BY <2>1, <2>2 DEF Inv
<1>2. CASE CollectEntries(p)
    <2>1. TypeOK'
        BY <1>2 DEF Inv, TypeOK, CollectEntries, Labels
    <2>2. RunningKept' /\ DestroySafe'
        BY <1>2 DEF Inv, TypeOK, CollectEntries, RunningKept, DestroySafe
    <2> QED
        BY <2>1, <2>2 DEF Inv
<1>3. CASE InstallMenu(p)
    <2>1. TypeOK'
        BY <1>3 DEF Inv, TypeOK, InstallMenu, Labels
    <2>2. RunningKept' /\ DestroySafe'
        BY <1>3 DEF Inv, TypeOK, InstallMenu, RunningKept, DestroySafe
    <2> QED
        BY <2>1, <2>2 DEF Inv
<1>4. CASE tear_down_chroot(p)
    <2>1. TypeOK'
        <3>1. PICK kept \in SUBSET Binds :
                  /\ \A i \in Binds : mnt[i] = 0 => i \in kept
                  /\ mnt' = [i \in Binds |-> IF i \in kept THEN mnt[i] ELSE mnt[i] - 1]
                  /\ AfterTearDown(p, proc \notin kept)
            BY <1>4, Zenon DEF tear_down_chroot
        <3>2. pc' \in [Proc -> Labels] /\ rc' \in [Proc -> 0..2]
            <4>1. \/ pc' = [pc EXCEPT ![p] = "reset"] /\ UNCHANGED rc
                  \/ pc' = [pc EXCEPT ![p] = "activate"] /\ UNCHANGED rc
                  \/ pc' = [pc EXCEPT ![p] = "exit"] /\ rc' = [rc EXCEPT ![p] = 0]
                  \/ pc' = [pc EXCEPT ![p] = "exit"] /\ rc' = [rc EXCEPT ![p] = 2]
                BY <3>1, Zenon DEF AfterTearDown
            <4> QED
                BY <4>1 DEF Inv, TypeOK, Labels
        <3>3. mnt' \in [Binds -> Nat]
            BY <3>1 DEF Inv, TypeOK
        <3>4. faults' = faults \/ faults' = faults + 1
            BY <1>4, Zenon DEF tear_down_chroot
        <3>5. mnt' \in [Binds -> Nat] /\ faults' \in Nat
            BY <3>3, <3>4 DEF Inv, TypeOK
        <3> QED
            BY <1>4, <3>2, <3>5, Zenon DEF Inv, TypeOK, tear_down_chroot
    <2>2. RunningKept' /\ DestroySafe'
        BY <1>4 DEF Inv, TypeOK, tear_down_chroot, RunningKept, DestroySafe, AfterTearDown
    <2> QED
        BY <2>1, <2>2 DEF Inv
<1> QED
    BY <1>1, <1>2, <1>3, <1>4

LEMMA ActivateStep ==
    ASSUME Inv, NEW p \in Proc,
           activate_be(p) \/ EditEnv(p) \/ ResetNextEntry(p)
    PROVE  Inv'
<1> USE NamesAssumption DEF btrfs, grub, host, local, Goto, Exit, NoFault, Fault
<1>1. CASE activate_be(p)
    <2>1. TypeOK'
        BY <1>1 DEF Inv, TypeOK, activate_be, Labels
    <2>2. RunningKept' /\ DestroySafe'
        BY <1>1 DEF Inv, TypeOK, activate_be, RunningKept, DestroySafe
    <2> QED
        BY <2>1, <2>2 DEF Inv
<1>2. CASE EditEnv(p)
    <2>1. TypeOK'
        BY <1>2 DEF Inv, TypeOK, EditEnv, Labels, Target, CURRENTBE
    <2>2. RunningKept' /\ DestroySafe'
        BY <1>2 DEF Inv, TypeOK, EditEnv, RunningKept, DestroySafe, Target, CURRENTBE
    <2> QED
        BY <2>1, <2>2 DEF Inv
<1>3. CASE ResetNextEntry(p)
    <2>1. TypeOK'
        BY <1>3 DEF Inv, TypeOK, ResetNextEntry, Labels
    <2>2. RunningKept' /\ DestroySafe'
        BY <1>3 DEF Inv, TypeOK, ResetNextEntry, RunningKept, DestroySafe
    <2> QED
        BY <2>1, <2>2 DEF Inv
<1> QED
    BY <1>1, <1>2, <1>3

LEMMA DestroyStep ==
    ASSUME Inv, NEW p \in Proc,
           DestroyCheck(p) \/ QgroupDestroy(p) \/ DeleteSubvol(p)
             \/ delete_grub_entry(p)
    PROVE  Inv'
<1> USE NamesAssumption DEF btrfs, grub, host, local, Goto, Exit, NoFault, Fault
<1>1. CASE DestroyCheck(p)
    <2>1. TypeOK'
        BY <1>1 DEF Inv, TypeOK, DestroyCheck, Labels, CURRENTBE
    <2>2. RunningKept' /\ DestroySafe'
        BY <1>1 DEF Inv, TypeOK, DestroyCheck, RunningKept, DestroySafe, CURRENTBE
    <2> QED
        BY <2>1, <2>2 DEF Inv
<1>2. CASE QgroupDestroy(p)
    <2>1. TypeOK'
        BY <1>2 DEF Inv, TypeOK, QgroupDestroy, Labels
    <2>2. RunningKept' /\ DestroySafe'
        BY <1>2 DEF Inv, TypeOK, QgroupDestroy, RunningKept, DestroySafe
    <2> QED
        BY <2>1, <2>2 DEF Inv
<1>3. CASE DeleteSubvol(p)
    <2>1. PICK gone \in Deletable(arg[p]) :
              /\ subvol'   = subvol \ gone
              /\ bootable' = bootable \ gone
              /\ fstab'    = [b \in Names |-> IF b \in gone THEN Root ELSE fstab[b]]
              /\ image'    = [b \in Names |-> IF b \in gone THEN NoImage ELSE image[b]]
              /\ busy'     = [b \in Names |-> IF b \in gone THEN 0 ELSE busy[b]]
        BY <1>3 DEF DeleteSubvol
    <2>2. /\ pc[p] = "delete" /\ pc' = [pc EXCEPT ![p] = "rm_entry"]
          /\ UNCHANGED <<rc, faults, nested, qgroup, grub, running, mnt, crashes, local, grab>>
        BY <1>3 DEF DeleteSubvol
    <2>3. TypeOK'
        <3>1. NoImage \in Image
            BY DEF NoImage
        <3>2. /\ fstab' \in [Names -> Names] /\ image' \in [Names -> Image]
              /\ busy' \in [Names -> Nat]
            BY <2>1, <3>1 DEF Inv, TypeOK, Names
        <3>3. subvol' \subseteq Names /\ bootable' \subseteq subvol'
            BY <2>1 DEF Inv, TypeOK
        <3>4. pc' \in [Proc -> Labels]
            BY <2>2 DEF Inv, TypeOK, Labels
        <3> QED
            BY <2>2, <3>2, <3>3, <3>4 DEF Inv, TypeOK
    <2>4. RunningKept'
        <3>1. gone \subseteq {arg[p]}
            BY <2>1 DEF Deletable
        <3>2. arg[p] \notin {running, Root}
            BY <2>2 DEF Inv, DestroySafe
        <3> QED
            BY <2>1, <2>2, <3>1, <3>2 DEF Inv, RunningKept
    <2>5. DestroySafe'
        BY <2>2 DEF Inv, TypeOK, DestroySafe
    <2> QED
        BY <2>3, <2>4, <2>5 DEF Inv
<1>4. CASE delete_grub_entry(p)
    <2>1. TypeOK'
        BY <1>4 DEF Inv, TypeOK, delete_grub_entry, Labels
    <2>2. RunningKept' /\ DestroySafe'
        BY <1>4 DEF Inv, TypeOK, delete_grub_entry, RunningKept, DestroySafe
    <2> QED
        BY <2>1, <2>2 DEF Inv
<1> QED
    BY <1>1, <1>2, <1>3, <1>4

LEMMA FailedStep ==
    ASSUME Inv, NEW p \in Proc, StatusIgnored(p)
    PROVE  Inv'
<1> USE DEF btrfs, grub, host, local, Fault
<1>1. TypeOK'
    BY AfterInLabels DEF Inv, TypeOK, StatusIgnored
<1>2. RunningKept' /\ DestroySafe'
    BY AfterNotArmed DEF Inv, TypeOK, StatusIgnored, RunningKept, DestroySafe
<1> QED
    BY <1>1, <1>2 DEF Inv

LEMMA InvokeStep ==
    ASSUME Inv, NEW p \in Proc, Command(p)
    PROVE  Inv'
<1> USE DEF btrfs, grub, host, NoFault
<1>1. PICK c \in {"create", "destroy", "activate"}, b \in Names, a \in BOOLEAN :
          Invoke(p, c, b, a)
    BY DEF Command
<1>2. TypeOK'
    BY <1>1 DEF Inv, TypeOK, Invoke, Labels, next_entry, CURRENTBE
<1>3. RunningKept' /\ DestroySafe'
    BY <1>1 DEF Inv, TypeOK, Invoke, RunningKept, DestroySafe
<1> QED
    BY <1>2, <1>3 DEF Inv

LEMMA BootStep ==
    ASSUME Inv, Boot, crashes' \in Nat
    PROVE  Inv'
<1> USE NamesAssumption DEF btrfs, Boot, NoFault
<1>1. running' \in subvol
    BY DEF Inv, TypeOK, RunningKept
<1>2. TypeOK'
    BY <1>1 DEF Inv, TypeOK, Names, Labels
<1>3. RunningKept' /\ DestroySafe'
    BY <1>1 DEF Inv, TypeOK, RunningKept, DestroySafe
<1> QED
    BY <1>2, <1>3 DEF Inv

LEMMA HostInv == Inv /\ HostStep => Inv'
<1> SUFFICES ASSUME Inv, HostStep PROVE Inv'
    OBVIOUS
<1>1. CASE \E p \in Proc : Command(p) \/ BeadmStep(p)
    <2>1. PICK p \in Proc : Command(p) \/ BeadmStep(p)
        BY <1>1
    <2> QED
        BY <2>1, CreateStep, GrubStep, ActivateStep, DestroyStep, FailedStep, InvokeStep
        DEF BeadmStep
<1>2. CASE Reboot
    <2>1. crashes' \in Nat
        BY <1>2 DEF Inv, TypeOK, Reboot
    <2> QED
        BY <1>2, <2>1, BootStep DEF Reboot
<1>3. CASE Crash
    <2>1. crashes' \in Nat
        BY <1>3 DEF Inv, TypeOK, Crash
    <2> QED
        BY <1>3, <2>1, BootStep DEF Crash
<1>4. CASE ContentStep
    <2>1. TypeOK'
        BY <1>4 DEF Inv, TypeOK, ContentStep, grub, local
    <2>2. RunningKept' /\ DestroySafe'
        BY <1>4 DEF Inv, RunningKept, DestroySafe, ContentStep, local
    <2> QED
        BY <2>1, <2>2 DEF Inv
<1> QED
    BY <1>1, <1>2, <1>3, <1>4 DEF HostStep

\* Every step of beadm's specification is a HostStep, a stuttering one too.
LEMMA NextIsHostStep == Inv /\ [Next]_vars => HostStep
<1> SUFFICES ASSUME Inv, [Next]_vars PROVE HostStep
    OBVIOUS
<1>1. CASE WriteRoot
    <2>1. ContentStep
        BY <1>1 DEF Inv, TypeOK, WriteRoot, ContentStep, Names, grub, host, local
    <2> QED
        BY <2>1 DEF HostStep
<1>2. CASE UNCHANGED vars
    <2>1. ContentStep
        BY <1>2 DEF Inv, TypeOK, vars, ContentStep, btrfs, grub, host, local
    <2> QED
        BY <2>1 DEF HostStep
<1>3. CASE PowerCut
    <2>1. Crash
        BY <1>3 DEF PowerCut, Crash
    <2> QED
        BY <2>1 DEF HostStep
<1> QED
    BY <1>1, <1>2, <1>3 DEF Next, HostStep

LEMMA NextInv == Inv /\ [Next]_vars => Inv'
BY NextIsHostStep, HostInv

\* Every variable keeps its type through every command, fault and power cut.
THEOREM TypeCorrect == Spec => []TypeOK
<1>1. Inv => TypeOK
    BY DEF Inv
<1> QED
    BY <1>1, InitInv, NextInv, PTL DEF Spec

\* do_delete never deletes the running root or "@", for any set of BEs and
\* processes, any interleaving, any failing command and any power cut.
THEOREM RunningIsKept == Spec => []RunningKept
<1>1. Inv => RunningKept
    BY DEF Inv
<1> QED
    BY <1>1, InitInv, NextInv, PTL DEF Spec

\* From its tests on, a destroy aims at neither the running root nor "@".
THEOREM DestroyIsSafe == Spec => []DestroySafe
<1>1. Inv => DestroySafe
    BY DEF Inv
<1> QED
    BY <1>1, InitInv, NextInv, PTL DEF Spec
=============================================================================
