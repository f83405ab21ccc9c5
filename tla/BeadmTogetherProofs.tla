------------------------ MODULE BeadmTogetherProofs ------------------------
(***************************************************************************)
(* What survives when any number of beadm commands interleave: a chroot    *)
(* keeps its bind mounts, and a BE's fstab mounts that BE as "/".          *)
(***************************************************************************)
EXTENDS BeadmProofs, FiniteSetTheorems

\* Processes between their bind mounts and their unmounts.
Mounters == {p \in Proc : pc[p] \in {"update_grub", "install", "tear_down"}}

\* Strengthens ChrootMounted: every command that has mounted a file system on
\* /.rootbe finds a mount of it there to take away; EBUSY may leave more.
MountsCounted ==
    faults = 0 => \A i \in Binds : mnt[i] >= Cardinality(Mounters)

\* The one window in which a subvolume mounts another one as "/": its create has
\* taken the snapshot and has not come to fix_root_fstab_entry yet.
FixPending(b) == \E p \in Proc : pc[p] \in {"touch", "fstab"} /\ arg[p] = b

\* Strengthens MenuMountsItself to every subvolume and every state.
SubvolsMountThemselves ==
    Undisturbed => \A b \in subvol : fstab[b] = b \/ FixPending(b)

TogetherInv == Inv /\ MountsCounted /\ SubvolsMountThemselves /\ RunningMountsItself

----------------------------------------------------------------------------
\* A step of a process moves that process only.
LEMMA OneMoves ==
    ASSUME Inv, NEW p \in Proc, Command(p) \/ BeadmStep(p)
    PROVE  \E l \in Labels : pc' = [pc EXCEPT ![p] = l]
<1> USE DEF Goto, Exit, Labels
<1>1. CASE Command(p)
    BY <1>1 DEF Command, Invoke
<1>2. CASE Snapshot(p) \/ CreateCheck(p) \/ activate_be(p)
    BY <1>2 DEF Snapshot, CreateCheck, activate_be
<1>3. CASE DestroyCheck(p) \/ ResetNextEntry(p)
    BY <1>3 DEF DestroyCheck, ResetNextEntry
<1>4. CASE tear_down_chroot(p)
    BY <1>4 DEF tear_down_chroot, AfterTearDown
<1>5. CASE StatusIgnored(p)
    BY <1>5, AfterInLabels DEF StatusIgnored
<1>6. CASE \/ TouchBootable(p) \/ fix_root_fstab_entry(p) \/ generate_grub_entry(p)
           \/ prep_chroot(p) \/ CollectEntries(p) \/ InstallMenu(p) \/ EditEnv(p)
    BY <1>6 DEF TouchBootable, fix_root_fstab_entry, generate_grub_entry,
                prep_chroot, CollectEntries, InstallMenu, EditEnv
<1>7. CASE QgroupDestroy(p) \/ DeleteSubvol(p) \/ delete_grub_entry(p)
    BY <1>7 DEF QgroupDestroy, DeleteSubvol, delete_grub_entry
<1> QED
    BY <1>1, <1>2, <1>3, <1>4, <1>5, <1>6, <1>7 DEF BeadmStep

\* Faults and power cuts are only ever counted up.
LEMMA DisturbancesGrow ==
    ASSUME Inv, HostStep
    PROVE  faults' \in {faults, faults + 1} /\ crashes' \in {crashes, crashes + 1}
<1> USE DEF NoFault, Fault, host
<1>1. ASSUME NEW p \in Proc, Command(p) PROVE faults' = faults /\ crashes' = crashes
    BY <1>1 DEF Command, Invoke
<1>2. ASSUME NEW p \in Proc, BeadmStep(p)
      PROVE  faults' \in {faults, faults + 1} /\ crashes' = crashes
    BY <1>2, Zenon
    DEF BeadmStep, CreateCheck, Snapshot, TouchBootable, fix_root_fstab_entry,
        generate_grub_entry, prep_chroot, CollectEntries, InstallMenu,
        tear_down_chroot, activate_be, EditEnv, DestroyCheck, QgroupDestroy,
        DeleteSubvol, delete_grub_entry, ResetNextEntry, StatusIgnored
<1>3. CASE Reboot \/ Crash
    BY <1>3 DEF Reboot, Crash, Boot
<1>4. CASE ContentStep
    BY <1>4 DEF ContentStep
<1> QED
    BY <1>1, <1>2, <1>3, <1>4 DEF HostStep

----------------------------------------------------------------------------
LEMMA MountersFinite == IsFiniteSet(Mounters) /\ Cardinality(Mounters) \in Nat
<1>1. IsFiniteSet(Mounters)
    BY ProcAssumption, FS_Subset DEF Mounters
<1> QED
    BY <1>1, FS_CardinalityType

\* The steps that mount, unmount, or do neither.
LEMMA MountStep ==
    ASSUME Inv, MountsCounted, NEW p \in Proc, Command(p) \/ BeadmStep(p), faults' = 0,
           NEW i \in Binds
    PROVE  mnt'[i] >= Cardinality(Mounters')
<1> USE DEF Goto, Exit, NoFault, Fault, host
<1>0. /\ faults = 0 /\ mnt[i] >= Cardinality(Mounters)
      /\ pc \in [Proc -> Labels] /\ mnt[i] \in Nat
    <2>1. HostStep
        BY DEF HostStep
    <2> QED
        BY <2>1, DisturbancesGrow DEF MountsCounted, Inv, TypeOK
<1>1. PICK l \in Labels : pc' = [pc EXCEPT ![p] = l]
    BY OneMoves
<1>2. CASE prep_chroot(p)
    <2>1. mnt'[i] = mnt[i] + 1
        BY <1>0, <1>2 DEF prep_chroot
    <2>2. p \notin Mounters /\ Mounters' = Mounters \cup {p}
        BY <1>0, <1>2 DEF prep_chroot, Mounters
    <2>3. Cardinality(Mounters') = Cardinality(Mounters) + 1
        BY <2>2, MountersFinite, FS_AddElement
    <2> QED
        BY <1>0, <2>1, <2>3, MountersFinite
<1>3. CASE tear_down_chroot(p)
    <2>1. p \in Mounters
        BY <1>3 DEF tear_down_chroot, Mounters
    <2>2. Cardinality(Mounters \ {p}) = Cardinality(Mounters) - 1
        BY <2>1, MountersFinite, FS_RemoveElement
    <2>3. mnt'[i] \in {mnt[i], mnt[i] - 1}
        BY <1>3 DEF tear_down_chroot
    <2>4. l \notin {"update_grub", "install", "tear_down"}
        BY <1>0, <1>1, <1>3 DEF tear_down_chroot, AfterTearDown
    <2>5. Mounters' = Mounters \ {p}
        BY <1>0, <1>1, <2>4 DEF Mounters
    <2> QED
        BY <1>0, <2>2, <2>3, <2>5, MountersFinite
<1>4. CASE ~prep_chroot(p) /\ ~tear_down_chroot(p)
    <2>1. mnt' = mnt
        BY <1>4
        DEF Command, Invoke, BeadmStep, CreateCheck, Snapshot, TouchBootable,
            fix_root_fstab_entry, generate_grub_entry, CollectEntries,
            InstallMenu, activate_be, EditEnv, DestroyCheck, QgroupDestroy,
            DeleteSubvol, delete_grub_entry, ResetNextEntry, StatusIgnored
    <2>2. p \in Mounters <=> l \in {"update_grub", "install", "tear_down"}
        <3>1. CASE Command(p)
            BY <1>0, <1>1, <3>1 DEF Command, Invoke, Alive, Mounters
        <3>2. CASE CollectEntries(p) \/ InstallMenu(p)
            BY <1>0, <1>1, <3>2 DEF CollectEntries, InstallMenu, Mounters
        <3>3. CASE StatusIgnored(p)
            BY <1>0, <3>3 DEF StatusIgnored
        <3>4. CASE \/ CreateCheck(p) \/ Snapshot(p) \/ TouchBootable(p)
                   \/ fix_root_fstab_entry(p) \/ generate_grub_entry(p)
            BY <1>0, <1>1, <3>4
            DEF CreateCheck, Snapshot, TouchBootable, fix_root_fstab_entry,
                generate_grub_entry, Mounters
        <3>5. CASE \/ activate_be(p) \/ EditEnv(p) \/ DestroyCheck(p)
                   \/ QgroupDestroy(p) \/ DeleteSubvol(p) \/ delete_grub_entry(p)
                   \/ ResetNextEntry(p)
            BY <1>0, <1>1, <3>5
            DEF activate_be, EditEnv, DestroyCheck, QgroupDestroy, DeleteSubvol,
                delete_grub_entry, ResetNextEntry, Mounters
        <3> QED
            BY <1>4, <3>1, <3>2, <3>3, <3>4, <3>5 DEF BeadmStep
    <2>3. Mounters' = Mounters
        BY <1>0, <1>1, <2>2 DEF Mounters
    <2> QED
        BY <1>0, <2>1, <2>3
<1> QED
    BY <1>2, <1>3, <1>4

LEMMA MountsCountedStep ==
    ASSUME Inv, MountsCounted, HostStep
    PROVE  MountsCounted'
<1>1. CASE \E p \in Proc : Command(p) \/ BeadmStep(p)
    BY <1>1, MountStep DEF MountsCounted
<1>2. CASE Reboot \/ Crash
    <2>1. mnt' = [i \in Binds |-> 0] /\ Mounters' = {}
        BY <1>2 DEF Reboot, Crash, Boot, Mounters
    <2> QED
        BY <2>1, FS_EmptySet DEF MountsCounted
<1>3. CASE ContentStep
    <2>1. mnt' = mnt /\ Mounters' = Mounters /\ (faults' = 0 => faults = 0)
        BY <1>3 DEF ContentStep, Mounters, Inv, TypeOK
    <2> QED
        BY <2>1 DEF MountsCounted
<1> QED
    BY <1>1, <1>2, <1>3 DEF HostStep

----------------------------------------------------------------------------
\* A create that fixes the fstab of its clone ends the clone's window; no other
\* step of a process opens one for a subvolume that is there already.
LEMMA FstabStep ==
    ASSUME Inv, NEW p \in Proc, Command(p) \/ BeadmStep(p), faults' = 0, faults = 0,
           \A b \in subvol : fstab[b] = b \/ FixPending(b)
    PROVE  \A b \in subvol' : fstab'[b] = b \/ FixPending(b)'
<1> USE DEF Goto, Exit, NoFault, Fault, btrfs, local, FixPending
<1>0. /\ pc \in [Proc -> Labels] /\ arg \in [Proc -> Names]
      /\ fstab \in [Names -> Names] /\ subvol \subseteq Names
    BY DEF Inv, TypeOK
<1>1. PICK l \in Labels : pc' = [pc EXCEPT ![p] = l]
    BY OneMoves
<1>2. SUFFICES ASSUME NEW b \in subvol', fstab'[b] # b
               PROVE  \E q \in Proc : pc'[q] \in {"touch", "fstab"} /\ arg'[q] = b
    OBVIOUS
<1>3. CASE SnapshotNew(p) /\ Snapshot(p)
    <2>1. arg' = arg /\ pc' = [pc EXCEPT ![p] = "touch"]
        BY <1>0, <1>3 DEF Snapshot, SnapshotNew, SnapshotInside
    <2>2. CASE b = arg[p]
        BY <1>0, <2>1, <2>2
    <2>3. CASE b # arg[p]
        <3>1. b \in subvol /\ fstab'[b] = fstab[b] /\ pc[p] = "snapshot"
            BY <1>0, <1>3, <2>3 DEF SnapshotNew, Snapshot
        <3> QED
            BY <1>0, <1>2, <2>1, <3>1
    <2> QED
        BY <2>2, <2>3
<1>4. CASE Snapshot(p) /\ ~SnapshotNew(p)
    <2>1. UNCHANGED <<subvol, fstab, arg>> /\ pc[p] = "snapshot"
        BY <1>4 DEF Snapshot, SnapshotInside
    <2> QED
        BY <1>0, <1>1, <1>2, <2>1
<1>5. CASE Command(p)
    <2>1. UNCHANGED <<subvol, fstab>> /\ ~Alive(p) /\ \A q \in Proc : q # p => arg'[q] = arg[q]
        BY <1>0, <1>5 DEF Command, Invoke
    <2>2. PICK q \in Proc : pc[q] \in {"touch", "fstab"} /\ arg[q] = b
        BY <1>2, <2>1
    <2>3. q # p
        BY <2>1, <2>2 DEF Alive
    <2> QED
        BY <1>0, <1>1, <2>1, <2>2, <2>3
<1>6. CASE TouchBootable(p)
    BY <1>0, <1>1, <1>2, <1>6 DEF TouchBootable
<1>7. CASE fix_root_fstab_entry(p)
    BY <1>0, <1>1, <1>2, <1>7 DEF fix_root_fstab_entry
<1>8. CASE DeleteSubvol(p)
    <2>1. subvol' \subseteq subvol /\ fstab'[b] = fstab[b] /\ UNCHANGED arg /\ pc[p] = "delete"
        BY <1>0, <1>2, <1>8 DEF DeleteSubvol
    <2> QED
        BY <1>0, <1>1, <1>2, <2>1
<1>9. CASE StatusIgnored(p)
    BY <1>9 DEF StatusIgnored
<1>10. CASE \/ CreateCheck(p) \/ generate_grub_entry(p) \/ prep_chroot(p)
            \/ CollectEntries(p) \/ InstallMenu(p) \/ activate_be(p) \/ EditEnv(p)
    <2>1. UNCHANGED <<subvol, fstab, arg>> /\ pc[p] \notin {"touch", "fstab"}
        BY <1>10 DEF CreateCheck, generate_grub_entry, prep_chroot, CollectEntries,
                     InstallMenu, activate_be, EditEnv
    <2> QED
        BY <1>0, <1>1, <1>2, <2>1
<1>11. CASE \/ tear_down_chroot(p) \/ DestroyCheck(p) \/ QgroupDestroy(p)
            \/ delete_grub_entry(p) \/ ResetNextEntry(p)
    <2>1. UNCHANGED <<subvol, fstab, arg>> /\ pc[p] \notin {"touch", "fstab"}
        BY <1>11, Zenon DEF tear_down_chroot, DestroyCheck, QgroupDestroy,
                            delete_grub_entry, ResetNextEntry
    <2> QED
        BY <1>0, <1>1, <1>2, <2>1
<1> QED
    BY <1>3, <1>4, <1>5, <1>6, <1>7, <1>8, <1>9, <1>10, <1>11 DEF BeadmStep

\* No command points the fstab of the running BE elsewhere.
LEMMA RunningFstabStep ==
    ASSUME Inv, NEW p \in Proc, Command(p) \/ BeadmStep(p),
           running \in BE, fstab[running] = running
    PROVE  running' = running /\ fstab'[running] = running
<1> USE NamesAssumption DEF btrfs, host
<1>0. /\ running \in subvol /\ fstab \in [Names -> Names] /\ running \in Names
      /\ arg[p] \in Names
    BY DEF Inv, TypeOK, RunningKept, Names
<1>1. CASE Snapshot(p)
    BY <1>0, <1>1 DEF Snapshot, SnapshotNew, SnapshotInside
<1>2. CASE fix_root_fstab_entry(p)
    BY <1>0, <1>2 DEF fix_root_fstab_entry
<1>3. CASE DeleteSubvol(p)
    <2>1. PICK gone \in Deletable(arg[p]) :
              fstab' = [b \in Names |-> IF b \in gone THEN Root ELSE fstab[b]]
        BY <1>3 DEF DeleteSubvol
    <2>2. running \notin gone
        <3>1. gone \subseteq {arg[p]}
            BY <2>1 DEF Deletable
        <3>2. arg[p] # running
            BY <1>3 DEF DeleteSubvol, Inv, DestroySafe
        <3> QED
            BY <3>1, <3>2
    <2> QED
        BY <1>0, <1>3, <2>1, <2>2 DEF DeleteSubvol
<1>4. CASE ~(Snapshot(p) \/ fix_root_fstab_entry(p) \/ DeleteSubvol(p))
    BY <1>4, Zenon
    DEF Command, Invoke, BeadmStep, CreateCheck, TouchBootable,
        generate_grub_entry, prep_chroot, CollectEntries, InstallMenu,
        tear_down_chroot, activate_be, EditEnv, DestroyCheck, QgroupDestroy,
        delete_grub_entry, ResetNextEntry, StatusIgnored
<1> QED
    BY <1>1, <1>2, <1>3, <1>4

LEMMA TogetherStep == TogetherInv /\ HostStep => TogetherInv'
<1> SUFFICES ASSUME TogetherInv, HostStep PROVE TogetherInv'
    OBVIOUS
<1>1. Inv /\ MountsCounted /\ Inv' /\ MountsCounted'
    BY HostInv, MountsCountedStep DEF TogetherInv
<1>2. SUFFICES ASSUME Undisturbed'
               PROVE  SubvolsMountThemselves' /\ RunningMountsItself'
    BY <1>1 DEF TogetherInv, SubvolsMountThemselves, RunningMountsItself
<1>3. Undisturbed /\ faults' = faults /\ crashes' = crashes
    BY <1>1, <1>2, DisturbancesGrow DEF Undisturbed, Inv, TypeOK
<1>4. CASE \E p \in Proc : Command(p) \/ BeadmStep(p)
    <2>1. PICK p \in Proc : Command(p) \/ BeadmStep(p)
        BY <1>4
    <2>2. SubvolsMountThemselves'
        BY <1>1, <1>2, <1>3, <2>1, FstabStep
        DEF TogetherInv, SubvolsMountThemselves, Undisturbed
    <2>3. running' = running
        BY <2>1, Zenon
        DEF host, Command, Invoke, BeadmStep, CreateCheck, Snapshot, TouchBootable,
            fix_root_fstab_entry, generate_grub_entry, prep_chroot, CollectEntries,
            InstallMenu, tear_down_chroot, activate_be, EditEnv, DestroyCheck,
            QgroupDestroy, DeleteSubvol, delete_grub_entry, ResetNextEntry,
            StatusIgnored
    <2>4. RunningMountsItself'
        BY <1>1, <1>3, <2>1, <2>3, RunningFstabStep DEF TogetherInv, RunningMountsItself
    <2> QED
        BY <2>2, <2>4
<1>5. CASE Reboot
    <2>1. \A b \in subvol : fstab[b] = b
        BY <1>3, <1>5
        DEF Reboot, Alive, TogetherInv, SubvolsMountThemselves, FixPending
    <2>2. running' \in subvol /\ UNCHANGED <<subvol, fstab>>
        BY <1>1, <1>5 DEF Reboot, Boot, btrfs, Inv, RunningKept
    <2> QED
        BY <2>1, <2>2 DEF SubvolsMountThemselves, RunningMountsItself
<1>6. CASE Crash
    BY <1>1, <1>3, <1>6 DEF Crash, Inv, TypeOK
<1>7. CASE ContentStep
    BY <1>3, <1>7
    DEF ContentStep, local, TogetherInv, SubvolsMountThemselves, FixPending,
        RunningMountsItself
<1> QED
    BY <1>4, <1>5, <1>6, <1>7 DEF HostStep

LEMMA TogetherInit == Init => TogetherInv
<1> SUFFICES ASSUME Init PROVE TogetherInv
    OBVIOUS
<1>1. Inv
    BY InitInv
<1>2. MountsCounted
    <2>1. Mounters = {} /\ mnt = [i \in Binds |-> 0]
        BY DEF Init, Mounters
    <2> QED
        BY <2>1, FS_EmptySet DEF MountsCounted
<1>3. SubvolsMountThemselves /\ RunningMountsItself
    BY NamesAssumption DEF Init, Names, SubvolsMountThemselves, RunningMountsItself
<1> QED
    BY <1>1, <1>2, <1>3 DEF TogetherInv

\* A command in its chroot is a mounter, so the count is not zero.
LEMMA TogetherMounted == TogetherInv => ChrootMounted
<1> SUFFICES ASSUME TogetherInv, faults = 0, NEW p \in Proc, InChroot(p), NEW i \in Binds
             PROVE  mnt[i] > 0
    BY DEF ChrootMounted
<1>1. p \in Mounters
    BY DEF InChroot, Mounters
<1>2. Cardinality(Mounters) # 0
    BY <1>1, MountersFinite, FS_EmptySet
<1>3. mnt[i] >= Cardinality(Mounters) /\ mnt[i] \in Nat
    BY DEF TogetherInv, MountsCounted, Inv, TypeOK
<1> QED
    BY <1>2, <1>3, MountersFinite

\* What the invariant says once every command has ended.
LEMMA TogetherAtRest == TogetherInv => MenuMountsItself
BY DEF TogetherInv, SubvolsMountThemselves, FixPending, AtRest, Alive, MenuMountsItself

LEMMA TogetherNext == TogetherInv /\ [Next]_vars => TogetherInv'
BY NextIsHostStep, TogetherStep DEF TogetherInv

\* However many commands stack their mounts on /.rootbe, whatever umounts meet
\* EBUSY and wherever power cuts fall, no command unmounts what the update-grub
\* of another one needs (prep_chroot, tear_down_chroot, 118-134).
THEOREM ChrootStaysMounted == Spec => []ChrootMounted
BY TogetherInit, TogetherNext, TogetherMounted, PTL DEF Spec

\* Any number of interleaved commands leave every BE of the menu with an fstab
\* that mounts the BE itself (fix_root_fstab_entry, 326).
THEOREM MenuEntriesMountThemselves == Spec => []MenuMountsItself
BY TogetherInit, TogetherNext, TogetherAtRest, PTL DEF Spec

\* No interleaving points the fstab of the running BE at another one.
THEOREM RunningBEMountsItself == Spec => []RunningMountsItself
<1>1. TogetherInv => RunningMountsItself
    BY DEF TogetherInv
<1> QED
    BY <1>1, TogetherInit, TogetherNext, PTL DEF Spec
=============================================================================
