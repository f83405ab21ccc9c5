-------------------------- MODULE BeadmAloneProofs --------------------------
(***************************************************************************)
(* What beadm keeps when one command runs at a time, for any set of BEs and *)
(* any sequence of commands and reboots.                                    *)
(***************************************************************************)
EXTENDS BeadmTogetherProofs

\* One process: an administrator who gives one command after the other.
Alone == \E me : Proc = {me}

\* The labels between which the commands share their code.
Updating   == {"prep_chroot", "update_grub", "install", "tear_down"}
Activating == {"activate", "editenv"}

\* Which command a label belongs to.
CmdFits ==
    \A p \in Proc :
        /\ pc[p] \in {"create", "snapshot", "touch", "fstab", "grub_entry"}
               => cmd[p] = "create"
        /\ pc[p] \in {"destroy", "qgroup", "delete", "rm_entry", "reset"}
               => cmd[p] = "destroy"
        /\ pc[p] \in Updating => cmd[p] \in {"create", "destroy"}

\* The process is at one of the labels, or has gone past them with success.
Past(p, labels) == pc[p] \in labels \/ (pc[p] = "exit" /\ rc[p] = 0)

\* What a create has achieved by each of its labels.
CreateDone(p) ==
    cmd[p] = "create" =>
        /\ Past(p, {"touch", "fstab", "grub_entry"} \cup Updating \cup Activating)
               => arg[p] \in subvol
        /\ Past(p, {"fstab", "grub_entry"} \cup Updating \cup Activating)
               => arg[p] \in bootable
        /\ Past(p, {"grub_entry"} \cup Updating \cup Activating)
               => fstab[arg[p]] = arg[p]
        /\ Past(p, Updating \cup Activating) => arg[p] \in entry
        /\ pc[p] = "install" => arg[p] \in grab[p]
        /\ Past(p, {"tear_down"} \cup Activating) => arg[p] \in menu

Holds(b) == \E c \in Names \cup {Installer} : <<b, c>> \in nested

\* What a destroy has achieved by each of its labels.
DestroyDone(p) ==
    cmd[p] = "destroy" =>
        /\ Past(p, {"rm_entry", "reset"} \cup Updating \cup Activating)
               => (arg[p] \in subvol => Holds(arg[p]))
        /\ Past(p, {"reset"} \cup Updating \cup Activating) => arg[p] \notin entry
        /\ pc[p] = "install" => arg[p] \notin grab[p]
        /\ Past(p, {"tear_down", "reset"} \cup Activating) => arg[p] \notin menu

Progress == faults = 0 => \A p \in Proc : CreateDone(p) /\ DestroyDone(p)

\* beadm by itself mounts nothing inside a BE.
NoneBusy == \A b \in Names : busy[b] = 0

ProgressInv == Inv /\ CmdFits /\ NoneBusy /\ Progress

----------------------------------------------------------------------------
LEMMA CmdFitsStep ==
    ASSUME Inv, CmdFits, HostStep
    PROVE  CmdFits'
<1> USE DEF local, Goto, Exit, Updating
<1>0. pc \in [Proc -> Labels] /\ cmd \in [Proc -> {"create", "destroy", "activate"}]
    BY DEF Inv, TypeOK
<1>1. ASSUME NEW p \in Proc, Command(p) PROVE CmdFits'
    BY <1>0, <1>1 DEF Command, Invoke, CmdFits
<1>2. ASSUME NEW p \in Proc, BeadmStep(p) PROVE CmdFits'
    <2>1. CASE \/ CreateCheck(p) \/ Snapshot(p) \/ TouchBootable(p)
               \/ fix_root_fstab_entry(p) \/ generate_grub_entry(p)
        BY <1>0, <2>1
        DEF CmdFits, CreateCheck, Snapshot, TouchBootable, fix_root_fstab_entry,
            generate_grub_entry
    <2>2. CASE prep_chroot(p) \/ CollectEntries(p) \/ InstallMenu(p)
        BY <1>0, <2>2 DEF CmdFits, prep_chroot, CollectEntries, InstallMenu
    <2>3. CASE tear_down_chroot(p)
        BY <1>0, <2>3 DEF CmdFits, tear_down_chroot, AfterTearDown
    <2>4. CASE activate_be(p) \/ EditEnv(p) \/ ResetNextEntry(p)
        BY <1>0, <2>4 DEF CmdFits, activate_be, EditEnv, ResetNextEntry
    <2>5. CASE \/ DestroyCheck(p) \/ QgroupDestroy(p) \/ DeleteSubvol(p)
               \/ delete_grub_entry(p)
        BY <1>0, <2>5
        DEF CmdFits, DestroyCheck, QgroupDestroy, DeleteSubvol, delete_grub_entry
    <2>6. CASE StatusIgnored(p)
        BY <1>0, <2>6 DEF CmdFits, StatusIgnored, After
    <2> QED
        BY <1>2, <2>1, <2>2, <2>3, <2>4, <2>5, <2>6 DEF BeadmStep
<1>3. CASE Reboot \/ Crash
    BY <1>3 DEF Reboot, Crash, Boot, CmdFits
<1>4. CASE ContentStep
    BY <1>4 DEF ContentStep, CmdFits
<1> QED
    BY <1>1, <1>2, <1>3, <1>4 DEF HostStep

LEMMA NotBusy ==
    ASSUME NoneBusy, [Next]_vars
    PROVE  NoneBusy'
<1>1. ASSUME NEW p \in Proc, Command(p) \/ BeadmStep(p) PROVE NoneBusy'
    <2>1. CASE DeleteSubvol(p)
        BY <2>1 DEF DeleteSubvol, NoneBusy
    <2>2. CASE ~DeleteSubvol(p)
        <3>1. busy' = busy
            BY <1>1, <2>2, Zenon
            DEF host, Command, Invoke, BeadmStep, CreateCheck, Snapshot, TouchBootable,
                fix_root_fstab_entry, generate_grub_entry, prep_chroot, CollectEntries,
                InstallMenu, tear_down_chroot, activate_be, EditEnv, DestroyCheck,
                QgroupDestroy, delete_grub_entry, ResetNextEntry, StatusIgnored
        <3> QED
            BY <3>1 DEF NoneBusy
    <2> QED
        BY <2>1, <2>2
<1> QED
    BY <1>1 DEF Next, Reboot, PowerCut, Boot, WriteRoot, host, vars, NoneBusy

\* A delete keeps only a subvolume that holds another one.
LEMMA DeleteRemoves ==
    ASSUME Inv, NoneBusy, NEW p \in Proc, DeleteSubvol(p)
    PROVE  subvol' = subvol \ {arg[p]} \/ (Holds(arg[p]) /\ subvol' = subvol)
<1>1. PICK gone \in Deletable(arg[p]) : subvol' = subvol \ gone
    BY DEF DeleteSubvol
<1>2. CASE arg[p] \notin subvol \/ Holds(arg[p])
    <2>1. gone = {}
        BY <1>1, <1>2 DEF Deletable, Holds
    <2> QED
        BY <1>1, <1>2, <2>1
<1>3. CASE ~(arg[p] \notin subvol \/ Holds(arg[p]))
    <2>1. busy[arg[p]] = 0
        BY DEF NoneBusy, Inv, TypeOK
    <2>2. gone = {arg[p]}
        BY <1>1, <1>3, <2>1 DEF Deletable, Holds
    <2> QED
        BY <1>1, <2>2
<1> QED
    BY <1>2, <1>3

----------------------------------------------------------------------------
\* A command without a failing step keeps what it has achieved.
LEMMA CommandProgress ==
    ASSUME NEW p \in Proc, Inv, CmdFits, NoneBusy \/ cmd[p] # "destroy",
           CreateDone(p), DestroyDone(p), Command(p) \/ BeadmStep(p),
           faults = 0, faults' = 0
    PROVE  CreateDone(p)' /\ DestroyDone(p)'
<1> USE DEF Past, Updating, Activating, Goto, Exit, NoFault, Fault, btrfs, grub, host, local
<1>0. /\ CreateDone(p) /\ DestroyDone(p)
      /\ pc \in [Proc -> Labels] /\ cmd \in [Proc -> {"create", "destroy", "activate"}]
      /\ rc \in [Proc -> 0..2] /\ grab \in [Proc -> SUBSET Names]
      /\ arg \in [Proc -> Names] /\ fstab \in [Names -> Names]
      /\ subvol \subseteq Names /\ bootable \subseteq subvol
    BY DEF Inv, TypeOK
<1>1. CASE Command(p)
    BY <1>0, <1>1 DEF Command, Invoke, CreateDone, DestroyDone
<1>2. CASE CreateCheck(p)
    BY <1>0, <1>2 DEF CmdFits, CreateCheck, CreateDone, DestroyDone
<1>3. CASE Snapshot(p)
    <2>1. cmd'[p] = "create" /\ arg' = arg /\ grab' = grab
        BY <1>0, <1>3 DEF CmdFits, Snapshot
    <2>2. CASE pc'[p] = "touch"
        <3>1. arg[p] \in subvol'
            BY <1>0, <1>3, <2>2 DEF Snapshot, SnapshotNew, SnapshotInside
        <3> QED
            BY <1>0, <2>1, <2>2, <3>1 DEF CreateDone, DestroyDone
    <2>3. CASE pc'[p] = "exit" /\ rc'[p] = 2
        BY <2>1, <2>3 DEF CreateDone, DestroyDone
    <2> QED
        BY <1>0, <1>3, <2>2, <2>3 DEF Snapshot
<1>4. CASE TouchBootable(p)
    BY <1>0, <1>4 DEF CmdFits, TouchBootable, CreateDone, DestroyDone
<1>5. CASE fix_root_fstab_entry(p)
    BY <1>0, <1>5 DEF CmdFits, fix_root_fstab_entry, CreateDone, DestroyDone
<1>6. CASE generate_grub_entry(p)
    BY <1>0, <1>6 DEF CmdFits, generate_grub_entry, add_grub_entry, CreateDone, DestroyDone
<1>7. CASE prep_chroot(p)
    <2>1. /\ pc[p] = "prep_chroot" /\ pc' = [pc EXCEPT ![p] = "update_grub"]
          /\ UNCHANGED <<btrfs, grub, local, grab, rc>>
        BY <1>7, Zenon DEF prep_chroot
    <2> QED
        BY <1>0, <2>1 DEF CreateDone, DestroyDone, Holds
<1>8. CASE CollectEntries(p)
    BY <1>0, <1>8 DEF CollectEntries, CreateDone, DestroyDone, Holds
<1>9. CASE InstallMenu(p)
    BY <1>0, <1>9 DEF InstallMenu, CreateDone, DestroyDone, Holds
<1>10. CASE tear_down_chroot(p)
    <2>1. pc[p] = "tear_down" /\ UNCHANGED <<btrfs, grub, local, grab>>
        BY <1>10, Zenon DEF tear_down_chroot
    <2>2. /\ pc'[p] = "reset" => cmd[p] = "destroy"
          /\ pc'[p] \in {"reset", "activate", "exit"}
        BY <1>0, <1>10 DEF tear_down_chroot, AfterTearDown
    <2> QED
        BY <1>0, <2>1, <2>2 DEF CreateDone, DestroyDone, Holds
<1>11. CASE activate_be(p)
    BY <1>0, <1>11 DEF activate_be, CreateDone, DestroyDone, Holds
<1>12. CASE EditEnv(p)
    BY <1>0, <1>12 DEF EditEnv, CreateDone, DestroyDone, Holds
<1>13. CASE DestroyCheck(p)
    BY <1>0, <1>13 DEF CmdFits, DestroyCheck, CreateDone, DestroyDone
<1>14. CASE QgroupDestroy(p)
    BY <1>0, <1>14 DEF CmdFits, QgroupDestroy, CreateDone, DestroyDone
<1>15. CASE DeleteSubvol(p)
    <2>1. /\ pc[p] = "delete" /\ pc' = [pc EXCEPT ![p] = "rm_entry"]
          /\ UNCHANGED <<nested, local, grab>> /\ cmd[p] = "destroy"
        BY <1>0, <1>15 DEF DeleteSubvol, CmdFits
    <2>2. arg[p] \in subvol' => Holds(arg[p])
        BY <1>15, <2>1, DeleteRemoves
    <2> QED
        BY <1>0, <2>1, <2>2 DEF CreateDone, DestroyDone, Holds
<1>16. CASE delete_grub_entry(p)
    BY <1>0, <1>16 DEF CmdFits, delete_grub_entry, CreateDone, DestroyDone, Holds
<1>17. CASE ResetNextEntry(p)
    BY <1>0, <1>17 DEF CmdFits, ResetNextEntry, CreateDone, DestroyDone, Holds
<1>18. CASE StatusIgnored(p)
    BY <1>18 DEF StatusIgnored
<1> QED
    BY <1>1, <1>2, <1>3, <1>4, <1>5, <1>6, <1>7, <1>8, <1>9, <1>10, <1>11, <1>12,
       <1>13, <1>14, <1>15, <1>16, <1>17, <1>18 DEF BeadmStep

LEMMA ProgressStep ==
    ASSUME Alone, ProgressInv, [Next]_vars
    PROVE  ProgressInv'
<1>1. PICK me : Proc = {me}
    BY DEF Alone
<1>2. HostStep
    BY NextIsHostStep DEF ProgressInv
<1>3. Inv' /\ CmdFits' /\ NoneBusy'
    BY <1>2, HostInv, CmdFitsStep, NotBusy DEF ProgressInv
<1>4. SUFFICES ASSUME faults' = 0
               PROVE  CreateDone(me)' /\ DestroyDone(me)'
    BY <1>1, <1>3 DEF ProgressInv, Progress
<1>5. faults = 0
    BY <1>2, <1>4, DisturbancesGrow DEF ProgressInv, Inv, TypeOK
<1>6. CASE \E p \in Proc : Command(p) \/ BeadmStep(p)
    BY <1>1, <1>4, <1>5, <1>6, CommandProgress DEF ProgressInv, Progress
<1>7. CASE Reboot \/ Crash
    BY <1>1, <1>7 DEF Reboot, Crash, Boot, CreateDone, DestroyDone
<1>8. CASE ContentStep
    BY <1>1, <1>5, <1>8
    DEF ContentStep, grub, local, ProgressInv, Progress, CreateDone, DestroyDone,
        Holds, Past
<1> QED
    BY <1>2, <1>6, <1>7, <1>8 DEF HostStep

LEMMA ProgressInit == Init => ProgressInv
<1> SUFFICES ASSUME Init PROVE ProgressInv
    OBVIOUS
<1>1. Inv
    BY InitInv
<1>2. CmdFits /\ NoneBusy /\ Progress
    BY DEF Init, NoneBusy, CmdFits, Updating, Progress, CreateDone, DestroyDone
<1> QED
    BY <1>1, <1>2 DEF ProgressInv

\* With one command at a time and whatever power cuts came before, an exit status
\* of 0 means that the create or destroy is complete (300-330, 478-483).
THEOREM SuccessMeansComplete ==
    ASSUME Alone
    PROVE  Spec => []SuccessIsComplete
<1>1. Init => ProgressInv
    BY ProgressInit
<1>2. ProgressInv /\ [Next]_vars => ProgressInv'
    BY ProgressStep
<1>3. ProgressInv => SuccessIsComplete
    BY DEF ProgressInv, Progress, CreateDone, DestroyDone, Past, Holds, SuccessIsComplete
<1> QED
    BY <1>1, <1>2, <1>3, PTL DEF Spec

----------------------------------------------------------------------------
\* The labels at which what is known of the BE arg[p] may be out of step.
Changing == {"touch", "fstab", "grub_entry", "delete", "rm_entry", "prep_chroot",
             "update_grub", "install"}

\* Subvolume, marker, quota group, grub.d script and menu entry come and go
\* together, for every name outside odd; "@" has a subvolume and a quota group.
InSync(odd) ==
    /\ nested = {} /\ Root \in qgroup /\ fstab[Root] = Root
    /\ Root \notin bootable \cup entry \cup menu
    /\ \A b \in BE \ odd :
           /\ b \in subvol <=> b \in bootable
           /\ b \in qgroup <=> b \in bootable
           /\ b \in entry  <=> b \in bootable
           /\ b \in menu   <=> b \in bootable
           /\ b \in subvol => fstab[b] = b

\* Was the command to activate the BE arg[p] ?
Activates(p) == cmd[p] = "activate" \/ (cmd[p] = "create" /\ auto[p])

SettledAt(p) ==
    /\ InSync(IF pc[p] \in Changing THEN {arg[p]} ELSE {})
    /\ pc[p] \in Changing \cup {"snapshot", "qgroup"} => arg[p] \in BE
    /\ pc[p] = "snapshot" => arg[p] \notin subvol
    /\ pc[p] \in Changing => (arg[p] \in qgroup <=> cmd[p] = "create")
    /\ pc[p] = "install" => grab[p] = entry
    /\ pc[p] = "editenv" => is_valid_be(Target(p))
    /\ pc[p] = "exit" /\ rc[p] = 0 /\ Activates(p)
           => nextEntry = arg[p] /\ is_valid_be(arg[p])

\* Strengthens MenuIsCurrent, BootsItself, ActivationBoots and QuotaPerBE to
\* every state of an undisturbed command.
Settled == Undisturbed => \A p \in Proc : SettledAt(p)

AloneInv == ProgressInv /\ Settled

LEMMA CommandSettles ==
    ASSUME NEW p, Proc = {p}, AloneInv, Command(p) \/ BeadmStep(p),
           faults = 0, faults' = 0, crashes = 0
    PROVE  SettledAt(p)'
<1> USE NamesAssumption
    DEF Goto, Exit, NoFault, Fault, btrfs, grub, host, local, Changing, Names
<1>0. /\ p \in Proc /\ CmdFits /\ SettledAt(p) /\ CreateDone(p) /\ DestroyDone(p)
      /\ pc \in [Proc -> Labels] /\ cmd \in [Proc -> {"create", "destroy", "activate"}]
      /\ rc \in [Proc -> 0..2] /\ grab \in [Proc -> SUBSET Names]
      /\ arg \in [Proc -> Names] /\ fstab \in [Names -> Names]
      /\ subvol \subseteq Names /\ bootable \subseteq subvol
      /\ auto \in [Proc -> BOOLEAN] /\ Root \in subvol
      /\ NoneBusy /\ qgroup \subseteq Names
    BY DEF AloneInv, Settled, Undisturbed, ProgressInv, Progress, Inv, TypeOK, RunningKept
<1>1. CASE Command(p)
    BY <1>0, <1>1 DEF Command, Invoke, Alive, SettledAt, InSync
<1>2. CASE CreateCheck(p)
    BY <1>0, <1>2 DEF CreateCheck, is_valid_be, SettledAt, InSync
<1>3. CASE Snapshot(p)
    <2>1. /\ SnapshotNew(p) /\ pc[p] = "snapshot" /\ arg[p] \in BE
          /\ pc' = [pc EXCEPT ![p] = "touch"] /\ UNCHANGED <<grub, local, grab, rc>>
        BY <1>0, <1>3 DEF Snapshot, SnapshotInside, SettledAt
    <2>2. cmd[p] = "create" /\ InSync({})
        BY <1>0, <2>1 DEF CmdFits, SettledAt
    <2>3. InSync({arg[p]})'
        BY <1>0, <2>1, <2>2 DEF SnapshotNew, InSync
    <2> QED
        BY <1>0, <2>1, <2>2, <2>3 DEF SnapshotNew, SettledAt
<1>4. CASE TouchBootable(p)
    BY <1>0, <1>4 DEF TouchBootable, SettledAt, InSync
<1>5. CASE fix_root_fstab_entry(p)
    BY <1>0, <1>5 DEF fix_root_fstab_entry, SettledAt, InSync
<1>6. CASE generate_grub_entry(p)
    BY <1>0, <1>6 DEF generate_grub_entry, add_grub_entry, SettledAt, InSync
<1>7. CASE prep_chroot(p)
    <2>1. /\ pc[p] = "prep_chroot" /\ pc' = [pc EXCEPT ![p] = "update_grub"]
          /\ UNCHANGED <<btrfs, grub, local, grab, rc>>
        BY <1>7, Zenon DEF prep_chroot
    <2> QED
        BY <1>0, <2>1 DEF SettledAt, InSync
<1>8. CASE CollectEntries(p)
    BY <1>0, <1>8 DEF CollectEntries, SettledAt, InSync
<1>9. CASE InstallMenu(p)
    <2>1. /\ pc[p] = "install" /\ pc' = [pc EXCEPT ![p] = "tear_down"] /\ menu' = entry
          /\ UNCHANGED <<btrfs, entry, local, rc>> /\ arg[p] \in BE /\ InSync({arg[p]})
        BY <1>0, <1>9 DEF InstallMenu, SettledAt
    <2>2. CASE cmd[p] = "create"
        <3>1. /\ arg[p] \in subvol /\ arg[p] \in bootable /\ arg[p] \in entry
              /\ arg[p] \in qgroup /\ fstab[arg[p]] = arg[p]
            BY <1>0, <2>1, <2>2 DEF CreateDone, Past, Updating, SettledAt
        <3>2. InSync({})'
            BY <2>1, <3>1 DEF InSync
        <3> QED
            BY <1>0, <2>1, <3>2 DEF SettledAt
    <2>3. CASE cmd[p] = "destroy"
        <3>1. arg[p] \notin subvol /\ arg[p] \notin entry /\ arg[p] \notin qgroup
            BY <1>0, <2>1, <2>3
            DEF DestroyDone, Past, Updating, SettledAt, Holds, InSync
        <3>2. InSync({})'
            BY <1>0, <2>1, <3>1 DEF InSync
        <3> QED
            BY <1>0, <2>1, <3>2 DEF SettledAt
    <2> QED
        BY <1>0, <2>1, <2>2, <2>3 DEF CmdFits, Updating
<1>10. CASE tear_down_chroot(p)
    <2>1. pc[p] = "tear_down" /\ UNCHANGED <<btrfs, grub, local, grab>>
        BY <1>10, Zenon DEF tear_down_chroot
    <2>2. \/ pc'[p] \in {"reset", "activate"}
          \/ pc'[p] = "exit" /\ (rc'[p] = 0 => ~auto[p] /\ cmd[p] = "create")
        BY <1>0, <1>10 DEF tear_down_chroot, AfterTearDown, CmdFits, Updating
    <2> QED
        BY <1>0, <2>1, <2>2 DEF SettledAt, InSync, Activates
<1>11. CASE activate_be(p)
    BY <1>0, <1>11 DEF activate_be, SettledAt, InSync, is_valid_be, Target, CURRENTBE
<1>12. CASE EditEnv(p)
    BY <1>0, <1>12 DEF EditEnv, SettledAt, InSync, Activates, is_valid_be, Target
<1>13. CASE DestroyCheck(p)
    BY <1>0, <1>13 DEF DestroyCheck, SettledAt, InSync, is_valid_be
<1>14. CASE QgroupDestroy(p)
    BY <1>0, <1>14 DEF CmdFits, QgroupDestroy, SettledAt, InSync
<1>15. CASE DeleteSubvol(p)
    <2>1. PICK gone \in Deletable(arg[p]) :
              /\ subvol' = subvol \ gone /\ bootable' = bootable \ gone
              /\ fstab' = [b \in Names |-> IF b \in gone THEN Root ELSE fstab[b]]
        BY <1>15 DEF DeleteSubvol
    <2>2. gone \subseteq {arg[p]}
        BY <2>1 DEF Deletable
    <2>3. /\ pc[p] = "delete" /\ pc' = [pc EXCEPT ![p] = "rm_entry"]
          /\ UNCHANGED <<nested, qgroup, grub, local, grab, rc>>
        BY <1>15 DEF DeleteSubvol
    <2>4. InSync({arg[p]})' /\ arg[p] \in BE
        BY <1>0, <2>1, <2>2, <2>3 DEF SettledAt, InSync
    <2> QED
        BY <1>0, <2>3, <2>4 DEF SettledAt
<1>16. CASE delete_grub_entry(p)
    BY <1>0, <1>16 DEF delete_grub_entry, SettledAt, InSync
<1>17. CASE ResetNextEntry(p)
    BY <1>0, <1>17 DEF CmdFits, ResetNextEntry, SettledAt, InSync, Activates
<1>18. CASE StatusIgnored(p)
    BY <1>18 DEF StatusIgnored
<1> QED
    BY <1>1, <1>2, <1>3, <1>4, <1>5, <1>6, <1>7, <1>8, <1>9, <1>10, <1>11, <1>12,
       <1>13, <1>14, <1>15, <1>16, <1>17, <1>18 DEF BeadmStep

LEMMA AloneStep ==
    ASSUME Alone, AloneInv, [Next]_vars
    PROVE  AloneInv'
<1>1. PICK me : Proc = {me}
    BY DEF Alone
<1>2. HostStep
    BY NextIsHostStep DEF AloneInv, ProgressInv
<1>3. ProgressInv'
    BY ProgressStep DEF AloneInv
<1>4. SUFFICES ASSUME Undisturbed'
               PROVE  SettledAt(me)'
    BY <1>1, <1>3 DEF AloneInv, Settled
<1>5. Undisturbed /\ faults = 0 /\ crashes = 0 /\ faults' = 0 /\ crashes' = 0
    BY <1>2, <1>4, DisturbancesGrow DEF AloneInv, ProgressInv, Inv, TypeOK, Undisturbed
<1>6. CASE \E p \in Proc : Command(p) \/ BeadmStep(p)
    BY <1>1, <1>5, <1>6, CommandSettles
<1>7. CASE Reboot
    <2>1. InSync({}) /\ UNCHANGED <<btrfs, entry, menu>> /\ pc'[me] = "idle"
        BY <1>1, <1>5, <1>7
        DEF Reboot, Boot, Alive, Changing, AloneInv, Settled, SettledAt
    <2> QED
        BY <2>1 DEF btrfs, InSync, SettledAt, Changing
<1>8. CASE Crash
    BY <1>5, <1>8 DEF Crash
<1>9. CASE ContentStep
    BY <1>1, <1>5, <1>9
    DEF ContentStep, grub, local, AloneInv, Settled, SettledAt, InSync, Activates,
        is_valid_be, Target, CURRENTBE
<1> QED
    BY <1>2, <1>6, <1>7, <1>8, <1>9 DEF HostStep

LEMMA AloneInit ==
    ASSUME Init
    PROVE  AloneInv
<1>1. ProgressInv
    BY ProgressInit
<1>2. Settled
    BY NamesAssumption DEF Init, Names, Settled, SettledAt, InSync, Changing
<1> QED
    BY <1>1, <1>2 DEF AloneInv

\* What the invariant says of a state with no command under way.
LEMMA AloneAtRest ==
    ASSUME Alone, AloneInv
    PROVE  MenuIsCurrent /\ BootsItself /\ QuotaPerBE /\ ActivationBoots
<1> SUFFICES ASSUME Undisturbed
             PROVE  /\ AtRest => entry = bootable /\ menu = bootable /\ qgroup = subvol
                    /\ AtRest => BootTarget \in subvol /\ fstab[BootTarget] = BootTarget
                    /\ ActivationBoots
    BY DEF MenuIsCurrent, BootsItself, QuotaPerBE, ActivationBoots
<1>1. PICK me : Proc = {me}
    BY DEF Alone
<1>2. /\ SettledAt(me) /\ Root \in subvol /\ subvol \subseteq BE \cup {Root}
      /\ bootable \subseteq subvol /\ qgroup \subseteq BE \cup {Root}
      /\ entry \subseteq BE \cup {Root} /\ menu \subseteq BE \cup {Root}
    BY <1>1 DEF AloneInv, ProgressInv, Inv, TypeOK, RunningKept, Settled, Names
<1>3. pc[me] \in {"idle", "exit"} => InSync({})
    BY <1>2 DEF SettledAt, Changing
<1>4. AtRest => entry = bootable /\ menu = bootable /\ qgroup = subvol
    BY <1>1, <1>2, <1>3 DEF AtRest, Alive, InSync
<1>5. AtRest => BootTarget \in subvol /\ fstab[BootTarget] = BootTarget
    BY <1>1, <1>2, <1>3 DEF AtRest, Alive, InSync, BootTarget
<1>6. ActivationBoots
    <2>1. CASE pc[me] = "exit" /\ rc[me] = 0 /\ Activates(me)
        <3>1. nextEntry = arg[me] /\ is_valid_be(arg[me]) /\ InSync({})
            BY <1>2, <1>3, <2>1 DEF SettledAt
        <3>2. BootTarget = arg[me]
            BY <1>2, <3>1 DEF is_valid_be, InSync, BootTarget
        <3> QED
            BY <1>1, <3>2 DEF ActivationBoots
    <2>2. CASE ~(pc[me] = "exit" /\ rc[me] = 0 /\ Activates(me))
        BY <1>1, <2>2 DEF ActivationBoots, Activates
    <2> QED
        BY <2>1, <2>2
<1> QED
    BY <1>4, <1>5, <1>6

LEMMA AloneAlways ==
    ASSUME Alone
    PROVE  Spec => []AloneInv
<1>1. Init => AloneInv
    BY AloneInit
<1>2. AloneInv /\ [Next]_vars => AloneInv'
    BY AloneStep
<1> QED
    BY <1>1, <1>2, PTL DEF Spec

\* One command after the other keeps the BEs, the scripts of grub.d and the menu
\* one set, through any number of creates, destroys and reboots.
THEOREM MenuStaysCurrent ==
    ASSUME Alone
    PROVE  Spec => []MenuIsCurrent
<1>1. AloneInv => MenuIsCurrent
    BY AloneAtRest
<1> QED
    BY <1>1, AloneAlways, PTL

\* So the next boot always finds its subvolume, which mounts itself as "/".
THEOREM NextBootWorks ==
    ASSUME Alone
    PROVE  Spec => []BootsItself
<1>1. AloneInv => BootsItself
    BY AloneAtRest
<1> QED
    BY <1>1, AloneAlways, PTL

\* An activate, or a create -a, that exits 0 decides the next boot (355-357).
THEOREM ActivationDecides ==
    ASSUME Alone
    PROVE  Spec => []ActivationBoots
<1>1. AloneInv => ActivationBoots
    BY AloneAtRest
<1> QED
    BY <1>1, AloneAlways, PTL

\* Quota groups come and go with their subvolumes (474-481).
THEOREM QuotasFollow ==
    ASSUME Alone
    PROVE  Spec => []QuotaPerBE
<1>1. AloneInv => QuotaPerBE
    BY AloneAtRest
<1> QED
    BY <1>1, AloneAlways, PTL

\* An undisturbed create takes its copy under a free name, so it has the running
\* image, never a snapshot inside a directory that was there (300-319).
THEOREM CreateTakesACopy ==
    ASSUME Alone
    PROVE  Spec => CreateClonesUndisturbed
<1>1. ASSUME AloneInv, [Next]_vars, Undisturbed, NEW p \in Proc,
             pc[p] = "snapshot", pc'[p] = "touch"
      PROVE  image'[arg[p]] = image[SRCPATH]
    <2>1. SettledAt(p) /\ image \in [Names -> Image] /\ arg[p] \in Names
        BY <1>1 DEF AloneInv, Settled, ProgressInv, Inv, TypeOK
    <2>2. arg[p] \notin subvol
        BY <1>1, <2>1 DEF SettledAt
    <2>3. PICK q \in Proc : Command(q) \/ BeadmStep(q)
        BY <1>1 DEF Next, Reboot, PowerCut, Boot, WriteRoot, vars
    <2>4. q = p
        BY <1>1, <2>3 DEF Alone
    <2>5. Snapshot(p)
        BY <1>1, <2>3, <2>4
        DEF Command, Invoke, Alive, BeadmStep, CreateCheck, TouchBootable,
            fix_root_fstab_entry, generate_grub_entry, prep_chroot, CollectEntries,
            InstallMenu, tear_down_chroot, activate_be, EditEnv, DestroyCheck,
            QgroupDestroy, DeleteSubvol, delete_grub_entry, ResetNextEntry,
            StatusIgnored, After
    <2>6. SnapshotNew(p)
        <3>1. pc \in [Proc -> Labels]
            BY <1>1 DEF AloneInv, ProgressInv, Inv, TypeOK
        <3> QED
            BY <1>1, <2>2, <2>5, <3>1 DEF Snapshot, SnapshotInside, Exit
    <2> QED
        BY <2>1, <2>6 DEF SnapshotNew
<1>2. AloneInv /\ [Next]_vars =>
          [Undisturbed =>
              \A p \in Proc : pc[p] = "snapshot" /\ pc'[p] = "touch"
                                 => image'[arg[p]] = image[SRCPATH]]_vars
    BY <1>1
<1> QED
    BY <1>2, AloneAlways, PTL DEF Spec, CreateClonesUndisturbed
=============================================================================
