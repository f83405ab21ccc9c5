----------------------------- MODULE AptProofs -----------------------------
(***************************************************************************)
(* apt-wrapper together with beadm: what beadm keeps also under a           *)
(* dist-upgrade, and what the dist-upgrade itself keeps.                    *)
(***************************************************************************)
EXTENDS AptWrapper, BeadmAloneProofs

Stages == {"none", "creating", "mount", "upgrade", "umount", "finish",
           "activating", "done"}

AptTypes ==
    /\ stage \in Stages /\ rv \in Nat /\ urandom \in BOOLEAN
    /\ newbe \in Names /\ (stage # "none" => newbe \in BE)

----------------------------------------------------------------------------
\* To beadm, a step of the wrapper is one of a host with other things to do.
LEMMA AptIsHostStep ==
    ASSUME Inv, AptTypes, [AptNext]_<<vars, aptVars>>
    PROVE  HostStep
<1> USE AptAssumption, NamesAssumption
    DEF ContentStep, Names, btrfs, grub, host, local, NoFault, Fault, vars
<1>0. /\ image \in [Names -> Image] /\ busy \in [Names -> Nat]
      /\ newbe \in Names /\ faults \in Nat /\ running \in Names \cup {Installer}
    BY DEF Inv, TypeOK, AptTypes
<1>1. CASE DistUpgrade
    <2>1. \E b \in Names : Invoke(Apt, "create", b, FALSE)
        BY <1>1 DEF DistUpgrade
    <2> QED
        BY <2>1, Zenon DEF HostStep, Command
<1>2. CASE CheckCreated \/ Activated
    <2>1. ContentStep
        BY <1>0, <1>2 DEF CheckCreated, Activated
    <2> QED
        BY <2>1 DEF HostStep
<1>3. CASE Mount
    <2>1. ContentStep
        <3>1. busy' \in [Names -> Nat]
            BY <1>0, <1>3 DEF Mount, mounted
        <3>2. faults' \in {faults, faults + 1}
            BY <1>3 DEF Mount
        <3> QED
            BY <1>0, <1>3, <3>1, <3>2, Zenon DEF Mount
    <2> QED
        BY <2>1 DEF HostStep
<1>4. CASE Upgrade
    <2>1. ContentStep
        BY <1>0, <1>4 DEF Upgrade
    <2> QED
        BY <2>1 DEF HostStep
<1>5. CASE Umount
    <2>1. ContentStep
        <3>1. unmounted \in [Names -> Nat]
            BY <1>0 DEF unmounted
        <3>2. busy' \in {busy, unmounted} /\ faults' \in {faults, faults + 1}
            BY <1>5 DEF Umount
        <3>3. busy' \in [Names -> Nat]
            BY <1>0, <3>1, <3>2
        <3> QED
            BY <1>0, <1>5, <3>2, <3>3, Zenon DEF Umount
    <2> QED
        BY <2>1 DEF HostStep
<1>6. CASE Finish
    <2>1. CASE UNCHANGED vars
        <3>1. ContentStep
            BY <1>0, <2>1
        <3> QED
            BY <3>1 DEF HostStep
    <2>2. CASE Invoke(Apt, "activate", newbe, FALSE)
        BY <1>0, <2>2, Zenon DEF HostStep, Command
    <2> QED
        BY <1>6, <2>1, <2>2 DEF Finish
<1>7. CASE ExecApt
    <2>1. ContentStep
        BY <1>0, <1>7 DEF ExecApt, WriteRoot
    <2> QED
        BY <2>1 DEF HostStep
<1>8. CASE AptReboot \/ AptPowerCut
    BY <1>8 DEF AptReboot, AptPowerCut, HostStep, Crash
<1>9. CASE (\E p \in Proc : BeadmStep(p)) \/ AdminCommand
    BY <1>9 DEF AdminCommand, HostStep
<1>10. CASE UNCHANGED <<vars, aptVars>>
    <2>1. ContentStep
        BY <1>0, <1>10
    <2> QED
        BY <2>1 DEF HostStep
<1> QED
    BY <1>1, <1>2, <1>3, <1>4, <1>5, <1>6, <1>7, <1>8, <1>9, <1>10
    DEF AptNext, AptStep

LEMMA AptTypesStep ==
    ASSUME AptTypes, [AptNext]_<<vars, aptVars>>
    PROVE  AptTypes'
<1> USE DEF aptVars, AptStep, DistUpgrade, CheckCreated, Mount, Upgrade, Umount,
            Finish, Activated, AptReboot, AptPowerCut, WrapperGone, ExecApt,
            AdminCommand, AptNext
<1>1. urandom' \in BOOLEAN
    BY Zenon DEF AptTypes
<1>2. rv' \in Nat
    <2>1. rv' \in {rv, 0, 1, 100, 127}
        BY Zenon
    <2> QED
        BY <2>1 DEF AptTypes
<1>3. stage' \in Stages
    BY DEF AptTypes, Stages
<1>4. newbe' \in Names /\ (stage' # "none" => newbe' \in BE)
    BY DEF AptTypes, Stages, Names
<1> QED
    BY <1>1, <1>2, <1>3, <1>4 DEF AptTypes

TogetherAptInv == TogetherInv /\ AptTypes

LEMMA TogetherAptInit == AptInit => TogetherAptInv
BY TogetherInit DEF AptInit, TogetherAptInv, AptTypes, Stages, Names

LEMMA TogetherAptNext ==
    TogetherAptInv /\ [AptNext]_<<vars, aptVars>> => TogetherAptInv'
BY AptIsHostStep, AptTypesStep, TogetherStep DEF TogetherAptInv, TogetherInv

LEMMA TogetherAptAlways == AptSpec => []TogetherAptInv
BY TogetherAptInit, TogetherAptNext, PTL DEF AptSpec

\* The running root and "@" outlive every mix of dist-upgrades and beadm
\* commands, and no destroy past its tests aims at them.
THEOREM AptRunningIsKept == AptSpec => [](RunningKept /\ DestroySafe)
<1>1. TogetherAptInv => RunningKept /\ DestroySafe
    BY DEF TogetherAptInv, TogetherInv, Inv
<1> QED
    BY <1>1, TogetherAptAlways, PTL

\* No command of such a mix unmounts what the update-grub of another one needs.
THEOREM AptChrootStaysMounted == AptSpec => []ChrootMounted
<1>1. TogetherAptInv => ChrootMounted
    BY TogetherMounted DEF TogetherAptInv
<1> QED
    BY <1>1, TogetherAptAlways, PTL

\* And the BE that runs, and every BE of the menu at rest, mount themselves.
THEOREM AptFstabsAreRight == AptSpec => [](RunningMountsItself /\ MenuMountsItself)
<1>1. TogetherAptInv => RunningMountsItself /\ MenuMountsItself
    BY TogetherAtRest DEF TogetherAptInv, TogetherInv
<1> QED
    BY <1>1, TogetherAptAlways, PTL

----------------------------------------------------------------------------
(* The wrapper by itself: no administrator gives beadm commands, and any   *)
(* command may fail and the power be cut at any step.                      *)

\* Only the wrapper's beadm runs, and only at the stages that wait for it.
WrapperOnly ==
    /\ \A p \in Proc : p # Apt => pc[p] = "idle"
    /\ cmd[Apt] # "destroy" /\ ~auto[Apt]
    /\ Alive(Apt) => stage \in {"creating", "activating"}
    /\ stage = "creating" => cmd[Apt] = "create" /\ arg[Apt] = newbe
    /\ stage = "activating" => cmd[Apt] = "activate" /\ arg[Apt] = newbe
    /\ pc[Apt] \in Activating => stage = "activating"

\* The running BE, the BE of the next boot and the one about to be made that are
\* listed, so that no create takes their names.
BootChain ==
    /\ running \in bootable \cup {Root}
    /\ nextEntry \in bootable \cup {Root, NoBE}
    /\ pc[Apt] = "editenv" => is_valid_be(arg[Apt])

\* The create of newbe has passed its test, and the upgrade is not activated yet.
Checked ==
    \/ /\ stage = "creating" /\ pc[Apt] # "create"
       /\ pc[Apt] = "exit" => rc[Apt] = 0
    \/ stage \in {"mount", "upgrade", "umount", "finish"}

Complete == stage = "activating" \/ (stage = "done" /\ rv = 0)

\* The wrapper works on a BE that neither runs nor is to be booted next.
Fresh ==
    /\ Checked => newbe # nextEntry
    /\ Checked \/ Complete => newbe # running

\* It activates what apt-get has brought to its end.
UpgradedFirst ==
    Complete \/ (stage \in {"umount", "finish"} /\ rv = 0) => image[newbe] = Upgraded

\* The menu changes to what grub.d holds at the time.  A BE that waits for its
\* menu entry has never run, so nothing was written to it since its upgrade.
MenuFollows ==
    /\ pc[Apt] = "install" => grab[Apt] = entry
    /\ running \in BE \cap entry => running \in menu
    /\ nextEntry \in (BE \cap entry) \ menu => image[nextEntry] = Upgraded

\* Without a failing command the new BE is listed and on the menu.
Delivered ==
    faults = 0 =>
        /\ CreateDone(Apt)
        /\ Complete \/ stage \in {"mount", "upgrade", "umount", "finish"}
               => newbe \in bootable \cap menu
        /\ Complete /\ ~Alive(Apt) => nextEntry = newbe

WrapperInv == Inv /\ AptTypes /\ CmdFits /\ WrapperOnly /\ BootChain /\ Fresh
                /\ UpgradedFirst /\ MenuFollows /\ Delivered

Wrapped == WrapperOnly /\ BootChain /\ Fresh /\ UpgradedFirst /\ MenuFollows

\* Only the wrapper's own process has a step to take, and not one of a destroy.
LEMMA OnlyAptSteps ==
    ASSUME WrapperInv, NEW p \in Proc, BeadmStep(p)
    PROVE  p = Apt /\ ~(DestroyCheck(p) \/ QgroupDestroy(p) \/ DeleteSubvol(p)
                          \/ delete_grub_entry(p) \/ ResetNextEntry(p))
<1>1. pc[p] # "idle"
    BY DEF BeadmStep, CreateCheck, Snapshot, TouchBootable, fix_root_fstab_entry,
           generate_grub_entry, prep_chroot, CollectEntries, InstallMenu,
           tear_down_chroot, activate_be, EditEnv, DestroyCheck, QgroupDestroy,
           DeleteSubvol, delete_grub_entry, ResetNextEntry, StatusIgnored, After
<1>2. p = Apt
    BY <1>1 DEF WrapperInv, WrapperOnly
<1> QED
    BY <1>2 DEF WrapperInv, WrapperOnly, CmdFits, DestroyCheck, QgroupDestroy,
                DeleteSubvol, delete_grub_entry, ResetNextEntry

\* The beadm create and activate that the wrapper runs.
LEMMA WrappedBeadmStep ==
    ASSUME WrapperInv, BeadmStep(Apt), UNCHANGED aptVars
    PROVE  Wrapped'
<1> USE AptAssumption, NamesAssumption
    DEF Goto, Exit, btrfs, grub, host, local, aptVars, Names, Activating, Updating,
        WrapperOnly, BootChain, Checked, Complete, Fresh, UpgradedFirst, MenuFollows,
        Wrapped, Alive
<1>0. /\ CmdFits /\ Wrapped
      /\ pc \in [Proc -> Labels] /\ cmd \in [Proc -> {"create", "destroy", "activate"}]
      /\ rc \in [Proc -> 0..2] /\ grab \in [Proc -> SUBSET Names]
      /\ arg \in [Proc -> Names] /\ image \in [Names -> Image]
      /\ subvol \subseteq Names /\ bootable \subseteq subvol /\ newbe \in Names
    BY DEF WrapperInv, Inv, TypeOK, AptTypes
<1>1. CASE CreateCheck(Apt)
    BY <1>0, <1>1 DEF CmdFits, CreateCheck, is_valid_be
<1>2. CASE Snapshot(Apt)
    BY <1>0, <1>2 DEF CmdFits, Snapshot, SnapshotNew, SnapshotInside, is_valid_be
<1>3. CASE TouchBootable(Apt)
    BY <1>0, <1>3 DEF CmdFits, TouchBootable, is_valid_be
<1>4. CASE fix_root_fstab_entry(Apt)
    BY <1>0, <1>4 DEF CmdFits, fix_root_fstab_entry
<1>5. CASE generate_grub_entry(Apt)
    BY <1>0, <1>5 DEF CmdFits, generate_grub_entry, add_grub_entry
<1>6. CASE prep_chroot(Apt)
    BY <1>0, <1>6 DEF CmdFits, prep_chroot
<1>7. CASE CollectEntries(Apt)
    BY <1>0, <1>7 DEF CmdFits, CollectEntries
<1>8. CASE InstallMenu(Apt)
    BY <1>0, <1>8 DEF CmdFits, InstallMenu
<1>9. CASE tear_down_chroot(Apt)
    BY <1>0, <1>9 DEF CmdFits, tear_down_chroot, AfterTearDown
<1>10. CASE activate_be(Apt)
    BY <1>0, <1>10 DEF activate_be, is_valid_be, Target
<1>11. CASE EditEnv(Apt)
    BY <1>0, <1>11 DEF EditEnv, is_valid_be, Target
<1>12. CASE StatusIgnored(Apt)
    BY <1>0, <1>12 DEF CmdFits, StatusIgnored, After
<1> QED
    BY <1>1, <1>2, <1>3, <1>4, <1>5, <1>6, <1>7, <1>8, <1>9, <1>10, <1>11, <1>12,
       OnlyAptSteps DEF BeadmStep

\* The stages of the wrapper itself.
LEMMA WrappedAptStep ==
    ASSUME WrapperInv, AptStep
    PROVE  Wrapped'
<1> USE AptAssumption, NamesAssumption
    DEF btrfs, grub, host, local, vars, Names, Activating, WrapperOnly, BootChain,
        Checked, Complete, Fresh, UpgradedFirst, MenuFollows, Wrapped, Alive
<1>0. /\ Wrapped /\ pc \in [Proc -> Labels] /\ arg \in [Proc -> Names]
      /\ cmd \in [Proc -> {"create", "destroy", "activate"}]
      /\ auto \in [Proc -> BOOLEAN] /\ image \in [Names -> Image] /\ newbe \in Names
    BY DEF WrapperInv, Inv, TypeOK, AptTypes
<1>1. CASE DistUpgrade
    BY <1>0, <1>1 DEF DistUpgrade, Invoke
<1>2. CASE CheckCreated
    BY <1>0, <1>2 DEF CheckCreated, is_valid_be
<1>3. CASE Mount
    BY <1>0, <1>3 DEF Mount
<1>4. CASE Upgrade
    BY <1>0, <1>4 DEF Upgrade
<1>5. CASE Umount
    BY <1>0, <1>5 DEF Umount
<1>6. CASE Finish
    BY <1>0, <1>6 DEF Finish, Invoke, is_valid_be
<1>7. CASE Activated
    BY <1>0, <1>7 DEF Activated, is_valid_be
<1> QED
    BY <1>1, <1>2, <1>3, <1>4, <1>5, <1>6, <1>7 DEF AptStep

\* Reboots, power cuts and the apt-get commands of the running system.
LEMMA WrappedHostStep ==
    ASSUME WrapperInv, AptReboot \/ AptPowerCut \/ ExecApt \/ UNCHANGED <<vars, aptVars>>
    PROVE  Wrapped'
<1> USE AptAssumption, NamesAssumption
    DEF btrfs, grub, host, local, vars, aptVars, Names, Activating, WrapperOnly,
        BootChain, Checked, Complete, Fresh, UpgradedFirst, MenuFollows, Wrapped, Alive
<1>0. /\ Wrapped /\ image \in [Names -> Image] /\ newbe \in Names
      /\ Root \in subvol /\ bootable \subseteq subvol /\ menu \subseteq Names
    BY DEF WrapperInv, Inv, TypeOK, RunningKept, AptTypes
<1>1. CASE AptReboot \/ AptPowerCut
    <2>1. Boot /\ WrapperGone
        BY <1>1 DEF AptReboot, AptPowerCut, Reboot
    <2>2. BootTarget \in subvol
        BY <1>0 DEF BootTarget
    <2>3. /\ running' = BootTarget /\ nextEntry' \in {nextEntry, NoBE}
          /\ UNCHANGED <<subvol, bootable, image, entry, menu>>
        BY <2>1, <2>2 DEF Boot
    <2>4. /\ stage' = "none" /\ \A p \in Proc : pc'[p] = "idle"
          /\ cmd'[Apt] = "activate" /\ auto'[Apt] = FALSE
        BY <2>1 DEF Boot, WrapperGone
    <2>5. WrapperOnly' /\ Fresh' /\ UpgradedFirst'
        BY <2>4
    <2>6. BootChain' /\ MenuFollows'
        BY <1>0, <2>3, <2>4 DEF BootTarget
    <2> QED
        BY <2>5, <2>6
<1>2. CASE ExecApt
    BY <1>0, <1>2 DEF ExecApt, WriteRoot, is_valid_be
<1>3. CASE UNCHANGED <<vars, aptVars>>
    BY <1>0, <1>3 DEF is_valid_be
<1> QED
    BY <1>1, <1>2, <1>3

\* The three sorts of steps that are left without an administrator.
LEMMA WithoutAdmin ==
    ASSUME Admin = {}, WrapperInv, [AptNext]_<<vars, aptVars>>
    PROVE  \/ BeadmStep(Apt) /\ UNCHANGED aptVars
           \/ AptStep
           \/ AptReboot \/ AptPowerCut \/ ExecApt \/ UNCHANGED <<vars, aptVars>>
BY OnlyAptSteps DEF AptNext, AdminCommand

LEMMA DeliveredStep ==
    ASSUME Admin = {}, WrapperInv, [AptNext]_<<vars, aptVars>>, faults' = 0
    PROVE  Delivered'
<1> USE AptAssumption, NamesAssumption
    DEF btrfs, grub, host, local, vars, aptVars, Complete, Alive
<1>0. /\ faults = 0 /\ Delivered /\ WrapperOnly /\ CmdFits /\ Inv /\ DestroyDone(Apt)
      /\ pc \in [Proc -> Labels] /\ arg \in [Proc -> Names] /\ rc \in [Proc -> 0..2]
      /\ cmd \in [Proc -> {"create", "destroy", "activate"}]
    BY AptIsHostStep, DisturbancesGrow
    DEF WrapperInv, Inv, TypeOK, WrapperOnly, DestroyDone
<1>1. CASE BeadmStep(Apt) /\ UNCHANGED aptVars
    <2>1. CreateDone(Apt)'
        BY <1>0, <1>1, CommandProgress DEF Delivered, WrapperOnly
    <2>2. CASE stage = "activating"
        <3>1. activate_be(Apt) \/ EditEnv(Apt)
            <4>1. /\ pc[Apt] \notin {"create", "snapshot", "touch", "fstab", "grub_entry",
                                     "destroy", "qgroup", "delete", "rm_entry", "reset"}
                  /\ pc[Apt] \notin {"prep_chroot", "update_grub", "install", "tear_down"}
                BY <1>0, <2>2 DEF WrapperOnly, CmdFits, Updating
            <4>2. ~StatusIgnored(Apt)
                BY <1>0 DEF StatusIgnored, Fault
            <4> QED
                BY <1>1, <4>1, <4>2
                DEF BeadmStep, CreateCheck, Snapshot, TouchBootable,
                    fix_root_fstab_entry, generate_grub_entry, prep_chroot,
                    CollectEntries, InstallMenu, tear_down_chroot, DestroyCheck,
                    QgroupDestroy, DeleteSubvol, delete_grub_entry, ResetNextEntry
        <3>2. /\ arg[Apt] = newbe /\ newbe \in bootable \cap menu /\ Target(Apt) = newbe
            BY <1>0, <2>2 DEF Delivered, WrapperOnly, Target
        <3> QED
            BY <1>0, <1>1, <2>1, <2>2, <3>1, <3>2
            DEF Delivered, activate_be, EditEnv, is_valid_be, Goto, Exit
    <2>3. CASE stage # "activating"
        <3>1. stage = "creating"
            <4>1. Alive(Apt)
                BY <1>1
                DEF BeadmStep, CreateCheck, Snapshot, TouchBootable,
                    fix_root_fstab_entry, generate_grub_entry, prep_chroot,
                    CollectEntries, InstallMenu, tear_down_chroot, activate_be,
                    EditEnv, DestroyCheck, QgroupDestroy, DeleteSubvol,
                    delete_grub_entry, ResetNextEntry, StatusIgnored, After
            <4> QED
                BY <1>0, <2>3, <4>1 DEF WrapperOnly
        <3> QED
            BY <1>1, <2>1, <3>1 DEF Delivered
    <2> QED
        BY <2>2, <2>3
<1>2. CASE AptStep
    <2>1. CASE DistUpgrade
        BY <1>0, <2>1 DEF DistUpgrade, Invoke, Delivered, CreateDone, Past, Updating, Activating
    <2>2. CASE CheckCreated
        BY <1>0, <2>2
        DEF CheckCreated, Delivered, WrapperOnly, CreateDone, Past
    <2>3. CASE Mount \/ Upgrade \/ Umount
        <3>1. /\ stage \in {"mount", "upgrade", "umount"}
              /\ stage' \in {"upgrade", "umount", "finish"}
              /\ UNCHANGED <<subvol, bootable, fstab, grub, local, pc, grab, rc, newbe>>
            BY <2>3, Zenon DEF Mount, Upgrade, Umount
        <3> QED
            BY <1>0, <3>1 DEF Delivered, CreateDone, Past
    <2>4. CASE Finish
        BY <1>0, <2>4 DEF Finish, Invoke, Delivered, CreateDone, Past, Updating, Activating
    <2>5. CASE Activated
        BY <1>0, <2>5 DEF Activated, Delivered, CreateDone, Past
    <2> QED
        BY <1>2, <2>1, <2>2, <2>3, <2>4, <2>5 DEF AptStep
<1>3. CASE AptReboot \/ AptPowerCut
    BY <1>3 DEF AptReboot, AptPowerCut, Reboot, Boot, WrapperGone, Delivered, CreateDone
<1>4. CASE ExecApt
    BY <1>0, <1>4 DEF ExecApt, WriteRoot, Delivered, CreateDone, Past
<1>5. CASE UNCHANGED <<vars, aptVars>>
    BY <1>0, <1>5 DEF Delivered, CreateDone, Past
<1> QED
    BY <1>1, <1>2, <1>3, <1>4, <1>5, WithoutAdmin

LEMMA WrapperNext ==
    ASSUME Admin = {}, WrapperInv, [AptNext]_<<vars, aptVars>>
    PROVE  WrapperInv'
<1>1. Inv' /\ AptTypes' /\ CmdFits'
    BY AptIsHostStep, AptTypesStep, HostInv, CmdFitsStep DEF WrapperInv
<1>2. Wrapped'
    BY WithoutAdmin, WrappedBeadmStep, WrappedAptStep, WrappedHostStep
<1>3. Delivered'
    <2>1. CASE faults' = 0
        BY <2>1, DeliveredStep
    <2>2. CASE faults' # 0
        BY <2>2 DEF Delivered
    <2> QED
        BY <2>1, <2>2
<1> QED
    BY <1>1, <1>2, <1>3 DEF WrapperInv, Wrapped

LEMMA WrapperInit == AptInit => WrapperInv
<1> SUFFICES ASSUME AptInit PROVE WrapperInv
    OBVIOUS
<1>1. Inv /\ CmdFits /\ AptTypes
    BY ProgressInit, TogetherAptInit DEF AptInit, ProgressInv, TogetherAptInv
<1>2. WrapperOnly /\ BootChain
    BY AptAssumption
    DEF AptInit, Init, WrapperOnly, Alive, Activating, BootChain
<1>3. Fresh /\ UpgradedFirst /\ MenuFollows /\ Delivered
    BY AptAssumption, NamesAssumption
    DEF AptInit, Init, Fresh, Checked, Complete, UpgradedFirst, MenuFollows, Delivered,
        CreateDone
<1> QED
    BY <1>1, <1>2, <1>3 DEF WrapperInv

LEMMA WrapperAlways ==
    ASSUME Admin = {}
    PROVE  AptSpec => []WrapperInv
<1>1. AptInit => WrapperInv
    BY WrapperInit
<1>2. WrapperInv /\ [AptNext]_<<vars, aptVars>> => WrapperInv'
    BY WrapperNext
<1> QED
    BY <1>1, <1>2, PTL DEF AptSpec

\* A dist-upgrade that exits 0 without a failed command has upgraded its BE and
\* made it the BE of the next boot, after any power cuts (52-95).
THEOREM UpgradeHasEffect ==
    ASSUME Admin = {}
    PROVE  AptSpec => []UpgradeTakesEffect
<1>1. WrapperInv => UpgradeTakesEffect
    <2> SUFFICES ASSUME WrapperInv, stage = "done", rv = 0, faults = 0
                 PROVE  BootTarget = newbe /\ image[newbe] = Upgraded
        BY DEF UpgradeTakesEffect
    <2>1. nextEntry = newbe /\ newbe \in menu
        BY DEF WrapperInv, WrapperOnly, Delivered, Complete
    <2> QED
        BY <2>1 DEF WrapperInv, UpgradedFirst, Complete, BootTarget
<1> QED
    BY <1>1, WrapperAlways, PTL

\* Whatever fails and wherever the power is cut, the next boot never moves to a
\* BE whose upgrade is not complete (85-89).
THEOREM BootMovesOnlyToUpgraded ==
    ASSUME Admin = {}
    PROVE  AptSpec => BootMovesToUpgraded
<1>1. ASSUME WrapperInv, [AptNext]_<<vars, aptVars>>,
             BootTarget' \in BE, BootTarget' # BootTarget
      PROVE  image'[BootTarget'] = Upgraded
    <2> USE NamesAssumption DEF btrfs, grub, host, local, vars, aptVars
    <2>0. nextEntry' \in menu' /\ BootTarget' = nextEntry'
        BY <1>1 DEF BootTarget
    <2>1. CASE EditEnv(Apt)
        <3>1. stage = "activating" /\ arg[Apt] = newbe /\ cmd[Apt] # "destroy"
            BY <1>1, <2>1 DEF EditEnv, WrapperInv, WrapperOnly, Activating
        <3>2. nextEntry' = newbe /\ image' = image
            BY <2>1, <3>1 DEF EditEnv, Target
        <3> QED
            BY <1>1, <2>0, <3>1, <3>2 DEF WrapperInv, UpgradedFirst, Complete
    <2>2. CASE InstallMenu(Apt)
        <3>1. menu' = entry /\ UNCHANGED <<nextEntry, image>>
            BY <1>1, <2>2 DEF InstallMenu, WrapperInv, MenuFollows
        <3>2. nextEntry \in BE \cap entry /\ nextEntry \notin menu
            BY <1>1, <2>0, <3>1 DEF BootTarget
        <3> QED
            BY <1>1, <2>0, <3>1, <3>2 DEF WrapperInv, MenuFollows
    <2>3. CASE BeadmStep(Apt) /\ ~EditEnv(Apt) /\ ~InstallMenu(Apt)
        <3>1. UNCHANGED <<nextEntry, menu>>
            BY <2>3, Zenon
            DEF BeadmStep, CreateCheck, Snapshot, TouchBootable, fix_root_fstab_entry,
                generate_grub_entry, prep_chroot, CollectEntries, tear_down_chroot,
                activate_be, DestroyCheck, QgroupDestroy, DeleteSubvol,
                delete_grub_entry, ResetNextEntry, StatusIgnored
        <3> QED
            BY <1>1, <3>1 DEF BootTarget
    <2>4. CASE AptStep \/ ExecApt \/ UNCHANGED <<vars, aptVars>>
        <3>1. UNCHANGED <<nextEntry, menu>>
            BY <2>4, Zenon
            DEF AptStep, DistUpgrade, Invoke, CheckCreated, Mount, Upgrade, Umount,
                Finish, Activated, ExecApt, WriteRoot
        <3> QED
            BY <1>1, <3>1 DEF BootTarget
    <2>5. CASE AptReboot \/ AptPowerCut
        <3>1. nextEntry' \in {nextEntry, NoBE} /\ menu' = menu
            BY <2>5 DEF AptReboot, AptPowerCut, Reboot, Boot
        <3>2. menu \subseteq Names
            BY <1>1 DEF WrapperInv, Inv, TypeOK
        <3> QED
            BY <1>1, <2>0, <3>1, <3>2 DEF BootTarget, Names
    <2> QED
        BY <1>1, <2>1, <2>2, <2>3, <2>4, <2>5, WithoutAdmin
<1>2. WrapperInv /\ [AptNext]_<<vars, aptVars>> =>
          [BootTarget' \in BE /\ BootTarget' # BootTarget
              => image'[BootTarget'] = Upgraded]_<<vars, aptVars>>
    BY <1>1
<1> QED
    BY <1>2, WrapperAlways, PTL DEF AptSpec, BootMovesToUpgraded

----------------------------------------------------------------------------
(* The running root during a dist-upgrade.                                 *)

\* No create, and no upgrade, is at work on the running BE.
WorksElsewhere ==
    /\ running \in subvol
    /\ \A p \in Proc : pc[p] = "fstab" => arg[p] # running
    /\ stage = "upgrade" => newbe # running

LEMMA UntouchedStep ==
    ASSUME Inv, AptTypes, WorksElsewhere, [AptNext]_<<vars, aptVars>>,
           stage \notin {"none", "done"}, running' = running
    PROVE  /\ faults' = 0 /\ urandom => urandom'
           /\ \/ /\ running \in subvol'
                 /\ image'[running] = image[running]
                 /\ fstab'[running] = fstab[running]
              \/ ExecApt
<1> USE NamesAssumption DEF btrfs, grub, host, local, vars, aptVars
<1>0. /\ running \in subvol /\ running \in Names /\ newbe \in Names
      /\ image \in [Names -> Image] /\ fstab \in [Names -> Names]
      /\ arg \in [Proc -> Names]
    BY DEF Inv, TypeOK, AptTypes, WorksElsewhere
<1>1. ASSUME NEW p \in Proc, BeadmStep(p)
      PROVE  /\ running \in subvol' /\ image'[running] = image[running]
             /\ fstab'[running] = fstab[running]
    <2>1. CASE Snapshot(p)
        BY <1>0, <2>1 DEF Snapshot, SnapshotNew, SnapshotInside
    <2>2. CASE fix_root_fstab_entry(p)
        BY <1>0, <2>2 DEF fix_root_fstab_entry, WorksElsewhere
    <2>3. CASE DeleteSubvol(p)
        <3>1. PICK gone \in Deletable(arg[p]) :
                  /\ subvol' = subvol \ gone
                  /\ fstab' = [b \in Names |-> IF b \in gone THEN Root ELSE fstab[b]]
                  /\ image' = [b \in Names |-> IF b \in gone THEN NoImage ELSE image[b]]
            BY <2>3 DEF DeleteSubvol
        <3>2. gone \subseteq {arg[p]}
            BY <3>1 DEF Deletable
        <3>3. arg[p] # running
            BY <2>3 DEF DeleteSubvol, Inv, DestroySafe
        <3> QED
            BY <1>0, <3>1, <3>2, <3>3
    <2>4. CASE ~(Snapshot(p) \/ fix_root_fstab_entry(p) \/ DeleteSubvol(p))
        <3>1. UNCHANGED <<subvol, image, fstab>>
            BY <1>1, <2>4, Zenon
            DEF BeadmStep, CreateCheck, TouchBootable, generate_grub_entry,
                prep_chroot, CollectEntries, InstallMenu, tear_down_chroot,
                activate_be, EditEnv, DestroyCheck, QgroupDestroy,
                delete_grub_entry, ResetNextEntry, StatusIgnored
        <3> QED
            BY <1>0, <3>1
    <2> QED
        BY <2>1, <2>2, <2>3, <2>4
<1> DEFINE Untouched == /\ running \in subvol' /\ image'[running] = image[running]
                        /\ fstab'[running] = fstab[running]
<1>2. ASSUME Upgrade PROVE Untouched
    BY <1>0, <1>2 DEF Upgrade, WorksElsewhere
<1>3. ASSUME AptStep, ~Upgrade PROVE Untouched
    <2>1. UNCHANGED <<subvol, image, fstab>>
        BY <1>3, Zenon
        DEF AptStep, DistUpgrade, Invoke, CheckCreated, Mount, Umount, Finish, Activated
    <2> QED
        BY <1>0, <2>1
<1>4. ASSUME AdminCommand \/ AptReboot \/ AptPowerCut \/ UNCHANGED <<vars, aptVars>>
      PROVE  Untouched
    <2>1. UNCHANGED <<subvol, image, fstab>>
        BY <1>4, Zenon
        DEF AdminCommand, Command, Invoke, AptReboot, AptPowerCut, Reboot, Boot
    <2> QED
        BY <1>0, <2>1
<1>5. Untouched \/ ExecApt
    BY <1>1, <1>2, <1>3, <1>4 DEF AptNext
<1>6. faults' = 0 /\ urandom => urandom'
    <2>1. CASE Umount
        <3>1. UNCHANGED urandom \/ faults' = faults + 1
            BY <2>1 DEF Umount, Fault
        <3>2. faults + 1 # 0
            BY DEF Inv, TypeOK
        <3> QED
            BY <3>1, <3>2, Zenon
    <2>2. CASE AptStep /\ ~Umount
        BY <2>2, Zenon
        DEF AptStep, DistUpgrade, CheckCreated, Mount, Upgrade, Finish, Activated
    <2>3. CASE ~AptStep
        BY <2>3, Zenon DEF AptNext, ExecApt, AptReboot, AptPowerCut, WrapperGone, AdminCommand
    <2> QED
        BY <2>1, <2>2, <2>3
<1> QED
    BY <1>5, <1>6

\* "The current running BE is left untouched": for the wrapper by itself whatever
\* fails or is cut off, because the running BE is listed and create refuses it.
THEOREM RunningIsUntouched ==
    ASSUME Admin = {}
    PROVE  AptSpec => RunningUntouched
<1>1. WrapperInv => WorksElsewhere
    <2> SUFFICES ASSUME WrapperInv PROVE WorksElsewhere
        OBVIOUS
    <2>1. running \in subvol
        BY DEF WrapperInv, BootChain, Inv, TypeOK, RunningKept
    <2>2. stage = "upgrade" => newbe # running
        BY DEF WrapperInv, Fresh, Checked
    <2>3. ASSUME NEW p \in Proc, pc[p] = "fstab" PROVE arg[p] # running
        BY <2>3 DEF WrapperInv, WrapperOnly, CmdFits, Fresh, Checked, Alive
    <2> QED
        BY <2>1, <2>2, <2>3 DEF WorksElsewhere
<1>2. WrapperInv /\ [AptNext]_<<vars, aptVars>> =>
          [stage \notin {"none", "done"} /\ running' = running =>
              /\ faults' = 0 /\ urandom => urandom'
              /\ \/ /\ running \in subvol'
                    /\ image'[running] = image[running]
                    /\ fstab'[running] = fstab[running]
                 \/ ExecApt]_<<vars, aptVars>>
    BY <1>1, UntouchedStep DEF WrapperInv
<1> QED
    BY <1>2, WrapperAlways, PTL DEF AptSpec, RunningUntouched

----------------------------------------------------------------------------
(* The same with administrators at work meanwhile, while nothing fails and *)
(* nothing is cut off.                                                     *)

\* A BE without its marker is one whose create is about to touch it.
Listed ==
    \A b \in subvol \cap BE :
        b \in bootable \/ \E p \in Proc : pc[p] = "touch" /\ arg[p] = b

\* A create past its test is not at work on the running BE, which is listed.
CreatesElsewhere ==
    /\ running \in bootable \cup {Root}
    /\ \A p \in Proc :
           \/ pc[p] \in {"snapshot", "touch", "fstab", "grub_entry"}
           \/ pc[p] \in Updating /\ cmd[p] = "create"
           => arg[p] # running

WrapperElsewhere ==
    /\ stage = "creating" => cmd[Apt] = "create" /\ ~auto[Apt] /\ arg[Apt] = newbe
                               /\ pc[Apt] \notin Activating
    /\ Checked => newbe # running

QuietInv == Inv /\ AptTypes /\ CmdFits /\ Undisturbed
              /\ Listed /\ CreatesElsewhere /\ WrapperElsewhere

LEMMA QuietCommand ==
    ASSUME QuietInv, NEW p \in Proc, Command(p) \/ BeadmStep(p), faults' = 0
    PROVE  Listed' /\ CreatesElsewhere'
<1> USE NamesAssumption
    DEF Goto, Exit, NoFault, Fault, btrfs, grub, host, local, Updating
<1>0. /\ CmdFits /\ Listed /\ CreatesElsewhere /\ faults = 0
      /\ pc \in [Proc -> Labels] /\ arg \in [Proc -> Names]
      /\ cmd \in [Proc -> {"create", "destroy", "activate"}]
      /\ subvol \subseteq Names /\ bootable \subseteq subvol
    BY DEF QuietInv, Inv, TypeOK, Undisturbed
<1>1. CASE Command(p)
    <2>1. /\ UNCHANGED <<subvol, bootable, running>> /\ ~Alive(p)
          /\ pc'[p] \in {"create", "destroy", "activate"}
          /\ \A q \in Proc : q # p => pc'[q] = pc[q] /\ arg'[q] = arg[q] /\ cmd'[q] = cmd[q]
        BY <1>0, <1>1 DEF Command, Invoke
    <2>2. Listed'
        BY <1>0, <2>1 DEF Listed, Alive
    <2>3. CreatesElsewhere'
        BY <1>0, <2>1 DEF CreatesElsewhere
    <2> QED
        BY <2>2, <2>3
<1>2. CASE CreateCheck(p)
    BY <1>0, <1>2 DEF CreateCheck, is_valid_be, CmdFits, Listed, CreatesElsewhere
<1>3. CASE Snapshot(p)
    <2>1. CASE SnapshotNew(p) /\ pc' = [pc EXCEPT ![p] = "touch"]
        <3>1. pc[p] = "snapshot" /\ UNCHANGED <<running, arg, cmd>>
            BY <1>3 DEF Snapshot
        <3>2. Listed'
            BY <1>0, <2>1, <3>1 DEF SnapshotNew, Listed
        <3>3. CreatesElsewhere'
            BY <1>0, <2>1, <3>1 DEF SnapshotNew, CreatesElsewhere
        <3> QED
            BY <3>2, <3>3
    <2>2. CASE UNCHANGED <<subvol, bootable>>
        BY <1>0, <1>3, <2>2 DEF Snapshot, Listed, CreatesElsewhere
    <2> QED
        BY <1>3, <2>1, <2>2 DEF Snapshot, SnapshotInside
<1>4. CASE TouchBootable(p)
    BY <1>0, <1>4 DEF TouchBootable, Listed, CreatesElsewhere
<1>5. CASE fix_root_fstab_entry(p) \/ generate_grub_entry(p)
    BY <1>0, <1>5
    DEF fix_root_fstab_entry, generate_grub_entry, CmdFits, Listed, CreatesElsewhere
<1>6. CASE prep_chroot(p) \/ CollectEntries(p) \/ InstallMenu(p)
    BY <1>0, <1>6 DEF prep_chroot, CollectEntries, InstallMenu, Listed, CreatesElsewhere
<1>7. CASE tear_down_chroot(p)
    BY <1>0, <1>7 DEF tear_down_chroot, AfterTearDown, Listed, CreatesElsewhere
<1>8. CASE activate_be(p) \/ EditEnv(p) \/ ResetNextEntry(p)
    BY <1>0, <1>8 DEF activate_be, EditEnv, ResetNextEntry, Listed, CreatesElsewhere
<1>9. CASE DestroyCheck(p) \/ QgroupDestroy(p) \/ delete_grub_entry(p)
    BY <1>0, <1>9
    DEF DestroyCheck, QgroupDestroy, delete_grub_entry, CmdFits, Listed, CreatesElsewhere
<1>10. CASE DeleteSubvol(p)
    <2>1. PICK gone \in Deletable(arg[p]) :
              subvol' = subvol \ gone /\ bootable' = bootable \ gone
        BY <1>10 DEF DeleteSubvol
    <2>2. gone \subseteq {arg[p]}
        BY <2>1 DEF Deletable
    <2>3. /\ pc[p] = "delete" /\ pc' = [pc EXCEPT ![p] = "rm_entry"]
          /\ UNCHANGED <<running, arg, cmd>>
        BY <1>10 DEF DeleteSubvol
    <2>4. arg[p] # running
        BY <2>3 DEF QuietInv, Inv, DestroySafe
    <2> QED
        BY <1>0, <2>1, <2>2, <2>3, <2>4 DEF Listed, CreatesElsewhere
<1>11. CASE StatusIgnored(p)
    BY <1>0, <1>11 DEF StatusIgnored
<1> QED
    BY <1>1, <1>2, <1>3, <1>4, <1>5, <1>6, <1>7, <1>8, <1>9, <1>10, <1>11 DEF BeadmStep

LEMMA QuietHost ==
    ASSUME QuietInv, HostStep, Undisturbed'
    PROVE  Listed' /\ CreatesElsewhere'
<1>0. /\ Listed /\ CreatesElsewhere /\ RunningKept /\ crashes = 0 /\ crashes' = 0
      /\ faults' = 0 /\ subvol \subseteq Names
    BY DEF QuietInv, Inv, TypeOK, Undisturbed
<1>1. CASE \E p \in Proc : Command(p) \/ BeadmStep(p)
    BY <1>0, <1>1, QuietCommand
<1>2. CASE Reboot
    <2>1. \A b \in subvol \cap BE : b \in bootable
        BY <1>0, <1>2 DEF Reboot, Alive, Listed
    <2>2. /\ running' \in subvol /\ UNCHANGED <<subvol, bootable>>
          /\ \A p \in Proc : pc'[p] = "idle"
        BY <1>0, <1>2 DEF Reboot, Boot, btrfs, RunningKept
    <2> QED
        BY <1>0, <2>1, <2>2 DEF Listed, CreatesElsewhere, Updating, Names
<1>3. CASE Crash
    BY <1>0, <1>3 DEF Crash
<1>4. CASE ContentStep
    BY <1>0, <1>4 DEF ContentStep, local, Listed, CreatesElsewhere
<1> QED
    BY <1>1, <1>2, <1>3, <1>4 DEF HostStep

LEMMA QuietWrapper ==
    ASSUME QuietInv, [AptNext]_<<vars, aptVars>>, faults' = 0
    PROVE  WrapperElsewhere'
<1> USE AptAssumption
    DEF Goto, Exit, NoFault, Fault, btrfs, grub, host, local, vars, aptVars, Checked,
        WrapperElsewhere, Activating
<1>0. /\ CmdFits /\ CreatesElsewhere /\ WrapperElsewhere /\ faults = 0
      /\ pc \in [Proc -> Labels] /\ arg \in [Proc -> Names] /\ rc \in [Proc -> 0..2]
      /\ cmd \in [Proc -> {"create", "destroy", "activate"}]
      /\ auto \in [Proc -> BOOLEAN]
    BY DEF QuietInv, Inv, TypeOK, Undisturbed
<1>1. CASE AptStep
    BY <1>0, <1>1
    DEF AptStep, DistUpgrade, Invoke, CheckCreated, Mount, Upgrade, Umount, Finish,
        Activated
<1>2. CASE AptReboot \/ AptPowerCut
    BY <1>2 DEF AptReboot, AptPowerCut, WrapperGone
<1>3. CASE ExecApt \/ UNCHANGED <<vars, aptVars>>
    BY <1>0, <1>3 DEF ExecApt, WriteRoot
<1>4. CASE AdminCommand
    <2>1. /\ pc'[Apt] = pc[Apt] /\ rc'[Apt] = rc[Apt] /\ cmd'[Apt] = cmd[Apt]
          /\ arg'[Apt] = arg[Apt] /\ auto'[Apt] = auto[Apt] /\ running' = running
        BY <1>0, <1>4 DEF AdminCommand, Command, Invoke
    <2> QED
        BY <1>0, <1>4, <2>1 DEF AdminCommand
<1>5. ASSUME NEW p \in Proc, BeadmStep(p), UNCHANGED aptVars PROVE WrapperElsewhere'
    <2>0. UNCHANGED <<running, local>>
        BY <1>5, Zenon
        DEF BeadmStep, CreateCheck, Snapshot, TouchBootable, fix_root_fstab_entry,
            generate_grub_entry, prep_chroot, CollectEntries, InstallMenu,
            tear_down_chroot, activate_be, EditEnv, DestroyCheck, QgroupDestroy,
            DeleteSubvol, delete_grub_entry, ResetNextEntry, StatusIgnored
    <2>1. CASE stage # "creating"
        BY <1>0, <1>5, <2>0, <2>1
    <2>2. CASE stage = "creating" /\ p # Apt
        <3>1. pc'[Apt] = pc[Apt] /\ rc'[Apt] = rc[Apt]
            <4>1. PICK l \in Labels : pc' = [pc EXCEPT ![p] = l]
                BY <1>5, OneMoves DEF QuietInv
            <4>2. rc'[Apt] = rc[Apt]
                BY <1>0, <1>5, <2>2
                DEF BeadmStep, CreateCheck, Snapshot, TouchBootable,
                    fix_root_fstab_entry, generate_grub_entry, prep_chroot,
                    CollectEntries, InstallMenu, tear_down_chroot, AfterTearDown,
                    activate_be, EditEnv, DestroyCheck, QgroupDestroy, DeleteSubvol,
                    delete_grub_entry, ResetNextEntry, StatusIgnored
            <4> QED
                BY <1>0, <2>2, <4>1, <4>2
        <3> QED
            BY <1>0, <1>5, <2>0, <2>2, <3>1
    <2>3. CASE stage = "creating" /\ p = Apt
        <3>1. CASE CreateCheck(Apt)
            BY <1>0, <1>5, <2>0, <2>3, <3>1 DEF CreateCheck, CreatesElsewhere, is_valid_be
        <3>2. CASE ~CreateCheck(Apt)
            <4>1. pc[Apt] # "create" /\ Checked
                BY <1>0, <1>5, <2>3, <3>2
                DEF BeadmStep, CreateCheck, Snapshot, TouchBootable,
                    fix_root_fstab_entry, generate_grub_entry, prep_chroot,
                    CollectEntries, InstallMenu, tear_down_chroot, activate_be,
                    EditEnv, DestroyCheck, QgroupDestroy, DeleteSubvol,
                    delete_grub_entry, ResetNextEntry, StatusIgnored, After
            <4>2. pc'[Apt] \notin {"activate", "editenv"}
                BY <1>0, <1>5, <2>3, <3>2
                DEF CmdFits, BeadmStep, Snapshot, TouchBootable,
                    fix_root_fstab_entry, generate_grub_entry, prep_chroot,
                    CollectEntries, InstallMenu, tear_down_chroot, AfterTearDown,
                    activate_be, EditEnv, DestroyCheck, QgroupDestroy, DeleteSubvol,
                    delete_grub_entry, ResetNextEntry, StatusIgnored
            <4> QED
                BY <1>0, <1>5, <2>0, <2>3, <4>1, <4>2
        <3> QED
            BY <3>1, <3>2
    <2> QED
        BY <2>1, <2>2, <2>3
<1> QED
    BY <1>1, <1>2, <1>3, <1>4, <1>5 DEF AptNext

LEMMA QuietAlways ==
    ASSUME MaxFaults = 0, MaxCrashes = 0
    PROVE  AptSpec => []QuietInv
<1>1. AptInit => QuietInv
    <2> SUFFICES ASSUME AptInit PROVE QuietInv
        OBVIOUS
    <2>1. Inv /\ AptTypes /\ CmdFits
        BY WrapperInit DEF WrapperInv
    <2>2. Undisturbed /\ Listed /\ CreatesElsewhere /\ WrapperElsewhere
        BY NamesAssumption
        DEF AptInit, Init, Undisturbed, Listed, CreatesElsewhere, WrapperElsewhere,
            Checked, Updating
    <2> QED
        BY <2>1, <2>2 DEF QuietInv
<1>2. QuietInv /\ [AptNext]_<<vars, aptVars>> => QuietInv'
    <2> SUFFICES ASSUME QuietInv, [AptNext]_<<vars, aptVars>> PROVE QuietInv'
        OBVIOUS
    <2>1. HostStep
        BY AptIsHostStep DEF QuietInv
    <2>2. Inv' /\ AptTypes' /\ CmdFits'
        BY <2>1, HostInv, AptTypesStep, CmdFitsStep DEF QuietInv
    <2>3. faults' = 0 /\ crashes' = 0
        <3>1. faults = 0 /\ crashes = 0
            BY DEF QuietInv, Undisturbed
        <3>2. ~Fault /\ ~(crashes < MaxCrashes)
            BY <3>1 DEF Fault
        <3> QED
            BY <3>1, <3>2, Zenon
            DEF AptNext, AptStep, DistUpgrade, Invoke, CheckCreated, Mount, Upgrade,
                Umount, Finish, Activated, ExecApt, WriteRoot, AptReboot, AptPowerCut,
                Reboot, Boot, AdminCommand, Command, NoFault, host, vars,
                BeadmStep, CreateCheck, Snapshot, TouchBootable, fix_root_fstab_entry,
                generate_grub_entry, prep_chroot, CollectEntries, InstallMenu,
                tear_down_chroot, activate_be, EditEnv, DestroyCheck, QgroupDestroy,
                DeleteSubvol, delete_grub_entry, ResetNextEntry, StatusIgnored
    <2> QED
        BY <2>1, <2>2, <2>3, QuietHost, QuietWrapper DEF QuietInv, Undisturbed
<1> QED
    BY <1>1, <1>2, PTL DEF AptSpec

\* With any number of administrators giving beadm commands during a dist-upgrade,
\* the running BE is left untouched too, while nothing fails or is cut off.
THEOREM RunningIsUntouchedTogether ==
    ASSUME MaxFaults = 0, MaxCrashes = 0
    PROVE  AptSpec => RunningUntouched
<1>1. QuietInv => WorksElsewhere
    BY DEF QuietInv, Inv, TypeOK, RunningKept, CreatesElsewhere, WrapperElsewhere,
           Checked, WorksElsewhere
<1>2. QuietInv /\ [AptNext]_<<vars, aptVars>> =>
          [stage \notin {"none", "done"} /\ running' = running =>
              /\ faults' = 0 /\ urandom => urandom'
              /\ \/ /\ running \in subvol'
                    /\ image'[running] = image[running]
                    /\ fstab'[running] = fstab[running]
                 \/ ExecApt]_<<vars, aptVars>>
    BY <1>1, UntouchedStep DEF QuietInv
<1> QED
    BY <1>2, QuietAlways, PTL DEF AptSpec, RunningUntouched

=============================================================================
