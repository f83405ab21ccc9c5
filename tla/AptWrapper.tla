----------------------------- MODULE AptWrapper -----------------------------
(***************************************************************************)
(* apt-wrapper, the front end of apt-get, together with the beadm it calls. *)
(*                                                                         *)
(* "dist-upgrade" goes into a new BE: name it, have beadm create it, mount *)
(* /proc, /dev and /sys inside it, run apt-get in a chroot, unmount and    *)
(* activate it.  The wrapper's child beadm is the process Apt of Beadm;    *)
(* administrators give beadm commands at the terminals Admin meanwhile.    *)
(* A BE name is a pair: "bootenv-2" is <<bootenv, 2>>, and "test", which   *)
(* has no number, is <<test, 0>>.                                          *)
(***************************************************************************)
EXTENDS Beadm

CONSTANTS
    Apt,         \* the process that runs apt-wrapper
    Admin,       \* the processes an administrator's beadm commands run in
    bootenv,     \* the name given to clones of "@"
    NoName,      \* THISBE is empty
    Upgraded     \* the image a complete dist-upgrade leaves

ASSUME AptAssumption ==
    /\ Apt \in Proc /\ Admin \subseteq Proc \ {Apt} /\ Upgraded \in Image
    /\ \A b \in BE : b = <<b[1], b[2]>> /\ b[2] \in Nat

VARIABLES
    stage,       \* where apt-wrapper is
    newbe,       \* the BE it upgrades
    rv,          \* its exit status
    urandom      \* does the host have /dev/urandom ?

aptVars == <<stage, newbe, rv, urandom>>

\* The line of "beadm list -dH" marked NR, if there is one.
THISBE ==
    IF \E b \in be_list : list_be[b].N /\ list_be[b].R THEN CURRENTBE ELSE NoName

\* The part of THISBE before "-"; "@" has a name of its own.
name == CASE THISBE = Root   -> bootenv
          [] THISBE = NoName -> NoName
          [] OTHER           -> THISBE[1]

\* The largest number among the BEs of that name, when THISBE has one itself.
largest ==
    IF THISBE \in {Root, NoName} \/ (THISBE \in BE /\ THISBE[2] = 0) THEN 0
    ELSE CHOOSE n \in {b[2] : b \in {x \in bootable : x[1] = name}} :
            \A b \in bootable : b[1] = name => b[2] <= n

chosen == <<name, largest + 1>>

\* The number of BEs is bounded by BE.
DistUpgrade ==
    /\ stage \in {"none", "done"} /\ running # Installer
    /\ chosen \in BE
    /\ Invoke(Apt, "create", chosen, FALSE)
    /\ stage' = "creating"
    /\ newbe' = chosen /\ rv' = 0
    /\ UNCHANGED urandom

\* "! -d /$testbe" tests "/", testbe being unset: only the status counts.
CheckCreated ==
    /\ stage = "creating" /\ pc[Apt] = "exit"
    /\ IF rc[Apt] # 0 THEN stage' = "done" /\ rv' = 1
                      ELSE stage' = "mount" /\ UNCHANGED rv
    /\ UNCHANGED <<vars, newbe, urandom>>

mounted == IF newbe \in subvol THEN [busy EXCEPT ![newbe] = @ + 1] ELSE busy

\* The mounts inside the new BE, all of them or, unnoticed, only some or none.
Mount ==
    /\ stage = "mount"
    /\ \/ busy' = mounted /\ NoFault
       \/ busy' \in {busy, mounted} /\ Fault
    /\ stage' = "upgrade"
    /\ UNCHANGED <<btrfs, grub, running, mnt, crashes, local, pc, grab, rc,
                   newbe, rv, urandom>>

\* Mutant: apt-get runs outside the chroot.
UpgradeInPlace ==
    /\ stage = "upgrade"
    /\ image' = [image EXCEPT ![running] = Upgraded]
    /\ rv' = 0 /\ NoFault
    /\ stage' = "umount"
    /\ UNCHANGED <<subvol, bootable, fstab, nested, qgroup, grub, host, local,
                   pc, grab, rc, newbe, urandom>>

\* chroot newbe apt-get dist-upgrade: complete, or failed with any image.
Upgrade ==
    /\ stage = "upgrade"
    /\ \/ /\ newbe \in subvol
          /\ image' = [image EXCEPT ![newbe] = Upgraded]
          /\ rv' = 0 /\ NoFault
       \/ /\ newbe \in subvol
          /\ \E i \in Image : image' = [image EXCEPT ![newbe] = i]
          /\ rv' = 100 /\ Fault
       \/ newbe \notin subvol /\ rv' = 127 /\ NoFault /\ UNCHANGED image
    /\ stage' = "umount"
    /\ UNCHANGED <<subvol, bootable, fstab, nested, qgroup, grub, host, local,
                   pc, grab, rc, newbe, urandom>>

\* Mounts stack, and an umount takes the last one away.
unmounted == [busy EXCEPT ![newbe] = IF @ > 0 THEN @ - 1 ELSE 0]

\* The umounts, and rm dev/urandom if the new BE had none and it was made.  When
\* only the umount of dev fails (dev/pts is in use), that path is the host's own
\* /dev/urandom.
Umount ==
    /\ stage = "umount"
    /\ \/ busy' = unmounted /\ NoFault /\ UNCHANGED urandom
       \/ /\ busy[newbe] > 0 /\ UNCHANGED busy /\ Fault
          /\ urandom' \in {urandom, FALSE}
    /\ stage' = "finish"
    /\ UNCHANGED <<btrfs, grub, running, mnt, crashes, local, pc, grab, rc,
                   newbe, rv>>

\* Mutant: the new BE is activated whatever apt-get's status.
FinishAlways ==
    /\ stage = "finish"
    /\ stage' = "activating" /\ Invoke(Apt, "activate", newbe, FALSE)
    /\ UNCHANGED <<newbe, rv, urandom>>

\* Mutant: the new BE is left for the administrator to activate.
FinishNever ==
    /\ stage = "finish"
    /\ stage' = "done"
    /\ UNCHANGED <<vars, newbe, rv, urandom>>

\* beadm has no command "delete": it prints its usage and changes nothing.
Finish ==
    /\ stage = "finish"
    /\ \/ rv # 0 /\ stage' = "done" /\ UNCHANGED vars
       \/ rv = 0 /\ stage' = "activating" /\ Invoke(Apt, "activate", newbe, FALSE)
    /\ UNCHANGED <<newbe, rv, urandom>>

\* The status of the activation is not looked at.
Activated ==
    /\ stage = "activating" /\ pc[Apt] = "exit"
    /\ stage' = "done"
    /\ UNCHANGED <<vars, newbe, rv, urandom>>

\* A boot ends the wrapper and makes a new /dev.
WrapperGone ==
    /\ stage' = "none" /\ newbe' = Root /\ rv' = 0
    /\ urandom' = TRUE

AptReboot == stage \in {"none", "done"} /\ Reboot /\ WrapperGone

AptPowerCut ==
    /\ stage \notin {"none", "done"} \/ \E p \in Proc : Alive(p)
    /\ crashes < MaxCrashes /\ crashes' = crashes + 1
    /\ Boot /\ WrapperGone

----------------------------------------------------------------------------
AptInit ==
    /\ Init /\ running = Root
    /\ stage = "none" /\ newbe = Root /\ rv = 0 /\ urandom = TRUE

\* Any other apt-get command works on the running system.
ExecApt == WriteRoot /\ UNCHANGED aptVars

AdminCommand == (\E p \in Admin : Command(p)) /\ UNCHANGED aptVars

AptStep == DistUpgrade \/ CheckCreated \/ Mount \/ Upgrade \/ Umount \/ Finish
             \/ Activated

AptNext ==
    \/ AptStep \/ ExecApt \/ AptReboot \/ AptPowerCut
    \/ (\E p \in Proc : BeadmStep(p)) /\ UNCHANGED aptVars
    \/ AdminCommand

AptSpec == AptInit /\ [][AptNext]_<<vars, aptVars>>

----------------------------------------------------------------------------
\* A dist-upgrade that exits 0 has left a complete upgrade in its new BE and the
\* next boot enters that BE (52-95, through beadm create and activate).
UpgradeTakesEffect ==
    stage = "done" /\ rv = 0 /\ faults = 0
        => BootTarget = newbe /\ image[newbe] = Upgraded

\* With no activate but the wrapper's, the next boot moves to another BE only
\* when that BE's upgrade is complete (85-89), wherever power cuts and failures
\* fall.
BootMovesToUpgraded ==
    [][BootTarget' \in BE /\ BootTarget' # BootTarget
          => image'[BootTarget'] = Upgraded]_<<vars, aptVars>>

\* "The current running BE is left untouched" (60-61): while a dist-upgrade is
\* under way only an apt-get of another command writes to the running root,
\* whatever fails; and as long as nothing has failed the clean-up (78-83) takes
\* no file from the host's own /dev.
RunningUntouched ==
    [][stage \notin {"none", "done"} /\ running' = running =>
          /\ faults' = 0 /\ urandom => urandom'
          /\ \/ /\ running \in subvol'
                /\ image'[running] = image[running]
                /\ fstab'[running] = fstab[running]
             \/ ExecApt]_<<vars, aptVars>>

\* The name chosen for the new BE (27-51) is not that of a BE, so the upgrade
\* can start.
NameIsFree == stage \in {"none", "done"} => chosen \notin bootable
=============================================================================
