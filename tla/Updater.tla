--------------------------------- MODULE Updater ---------------------------------
(***************************************************************************)
(* rootdir/updater.sh: the install on a GSM device, over several boots.    *)
(* From the stock kernel (bml) or an old layout (mtd) it backs up /efs,    *)
(* leaves the package's name in omni.cfg, writes the kernel and reboots;   *)
(* the recovery of that kernel runs the package again, which restores      *)
(* /efs, lays out the partitions and goes on to the installation.  The     *)
(* power may be lost, and a command may fail, between any two commands.    *)
(*                                                                         *)
(* What is written to the card, which is vfat, stays in memory until a     *)
(* sync: a loss of power leaves any part of it behind.  The script syncs   *)
(* before it reboots, the recovery when the user switches off.  An entry   *)
(* is moved in one sector, the files of a copy come in any order.  /efs    *)
(* and /radio are yaffs2, which writes a file when it is closed.           *)
(*                                                                         *)
(* Commands that change nothing that is modelled (mounts that succeed,     *)
(* logs) are part of the next one, and so is the sync.  Writing a kernel   *)
(* is one step.                                                            *)
(***************************************************************************)
EXTENDS Integers

CONSTANTS Kernels,     \* what is installed at first: a subset of AllKernels
          Faults,      \* what may go wrong: a subset of AllFaults
          MaxLosses    \* how often it does, or the user starts from stock again

AllKernels == {"stock", "old", "new"}
AllFaults  == {"power", "mount", "flash"}

ASSUME KernelsAssumption == Kernels \subseteq AllKernels
ASSUME FaultsAssumption  == Faults \subseteq AllFaults
ASSUME LossesAssumption  == MaxLosses \in Nat

VARIABLES
  kernel,   \* the layout that the boot partition's kernel knows
  efs,      \* layout: who can read /efs;  data: "nv", "part" of it, or "blank"
  sd,       \* cfg: omni.cfg;  backup: omni/backup/efs;  aside: an efs-$$ has it
  card,     \* what a loss of power may leave of sd
  unsaved,  \* one has left no copy of what is on /efs, with the kernel written
  lvm,      \* "none", "pool", "lvs" (not formatted), "ready", "wrong" (size)
  data,     \* /data and /datadata: the "user"'s, or "gone"
  modem,    \* modem.bin on the radio partition: "ok", "part" or "none"
  tmp,      \* /tmp/.accept_wipe
  pc,       \* "off", "menu" of the recovery, or the next command
  again,    \* this run is for the partitions' size only
  auto,     \* the recovery has run the package because of omni.cfg
  installed,
  consent,  \* the user has confirmed the wipe, since the data are there
  losses
cards == <<sd, card, unsaved>>
media == <<kernel, efs, cards, lvm, data, modem>>
vars  == <<media, tmp, pc, again, auto, installed, consent, losses>>

Init ==
  /\ kernel \in Kernels
  /\ efs = [layout |-> kernel, data |-> "nv"]
  /\ sd = [cfg |-> FALSE, backup |-> IF kernel = "stock" THEN "none" ELSE "nv",
           aside |-> FALSE]
  /\ card = {sd} /\ unsaved = FALSE
  /\ lvm \in IF kernel = "new" THEN {"wrong", "ready"} ELSE {"none"}
  /\ data = "user" /\ modem = IF kernel = "new" THEN "ok" ELSE "none"
  /\ tmp = FALSE /\ pc = "off" /\ again = FALSE /\ auto = FALSE
  /\ installed = TRUE /\ consent = FALSE /\ losses = 0

-------------------------------------------------------------------------------
(* Around the script *)

(* The first command of each stage, and which one follows which; the new    *)
(* kernel's has branches.                                                   *)
First == [stock |-> "warn", old |-> "warn", new |-> "radio"]
Following ==
  [stock |-> [warn |-> "mount", mount |-> "efs", efs |-> "move", move |-> "copy",
              copy |-> "copied", copied |-> "cfg", cfg |-> "flash", flash |-> "reboot"],
   old   |-> [warn |-> "mount", mount |-> "cfg", cfg |-> "datadata", datadata |-> "efs",
              efs |-> "move", move |-> "copy", copy |-> "copied", copied |-> "flash",
              flash |-> "reboot"],
   new   |-> [warn |-> "lvm", lvm |-> "vg", vg |-> "lvs", mount |-> "test",
              flash |-> "extract"]]
After(c) == Following[kernel][c]

Same == UNCHANGED <<again, auto, installed, consent, losses>>

(* The recovery of the new kernel looks for omni.cfg. *)
Boot ==
  /\ pc = "off"
  /\ auto' = (kernel = "new" /\ sd.cfg)
  /\ pc' = IF auto' THEN First[kernel] ELSE "menu"
  /\ again' = FALSE
  /\ UNCHANGED <<media, tmp, installed, consent, losses>>

RunPackage ==
  /\ pc = "menu"
  /\ pc' = First[kernel] /\ auto' = FALSE /\ again' = FALSE
  /\ UNCHANGED <<media, tmp, installed, consent, losses>>

(* The user, or reboot, or a loss of power: /tmp is gone. *)
PowerOff ==
  /\ pc' = "off" /\ tmp' = FALSE
  /\ UNCHANGED <<kernel, efs, lvm, data, modem, again, auto, installed, consent>>

(* The first two sync: what was written is on the card. *)
SyncedOff ==
  /\ PowerOff
  /\ card' = {sd}
  /\ UNCHANGED <<sd, unsaved, losses>>

SwitchOff == pc = "menu" /\ SyncedOff

Lose(fault) == fault \in Faults /\ losses < MaxLosses /\ losses' = losses + 1

(* What is on /efs can be read by the kernel that boots, or there is a      *)
(* complete copy of it on the card if i is what the card holds.             *)
Kept(i) ==
  \/ efs = [layout |-> kernel, data |-> "nv"]
  \/ i.backup = "nv" \/ i.aside

PowerLoss ==
  /\ pc # "off" /\ Lose("power") /\ PowerOff
  /\ \E i \in card :
       /\ sd' = i /\ card' = {i}
       /\ unsaved' = (unsaved \/ (pc = "reboot" /\ ~Kept(i)))

(* The user works with the device again, unless omni.cfg makes it boot to   *)
(* the recovery.                                                            *)
Use ==
  /\ pc = "off" /\ installed /\ ~(kernel = "new" /\ sd.cfg)
  /\ data' = "user" /\ consent' = FALSE
  /\ UNCHANGED <<kernel, efs, cards, lvm, modem, tmp, pc, again, auto, installed, losses>>

(* The user goes back to stock: what another layout left on /efs is lost.   *)
Reflash ==
  /\ pc = "off" /\ losses < MaxLosses /\ losses' = losses + 1
  /\ kernel' = "stock" /\ lvm' = "none" /\ modem' = "none" /\ installed' = TRUE
  /\ efs' = [layout |-> "stock",
             data |-> IF efs.layout = "stock" THEN efs.data ELSE "blank"]
  /\ data' = "user" /\ consent' = FALSE
  /\ UNCHANGED <<cards, tmp, pc, again, auto>>

(* What follows the script: /system is formatted and written. *)
Extract ==
  /\ pc = "extract" /\ pc' = "menu"
  /\ installed' = (lvm \in {"lvs", "ready"})
  /\ UNCHANGED <<media, tmp, again, auto, consent, losses>>

-------------------------------------------------------------------------------
(* The functions of the script *)

Exit == pc' = "menu" /\ UNCHANGED <<media, tmp, again, auto, installed, consent>>

warn_repartition_Bug ==    \* the first run goes on
  /\ pc = "warn" /\ pc' = After("warn")
  /\ tmp' = ~tmp /\ consent' = tmp
  /\ UNCHANGED <<media, again, auto, installed, losses>>

(* The first run of this recovery only warns. *)
warn_repartition ==
  /\ pc = "warn"
  /\ tmp' = ~tmp
  /\ IF tmp THEN pc' = After("warn") /\ consent' = TRUE
     ELSE pc' = "menu" /\ UNCHANGED consent
  /\ UNCHANGED <<media, again, auto, installed, losses>>

(* of the card, and of /efs before it is backed up *)
check_mount ==
  /\ pc \in {"mount", "efs"}
  /\ \/ pc' = After(pc) /\ UNCHANGED <<media, tmp>> /\ Same
     \/ Lose("mount") /\ Exit

(* The script sees new from now on; may is what else the card may hold. *)
Write(new, may) == sd' = new /\ card' = card \union may /\ UNCHANGED unsaved

MoveBackup_Bug ==    \* removes the backup that is there
  /\ pc = "move" /\ pc' = After("move")
  /\ Write([sd EXCEPT !.backup = "none"], {[i EXCEPT !.backup = "none"] : i \in card})
  /\ UNCHANGED <<kernel, efs, lvm, data, modem, tmp>> /\ Same

(* A backup that is there is moved aside. *)
Moved(i) == [i EXCEPT !.backup = "none", !.aside = @ \/ i.backup = "nv"]

MoveBackup ==
  /\ pc = "move" /\ pc' = After("move")
  /\ Write(Moved(sd), {Moved(i) : i \in card})
  /\ UNCHANGED <<kernel, efs, lvm, data, modem, tmp>> /\ Same

(* cp -R /efs: first some files, then all; and what may be on the card,     *)
(* once the move is, of a copy that the script sees as b.                   *)
Copied == IF pc = "copy" /\ efs.data = "nv" THEN "part" ELSE efs.data
Written(b) == {"blank", b} \union IF b = "nv" THEN {"part"} ELSE {}

CopyEfs ==
  /\ pc \in {"copy", "copied"} /\ pc' = After(pc)
  /\ Write([sd EXCEPT !.backup = Copied],
           {[i EXCEPT !.backup = b] :
              i \in {j \in card : j.backup = "none"}, b \in Written(Copied)})
  /\ UNCHANGED <<kernel, efs, lvm, data, modem, tmp>> /\ Same

WriteCfg ==
  /\ pc = "cfg" /\ pc' = After("cfg")
  /\ Write([sd EXCEPT !.cfg = TRUE], {[i EXCEPT !.cfg = TRUE] : i \in card})
  /\ UNCHANGED <<kernel, efs, lvm, data, modem, tmp>> /\ Same

EraseDatadata ==
  /\ pc = "datadata" /\ pc' = After("datadata")
  /\ data' = "gone"
  /\ UNCHANGED <<kernel, efs, cards, lvm, modem, tmp>> /\ Same

(* Only the stock stage looks at the result. *)
FlashKernel ==
  /\ pc = "flash"
  /\ \/ pc' = After("flash") /\ kernel' = "new"
        /\ installed' = (installed /\ kernel = "new")
        /\ UNCHANGED <<efs, cards, lvm, data, modem, tmp, again, auto, consent, losses>>
     \/ kernel = "stock" /\ Lose("flash") /\ Exit
     \/ kernel # "stock" /\ Lose("flash") /\ pc' = After("flash")
        /\ UNCHANGED <<media, tmp, again, auto, installed, consent>>

Reboot == pc = "reboot" /\ SyncedOff

(* restore_modem(): a partition without the file is erased. *)
MountRadio ==
  /\ pc = "radio"
  /\ \/ /\ pc' = IF modem = "none" THEN "modem" ELSE "size"
        /\ UNCHANGED <<media, tmp>> /\ Same
     \/ Lose("mount") /\ Exit

CopyModem ==
  /\ pc \in {"modem", "modem2"}
  /\ modem' = IF pc = "modem" THEN "part" ELSE "ok"
  /\ pc' = IF pc = "modem" THEN "modem2" ELSE "size"
  /\ UNCHANGED <<kernel, efs, cards, lvm, data, tmp>> /\ Same

(* Is the volume there, but not of the size it should have? *)
CheckSize ==
  /\ pc = "size"
  /\ again' = (lvm = "wrong")
  /\ pc' = IF lvm = "wrong" THEN "warn" ELSE "mount"
  /\ UNCHANGED <<media, tmp, auto, installed, consent, losses>>

SetupLvm ==    \* what was on the partitions is gone before they are a pool
  /\ pc \in {"lvm", "vg"} /\ pc' = After(pc)
  /\ lvm' = IF pc = "lvm" THEN "none" ELSE "pool"
  /\ data' = "gone"
  /\ installed' = FALSE
  /\ UNCHANGED <<kernel, efs, cards, modem, tmp, again, auto, consent, losses>>

FormatPartitions ==
  /\ pc \in {"lvs", "format"}
  /\ pc' = IF pc = "lvs" THEN "format" ELSE IF again THEN "mount" ELSE "extract"
  /\ lvm' = IF pc = "lvs" THEN "lvs" ELSE "ready"
  /\ UNCHANGED <<kernel, efs, cards, data, modem, tmp>> /\ Same

(* An update goes on to the kernel, an install removes omni.cfg first. *)
TestCfg ==
  /\ pc = "test"
  /\ pc' = IF sd.cfg THEN "restore" ELSE "flash"
  /\ Write([sd EXCEPT !.cfg = FALSE], {[i EXCEPT !.cfg = FALSE] : i \in card})
  /\ UNCHANGED <<kernel, efs, lvm, data, modem, tmp>> /\ Same

(* restore_efs(): only nv_data.bin is looked for; the partition is erased   *)
(* before it is mounted.                                                    *)
RestoreEfs ==
  /\ pc = "restore"
  /\ IF sd.backup \in {"part", "nv"}
     THEN /\ efs' = [layout |-> "new", data |-> "blank"]
          /\ \/ pc' = "restore2" /\ UNCHANGED losses
             \/ pc' = "menu" /\ Lose("mount")
     ELSE pc' = "lvm" /\ UNCHANGED <<efs, losses>>
  /\ UNCHANGED <<kernel, cards, lvm, data, modem, tmp, again, auto, installed, consent>>

CopyBack_Bug ==    \* forgets to wait for all of the files
  /\ pc = "restore2" /\ pc' = "lvm"
  /\ efs' = [efs EXCEPT !.data = "part"]
  /\ UNCHANGED <<kernel, cards, lvm, data, modem, tmp>> /\ Same

CopyBack ==
  /\ pc \in {"restore2", "restore3"}
  /\ pc' = IF pc = "restore2" THEN "restore3" ELSE "lvm"
  /\ efs' = [efs EXCEPT !.data = IF pc = "restore2" THEN "part" ELSE sd.backup]
  /\ UNCHANGED <<kernel, cards, lvm, data, modem, tmp>> /\ Same

-------------------------------------------------------------------------------
Script ==
  \/ warn_repartition \/ check_mount \/ MoveBackup \/ CopyEfs \/ WriteCfg
  \/ EraseDatadata \/ FlashKernel \/ Reboot \/ MountRadio \/ CopyModem \/ CheckSize
  \/ SetupLvm \/ FormatPartitions \/ TestCfg \/ RestoreEfs \/ CopyBack

Next ==
  \/ Boot \/ RunPackage \/ SwitchOff \/ PowerLoss \/ Use \/ Reflash \/ Extract \/ Script

(* A script that runs goes on, and so does what follows it; a device that   *)
(* the script switched off boots.                                           *)
Spec == Init /\ [][Next]_vars /\ WF_vars(Script \/ Extract) /\ WF_vars(Boot)
===============================================================================
