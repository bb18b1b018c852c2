------------------------------ MODULE UpdaterProofs ------------------------------
(***************************************************************************)
(* An install keeps /efs and asks before it wipes, wherever and however    *)
(* often the power is lost and commands fail, and whatever the device ran  *)
(* at first.                                                               *)
(***************************************************************************)
EXTENDS UpdaterProps, TLAPS

(* The commands of a kernel's stage, so that each has a next one.           *)
Control ==
  pc \in {"off", "menu", "warn", "mount", "flash"} \union
    (CASE kernel = "stock" -> {"efs", "move", "copy", "copied", "cfg", "reboot"}
       [] kernel = "old" -> {"efs", "move", "copy", "copied", "cfg", "datadata", "reboot"}
       [] kernel = "new" -> {"reboot", "radio", "modem", "modem2", "size", "lvm", "vg", "lvs",
                             "format", "test", "restore", "restore2", "restore3", "extract"})

(* A card with a complete backup on it. *)
Safe(i) == i.backup = "nv" \/ i.aside

(* Before its new kernel is written a device can read its /efs, and has a   *)
(* complete copy of it; from then on there is a complete backup, in memory  *)
(* until the reboot and on the card after that.                             *)
BackupInv ==
  /\ kernel # "new" => efs.layout = kernel
  /\ kernel = "new" /\ pc = "reboot" => efs.layout # "new"
  /\ kernel # "stock" => \/ \A i \in card : Safe(i)
                         \/ kernel = "new" /\ pc = "reboot" /\ Safe(sd)
                         \/ unsaved
  /\ pc \in {"copy", "copied"} => [sd EXCEPT !.backup = "none"] \in card
  /\ pc \in {"restore2", "restore3"} => sd.backup \in {"part", "nv"}
  /\ (kernel = "stock" /\ pc \in {"cfg", "flash"}) \/ (kernel = "old" /\ pc = "flash") =>
       sd.backup = efs.data
  /\ pc = "off" => card = {sd}

(* The user has confirmed whatever follows the warning, on this boot or,    *)
(* when omni.cfg is there for the new kernel, on an earlier one.            *)
ConsentInv ==
  /\ data = "gone" => consent
  /\ kernel # "new" /\ pc \notin {"off", "menu", "warn", "reboot"} => consent
  /\ pc \in {"lvm", "vg", "restore", "restore2", "restore3"} => consent
  /\ kernel = "new" /\ (\E i \in card : i.cfg) => consent

Inv == TypeOK /\ Control /\ NvSafe /\ BackupInv /\ ConsentInv

(* The parts of the type invariant, by what proves them. *)
WordTypes ==
  /\ kernel \in AllKernels /\ lvm \in {"none", "pool", "lvs", "ready", "wrong"}
  /\ data \in {"user", "gone"} /\ modem \in {"ok", "part", "none"}
EfsTypes == efs \in [layout : AllKernels, data : {"nv", "part", "blank"}]
Backups == {"none", "blank", "part", "nv"}
Cards == [cfg : BOOLEAN, backup : Backups, aside : BOOLEAN]
CardTypes == card \subseteq Cards /\ sd \in card
FlagTypes ==
  /\ tmp \in BOOLEAN /\ again \in BOOLEAN /\ auto \in BOOLEAN
  /\ installed \in BOOLEAN /\ consent \in BOOLEAN /\ unsaved \in BOOLEAN
LossTypes == losses \in 0..MaxLosses
AnswerLost == tmp => pc # "off"

(* These are all of it. *)
LEMMA TypeParts ==
  TypeOK <=> WordTypes /\ EfsTypes /\ CardTypes /\ FlagTypes /\ LossTypes /\ AnswerLost
BY DEF TypeOK, WordTypes, EfsTypes, CardTypes, Cards, Backups, FlagTypes, LossTypes, AnswerLost

-------------------------------------------------------------------------------
USE KernelsAssumption, LossesAssumption

(* A device that nothing has been installed on satisfies the invariant.     *)
LEMMA InitInv == Init => Inv
<1> SUFFICES ASSUME Init PROVE Inv
  OBVIOUS
<1> USE DEF Init, AllKernels
<1>1. WordTypes /\ EfsTypes
  BY DEF WordTypes, EfsTypes
<1>2. CardTypes
  <2>1. sd \in Cards
    BY DEF Cards, Backups
  <2>2. card = {sd}
    OBVIOUS
  <2> QED BY <2>1, <2>2 DEF CardTypes
<1>3. FlagTypes /\ AnswerLost
  BY Zenon DEF FlagTypes, AnswerLost
<1>7. LossTypes
  BY DEF LossTypes
<1>4. Control
  BY DEF Control
<1>5. NvSafe /\ BackupInv
  <2>1. /\ card = {sd} /\ efs.layout = kernel /\ pc = "off"
        /\ kernel # "stock" => Safe(sd)
        /\ Kept(sd)
    BY DEF Safe, Kept
  <2> QED BY <2>1 DEF NvSafe, BackupInv
<1>6. ConsentInv
  BY DEF ConsentInv
<1> QED  BY <1>1, <1>2, <1>3, <1>4, <1>5, <1>6, <1>7, TypeParts DEF Inv

-------------------------------------------------------------------------------
(* What the script writes to the card.  A write that did not arrive leaves  *)
(* a card that was there before it, and one that did is as safe as one of   *)
(* those: in particular the script's own view of the card.                  *)

LEMMA MovedFields ==
  ASSUME NEW i \in Cards
  PROVE  /\ Moved(i) \in Cards /\ Moved(i).backup = "none" /\ Moved(i).cfg = i.cfg
         /\ Safe(i) => Safe(Moved(i))
         /\ [Moved(i) EXCEPT !.backup = "none"] = Moved(i)
BY DEF Cards, Backups, Moved, Safe

WithBackup(i, b) == [i EXCEPT !.backup = b]
WithCfg(i, b)    == [i EXCEPT !.cfg = b]

LEMMA BackupFields ==
  ASSUME NEW i \in Cards, NEW b \in Backups
  PROVE  /\ WithBackup(i, b) \in Cards
         /\ WithBackup(i, b).backup = b
         /\ WithBackup(i, b).cfg = i.cfg
         /\ WithBackup(i, b).aside = i.aside
         /\ \A c : WithBackup(WithBackup(i, b), c) = WithBackup(i, c)
BY DEF Cards, WithBackup

LEMMA CfgFields ==
  ASSUME NEW i \in Cards, NEW b \in BOOLEAN
  PROVE  /\ WithCfg(i, b) \in Cards
         /\ WithCfg(i, b).cfg = b
         /\ WithCfg(i, b).backup = i.backup
         /\ WithCfg(i, b).aside = i.aside
         /\ Safe(i) => Safe(WithCfg(i, b))
BY DEF Cards, WithCfg, Safe

(* The backup is moved aside. *)
LEMMA MoveCard ==
  ASSUME CardTypes, MoveBackup
  PROVE  /\ card' \subseteq Cards /\ sd' \in card'
         /\ \A i \in card' : \E j \in card : (Safe(j) => Safe(i)) /\ i.cfg = j.cfg
         /\ [sd' EXCEPT !.backup = "none"] = sd'
<1>1. sd' = Moved(sd) /\ card' = card \union {Moved(i) : i \in card}
  BY DEF MoveBackup, Write
<1>2. \A i \in card : i \in Cards
  BY DEF CardTypes
<1>3. sd \in card
  BY DEF CardTypes
<1> QED BY <1>1, <1>2, <1>3, MovedFields

(* What cp may have written of a backup. *)
LEMMA CopiedTypes ==
  ASSUME EfsTypes
  PROVE  /\ Copied \in Backups /\ Copied \in Written(Copied)
         /\ Written(Copied) \subseteq Backups
BY DEF EfsTypes, Copied, Written, Backups

(* The backup is written where there is none. *)
LEMMA CopyCard ==
  ASSUME EfsTypes, CardTypes, BackupInv, CopyEfs
  PROVE  /\ card' \subseteq Cards /\ sd' \in card'
         /\ \A i \in card' : \E j \in card : (Safe(j) => Safe(i)) /\ i.cfg = j.cfg
         /\ [sd' EXCEPT !.backup = "none"] \in card'
         /\ sd'.backup = Copied
<1> DEFINE empty == {j \in card : j.backup = "none"}
           new == {WithBackup(i, b) : i \in empty, b \in Written(Copied)}
           from == WithBackup(sd, "none")
<1>1. sd' = WithBackup(sd, Copied) /\ card' = card \union new
  BY DEF CopyEfs, Write, WithBackup
<1>2. /\ sd \in card /\ card \subseteq Cards /\ "none" \in Backups
      /\ Copied \in Backups /\ Copied \in Written(Copied) /\ Written(Copied) \subseteq Backups
  BY CopiedTypes DEF CardTypes, Backups
<1>3. from \in card /\ from.backup = "none"
  <2>1. from \in card
    BY DEF BackupInv, CopyEfs, WithBackup
  <2> QED BY <1>2, <2>1, BackupFields
<1>4. ASSUME NEW i \in new
      PROVE  i \in Cards /\ \E j \in card : (Safe(j) => Safe(i)) /\ i.cfg = j.cfg
  <2>1. PICK j \in empty, b \in Written(Copied) : i = WithBackup(j, b)
    OBVIOUS
  <2>2. i \in Cards /\ i.cfg = j.cfg /\ i.aside = j.aside
    BY <1>2, <2>1, BackupFields
  <2>3. Safe(j) => Safe(i)
    BY <2>2 DEF Safe
  <2> QED BY <2>2, <2>3
<1>5. ASSUME NEW i \in card
      PROVE  \E j \in card : (Safe(j) => Safe(i)) /\ i.cfg = j.cfg
  OBVIOUS
<1>6. sd' = WithBackup(from, Copied) /\ sd'.backup = Copied
      /\ WithBackup(sd', "none") = from
  BY <1>1, <1>2, BackupFields
<1>7. sd' \in new
  BY <1>2, <1>3, <1>6
<1> HIDE DEF new, from
<1>8. [sd' EXCEPT !.backup = "none"] = from
  BY <1>6 DEF WithBackup
<1> QED BY <1>1, <1>2, <1>3, <1>4, <1>5, <1>6, <1>7, <1>8

(* omni.cfg is written, or removed. *)
LEMMA CfgCard ==
  ASSUME CardTypes, NEW b \in BOOLEAN,
         Write([sd EXCEPT !.cfg = b], {[i EXCEPT !.cfg = b] : i \in card})
  PROVE  /\ card' \subseteq Cards /\ sd' \in card'
         /\ \A i \in card' : \E j \in card : Safe(j) => Safe(i)
         /\ ~b => \A i \in card' : i.cfg => \E j \in card : j.cfg
         /\ sd'.backup = sd.backup /\ (Safe(sd) => Safe(sd'))
<1>1. sd' = WithCfg(sd, b) /\ card' = card \union {WithCfg(i, b) : i \in card}
  BY DEF Write, WithCfg
<1>2. \A i \in card : i \in Cards
  BY DEF CardTypes
<1>3. sd \in card
  BY DEF CardTypes
<1> QED BY <1>1, <1>2, <1>3, CfgFields

-------------------------------------------------------------------------------
(* No command leaves a kernel, a volume or a partition in a state that is   *)
(* not one of the model's.                                                  *)
LEMMA NextWordTypes ==
  WordTypes /\ [Next]_vars
    => WordTypes'
<1> SUFFICES ASSUME WordTypes, [Next]_vars
             PROVE  WordTypes'
  OBVIOUS
<1> USE DEF WordTypes, media, AllKernels
<1>1. CASE UNCHANGED vars
  BY <1>1 DEF vars
<1>2. CASE Boot
  BY <1>2 DEF Boot
<1>3. CASE RunPackage
  BY <1>3 DEF RunPackage
<1>4. CASE SwitchOff
  BY <1>4 DEF SwitchOff, SyncedOff, PowerOff
<1>5. CASE PowerLoss
  BY <1>5 DEF PowerLoss, PowerOff, Lose
<1>6. CASE Use
  BY <1>6 DEF Use
<1>7. CASE Reflash
  BY <1>7 DEF Reflash
<1>8. CASE Extract
  BY <1>8 DEF Extract
<1>9. CASE warn_repartition
  BY <1>9 DEF warn_repartition
<1>10. CASE check_mount
  BY <1>10 DEF check_mount, Same, Lose, Exit
<1>11. CASE MoveBackup
  BY <1>11 DEF MoveBackup, Write, Same
<1>12. CASE CopyEfs
  BY <1>12 DEF CopyEfs, Write, Same
<1>13. CASE WriteCfg
  BY <1>13 DEF WriteCfg, Write, Same
<1>14. CASE EraseDatadata
  BY <1>14 DEF EraseDatadata, Same
<1>15. CASE FlashKernel
  BY <1>15 DEF FlashKernel, Same, Lose, Exit
<1>16. CASE Reboot
  BY <1>16 DEF Reboot, SyncedOff, PowerOff
<1>17. CASE MountRadio
  BY <1>17 DEF MountRadio, Same, Lose, Exit
<1>18. CASE CopyModem
  BY <1>18 DEF CopyModem, Same
<1>19. CASE CheckSize
  BY <1>19 DEF CheckSize
<1>20. CASE SetupLvm
  BY <1>20 DEF SetupLvm
<1>21. CASE FormatPartitions
  BY <1>21 DEF FormatPartitions, Same
<1>22. CASE TestCfg
  BY <1>22 DEF TestCfg, Write, Same
<1>23. CASE RestoreEfs
  BY <1>23 DEF RestoreEfs, Lose
<1>24. CASE CopyBack
  BY <1>24 DEF CopyBack, Same
<1> QED
  BY <1>1, <1>2, <1>3, <1>4, <1>5, <1>6, <1>7, <1>8, <1>9, <1>10, <1>11, <1>12,
     <1>13, <1>14, <1>15, <1>16, <1>17, <1>18, <1>19, <1>20, <1>21, <1>22, <1>23, <1>24
  DEF Next, Script

(* /efs gets its files from a backup that has some. *)
LEMMA NextEfsTypes ==
  WordTypes /\ EfsTypes /\ CardTypes /\ BackupInv /\ [Next]_vars
    => EfsTypes'
<1> SUFFICES ASSUME WordTypes, EfsTypes, CardTypes, BackupInv, [Next]_vars
             PROVE  EfsTypes'
  OBVIOUS
<1> USE DEF WordTypes, EfsTypes, CardTypes, Cards, Backups, media, cards, AllKernels
<1>1. CASE UNCHANGED vars
  BY <1>1 DEF vars
<1>2. CASE Boot
  BY <1>2 DEF Boot
<1>3. CASE RunPackage
  BY <1>3 DEF RunPackage
<1>4. CASE SwitchOff
  BY <1>4 DEF SwitchOff, SyncedOff, PowerOff
<1>5. CASE PowerLoss
  BY <1>5 DEF PowerLoss, PowerOff, Lose
<1>6. CASE Use
  BY <1>6 DEF Use
<1>7. CASE Reflash
  BY <1>7 DEF Reflash
<1>8. CASE Extract
  BY <1>8 DEF Extract
<1>9. CASE warn_repartition
  BY <1>9 DEF warn_repartition
<1>10. CASE check_mount
  BY <1>10 DEF check_mount, Same, Lose, Exit
<1>11. CASE MoveBackup
  BY <1>11 DEF MoveBackup, Write, Same
<1>12. CASE CopyEfs
  BY <1>12 DEF CopyEfs, Write, Same
<1>13. CASE WriteCfg
  BY <1>13 DEF WriteCfg, Write, Same
<1>14. CASE EraseDatadata
  BY <1>14 DEF EraseDatadata, Same
<1>15. CASE FlashKernel
  BY <1>15 DEF FlashKernel, Same, Lose, Exit
<1>16. CASE Reboot
  BY <1>16 DEF Reboot, SyncedOff, PowerOff
<1>17. CASE MountRadio
  BY <1>17 DEF MountRadio, Same, Lose, Exit
<1>18. CASE CopyModem
  BY <1>18 DEF CopyModem, Same
<1>19. CASE CheckSize
  BY <1>19 DEF CheckSize
<1>20. CASE SetupLvm
  BY <1>20 DEF SetupLvm
<1>21. CASE FormatPartitions
  BY <1>21 DEF FormatPartitions, Same
<1>22. CASE TestCfg
  BY <1>22 DEF TestCfg, Write, Same
<1>23. CASE RestoreEfs
  BY <1>23 DEF RestoreEfs, Lose
<1>24. CASE CopyBack
  BY <1>24 DEF CopyBack, BackupInv, Same
<1> QED
  BY <1>1, <1>2, <1>3, <1>4, <1>5, <1>6, <1>7, <1>8, <1>9, <1>10, <1>11, <1>12,
     <1>13, <1>14, <1>15, <1>16, <1>17, <1>18, <1>19, <1>20, <1>21, <1>22, <1>23, <1>24
  DEF Next, Script

(* The card gets its files from /efs. *)
LEMMA NextCardTypes ==
  EfsTypes /\ CardTypes /\ BackupInv /\ [Next]_vars
    => CardTypes'
<1> SUFFICES ASSUME EfsTypes, CardTypes, BackupInv, [Next]_vars
             PROVE  CardTypes'
  OBVIOUS
<1> USE DEF EfsTypes, CardTypes, media, cards, AllKernels
<1>1. CASE UNCHANGED vars
  BY <1>1 DEF vars
<1>2. CASE Boot
  BY <1>2 DEF Boot
<1>3. CASE RunPackage
  BY <1>3 DEF RunPackage
<1>4. CASE SwitchOff
  BY <1>4 DEF SwitchOff, SyncedOff, PowerOff
<1>5. CASE PowerLoss
  BY <1>5 DEF PowerLoss, PowerOff, Lose
<1>6. CASE Use
  BY <1>6 DEF Use
<1>7. CASE Reflash
  BY <1>7 DEF Reflash
<1>8. CASE Extract
  BY <1>8 DEF Extract
<1>9. CASE warn_repartition
  BY <1>9 DEF warn_repartition
<1>10. CASE check_mount
  BY <1>10 DEF check_mount, Same, Lose, Exit
<1>11. CASE MoveBackup
  BY <1>11, MoveCard DEF CardTypes
<1>12. CASE CopyEfs
  BY <1>12, CopyCard DEF CardTypes
<1>13. CASE WriteCfg
  BY <1>13, CfgCard DEF WriteCfg, CardTypes
<1>14. CASE EraseDatadata
  BY <1>14 DEF EraseDatadata, Same
<1>15. CASE FlashKernel
  BY <1>15 DEF FlashKernel, Same, Lose, Exit
<1>16. CASE Reboot
  BY <1>16 DEF Reboot, SyncedOff, PowerOff
<1>17. CASE MountRadio
  BY <1>17 DEF MountRadio, Same, Lose, Exit
<1>18. CASE CopyModem
  BY <1>18 DEF CopyModem, Same
<1>19. CASE CheckSize
  BY <1>19 DEF CheckSize
<1>20. CASE SetupLvm
  BY <1>20 DEF SetupLvm
<1>21. CASE FormatPartitions
  BY <1>21 DEF FormatPartitions, Same
<1>22. CASE TestCfg
  BY <1>22, CfgCard DEF TestCfg, CardTypes
<1>23. CASE RestoreEfs
  BY <1>23 DEF RestoreEfs, Lose
<1>24. CASE CopyBack
  BY <1>24 DEF CopyBack, Same
<1> QED
  BY <1>1, <1>2, <1>3, <1>4, <1>5, <1>6, <1>7, <1>8, <1>9, <1>10, <1>11, <1>12,
     <1>13, <1>14, <1>15, <1>16, <1>17, <1>18, <1>19, <1>20, <1>21, <1>22, <1>23, <1>24
  DEF Next, Script

(* The flags stay Boolean. *)
LEMMA NextFlagTypes ==
  FlagTypes /\ [Next]_vars
    => FlagTypes'
<1> SUFFICES ASSUME FlagTypes, [Next]_vars
             PROVE  FlagTypes'
  OBVIOUS
<1> USE DEF FlagTypes, media, cards
<1>1. CASE UNCHANGED vars
  BY <1>1 DEF vars
<1>2. CASE Boot
  BY <1>2 DEF Boot
<1>3. CASE RunPackage
  BY <1>3 DEF RunPackage
<1>4. CASE SwitchOff
  BY <1>4 DEF SwitchOff, SyncedOff, PowerOff
<1>5. CASE PowerLoss
  BY <1>5 DEF PowerLoss, PowerOff, Lose
<1>6. CASE Use
  BY <1>6 DEF Use
<1>7. CASE Reflash
  BY <1>7 DEF Reflash
<1>8. CASE Extract
  BY <1>8 DEF Extract
<1>9. CASE warn_repartition
  BY <1>9 DEF warn_repartition
<1>10. CASE check_mount
  BY <1>10 DEF check_mount, Same, Lose, Exit
<1>11. CASE MoveBackup
  BY <1>11 DEF MoveBackup, Write, Same
<1>12. CASE CopyEfs
  BY <1>12 DEF CopyEfs, Write, Same
<1>13. CASE WriteCfg
  BY <1>13 DEF WriteCfg, Write, Same
<1>14. CASE EraseDatadata
  BY <1>14 DEF EraseDatadata, Same
<1>15. CASE FlashKernel
  BY <1>15 DEF FlashKernel, Same, Lose, Exit
<1>16. CASE Reboot
  BY <1>16 DEF Reboot, SyncedOff, PowerOff
<1>17. CASE MountRadio
  BY <1>17 DEF MountRadio, Same, Lose, Exit
<1>18. CASE CopyModem
  BY <1>18 DEF CopyModem, Same
<1>19. CASE CheckSize
  BY <1>19 DEF CheckSize
<1>20. CASE SetupLvm
  BY <1>20 DEF SetupLvm
<1>21. CASE FormatPartitions
  BY <1>21 DEF FormatPartitions, Same
<1>22. CASE TestCfg
  BY <1>22 DEF TestCfg, Write, Same
<1>23. CASE RestoreEfs
  BY <1>23 DEF RestoreEfs, Lose
<1>24. CASE CopyBack
  BY <1>24 DEF CopyBack, Same
<1> QED
  BY <1>1, <1>2, <1>3, <1>4, <1>5, <1>6, <1>7, <1>8, <1>9, <1>10, <1>11, <1>12,
     <1>13, <1>14, <1>15, <1>16, <1>17, <1>18, <1>19, <1>20, <1>21, <1>22, <1>23, <1>24
  DEF Next, Script

(* No more than MaxLosses things go wrong. *)
LEMMA NextLossTypes ==
  LossTypes /\ [Next]_vars
    => LossTypes'
<1> SUFFICES ASSUME LossTypes, [Next]_vars
             PROVE  LossTypes'
  OBVIOUS
<1> USE DEF LossTypes
<1>1. CASE UNCHANGED vars
  BY <1>1 DEF vars
<1>2. CASE Boot
  BY <1>2 DEF Boot
<1>3. CASE RunPackage
  BY <1>3 DEF RunPackage
<1>4. CASE SwitchOff
  BY <1>4 DEF SwitchOff, SyncedOff, PowerOff
<1>5. CASE PowerLoss
  BY <1>5 DEF PowerLoss, PowerOff, Lose
<1>6. CASE Use
  BY <1>6 DEF Use
<1>7. CASE Reflash
  BY <1>7 DEF Reflash
<1>8. CASE Extract
  BY <1>8 DEF Extract
<1>9. CASE warn_repartition
  BY <1>9 DEF warn_repartition
<1>10. CASE check_mount
  BY <1>10 DEF check_mount, Same, Lose, Exit
<1>11. CASE MoveBackup
  BY <1>11 DEF MoveBackup, Write, Same
<1>12. CASE CopyEfs
  BY <1>12 DEF CopyEfs, Write, Same
<1>13. CASE WriteCfg
  BY <1>13 DEF WriteCfg, Write, Same
<1>14. CASE EraseDatadata
  BY <1>14 DEF EraseDatadata, Same
<1>15. CASE FlashKernel
  BY <1>15 DEF FlashKernel, Same, Lose, Exit
<1>16. CASE Reboot
  BY <1>16 DEF Reboot, SyncedOff, PowerOff
<1>17. CASE MountRadio
  BY <1>17 DEF MountRadio, Same, Lose, Exit
<1>18. CASE CopyModem
  BY <1>18 DEF CopyModem, Same
<1>19. CASE CheckSize
  BY <1>19 DEF CheckSize
<1>20. CASE SetupLvm
  BY <1>20 DEF SetupLvm
<1>21. CASE FormatPartitions
  BY <1>21 DEF FormatPartitions, Same
<1>22. CASE TestCfg
  BY <1>22 DEF TestCfg, Write, Same
<1>23. CASE RestoreEfs
  BY <1>23 DEF RestoreEfs, Lose
<1>24. CASE CopyBack
  BY <1>24 DEF CopyBack, Same
<1> QED
  BY <1>1, <1>2, <1>3, <1>4, <1>5, <1>6, <1>7, <1>8, <1>9, <1>10, <1>11, <1>12,
     <1>13, <1>14, <1>15, <1>16, <1>17, <1>18, <1>19, <1>20, <1>21, <1>22, <1>23, <1>24
  DEF Next, Script

(* The accept file is gone once the device is off: what writes it is not    *)
(* followed by that.                                                        *)
LEMMA NextAnswerLost ==
  WordTypes /\ Control /\ AnswerLost /\ [Next]_vars
    => AnswerLost'
<1> SUFFICES ASSUME WordTypes, Control, AnswerLost, [Next]_vars
             PROVE  AnswerLost'
  OBVIOUS
<1> USE DEF WordTypes, Control, AnswerLost, AllKernels, media
<1>1. CASE UNCHANGED vars
  BY <1>1 DEF vars
<1>2. CASE Boot
  BY <1>2 DEF Boot, First
<1>3. CASE RunPackage
  BY <1>3 DEF RunPackage, First
<1>4. CASE SwitchOff
  BY <1>4 DEF SwitchOff, SyncedOff, PowerOff
<1>5. CASE PowerLoss
  BY <1>5 DEF PowerLoss, PowerOff
<1>6. CASE Use
  BY <1>6 DEF Use
<1>7. CASE Reflash
  BY <1>7 DEF Reflash
<1>8. CASE Extract
  BY <1>8 DEF Extract
<1>9. CASE warn_repartition
  BY <1>9 DEF warn_repartition, After, Following
<1>10. CASE check_mount
  <2>1. pc' \in {"menu", After(pc)}
    BY <1>10 DEF check_mount, Exit
  <2>2. pc \in {"mount", "efs"}
    BY <1>10 DEF check_mount
  <2> QED  BY <2>1, <2>2 DEF After, Following
<1>11. CASE MoveBackup
  BY <1>11 DEF MoveBackup, After, Following
<1>12. CASE CopyEfs
  BY <1>12 DEF CopyEfs, After, Following
<1>13. CASE WriteCfg
  BY <1>13 DEF WriteCfg, After, Following
<1>14. CASE EraseDatadata
  BY <1>14 DEF EraseDatadata, After, Following
<1>15. CASE FlashKernel
  <2>1. pc' \in {"menu", After("flash")}
    BY <1>15 DEF FlashKernel, Exit
  <2> QED  BY <2>1 DEF After, Following
<1>16. CASE Reboot
  BY <1>16 DEF Reboot, SyncedOff, PowerOff
<1>17. CASE MountRadio
  BY <1>17 DEF MountRadio, Exit
<1>18. CASE CopyModem
  BY <1>18 DEF CopyModem
<1>19. CASE CheckSize
  BY <1>19 DEF CheckSize
<1>20. CASE SetupLvm
  BY <1>20 DEF SetupLvm, After, Following
<1>21. CASE FormatPartitions
  BY <1>21 DEF FormatPartitions
<1>22. CASE TestCfg
  BY <1>22 DEF TestCfg
<1>23. CASE RestoreEfs
  BY <1>23 DEF RestoreEfs
<1>24. CASE CopyBack
  BY <1>24 DEF CopyBack
<1> QED
  BY <1>1, <1>2, <1>3, <1>4, <1>5, <1>6, <1>7, <1>8, <1>9, <1>10, <1>11, <1>12,
     <1>13, <1>14, <1>15, <1>16, <1>17, <1>18, <1>19, <1>20, <1>21, <1>22, <1>23, <1>24
  DEF Next, Script

(* A command of a stage is followed by one of it, until the kernel or the   *)
(* device's state changes.                                                  *)
LEMMA NextControl ==
  WordTypes /\ Control /\ [Next]_vars
    => Control'
<1> SUFFICES ASSUME WordTypes, Control, [Next]_vars
             PROVE  Control'
  OBVIOUS
<1> USE DEF WordTypes, Control, AllKernels, media
<1>1. CASE UNCHANGED vars
  BY <1>1 DEF vars
<1>2. CASE Boot
  BY <1>2 DEF Boot, First
<1>3. CASE RunPackage
  BY <1>3 DEF RunPackage, First
<1>4. CASE SwitchOff
  BY <1>4 DEF SwitchOff, SyncedOff, PowerOff
<1>5. CASE PowerLoss
  BY <1>5 DEF PowerLoss, PowerOff, Lose
<1>6. CASE Use
  BY <1>6 DEF Use
<1>7. CASE Reflash
  BY <1>7 DEF Reflash
<1>8. CASE Extract
  BY <1>8 DEF Extract
<1>9. CASE warn_repartition
  BY <1>9 DEF warn_repartition, After, Following
<1>10. CASE check_mount
  BY <1>10 DEF check_mount, After, Following, Same, Lose, Exit
<1>11. CASE MoveBackup
  BY <1>11 DEF MoveBackup, After, Following, Same
<1>12. CASE CopyEfs
  BY <1>12 DEF CopyEfs, After, Following, Same
<1>13. CASE WriteCfg
  BY <1>13 DEF WriteCfg, After, Following, Same
<1>14. CASE EraseDatadata
  BY <1>14 DEF EraseDatadata, After, Following, Same
<1>15. CASE FlashKernel
  BY <1>15 DEF FlashKernel, After, Following, Same, Lose, Exit
<1>16. CASE Reboot
  BY <1>16 DEF Reboot, SyncedOff, PowerOff
<1>17. CASE MountRadio
  BY <1>17 DEF MountRadio, Same, Lose, Exit
<1>18. CASE CopyModem
  BY <1>18 DEF CopyModem, Same
<1>19. CASE CheckSize
  BY <1>19 DEF CheckSize
<1>20. CASE SetupLvm
  BY <1>20 DEF SetupLvm, After, Following
<1>21. CASE FormatPartitions
  BY <1>21 DEF FormatPartitions, Same
<1>22. CASE TestCfg
  BY <1>22 DEF TestCfg, Write, Same
<1>23. CASE RestoreEfs
  BY <1>23 DEF RestoreEfs, Lose
<1>24. CASE CopyBack
  BY <1>24 DEF CopyBack, Same
<1> QED
  BY <1>1, <1>2, <1>3, <1>4, <1>5, <1>6, <1>7, <1>8, <1>9, <1>10, <1>11, <1>12,
     <1>13, <1>14, <1>15, <1>16, <1>17, <1>18, <1>19, <1>20, <1>21, <1>22, <1>23, <1>24
  DEF Next, Script

(* Until the new kernel runs, a backup is only removed after it has been    *)
(* moved aside or while /efs can be read, and it is complete before the     *)
(* kernel is written.                                                       *)
LEMMA NextBackup ==
  WordTypes /\ EfsTypes /\ CardTypes /\ Control /\ NvSafe /\ BackupInv /\ [Next]_vars
    => (NvSafe /\ BackupInv)'
<1> SUFFICES ASSUME WordTypes, EfsTypes, CardTypes, Control, NvSafe, BackupInv, [Next]_vars
             PROVE  (NvSafe /\ BackupInv)'
  OBVIOUS
<1> USE DEF WordTypes, EfsTypes, CardTypes, Control, NvSafe, Kept, Safe, BackupInv,
            AllKernels, media, cards
<1>1. CASE UNCHANGED vars
  BY <1>1 DEF vars
<1>2. CASE Boot
  BY <1>2 DEF Boot, First
<1>3. CASE RunPackage
  BY <1>3 DEF RunPackage, First
<1>4. CASE SwitchOff
  BY <1>4 DEF SwitchOff, SyncedOff, PowerOff
<1>5. CASE PowerLoss
  <2>1. PICK i \in card : /\ sd' = i /\ card' = {i}
                          /\ unsaved' = (unsaved \/ (pc = "reboot" /\ ~Kept(i)))
    BY <1>5 DEF PowerLoss
  <2>2. pc' = "off" /\ UNCHANGED <<kernel, efs>>
    BY <1>5 DEF PowerLoss, PowerOff
  <2>3. pc # "reboot" /\ ~unsaved => Kept(i) /\ (kernel # "stock" => Safe(i))
    OBVIOUS
  <2>4. pc = "reboot" /\ kernel # "stock" /\ Kept(i) => Safe(i) \/ unsaved
    OBVIOUS
  <2> QED BY <2>1, <2>2, <2>3, <2>4
<1>6. CASE Use
  BY <1>6 DEF Use
<1>7. CASE Reflash
  BY <1>7 DEF Reflash
<1>8. CASE Extract
  BY <1>8 DEF Extract
<1>9. CASE warn_repartition
  BY <1>9 DEF warn_repartition, After, Following
<1>10. CASE check_mount
  BY <1>10 DEF check_mount, After, Following, Same, Lose, Exit
<1>11. CASE MoveBackup
  <2>1. /\ \A i \in card' : \E j \in card : Safe(j) => Safe(i)
        /\ sd' \in card' /\ [sd' EXCEPT !.backup = "none"] = sd'
    BY <1>11, MoveCard
  <2>2. pc = "move" /\ pc' = "copy" /\ UNCHANGED <<kernel, efs, unsaved>>
    BY <1>11 DEF MoveBackup, Write, After, Following
  <2> QED  BY <2>1, <2>2
<1>12. CASE CopyEfs
  <2>1. /\ \A i \in card' : \E j \in card : Safe(j) => Safe(i)
        /\ [sd' EXCEPT !.backup = "none"] \in card' /\ sd'.backup = Copied
    BY <1>12, CopyCard
  <2>2. /\ pc \in {"copy", "copied"} /\ pc' = After(pc)
        /\ UNCHANGED <<kernel, efs, unsaved>>
    BY <1>12 DEF CopyEfs, Write
  <2>3. pc' \in {"copied", "cfg", "flash"} /\ (pc' # "copied" => Copied = efs.data)
    BY <2>2 DEF After, Following, Copied
  <2> QED  BY <2>1, <2>2, <2>3
<1>13. CASE WriteCfg
  <2>1. /\ \A i \in card' : \E j \in card : Safe(j) => Safe(i)
        /\ sd'.backup = sd.backup
    BY <1>13, CfgCard DEF WriteCfg
  <2>2. pc = "cfg" /\ pc' = After("cfg") /\ UNCHANGED <<kernel, efs, unsaved>>
    BY <1>13 DEF WriteCfg, Write
  <2>3. kernel \in {"stock", "old"}
    BY <2>2
  <2>4. pc' = IF kernel = "old" THEN "datadata" ELSE "flash"
    BY <2>2, <2>3 DEF After, Following
  <2> QED  BY <2>1, <2>2, <2>3, <2>4
<1>14. CASE EraseDatadata
  BY <1>14 DEF EraseDatadata, After, Following, Same
<1>15. CASE FlashKernel
  BY <1>15 DEF FlashKernel, After, Following, Same, Lose, Exit
<1>16. CASE Reboot
  BY <1>16 DEF Reboot, SyncedOff, PowerOff
<1>17. CASE MountRadio
  BY <1>17 DEF MountRadio, Same, Lose, Exit
<1>18. CASE CopyModem
  BY <1>18 DEF CopyModem, Same
<1>19. CASE CheckSize
  BY <1>19 DEF CheckSize
<1>20. CASE SetupLvm
  BY <1>20 DEF SetupLvm, After, Following
<1>21. CASE FormatPartitions
  BY <1>21 DEF FormatPartitions, Same
<1>22. CASE TestCfg
  <2>1. /\ \A i \in card' : \E j \in card : Safe(j) => Safe(i)
        /\ sd'.backup = sd.backup
    BY <1>22, CfgCard DEF TestCfg
  <2>2. /\ pc = "test" /\ pc' \in {"restore", "flash"} /\ kernel = "new"
        /\ UNCHANGED <<kernel, efs, unsaved>>
    BY <1>22 DEF TestCfg, Write
  <2> QED  BY <2>1, <2>2
<1>23. CASE RestoreEfs
  BY <1>23 DEF RestoreEfs, Lose
<1>24. CASE CopyBack
  BY <1>24 DEF CopyBack, Same
<1> QED
  BY <1>1, <1>2, <1>3, <1>4, <1>5, <1>6, <1>7, <1>8, <1>9, <1>10, <1>11, <1>12,
     <1>13, <1>14, <1>15, <1>16, <1>17, <1>18, <1>19, <1>20, <1>21, <1>22, <1>23, <1>24
  DEF Next, Script

(* Nothing is wiped before the warning has been confirmed, and omni.cfg is  *)
(* written after that; no loss of power brings back one from before it.     *)
LEMMA NextConsent ==
  WordTypes /\ EfsTypes /\ CardTypes /\ Control /\ BackupInv /\ ConsentInv /\ [Next]_vars
    => ConsentInv'
<1> SUFFICES ASSUME WordTypes, EfsTypes, CardTypes, Control, BackupInv, ConsentInv,
                    [Next]_vars
             PROVE  ConsentInv'
  OBVIOUS
<1> USE DEF WordTypes, CardTypes, Control, ConsentInv, AllKernels, media, cards
<1>1. CASE UNCHANGED vars
  BY <1>1 DEF vars
<1>2. CASE Boot
  BY <1>2 DEF Boot, First
<1>3. CASE RunPackage
  BY <1>3 DEF RunPackage, First
<1>4. CASE SwitchOff
  BY <1>4 DEF SwitchOff, SyncedOff, PowerOff
<1>5. CASE PowerLoss
  BY <1>5 DEF PowerLoss, PowerOff
<1>6. CASE Use
  BY <1>6 DEF Use, BackupInv
<1>7. CASE Reflash
  BY <1>7 DEF Reflash
<1>8. CASE Extract
  BY <1>8 DEF Extract
<1>9. CASE warn_repartition
  BY <1>9 DEF warn_repartition, After, Following
<1>10. CASE check_mount
  BY <1>10 DEF check_mount, After, Following, Same, Lose, Exit
<1>11. CASE MoveBackup
  <2>1. \A i \in card' : \E j \in card : i.cfg = j.cfg
    BY <1>11, MoveCard
  <2> QED BY <1>11, <2>1 DEF MoveBackup, After, Following, Same
<1>12. CASE CopyEfs
  <2>1. \A i \in card' : \E j \in card : i.cfg = j.cfg
    BY <1>12, CopyCard
  <2> QED BY <1>12, <2>1 DEF CopyEfs, After, Following, Same
<1>13. CASE WriteCfg
  BY <1>13 DEF WriteCfg, After, Following, Same
<1>14. CASE EraseDatadata
  BY <1>14 DEF EraseDatadata, After, Following, Same
<1>15. CASE FlashKernel
  BY <1>15 DEF FlashKernel, After, Following, Same, Lose, Exit
<1>16. CASE Reboot
  BY <1>16 DEF Reboot, SyncedOff, PowerOff
<1>17. CASE MountRadio
  BY <1>17 DEF MountRadio, Same, Lose, Exit
<1>18. CASE CopyModem
  BY <1>18 DEF CopyModem, Same
<1>19. CASE CheckSize
  BY <1>19 DEF CheckSize
<1>20. CASE SetupLvm
  BY <1>20 DEF SetupLvm, After, Following
<1>21. CASE FormatPartitions
  BY <1>21 DEF FormatPartitions, Same
<1>22. CASE TestCfg
  <2>1. \A i \in card' : i.cfg => \E j \in card : j.cfg
    BY <1>22, CfgCard DEF TestCfg
  <2>2. sd.cfg => consent
    BY <1>22 DEF TestCfg
  <2> QED BY <1>22, <2>1, <2>2 DEF TestCfg, Same
<1>23. CASE RestoreEfs
  BY <1>23 DEF RestoreEfs, Lose
<1>24. CASE CopyBack
  BY <1>24 DEF CopyBack, Same
<1> QED
  BY <1>1, <1>2, <1>3, <1>4, <1>5, <1>6, <1>7, <1>8, <1>9, <1>10, <1>11, <1>12,
     <1>13, <1>14, <1>15, <1>16, <1>17, <1>18, <1>19, <1>20, <1>21, <1>22, <1>23, <1>24
  DEF Next, Script

-------------------------------------------------------------------------------
(* The invariant holds of every install, however often it is interrupted.   *)
LEMMA Invariant == Spec => []Inv
<1>1. TypeOK' <=>
        (WordTypes /\ EfsTypes /\ CardTypes /\ FlagTypes /\ LossTypes /\ AnswerLost)'
  BY DEF TypeOK, WordTypes, EfsTypes, CardTypes, Cards, Backups, FlagTypes, LossTypes, AnswerLost
<1>2. Inv /\ [Next]_vars => Inv'
  BY <1>1, TypeParts, NextWordTypes, NextEfsTypes, NextCardTypes, NextFlagTypes,
     NextLossTypes, NextAnswerLost, NextControl, NextBackup, NextConsent DEF Inv
<1> QED  BY <1>2, InitInv, PTL DEF Spec

(* Type correctness: every variable keeps its type, and the answer to the   *)
(* warning does not survive the recovery.                                   *)
THEOREM UpdaterTypeCorrect == Spec => []TypeOK
BY Invariant, PTL DEF Inv

(* backup_efs() and restore_efs() lose the device's identity only to a loss *)
(* of power between the write of a new kernel and the sync that follows it. *)
(* At any other time it can be read from /efs, or a complete copy of it is  *)
(* durable on the card, after any number of losses of power that drop any   *)
(* of the unsynced writes, failed mounts and failed writes of the kernel,   *)
(* and of returns to the stock system.                                      *)
THEOREM NvSafeHolds == Spec => []NvSafe
BY Invariant, PTL DEF Inv

(* warn_repartition() guards every command that wipes the user's data, also *)
(* those of a later boot that omni.cfg starts.                              *)
THEOREM WipeConsentedHolds == Spec => []WipeConsented
<1>1. Inv => WipeConsented
  BY DEF Inv, ConsentInv, WipeConsented
<1> QED  BY <1>1, Invariant, PTL
===============================================================================
