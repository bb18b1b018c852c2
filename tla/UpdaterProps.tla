------------------------------ MODULE UpdaterProps ------------------------------
(* What an install that may be interrupted must not lose. *)
EXTENDS Updater

(* Type correctness, and the user's confirmation is not kept when the       *)
(* device is off.                                                           *)
TypeOK ==
  /\ kernel \in AllKernels /\ lvm \in {"none", "pool", "lvs", "ready", "wrong"}
  /\ efs \in [layout : AllKernels, data : {"nv", "part", "blank"}]
  /\ card \subseteq [cfg : BOOLEAN, backup : {"none", "blank", "part", "nv"}, aside : BOOLEAN]
  /\ sd \in card /\ unsaved \in BOOLEAN
  /\ data \in {"user", "gone"} /\ modem \in {"ok", "part", "none"}
  /\ tmp \in BOOLEAN /\ again \in BOOLEAN /\ auto \in BOOLEAN
  /\ installed \in BOOLEAN /\ consent \in BOOLEAN /\ losses \in 0..MaxLosses
  /\ tmp => pc # "off"

(* The device's identity, nv_data.bin and the rest of /efs, is always       *)
(* somewhere: where the kernel that boots can read it, or complete in a     *)
(* backup on the card, whatever of the card's unsynced writes a loss of     *)
(* power would leave and however often the user starts again.  There is one *)
(* window, between the write of a new kernel and the sync that comes after  *)
(* it: there the backup is only known to be complete in memory, and a loss  *)
(* of power that finds it unwritten (unsaved) loses the identity.           *)
NvSafe ==
  \/ \A i \in card : Kept(i)
  \/ pc = "reboot" /\ Kept(sd)
  \/ unsaved

(* The user's data are wiped only when the user has confirmed it, also when *)
(* a later boot does it: an omni.cfg that was left behind does not wipe the *)
(* data that came after it.                                                 *)
WipeConsented == data = "gone" => consent

(* An install that the user confirms and nothing interrupts comes to its    *)
(* end, over all its boots, with /efs and the modem in their places; and    *)
(* after whatever interruptions, the recovery does not install the package  *)
(* again at every boot.                                                     *)
Installed ==
  /\ installed /\ kernel = "new" /\ lvm = "ready" /\ modem = "ok"
  /\ efs = [layout |-> "new", data |-> "nv"]
InstallEnds ==
  /\ <>(losses > 0) \/ (consent ~> Installed)
  /\ <>[][~(pc = "off" /\ pc' = "radio")]_vars
===============================================================================
