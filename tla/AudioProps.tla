------------------------------- MODULE AudioProps -------------------------------
(***************************************************************************)
(* What the locking protocol of AudioHardware is for.                      *)
(***************************************************************************)
EXTENDS AudioHardware

Labels ==
  {"idle", "s_lock", "s_hw", "s_end", "d_out", "d_in", "d_hw", "w_out", "w_hw",
   "w_in", "w_hw2", "w_pcm", "w_fail", "r_in", "r_hw", "r_out", "r_in2",
   "r_hw2", "r_pcm", "m_hw", "m_out", "m_hwo", "m_in", "m_hwi", "m_enter",
   "m_leave", "m_dropIn", "m_dropOut", "c_dropIn", "c_dropOut"}

ThreadRecords ==
  [pc : Labels, spOut : Outputs \union {NULL}, spIn : Inputs \union {NULL},
   dOut : Outputs \union {NULL}, target : Streams \union {NULL},
   op : {"none", "standby", "routing", "destroy"}, after : Labels,
   resume : {"none", "s_end", "w_fail", "m_enter", "m_leave"}, mode : Modes]

(* Every variable holds a value of its type in the code. *)
TypeOK ==
  /\ hw \in HwRecords(Threads)
  /\ owner \in [Locks -> Threads \union {NULL}]
  /\ th \in [Threads -> ThreadRecords]
  /\ alive \in SUBSET Streams

(* Where a thread is tells which of its pointers are not NULL, and whether  *)
(* it kept the hardware mutex; a destructor that runs under that mutex does *)
(* not come back.                                                           *)
SafeReturn == {"idle", "c_dropIn", "c_dropOut", "m_dropOut"}

Control(t, me, out, keepsHw) ==
  /\ me.pc \in {"s_lock", "s_hw", "s_end"} => me.target \in Streams
  /\ me.pc \in {"d_out", "d_in", "d_hw"}
       => /\ me.target \in Inputs /\ me.dOut \in Outputs
          /\ me.resume \in {"s_end", "w_fail", "m_enter", "m_leave"}
          /\ me.resume = "s_end" => me.after \in SafeReturn
  /\ me.pc \in {"s_lock", "s_hw"} => me.after \in SafeReturn \/ keepsHw
  /\ me.pc = "s_end" => me.after \in SafeReturn
  /\ me.pc \in {"s_end", "w_fail", "m_enter", "m_leave"} => keepsHw
  /\ me.pc \in {"w_out", "w_hw", "w_in", "w_hw2", "w_pcm"}
       => t = Playback /\ out \in Outputs
  /\ me.pc \in {"w_in", "w_hw2", "m_in", "m_hwi"} => me.spIn \in Inputs
  /\ me.pc \in {"r_out", "r_in2", "r_hw2", "m_out", "m_hwo"}
       => me.spOut \in Outputs

ControlInv ==
  \A t \in Threads : Control(t, th[t], hw.mOutput, owner[HW] = t)

-------------------------------------------------------------------------------
(* Mutexes *)

WaitsForHw == {"s_hw", "d_hw", "w_hw", "w_hw2", "r_hw", "r_hw2", "m_hw", "m_hwo",
               "m_hwi"}

(* The mutex thread t is waiting for. *)
Wants(t) ==
  LET me == th[t]
  IN  CASE me.pc \in WaitsForHw          -> HW
        [] me.pc = "w_out"               -> hw.mOutput
        [] me.pc \in {"r_in", "r_in2"}   -> t
        [] me.pc \in {"w_in", "m_in"}    -> me.spIn
        [] me.pc \in {"r_out", "m_out"}  -> me.spOut
        [] me.pc \in {"s_lock", "d_in"}  -> me.target
        [] me.pc = "d_out"               -> me.dOut
        [] OTHER                         -> NULL

Rank(l) == IF l = HW THEN 3 ELSE IF l \in Inputs THEN 2 ELSE 1

(* "Mutex acquisition order is always out -> in -> hw" (AudioHardware.cpp,  *)
(* before every loop that locks): a thread that waits for a mutex holds     *)
(* none of the same or of a later rank, so it never waits for itself and    *)
(* the waiting threads form no cycle.                                       *)
LockOrder ==
  \A t \in Threads, l \in Locks :
    owner[l] = t /\ Wants(t) # NULL => Rank(l) < Rank(Wants(t))

(* A thread that waits for a mutex that is held. *)
Blocked(t) == Wants(t) # NULL /\ owner[Wants(t)] # NULL

(* No deadlock: whenever a thread is blocked, one of those that hold a      *)
(* mutex is not.                                                            *)
HolderRuns ==
  \A t \in Threads :
    Blocked(t) => \E u \in Threads : ~Blocked(u) /\ \E l \in Locks : owner[l] = u

-------------------------------------------------------------------------------
(* The reference counts of the playback PCM and of the mixer *)

(* setMode() holds one reference to each while mInCallAudioMode is set; on  *)
(* leaving the call it has given them back before it clears the flag.       *)
InCallUser == IF hw.mInCallAudioMode /\ th[Ctl].resume # "m_leave"
              THEN {HW} ELSE {}

PcmUsers   == {o \in Outputs : hw.pcm[o]} \union InCallUser
MixerUsers == {s \in Streams : hw.mixer[s]} \union InCallUser

(* The counts are exactly the users, through every close and reopen that    *)
(* write(), read(), setMode() and standby() make of each other's streams,   *)
(* and the handle exists while there is a user: no close hits a device in   *)
(* use, none is left open (as long as the driver refuses no open).          *)
RefCounts ==
  /\ hw.mPcmOpenCnt = Cardinality(PcmUsers) /\ (hw.mPcm <=> PcmUsers # {})
  /\ hw.mMixerOpenCnt = Cardinality(MixerUsers) /\ (hw.mMixer <=> MixerUsers # {})

(* Even when the driver refuses opens, neither device is kept open with no  *)
(* user left.                                                               *)
NoDeviceLeak ==
  /\ hw.mPcmOpenCnt <= Cardinality(PcmUsers)
  /\ hw.mMixerOpenCnt <= Cardinality(MixerUsers)

(* The handle a thread hands to pcm_write() or pcm_read() is open, although *)
(* other threads close and reopen the stream while it is between calls.     *)
IoOnOpenPcm ==
  /\ At(Playback, "w_pcm") => hw.pcm[hw.mOutput] /\ hw.mPcm
  /\ \A i \in Inputs : At(i, "r_pcm") => hw.pcm[i]

-------------------------------------------------------------------------------
(* Standby *)

(* The playback wake lock is held exactly while the output plays, or while  *)
(* write() is bringing it up.                                               *)
WakeLockWhilePlaying ==
  hw.wakeLock <=> \/ \E o \in Outputs : ~hw.standby[o]
                  \/ th[Playback].pc \in {"w_in", "w_hw2"}

(* Whenever the hardware mutex is free, a stream has its PCM open exactly   *)
(* when it is not in standby, whichever thread opened or closed it last and *)
(* whatever failed.                                                         *)
StandbyClosed == \A s \in Streams : hw.standby[s] <=> ~hw.pcm[s]

(* "as only one input can be in this state" (getActiveInput_l): at most one *)
(* input is out of standby.                                                 *)
OneActiveInput == \A i, j \in Inputs : ~hw.standby[i] /\ ~hw.standby[j] => i = j

(* "spOut is not 0 here only if the output is active", "spIn is not 0 here  *)
(* only if the input is active" (setMode): the output it has locked stays   *)
(* active while it gives up the hardware mutex to lock the input.           *)
LockedStaysActive ==
  /\ th[Ctl].pc \in {"m_in", "m_hwi"} /\ th[Ctl].spOut # NULL
       => /\ owner[th[Ctl].spOut] = Ctl
          /\ th[Ctl].spOut = hw.mOutput
          /\ ~hw.standby[hw.mOutput]

(* What read(), write() and setMode() do to a stream of another thread they *)
(* do with the mutex of that stream held: standby state, driver handles and *)
(* the echo reference of an output never change while it is unlocked.       *)
StreamFieldsGuarded ==
  [][\A s \in Streams :
       \/ owner[s] # NULL
       \/ /\ hw'.standby[s] = hw.standby[s]
          /\ hw'.pcm[s] = hw.pcm[s]
          /\ hw'.mixer[s] = hw.mixer[s]
          /\ s \in Outputs => hw'.echo[s] = hw.echo[s]]_vars

-------------------------------------------------------------------------------
(* Echo references *)

(* The echo reference that a read() or a write() uses has not been released *)
(* under it.  This is about one input: getEchoReference() for a second one  *)
(* releases the reference that a first one still reads with.                *)
EchoNotReleased ==
  /\ At(Playback, "w_pcm") => hw.echo[hw.mOutput] \in {NULL, hw.mEchoReference}
  /\ \A i \in Inputs :
       At(i, "r_pcm") => hw.echo[i] \in {NULL, hw.mEchoReference}

-------------------------------------------------------------------------------
(* Progress *)

(* Every read() and standby() of a capture thread returns: the loop that    *)
(* locks the output ends, and nobody keeps a mutex it needs.                *)
CaptureReturns == \A i \in Inputs : ~At(i, "idle") ~> At(i, "idle")

(* Every write() and standby() of the playback thread returns: the loop     *)
(* that locks the active input ends, although captures start and stop.      *)
PlaybackReturns == ~At(Playback, "idle") ~> At(Playback, "idle")

(* Every setMode() returns, although streams keep going out of standby:     *)
(* both of its loops end, unless clients call standby() for ever, which     *)
(* bumps mStandbyCnt and makes the search for an active stream start over.  *)
StandbyCalled ==
  \E t \in Threads : th[t].pc \in {"s_lock", "s_hw", "s_end"}
ControlReturns ==
  <>[]~StandbyCalled => (~At(Ctl, "idle") ~> At(Ctl, "idle"))

(* Every call of the three kinds of threads returns, although each of them  *)
(* closes and reopens the streams of the others under mutexes that are not  *)
(* fair.                                                                    *)
CallsReturn == CaptureReturns /\ PlaybackReturns /\ ControlReturns
===============================================================================
