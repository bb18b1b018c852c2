------------------------------ MODULE AudioState ------------------------------
(***************************************************************************)
(* The state the audio HAL keeps under AudioHardware::mLock, and the "_l"  *)
(* helpers of libaudio/AudioHardware.cpp that change it, as operators on a *)
(* record: a helper takes the record before the call and returns the one   *)
(* after it, so a caller composes helpers in the order the code calls      *)
(* them.  Routes, input sources, volumes and sample data are left out.     *)
(***************************************************************************)
EXTENDS Naturals, FiniteSets

CONSTANTS Outputs,   \* AudioStreamOutALSA objects
          Inputs,    \* AudioStreamInALSA objects
          EchoIds,   \* echo_reference_itfe objects
          NULL

Streams == Outputs \union Inputs

ASSUME StreamAssumption ==
  /\ IsFiniteSet(Outputs) /\ IsFiniteSet(Inputs)
  /\ Outputs \intersect Inputs = {}
  /\ NULL \notin Streams \union EchoIds

(* There is always an address for one more echo reference. *)
ASSUME EchoAssumption ==
  IsFiniteSet(EchoIds) /\ Cardinality(EchoIds) > Cardinality(Streams) + 1

Modes == {"normal", "ringtone", "in_call"}

(***************************************************************************)
(* mPcm, mMixer: the handle of the shared driver is not NULL.  standby,    *)
(* pcm, mixer, echo: mStandby, mPcm # NULL, mMixer # NULL, mEchoReference  *)
(* of each stream.  needEcho: mNeedEchoReference of the inputs.  current:  *)
(* the stream whose mStandbyCnt a thread has read with prepareLock() and   *)
(* that has not been incremented since.  The counter is only ever compared *)
(* for equality with such a copy, so this is all of it that is observed.   *)
(***************************************************************************)
HwRecords(Threads) ==
  [mOutput : Outputs \union {NULL}, mInputs : SUBSET Inputs,
   mMode : Modes, mInCallAudioMode : BOOLEAN,
   mPcm : BOOLEAN, mPcmOpenCnt : Nat, mMixer : BOOLEAN, mMixerOpenCnt : Nat,
   mEchoReference : EchoIds \union {NULL}, wakeLock : BOOLEAN,
   standby : [Streams -> BOOLEAN], pcm : [Streams -> BOOLEAN],
   mixer : [Streams -> BOOLEAN], echo : [Streams -> EchoIds \union {NULL}],
   needEcho : [Inputs -> BOOLEAN],
   current : [Threads -> Streams \union {NULL}]]

HwInit(Threads) ==
  [mOutput |-> NULL, mInputs |-> {}, mMode |-> "normal",
   mInCallAudioMode |-> FALSE,
   mPcm |-> FALSE, mPcmOpenCnt |-> 0, mMixer |-> FALSE, mMixerOpenCnt |-> 0,
   mEchoReference |-> NULL, wakeLock |-> FALSE,
   standby |-> [s \in Streams |-> TRUE], pcm |-> [s \in Streams |-> FALSE],
   mixer |-> [s \in Streams |-> FALSE], echo |-> [s \in Streams |-> NULL],
   needEcho |-> [i \in Inputs |-> FALSE],
   current |-> [t \in Threads |-> NULL]]

(* Operators whose name ends in _Bug are versions of the one below them with *)
(* a plausible mistake; nothing uses them, they show that a property can     *)
(* fail.                                                                     *)

-------------------------------------------------------------------------------
(* The reference-counted playback PCM and mixer.  ok is the driver's answer. *)
(* What they return is the handle after the call, NULL for a handle that     *)
(* nobody counts.                                                            *)

openPcmOut_l_Bug(h, ok) ==   \* the count is not taken back when the open fails
  [h EXCEPT !.mPcmOpenCnt = @ + 1, !.mPcm = @ \/ ok]

openPcmOut_l(h, ok) ==
  IF h.mPcmOpenCnt > 0 THEN [h EXCEPT !.mPcmOpenCnt = @ + 1]
  ELSE IF h.mPcm \/ ~ok THEN h
  ELSE [h EXCEPT !.mPcmOpenCnt = 1, !.mPcm = TRUE]

closePcmOut_l_Bug(h) ==      \* no test for a count of zero
  [h EXCEPT !.mPcmOpenCnt = @ - 1, !.mPcm = @ /\ h.mPcmOpenCnt > 1]

closePcmOut_l(h) ==
  IF h.mPcmOpenCnt = 0 THEN h
  ELSE [h EXCEPT !.mPcmOpenCnt = @ - 1, !.mPcm = @ /\ h.mPcmOpenCnt > 1]

openMixer_l(h, ok) ==
  IF h.mMixerOpenCnt > 0 THEN [h EXCEPT !.mMixerOpenCnt = @ + 1]
  ELSE IF h.mMixer \/ ~ok THEN h
  ELSE [h EXCEPT !.mMixerOpenCnt = 1, !.mMixer = TRUE]

closeMixer_l(h) ==
  IF h.mMixerOpenCnt = 0 THEN h
  ELSE [h EXCEPT !.mMixerOpenCnt = @ - 1, !.mMixer = @ /\ h.mMixerOpenCnt > 1]

StreamCloseMixer_Bug(h, s) ==   \* mMixer = NULL is forgotten
  IF h.mixer[s] THEN closeMixer_l(h) ELSE h

StreamCloseMixer(h, s) ==
  IF h.mixer[s] THEN [closeMixer_l(h) EXCEPT !.mixer[s] = FALSE] ELSE h

(* Called only after a successful open of the stream's PCM: the mixer is    *)
(* optional.                                                                *)
StreamOpenMixer(h, s, ok) ==
  LET g == openMixer_l(h, ok)
  IN  [g EXCEPT !.mixer[s] = g.mMixer /\ (h.mMixer => h.mMixerOpenCnt > 0)]

-------------------------------------------------------------------------------
(* AudioStreamOutALSA *)

OutClose(h, o) ==
  LET g == StreamCloseMixer(h, o)
  IN  IF g.pcm[o] THEN [closePcmOut_l(g) EXCEPT !.pcm[o] = FALSE] ELSE g

OutOpen(h, o, pcmOk, mixerOk) ==
  LET g == openPcmOut_l(h, pcmOk)
  IN  IF g.mPcm /\ (h.mPcm => h.mPcmOpenCnt > 0)
      THEN StreamOpenMixer([g EXCEPT !.pcm[o] = TRUE], o, mixerOk)
      ELSE [g EXCEPT !.pcm[o] = FALSE]

(* mStandbyCnt++: every copy of the counter taken before is out of date. *)
CountStandby(h, s) ==
  [h EXCEPT !.current = [t \in DOMAIN @ |-> IF @[t] = s THEN NULL ELSE @[t]]]

OutDoStandby_Bug(h, o) ==   \* the wake lock is not released
  OutClose([CountStandby(h, o) EXCEPT !.standby[o] = TRUE], o)

OutDoStandby(h, o) ==
  OutClose([CountStandby(h, o) EXCEPT
              !.wakeLock = @ /\ h.standby[o], !.standby[o] = TRUE], o)

-------------------------------------------------------------------------------
(* AudioStreamInALSA *)

(* The first input found not in standby. *)
ActiveInputs(h) == {i \in h.mInputs : ~h.standby[i]}

getActiveInput_l(h) ==
  IF ActiveInputs(h) = {} THEN NULL ELSE CHOOSE i \in ActiveInputs(h) : TRUE

InClose(h, i) == [StreamCloseMixer(h, i) EXCEPT !.pcm[i] = FALSE]

(* The capture device is exclusive: the driver refuses a second open of it. *)
CaptureBusy(h) == \E i \in Inputs : h.pcm[i]

InOpen(h, i, pcmOk, mixerOk) ==
  IF pcmOk /\ ~CaptureBusy([h EXCEPT !.pcm[i] = FALSE])
  THEN StreamOpenMixer([h EXCEPT !.pcm[i] = TRUE], i, mixerOk)
  ELSE [h EXCEPT !.pcm[i] = FALSE]

(* doStandby_l() of an input has to give up the locks and wait for the      *)
(* output's lock when there is an echo reference to release ...             *)
NeedsOutputLock(h, i) ==
  ~h.standby[i] /\ h.echo[i] # NULL /\ h.mOutput # NULL

(* ... and this is the rest of it. *)
InFinishStandby(h, i) ==
  InClose([h EXCEPT !.echo[i] = IF h.standby[i] THEN @ ELSE NULL,
                    !.standby[i] = TRUE], i)

-------------------------------------------------------------------------------
(* Echo references *)

removeEchoReference_Bug(h, o, e) == h   \* the output keeps its pointer

removeEchoReference(h, o, e) ==
  IF h.echo[o] = e THEN [h EXCEPT !.echo[o] = NULL] ELSE h

releaseEchoReference(h, e) ==
  IF h.mEchoReference = NULL \/ e # h.mEchoReference THEN h
  ELSE LET g == IF h.mOutput = NULL THEN h
                ELSE removeEchoReference(h, h.mOutput, e)
       IN  [g EXCEPT !.mEchoReference = NULL]

(* A new object: none that a pointer still names. *)
FreshEcho(h) ==
  CHOOSE e \in EchoIds : e # h.mEchoReference /\ \A s \in Streams : h.echo[s] # e

addEchoReference(h, o, e) ==
  IF h.echo[o] = NULL THEN [h EXCEPT !.echo[o] = e] ELSE h

(* The reference before is gone also when no other can be created.          *)
getEchoReference(h, i, ok) ==
  LET g == releaseEchoReference(h, h.mEchoReference)
      e == FreshEcho(g)
      k == IF g.mOutput = NULL \/ ~ok THEN g
           ELSE addEchoReference([g EXCEPT !.mEchoReference = e], g.mOutput, e)
  IN  [k EXCEPT !.echo[i] = k.mEchoReference]
===============================================================================
