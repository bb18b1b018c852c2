------------------------------ MODULE AudioProofs ------------------------------
(***************************************************************************)
(* The type invariant of AudioHardware holds for any number of streams.     *)
(* First the helpers of AudioState: they keep the record typed and leave    *)
(* the open streams alone.  TypeOK is not inductive by itself: that         *)
(* doStandby_l() only follows a pointer that is not NULL, and that only the *)
(* owner gives the hardware mutex back, is said by Control.                 *)
(***************************************************************************)
EXTENDS AudioProps, FiniteSetTheorems, TLAPS

Hw == HwRecords(Threads)

(* No stream is opened or closed between h and g. *)
SameStreams(g, h) == g.mOutput = h.mOutput /\ g.mInputs = h.mInputs

-------------------------------------------------------------------------------
(* Type lemmas: each helper maps a hardware record to a hardware record. *)

(* Setting the count and the handle of the PCM keeps the record typed. *)
LEMMA SetPcm ==
  ASSUME NEW h \in Hw, NEW n \in Nat, NEW b \in BOOLEAN
  PROVE  [h EXCEPT !.mPcmOpenCnt = n, !.mPcm = b] \in Hw
BY DEF Hw, HwRecords

(* Setting the count and the handle of the mixer keeps it typed. *)
LEMMA SetMixer ==
  ASSUME NEW h \in Hw, NEW n \in Nat, NEW b \in BOOLEAN
  PROVE  [h EXCEPT !.mMixerOpenCnt = n, !.mMixer = b] \in Hw
BY DEF Hw, HwRecords

(* Setting one field of one stream keeps it typed. *)
LEMMA SetStream ==
  ASSUME NEW h \in Hw, NEW s, NEW b \in BOOLEAN
  PROVE  /\ [h EXCEPT !.pcm[s] = b] \in Hw
         /\ [h EXCEPT !.mixer[s] = b] \in Hw
         /\ [h EXCEPT !.standby[s] = b] \in Hw
BY DEF Hw, HwRecords

(* Setting an echo reference keeps it typed. *)
LEMMA SetEcho ==
  ASSUME NEW h \in Hw, NEW s, NEW e \in EchoIds \union {NULL}
  PROVE  /\ [h EXCEPT !.echo[s] = e] \in Hw
         /\ [h EXCEPT !.mEchoReference = e] \in Hw
BY DEF Hw, HwRecords

(* openPcmOut_l() keeps the record typed. *)
LEMMA OpenPcmType ==
  ASSUME NEW h \in Hw, NEW ok \in BOOLEAN
  PROVE  openPcmOut_l(h, ok) \in Hw
<1>1. h.mPcmOpenCnt \in Nat /\ h.mPcm \in BOOLEAN
  BY DEF Hw, HwRecords
<1>2. CASE h.mPcmOpenCnt > 0
  <2>1. [h EXCEPT !.mPcmOpenCnt = @ + 1] \in Hw
    BY <1>1 DEF Hw, HwRecords
  <2> QED BY <1>2, <2>1 DEF openPcmOut_l
<1>3. CASE ~(h.mPcmOpenCnt > 0)
  BY <1>3, SetPcm DEF openPcmOut_l
<1> QED BY <1>2, <1>3

(* closePcmOut_l() does; in particular the count stays a natural number. *)
LEMMA ClosePcmType ==
  ASSUME NEW h \in Hw
  PROVE  closePcmOut_l(h) \in Hw
<1>1. h.mPcmOpenCnt \in Nat
  BY DEF Hw, HwRecords
<1>2. CASE h.mPcmOpenCnt = 0
  BY <1>2 DEF closePcmOut_l
<1>3. CASE h.mPcmOpenCnt # 0
  <2>1. h.mPcmOpenCnt - 1 \in Nat
    BY <1>1, <1>3
  <2>2. (h.mPcm /\ h.mPcmOpenCnt > 1) \in BOOLEAN
    OBVIOUS
  <2> QED BY <1>3, <2>1, <2>2, SetPcm DEF closePcmOut_l
<1> QED BY <1>2, <1>3

(* openMixer_l() keeps the record typed. *)
LEMMA OpenMixerType ==
  ASSUME NEW h \in Hw, NEW ok \in BOOLEAN
  PROVE  openMixer_l(h, ok) \in Hw
<1>1. h.mMixerOpenCnt \in Nat /\ h.mMixer \in BOOLEAN
  BY DEF Hw, HwRecords
<1>2. CASE h.mMixerOpenCnt > 0
  <2>1. [h EXCEPT !.mMixerOpenCnt = @ + 1] \in Hw
    BY <1>1 DEF Hw, HwRecords
  <2> QED BY <1>2, <2>1 DEF openMixer_l
<1>3. CASE ~(h.mMixerOpenCnt > 0)
  BY <1>3, SetMixer DEF openMixer_l
<1> QED BY <1>2, <1>3

(* closeMixer_l() does; in particular the count stays a natural number. *)
LEMMA CloseMixerType ==
  ASSUME NEW h \in Hw
  PROVE  closeMixer_l(h) \in Hw
<1>1. h.mMixerOpenCnt \in Nat
  BY DEF Hw, HwRecords
<1>2. CASE h.mMixerOpenCnt = 0
  BY <1>2 DEF closeMixer_l
<1>3. CASE h.mMixerOpenCnt # 0
  <2>1. h.mMixerOpenCnt - 1 \in Nat
    BY <1>1, <1>3
  <2>2. (h.mMixer /\ h.mMixerOpenCnt > 1) \in BOOLEAN
    OBVIOUS
  <2> QED BY <1>3, <2>1, <2>2, SetMixer DEF closeMixer_l
<1> QED BY <1>2, <1>3

(* Opening and closing the mixer for a stream keeps the record typed. *)
LEMMA StreamMixerType ==
  ASSUME NEW h \in Hw, NEW s, NEW ok \in BOOLEAN
  PROVE  /\ StreamCloseMixer(h, s) \in Hw
         /\ StreamOpenMixer(h, s, ok) \in Hw
<1>1. closeMixer_l(h) \in Hw /\ openMixer_l(h, ok) \in Hw
  BY CloseMixerType, OpenMixerType
<1>2. StreamCloseMixer(h, s) \in Hw
  BY <1>1, SetStream DEF StreamCloseMixer
<1>3. StreamOpenMixer(h, s, ok) \in Hw
  <2> DEFINE g == openMixer_l(h, ok)
  <2>1. (g.mMixer /\ (h.mMixer => h.mMixerOpenCnt > 0)) \in BOOLEAN
    OBVIOUS
  <2> QED BY <1>1, <2>1, SetStream DEF StreamOpenMixer
<1> QED BY <1>2, <1>3

(* close_l() and open_l() of an output keep the record typed. *)
LEMMA OutType ==
  ASSUME NEW h \in Hw, NEW o, NEW pcmOk \in BOOLEAN, NEW mixOk \in BOOLEAN
  PROVE  OutClose(h, o) \in Hw /\ OutOpen(h, o, pcmOk, mixOk) \in Hw
<1>1. OutClose(h, o) \in Hw
  <2> DEFINE g == StreamCloseMixer(h, o)
  <2>1. g \in Hw
    BY StreamMixerType
  <2>2. closePcmOut_l(g) \in Hw
    BY <2>1, ClosePcmType
  <2> HIDE DEF g
  <2>3. [closePcmOut_l(g) EXCEPT !.pcm[o] = FALSE] \in Hw
    BY <2>2, SetStream
  <2> QED BY <2>1, <2>3 DEF OutClose, g
<1>2. OutOpen(h, o, pcmOk, mixOk) \in Hw
  <2> DEFINE g == openPcmOut_l(h, pcmOk)
  <2>1. g \in Hw
    BY OpenPcmType
  <2> HIDE DEF g
  <2>2. [g EXCEPT !.pcm[o] = TRUE] \in Hw /\ [g EXCEPT !.pcm[o] = FALSE] \in Hw
    BY <2>1, SetStream
  <2>3. StreamOpenMixer([g EXCEPT !.pcm[o] = TRUE], o, mixOk) \in Hw
    BY <2>2, StreamMixerType
  <2> QED BY <2>2, <2>3 DEF OutOpen, g
<1> QED BY <1>1, <1>2

(* Counting a standby keeps the record typed. *)
LEMMA CountType ==
  ASSUME NEW h \in Hw, NEW s
  PROVE  CountStandby(h, s) \in Hw
BY DEF CountStandby, Hw, HwRecords

(* doStandby_l() of an output keeps the record typed. *)
LEMMA OutDoStandbyType ==
  ASSUME NEW h \in Hw, NEW o \in Outputs
  PROVE  OutDoStandby(h, o) \in Hw
<1> DEFINE g == CountStandby(h, o)
<1>1. g \in Hw
  BY CountType
<1>2. (g.wakeLock /\ h.standby[o]) \in BOOLEAN
  OBVIOUS
<1> HIDE DEF g
<1>3. [g EXCEPT !.wakeLock = g.wakeLock /\ h.standby[o], !.standby[o] = TRUE]
        \in Hw
  BY <1>1, <1>2 DEF Hw, HwRecords
<1> QED BY <1>3, OutType DEF OutDoStandby, g

(* close_l(), open_l() and the end of doStandby_l() of an input do. *)
LEMMA InType ==
  ASSUME NEW h \in Hw, NEW i, NEW pcmOk \in BOOLEAN, NEW mixOk \in BOOLEAN
  PROVE  /\ InClose(h, i) \in Hw
         /\ InOpen(h, i, pcmOk, mixOk) \in Hw
         /\ InFinishStandby(h, i) \in Hw
         /\ InDoStandby(h, i) \in Hw
<1>1. \A k \in Hw : InClose(k, i) \in Hw
  BY StreamMixerType, SetStream DEF InClose
<1>2. InOpen(h, i, pcmOk, mixOk) \in Hw
  <2>1. [h EXCEPT !.pcm[i] = TRUE] \in Hw /\ [h EXCEPT !.pcm[i] = FALSE] \in Hw
    BY SetStream
  <2>2. StreamOpenMixer([h EXCEPT !.pcm[i] = TRUE], i, mixOk) \in Hw
    BY <2>1, StreamMixerType
  <2> QED BY <2>1, <2>2 DEF InOpen
<1>3. \A k \in Hw : InFinishStandby(k, i) \in Hw
  <2> SUFFICES ASSUME NEW k \in Hw
               PROVE  InFinishStandby(k, i) \in Hw
    OBVIOUS
  <2> DEFINE g == [k EXCEPT !.echo[i] = IF k.standby[i] THEN @ ELSE NULL,
                            !.standby[i] = TRUE]
  <2>1. g \in Hw
    BY DEF Hw, HwRecords
  <2> QED BY <1>1, <2>1 DEF InFinishStandby
<1> QED BY <1>1, <1>2, <1>3, CountType DEF InDoStandby

-------------------------------------------------------------------------------
(* Frame lemmas: no helper opens or closes a stream. *)

(* Opening the PCM device leaves the open streams alone. *)
LEMMA PcmFrame ==
  ASSUME NEW h \in Hw, NEW ok \in BOOLEAN
  PROVE  SameStreams(openPcmOut_l(h, ok), h)
<1> DEFINE n == h.mPcmOpenCnt + 1
<1> HIDE DEF n
<1>1. ASSUME NEW m
      PROVE  /\ SameStreams([h EXCEPT !.mPcmOpenCnt = m], h)
             /\ SameStreams([h EXCEPT !.mPcmOpenCnt = m, !.mPcm = TRUE], h)
  BY DEF SameStreams, Hw, HwRecords
<1>2. /\ SameStreams(h, h)
      /\ SameStreams([h EXCEPT !.mPcmOpenCnt = n], h)
      /\ SameStreams([h EXCEPT !.mPcmOpenCnt = 1, !.mPcm = TRUE], h)
  BY <1>1 DEF SameStreams
<1> QED BY <1>2 DEF openPcmOut_l, n

(* Opening and closing the mixer leaves the open streams alone. *)
LEMMA MixerFrame ==
  ASSUME NEW h \in Hw, NEW s, NEW ok \in BOOLEAN
  PROVE  /\ SameStreams(closeMixer_l(h), h)
         /\ SameStreams(openMixer_l(h, ok), h)
         /\ SameStreams(StreamCloseMixer(h, s), h)
         /\ SameStreams(StreamOpenMixer(h, s, ok), h)
<1>1. SameStreams(closeMixer_l(h), h) /\ SameStreams(openMixer_l(h, ok), h)
  BY DEF SameStreams, closeMixer_l, openMixer_l, Hw, HwRecords
<1>2. closeMixer_l(h) \in Hw /\ openMixer_l(h, ok) \in Hw
  BY CloseMixerType, OpenMixerType
<1>3. SameStreams(StreamCloseMixer(h, s), h)
  BY <1>1, <1>2 DEF SameStreams, StreamCloseMixer, Hw, HwRecords
<1>4. SameStreams(StreamOpenMixer(h, s, ok), h)
  BY <1>1, <1>2 DEF SameStreams, StreamOpenMixer, Hw, HwRecords
<1> QED BY <1>1, <1>3, <1>4

(* So do close_l() and open_l() of an output. *)
LEMMA OutFrame ==
  ASSUME NEW h \in Hw, NEW o, NEW pcmOk \in BOOLEAN, NEW mixOk \in BOOLEAN
  PROVE  /\ SameStreams(OutClose(h, o), h)
         /\ SameStreams(OutOpen(h, o, pcmOk, mixOk), h)
<1>1. \A k \in Hw : SameStreams(closePcmOut_l(k), k) /\ closePcmOut_l(k) \in Hw
  BY ClosePcmType, ZenonT(40) DEF SameStreams, closePcmOut_l, Hw, HwRecords
<1>2. SameStreams(openPcmOut_l(h, pcmOk), h) /\ openPcmOut_l(h, pcmOk) \in Hw
  BY OpenPcmType, PcmFrame
<1>3. SameStreams(OutClose(h, o), h)
  <2> DEFINE g == StreamCloseMixer(h, o)
  <2>1. g \in Hw /\ SameStreams(g, h)
    BY MixerFrame, StreamMixerType
  <2> HIDE DEF g
  <2>2. SameStreams([closePcmOut_l(g) EXCEPT !.pcm[o] = FALSE], g)
    BY <1>1, <2>1 DEF SameStreams, Hw, HwRecords
  <2> QED BY <2>1, <2>2 DEF SameStreams, OutClose, g
<1>4. SameStreams(OutOpen(h, o, pcmOk, mixOk), h)
  <2> DEFINE g == openPcmOut_l(h, pcmOk)
             k == [g EXCEPT !.pcm[o] = TRUE]
  <2>1. g \in Hw /\ SameStreams(g, h)
    BY <1>2
  <2> HIDE DEF g
  <2>2. SameStreams([g EXCEPT !.pcm[o] = FALSE], g) /\ SameStreams(k, g)
    BY <2>1 DEF SameStreams, Hw, HwRecords
  <2>3. k \in Hw
    BY <2>1, SetStream
  <2> HIDE DEF k
  <2>4. SameStreams(StreamOpenMixer(k, o, mixOk), k)
    BY <2>3, MixerFrame
  <2> QED BY <2>1, <2>2, <2>4 DEF SameStreams, OutOpen, g, k
<1> QED BY <1>3, <1>4

(* So does doStandby_l() of an output. *)
LEMMA OutDoStandbyFrame ==
  ASSUME NEW h \in Hw, NEW o \in Outputs
  PROVE  SameStreams(OutDoStandby(h, o), h)
<1> DEFINE g == CountStandby(h, o)
           k == [g EXCEPT !.wakeLock = g.wakeLock /\ h.standby[o],
                          !.standby[o] = TRUE]
<1>1. g \in Hw /\ SameStreams(g, h)
  BY CountType DEF SameStreams, CountStandby, Hw, HwRecords
<1>2. (g.wakeLock /\ h.standby[o]) \in BOOLEAN
  OBVIOUS
<1> HIDE DEF g
<1>3. k \in Hw /\ SameStreams(k, g)
  BY <1>1, <1>2 DEF SameStreams, Hw, HwRecords
<1> HIDE DEF k
<1>4. SameStreams(OutClose(k, o), k)
  BY <1>3, OutFrame
<1> QED BY <1>1, <1>3, <1>4 DEF SameStreams, OutDoStandby, g, k

(* So do close_l(), open_l() and the end of doStandby_l() of an input. *)
LEMMA InFrame ==
  ASSUME NEW h \in Hw, NEW i, NEW pcmOk \in BOOLEAN, NEW mixOk \in BOOLEAN
  PROVE  /\ SameStreams(InClose(h, i), h)
         /\ SameStreams(InOpen(h, i, pcmOk, mixOk), h)
         /\ SameStreams(InFinishStandby(h, i), h)
         /\ SameStreams(InDoStandby(h, i), h)
<1>1. \A k \in Hw : SameStreams(InClose(k, i), k)
  <2> SUFFICES ASSUME NEW k \in Hw
               PROVE  SameStreams(InClose(k, i), k)
    OBVIOUS
  <2> DEFINE g == StreamCloseMixer(k, i)
  <2>1. g \in Hw /\ SameStreams(g, k)
    BY MixerFrame, StreamMixerType
  <2> HIDE DEF g
  <2>2. SameStreams([g EXCEPT !.pcm[i] = FALSE], g)
    BY <2>1 DEF SameStreams, Hw, HwRecords
  <2> QED BY <2>1, <2>2 DEF SameStreams, InClose, g
<1>2. SameStreams(InOpen(h, i, pcmOk, mixOk), h)
  <2> DEFINE k == [h EXCEPT !.pcm[i] = TRUE]
  <2>1. k \in Hw /\ SameStreams(k, h)
    BY SetStream DEF SameStreams, Hw, HwRecords
  <2>2. SameStreams([h EXCEPT !.pcm[i] = FALSE], h)
    BY DEF SameStreams, Hw, HwRecords
  <2> HIDE DEF k
  <2>3. SameStreams(StreamOpenMixer(k, i, mixOk), k)
    BY <2>1, MixerFrame
  <2> QED BY <2>1, <2>2, <2>3 DEF SameStreams, InOpen, k
<1>3. \A k \in Hw : SameStreams(InFinishStandby(k, i), k)
  <2> SUFFICES ASSUME NEW k \in Hw
               PROVE  SameStreams(InFinishStandby(k, i), k)
    OBVIOUS
  <2> DEFINE g == [k EXCEPT !.echo[i] = IF k.standby[i] THEN @ ELSE NULL,
                            !.standby[i] = TRUE]
  <2>1. g \in Hw /\ SameStreams(g, k)
    BY DEF SameStreams, Hw, HwRecords
  <2> HIDE DEF g
  <2>2. SameStreams(InClose(g, i), g)
    BY <1>1, <2>1
  <2> QED BY <2>1, <2>2 DEF SameStreams, InFinishStandby, g
<1>4. CountStandby(h, i) \in Hw /\ SameStreams(CountStandby(h, i), h)
  BY CountType DEF SameStreams, CountStandby, Hw, HwRecords
<1> QED BY <1>1, <1>2, <1>3, <1>4 DEF InDoStandby, SameStreams

-------------------------------------------------------------------------------
(* Echo references and the search for the active input. *)

(* The active input, if there is one, is an open input. *)
LEMMA ActiveInputType ==
  ASSUME NEW h \in Hw
  PROVE  /\ getActiveInput_l(h) \in Inputs \union {NULL}
         /\ getActiveInput_l(h) # NULL => getActiveInput_l(h) \in h.mInputs
<1>1. ActiveInputs(h) \subseteq h.mInputs /\ h.mInputs \subseteq Inputs
  BY DEF ActiveInputs, Hw, HwRecords
<1> QED BY <1>1 DEF getActiveInput_l

(* There is always an echo reference that no pointer names. *)
LEMMA FreshEchoExists ==
  ASSUME NEW h \in Hw
  PROVE  FreshEcho(h) \in EchoIds
<1> DEFINE S == Streams \union {HW}
           f == [s \in S |-> IF s = HW THEN h.mEchoReference ELSE h.echo[s]]
           T == {f[s] : s \in S}
<1>1. IsFiniteSet(Streams)
  BY StreamAssumption, FS_Union DEF Streams
<1>2. IsFiniteSet(S) /\ Cardinality(S) = Cardinality(Streams) + 1
  BY <1>1, ThreadAssumption, FS_AddElement
<1>3. f \in Surjection(S, T)
  BY DEF Surjection
<1>4. IsFiniteSet(T) /\ Cardinality(T) <= Cardinality(S)
  BY <1>2, <1>3, FS_Surjection
<1> HIDE DEF S, T
<1>5. ~(EchoIds \subseteq T)
  <2>1. Cardinality(EchoIds) \in Nat /\ Cardinality(T) \in Nat
        /\ Cardinality(Streams) \in Nat
    BY <1>1, <1>4, EchoAssumption, FS_CardinalityType
  <2>2. ASSUME EchoIds \subseteq T
        PROVE  Cardinality(EchoIds) <= Cardinality(T)
    BY <1>4, <2>2, FS_Subset
  <2> QED BY <1>2, <1>4, <2>1, <2>2, EchoAssumption
<1>6. PICK e \in EchoIds : e \notin T
  BY <1>5
<1>7. e # h.mEchoReference /\ \A s \in Streams : h.echo[s] # e
  BY <1>6, ThreadAssumption DEF S, T
<1> QED BY <1>7 DEF FreshEcho

(* Releasing an echo reference keeps it typed and its streams open. *)
LEMMA ReleaseEchoType ==
  ASSUME NEW h \in Hw, NEW e
  PROVE  /\ releaseEchoReference(h, e) \in Hw
         /\ SameStreams(releaseEchoReference(h, e), h)
<1> DEFINE g == IF h.mOutput = NULL THEN h
                ELSE removeEchoReference(h, h.mOutput, e)
<1>1. g \in Hw /\ SameStreams(g, h)
  BY DEF removeEchoReference, SameStreams, Hw, HwRecords
<1> HIDE DEF g
<1>2. [g EXCEPT !.mEchoReference = NULL] \in Hw
  BY <1>1, SetEcho
<1>3. SameStreams([g EXCEPT !.mEchoReference = NULL], g)
  BY <1>1 DEF SameStreams, Hw, HwRecords
<1>4. SameStreams(h, h)
  BY DEF SameStreams
<1> QED BY <1>1, <1>2, <1>3, <1>4 DEF SameStreams, releaseEchoReference, g

(* So does making a new echo reference. *)
LEMMA GetEchoType ==
  ASSUME NEW h \in Hw, NEW i, NEW ok
  PROVE  /\ getEchoReference(h, i, ok) \in Hw
         /\ SameStreams(getEchoReference(h, i, ok), h)
<1> DEFINE g == releaseEchoReference(h, h.mEchoReference)
           e == FreshEcho(g)
           m == [g EXCEPT !.mEchoReference = e]
           k == IF g.mOutput = NULL \/ ~ok THEN g ELSE addEchoReference(m, g.mOutput, e)
<1>1. g \in Hw /\ SameStreams(g, h)
  BY ReleaseEchoType
<1>2. e \in EchoIds
  BY <1>1, FreshEchoExists
<1> HIDE DEF g, e
<1>3. m \in Hw /\ SameStreams(m, g)
  BY <1>1, <1>2 DEF SameStreams, Hw, HwRecords
<1> HIDE DEF m
<1>4. k \in Hw /\ SameStreams(k, g)
  <2>1. /\ [m EXCEPT !.echo[g.mOutput] = e] \in Hw
        /\ SameStreams([m EXCEPT !.echo[g.mOutput] = e], m)
    BY <1>2, <1>3 DEF SameStreams, Hw, HwRecords
  <2>2. SameStreams(g, g)
    BY DEF SameStreams
  <2> QED BY <1>1, <1>3, <2>1, <2>2 DEF addEchoReference, SameStreams
<1> HIDE DEF k
<1>5. /\ [k EXCEPT !.echo[i] = k.mEchoReference] \in Hw
      /\ SameStreams([k EXCEPT !.echo[i] = k.mEchoReference], k)
  BY <1>4 DEF SameStreams, Hw, HwRecords
<1> QED BY <1>1, <1>4, <1>5 DEF SameStreams, getEchoReference, g, e, m, k

(* TypeInv without the part about alive, which no Step changes. *)
Good ==
  /\ hw \in Hw
  /\ owner \in [Locks -> Threads \union {NULL}]
  /\ th \in [Threads -> ThreadRecords]
  /\ ControlInv

TypeInv == TypeOK /\ ControlInv

(* The locals a thread ends a step with fit the state it leaves. *)
Fits(t, got, given, h, me) ==
  Control(t, me, h.mOutput, HW \in got \/ (HW \notin given /\ owner[HW] = t))

(* The hardware mutex is only touched by its owner or when it is free. *)
HwSafe(t, got, given) ==
  Free(HW) \/ owner[HW] = t \/ HW \notin got \union given

(* The locals of a thread between calls are of the right type. *)
LEMMA IdleType == IdleThread \in ThreadRecords /\ IdleThread.pc = "idle"
BY DEF IdleThread, ThreadRecords, Labels, Modes

(* Dropping a copy of a standby count keeps the hardware record typed. *)
LEMMA CurrentType ==
  ASSUME NEW h \in Hw, NEW t, NEW s \in Streams \union {NULL}
  PROVE  /\ [h EXCEPT !.current[t] = s] \in Hw
         /\ SameStreams([h EXCEPT !.current[t] = s], h)
BY DEF Hw, HwRecords, SameStreams

(* A step from a typed record to a typed record keeps everything typed. *)
LEMMA StepType ==
  ASSUME Good, NEW t \in Threads, NEW got, NEW given, NEW h \in Hw,
         NEW me \in ThreadRecords, Step(t, got, given, h, me)
  PROVE  /\ hw' \in Hw /\ SameStreams(hw', h)
         /\ owner' \in [Locks -> Threads \union {NULL}]
         /\ th' \in [Threads -> ThreadRecords]
         /\ th'[t] = IF me.pc = "idle" THEN IdleThread ELSE me
         /\ \A u \in Threads \ {t} : th'[u] = th[u]
         /\ \A l \in Locks : owner'[l] = IF l \in got THEN t
                                         ELSE IF l \in given THEN NULL
                                         ELSE owner[l]
<1>1. hw' \in Hw /\ SameStreams(hw', h)
  <2>1. SameStreams(h, h)
    BY DEF SameStreams
  <2> QED BY <2>1, CurrentType DEF Step
<1>2. owner' \in [Locks -> Threads \union {NULL}]
  BY DEF Good, Step
<1>3. th' \in [Threads -> ThreadRecords]
  BY IdleType DEF Good, Step
<1>4. th'[t] = IF me.pc = "idle" THEN IdleThread ELSE me
  BY DEF Good, Step
<1>5. \A u \in Threads \ {t} : th'[u] = th[u]
  BY DEF Good, Step
<1>6. \A l \in Locks : owner'[l] = IF l \in got THEN t
                                   ELSE IF l \in given THEN NULL ELSE owner[l]
  BY DEF Step
<1> QED BY <1>1, <1>2, <1>3, <1>4, <1>5, <1>6

(* The same for the whole invariant, from what the thread itself ends with. *)
LEMMA StepGood ==
  ASSUME Good, NEW t \in Threads, NEW got, NEW given, NEW h \in Hw,
         NEW me \in ThreadRecords, Step(t, got, given, h, me),
         HwSafe(t, got, given), Fits(t, got, given, h, me),
         SameStreams(h, hw) \/ h.mOutput = hw.mOutput \/ t = Playback
  PROVE  Good'
<1>0. /\ hw' \in Hw /\ SameStreams(hw', h)
      /\ owner' \in [Locks -> Threads \union {NULL}]
      /\ th' \in [Threads -> ThreadRecords]
      /\ th'[t] = IF me.pc = "idle" THEN IdleThread ELSE me
      /\ \A u \in Threads \ {t} : th'[u] = th[u]
      /\ \A l \in Locks : owner'[l] = IF l \in got THEN t
                                      ELSE IF l \in given THEN NULL
                                      ELSE owner[l]
  BY StepType
<1>1. HW \in Locks /\ NULL \notin Threads
  BY ThreadAssumption DEF Locks
<1>2. ASSUME NEW u \in Threads
      PROVE  Control(u, th'[u], hw'.mOutput, owner'[HW] = u)
  <2>1. CASE u = t
    <3>1. hw'.mOutput = h.mOutput
      BY <1>0 DEF SameStreams
    <3>2. (owner'[HW] = u) <=> (HW \in got \/ (HW \notin given /\ owner[HW] = t))
      BY <1>0, <1>1, <2>1
    <3>3. CASE me.pc = "idle"
      BY <1>0, <2>1, <3>3, IdleType DEF Control
    <3>4. CASE me.pc # "idle"
      <4>1. th'[t] = me
        BY <1>0, <3>4
      <4> QED BY <2>1, <3>1, <3>2, <4>1 DEF Fits, Control
    <3> QED BY <3>3, <3>4
  <2>2. CASE u # t
    <3>1. th'[u] = th[u] /\ Control(u, th[u], hw.mOutput, owner[HW] = u)
      BY <1>0, <2>2 DEF Good, ControlInv
    <3>2. owner[HW] = u => owner'[HW] = u
      BY <1>0, <1>1, <2>2 DEF HwSafe, Free
    <3>3. u = Playback => hw'.mOutput = hw.mOutput
      BY <1>0, <2>2 DEF SameStreams
    <3> QED BY <3>1, <3>2, <3>3 DEF Control
  <2> QED BY <2>1, <2>2
<1> QED BY <1>0, <1>2 DEF Good, ControlInv

-------------------------------------------------------------------------------
(* The locals that standby(), a destructor and doStandby_l() start with. *)

(* standby() of a stream can be called from any state of a thread. *)
LEMMA CallStandbyFits ==
  ASSUME NEW t, NEW got, NEW given, NEW h, NEW me \in ThreadRecords,
         NEW s \in Streams, NEW next \in SafeReturn
  PROVE  /\ CallStandby(me, s, next) \in ThreadRecords
         /\ Fits(t, got, given, h, CallStandby(me, s, next))
<1> DEFINE m == CallStandby(me, s, next)
<1>0. "s_lock" \in Labels /\ next \in Labels
  BY DEF Labels, SafeReturn
<1>1. m \in ThreadRecords
  BY <1>0 DEF CallStandby, ThreadRecords
<1>2. m.pc = "s_lock" /\ m.target = s /\ m.after = next
  BY DEF CallStandby, ThreadRecords
<1> HIDE DEF m
<1>3. Fits(t, got, given, h, m)
  BY <1>2 DEF Fits, Control
<1> QED BY <1>1, <1>3 DEF m

(* A destructor is run where the code goes on to a safe place, or with the  *)
(* hardware mutex held.                                                     *)
LEMMA DestructorFits ==
  ASSUME NEW t, NEW got, NEW given, NEW h, NEW me \in ThreadRecords,
         NEW s \in Streams, NEW next \in Labels,
         next \in SafeReturn \/ HW \in got
  PROVE  /\ Destructor(me, s, next) \in ThreadRecords
         /\ Fits(t, got, given, h, Destructor(me, s, next))
<1> DEFINE m == Destructor(me, s, next)
<1>0. "s_lock" \in Labels /\ next \in Labels
  BY DEF Labels, SafeReturn
<1>1. m \in ThreadRecords
  BY <1>0 DEF Destructor, ThreadRecords
<1>2. m.pc = "s_lock" /\ m.target = s /\ m.after = next
  BY DEF Destructor, ThreadRecords
<1> HIDE DEF m
<1>3. Fits(t, got, given, h, m)
  BY <1>2 DEF Fits, Control
<1> QED BY <1>1, <1>3 DEF m

(* doStandby_l() waits for an output that exists. *)
LEMMA WaitGood ==
  ASSUME Good, NEW t \in Threads, NEW given, NEW h \in Hw, SameStreams(h, hw),
         NEW i \in Inputs, NEW resume \in {"s_end", "w_fail", "m_enter", "m_leave"},
         NeedsOutputLock(h, i), HwSafe(t, {}, given),
         resume = "s_end" => th[t].after \in SafeReturn,
         WaitForOutput(t, given, h, i, resume)
  PROVE  Good'
<1> DEFINE me == [th[t] EXCEPT !.pc = "d_out", !.dOut = h.mOutput, !.target = i,
                               !.resume = resume]
           g  == CountStandby(h, i)
<1>1. th[t] \in ThreadRecords
  BY DEF Good
<1>2. h.mOutput \in Outputs
  BY DEF NeedsOutputLock, Hw, HwRecords
<1>3. me \in ThreadRecords
  <2>1. "d_out" \in Labels /\ i \in Streams
    BY DEF Labels, Streams
  <2> QED BY <1>1, <1>2, <2>1 DEF ThreadRecords
<1>4. Fits(t, {}, given \union {i}, g, me)
  <2>1. /\ me.pc = "d_out" /\ me.target = i /\ me.dOut = h.mOutput
        /\ me.resume = resume /\ me.after = th[t].after
    BY <1>1 DEF ThreadRecords
  <2> HIDE DEF me
  <2> QED BY <1>2, <2>1 DEF Fits, Control
<1>5. g \in Hw
  BY CountType
<1>6. SameStreams(g, hw)
  BY DEF CountStandby, SameStreams, Hw, HwRecords
<1>7. HwSafe(t, {}, given \union {i})
  BY ThreadAssumption DEF HwSafe, Streams
<1>8. Step(t, {}, given \union {i}, g, me)
  BY DEF WaitForOutput
<1> QED BY <1>3, <1>4, <1>5, <1>6, <1>7, <1>8, StepGood

-------------------------------------------------------------------------------
(* standby() and the destructors *)

(* Returning from standby() goes to where it was called. *)
LEMMA EndStandbyGood ==
  ASSUME Good, NEW t \in Threads, NEW h \in Hw, SameStreams(h, hw),
         Free(HW) \/ owner[HW] = t, th[t].after \in SafeReturn, EndStandby(t, h)
  PROVE  Good'
<1> DEFINE me == [th[t] EXCEPT !.pc = th[t].after, !.target = NULL, !.op = "none",
                               !.after = "idle", !.resume = "none"]
<1>1. th[t] \in ThreadRecords
  BY DEF Good
<1>2. me \in ThreadRecords
  <2>1. "idle" \in Labels
    BY DEF Labels
  <2> QED BY <1>1, <2>1 DEF ThreadRecords
<1>3. Fits(t, {}, {HW, th[t].target}, h, me)
  <2>1. me.pc \in SafeReturn
    BY <1>1 DEF ThreadRecords
  <2> HIDE DEF me
  <2> QED BY <2>1 DEF Fits, Control, SafeReturn
<1>4. HwSafe(t, {}, {HW, th[t].target})
  BY DEF HwSafe
<1>5. Step(t, {}, {HW, th[t].target}, h, me)
  BY DEF EndStandby
<1> QED BY <1>2, <1>3, <1>4, <1>5, StepGood

(* Every step of standby(), of its part that waits for the output, and of   *)
(* the destructors keeps the invariant.                                     *)
LEMMA StandbyGood ==
  ASSUME Good, NEW t \in Threads, StandbyStep(t)
  PROVE  Good'
<1> DEFINE s == th[t].target
<1>1. th[t] \in ThreadRecords /\ hw \in Hw /\ SameStreams(hw, hw)
  BY DEF Good, SameStreams
<1>2. Control(t, th[t], hw.mOutput, owner[HW] = t)
  BY DEF Good, ControlInv
<1>3. HW \notin Streams /\ NULL \notin Threads
  BY ThreadAssumption
<1>4. CASE StandbyLock(t)
  <2> DEFINE me == [th[t] EXCEPT !.pc = "s_hw"]
  <2>1. Step(t, {s}, {}, hw, me) /\ s \in Streams
    BY <1>2, <1>4 DEF StandbyLock, At, Control
  <2>2. me \in ThreadRecords
    BY <1>1 DEF ThreadRecords, Labels
  <2>3. Fits(t, {s}, {}, hw, me)
    BY <1>1, <1>2, <1>3, <1>4, <2>1 DEF Fits, Control, StandbyLock, At, ThreadRecords
  <2>4. HwSafe(t, {s}, {})
    BY <1>3, <2>1 DEF HwSafe
  <2> QED BY <1>1, <2>1, <2>2, <2>3, <2>4, StepGood
<1>5. CASE StandbyHw(t)
  <2>1. Free(HW) /\ s \in Streams /\ th[t].after \in SafeReturn
    BY <1>2, <1>3, <1>5 DEF StandbyHw, Control, At, Free
  <2>2. CASE EndStandby(t, hw)
    BY <1>1, <2>1, <2>2, EndStandbyGood
  <2>3. CASE s \in Outputs /\ EndStandby(t, OutDoStandby(hw, s))
    BY <1>1, <2>1, <2>3, OutDoStandbyType, OutDoStandbyFrame, EndStandbyGood
  <2>4. CASE /\ s \notin Outputs /\ NeedsOutputLock(hw, s)
             /\ WaitForOutput(t, {}, hw, s, "s_end")
    <3>1. s \in Inputs /\ HwSafe(t, {}, {})
      BY <2>1, <2>4 DEF Streams, HwSafe
    <3> QED BY <1>1, <2>1, <2>4, <3>1, WaitGood
  <2>5. CASE EndStandby(t, InDoStandby(hw, s))
    <3>1. InDoStandby(hw, s) \in Hw /\ SameStreams(InDoStandby(hw, s), hw)
      BY <1>1, InType, InFrame
    <3> QED BY <2>1, <2>5, <3>1, EndStandbyGood
  <2> QED BY <1>5, <2>2, <2>3, <2>4, <2>5 DEF StandbyHw
<1>6. CASE StandbyEnd(t)
  BY <1>1, <1>2, <1>6, EndStandbyGood DEF StandbyEnd, Control, At
<1>7. CASE DoStandbyOut(t)
  <2> DEFINE me == [th[t] EXCEPT !.pc = "d_in"]
             o  == th[t].dOut
  <2>1. Step(t, {o}, {}, hw, me) /\ o \in Streams
    BY <1>2, <1>7 DEF DoStandbyOut, At, Control, Streams
  <2>2. me \in ThreadRecords
    BY <1>1 DEF ThreadRecords, Labels
  <2>3. Fits(t, {o}, {}, hw, me)
    BY <1>1, <1>2, <1>7 DEF Fits, Control, DoStandbyOut, At, ThreadRecords
  <2>4. HwSafe(t, {o}, {})
    BY <1>3, <2>1 DEF HwSafe
  <2> QED BY <1>1, <2>1, <2>2, <2>3, <2>4, StepGood
<1>8. CASE DoStandbyIn(t)
  <2> DEFINE me == [th[t] EXCEPT !.pc = "d_hw"]
  <2>1. Step(t, {s}, {}, hw, me) /\ s \in Streams
    BY <1>2, <1>8 DEF DoStandbyIn, At, Control, Streams
  <2>2. me \in ThreadRecords
    BY <1>1 DEF ThreadRecords, Labels
  <2>3. Fits(t, {s}, {}, hw, me)
    BY <1>1, <1>2, <1>8 DEF Fits, Control, DoStandbyIn, At, ThreadRecords
  <2>4. HwSafe(t, {s}, {})
    BY <1>3, <2>1 DEF HwSafe
  <2> QED BY <1>1, <2>1, <2>2, <2>3, <2>4, StepGood
<1>9. CASE DoStandbyHw(t)
  <2> DEFINE o  == th[t].dOut
             h  == releaseEchoReference(hw, hw.echo[s])
             g  == [h EXCEPT !.echo[s] = NULL]
             me == [th[t] EXCEPT !.dOut = NULL]
             k  == [me EXCEPT !.pc = me.resume]
  <2>1. /\ s \in Inputs /\ o \in Outputs /\ Free(HW)
        /\ me.resume \in {"s_end", "w_fail", "m_enter", "m_leave"}
        /\ me.resume = "s_end" => me.after \in SafeReturn
    BY <1>1, <1>2, <1>9 DEF DoStandbyHw, At, Control, ThreadRecords
  <2>2. h \in Hw /\ SameStreams(h, hw)
    BY <1>1, ReleaseEchoType
  <2> HIDE DEF h
  <2>3. g \in Hw /\ SameStreams(g, hw)
    BY <2>2 DEF SameStreams, Hw, HwRecords
  <2> HIDE DEF g
  <2>4. InFinishStandby(g, s) \in Hw /\ SameStreams(InFinishStandby(g, s), hw)
    BY <2>3, InType, InFrame DEF SameStreams
  <2>5. me \in ThreadRecords
    BY <1>1 DEF ThreadRecords
  <2>6. HwSafe(t, {HW}, {o})
    BY <2>1 DEF HwSafe
  <2>7. CASE Step(t, {HW}, {o}, InFinishStandby(g, s), k)
    <3>1. k \in ThreadRecords
      <4>1. me.resume \in Labels
        BY <2>1 DEF Labels
      <4> HIDE DEF me
      <4> QED BY <2>5, <4>1 DEF ThreadRecords
    <3>2. k.pc = me.resume /\ k.after = me.after /\ k.target = s
      BY <1>1 DEF ThreadRecords
    <3> HIDE DEF k, me
    <3>3. Fits(t, {HW}, {o}, InFinishStandby(g, s), k)
      BY <2>1, <3>2 DEF Fits, Control, Streams
    <3> QED BY <2>4, <2>6, <2>7, <3>1, <3>3, StepGood
  <2>8. CASE Step(t, {HW}, {o}, g, Destructor(me, o, me.resume))
    <3>1. o \in Streams /\ me.resume \in Labels
      BY <2>1 DEF Streams, Labels
    <3>2. /\ Destructor(me, o, me.resume) \in ThreadRecords
          /\ Fits(t, {HW}, {o}, g, Destructor(me, o, me.resume))
      BY <2>5, <3>1, DestructorFits
    <3> QED BY <2>3, <2>6, <2>8, <3>2, StepGood
  <2> QED BY <1>9, <2>7, <2>8 DEF DoStandbyHw, h, g
<1> QED BY <1>4, <1>5, <1>6, <1>7, <1>8, <1>9 DEF StandbyStep

-------------------------------------------------------------------------------
(* Opening and closing streams *)

(* openOutputStream() runs when no thread is in a call on an output. *)
LEMMA OpenOutputGood ==
  ASSUME Good, NEW o \in Outputs, OpenOutputStream(o)
  PROVE  Good'
<1>1. hw' \in Hw
  BY DEF Good, OpenOutputStream, Hw, HwRecords
<1>2. owner' = owner /\ th' = th /\ th[Playback].pc = "idle"
  BY DEF OpenOutputStream, At
<1>3. ASSUME NEW u \in Threads
      PROVE  Control(u, th'[u], hw'.mOutput, owner'[HW] = u)
  <2>1. Control(u, th[u], hw.mOutput, owner[HW] = u)
    BY DEF Good, ControlInv
  <2> QED BY <1>2, <2>1 DEF Control
<1> QED BY <1>1, <1>2, <1>3 DEF Good, ControlInv

(* openInputStream() adds an input. *)
LEMMA OpenInputGood ==
  ASSUME Good, NEW i \in Inputs, OpenInputStream(i)
  PROVE  Good'
<1>1. hw' \in Hw /\ hw'.mOutput = hw.mOutput
  BY ZenonT(40) DEF Good, OpenInputStream, Hw, HwRecords
<1>2. owner' = owner /\ th' = th
  BY DEF OpenInputStream
<1> QED BY <1>1, <1>2 DEF Good, ControlInv

(* closeOutputStream() may put the active input in standby first. *)
LEMMA CloseOutputGood ==
  ASSUME Good, CloseOutputStream
  PROVE  Good'
<1> DEFINE i  == IF hw.mEchoReference = NULL THEN NULL ELSE getActiveInput_l(hw)
           me == [th[Playback] EXCEPT !.spOut = hw.mOutput, !.spIn = i]
           n  == [me EXCEPT !.pc = "c_dropOut"]
           g  == [hw EXCEPT !.mOutput = NULL]
<1>1. hw \in Hw /\ Playback \in Threads /\ th[Playback] \in ThreadRecords
  BY DEF Good, Threads
<1>2. g \in Hw
  BY <1>1 DEF Hw, HwRecords
<1>3. i \in Inputs \union {NULL}
  BY <1>1, ActiveInputType
<1>4. hw.mOutput \in Outputs \union {NULL}
  BY <1>1 DEF Hw, HwRecords
<1> HIDE DEF i, g
<1>5. me \in ThreadRecords
  BY <1>1, <1>3, <1>4 DEF ThreadRecords
<1> HIDE DEF me
<1>6. n \in ThreadRecords /\ n.pc = "c_dropOut"
  BY <1>5 DEF ThreadRecords, Labels
<1>7. HwSafe(Playback, {}, {})
  BY DEF HwSafe
<1>8. CASE Step(Playback, {}, {}, g, n)
  <2>1. Fits(Playback, {}, {}, g, n)
    BY <1>6 DEF Fits, Control
  <2> QED BY <1>1, <1>2, <1>6, <1>7, <1>8, <2>1, StepGood
<1>9. CASE i # NULL /\ Step(Playback, {}, {}, g, CallStandby(me, i, "c_dropOut"))
  <2>1. i \in Streams /\ "c_dropOut" \in SafeReturn
    BY <1>3, <1>9 DEF Streams, SafeReturn
  <2>2. /\ CallStandby(me, i, "c_dropOut") \in ThreadRecords
        /\ Fits(Playback, {}, {}, g, CallStandby(me, i, "c_dropOut"))
    BY <1>5, <2>1, CallStandbyFits
  <2> QED BY <1>1, <1>2, <1>7, <1>9, <2>2, StepGood
<1> QED BY <1>8, <1>9 DEF CloseOutputStream, i, g, me

(* closeInputStream() drops the only pointer the list of inputs holds. *)
LEMMA CloseInputGood ==
  ASSUME Good, NEW i \in Inputs, CloseInputStream(i)
  PROVE  Good'
<1> DEFINE me == [th[i] EXCEPT !.pc = "c_dropIn", !.spIn = i]
           g  == [hw EXCEPT !.mInputs = @ \ {i}]
<1>1. hw \in Hw /\ i \in Threads /\ th[i] \in ThreadRecords
  BY DEF Good, Threads
<1>2. g \in Hw /\ g.mOutput = hw.mOutput
  BY <1>1 DEF Hw, HwRecords
<1>3. me \in ThreadRecords /\ me.pc = "c_dropIn"
  <2>1. "c_dropIn" \in Labels
    BY DEF Labels
  <2> QED BY <1>1, <2>1 DEF ThreadRecords
<1>4. Step(i, {}, {}, g, me)
  BY DEF CloseInputStream
<1> HIDE DEF me, g
<1>5. HwSafe(i, {}, {}) /\ Fits(i, {}, {}, g, me)
  BY <1>3 DEF HwSafe, Fits, Control
<1> QED BY <1>1, <1>2, <1>3, <1>4, <1>5, StepGood

(* A strong pointer goes out of scope with no mutex held. *)
LEMMA DropGood ==
  ASSUME Good, NEW t \in Threads, DropInput(t) \/ DropOutput(t)
  PROVE  Good'
<1>1. hw \in Hw /\ th[t] \in ThreadRecords /\ SameStreams(hw, hw)
  BY DEF Good, SameStreams
<1>2. HwSafe(t, {}, {})
  BY DEF HwSafe
<1>3. ASSUME NEW me \in ThreadRecords, NEW s \in Streams \union {NULL},
             NEW next \in SafeReturn,
             \/ s # NULL /\ Step(t, {}, {}, hw, Destructor(me, s, next))
             \/ Step(t, {}, {}, hw, [me EXCEPT !.pc = next])
      PROVE  Good'
  <2> DEFINE n == [me EXCEPT !.pc = next]
  <2>1. next \in Labels
    BY DEF Labels, SafeReturn
  <2>2. CASE Step(t, {}, {}, hw, n)
    <3>1. n \in ThreadRecords /\ n.pc = next
      BY <2>1 DEF ThreadRecords
    <3> HIDE DEF n
    <3>2. Fits(t, {}, {}, hw, n)
      BY <3>1 DEF Fits, Control, SafeReturn
    <3> QED BY <1>1, <1>2, <2>2, <3>1, <3>2, StepGood
  <2>3. CASE s # NULL /\ Step(t, {}, {}, hw, Destructor(me, s, next))
    <3>1. /\ Destructor(me, s, next) \in ThreadRecords
          /\ Fits(t, {}, {}, hw, Destructor(me, s, next))
      BY <2>1, <2>3, DestructorFits
    <3> QED BY <1>1, <1>2, <2>3, <3>1, StepGood
  <2> QED BY <1>3, <2>2, <2>3
<1>4. CASE DropInput(t)
  <2> DEFINE s    == th[t].spIn
             next == IF At(t, "m_dropIn") THEN "m_dropOut" ELSE "idle"
             me   == [th[t] EXCEPT !.spIn = NULL]
  <2>1. me \in ThreadRecords /\ s \in Streams \union {NULL} /\ next \in SafeReturn
    BY <1>1 DEF ThreadRecords, Streams, SafeReturn
  <2>2. \/ s # NULL /\ Step(t, {}, {}, hw, Destructor(me, s, next))
        \/ Step(t, {}, {}, hw, [me EXCEPT !.pc = next])
    BY <1>4 DEF DropInput
  <2> QED BY <1>3, <2>1, <2>2
<1>5. CASE DropOutput(t)
  <2> DEFINE s    == th[t].spOut
             next == IF At(t, "c_dropOut") THEN "c_dropIn" ELSE "idle"
             me   == [th[t] EXCEPT !.spOut = NULL]
  <2>1. me \in ThreadRecords /\ s \in Streams \union {NULL} /\ next \in SafeReturn
    BY <1>1 DEF ThreadRecords, Streams, SafeReturn
  <2>2. \/ s # NULL /\ Step(t, {}, {}, hw, Destructor(me, s, next))
        \/ Step(t, {}, {}, hw, [me EXCEPT !.pc = next])
    BY <1>5 DEF DropOutput
  <2> QED BY <1>3, <2>1, <2>2
<1> QED BY <1>4, <1>5

-------------------------------------------------------------------------------
(* The calls the clients begin *)

(* A thread that moves on to a label that tells nothing of its pointers. *)
LEMMA MoveGood ==
  ASSUME Good, NEW t \in Threads, NEW got \in SUBSET Streams,
         NEW given \in SUBSET (Streams \union {NULL}), NEW h \in Hw,
         SameStreams(h, hw), NEW me \in ThreadRecords,
         \/ me.pc \in {"idle", "r_in", "r_hw", "r_pcm", "m_hw", "m_dropIn"}
         \/ /\ me.pc \in {"w_out", "w_hw", "w_pcm"}
            /\ t = Playback /\ hw.mOutput \in Outputs
         \/ /\ me.pc \in {"w_in", "w_hw2"}
            /\ t = Playback /\ hw.mOutput \in Outputs /\ me.spIn \in Inputs
         \/ me.pc \in {"m_in", "m_hwi"} /\ me.spIn \in Inputs
         \/ me.pc \in {"r_out", "r_in2", "r_hw2", "m_out", "m_hwo"}
            /\ me.spOut \in Outputs,
         Step(t, got, given, h, me)
  PROVE  Good'
<1>1. HwSafe(t, got, given)
  BY ThreadAssumption DEF HwSafe
<1>2. Fits(t, got, given, h, me)
  <2>1. h.mOutput = hw.mOutput
    BY DEF SameStreams
  <2> QED BY <2>1 DEF Fits, Control
<1> QED BY <1>1, <1>2, StepGood

(* A thread that goes on to call standby(). *)
LEMMA ThenStandbyGood ==
  ASSUME Good, NEW t \in Threads, NEW given \in SUBSET (Streams \union {NULL}),
         NEW h \in Hw, SameStreams(h, hw), NEW me \in ThreadRecords,
         NEW s \in Streams, NEW next \in SafeReturn,
         Step(t, {}, given, h, CallStandby(me, s, next))
  PROVE  Good'
<1>1. HwSafe(t, {}, given)
  BY ThreadAssumption DEF HwSafe
<1>2. /\ CallStandby(me, s, next) \in ThreadRecords
      /\ Fits(t, {}, given, h, CallStandby(me, s, next))
  BY CallStandbyFits
<1> QED BY <1>1, <1>2, StepGood

(* Every call the clients begin keeps the invariant. *)
LEMMA BeginGood ==
  ASSUME Good, Begin
  PROVE  Good'
<1>1. hw \in Hw /\ SameStreams(hw, hw) /\ \A t \in Threads : th[t] \in ThreadRecords
  BY DEF Good, SameStreams
<1>2. Playback \in Threads /\ Ctl \in Threads /\ Inputs \subseteq Threads
  BY DEF Threads
<1>3. /\ hw.mOutput \in Outputs \union {NULL} /\ hw.mInputs \subseteq Inputs
      /\ hw.mOutput # NULL => hw.mOutput \in Outputs
  BY <1>1 DEF Hw, HwRecords
<1>4. CASE BeginWrite
  <2> DEFINE me == [th[Playback] EXCEPT !.pc = "w_out"]
  <2>1. me \in ThreadRecords /\ me.pc = "w_out"
    BY <1>1, <1>2 DEF ThreadRecords, Labels
  <2>2. Step(Playback, {}, {}, hw, me) /\ hw.mOutput \in Outputs
    BY <1>3, <1>4 DEF BeginWrite
  <2> HIDE DEF me
  <2> QED BY <1>1, <1>2, <2>1, <2>2, MoveGood
<1>5. ASSUME NEW i \in Inputs, BeginRead(i)
      PROVE  Good'
  <2> DEFINE me == [th[i] EXCEPT !.pc = "r_in"]
  <2>1. me \in ThreadRecords /\ me.pc = "r_in"
    BY <1>1, <1>2 DEF ThreadRecords, Labels
  <2>2. Step(i, {}, {}, hw, me)
    BY <1>5 DEF BeginRead
  <2> HIDE DEF me
  <2> QED BY <1>1, <1>2, <2>1, <2>2, MoveGood
<1>6. ASSUME NEW m \in Modes, BeginSetMode(m)
      PROVE  Good'
  <2> DEFINE me == [th[Ctl] EXCEPT !.pc = "m_hw", !.mode = m]
  <2>1. me \in ThreadRecords /\ me.pc = "m_hw"
    <3>1. "m_hw" \in Labels
      BY DEF Labels
    <3> QED BY <1>1, <1>2, <3>1 DEF ThreadRecords
  <2>2. Step(Ctl, {}, {}, hw, me)
    BY <1>6 DEF BeginSetMode
  <2> HIDE DEF me
  <2> QED BY <1>1, <1>2, <2>1, <2>2, MoveGood
<1>7. CASE SetMicMute
  <2> DEFINE i  == getActiveInput_l(hw)
             me == [th[Ctl] EXCEPT !.spIn = i]
  <2>1. i \in Inputs
    BY <1>1, <1>7, ActiveInputType DEF SetMicMute
  <2>2. me \in ThreadRecords
    BY <1>1, <1>2, <2>1 DEF ThreadRecords
  <2>3. Step(Ctl, {}, {}, hw, CallStandby(me, i, "c_dropIn"))
    BY <1>7 DEF SetMicMute
  <2>4. i \in Streams /\ "c_dropIn" \in SafeReturn
    BY <2>1 DEF Streams, SafeReturn
  <2> HIDE DEF me, i
  <2> QED BY <1>1, <1>2, <2>2, <2>3, <2>4, ThenStandbyGood
<1>8. ASSUME NEW i \in Inputs, ChangeAec(i)
      PROVE  Good'
  <2> DEFINE g == [hw EXCEPT !.needEcho[i] = ~@]
  <2>1. g \in Hw /\ SameStreams(g, hw)
    <3>1. (~hw.needEcho[i]) \in BOOLEAN
      OBVIOUS
    <3> QED BY <1>1, <3>1 DEF Hw, HwRecords, SameStreams
  <2>2. Step(Ctl, {}, {}, g, CallStandby(th[Ctl], i, "idle"))
    BY <1>8 DEF ChangeAec
  <2>3. i \in Streams /\ "idle" \in SafeReturn
    BY DEF Streams, SafeReturn
  <2> HIDE DEF g
  <2> QED BY <1>1, <1>2, <2>1, <2>2, <2>3, ThenStandbyGood
<1>9. ASSUME NEW t \in Threads, NEW op \in {"standby", "routing"},
             BeginStandby(t, op)
      PROVE  Good'
  <2> DEFINE me == [th[t] EXCEPT !.pc = "s_lock", !.target = MyStream(t),
                                 !.op = op, !.after = "idle"]
  <2>1. MyStream(t) \in Streams
    BY <1>3, <1>9 DEF BeginStandby, MyStream, Streams
  <2>2. me \in ThreadRecords
    <3>1. {"s_lock", "idle"} \subseteq Labels
      BY DEF Labels
    <3> QED BY <1>1, <2>1, <3>1 DEF ThreadRecords
  <2>3. me.pc = "s_lock" /\ me.target = MyStream(t) /\ me.after = "idle"
    BY <1>1 DEF ThreadRecords
  <2>4. Step(t, {}, {}, hw, me)
    BY <1>9 DEF BeginStandby
  <2> HIDE DEF me
  <2>5. HwSafe(t, {}, {}) /\ Fits(t, {}, {}, hw, me)
    BY <2>1, <2>3 DEF HwSafe, Fits, Control, SafeReturn
  <2> QED BY <1>1, <2>2, <2>4, <2>5, StepGood
<1> QED BY <1>4, <1>5, <1>6, <1>7, <1>8, <1>9, OpenOutputGood, OpenInputGood,
           CloseOutputGood, CloseInputGood DEF Begin

-------------------------------------------------------------------------------
(* write() *)

(* A driver answers yes or no. *)
LEMMA AnswersType == \A call : Answers(call) \subseteq BOOLEAN
BY DEF Answers

(* write() opens the output and the input it has closed. *)
LEMMA WriteOpenGood ==
  ASSUME Good, NEW h \in Hw, SameStreams(h, hw), NEW i \in Inputs \union {NULL},
         NEW given \in SUBSET Streams, hw.mOutput \in Outputs,
         th[Playback].after \in Labels, WriteOpen(h, i, given)
  PROVE  Good'
<1>1. PICK pcmOk, inOk \in Answers("pcm"), mixOk, inMixOk \in Answers("mixer") :
        LET o == h.mOutput
            g == OutOpen(h, o, pcmOk, mixOk)
            k == IF i = NULL THEN g ELSE InOpen(g, i, inOk, inMixOk)
            failed == i # NULL /\ ~k.pcm[i]
            n  == IF failed THEN InDoStandby(k, i) ELSE k
            me == [th[Playback] EXCEPT !.spIn = NULL]
        IN  IF failed /\ NeedsOutputLock(k, i)
            THEN WaitForOutput(Playback, given, k, i, "w_fail")
            ELSE IF n.pcm[o]
            THEN Step(Playback, {}, given \union {i},
                      [n EXCEPT !.standby[o] = FALSE], [me EXCEPT !.pc = "w_pcm"])
            ELSE Step(Playback, {}, given \union {i, o},
                      [n EXCEPT !.wakeLock = FALSE], CallStandby(me, o, "idle"))
  BY DEF WriteOpen
<1>0. /\ pcmOk \in BOOLEAN /\ inOk \in BOOLEAN
      /\ mixOk \in BOOLEAN /\ inMixOk \in BOOLEAN
  BY AnswersType
<1> DEFINE o == h.mOutput
           g == OutOpen(h, o, pcmOk, mixOk)
           k == IF i = NULL THEN g ELSE InOpen(g, i, inOk, inMixOk)
           failed == i # NULL /\ ~k.pcm[i]
           n  == IF failed THEN InDoStandby(k, i) ELSE k
           me == [th[Playback] EXCEPT !.spIn = NULL]
           w  == [me EXCEPT !.pc = "w_pcm"]
           x  == [n EXCEPT !.standby[o] = FALSE]
           y  == [n EXCEPT !.wakeLock = FALSE]
<1> HIDE DEF o, g, k, n, me, w, x, y
<1>2. hw \in Hw /\ Playback \in Threads /\ th[Playback] \in ThreadRecords
  BY DEF Good, Threads
<1>3. o = hw.mOutput /\ o \in Outputs /\ o \in Streams
  BY DEF SameStreams, Streams, o
<1>4. g \in Hw /\ SameStreams(g, hw)
  <2>1. g \in Hw /\ SameStreams(g, h)
    BY <1>0, <1>3, OutType, OutFrame DEF g
  <2> QED BY <2>1 DEF SameStreams
<1>5. k \in Hw /\ SameStreams(k, hw)
  <2>1. /\ InOpen(g, i, inOk, inMixOk) \in Hw
        /\ SameStreams(InOpen(g, i, inOk, inMixOk), g)
    BY <1>0, <1>4, InType, InFrame
  <2> QED BY <1>4, <2>1 DEF k, SameStreams
<1>6. n \in Hw /\ SameStreams(n, hw)
  <2>1. InDoStandby(k, i) \in Hw /\ SameStreams(InDoStandby(k, i), k)
    BY <1>5, InType, InFrame
  <2> QED BY <1>5, <2>1 DEF n, SameStreams
<1>7. x \in Hw /\ SameStreams(x, hw) /\ y \in Hw /\ SameStreams(y, hw)
  BY <1>6 DEF Hw, HwRecords, SameStreams, x, y
<1>8. me \in ThreadRecords
  BY <1>2 DEF ThreadRecords, me
<1>9. w \in ThreadRecords /\ w.pc = "w_pcm"
  BY <1>8 DEF ThreadRecords, Labels, w
<1>10. given \union {i} \in SUBSET (Streams \union {NULL})
       /\ given \union {i, o} \in SUBSET (Streams \union {NULL})
  BY <1>3 DEF Streams
<1>11. CASE failed /\ NeedsOutputLock(k, i)
            /\ WaitForOutput(Playback, given, k, i, "w_fail")
  <2>1. i \in Inputs /\ HwSafe(Playback, {}, given)
    BY <1>11, ThreadAssumption DEF HwSafe
  <2> QED BY <1>2, <1>5, <1>11, <2>1, WaitGood
<1>12. CASE Step(Playback, {}, given \union {i}, x, w)
  BY <1>2, <1>3, <1>7, <1>9, <1>10, <1>12, MoveGood
<1>13. CASE Step(Playback, {}, given \union {i, o}, y, CallStandby(me, o, "idle"))
  <2>1. "idle" \in SafeReturn
    BY DEF SafeReturn
  <2> QED BY <1>2, <1>3, <1>7, <1>8, <1>10, <1>13, <2>1, ThenStandbyGood
<1> QED BY <1>1, <1>11, <1>12, <1>13 DEF o, g, k, n, me, w, x, y

(* write() looks for the active input. *)
LEMMA WriteSearchGood ==
  ASSUME Good, NEW h \in Hw, SameStreams(h, hw), NEW given \in SUBSET Streams,
         hw.mOutput \in Outputs, WriteSearch(h, given)
  PROVE  Good'
<1> DEFINE i  == getActiveInput_l(h)
           me == [th[Playback] EXCEPT !.pc = "w_in", !.spIn = i]
           g  == PrepareLock(h, Playback, i)
<1>1. hw \in Hw /\ Playback \in Threads /\ th[Playback] \in ThreadRecords
  BY DEF Good, Threads
<1>2. th[Playback].after \in Labels
  BY <1>1 DEF ThreadRecords
<1>3. i \in Inputs \union {NULL}
  BY ActiveInputType
<1> HIDE DEF i
<1>4. CASE WriteOpen(h, NULL, given)
  BY <1>2, <1>4, WriteOpenGood
<1>5. CASE i # NULL /\ Step(Playback, {}, given, g, me)
  <2>1. i \in Inputs /\ i \in Streams
    BY <1>3, <1>5 DEF Streams
  <2>2. me \in ThreadRecords /\ me.pc = "w_in" /\ me.spIn = i
    <3>1. "w_in" \in Labels
      BY DEF Labels
    <3> QED BY <1>1, <2>1, <3>1 DEF ThreadRecords
  <2>3. g \in Hw /\ SameStreams(g, hw)
    BY <2>1, CurrentType, ZenonT(40) DEF PrepareLock, SameStreams
  <2> HIDE DEF g, me
  <2>4. {} \in SUBSET Streams /\ given \in SUBSET (Streams \union {NULL})
    OBVIOUS
  <2> QED BY <1>1, <1>5, <2>1, <2>2, <2>3, <2>4, MoveGood
<1> QED BY <1>4, <1>5 DEF WriteSearch, i

(* Every step of write() keeps the invariant. *)
LEMMA WriteGood ==
  ASSUME Good, WriteStep
  PROVE  Good'
<1>1. hw \in Hw /\ SameStreams(hw, hw) /\ Playback \in Threads
      /\ th[Playback] \in ThreadRecords
  BY DEF Good, SameStreams, Threads
<1>2. Control(Playback, th[Playback], hw.mOutput, owner[HW] = Playback)
  BY <1>1 DEF Good, ControlInv
<1>3. hw.mOutput \in Outputs /\ hw.mOutput \in Streams
  BY <1>2 DEF WriteStep, WriteLock, WriteHw, WriteIn, WriteRecheck, WritePcm, At,
              Control, Streams
<1>4. CASE WriteLock
  <2> DEFINE me == [th[Playback] EXCEPT
                      !.pc = IF hw.standby[hw.mOutput] THEN "w_hw" ELSE "w_pcm"]
  <2>1. me \in ThreadRecords /\ me.pc \in {"w_hw", "w_pcm"}
    <3>1. {"w_hw", "w_pcm"} \subseteq Labels
      BY DEF Labels
    <3> QED BY <1>1, <3>1 DEF ThreadRecords
  <2>2. Step(Playback, {hw.mOutput}, {}, hw, me)
    BY <1>4 DEF WriteLock
  <2> HIDE DEF me
  <2> QED BY <1>1, <1>3, <2>1, <2>2, MoveGood
<1>5. CASE WriteHw
  <2> DEFINE g == [hw EXCEPT !.wakeLock = TRUE]
  <2>1. g \in Hw /\ SameStreams(g, hw)
    BY <1>1 DEF Hw, HwRecords, SameStreams
  <2>2. WriteSearch(g, {})
    BY <1>5 DEF WriteHw
  <2> HIDE DEF g
  <2> QED BY <1>3, <2>1, <2>2, WriteSearchGood
<1>6. CASE WriteIn
  <2> DEFINE me == [th[Playback] EXCEPT !.pc = "w_hw2"]
             i  == th[Playback].spIn
  <2>1. i \in Inputs /\ i \in Streams
    BY <1>2, <1>6 DEF Control, WriteIn, At, Streams
  <2>2. me \in ThreadRecords /\ me.pc = "w_hw2" /\ me.spIn = i
    BY <1>1 DEF ThreadRecords, Labels
  <2>3. Step(Playback, {i}, {}, hw, me)
    BY <1>6 DEF WriteIn
  <2> HIDE DEF me, i
  <2> QED BY <1>1, <1>3, <2>1, <2>2, <2>3, MoveGood
<1>7. CASE WriteRecheck
  <2> DEFINE i  == th[Playback].spIn
             me == [th[Playback] EXCEPT !.spIn = NULL]
  <2>1. i \in Inputs /\ i \in Streams /\ Free(HW)
    BY <1>2, <1>7 DEF Control, WriteRecheck, At, Streams
  <2>2. CASE WriteOpen(InClose(hw, i), i, {})
    <3>1. InClose(hw, i) \in Hw /\ SameStreams(InClose(hw, i), hw)
      BY <1>1, InType, InFrame
    <3>2. th[Playback].after \in Labels
      BY <1>1 DEF ThreadRecords
    <3> QED BY <1>3, <2>1, <2>2, <3>1, <3>2, WriteOpenGood
  <2>3. CASE WriteSearch(hw, {i})
    BY <1>1, <1>3, <2>1, <2>3, WriteSearchGood
  <2>4. CASE Step(Playback, {HW}, {i}, hw, Destructor(me, i, "w_hw"))
    <3>1. me \in ThreadRecords /\ "w_hw" \in Labels
      BY <1>1 DEF ThreadRecords, Labels
    <3>2. HwSafe(Playback, {HW}, {i})
      BY <2>1 DEF HwSafe
    <3> HIDE DEF me
    <3>3. /\ Destructor(me, i, "w_hw") \in ThreadRecords
          /\ Fits(Playback, {HW}, {i}, hw, Destructor(me, i, "w_hw"))
      BY <2>1, <3>1, DestructorFits
    <3> QED BY <1>1, <2>4, <3>2, <3>3, StepGood
  <2> QED BY <1>7, <2>2, <2>3, <2>4 DEF WriteRecheck
<1>8. CASE WritePcm
  <2> DEFINE o == hw.mOutput
  <2>1. o \in Streams /\ {o} \in SUBSET (Streams \union {NULL})
        /\ "idle" \in SafeReturn
    BY <1>3 DEF SafeReturn
  <2>2. CASE Step(Playback, {}, {o}, hw, IdleThread)
    BY <1>1, <2>1, <2>2, IdleType, MoveGood
  <2>3. CASE Step(Playback, {}, {o}, hw, CallStandby(th[Playback], o, "idle"))
    BY <1>1, <2>1, <2>3, ThenStandbyGood
  <2> QED BY <1>8, <2>2, <2>3 DEF WritePcm
<1> QED BY <1>4, <1>5, <1>6, <1>7, <1>8 DEF WriteStep

-------------------------------------------------------------------------------
(* read() *)

(* read() opens the input, with the output given back. *)
LEMMA ReadOpenGood ==
  ASSUME Good, NEW i \in Inputs, NEW h \in Hw, SameStreams(h, hw),
         NEW given \in SUBSET Streams, ReadOpen(i, h, given)
  PROVE  Good'
<1>1. PICK pcmOk \in Answers("pcm"), mixOk \in Answers("mixer") :
        LET k  == InOpen(h, i, pcmOk, mixOk)
            me == [th[i] EXCEPT !.spOut = NULL]
        IN  IF k.pcm[i]
            THEN Step(i, {}, given, [k EXCEPT !.standby[i] = FALSE],
                      [me EXCEPT !.pc = "r_pcm"])
            ELSE Step(i, {}, given \union {i}, k, CallStandby(me, i, "idle"))
  BY DEF ReadOpen
<1> DEFINE k  == InOpen(h, i, pcmOk, mixOk)
           me == [th[i] EXCEPT !.spOut = NULL]
           x  == [k EXCEPT !.standby[i] = FALSE]
           w  == [me EXCEPT !.pc = "r_pcm"]
<1> HIDE DEF k, me, x, w
<1>2. pcmOk \in BOOLEAN /\ mixOk \in BOOLEAN
  BY AnswersType
<1>3. i \in Threads /\ i \in Streams /\ th[i] \in ThreadRecords
      /\ "idle" \in SafeReturn
  BY DEF Good, Threads, Streams, SafeReturn
<1>4. k \in Hw /\ SameStreams(k, hw)
  <2>1. k \in Hw /\ SameStreams(k, h)
    BY <1>2, InType, InFrame DEF k
  <2> QED BY <2>1 DEF SameStreams
<1>5. x \in Hw /\ SameStreams(x, hw)
  BY <1>4 DEF Hw, HwRecords, SameStreams, x
<1>6. me \in ThreadRecords
  BY <1>3 DEF ThreadRecords, me
<1>7. w \in ThreadRecords /\ w.pc = "r_pcm"
  BY <1>6 DEF ThreadRecords, Labels, w
<1>8. given \in SUBSET (Streams \union {NULL})
      /\ given \union {i} \in SUBSET (Streams \union {NULL})
  BY <1>3
<1>9. CASE Step(i, {}, given, x, w)
  BY <1>3, <1>5, <1>7, <1>8, <1>9, MoveGood
<1>10. CASE Step(i, {}, given \union {i}, k, CallStandby(me, i, "idle"))
  BY <1>3, <1>4, <1>6, <1>8, <1>10, ThenStandbyGood
<1> QED BY <1>1, <1>9, <1>10 DEF k, me, x, w

(* read() looks for the output. *)
LEMMA ReadSearchGood ==
  ASSUME Good, NEW i \in Inputs, NEW given \in SUBSET Streams,
         ReadSearch(i, given)
  PROVE  Good'
<1> DEFINE me == [th[i] EXCEPT !.pc = "r_out", !.spOut = hw.mOutput]
<1>1. hw \in Hw /\ SameStreams(hw, hw)
  BY DEF Good, SameStreams
<1>2. i \in Threads /\ i \in Streams /\ th[i] \in ThreadRecords
  BY DEF Good, Threads, Streams
<1>3. CASE ReadOpen(i, hw, given)
  BY <1>1, <1>3, ReadOpenGood
<1>4. CASE hw.mOutput # NULL /\ Step(i, {}, given \union {i}, hw, me)
  <2>1. hw.mOutput \in Outputs
    BY <1>1, <1>4 DEF Hw, HwRecords
  <2>2. me \in ThreadRecords /\ me.pc = "r_out" /\ me.spOut \in Outputs
    <3>1. "r_out" \in Labels
      BY DEF Labels
    <3> QED BY <1>2, <2>1, <3>1 DEF ThreadRecords
  <2>3. given \union {i} \in SUBSET (Streams \union {NULL})
    BY <1>2
  <2> HIDE DEF me
  <2> QED BY <1>1, <1>2, <1>4, <2>2, <2>3, MoveGood
<1> QED BY <1>3, <1>4 DEF ReadSearch

(* read() closes and opens the output again. *)
LEMMA ReopenType ==
  ASSUME NEW h \in Hw, NEW o \in Outputs, NEW pcmOk \in BOOLEAN,
         NEW mixOk \in BOOLEAN
  PROVE  /\ ReadReopenOut(h, o, pcmOk, mixOk) \in Hw
         /\ SameStreams(ReadReopenOut(h, o, pcmOk, mixOk), h)
<1> DEFINE k == OutClose(h, o)
           g == OutOpen(k, o, pcmOk, mixOk)
<1> HIDE DEF k, g
<1>1. k \in Hw /\ SameStreams(k, h)
  BY OutType, OutFrame DEF k
<1>2. g \in Hw /\ SameStreams(g, k)
  BY <1>1, OutType, OutFrame DEF g
<1>3. OutDoStandby(g, o) \in Hw /\ SameStreams(OutDoStandby(g, o), g)
  BY <1>2, OutDoStandbyType, OutDoStandbyFrame
<1>4. SameStreams(h, h)
  BY DEF SameStreams
<1> QED BY <1>1, <1>2, <1>3, <1>4 DEF ReadReopenOut, SameStreams, k, g

(* Every step of read() keeps the invariant. *)
LEMMA ReadGood ==
  ASSUME Good, NEW i \in Inputs, ReadStep(i)
  PROVE  Good'
<1>1. hw \in Hw /\ SameStreams(hw, hw) /\ i \in Threads /\ i \in Streams
      /\ th[i] \in ThreadRecords
  BY DEF Good, SameStreams, Threads, Streams
<1>2. Control(i, th[i], hw.mOutput, owner[HW] = i)
  BY <1>1 DEF Good, ControlInv
<1>3. {} \in SUBSET Streams /\ {i} \in SUBSET (Streams \union {NULL})
      /\ {} \in SUBSET (Streams \union {NULL}) /\ {i} \in SUBSET Streams
  BY <1>1
<1>4. CASE ReadLock(i)
  <2> DEFINE me == [th[i] EXCEPT !.pc = IF hw.standby[i] THEN "r_hw" ELSE "r_pcm"]
  <2>1. me \in ThreadRecords /\ me.pc \in {"r_hw", "r_pcm"}
    <3>1. {"r_hw", "r_pcm"} \subseteq Labels
      BY DEF Labels
    <3> QED BY <1>1, <3>1 DEF ThreadRecords
  <2>2. Step(i, {i}, {}, hw, me)
    BY <1>4 DEF ReadLock
  <2> HIDE DEF me
  <2> QED BY <1>1, <1>3, <2>1, <2>2, MoveGood
<1>5. CASE ReadHw(i)
  BY <1>3, <1>5, ReadSearchGood DEF ReadHw
<1>6. CASE ReadOut(i)
  <2> DEFINE me == [th[i] EXCEPT !.pc = "r_in2"]
             o  == th[i].spOut
  <2>1. o \in Outputs /\ {o} \in SUBSET Streams
    BY <1>2, <1>6 DEF Control, ReadOut, At, Streams
  <2>2. me \in ThreadRecords /\ me.pc = "r_in2" /\ me.spOut = o
    BY <1>1 DEF ThreadRecords, Labels
  <2>3. Step(i, {o}, {}, hw, me)
    BY <1>6 DEF ReadOut
  <2> HIDE DEF me, o
  <2> QED BY <1>1, <1>3, <2>1, <2>2, <2>3, MoveGood
<1>7. CASE ReadIn(i)
  <2> DEFINE me == [th[i] EXCEPT !.pc = "r_hw2"]
  <2>1. th[i].spOut \in Outputs
    BY <1>2, <1>7 DEF Control, ReadIn, At
  <2>2. me \in ThreadRecords /\ me.pc = "r_hw2" /\ me.spOut \in Outputs
    BY <1>1, <2>1 DEF ThreadRecords, Labels
  <2>3. Step(i, {i}, {}, hw, me)
    BY <1>7 DEF ReadIn
  <2> HIDE DEF me
  <2> QED BY <1>1, <1>3, <2>2, <2>3, MoveGood
<1>8. CASE ReadRecheck(i)
  <2> DEFINE o  == th[i].spOut
             me == [th[i] EXCEPT !.spOut = NULL]
  <2>1. o \in Outputs /\ o \in Streams /\ {o} \in SUBSET Streams /\ Free(HW)
    BY <1>2, <1>8 DEF Control, ReadRecheck, At, Streams
  <2>2. ASSUME NEW pcmOk \in Answers("pcm"), NEW mixOk \in Answers("mixer"),
               NEW made \in Answers("echo"),
               LET g == ReadReopenOut(hw, o, pcmOk, mixOk)
               IN  ReadOpen(i, IF g.needEcho[i] /\ g.echo[i] = NULL
                               THEN getEchoReference(g, i, made) ELSE g, {o})
        PROVE  Good'
    <3> DEFINE g == ReadReopenOut(hw, o, pcmOk, mixOk)
               k == IF g.needEcho[i] /\ g.echo[i] = NULL
                    THEN getEchoReference(g, i, made) ELSE g
    <3> HIDE DEF g, k
    <3>1. pcmOk \in BOOLEAN /\ mixOk \in BOOLEAN
      BY AnswersType
    <3>2. g \in Hw /\ SameStreams(g, hw)
      BY <1>1, <2>1, <3>1, ReopenType DEF g
    <3>3. k \in Hw /\ SameStreams(k, hw)
      BY <3>2, GetEchoType DEF k, SameStreams
    <3>4. ReadOpen(i, k, {o})
      BY <2>2 DEF g, k
    <3> QED BY <2>1, <3>3, <3>4, ReadOpenGood
  <2>3. CASE ReadSearch(i, {o})
    BY <2>1, <2>3, ReadSearchGood
  <2>4. CASE Step(i, {HW}, {o}, hw, Destructor(me, o, "r_hw"))
    <3>1. me \in ThreadRecords /\ "r_hw" \in Labels
      BY <1>1 DEF ThreadRecords, Labels
    <3>2. HwSafe(i, {HW}, {o})
      BY <2>1 DEF HwSafe
    <3> HIDE DEF me
    <3>3. /\ Destructor(me, o, "r_hw") \in ThreadRecords
          /\ Fits(i, {HW}, {o}, hw, Destructor(me, o, "r_hw"))
      BY <2>1, <3>1, DestructorFits
    <3> QED BY <1>1, <2>4, <3>2, <3>3, StepGood
  <2> QED BY <1>8, <2>2, <2>3, <2>4 DEF ReadRecheck
<1>9. CASE ReadPcm(i)
  <2>1. "idle" \in SafeReturn
    BY DEF SafeReturn
  <2>2. CASE Step(i, {}, {i}, hw, IdleThread)
    BY <1>1, <1>3, <2>2, IdleType, MoveGood
  <2>3. CASE Step(i, {}, {i}, hw, CallStandby(th[i], i, "idle"))
    BY <1>1, <1>3, <2>1, <2>3, ThenStandbyGood
  <2> QED BY <1>9, <2>2, <2>3 DEF ReadPcm
<1> QED BY <1>4, <1>5, <1>6, <1>7, <1>8, <1>9 DEF ReadStep

-------------------------------------------------------------------------------
(* setMode() *)

(* setMode() releases everything and returns. *)
LEMMA UnlockModeGood ==
  ASSUME Good, NEW h \in Hw, SameStreams(h, hw), NEW me \in ThreadRecords,
         NEW given, Free(HW) \/ owner[HW] = Ctl, UnlockMode(h, me, given)
  PROVE  Good'
<1> DEFINE n == [me EXCEPT !.pc = "m_dropIn", !.target = NULL, !.resume = "none"]
           d == given \union {HW, me.spIn, me.spOut}
<1>1. Ctl \in Threads /\ Step(Ctl, {}, d, h, n) /\ HwSafe(Ctl, {}, d)
  BY DEF Threads, UnlockMode, HwSafe
<1>2. n \in ThreadRecords /\ n.pc = "m_dropIn"
  <2>1. "m_dropIn" \in Labels
    BY DEF Labels
  <2> QED BY <2>1 DEF ThreadRecords
<1> HIDE DEF n, d
<1>3. Fits(Ctl, {}, d, h, n)
  BY <1>2 DEF Fits, Control
<1> QED BY <1>1, <1>2, <1>3, StepGood

(* The call begins or ends. *)
LEMMA CallGood ==
  ASSUME Good, NEW h \in Hw, SameStreams(h, hw), NEW me \in ThreadRecords,
         NEW given, Free(HW) \/ owner[HW] = Ctl,
         EnterCall(h, me, given) \/ LeaveCall(h, me, given)
  PROVE  Good'
<1>1. CASE EnterCall(h, me, given)
  <2>1. PICK pcmOk \in Answers("pcm"), mixOk \in Answers("mixer") :
          UnlockMode([openMixer_l(openPcmOut_l(h, pcmOk), mixOk) EXCEPT
                        !.mInCallAudioMode = TRUE], me, given)
    BY <1>1 DEF EnterCall
  <2> DEFINE k == openPcmOut_l(h, pcmOk)
             n == openMixer_l(k, mixOk)
             g == [n EXCEPT !.mInCallAudioMode = TRUE]
  <2> HIDE DEF k, n, g
  <2>2. pcmOk \in BOOLEAN /\ mixOk \in BOOLEAN
    BY AnswersType
  <2>3. k \in Hw /\ SameStreams(k, h)
    BY <2>2, OpenPcmType, PcmFrame DEF k
  <2>4. n \in Hw /\ SameStreams(n, k)
    BY <2>2, <2>3, OpenMixerType, MixerFrame DEF n
  <2>5. g \in Hw /\ SameStreams(g, hw)
    BY <2>3, <2>4 DEF Hw, HwRecords, SameStreams, g
  <2>6. UnlockMode(g, me, given)
    BY <2>1 DEF g, n, k
  <2> QED BY <2>5, <2>6, UnlockModeGood
<1>2. CASE LeaveCall(h, me, given)
  <2> DEFINE g == [h EXCEPT !.mInCallAudioMode = FALSE]
  <2>1. g \in Hw /\ SameStreams(g, hw)
    BY DEF Hw, HwRecords, SameStreams
  <2>2. UnlockMode(g, me, given)
    BY <1>2 DEF LeaveCall
  <2> HIDE DEF g
  <2> QED BY <2>1, <2>2, UnlockModeGood
<1> QED BY <1>1, <1>2

(* The mode changes, and the streams that are locked go to standby. *)
LEMMA SwitchModeGood ==
  ASSUME Good, NEW me \in ThreadRecords, NEW given \in SUBSET Streams,
         Free(HW), SwitchMode(me, given)
  PROVE  Good'
<1> DEFINE h == [hw EXCEPT !.mMode = me.mode]
           entering == me.mode # hw.mMode /\ me.mode = "in_call"
                       /\ ~hw.mInCallAudioMode
           leaving  == me.mode # hw.mMode /\ me.mode = "normal"
                       /\ hw.mInCallAudioMode
           j == closeMixer_l(h)
           c == closePcmOut_l(j)
           f == IF leaving THEN c ELSE h
           g == OutToStandby(f, me.spOut)
           n == InToStandby(g, me.spIn)
<1>1. hw \in Hw /\ Ctl \in Threads
  BY DEF Good, Threads
<1>2. /\ me.mode \in Modes /\ me.spIn \in Inputs \union {NULL}
      /\ me.spOut \in Outputs \union {NULL}
  BY DEF ThreadRecords
<1> HIDE DEF h, j, c, f, g, n
<1>3. h \in Hw /\ SameStreams(h, hw)
  BY <1>1, <1>2 DEF Hw, HwRecords, SameStreams, h
<1>4. j \in Hw /\ SameStreams(j, h)
  BY <1>3, CloseMixerType, MixerFrame DEF j
<1>5. c \in Hw /\ SameStreams(c, j)
  BY <1>4, ClosePcmType DEF c, SameStreams, closePcmOut_l, Hw, HwRecords
<1>6. f \in Hw /\ SameStreams(f, hw)
  BY <1>3, <1>4, <1>5 DEF f, SameStreams
<1>7. g \in Hw /\ SameStreams(g, hw)
  <2>1. ASSUME me.spOut \in Outputs
        PROVE  /\ OutDoStandby(f, me.spOut) \in Hw
               /\ SameStreams(OutDoStandby(f, me.spOut), f)
    BY <1>6, <2>1, OutDoStandbyType, OutDoStandbyFrame
  <2> QED BY <1>2, <1>6, <2>1 DEF g, OutToStandby, SameStreams
<1>8. n \in Hw /\ SameStreams(n, hw)
  <2>1. InDoStandby(g, me.spIn) \in Hw /\ SameStreams(InDoStandby(g, me.spIn), g)
    BY <1>7, InType, InFrame
  <2> QED BY <1>7, <2>1 DEF n, InToStandby, SameStreams
<1>9. CASE UnlockMode(h, me, given)
  BY <1>3, <1>9, UnlockModeGood
<1>10. CASE /\ me.spIn # NULL /\ NeedsOutputLock(g, me.spIn)
            /\ WaitForOutput(Ctl, given, g, me.spIn,
                             IF entering THEN "m_enter" ELSE "m_leave")
  <2> DEFINE r == IF entering THEN "m_enter" ELSE "m_leave"
  <2>1. r \in {"m_enter", "m_leave"} /\ r # "s_end"
    OBVIOUS
  <2>2. me.spIn \in Inputs /\ HwSafe(Ctl, {}, given)
    BY <1>2, <1>10 DEF HwSafe
  <2> HIDE DEF r
  <2>3. WaitForOutput(Ctl, given, g, me.spIn, r)
    BY <1>10 DEF r
  <2> QED BY <1>1, <1>7, <1>10, <2>1, <2>2, <2>3, WaitGood
<1>11. CASE EnterCall(n, me, given) \/ LeaveCall(n, me, given)
  BY <1>8, <1>11, CallGood
<1> QED BY <1>9, <1>10, <1>11 DEF SwitchMode, h, j, c, f, g, n

(* setMode() looks for the active input. *)
LEMMA ModeSearchInGood ==
  ASSUME Good, NEW me \in ThreadRecords, NEW given \in SUBSET Streams,
         Free(HW), ModeSearchIn(me, given)
  PROVE  Good'
<1> DEFINE i == getActiveInput_l(hw)
           n == [me EXCEPT !.pc = "m_in", !.spIn = i]
           z == [me EXCEPT !.spIn = NULL]
           g == PrepareLock(hw, Ctl, i)
<1>1. hw \in Hw /\ Ctl \in Threads
  BY DEF Good, Threads
<1>2. i \in Inputs \union {NULL}
  BY <1>1, ActiveInputType
<1> HIDE DEF i
<1>3. z \in ThreadRecords
  BY DEF ThreadRecords
<1>4. CASE SwitchMode(z, given)
  BY <1>3, <1>4, SwitchModeGood
<1>5. CASE i # NULL /\ Step(Ctl, {}, given, g, n)
  <2>1. i \in Inputs /\ i \in Streams
    BY <1>2, <1>5 DEF Streams
  <2>2. n \in ThreadRecords /\ n.pc = "m_in" /\ n.spIn = i
    <3>1. "m_in" \in Labels
      BY DEF Labels
    <3> QED BY <2>1, <3>1 DEF ThreadRecords
  <2>3. g \in Hw /\ SameStreams(g, hw)
    BY <1>1, <2>1, CurrentType DEF PrepareLock
  <2>4. {} \in SUBSET Streams /\ given \in SUBSET (Streams \union {NULL})
    OBVIOUS
  <2> HIDE DEF n, g
  <2> QED BY <1>1, <1>5, <2>1, <2>2, <2>3, <2>4, MoveGood
<1> QED BY <1>4, <1>5 DEF ModeSearchIn, i

(* setMode() looks for an active output. *)
LEMMA ModeSearchOutGood ==
  ASSUME Good, NEW given \in SUBSET Streams, Free(HW), ModeSearchOut(given)
  PROVE  Good'
<1> DEFINE o == hw.mOutput
           n == [th[Ctl] EXCEPT !.pc = "m_out", !.spOut = o]
           z == [th[Ctl] EXCEPT !.spOut = NULL]
           g == PrepareLock(hw, Ctl, o)
<1>1. hw \in Hw /\ Ctl \in Threads /\ th[Ctl] \in ThreadRecords
  BY DEF Good, Threads
<1>2. o \in Outputs \union {NULL}
  BY <1>1 DEF Hw, HwRecords
<1> HIDE DEF o
<1>3. z \in ThreadRecords
  BY <1>1 DEF ThreadRecords
<1>4. CASE ModeSearchIn(z, given)
  BY <1>3, <1>4, ModeSearchInGood
<1>5. CASE o # NULL /\ Step(Ctl, {}, given, g, n)
  <2>1. o \in Outputs /\ o \in Streams
    BY <1>2, <1>5 DEF Streams
  <2>2. n \in ThreadRecords /\ n.pc = "m_out" /\ n.spOut = o
    <3>1. "m_out" \in Labels
      BY DEF Labels
    <3> QED BY <1>1, <2>1, <3>1 DEF ThreadRecords
  <2>3. g \in Hw /\ SameStreams(g, hw)
    BY <1>1, <2>1, CurrentType DEF PrepareLock
  <2>4. {} \in SUBSET Streams /\ given \in SUBSET (Streams \union {NULL})
    OBVIOUS
  <2> HIDE DEF n, g
  <2> QED BY <1>1, <1>5, <2>1, <2>2, <2>3, <2>4, MoveGood
<1> QED BY <1>4, <1>5 DEF ModeSearchOut, o

(* Every step of setMode() keeps the invariant. *)
LEMMA ModeGood ==
  ASSUME Good, ModeStep
  PROVE  Good'
<1> DEFINE o == th[Ctl].spOut
           i == th[Ctl].spIn
<1>1. hw \in Hw /\ SameStreams(hw, hw) /\ Ctl \in Threads
      /\ th[Ctl] \in ThreadRecords
  BY DEF Good, SameStreams, Threads
<1>2. Control(Ctl, th[Ctl], hw.mOutput, owner[HW] = Ctl)
  BY <1>1 DEF Good, ControlInv
<1>3. {} \in SUBSET Streams /\ {} \in SUBSET (Streams \union {NULL})
  OBVIOUS
<1>4. CASE ModeHw
  BY <1>3, <1>4, ModeSearchOutGood DEF ModeHw
<1>5. CASE ModeOut
  <2> DEFINE me == [th[Ctl] EXCEPT !.pc = "m_hwo"]
  <2>1. o \in Outputs /\ {o} \in SUBSET Streams
    BY <1>2, <1>5 DEF Control, ModeOut, At, Streams
  <2>2. me \in ThreadRecords /\ me.pc = "m_hwo" /\ me.spOut = o
    BY <1>1 DEF ThreadRecords, Labels
  <2>3. Step(Ctl, {o}, {}, hw, me)
    BY <1>5 DEF ModeOut
  <2> HIDE DEF me, o
  <2> QED BY <1>1, <1>3, <2>1, <2>2, <2>3, MoveGood
<1>6. CASE ModeRecheckOut
  <2> DEFINE me == [th[Ctl] EXCEPT !.spOut = NULL]
  <2>1. o \in Outputs /\ o \in Streams /\ {o} \in SUBSET Streams /\ Free(HW)
    BY <1>2, <1>6 DEF Control, ModeRecheckOut, At, Streams
  <2>2. CASE ModeSearchIn(th[Ctl], {})
    BY <1>1, <1>3, <2>1, <2>2, ModeSearchInGood
  <2>3. CASE ModeSearchOut({o})
    BY <2>1, <2>3, ModeSearchOutGood
  <2>4. CASE Step(Ctl, {HW}, {o}, hw, Destructor(me, o, "m_hw"))
    <3>1. me \in ThreadRecords /\ "m_hw" \in Labels
      BY <1>1 DEF ThreadRecords, Labels
    <3>2. HwSafe(Ctl, {HW}, {o})
      BY <2>1 DEF HwSafe
    <3> HIDE DEF me
    <3>3. /\ Destructor(me, o, "m_hw") \in ThreadRecords
          /\ Fits(Ctl, {HW}, {o}, hw, Destructor(me, o, "m_hw"))
      BY <2>1, <3>1, DestructorFits
    <3> QED BY <1>1, <2>4, <3>2, <3>3, StepGood
  <2> QED BY <1>6, <2>2, <2>3, <2>4 DEF ModeRecheckOut
<1>7. CASE ModeIn
  <2> DEFINE me == [th[Ctl] EXCEPT !.pc = "m_hwi"]
  <2>1. i \in Inputs /\ {i} \in SUBSET Streams
    BY <1>2, <1>7 DEF Control, ModeIn, At, Streams
  <2>2. me \in ThreadRecords /\ me.pc = "m_hwi" /\ me.spIn = i
    BY <1>1 DEF ThreadRecords, Labels
  <2>3. Step(Ctl, {i}, {}, hw, me)
    BY <1>7 DEF ModeIn
  <2> HIDE DEF me, i
  <2> QED BY <1>1, <1>3, <2>1, <2>2, <2>3, MoveGood
<1>8. CASE ModeRecheckIn
  <2> DEFINE me == [th[Ctl] EXCEPT !.spIn = NULL]
  <2>1. i \in Inputs /\ i \in Streams /\ {i} \in SUBSET Streams /\ Free(HW)
    BY <1>2, <1>8 DEF Control, ModeRecheckIn, At, Streams
  <2>2. CASE SwitchMode(th[Ctl], {})
    BY <1>1, <1>3, <2>1, <2>2, SwitchModeGood
  <2>3. CASE ModeSearchIn(th[Ctl], {i})
    BY <1>1, <2>1, <2>3, ModeSearchInGood
  <2>4. CASE Step(Ctl, {HW}, {i}, hw, Destructor(me, i, "m_hwi"))
    <3>1. me \in ThreadRecords /\ "m_hwi" \in Labels
      BY <1>1 DEF ThreadRecords, Labels
    <3>2. HwSafe(Ctl, {HW}, {i})
      BY <2>1 DEF HwSafe
    <3> HIDE DEF me
    <3>3. /\ Destructor(me, i, "m_hwi") \in ThreadRecords
          /\ Fits(Ctl, {HW}, {i}, hw, Destructor(me, i, "m_hwi"))
      BY <2>1, <3>1, DestructorFits
    <3> QED BY <1>1, <2>4, <3>2, <3>3, StepGood
  <2> QED BY <1>8, <2>2, <2>3, <2>4 DEF ModeRecheckIn
<1>9. CASE ModeResume
  <2>1. owner[HW] = Ctl
    BY <1>2, <1>9 DEF ModeResume, At, Control
  <2>2. EnterCall(hw, th[Ctl], {}) \/ LeaveCall(hw, th[Ctl], {})
    BY <1>9 DEF ModeResume
  <2> QED BY <1>1, <2>1, <2>2, CallGood
<1> QED BY <1>4, <1>5, <1>6, <1>7, <1>8, <1>9 DEF ModeStep

-------------------------------------------------------------------------------
(* The theorem *)

(* Destroyed or not, what is alive are streams. *)
LEMMA AliveType ==
  ASSUME alive \in SUBSET Streams, Next
  PROVE  alive' \in SUBSET Streams
<1>1. ASSUME NEW o \in Outputs, OpenOutputStream(o)
      PROVE  alive' \in SUBSET Streams
  BY <1>1 DEF OpenOutputStream, Streams
<1>2. ASSUME NEW i \in Inputs, OpenInputStream(i)
      PROVE  alive' \in SUBSET Streams
  BY <1>2 DEF OpenInputStream, Streams
<1>3. ASSUME NEW t, NEW h, EndStandby(t, h)
      PROVE  alive' \in SUBSET Streams
  BY <1>3 DEF EndStandby
<1>4. ASSUME NEW t, StandbyStep(t)
      PROVE  alive' \in SUBSET Streams
  BY <1>3, <1>4 DEF StandbyStep, StandbyLock, StandbyHw, StandbyEnd,
                    DoStandbyOut, DoStandbyIn, DoStandbyHw
<1>5. CASE Begin
  BY <1>1, <1>2, <1>5 DEF Begin, CloseInputStream, BeginRead, ChangeAec,
     CloseOutputStream, BeginWrite, BeginStandby, BeginSetMode, SetMicMute
<1>6. ASSUME NEW t \in Threads, Continue(t)
      PROVE  alive' \in SUBSET Streams
  BY <1>4, <1>6 DEF Continue, DropInput, DropOutput, WriteStep, WriteLock,
     WriteHw, WriteIn, WriteRecheck, WritePcm, ReadStep, ReadLock, ReadHw,
     ReadOut, ReadIn, ReadRecheck, ReadPcm, ModeStep, ModeHw, ModeOut,
     ModeRecheckOut, ModeIn, ModeRecheckIn, ModeResume
<1> QED BY <1>5, <1>6 DEF Next

(* The invariant holds when the HAL is created. *)
LEMMA InitType == Init => TypeInv
<1> SUFFICES ASSUME Init
             PROVE  TypeInv
  OBVIOUS
<1>1. hw \in Hw
  BY DEF Init, HwInit, Hw, HwRecords, Modes
<1>2. owner \in [Locks -> Threads \union {NULL}]
  BY DEF Init
<1>3. th \in [Threads -> ThreadRecords] /\ \A t \in Threads : th[t].pc = "idle"
  BY IdleType DEF Init
<1>4. ControlInv
  BY <1>3 DEF ControlInv, Control
<1> QED BY <1>1, <1>2, <1>3, <1>4 DEF Init, TypeInv, TypeOK, Hw

(* Every step of the system keeps the invariant. *)
LEMMA NextType == TypeInv /\ [Next]_vars => TypeInv'
<1> SUFFICES ASSUME TypeInv, [Next]_vars
             PROVE  TypeInv'
  OBVIOUS
<1>1. Good /\ alive \in SUBSET Streams
  BY DEF TypeInv, TypeOK, Good, Hw
<1>2. CASE Next
  <2>1. ASSUME Begin
        PROVE  Good'
    BY <1>1, <2>1, BeginGood
  <2>2. ASSUME NEW t \in Threads, Continue(t)
        PROVE  Good'
    <3>1. CASE StandbyStep(t)
      BY <1>1, <3>1, StandbyGood
    <3>2. CASE DropInput(t) \/ DropOutput(t)
      BY <1>1, <3>2, DropGood
    <3>3. CASE t = Playback /\ WriteStep
      BY <1>1, <3>3, WriteGood
    <3>4. CASE t \in Inputs /\ ReadStep(t)
      BY <1>1, <3>4, ReadGood
    <3>5. CASE t = Ctl /\ ModeStep
      BY <1>1, <3>5, ModeGood
    <3> QED BY <2>2, <3>1, <3>2, <3>3, <3>4, <3>5 DEF Continue
  <2>3. Good'
    BY <1>2, <2>1, <2>2 DEF Next
  <2>4. alive' \in SUBSET Streams
    BY <1>1, <1>2, AliveType
  <2> QED BY <2>3, <2>4 DEF TypeInv, TypeOK, Good, Hw
<1>3. CASE UNCHANGED vars
  BY <1>3 DEF TypeInv, TypeOK, ControlInv, vars
<1> QED BY <1>2, <1>3

(* For any number of outputs and inputs, any calls of the clients and any   *)
(* failures of the driver: every variable stays of its type, so the counts  *)
(* never go below zero and every pointer that is followed is not NULL.      *)
THEOREM TypeCorrect == Spec => []TypeOK
<1>1. TypeInv => TypeOK
  BY DEF TypeInv
<1> QED BY <1>1, InitType, NextType, PTL DEF Spec
===============================================================================
