--------------------------- MODULE AudioOrderProofs ---------------------------
(***************************************************************************)
(* The locking order "out -> in -> hw" holds for any number of streams, as  *)
(* long as no stream is closed and no echo canceller is used (with either,  *)
(* the code breaks it), and then a blocked thread waits, through at most    *)
(* three others, for one that runs.                                         *)
(***************************************************************************)
EXTENDS AudioProofs

(* There is no echo reference, and no input asks for one. *)
Quiet(h) ==
  /\ h.mEchoReference = NULL
  /\ \A s \in Streams : h.echo[s] = NULL
  /\ \A i \in Inputs : h.needEcho[i] = FALSE

(* A thread never gets into the part of doStandby_l() that waits for the    *)
(* output, nor into a destructor, and its pointers name open streams.       *)
Ordered(t, me, h) ==
  /\ me.pc \notin {"d_out", "d_in", "d_hw", "s_end", "w_fail", "m_enter", "m_leave"}
  /\ me.after \in SafeReturn
  /\ me.spOut \in {NULL, h.mOutput}
  /\ me.spIn \in {NULL} \union h.mInputs
  /\ me.pc \in {"r_in", "r_hw", "r_out", "r_in2", "r_hw2", "r_pcm"} => t \in Inputs

(* All that a thread can hold, by where it is. *)
Held(t, me, out) ==
  CASE me.pc \in {"w_hw", "w_in", "w_pcm"} -> {out}
    [] me.pc = "w_hw2"                     -> {out, me.spIn}
    [] me.pc \in {"r_hw", "r_pcm"}         -> {t}
    [] me.pc = "r_in2"                     -> {me.spOut}
    [] me.pc = "r_hw2"                     -> {me.spOut, t}
    [] me.pc \in {"m_hwo", "m_in"}         -> {me.spOut}
    [] me.pc = "m_hwi"                     -> {me.spOut, me.spIn}
    [] me.pc = "s_hw"                      -> {me.target}
    [] OTHER                               -> {}

OrderInv ==
  /\ Quiet(hw)
  /\ \A t \in Threads : Ordered(t, th[t], hw)
  /\ \A t \in Threads, l \in Locks :
       owner[l] = t => l \in Held(t, th[t], hw.mOutput)

-------------------------------------------------------------------------------
(* No helper but getEchoReference() makes an echo reference. *)

(* Nor do the reference counts of the mixer. *)
LEMMA MixerQuiet ==
  ASSUME NEW h \in Hw, Quiet(h), NEW s, NEW ok \in BOOLEAN
  PROVE  /\ Quiet(closeMixer_l(h)) /\ Quiet(openMixer_l(h, ok))
         /\ Quiet(StreamCloseMixer(h, s)) /\ Quiet(StreamOpenMixer(h, s, ok))
<1>1. Quiet(closeMixer_l(h)) /\ Quiet(openMixer_l(h, ok))
  BY DEF Quiet, closeMixer_l, openMixer_l, Hw, HwRecords
<1>2. closeMixer_l(h) \in Hw /\ openMixer_l(h, ok) \in Hw
  BY CloseMixerType, OpenMixerType
<1>3. Quiet(StreamCloseMixer(h, s))
  BY <1>1, <1>2 DEF Quiet, StreamCloseMixer, Hw, HwRecords
<1>4. Quiet(StreamOpenMixer(h, s, ok))
  BY <1>1, <1>2 DEF Quiet, StreamOpenMixer, Hw, HwRecords
<1> QED BY <1>1, <1>3, <1>4

(* Nor those of the playback PCM. *)
LEMMA PcmQuiet ==
  ASSUME NEW h \in Hw, Quiet(h), NEW ok \in BOOLEAN
  PROVE  Quiet(closePcmOut_l(h)) /\ Quiet(openPcmOut_l(h, ok))
BY DEF Quiet, closePcmOut_l, openPcmOut_l, Hw, HwRecords

(* Nor do the fields of one stream. *)
LEMMA FieldQuiet ==
  ASSUME NEW h \in Hw, Quiet(h), NEW s, NEW b \in BOOLEAN
  PROVE  /\ Quiet([h EXCEPT !.pcm[s] = b]) /\ Quiet([h EXCEPT !.standby[s] = b])
         /\ Quiet([h EXCEPT !.wakeLock = b])
BY DEF Quiet, Hw, HwRecords

(* Nor does a copy of a standby count. *)
LEMMA CurrentQuiet ==
  ASSUME NEW h \in Hw, Quiet(h), NEW t, NEW s
  PROVE  Quiet([h EXCEPT !.current[t] = s])
BY DEF Quiet, Hw, HwRecords

(* Nor do an output's close_l() and open_l(). *)
LEMMA OutQuiet ==
  ASSUME NEW h \in Hw, Quiet(h), NEW o, NEW pcmOk \in BOOLEAN, NEW mixOk \in BOOLEAN
  PROVE  Quiet(OutClose(h, o)) /\ Quiet(OutOpen(h, o, pcmOk, mixOk))
<1>1. Quiet(OutClose(h, o))
  <2> DEFINE g == StreamCloseMixer(h, o)
             k == closePcmOut_l(g)
  <2> HIDE DEF g, k
  <2>1. g \in Hw /\ Quiet(g)
    BY MixerQuiet, StreamMixerType DEF g
  <2>2. k \in Hw /\ Quiet(k)
    BY <2>1, PcmQuiet, ClosePcmType DEF k
  <2>3. Quiet([k EXCEPT !.pcm[o] = FALSE])
    BY <2>2 DEF Quiet, Hw, HwRecords
  <2> QED BY <2>1, <2>3 DEF OutClose, g, k
<1>2. Quiet(OutOpen(h, o, pcmOk, mixOk))
  <2> DEFINE g == openPcmOut_l(h, pcmOk)
             k == [g EXCEPT !.pcm[o] = TRUE]
             n == [g EXCEPT !.pcm[o] = FALSE]
  <2> HIDE DEF g, k, n
  <2>1. g \in Hw /\ Quiet(g)
    BY PcmQuiet, OpenPcmType DEF g
  <2>2. k \in Hw /\ Quiet(k) /\ Quiet(n)
    BY <2>1, SetStream, ZenonT(40) DEF Quiet, Hw, HwRecords, k, n
  <2>3. Quiet(StreamOpenMixer(k, o, mixOk))
    BY <2>2, MixerQuiet
  <2> QED BY <2>2, <2>3 DEF OutOpen, g, k, n
<1> QED BY <1>1, <1>2

(* Nor does standby of an output. *)
LEMMA OutStandbyQuiet ==
  ASSUME NEW h \in Hw, Quiet(h), NEW o \in Outputs
  PROVE  Quiet(OutDoStandby(h, o))
<1> DEFINE g == CountStandby(h, o)
           k == [g EXCEPT !.wakeLock = g.wakeLock /\ h.standby[o],
                          !.standby[o] = TRUE]
<1> HIDE DEF g, k
<1>1. g \in Hw /\ Quiet(g)
  BY CountType DEF Quiet, CountStandby, Hw, HwRecords, g
<1>2. (g.wakeLock /\ h.standby[o]) \in BOOLEAN
  OBVIOUS
<1>3. k \in Hw /\ Quiet(k)
  BY <1>1, <1>2 DEF Quiet, Hw, HwRecords, k
<1>4. Quiet(OutClose(k, o))
  BY <1>3, OutQuiet
<1> QED BY <1>4 DEF OutDoStandby, g, k

(* Nor do an input's close_l(), open_l() and standby. *)
LEMMA InQuiet ==
  ASSUME NEW h \in Hw, Quiet(h), NEW i \in Inputs, NEW pcmOk \in BOOLEAN,
         NEW mixOk \in BOOLEAN
  PROVE  /\ Quiet(InClose(h, i)) /\ Quiet(InOpen(h, i, pcmOk, mixOk))
         /\ Quiet(InDoStandby(h, i))
<1>1. ASSUME NEW k \in Hw, Quiet(k)
      PROVE  Quiet(InClose(k, i))
  <2> DEFINE g == StreamCloseMixer(k, i)
  <2> HIDE DEF g
  <2>1. g \in Hw /\ Quiet(g)
    BY <1>1, MixerQuiet, StreamMixerType DEF g
  <2>2. Quiet([g EXCEPT !.pcm[i] = FALSE])
    BY <2>1 DEF Quiet, Hw, HwRecords
  <2> QED BY <2>2 DEF InClose, g
<1>2. Quiet(InOpen(h, i, pcmOk, mixOk))
  <2> DEFINE k == [h EXCEPT !.pcm[i] = TRUE]
             n == [h EXCEPT !.pcm[i] = FALSE]
  <2> HIDE DEF k, n
  <2>1. k \in Hw /\ Quiet(k) /\ Quiet(n)
    BY SetStream, FieldQuiet DEF k, n
  <2>2. Quiet(StreamOpenMixer(k, i, mixOk))
    BY <2>1, MixerQuiet
  <2> QED BY <2>1, <2>2 DEF InOpen, k, n
<1>3. Quiet(InDoStandby(h, i))
  <2> DEFINE k == CountStandby(h, i)
             g == [k EXCEPT !.echo[i] = IF k.standby[i] THEN @ ELSE NULL,
                            !.standby[i] = TRUE]
  <2> HIDE DEF k, g
  <2>1. k \in Hw /\ Quiet(k)
    BY CountType DEF Quiet, CountStandby, Hw, HwRecords, k
  <2>2. k.echo[i] = NULL
    BY <2>1 DEF Quiet, Streams
  <2>3. g = [k EXCEPT !.echo[i] = NULL, !.standby[i] = TRUE]
    BY <2>2 DEF g
  <2>4. g \in Hw
    BY <2>1, <2>3 DEF Hw, HwRecords
  <2>5. Quiet(g)
    BY <2>1, <2>3 DEF Quiet, Hw, HwRecords
  <2> QED BY <1>1, <2>4, <2>5 DEF InDoStandby, InFinishStandby, g, k
<1> QED BY <1>1, <1>2, <1>3

-------------------------------------------------------------------------------
(* Steps *)

(* What a thread holds after a step fits where it is then. *)
Keeps(t, got, given, me) ==
  \A l \in Locks :
    l \in got \/ (l \in Held(t, th[t], hw.mOutput) /\ l \notin given)
      => l \in Held(t, me, hw.mOutput)

(* The pointers of the call name open streams. *)
OpenPointers(me) ==
  me.spOut \in {NULL, hw.mOutput} /\ me.spIn \in {NULL} \union hw.mInputs

(* A step keeps the invariant if what the thread ends with fits it. *)
LEMMA OrderStep ==
  ASSUME Good, OrderInv, NEW t \in Threads, NEW got, NEW given, NEW h \in Hw,
         NEW me \in ThreadRecords, Step(t, got, given, h, me),
         SameStreams(h, hw), Quiet(h), me.pc = "idle" \/ Ordered(t, me, hw),
         Keeps(t, got, given, me)
  PROVE  OrderInv'
<1>1. /\ hw' \in Hw /\ SameStreams(hw', h)
      /\ th'[t] = IF me.pc = "idle" THEN IdleThread ELSE me
      /\ \A u \in Threads \ {t} : th'[u] = th[u]
      /\ \A l \in Locks : owner'[l] = IF l \in got THEN t
                                      ELSE IF l \in given THEN NULL
                                      ELSE owner[l]
  BY StepType, SMTT(20)
<1>2. Quiet(hw')
  <2>1. hw' = h \/ hw' = [h EXCEPT !.current[t] = NULL]
    BY DEF Step
  <2> QED BY <2>1, CurrentQuiet
<1>3. hw'.mOutput = hw.mOutput /\ hw'.mInputs = hw.mInputs
  BY <1>1 DEF SameStreams
<1>4. ASSUME NEW u \in Threads
      PROVE  Ordered(u, th'[u], hw')
  <2>1. CASE u # t
    BY <1>1, <1>3, <2>1 DEF OrderInv, Ordered
  <2>2. CASE u = t /\ me.pc = "idle"
    BY <1>1, <2>2 DEF Ordered, IdleThread, SafeReturn
  <2>3. CASE u = t /\ me.pc # "idle"
    BY <1>1, <1>3, <2>3 DEF Ordered
  <2> QED BY <2>1, <2>2, <2>3
<1>5. ASSUME NEW u \in Threads, NEW l \in Locks, owner'[l] = u
      PROVE  l \in Held(u, th'[u], hw'.mOutput)
  <2>1. u # NULL
    BY ThreadAssumption
  <2>2. CASE u # t
    <3>1. owner[l] = u
      BY <1>1, <1>5, <2>1, <2>2
    <3> QED BY <1>1, <1>3, <2>2, <3>1 DEF OrderInv
  <2>3. CASE u = t
    <3>1. l \in got \/ (l \notin given /\ owner[l] = t)
      BY <1>1, <1>5, <2>1, <2>3
    <3>2. l \in Held(t, me, hw.mOutput)
      BY <3>1 DEF OrderInv, Keeps
    <3>3. CASE me.pc = "idle"
      BY <3>2, <3>3 DEF Held
    <3>4. CASE me.pc # "idle"
      BY <1>1, <1>3, <2>3, <3>2, <3>4
    <3> QED BY <3>3, <3>4
  <2> QED BY <2>2, <2>3
<1> QED BY <1>2, <1>4, <1>5 DEF OrderInv

(* A thread calls standby() when it has released everything. *)
LEMMA OrderStandby ==
  ASSUME Good, OrderInv, NEW t \in Threads, NEW given, NEW h \in Hw,
         SameStreams(h, hw), Quiet(h), NEW me \in ThreadRecords, OpenPointers(me),
         NEW s \in Streams, NEW next \in SafeReturn,
         \A l \in Locks : l \in Held(t, th[t], hw.mOutput) => l \in given,
         Step(t, {}, given, h, CallStandby(me, s, next))
  PROVE  OrderInv'
<1> DEFINE n == CallStandby(me, s, next)
<1>1. n \in ThreadRecords
  BY CallStandbyFits
<1>2. /\ n.pc = "s_lock" /\ n.after = next /\ n.spOut = me.spOut
      /\ n.spIn = me.spIn
  BY DEF CallStandby, ThreadRecords
<1> HIDE DEF n
<1>3. Ordered(t, n, hw)
  BY <1>2 DEF Ordered, OpenPointers
<1>4. Keeps(t, {}, given, n)
  BY DEF Keeps
<1> QED BY <1>1, <1>3, <1>4, OrderStep DEF n

(* A thread moves on within a call. *)
LEMMA OrderMove ==
  ASSUME Good, OrderInv, NEW t \in Threads, NEW got, NEW given, NEW h \in Hw,
         SameStreams(h, hw), Quiet(h), NEW me \in ThreadRecords,
         \/ me.pc = "idle"
         \/ /\ OpenPointers(me) /\ me.after \in SafeReturn
            /\ me.pc \notin {"d_out", "d_in", "d_hw", "s_end", "w_fail", "m_enter",
                             "m_leave"}
            /\ me.pc \in {"r_in", "r_hw", "r_out", "r_in2", "r_hw2", "r_pcm"}
                 => t \in Inputs,
         Keeps(t, got, given, me), Step(t, got, given, h, me)
  PROVE  OrderInv'
<1>1. me.pc = "idle" \/ Ordered(t, me, hw)
  BY DEF Ordered, OpenPointers
<1> QED BY <1>1, OrderStep

(* What is known of the thread that takes a step. *)
LEMMA OrderFacts ==
  ASSUME Good, OrderInv, NEW t \in Threads
  PROVE  /\ hw \in Hw /\ SameStreams(hw, hw) /\ Quiet(hw)
         /\ th[t] \in ThreadRecords /\ OpenPointers(th[t])
         /\ th[t].after \in SafeReturn /\ Ordered(t, th[t], hw)
         /\ Control(t, th[t], hw.mOutput, owner[HW] = t)
BY DEF Good, OrderInv, SameStreams, ControlInv, OpenPointers, Ordered

(* Without an echo reference doStandby_l() never waits for the output. *)
LEMMA NoWait ==
  ASSUME NEW h, Quiet(h), NEW i \in Inputs
  PROVE  ~NeedsOutputLock(h, i)
BY DEF Quiet, NeedsOutputLock, Streams

-------------------------------------------------------------------------------
(* The calls the clients begin *)

(* Every call the clients begin keeps the order. *)
LEMMA OrderBegin ==
  ASSUME Good, OrderInv, "close" \notin Calls, "aec" \notin Calls, Begin
  PROVE  OrderInv'
<1>1. Playback \in Threads /\ Ctl \in Threads /\ Inputs \subseteq Threads
  BY DEF Threads
<1>2. /\ hw.mOutput \in Outputs \union {NULL} /\ hw.mInputs \subseteq Inputs
  BY DEF Good, Hw, HwRecords
<1>3. ASSUME NEW o \in Outputs, OpenOutputStream(o)
      PROVE  OrderInv'
  <2>1. /\ th' = th /\ owner' = owner /\ hw.mOutput = NULL /\ th[Playback].pc = "idle"
        /\ hw'.mOutput = o /\ hw'.mInputs = hw.mInputs
    BY <1>3 DEF OpenOutputStream, At, Good, Hw, HwRecords
  <2>2. Quiet(hw')
    BY <1>3 DEF OpenOutputStream, OrderInv, Quiet, Good, Hw, HwRecords
  <2>3. ASSUME NEW t \in Threads
        PROVE  Ordered(t, th'[t], hw')
    BY <2>1 DEF OrderInv, Ordered
  <2>4. ASSUME NEW t \in Threads
        PROVE  Held(t, th[t], hw.mOutput) = Held(t, th'[t], hw'.mOutput)
    <3>1. Control(t, th[t], hw.mOutput, owner[HW] = t)
      BY DEF Good, ControlInv
    <3>2. th[t].pc \notin {"w_hw", "w_in", "w_pcm", "w_hw2"}
      BY <2>1, <3>1 DEF Control
    <3> QED BY <2>1, <3>2 DEF Held
  <2> QED BY <2>1, <2>2, <2>3, <2>4 DEF OrderInv
<1>4. ASSUME NEW i \in Inputs, OpenInputStream(i)
      PROVE  OrderInv'
  <2>1. /\ th' = th /\ owner' = owner /\ hw'.mOutput = hw.mOutput
        /\ hw'.mInputs = hw.mInputs \union {i}
    BY <1>4 DEF OpenInputStream, Good, Hw, HwRecords
  <2>2. Quiet(hw')
    BY <1>4 DEF OpenInputStream, OrderInv, Quiet, Good, Hw, HwRecords
  <2> QED BY <2>1, <2>2 DEF OrderInv, Ordered
<1>5. CASE BeginWrite
  <2> DEFINE me == [th[Playback] EXCEPT !.pc = "w_out"]
  <2>1. /\ me \in ThreadRecords /\ me.pc = "w_out" /\ OpenPointers(me)
        /\ me.after \in SafeReturn
    BY <1>1, OrderFacts DEF ThreadRecords, Labels, OpenPointers
  <2>2. Step(Playback, {}, {}, hw, me) /\ th[Playback].pc = "idle"
    BY <1>5 DEF BeginWrite, At
  <2>3. Keeps(Playback, {}, {}, me)
    BY <2>2 DEF Keeps, Held
  <2> HIDE DEF me
  <2> QED BY <1>1, <2>1, <2>2, <2>3, OrderFacts, OrderMove
<1>6. ASSUME NEW i \in Inputs, BeginRead(i)
      PROVE  OrderInv'
  <2> DEFINE me == [th[i] EXCEPT !.pc = "r_in"]
  <2>1. /\ me \in ThreadRecords /\ me.pc = "r_in" /\ OpenPointers(me)
        /\ me.after \in SafeReturn
    BY <1>1, OrderFacts DEF ThreadRecords, Labels, OpenPointers
  <2>2. Step(i, {}, {}, hw, me) /\ th[i].pc = "idle"
    BY <1>6 DEF BeginRead, At
  <2>3. Keeps(i, {}, {}, me)
    BY <2>2 DEF Keeps, Held
  <2> HIDE DEF me
  <2> QED BY <1>1, <2>1, <2>2, <2>3, OrderFacts, OrderMove
<1>7. ASSUME NEW m \in Modes, BeginSetMode(m)
      PROVE  OrderInv'
  <2> DEFINE me == [th[Ctl] EXCEPT !.pc = "m_hw", !.mode = m]
  <2>1. /\ me \in ThreadRecords /\ me.pc = "m_hw" /\ OpenPointers(me)
        /\ me.after \in SafeReturn
    <3>1. "m_hw" \in Labels
      BY DEF Labels
    <3>2. /\ th[Ctl] \in ThreadRecords /\ OpenPointers(th[Ctl])
          /\ th[Ctl].after \in SafeReturn
      BY <1>1, OrderFacts
    <3> QED BY <3>1, <3>2 DEF ThreadRecords, OpenPointers
  <2>2. Step(Ctl, {}, {}, hw, me) /\ th[Ctl].pc = "idle"
    BY <1>7 DEF BeginSetMode, At
  <2>3. Keeps(Ctl, {}, {}, me)
    BY <2>2 DEF Keeps, Held
  <2> HIDE DEF me
  <2> QED BY <1>1, <2>1, <2>2, <2>3, OrderFacts, OrderMove
<1>8. CASE SetMicMute
  <2> DEFINE i  == getActiveInput_l(hw)
             me == [th[Ctl] EXCEPT !.spIn = i]
  <2>1. i \in Streams /\ i \in Inputs /\ i \in hw.mInputs
    BY <1>1, <1>2, <1>8, ActiveInputType, OrderFacts DEF SetMicMute, Streams
  <2>2. Step(Ctl, {}, {}, hw, CallStandby(me, i, "c_dropIn")) /\ th[Ctl].pc = "idle"
    BY <1>8 DEF SetMicMute, At
  <2> HIDE DEF i
  <2>3. me \in ThreadRecords /\ OpenPointers(me)
    BY <1>1, <2>1, OrderFacts DEF ThreadRecords, OpenPointers
  <2>4. "c_dropIn" \in SafeReturn
    BY DEF SafeReturn
  <2>5. Held(Ctl, th[Ctl], hw.mOutput) = {}
    BY <2>2 DEF Held
  <2> HIDE DEF me
  <2> QED BY <1>1, <2>1, <2>2, <2>3, <2>4, <2>5, OrderFacts, OrderStandby
<1>9. ASSUME NEW t \in Threads, NEW op \in {"standby", "routing"},
             BeginStandby(t, op)
      PROVE  OrderInv'
  <2> DEFINE me == [th[t] EXCEPT !.pc = "s_lock", !.target = MyStream(t),
                                 !.op = op, !.after = "idle"]
  <2>1. MyStream(t) \in Streams
    BY <1>2, <1>9 DEF BeginStandby, MyStream, Streams
  <2>2. me \in ThreadRecords
    <3>1. {"s_lock", "idle"} \subseteq Labels
      BY DEF Labels
    <3>2. th[t] \in ThreadRecords
      BY OrderFacts
    <3> QED BY <2>1, <3>1, <3>2 DEF ThreadRecords
  <2>3. /\ me.pc = "s_lock" /\ me.after = "idle" /\ me.spOut = th[t].spOut
        /\ me.spIn = th[t].spIn
    BY OrderFacts DEF ThreadRecords
  <2>4. Step(t, {}, {}, hw, me) /\ th[t].pc = "idle"
    BY <1>9 DEF BeginStandby, At
  <2> HIDE DEF me
  <2>5. Keeps(t, {}, {}, me)
    BY <2>4 DEF Keeps, Held
  <2>6. OpenPointers(me) /\ me.after \in SafeReturn
    BY <2>3, OrderFacts DEF OpenPointers, SafeReturn
  <2> QED BY <2>2, <2>3, <2>4, <2>5, <2>6, OrderFacts, OrderMove
<1> QED BY <1>3, <1>4, <1>5, <1>6, <1>7, <1>8, <1>9
        DEF Begin, CloseOutputStream, CloseInputStream, ChangeAec

-------------------------------------------------------------------------------
(* standby() and the pointers that go out of scope *)

(* standby() returns with nothing held. *)
LEMMA OrderEndStandby ==
  ASSUME Good, OrderInv, NEW t \in Threads, NEW h \in Hw, SameStreams(h, hw),
         Quiet(h), th[t].pc = "s_hw", EndStandby(t, h)
  PROVE  OrderInv'
<1> DEFINE me == [th[t] EXCEPT !.pc = th[t].after, !.target = NULL, !.op = "none",
                               !.after = "idle", !.resume = "none"]
<1>1. /\ th[t] \in ThreadRecords /\ OpenPointers(th[t])
      /\ th[t].after \in SafeReturn
  BY OrderFacts
<1>2. me \in ThreadRecords
  <2>1. "idle" \in Labels
    BY DEF Labels
  <2> QED BY <1>1, <2>1 DEF ThreadRecords
<1>3. /\ me.pc \in SafeReturn /\ me.after = "idle" /\ me.spOut = th[t].spOut
      /\ me.spIn = th[t].spIn
  BY <1>1 DEF ThreadRecords
<1>4. Step(t, {}, {HW, th[t].target}, h, me)
  BY DEF EndStandby
<1> HIDE DEF me
<1>5. Keeps(t, {}, {HW, th[t].target}, me)
  BY DEF Keeps, Held
<1>6. OpenPointers(me) /\ me.after \in SafeReturn
  BY <1>1, <1>3 DEF OpenPointers, SafeReturn
<1> QED BY <1>2, <1>3, <1>4, <1>5, <1>6, OrderMove DEF SafeReturn

(* Every step of standby() keeps the order. *)
LEMMA OrderStandbyStep ==
  ASSUME Good, OrderInv, NEW t \in Threads, StandbyStep(t)
  PROVE  OrderInv'
<1> DEFINE s == th[t].target
<1>1. /\ hw \in Hw /\ SameStreams(hw, hw) /\ Quiet(hw) /\ th[t] \in ThreadRecords
      /\ OpenPointers(th[t]) /\ th[t].after \in SafeReturn
      /\ Ordered(t, th[t], hw) /\ Control(t, th[t], hw.mOutput, owner[HW] = t)
  BY OrderFacts
<1>2. CASE StandbyLock(t)
  <2> DEFINE me == [th[t] EXCEPT !.pc = "s_hw"]
  <2>1. Step(t, {s}, {}, hw, me) /\ th[t].pc = "s_lock"
    BY <1>2 DEF StandbyLock, At
  <2>2. me \in ThreadRecords /\ me.pc = "s_hw" /\ me.target = s
    BY <1>1 DEF ThreadRecords, Labels
  <2>3. OpenPointers(me) /\ me.after \in SafeReturn
    BY <1>1 DEF ThreadRecords, OpenPointers
  <2> HIDE DEF me
  <2>4. Keeps(t, {s}, {}, me)
    BY <2>1, <2>2 DEF Keeps, Held
  <2> QED BY <1>1, <2>1, <2>2, <2>3, <2>4, OrderMove
<1>3. CASE StandbyHw(t)
  <2>1. s \in Streams /\ th[t].pc = "s_hw"
    BY <1>1, <1>3 DEF StandbyHw, Control, At
  <2>2. CASE EndStandby(t, hw)
    BY <1>1, <2>1, <2>2, OrderEndStandby
  <2>3. CASE s \in Outputs /\ EndStandby(t, OutDoStandby(hw, s))
    BY <1>1, <2>1, <2>3, OutDoStandbyType, OutDoStandbyFrame, OutStandbyQuiet,
       OrderEndStandby
  <2>4. CASE s \notin Outputs /\ NeedsOutputLock(hw, s)
    BY <1>1, <2>1, <2>4, NoWait DEF Streams
  <2>5. CASE s \notin Outputs /\ EndStandby(t, InDoStandby(hw, s))
    <3>1. s \in Inputs
      BY <2>1, <2>5 DEF Streams
    <3>2. InDoStandby(hw, s) \in Hw /\ SameStreams(InDoStandby(hw, s), hw)
      BY <1>1, InType, InFrame
    <3>3. Quiet(InDoStandby(hw, s))
      BY <1>1, <3>1, InQuiet
    <3> QED BY <2>1, <2>5, <3>2, <3>3, OrderEndStandby
  <2> QED BY <1>3, <2>2, <2>3, <2>4, <2>5 DEF StandbyHw
<1> QED BY <1>1, <1>2, <1>3 DEF StandbyStep, StandbyEnd, DoStandbyOut, DoStandbyIn,
        DoStandbyHw, At, Ordered

(* No pointer that goes out of scope is the last one to its stream. *)
LEMMA OrderDrop ==
  ASSUME Good, OrderInv, NEW t \in Threads, DropInput(t) \/ DropOutput(t)
  PROVE  OrderInv'
<1>1. /\ hw \in Hw /\ SameStreams(hw, hw) /\ Quiet(hw) /\ th[t] \in ThreadRecords
      /\ OpenPointers(th[t]) /\ th[t].after \in SafeReturn
  BY OrderFacts
<1>2. ASSUME NEW me \in ThreadRecords, OpenPointers(me), me.after \in SafeReturn,
             NEW next \in SafeReturn, Step(t, {}, {}, hw, [me EXCEPT !.pc = next]),
             th[t].pc \in {"m_dropIn", "c_dropIn", "m_dropOut", "c_dropOut"}
      PROVE  OrderInv'
  <2> DEFINE n == [me EXCEPT !.pc = next]
  <2>1. next \in Labels
    BY DEF Labels, SafeReturn
  <2>2. n \in ThreadRecords /\ n.pc = next
    BY <2>1 DEF ThreadRecords
  <2>3. OpenPointers(n) /\ n.after \in SafeReturn
    BY <1>2 DEF ThreadRecords, OpenPointers
  <2>4. Step(t, {}, {}, hw, n)
    BY <1>2
  <2> HIDE DEF n
  <2>5. Keeps(t, {}, {}, n)
    BY <1>2 DEF Keeps, Held
  <2> QED BY <1>1, <2>2, <2>3, <2>4, <2>5, OrderMove DEF SafeReturn
<1>3. CASE DropInput(t)
  <2> DEFINE i    == th[t].spIn
             next == IF At(t, "m_dropIn") THEN "m_dropOut" ELSE "idle"
             me   == [th[t] EXCEPT !.spIn = NULL]
  <2>1. i # NULL => HeldElsewhere(i, hw, t)
    BY <1>1 DEF OpenPointers, HeldElsewhere
  <2>2. /\ Step(t, {}, {}, hw, [me EXCEPT !.pc = next])
        /\ th[t].pc \in {"m_dropIn", "c_dropIn"}
    BY <1>3, <2>1 DEF DropInput
  <2>3. me \in ThreadRecords /\ OpenPointers(me) /\ me.after \in SafeReturn
        /\ next \in SafeReturn
    BY <1>1 DEF ThreadRecords, OpenPointers, SafeReturn
  <2> HIDE DEF me, next
  <2> QED BY <1>2, <2>2, <2>3
<1>4. CASE DropOutput(t)
  <2> DEFINE o    == th[t].spOut
             next == IF At(t, "c_dropOut") THEN "c_dropIn" ELSE "idle"
             me   == [th[t] EXCEPT !.spOut = NULL]
  <2>1. o # NULL => HeldElsewhere(o, hw, t)
    BY <1>1 DEF OpenPointers, HeldElsewhere
  <2>2. /\ Step(t, {}, {}, hw, [me EXCEPT !.pc = next])
        /\ th[t].pc \in {"m_dropOut", "c_dropOut"}
    BY <1>4, <2>1 DEF DropOutput
  <2>3. me \in ThreadRecords /\ OpenPointers(me) /\ me.after \in SafeReturn
        /\ next \in SafeReturn
    BY <1>1 DEF ThreadRecords, OpenPointers, SafeReturn
  <2> HIDE DEF me, next
  <2> QED BY <1>2, <2>2, <2>3
<1> QED BY <1>3, <1>4

-------------------------------------------------------------------------------
(* write() *)

(* write() opens the output holding only its mutex and that of the input it *)
(* has closed.                                                              *)
LEMMA OrderWriteOpen ==
  ASSUME Good, OrderInv, NEW h \in Hw, SameStreams(h, hw), Quiet(h),
         NEW i \in Inputs \union {NULL}, NEW given \in SUBSET Streams,
         hw.mOutput \in Outputs,
         Held(Playback, th[Playback], hw.mOutput) \subseteq
           given \union {i, hw.mOutput},
         WriteOpen(h, i, given)
  PROVE  OrderInv'
<1>1. PICK pcmOk, inOk \in Answers("pcm"), mixOk, inMixOk \in Answers("mixer") :
        LET o == h.mOutput
            g == OutOpen(h, o, pcmOk, mixOk)
            k == IF i = NULL THEN g ELSE InOpen(g, i, inOk, inMixOk)
            failed == i # NULL /\ ~k.pcm[i]
            n  == IF failed THEN InDoStandby(k, i) ELSE k
            me == [th[Playback] EXCEPT !.spIn = NULL]
        IN  IF failed /\ NeedsOutputLock(k, i)
            THEN WaitForOutput(Playback, given, k, i, "w_fail")
            ELSE IF n.pcm[o]
            THEN Step(Playback, {}, given \union {i},
                      [n EXCEPT !.standby[o] = FALSE], [me EXCEPT !.pc = "w_pcm"])
            ELSE Step(Playback, {}, given \union {i, o},
                      [n EXCEPT !.wakeLock = FALSE], CallStandby(me, o, "idle"))
  BY DEF WriteOpen
<1>0. /\ pcmOk \in BOOLEAN /\ inOk \in BOOLEAN
      /\ mixOk \in BOOLEAN /\ inMixOk \in BOOLEAN
  BY AnswersType
<1> DEFINE o == h.mOutput
           g == OutOpen(h, o, pcmOk, mixOk)
           k == IF i = NULL THEN g ELSE InOpen(g, i, inOk, inMixOk)
           failed == i # NULL /\ ~k.pcm[i]
           n  == IF failed THEN InDoStandby(k, i) ELSE k
           me == [th[Playback] EXCEPT !.spIn = NULL]
           w  == [me EXCEPT !.pc = "w_pcm"]
           x  == [n EXCEPT !.standby[o] = FALSE]
           y  == [n EXCEPT !.wakeLock = FALSE]
<1> HIDE DEF o, g, k, n, me, w, x, y
<1>2. /\ Playback \in Threads /\ th[Playback] \in ThreadRecords
      /\ OpenPointers(th[Playback]) /\ th[Playback].after \in SafeReturn
  BY OrderFacts DEF Threads
<1>3. o = hw.mOutput /\ o \in Outputs /\ o \in Streams
  BY DEF SameStreams, Streams, o
<1>4. g \in Hw /\ SameStreams(g, hw) /\ Quiet(g)
  <2>1. g \in Hw /\ SameStreams(g, h) /\ Quiet(g)
    BY <1>0, <1>3, OutType, OutFrame, OutQuiet DEF g
  <2> QED BY <2>1 DEF SameStreams
<1>5. k \in Hw /\ SameStreams(k, hw) /\ Quiet(k)
  <2>1. /\ InOpen(g, i, inOk, inMixOk) \in Hw
        /\ SameStreams(InOpen(g, i, inOk, inMixOk), g)
    BY <1>0, <1>4, InType, InFrame
  <2>2. i # NULL => Quiet(InOpen(g, i, inOk, inMixOk))
    BY <1>0, <1>4, InQuiet
  <2> QED BY <1>4, <2>1, <2>2 DEF k, SameStreams
<1>6. n \in Hw /\ SameStreams(n, hw) /\ Quiet(n)
  <2>1. InDoStandby(k, i) \in Hw /\ SameStreams(InDoStandby(k, i), k)
    BY <1>5, InType, InFrame
  <2>2. i # NULL => Quiet(InDoStandby(k, i))
    BY <1>0, <1>5, InQuiet
  <2> QED BY <1>5, <2>1, <2>2 DEF n, SameStreams
<1>7. x \in Hw /\ SameStreams(x, hw) /\ y \in Hw /\ SameStreams(y, hw)
  BY <1>6 DEF Hw, HwRecords, SameStreams, x, y
<1>8. Quiet(x) /\ Quiet(y)
  BY <1>6, FieldQuiet DEF x, y
<1>9. me \in ThreadRecords /\ OpenPointers(me) /\ me.after \in SafeReturn
  BY <1>2 DEF ThreadRecords, OpenPointers, me
<1>10. /\ w \in ThreadRecords /\ w.pc = "w_pcm" /\ OpenPointers(w)
       /\ w.after \in SafeReturn
  BY <1>9 DEF ThreadRecords, Labels, OpenPointers, w
<1>11. ~(failed /\ NeedsOutputLock(k, i))
  BY <1>5, NoWait
<1>12. CASE Step(Playback, {}, given \union {i}, x, w)
  <2>1. Keeps(Playback, {}, given \union {i}, w)
    BY <1>3, <1>10 DEF Keeps, Held
  <2> QED BY <1>2, <1>7, <1>8, <1>10, <1>12, <2>1, OrderMove
<1>13. CASE Step(Playback, {}, given \union {i, o}, y, CallStandby(me, o, "idle"))
  <2>1. "idle" \in SafeReturn
    BY DEF SafeReturn
  <2> QED BY <1>2, <1>3, <1>7, <1>8, <1>9, <1>13, <2>1, OrderStandby
<1> QED BY <1>1, <1>11, <1>12, <1>13 DEF o, g, k, n, me, w, x, y

(* write() waits for an input holding only the output. *)
LEMMA OrderWriteSearch ==
  ASSUME Good, OrderInv, NEW h \in Hw, SameStreams(h, hw), Quiet(h),
         NEW given \in SUBSET Streams, hw.mOutput \in Outputs,
         Held(Playback, th[Playback], hw.mOutput) \subseteq given \union {hw.mOutput},
         WriteSearch(h, given)
  PROVE  OrderInv'
<1> DEFINE i  == getActiveInput_l(h)
           me == [th[Playback] EXCEPT !.pc = "w_in", !.spIn = i]
           g  == PrepareLock(h, Playback, i)
<1>1. /\ Playback \in Threads /\ th[Playback] \in ThreadRecords
      /\ OpenPointers(th[Playback]) /\ th[Playback].after \in SafeReturn
  BY OrderFacts DEF Threads
<1>2. /\ i \in Inputs \union {NULL}
      /\ i # NULL => i \in hw.mInputs
  BY ActiveInputType DEF SameStreams
<1> HIDE DEF i
<1>3. CASE WriteOpen(h, NULL, given)
  <2>1. Held(Playback, th[Playback], hw.mOutput)
          \subseteq given \union {NULL, hw.mOutput}
    OBVIOUS
  <2> QED BY <1>3, <2>1, OrderWriteOpen
<1>4. CASE i # NULL /\ Step(Playback, {}, given, g, me)
  <2>1. i \in Inputs /\ i \in hw.mInputs /\ i \in Streams
    BY <1>2, <1>4 DEF Streams
  <2>2. "w_in" \in Labels
    BY DEF Labels
  <2>3. me \in ThreadRecords
    BY <1>1, <2>1, <2>2 DEF ThreadRecords
  <2>4. /\ me.pc = "w_in" /\ me.spIn = i /\ me.spOut = th[Playback].spOut
        /\ me.after = th[Playback].after
    BY <1>1 DEF ThreadRecords
  <2> HIDE DEF me
  <2>5. OpenPointers(me) /\ me.after \in SafeReturn
    BY <1>1, <2>1, <2>4 DEF OpenPointers
  <2>6. Keeps(Playback, {}, given, me)
    BY <2>4 DEF Keeps, Held
  <2>7. g \in Hw /\ SameStreams(g, hw) /\ Quiet(g)
    BY <2>1, CurrentType, CurrentQuiet DEF PrepareLock, SameStreams
  <2> HIDE DEF g
  <2> QED BY <1>1, <1>4, <2>3, <2>4, <2>5, <2>6, <2>7, OrderMove
<1> QED BY <1>3, <1>4 DEF WriteSearch, i

(* Every step of write() keeps the order. *)
LEMMA OrderWrite ==
  ASSUME Good, OrderInv, WriteStep
  PROVE  OrderInv'
<1> DEFINE p == th[Playback]
           o == hw.mOutput
           i == p.spIn
<1>1. /\ hw \in Hw /\ SameStreams(hw, hw) /\ Quiet(hw) /\ Playback \in Threads
      /\ p \in ThreadRecords /\ OpenPointers(p) /\ p.after \in SafeReturn
      /\ Control(Playback, p, o, owner[HW] = Playback)
  BY OrderFacts DEF Threads
<1>2. o \in Outputs /\ o \in Streams
  BY <1>1 DEF WriteStep, WriteLock, WriteHw, WriteIn, WriteRecheck, WritePcm, At,
              Control, Streams
<1>3. CASE WriteLock
  <2> DEFINE me == [p EXCEPT !.pc = IF hw.standby[o] THEN "w_hw" ELSE "w_pcm"]
  <2>1. me \in ThreadRecords /\ me.pc \in {"w_hw", "w_pcm"}
    <3>1. {"w_hw", "w_pcm"} \subseteq Labels
      BY DEF Labels
    <3> QED BY <1>1, <3>1 DEF ThreadRecords
  <2>2. OpenPointers(me) /\ me.after \in SafeReturn
    BY <1>1 DEF ThreadRecords, OpenPointers
  <2>3. Step(Playback, {o}, {}, hw, me) /\ p.pc = "w_out"
    BY <1>3 DEF WriteLock, At
  <2> HIDE DEF me
  <2>4. Keeps(Playback, {o}, {}, me)
    BY <2>1, <2>3 DEF Keeps, Held
  <2> QED BY <1>1, <2>1, <2>2, <2>3, <2>4, OrderMove
<1>4. CASE WriteHw
  <2> DEFINE g == [hw EXCEPT !.wakeLock = TRUE]
  <2>1. g \in Hw /\ SameStreams(g, hw) /\ Quiet(g)
    BY <1>1, FieldQuiet DEF Hw, HwRecords, SameStreams
  <2>2. WriteSearch(g, {}) /\ p.pc = "w_hw"
    BY <1>4 DEF WriteHw, At
  <2> HIDE DEF g
  <2>3. Held(Playback, p, o) \subseteq {} \union {o}
    BY <2>2 DEF Held
  <2> QED BY <1>2, <2>1, <2>2, <2>3, OrderWriteSearch
<1>5. CASE WriteIn
  <2> DEFINE me == [p EXCEPT !.pc = "w_hw2"]
  <2>1. me \in ThreadRecords /\ me.pc = "w_hw2" /\ me.spIn = i
    BY <1>1 DEF ThreadRecords, Labels
  <2>2. OpenPointers(me) /\ me.after \in SafeReturn
    BY <1>1 DEF ThreadRecords, OpenPointers
  <2>3. Step(Playback, {i}, {}, hw, me) /\ p.pc = "w_in"
    BY <1>5 DEF WriteIn, At
  <2> HIDE DEF me
  <2>4. Keeps(Playback, {i}, {}, me)
    BY <2>1, <2>3 DEF Keeps, Held
  <2> QED BY <1>1, <2>1, <2>2, <2>3, <2>4, OrderMove
<1>6. CASE WriteRecheck
  <2>1. i \in Inputs /\ i \in Streams /\ p.pc = "w_hw2"
    BY <1>1, <1>6 DEF Control, WriteRecheck, At, Streams
  <2>2. Held(Playback, p, o) = {o, i}
    BY <2>1 DEF Held
  <2>3. HeldElsewhere(i, hw, Playback)
    <3>1. i \in {NULL} \union hw.mInputs
      BY <1>1 DEF OpenPointers
    <3>2. i # NULL
      BY <2>1, StreamAssumption
    <3> QED BY <3>1, <3>2 DEF HeldElsewhere
  <2>4. CASE WriteOpen(InClose(hw, i), i, {})
    <3>1. InClose(hw, i) \in Hw /\ SameStreams(InClose(hw, i), hw)
          /\ Quiet(InClose(hw, i))
      BY <1>1, <2>1, InType, InFrame, InQuiet
    <3>2. Held(Playback, p, o) \subseteq {} \union {i, o}
      BY <2>2
    <3> QED BY <1>2, <2>1, <2>4, <3>1, <3>2, OrderWriteOpen
  <2>5. CASE WriteSearch(hw, {i})
    <3>1. Held(Playback, p, o) \subseteq {i} \union {o}
      BY <2>2
    <3> QED BY <1>1, <1>2, <2>1, <2>5, <3>1, OrderWriteSearch
  <2> QED BY <1>6, <2>3, <2>4, <2>5 DEF WriteRecheck
<1>7. CASE WritePcm
  <2>1. "idle" \in SafeReturn /\ p.pc = "w_pcm"
    BY <1>7 DEF SafeReturn, WritePcm, At
  <2>2. Held(Playback, p, o) = {o}
    BY <2>1 DEF Held
  <2>3. CASE Step(Playback, {}, {o}, hw, IdleThread)
    <3>1. Keeps(Playback, {}, {o}, IdleThread)
      BY <2>2 DEF Keeps
    <3> QED BY <1>1, <2>3, <3>1, IdleType, OrderMove
  <2>4. CASE Step(Playback, {}, {o}, hw, CallStandby(p, o, "idle"))
    BY <1>1, <1>2, <2>1, <2>2, <2>4, OrderStandby
  <2> QED BY <1>7, <2>3, <2>4 DEF WritePcm
<1> QED BY <1>3, <1>4, <1>5, <1>6, <1>7 DEF WriteStep

-------------------------------------------------------------------------------
(* read() *)

(* read() opens the input holding only its own mutex and the output's. *)
LEMMA OrderReadOpen ==
  ASSUME Good, OrderInv, NEW i \in Inputs, NEW h \in Hw, SameStreams(h, hw),
         Quiet(h), NEW given \in SUBSET Streams,
         Held(i, th[i], hw.mOutput) \subseteq given \union {i},
         ReadOpen(i, h, given)
  PROVE  OrderInv'
<1>1. PICK pcmOk \in Answers("pcm"), mixOk \in Answers("mixer") :
        LET k  == InOpen(h, i, pcmOk, mixOk)
            me == [th[i] EXCEPT !.spOut = NULL]
        IN  IF k.pcm[i]
            THEN Step(i, {}, given, [k EXCEPT !.standby[i] = FALSE],
                      [me EXCEPT !.pc = "r_pcm"])
            ELSE Step(i, {}, given \union {i}, k, CallStandby(me, i, "idle"))
  BY DEF ReadOpen
<1> DEFINE k  == InOpen(h, i, pcmOk, mixOk)
           me == [th[i] EXCEPT !.spOut = NULL]
           x  == [k EXCEPT !.standby[i] = FALSE]
           w  == [me EXCEPT !.pc = "r_pcm"]
<1> HIDE DEF k, me, x, w
<1>2. pcmOk \in BOOLEAN /\ mixOk \in BOOLEAN
  BY AnswersType
<1>3. /\ i \in Threads /\ i \in Streams /\ "idle" \in SafeReturn
      /\ th[i] \in ThreadRecords /\ OpenPointers(th[i]) /\ th[i].after \in SafeReturn
  BY OrderFacts DEF Threads, Streams, SafeReturn
<1>4. k \in Hw /\ SameStreams(k, hw) /\ Quiet(k)
  <2>1. k \in Hw /\ SameStreams(k, h) /\ Quiet(k)
    BY <1>2, InType, InFrame, InQuiet DEF k
  <2> QED BY <2>1 DEF SameStreams
<1>5. x \in Hw /\ SameStreams(x, hw) /\ Quiet(x)
  <2>1. x \in Hw /\ Quiet(x)
    BY <1>4, SetStream, FieldQuiet DEF x
  <2> QED BY <1>4, <2>1 DEF Hw, HwRecords, SameStreams, x
<1>6. me \in ThreadRecords /\ OpenPointers(me) /\ me.after \in SafeReturn
  BY <1>3 DEF ThreadRecords, OpenPointers, me
<1>7. /\ w \in ThreadRecords /\ w.pc = "r_pcm" /\ OpenPointers(w)
      /\ w.after \in SafeReturn
  BY <1>6 DEF ThreadRecords, Labels, OpenPointers, w
<1>8. CASE Step(i, {}, given, x, w)
  <2>1. Keeps(i, {}, given, w)
    BY <1>7 DEF Keeps, Held
  <2> QED BY <1>3, <1>5, <1>7, <1>8, <2>1, OrderMove
<1>9. CASE Step(i, {}, given \union {i}, k, CallStandby(me, i, "idle"))
  BY <1>3, <1>4, <1>6, <1>9, OrderStandby
<1> QED BY <1>1, <1>8, <1>9 DEF k, me, x, w

(* read() waits for the output holding nothing. *)
LEMMA OrderReadSearch ==
  ASSUME Good, OrderInv, NEW i \in Inputs, NEW given \in SUBSET Streams,
         Held(i, th[i], hw.mOutput) \subseteq given \union {i},
         ReadSearch(i, given)
  PROVE  OrderInv'
<1> DEFINE me == [th[i] EXCEPT !.pc = "r_out", !.spOut = hw.mOutput]
<1>1. /\ hw \in Hw /\ SameStreams(hw, hw) /\ Quiet(hw) /\ i \in Threads
      /\ th[i] \in ThreadRecords /\ OpenPointers(th[i]) /\ th[i].after \in SafeReturn
  BY OrderFacts DEF Threads
<1>2. CASE ReadOpen(i, hw, given)
  BY <1>1, <1>2, OrderReadOpen
<1>3. CASE hw.mOutput # NULL /\ Step(i, {}, given \union {i}, hw, me)
  <2>1. hw.mOutput \in Outputs /\ "r_out" \in Labels
    BY <1>1, <1>3 DEF Hw, HwRecords, Labels
  <2>2. me \in ThreadRecords
    BY <1>1, <2>1 DEF ThreadRecords
  <2>3. /\ me.pc = "r_out" /\ me.spOut = hw.mOutput /\ me.spIn = th[i].spIn
        /\ me.after = th[i].after
    BY <1>1 DEF ThreadRecords
  <2> HIDE DEF me
  <2>4. OpenPointers(me) /\ me.after \in SafeReturn
    BY <1>1, <2>3 DEF OpenPointers
  <2>5. Keeps(i, {}, given \union {i}, me)
    BY DEF Keeps
  <2> QED BY <1>1, <1>3, <2>2, <2>3, <2>4, <2>5, OrderMove
<1> QED BY <1>2, <1>3 DEF ReadSearch

(* read() makes no echo reference when it opens the output again. *)
LEMMA ReopenQuiet ==
  ASSUME NEW h \in Hw, Quiet(h), NEW o \in Outputs, NEW pcmOk \in BOOLEAN,
         NEW mixOk \in BOOLEAN
  PROVE  Quiet(ReadReopenOut(h, o, pcmOk, mixOk))
<1> DEFINE k == OutClose(h, o)
           g == OutOpen(k, o, pcmOk, mixOk)
<1> HIDE DEF k, g
<1>1. k \in Hw /\ Quiet(k)
  BY OutType, OutQuiet DEF k
<1>2. g \in Hw /\ Quiet(g)
  BY <1>1, OutType, OutQuiet DEF g
<1>3. Quiet(OutDoStandby(g, o))
  BY <1>2, OutStandbyQuiet
<1> QED BY <1>2, <1>3 DEF ReadReopenOut, k, g

(* Every step of read() keeps the order. *)
LEMMA OrderRead ==
  ASSUME Good, OrderInv, NEW i \in Inputs, ReadStep(i)
  PROVE  OrderInv'
<1> DEFINE r == th[i]
           o == r.spOut
<1>1. /\ hw \in Hw /\ SameStreams(hw, hw) /\ Quiet(hw) /\ i \in Threads
      /\ r \in ThreadRecords /\ OpenPointers(r) /\ r.after \in SafeReturn
      /\ Control(i, r, hw.mOutput, owner[HW] = i)
  BY OrderFacts DEF Threads
<1>2. i \in Streams
  BY DEF Streams
<1>3. CASE ReadLock(i)
  <2> DEFINE me == [r EXCEPT !.pc = IF hw.standby[i] THEN "r_hw" ELSE "r_pcm"]
  <2>1. me \in ThreadRecords /\ me.pc \in {"r_hw", "r_pcm"}
    <3>1. {"r_hw", "r_pcm"} \subseteq Labels
      BY DEF Labels
    <3> QED BY <1>1, <3>1 DEF ThreadRecords
  <2>2. OpenPointers(me) /\ me.after \in SafeReturn
    BY <1>1 DEF ThreadRecords, OpenPointers
  <2>3. Step(i, {i}, {}, hw, me) /\ r.pc = "r_in"
    BY <1>3 DEF ReadLock, At
  <2> HIDE DEF me
  <2>4. Keeps(i, {i}, {}, me)
    BY <2>1, <2>3 DEF Keeps, Held
  <2> QED BY <1>1, <2>1, <2>2, <2>3, <2>4, OrderMove
<1>4. CASE ReadHw(i)
  <2>1. Held(i, r, hw.mOutput) \subseteq {} \union {i} /\ ReadSearch(i, {})
    BY <1>4 DEF Held, ReadHw, At
  <2> QED BY <2>1, OrderReadSearch
<1>5. CASE ReadOut(i)
  <2> DEFINE me == [r EXCEPT !.pc = "r_in2"]
  <2>1. me \in ThreadRecords /\ me.pc = "r_in2" /\ me.spOut = o
    BY <1>1 DEF ThreadRecords, Labels
  <2>2. OpenPointers(me) /\ me.after \in SafeReturn
    BY <1>1 DEF ThreadRecords, OpenPointers
  <2>3. Step(i, {o}, {}, hw, me) /\ r.pc = "r_out"
    BY <1>5 DEF ReadOut, At
  <2> HIDE DEF me
  <2>4. Keeps(i, {o}, {}, me)
    BY <2>1, <2>3 DEF Keeps, Held
  <2> QED BY <1>1, <2>1, <2>2, <2>3, <2>4, OrderMove
<1>6. CASE ReadIn(i)
  <2> DEFINE me == [r EXCEPT !.pc = "r_hw2"]
  <2>1. me \in ThreadRecords /\ me.pc = "r_hw2" /\ me.spOut = o
    BY <1>1 DEF ThreadRecords, Labels
  <2>2. OpenPointers(me) /\ me.after \in SafeReturn
    BY <1>1 DEF ThreadRecords, OpenPointers
  <2>3. Step(i, {i}, {}, hw, me) /\ r.pc = "r_in2"
    BY <1>6 DEF ReadIn, At
  <2> HIDE DEF me
  <2>4. Keeps(i, {i}, {}, me)
    BY <2>1, <2>3 DEF Keeps, Held
  <2> QED BY <1>1, <2>1, <2>2, <2>3, <2>4, OrderMove
<1>7. CASE ReadRecheck(i)
  <2>1. o \in Outputs /\ o \in Streams /\ r.pc = "r_hw2"
    BY <1>1, <1>7 DEF Control, ReadRecheck, At, Streams
  <2>2. Held(i, r, hw.mOutput) = {o, i}
    BY <2>1 DEF Held
  <2>3. HeldElsewhere(o, hw, i)
    <3>1. o \in {NULL, hw.mOutput}
      BY <1>1 DEF OpenPointers
    <3>2. o # NULL
      BY <2>1, StreamAssumption
    <3> QED BY <3>1, <3>2 DEF HeldElsewhere
  <2>4. ASSUME NEW pcmOk \in Answers("pcm"), NEW mixOk \in Answers("mixer"),
               NEW made \in Answers("echo"),
               LET g == ReadReopenOut(hw, o, pcmOk, mixOk)
               IN  ReadOpen(i, IF g.needEcho[i] /\ g.echo[i] = NULL
                               THEN getEchoReference(g, i, made) ELSE g, {o})
        PROVE  OrderInv'
    <3> DEFINE g == ReadReopenOut(hw, o, pcmOk, mixOk)
    <3> HIDE DEF g
    <3>1. pcmOk \in BOOLEAN /\ mixOk \in BOOLEAN
      BY AnswersType
    <3>2. g \in Hw /\ SameStreams(g, hw) /\ Quiet(g)
      BY <1>1, <2>1, <3>1, ReopenType, ReopenQuiet DEF g
    <3>3. ReadOpen(i, g, {o})
      BY <2>4, <3>2 DEF g, Quiet
    <3>4. Held(i, r, hw.mOutput) \subseteq {o} \union {i}
      BY <2>2
    <3> QED BY <2>1, <3>2, <3>3, <3>4, OrderReadOpen
  <2>5. CASE ReadSearch(i, {o})
    <3>1. Held(i, r, hw.mOutput) \subseteq {o} \union {i}
      BY <2>2
    <3> QED BY <2>1, <2>5, <3>1, OrderReadSearch
  <2> QED BY <1>7, <2>3, <2>4, <2>5 DEF ReadRecheck
<1>8. CASE ReadPcm(i)
  <2>1. "idle" \in SafeReturn /\ r.pc = "r_pcm"
    BY <1>8 DEF SafeReturn, ReadPcm, At
  <2>2. Held(i, r, hw.mOutput) = {i}
    BY <2>1 DEF Held
  <2>3. CASE Step(i, {}, {i}, hw, IdleThread)
    <3>1. Keeps(i, {}, {i}, IdleThread)
      BY <2>2 DEF Keeps
    <3> QED BY <1>1, <2>3, <3>1, IdleType, OrderMove
  <2>4. CASE Step(i, {}, {i}, hw, CallStandby(r, i, "idle"))
    BY <1>1, <1>2, <2>1, <2>2, <2>4, OrderStandby
  <2> QED BY <1>8, <2>3, <2>4 DEF ReadPcm
<1> QED BY <1>3, <1>4, <1>5, <1>6, <1>7, <1>8 DEF ReadStep

-------------------------------------------------------------------------------
(* setMode() *)

(* setMode() releases what it holds. *)
LEMMA OrderUnlockMode ==
  ASSUME Good, OrderInv, NEW h \in Hw, SameStreams(h, hw), Quiet(h),
         NEW me \in ThreadRecords, OpenPointers(me), me.after \in SafeReturn,
         NEW given,
         Held(Ctl, th[Ctl], hw.mOutput) \subseteq given \union {me.spIn, me.spOut},
         UnlockMode(h, me, given)
  PROVE  OrderInv'
<1> DEFINE n == [me EXCEPT !.pc = "m_dropIn", !.target = NULL, !.resume = "none"]
           d == given \union {HW, me.spIn, me.spOut}
<1>1. Ctl \in Threads /\ Step(Ctl, {}, d, h, n)
  BY DEF Threads, UnlockMode
<1>2. n \in ThreadRecords
  <2>1. "m_dropIn" \in Labels
    BY DEF Labels
  <2> QED BY <2>1 DEF ThreadRecords
<1>3. /\ n.pc = "m_dropIn" /\ n.spOut = me.spOut /\ n.spIn = me.spIn
      /\ n.after = me.after
  BY DEF ThreadRecords
<1> HIDE DEF n
<1>4. OpenPointers(n) /\ n.after \in SafeReturn
  BY <1>3 DEF OpenPointers
<1>5. Keeps(Ctl, {}, d, n)
  BY DEF Keeps
<1> QED BY <1>1, <1>2, <1>3, <1>4, <1>5, OrderMove

(* The call begins or ends. *)
LEMMA OrderCall ==
  ASSUME Good, OrderInv, NEW h \in Hw, SameStreams(h, hw), Quiet(h),
         NEW me \in ThreadRecords, OpenPointers(me), me.after \in SafeReturn,
         NEW given,
         Held(Ctl, th[Ctl], hw.mOutput) \subseteq given \union {me.spIn, me.spOut},
         EnterCall(h, me, given) \/ LeaveCall(h, me, given)
  PROVE  OrderInv'
<1>1. CASE EnterCall(h, me, given)
  <2>1. PICK pcmOk \in Answers("pcm"), mixOk \in Answers("mixer") :
          UnlockMode([openMixer_l(openPcmOut_l(h, pcmOk), mixOk) EXCEPT
                        !.mInCallAudioMode = TRUE], me, given)
    BY <1>1 DEF EnterCall
  <2> DEFINE k == openPcmOut_l(h, pcmOk)
             n == openMixer_l(k, mixOk)
             g == [n EXCEPT !.mInCallAudioMode = TRUE]
  <2> HIDE DEF k, n, g
  <2>2. pcmOk \in BOOLEAN /\ mixOk \in BOOLEAN
    BY AnswersType
  <2>3. k \in Hw /\ SameStreams(k, h)
    BY <2>2, OpenPcmType, PcmFrame DEF k
  <2>4. Quiet(k)
    BY <2>2, PcmQuiet DEF k
  <2>5. n \in Hw /\ SameStreams(n, k) /\ Quiet(n)
    BY <2>2, <2>3, <2>4, OpenMixerType, MixerFrame, MixerQuiet DEF n
  <2>6. g \in Hw /\ SameStreams(g, hw)
    BY <2>3, <2>5 DEF Hw, HwRecords, SameStreams, g
  <2>7. Quiet(g)
    BY <2>5 DEF Quiet, Hw, HwRecords, g
  <2>8. UnlockMode(g, me, given)
    BY <2>1 DEF g, n, k
  <2> QED BY <2>6, <2>7, <2>8, OrderUnlockMode
<1>2. CASE LeaveCall(h, me, given)
  <2> DEFINE g == [h EXCEPT !.mInCallAudioMode = FALSE]
  <2>1. g \in Hw /\ SameStreams(g, hw)
    BY DEF Hw, HwRecords, SameStreams
  <2>2. Quiet(g)
    BY DEF Quiet, Hw, HwRecords
  <2>3. UnlockMode(g, me, given)
    BY <1>2 DEF LeaveCall
  <2> HIDE DEF g
  <2> QED BY <2>1, <2>2, <2>3, OrderUnlockMode
<1> QED BY <1>1, <1>2

(* The mode changes with the output and the input that are active locked. *)
LEMMA OrderSwitchMode ==
  ASSUME Good, OrderInv, NEW me \in ThreadRecords, OpenPointers(me),
         me.after \in SafeReturn, NEW given \in SUBSET Streams,
         Held(Ctl, th[Ctl], hw.mOutput) \subseteq given \union {me.spIn, me.spOut},
         SwitchMode(me, given)
  PROVE  OrderInv'
<1> DEFINE h == [hw EXCEPT !.mMode = me.mode]
           entering == me.mode # hw.mMode /\ me.mode = "in_call"
                       /\ ~hw.mInCallAudioMode
           leaving  == me.mode # hw.mMode /\ me.mode = "normal"
                       /\ hw.mInCallAudioMode
           j == closeMixer_l(h)
           c == closePcmOut_l(j)
           f == IF leaving THEN c ELSE h
           g == OutToStandby(f, me.spOut)
           n == InToStandby(g, me.spIn)
<1>1. hw \in Hw /\ Quiet(hw) /\ Ctl \in Threads
  BY DEF Good, OrderInv, Threads
<1>2. /\ me.mode \in Modes /\ me.spIn \in Inputs \union {NULL}
      /\ me.spOut \in Outputs \union {NULL}
  BY DEF ThreadRecords
<1> HIDE DEF h, j, c, f, g, n
<1>3. h \in Hw /\ SameStreams(h, hw) /\ Quiet(h)
  <2>1. h \in Hw /\ SameStreams(h, hw)
    BY <1>1, <1>2 DEF Hw, HwRecords, SameStreams, h
  <2>2. Quiet(h)
    BY <1>1 DEF Quiet, Hw, HwRecords, h
  <2> QED BY <2>1, <2>2
<1>4. j \in Hw /\ SameStreams(j, h) /\ Quiet(j)
  <2>1. TRUE \in BOOLEAN
    OBVIOUS
  <2> QED BY <1>3, <2>1, CloseMixerType, MixerFrame, MixerQuiet DEF j
<1>5. c \in Hw /\ SameStreams(c, j) /\ Quiet(c)
  <2>1. c \in Hw /\ SameStreams(c, j)
    BY <1>4, ClosePcmType DEF c, SameStreams, closePcmOut_l, Hw, HwRecords
  <2>2. Quiet(c)
    BY <1>4, PcmQuiet DEF c
  <2> QED BY <2>1, <2>2
<1>6. f \in Hw /\ SameStreams(f, hw) /\ Quiet(f)
  BY <1>3, <1>4, <1>5 DEF f, SameStreams
<1>7. g \in Hw /\ SameStreams(g, hw) /\ Quiet(g)
  <2>1. ASSUME me.spOut \in Outputs
        PROVE  /\ OutDoStandby(f, me.spOut) \in Hw
               /\ SameStreams(OutDoStandby(f, me.spOut), f)
               /\ Quiet(OutDoStandby(f, me.spOut))
    BY <1>6, <2>1, OutDoStandbyType, OutDoStandbyFrame, OutStandbyQuiet
  <2> QED BY <1>2, <1>6, <2>1 DEF g, OutToStandby, SameStreams
<1>8. n \in Hw /\ SameStreams(n, hw) /\ Quiet(n)
  <2>1. InDoStandby(g, me.spIn) \in Hw /\ SameStreams(InDoStandby(g, me.spIn), g)
    BY <1>7, InType, InFrame
  <2>2. me.spIn \in Inputs => Quiet(InDoStandby(g, me.spIn))
    BY <1>7, InQuiet
  <2> QED BY <1>2, <1>7, <2>1, <2>2 DEF n, InToStandby, SameStreams
<1>9. CASE UnlockMode(h, me, given)
  BY <1>3, <1>9, OrderUnlockMode
<1>10. ~(me.spIn # NULL /\ NeedsOutputLock(g, me.spIn))
  BY <1>2, <1>7, NoWait
<1>11. CASE EnterCall(n, me, given) \/ LeaveCall(n, me, given)
  BY <1>8, <1>11, OrderCall
<1> QED BY <1>9, <1>10, <1>11 DEF SwitchMode, h, j, c, f, g, n

(* setMode() waits for the input holding only the output. *)
LEMMA OrderSearchIn ==
  ASSUME Good, OrderInv, NEW me \in ThreadRecords, OpenPointers(me),
         me.after \in SafeReturn, NEW given \in SUBSET Streams,
         Held(Ctl, th[Ctl], hw.mOutput) \subseteq given \union {me.spOut},
         ModeSearchIn(me, given)
  PROVE  OrderInv'
<1> DEFINE i == getActiveInput_l(hw)
           n == [me EXCEPT !.pc = "m_in", !.spIn = i]
           z == [me EXCEPT !.spIn = NULL]
           g == PrepareLock(hw, Ctl, i)
<1>1. hw \in Hw /\ Quiet(hw) /\ SameStreams(hw, hw) /\ Ctl \in Threads
  BY DEF Good, OrderInv, SameStreams, Threads
<1>2. /\ i \in Inputs \union {NULL}
      /\ i # NULL => i \in hw.mInputs
  BY <1>1, ActiveInputType
<1> HIDE DEF i
<1>3. CASE SwitchMode(z, given)
  <2>1. z \in ThreadRecords /\ OpenPointers(z) /\ z.after \in SafeReturn
        /\ z.spOut = me.spOut
    BY DEF ThreadRecords, OpenPointers
  <2> HIDE DEF z
  <2>2. Held(Ctl, th[Ctl], hw.mOutput) \subseteq given \union {z.spIn, z.spOut}
    BY <2>1
  <2> QED BY <1>3, <2>1, <2>2, OrderSwitchMode
<1>4. CASE i # NULL /\ Step(Ctl, {}, given, g, n)
  <2>1. i \in Inputs /\ i \in hw.mInputs /\ i \in Streams /\ "m_in" \in Labels
    BY <1>2, <1>4 DEF Streams, Labels
  <2>2. n \in ThreadRecords
    BY <2>1 DEF ThreadRecords
  <2>3. n.pc = "m_in" /\ n.spIn = i /\ n.spOut = me.spOut /\ n.after = me.after
    BY DEF ThreadRecords
  <2> HIDE DEF n
  <2>4. OpenPointers(n)
    BY <2>1, <2>3 DEF OpenPointers
  <2>5. Keeps(Ctl, {}, given, n)
    BY <2>3 DEF Keeps, Held
  <2>6. g \in Hw /\ SameStreams(g, hw) /\ Quiet(g)
    BY <1>1, <2>1, CurrentType, CurrentQuiet DEF PrepareLock
  <2> HIDE DEF g
  <2> QED BY <1>1, <1>4, <2>2, <2>3, <2>4, <2>5, <2>6, OrderMove
<1> QED BY <1>3, <1>4 DEF ModeSearchIn, i, z, n, g

(* setMode() waits for the output holding nothing. *)
LEMMA OrderSearchOut ==
  ASSUME Good, OrderInv, NEW given \in SUBSET Streams,
         Held(Ctl, th[Ctl], hw.mOutput) \subseteq given, ModeSearchOut(given)
  PROVE  OrderInv'
<1> DEFINE o == hw.mOutput
           n == [th[Ctl] EXCEPT !.pc = "m_out", !.spOut = o]
           z == [th[Ctl] EXCEPT !.spOut = NULL]
           g == PrepareLock(hw, Ctl, o)
<1>1. /\ hw \in Hw /\ Quiet(hw) /\ SameStreams(hw, hw) /\ Ctl \in Threads
      /\ th[Ctl] \in ThreadRecords /\ OpenPointers(th[Ctl])
      /\ th[Ctl].after \in SafeReturn
  BY OrderFacts DEF Threads
<1>2. o \in Outputs \union {NULL}
  BY <1>1 DEF Hw, HwRecords
<1>3. CASE ModeSearchIn(z, given)
  <2>1. z \in ThreadRecords /\ OpenPointers(z) /\ z.after \in SafeReturn
    BY <1>1 DEF ThreadRecords, OpenPointers
  <2> HIDE DEF z
  <2> QED BY <1>3, <2>1, OrderSearchIn
<1>4. CASE o # NULL /\ Step(Ctl, {}, given, g, n)
  <2>1. o \in Outputs /\ o \in Streams /\ "m_out" \in Labels
    BY <1>2, <1>4 DEF Streams, Labels
  <2>2. n \in ThreadRecords
    BY <1>1, <2>1 DEF ThreadRecords
  <2>3. /\ n.pc = "m_out" /\ n.spOut = o /\ n.spIn = th[Ctl].spIn
        /\ n.after = th[Ctl].after
    BY <1>1 DEF ThreadRecords
  <2> HIDE DEF n
  <2>4. OpenPointers(n)
    BY <1>1, <2>3 DEF OpenPointers
  <2>5. Keeps(Ctl, {}, given, n)
    BY DEF Keeps
  <2>6. g \in Hw /\ SameStreams(g, hw) /\ Quiet(g)
    BY <1>1, <2>1, CurrentType, CurrentQuiet DEF PrepareLock
  <2> HIDE DEF g
  <2> QED BY <1>1, <1>4, <2>2, <2>3, <2>4, <2>5, <2>6, OrderMove
<1> QED BY <1>3, <1>4 DEF ModeSearchOut, o, z, n, g

(* Every step of setMode() keeps the order. *)
LEMMA OrderMode ==
  ASSUME Good, OrderInv, ModeStep
  PROVE  OrderInv'
<1> DEFINE c == th[Ctl]
           o == c.spOut
           i == c.spIn
<1>1. /\ hw \in Hw /\ SameStreams(hw, hw) /\ Quiet(hw) /\ Ctl \in Threads
      /\ c \in ThreadRecords /\ OpenPointers(c) /\ c.after \in SafeReturn
      /\ Ordered(Ctl, c, hw) /\ Control(Ctl, c, hw.mOutput, owner[HW] = Ctl)
  BY OrderFacts DEF Threads
<1>2. CASE ModeHw
  <2>1. Held(Ctl, c, hw.mOutput) = {} /\ ModeSearchOut({})
    BY <1>2 DEF Held, ModeHw, At
  <2> QED BY <2>1, OrderSearchOut
<1>3. CASE ModeOut
  <2> DEFINE me == [c EXCEPT !.pc = "m_hwo"]
  <2>1. me \in ThreadRecords /\ me.pc = "m_hwo" /\ me.spOut = o
    BY <1>1 DEF ThreadRecords, Labels
  <2>2. OpenPointers(me) /\ me.after \in SafeReturn
    BY <1>1 DEF ThreadRecords, OpenPointers
  <2>3. Step(Ctl, {o}, {}, hw, me) /\ c.pc = "m_out"
    BY <1>3 DEF ModeOut, At
  <2> HIDE DEF me
  <2>4. Keeps(Ctl, {o}, {}, me)
    BY <2>1, <2>3 DEF Keeps, Held
  <2> QED BY <1>1, <2>1, <2>2, <2>3, <2>4, OrderMove
<1>4. CASE ModeRecheckOut
  <2>1. o \in Outputs /\ o \in Streams /\ c.pc = "m_hwo"
    BY <1>1, <1>4 DEF Control, ModeRecheckOut, At, Streams
  <2>2. Held(Ctl, c, hw.mOutput) = {o}
    BY <2>1 DEF Held
  <2>3. HeldElsewhere(o, hw, Ctl)
    <3>1. o \in {NULL, hw.mOutput} /\ o # NULL
      BY <1>1, <2>1, StreamAssumption DEF OpenPointers
    <3> QED BY <3>1 DEF HeldElsewhere
  <2>4. CASE ModeSearchIn(c, {})
    BY <1>1, <2>2, <2>4, OrderSearchIn
  <2>5. CASE ModeSearchOut({o})
    BY <2>1, <2>2, <2>5, OrderSearchOut
  <2> QED BY <1>4, <2>3, <2>4, <2>5 DEF ModeRecheckOut
<1>5. CASE ModeIn
  <2> DEFINE me == [c EXCEPT !.pc = "m_hwi"]
  <2>1. me \in ThreadRecords /\ me.pc = "m_hwi" /\ me.spIn = i /\ me.spOut = o
    BY <1>1 DEF ThreadRecords, Labels
  <2>2. OpenPointers(me) /\ me.after \in SafeReturn
    BY <1>1 DEF ThreadRecords, OpenPointers
  <2>3. Step(Ctl, {i}, {}, hw, me) /\ c.pc = "m_in"
    BY <1>5 DEF ModeIn, At
  <2> HIDE DEF me
  <2>4. Keeps(Ctl, {i}, {}, me)
    BY <2>1, <2>3 DEF Keeps, Held
  <2> QED BY <1>1, <2>1, <2>2, <2>3, <2>4, OrderMove
<1>6. CASE ModeRecheckIn
  <2>1. i \in Inputs /\ i \in Streams /\ c.pc = "m_hwi"
    BY <1>1, <1>6 DEF Control, ModeRecheckIn, At, Streams
  <2>2. Held(Ctl, c, hw.mOutput) = {o, i}
    BY <2>1 DEF Held
  <2>3. HeldElsewhere(i, hw, Ctl)
    <3>1. i \in {NULL} \union hw.mInputs /\ i # NULL
      BY <1>1, <2>1, StreamAssumption DEF OpenPointers
    <3> QED BY <3>1 DEF HeldElsewhere
  <2>4. CASE SwitchMode(c, {})
    BY <1>1, <2>2, <2>4, OrderSwitchMode
  <2>5. CASE ModeSearchIn(c, {i})
    BY <1>1, <2>1, <2>2, <2>5, OrderSearchIn
  <2> QED BY <1>6, <2>3, <2>4, <2>5 DEF ModeRecheckIn
<1>7. CASE ModeResume
  BY <1>1, <1>7 DEF ModeResume, At, Ordered
<1> QED BY <1>2, <1>3, <1>4, <1>5, <1>6, <1>7 DEF ModeStep

-------------------------------------------------------------------------------
(* The theorems *)

(* The order holds when the HAL is created. *)
LEMMA OrderInit == Init => OrderInv
<1> SUFFICES ASSUME Init
             PROVE  OrderInv
  OBVIOUS
<1>1. Quiet(hw)
  BY DEF Init, HwInit, Quiet
<1>2. \A t \in Threads : Ordered(t, th[t], hw)
  BY DEF Init, IdleThread, Ordered, SafeReturn
<1>3. \A t \in Threads, l \in Locks : owner[l] # t
  BY ThreadAssumption DEF Init
<1> QED BY <1>1, <1>2, <1>3 DEF OrderInv

(* Every step of the system keeps the order. *)
LEMMA OrderNext ==
  ASSUME "close" \notin Calls, "aec" \notin Calls
  PROVE  TypeInv /\ OrderInv /\ [Next]_vars => OrderInv'
<1> SUFFICES ASSUME TypeInv, OrderInv, [Next]_vars
             PROVE  OrderInv'
  OBVIOUS
<1>1. Good
  BY DEF TypeInv, TypeOK, Good, Hw
<1>2. ASSUME Begin
      PROVE  OrderInv'
  BY <1>1, <1>2, OrderBegin
<1>3. ASSUME NEW t \in Threads, Continue(t)
      PROVE  OrderInv'
  <2>1. CASE StandbyStep(t)
    BY <1>1, <2>1, OrderStandbyStep
  <2>2. CASE DropInput(t) \/ DropOutput(t)
    BY <1>1, <2>2, OrderDrop
  <2>3. CASE t = Playback /\ WriteStep
    BY <1>1, <2>3, OrderWrite
  <2>4. CASE t \in Inputs /\ ReadStep(t)
    BY <1>1, <2>4, OrderRead
  <2>5. CASE t = Ctl /\ ModeStep
    BY <1>1, <2>5, OrderMode
  <2> QED BY <1>3, <2>1, <2>2, <2>3, <2>4, <2>5 DEF Continue
<1>4. CASE UNCHANGED vars
  BY <1>4 DEF OrderInv, vars
<1> QED BY <1>2, <1>3, <1>4 DEF Next

(* The invariant says what a thread holds, and so the order it waits in. *)
LEMMA OrderImplies == TypeInv /\ OrderInv => LockOrder
<1> SUFFICES ASSUME TypeInv, OrderInv, NEW t \in Threads, NEW l \in Locks,
                    owner[l] = t, Wants(t) # NULL
             PROVE  Rank(l) < Rank(Wants(t))
  BY DEF LockOrder
<1> DEFINE me == th[t]
           o  == hw.mOutput
<1>1. Good
  BY DEF TypeInv, TypeOK, Good, Hw
<1>2. l \in Held(t, me, o) /\ Ordered(t, me, hw) /\ Control(t, me, o, owner[HW] = t)
      /\ me \in ThreadRecords
  BY <1>1, OrderFacts DEF OrderInv
<1>3. HW \notin Streams /\ Outputs \intersect Inputs = {}
  BY ThreadAssumption, StreamAssumption
<1>4. /\ \A x \in Outputs : Rank(x) = 1
      /\ \A x \in Inputs : Rank(x) = 2
      /\ Rank(HW) = 3
  BY <1>3 DEF Rank, Streams
<1>5. CASE me.pc \in WaitsForHw
  <2>1. Wants(t) = HW
    BY <1>5 DEF Wants, WaitsForHw
  <2>2. l # HW
    BY <1>2, <1>3, <1>5, ThreadAssumption
       DEF Held, WaitsForHw, Control, Ordered, Streams, Locks, ThreadRecords
  <2>3. Rank(l) \in {1, 2}
    BY <2>2 DEF Rank
  <2> QED BY <1>4, <2>1, <2>3
<1>6. CASE me.pc = "w_in"
  <2>1. Wants(t) = me.spIn /\ me.spIn \in Inputs /\ l = o /\ o \in Outputs
    BY <1>2, <1>6 DEF Wants, WaitsForHw, Held, Control
  <2> QED BY <1>4, <2>1
<1>7. CASE me.pc = "m_in"
  <2>1. Wants(t) = me.spIn /\ me.spIn \in Inputs /\ l = me.spOut
    BY <1>2, <1>7 DEF Wants, WaitsForHw, Held, Control
  <2>2. l \in Outputs
    BY <1>2, <2>1, ThreadAssumption, StreamAssumption DEF ThreadRecords, Locks
  <2> QED BY <1>4, <2>1, <2>2
<1>8. CASE me.pc = "r_in2"
  <2>1. Wants(t) = t /\ t \in Inputs /\ l = me.spOut /\ me.spOut \in Outputs
    BY <1>2, <1>8 DEF Wants, WaitsForHw, Held, Control, Ordered
  <2> QED BY <1>4, <2>1
<1>9. CASE me.pc \notin WaitsForHw \union {"w_in", "m_in", "r_in2"}
  <2>1. me.pc \in {"w_out", "r_in", "r_out", "m_out", "s_lock"}
    BY <1>2, <1>9 DEF Wants, WaitsForHw, Ordered
  <2> QED BY <1>2, <2>1 DEF Held
<1> QED BY <1>5, <1>6, <1>7, <1>8, <1>9

(* "Mutex acquisition order is always out -> in -> hw": for any number of   *)
(* streams and any failures of the driver, as long as no stream is closed   *)
(* and no echo canceller is used.                                           *)
THEOREM LockOrderHolds ==
  ASSUME "close" \notin Calls, "aec" \notin Calls
  PROVE  Spec => []LockOrder
<1>1. Init => TypeInv /\ OrderInv
  BY InitType, OrderInit
<1>2. TypeInv /\ OrderInv /\ [Next]_vars => TypeInv' /\ OrderInv'
  BY NextType, OrderNext
<1> QED BY <1>1, <1>2, OrderImplies, PTL DEF Spec

(* The mutex a thread waits for exists, and its owner is a thread. *)
LEMMA WantsType ==
  ASSUME TypeInv, OrderInv, NEW t \in Threads
  PROVE  /\ Wants(t) \in Locks \union {NULL}
         /\ Blocked(t) => Wants(t) \in Locks /\ owner[Wants(t)] \in Threads
<1> DEFINE me == th[t]
<1>1. Good
  BY DEF TypeInv, TypeOK, Good, Hw
<1>2. Control(t, me, hw.mOutput, owner[HW] = t) /\ Ordered(t, me, hw)
      /\ owner \in [Locks -> Threads \union {NULL}]
  BY <1>1, OrderFacts DEF Good
<1>3. Outputs \subseteq Locks /\ Inputs \subseteq Locks /\ HW \in Locks
      /\ Streams \subseteq Locks
  BY DEF Locks, Streams
<1>4. Wants(t) \in Locks \union {NULL}
  BY <1>2, <1>3 DEF Wants, WaitsForHw, Control, Ordered
<1> QED BY <1>2, <1>4 DEF Blocked

(* Along a chain of blocked threads the ranks grow, and there are three. *)
LEMMA HolderRunsNow == TypeInv /\ OrderInv /\ LockOrder => HolderRuns
<1> SUFFICES ASSUME TypeInv, OrderInv, LockOrder
             PROVE  HolderRuns
  OBVIOUS
<1> DEFINE Goal == \E u \in Threads : ~Blocked(u) /\ \E l \in Locks : owner[l] = u
<1>1. ASSUME NEW t \in Threads, Blocked(t)
      PROVE  \/ Goal
             \/ \E u \in Threads : Blocked(u) /\ Rank(Wants(t)) < Rank(Wants(u))
  <2> DEFINE u == owner[Wants(t)]
  <2>1. Wants(t) \in Locks /\ u \in Threads
    BY <1>1, WantsType
  <2>2. CASE Blocked(u)
    <3>1. Rank(Wants(t)) < Rank(Wants(u))
      BY <2>1, <2>2 DEF LockOrder, Blocked
    <3> QED BY <2>1, <2>2, <3>1
  <2>3. CASE ~Blocked(u)
    BY <2>1, <2>3
  <2> QED BY <2>2, <2>3
<1>2. \A l : Rank(l) \in {1, 2, 3}
  BY DEF Rank
<1> HIDE DEF Goal
<1>3. ASSUME NEW t \in Threads, Blocked(t), Rank(Wants(t)) = 3
      PROVE  Goal
  BY <1>1, <1>2, <1>3
<1>4. ASSUME NEW t \in Threads, Blocked(t), Rank(Wants(t)) = 2
      PROVE  Goal
  <2>1. ASSUME NEW u \in Threads, Blocked(u), Rank(Wants(u)) > 2
        PROVE  Goal
    <3>1. Rank(Wants(u)) = 3
      BY <1>2, <2>1
    <3> QED BY <1>3, <2>1, <3>1
  <2> QED BY <1>1, <1>2, <1>4, <2>1
<1>5. ASSUME NEW t \in Threads, Blocked(t), Rank(Wants(t)) = 1
      PROVE  Goal
  <2>1. ASSUME NEW u \in Threads, Blocked(u), Rank(Wants(u)) > 1
        PROVE  Goal
    <3>1. Rank(Wants(u)) \in {2, 3}
      BY <1>2, <2>1
    <3> QED BY <1>3, <1>4, <2>1, <3>1
  <2> QED BY <1>1, <1>2, <1>5, <2>1
<1>6. ASSUME NEW t \in Threads, Blocked(t)
      PROVE  Goal
  BY <1>2, <1>3, <1>4, <1>5, <1>6
<1> QED BY <1>6 DEF HolderRuns, Goal

(* No deadlock: under the same conditions, behind every blocked thread there *)
(* is one that holds a mutex and can go on.                                  *)
THEOREM NoDeadlock ==
  ASSUME "close" \notin Calls, "aec" \notin Calls
  PROVE  Spec => []HolderRuns
<1>1. Init => TypeInv /\ OrderInv
  BY InitType, OrderInit
<1>2. TypeInv /\ OrderInv /\ [Next]_vars => TypeInv' /\ OrderInv'
  BY NextType, OrderNext
<1>3. TypeInv /\ OrderInv => HolderRuns
  BY OrderImplies, HolderRunsNow
<1> QED BY <1>1, <1>2, <1>3, PTL DEF Spec
===============================================================================
