--------------------------- MODULE AudioDeviceProofs ---------------------------
(***************************************************************************)
(* What the audio HAL keeps of its devices, for any number of streams: the  *)
(* reference counts, standby, the active input, the echo reference.  The    *)
(* helpers are followed field by field first; then the invariant says which *)
(* mutexes a thread has where, and which streams still exist.               *)
(***************************************************************************)
EXTENDS AudioOrderProofs

-------------------------------------------------------------------------------
(* Counting *)

(* The members of D for which f is true. *)
Chosen(D, f) == {x \in D : f[x]}

(* Their number follows each change of f. *)
LEMMA CountOne ==
  ASSUME NEW D, D = Outputs \/ D = Streams, NEW f, NEW g, NEW s \in D,
         \A x \in D \ {s} : g[x] <=> f[x]
  PROVE  /\ Cardinality(Chosen(D, f)) \in Nat /\ Cardinality(Chosen(D, g)) \in Nat
         /\ (f[s] <=> g[s]) => Chosen(D, g) = Chosen(D, f)
         /\ f[s] /\ ~g[s]
              => Cardinality(Chosen(D, f)) = Cardinality(Chosen(D, g)) + 1
         /\ ~f[s] /\ g[s]
              => Cardinality(Chosen(D, g)) = Cardinality(Chosen(D, f)) + 1
<1>1. D \subseteq Streams /\ IsFiniteSet(D)
  BY StreamAssumption, FS_Union DEF Streams
<1>2. \A k : IsFiniteSet(Chosen(D, k)) /\ Cardinality(Chosen(D, k)) \in Nat
  <2>1. \A k : Chosen(D, k) \in SUBSET D
    BY DEF Chosen
  <2> QED BY <1>1, <2>1, FS_Subset, FS_CardinalityType
<1>3. ASSUME NEW k, NEW j, k[s], ~j[s], \A x \in D \ {s} : k[x] <=> j[x]
      PROVE  Cardinality(Chosen(D, k)) = Cardinality(Chosen(D, j)) + 1
  <2>1. s \notin Chosen(D, j) /\ Chosen(D, k) = Chosen(D, j) \union {s}
    BY <1>3 DEF Chosen
  <2> QED BY <1>2, <2>1, FS_AddElement
<1>4. (f[s] <=> g[s]) => Chosen(D, g) = Chosen(D, f)
  BY DEF Chosen
<1> QED BY <1>2, <1>3, <1>4

(* c is the reference that setMode() holds: the counts are the users, as    *)
(* long as no open fails, and never more.                                   *)
PcmCount(h, c) ==
  /\ h.mPcm <=> h.mPcmOpenCnt > 0
  /\ h.mPcmOpenCnt <= Cardinality(Chosen(Outputs, h.pcm)) + c
  /\ "pcm" \notin Faults
       => h.mPcmOpenCnt = Cardinality(Chosen(Outputs, h.pcm)) + c

MixerCount(h, c) ==
  /\ h.mMixer <=> h.mMixerOpenCnt > 0
  /\ h.mMixerOpenCnt <= Cardinality(Chosen(Streams, h.mixer)) + c
  /\ "mixer" \notin Faults
       => h.mMixerOpenCnt = Cardinality(Chosen(Streams, h.mixer)) + c

Counted(h, c) == h \in Hw /\ PcmCount(h, c) /\ MixerCount(h, c)

(* The fields that the helpers of the devices do not change. *)
SameHal(g, h) ==
  /\ SameStreams(g, h) /\ g.mMode = h.mMode
  /\ g.mInCallAudioMode = h.mInCallAudioMode
  /\ g.mEchoReference = h.mEchoReference /\ g.needEcho = h.needEcho

(* Nor those of the streams. *)
SamePlay(g, h) ==
  SameHal(g, h) /\ g.standby = h.standby /\ g.echo = h.echo
  /\ g.wakeLock = h.wakeLock /\ g.current = h.current

SamePcm(g, h)   == g.pcm = h.pcm /\ g.mPcm = h.mPcm /\ g.mPcmOpenCnt = h.mPcmOpenCnt
SameMixer(g, h) ==
  g.mixer = h.mixer /\ g.mMixer = h.mMixer /\ g.mMixerOpenCnt = h.mMixerOpenCnt

(* The parts of the record that are changed or not. *)
LEMMA SameTrans ==
  ASSUME NEW a, NEW b, NEW c
  PROVE  /\ SameHal(a, b) /\ SameHal(b, c) => SameHal(a, c)
         /\ SamePlay(a, b) /\ SamePlay(b, c) => SamePlay(a, c)
         /\ SameHal(a, a) /\ SamePlay(a, a)
BY DEF SameHal, SamePlay, SameStreams

(* Counts that are the same. *)
LEMMA SameCounted ==
  ASSUME NEW h, NEW g \in Hw, NEW c
  PROVE  /\ PcmCount(h, c) /\ SamePcm(g, h) => PcmCount(g, c)
         /\ MixerCount(h, c) /\ SameMixer(g, h) => MixerCount(g, c)
BY DEF PcmCount, MixerCount, SamePcm, SameMixer

(* f is g with s set to b. *)
Put(f, g, s, b) == (f[s] <=> b) /\ \A x \in Streams \ {s} : f[x] <=> g[x]

(* The fields of one stream are set, and nothing else is. *)
LEMMA PutFields ==
  ASSUME NEW h \in Hw, NEW s \in Streams, NEW b \in BOOLEAN
  PROVE  /\ LET g == [h EXCEPT !.pcm[s] = b]
            IN  /\ g \in Hw /\ SamePlay(g, h) /\ SameMixer(g, h)
                /\ g.mPcm = h.mPcm /\ g.mPcmOpenCnt = h.mPcmOpenCnt
                /\ Put(g.pcm, h.pcm, s, b)
         /\ LET g == [h EXCEPT !.mixer[s] = b]
            IN  /\ g \in Hw /\ SamePlay(g, h) /\ SamePcm(g, h)
                /\ g.mMixer = h.mMixer /\ g.mMixerOpenCnt = h.mMixerOpenCnt
                /\ Put(g.mixer, h.mixer, s, b)
<1> USE DEF Hw, HwRecords, SamePlay, SameHal, SameStreams, SamePcm, SameMixer
<1>1. [h EXCEPT !.pcm[s] = b] \in Hw /\ [h EXCEPT !.mixer[s] = b] \in Hw
  BY SetStream, ZenonT(40)
<1>2. \A f \in [Streams -> BOOLEAN] : Put([f EXCEPT ![s] = b], f, s, b)
  BY DEF Put
<1> QED BY <1>1, <1>2

(* closePcmOut_l() gives one reference back. *)
LEMMA ClosePcmCount ==
  ASSUME NEW h, NEW c \in Nat, Counted(h, c), NEW o \in Outputs, h.pcm[o]
  PROVE  LET k == closePcmOut_l(h)
             g == [k EXCEPT !.pcm[o] = FALSE]
         IN  /\ Counted(g, c) /\ SamePlay(g, h) /\ SameMixer(g, h)
             /\ Put(g.pcm, h.pcm, o, FALSE)
<1> DEFINE k == closePcmOut_l(h)
           g == [k EXCEPT !.pcm[o] = FALSE]
           n == Cardinality(Chosen(Outputs, h.pcm))
           m == Cardinality(Chosen(Outputs, g.pcm))
<1>1. h \in Hw /\ k \in Hw /\ o \in Streams /\ h.mPcmOpenCnt \in Nat
  BY ClosePcmType DEF Counted, Streams, Hw, HwRecords
<1>2. /\ SamePlay(k, h) /\ SameMixer(k, h) /\ k.pcm = h.pcm
      /\ h.mPcmOpenCnt = 0 => SamePcm(k, h)
      /\ h.mPcmOpenCnt # 0 => /\ k.mPcmOpenCnt = h.mPcmOpenCnt - 1
                              /\ k.mPcm <=> (h.mPcm /\ h.mPcmOpenCnt > 1)
  BY <1>1 DEF closePcmOut_l, Hw, HwRecords, SamePlay, SameHal, SameStreams,
              SameMixer, SamePcm
<1> HIDE DEF k
<1>3. /\ g \in Hw /\ SamePlay(g, k) /\ SameMixer(g, k)
      /\ g.mPcm = k.mPcm /\ g.mPcmOpenCnt = k.mPcmOpenCnt
      /\ Put(g.pcm, k.pcm, o, FALSE)
  BY <1>1, PutFields
<1> HIDE DEF g
<1>4. SamePlay(g, h) /\ SameMixer(g, h) /\ Put(g.pcm, h.pcm, o, FALSE)
  BY <1>2, <1>3, SameTrans DEF SameMixer
<1>5. n \in Nat /\ m \in Nat /\ n = m + 1
  BY <1>4, CountOne DEF Put, Streams
<1>6. MixerCount(g, c)
  BY <1>3, <1>4, SameCounted DEF Counted
<1>7. PcmCount(g, c)
  <2> HIDE DEF n, m
  <2>1. /\ h.mPcm <=> h.mPcmOpenCnt > 0
        /\ h.mPcmOpenCnt <= n + c
        /\ "pcm" \notin Faults => h.mPcmOpenCnt = n + c
    BY DEF Counted, PcmCount, n
  <2>2. /\ g.mPcm <=> g.mPcmOpenCnt > 0
        /\ g.mPcmOpenCnt <= m + c
        /\ "pcm" \notin Faults => g.mPcmOpenCnt = m + c
    BY <1>1, <1>2, <1>3, <1>5, <2>1 DEF SamePcm
  <2> QED BY <2>2 DEF PcmCount, m
<1> QED BY <1>3, <1>4, <1>6, <1>7 DEF Counted, g, k

(* So does closeMixer_l(), and the stream forgets the mixer. *)
LEMMA StreamCloseMixerCount ==
  ASSUME NEW h, NEW c \in Nat, Counted(h, c), NEW s \in Streams
  PROVE  LET g == StreamCloseMixer(h, s)
         IN  /\ Counted(g, c) /\ SamePlay(g, h) /\ SamePcm(g, h)
             /\ Put(g.mixer, h.mixer, s, FALSE)
<1> DEFINE k == closeMixer_l(h)
           g == [k EXCEPT !.mixer[s] = FALSE]
           n == Cardinality(Chosen(Streams, h.mixer))
           m == Cardinality(Chosen(Streams, g.mixer))
<1>0. CASE ~h.mixer[s]
  <2>1. StreamCloseMixer(h, s) = h
    BY <1>0 DEF StreamCloseMixer
  <2> QED BY <1>0, <2>1, SameTrans DEF SamePcm, Put
<1>8. CASE h.mixer[s]
  <2>1. h \in Hw /\ k \in Hw /\ h.mMixerOpenCnt \in Nat
    BY CloseMixerType DEF Counted, Hw, HwRecords
  <2>2. /\ SamePlay(k, h) /\ SamePcm(k, h) /\ k.mixer = h.mixer
        /\ h.mMixerOpenCnt = 0 => SameMixer(k, h)
        /\ h.mMixerOpenCnt # 0 => /\ k.mMixerOpenCnt = h.mMixerOpenCnt - 1
                                  /\ k.mMixer <=> (h.mMixer /\ h.mMixerOpenCnt > 1)
    BY <2>1, ZenonT(40) DEF closeMixer_l, Hw, HwRecords, SamePlay, SameHal, SameStreams,
                SameMixer, SamePcm
  <2> HIDE DEF k
  <2>3. /\ g \in Hw /\ SamePlay(g, k) /\ SamePcm(g, k)
        /\ g.mMixer = k.mMixer /\ g.mMixerOpenCnt = k.mMixerOpenCnt
        /\ Put(g.mixer, k.mixer, s, FALSE)
    BY <2>1, PutFields
  <2>0. StreamCloseMixer(h, s) = g
    BY <1>8 DEF StreamCloseMixer, k
  <2> HIDE DEF g
  <2>4. SamePlay(g, h) /\ SamePcm(g, h) /\ Put(g.mixer, h.mixer, s, FALSE)
    BY <2>2, <2>3, SameTrans DEF SamePcm
  <2>5. n \in Nat /\ m \in Nat /\ n = m + 1
    BY <1>8, <2>4, CountOne DEF Put
  <2>6. PcmCount(g, c)
    BY <2>3, <2>4, SameCounted DEF Counted
  <2>7. MixerCount(g, c)
    <3> HIDE DEF n, m
    <3>1. /\ h.mMixer <=> h.mMixerOpenCnt > 0
          /\ h.mMixerOpenCnt <= n + c
          /\ "mixer" \notin Faults => h.mMixerOpenCnt = n + c
      BY DEF Counted, MixerCount, n
    <3>2. /\ g.mMixer <=> g.mMixerOpenCnt > 0
          /\ g.mMixerOpenCnt <= m + c
          /\ "mixer" \notin Faults => g.mMixerOpenCnt = m + c
      BY <2>1, <2>2, <2>3, <2>5, <3>1 DEF SameMixer
    <3> QED BY <3>2 DEF MixerCount, m
  <2> QED BY <2>0, <2>3, <2>4, <2>6, <2>7 DEF Counted
<1> QED BY <1>0, <1>8

(* A driver that does not fail says yes. *)
LEMMA AnswersYes ==
  ASSUME NEW call, NEW ok \in Answers(call)
  PROVE  ok \in BOOLEAN /\ (call \notin Faults => ok)
BY DEF Answers

(* openMixer_l() takes a reference for a stream that has none. *)
LEMMA StreamOpenMixerCount ==
  ASSUME NEW h, NEW c \in Nat, Counted(h, c), NEW s \in Streams, ~h.mixer[s],
         NEW ok \in Answers("mixer")
  PROVE  LET g == StreamOpenMixer(h, s, ok)
         IN  /\ Counted(g, c) /\ SamePlay(g, h) /\ SamePcm(g, h)
             /\ \E b \in BOOLEAN : Put(g.mixer, h.mixer, s, b)
<1> DEFINE k == openMixer_l(h, ok)
           b == k.mMixer /\ (h.mMixer => h.mMixerOpenCnt > 0)
           g == [k EXCEPT !.mixer[s] = b]
           n == Cardinality(Chosen(Streams, h.mixer))
           m == Cardinality(Chosen(Streams, g.mixer))
<1>0. StreamOpenMixer(h, s, ok) = g /\ b \in BOOLEAN
  BY DEF StreamOpenMixer
<1>1. /\ h \in Hw /\ k \in Hw /\ h.mMixerOpenCnt \in Nat
      /\ ok \in BOOLEAN /\ ("mixer" \notin Faults => ok)
  BY OpenMixerType, AnswersYes DEF Counted, Hw, HwRecords
<1>2. h.mMixer <=> h.mMixerOpenCnt > 0
  BY DEF Counted, MixerCount
<1>3. /\ SamePlay(k, h) /\ SamePcm(k, h) /\ k.mixer = h.mixer
      /\ h.mMixerOpenCnt > 0 \/ ok =>
           k.mMixerOpenCnt = h.mMixerOpenCnt + 1 /\ k.mMixer
      /\ h.mMixerOpenCnt = 0 /\ ~ok => SameMixer(k, h)
  <2> USE DEF Hw, HwRecords, SamePlay, SameHal, SameStreams, SameMixer, SamePcm
  <2>1. CASE h.mMixerOpenCnt > 0
    <3>1. k = [h EXCEPT !.mMixerOpenCnt = @ + 1]
      BY <2>1 DEF openMixer_l
    <3> HIDE DEF k
    <3> QED BY <1>1, <1>2, <2>1, <3>1
  <2>2. CASE h.mMixerOpenCnt = 0 /\ ok
    <3>1. k = [h EXCEPT !.mMixerOpenCnt = 1, !.mMixer = TRUE]
      BY <1>2, <2>2 DEF openMixer_l
    <3> HIDE DEF k
    <3> QED BY <1>1, <2>2, <3>1
  <2>3. CASE h.mMixerOpenCnt = 0 /\ ~ok
    <3>1. k = h
      BY <2>3 DEF openMixer_l
    <3> HIDE DEF k
    <3> QED BY <2>3, <3>1
  <2> QED BY <1>1, <2>1, <2>2, <2>3
<1>4. b <=> (h.mMixerOpenCnt > 0 \/ ok)
  BY <1>1, <1>2, <1>3 DEF SameMixer
<1> HIDE DEF k, b
<1>5. /\ g \in Hw /\ SamePlay(g, k) /\ SamePcm(g, k)
      /\ g.mMixer = k.mMixer /\ g.mMixerOpenCnt = k.mMixerOpenCnt
      /\ Put(g.mixer, k.mixer, s, b)
  BY <1>0, <1>1, PutFields
<1> HIDE DEF g
<1>6. SamePlay(g, h) /\ SamePcm(g, h) /\ Put(g.mixer, h.mixer, s, b)
  BY <1>3, <1>5, SameTrans DEF SamePcm
<1>7. n \in Nat /\ m \in Nat /\ (b => m = n + 1) /\ (~b => m = n)
  BY <1>6, CountOne DEF Put
<1>8. PcmCount(g, c)
  BY <1>5, <1>6, SameCounted DEF Counted
<1>9. MixerCount(g, c)
  <2> HIDE DEF n, m
  <2>1. /\ h.mMixer <=> h.mMixerOpenCnt > 0
        /\ h.mMixerOpenCnt <= n + c
        /\ "mixer" \notin Faults => h.mMixerOpenCnt = n + c
    BY DEF Counted, MixerCount, n
  <2>2. /\ g.mMixer <=> g.mMixerOpenCnt > 0
        /\ g.mMixerOpenCnt <= m + c
        /\ "mixer" \notin Faults => g.mMixerOpenCnt = m + c
    BY <1>1, <1>3, <1>4, <1>5, <1>7, <2>1 DEF SameMixer
  <2> QED BY <2>2 DEF MixerCount, m
<1> QED BY <1>0, <1>5, <1>6, <1>8, <1>9 DEF Counted

(* openPcmOut_l() counts one more, or nothing if the driver refuses.        *)
LEMMA OpenPcmFields ==
  ASSUME NEW h \in Hw, h.mPcm <=> h.mPcmOpenCnt > 0, NEW ok \in BOOLEAN
  PROVE  LET k == openPcmOut_l(h, ok)
         IN  /\ k \in Hw /\ SamePlay(k, h) /\ SameMixer(k, h) /\ k.pcm = h.pcm
             /\ h.mPcmOpenCnt \in Nat
             /\ h.mPcmOpenCnt > 0 \/ ok =>
                  k.mPcmOpenCnt = h.mPcmOpenCnt + 1 /\ k.mPcm
             /\ h.mPcmOpenCnt = 0 /\ ~ok => SamePcm(k, h) /\ ~k.mPcm
<1> DEFINE k == openPcmOut_l(h, ok)
<1>1. k \in Hw /\ h.mPcmOpenCnt \in Nat
  BY OpenPcmType DEF Hw, HwRecords
<1>2. /\ SamePlay(k, h) /\ SameMixer(k, h) /\ k.pcm = h.pcm
      /\ h.mPcmOpenCnt > 0 \/ ok =>
           k.mPcmOpenCnt = h.mPcmOpenCnt + 1 /\ k.mPcm
      /\ h.mPcmOpenCnt = 0 /\ ~ok => SamePcm(k, h) /\ ~k.mPcm
  <2> USE DEF Hw, HwRecords, SamePlay, SameHal, SameStreams, SameMixer, SamePcm
  <2>1. CASE h.mPcmOpenCnt > 0
    <3>1. k = [h EXCEPT !.mPcmOpenCnt = @ + 1]
      BY <2>1 DEF openPcmOut_l
    <3> HIDE DEF k
    <3> QED BY <1>1, <2>1, <3>1
  <2>2. CASE h.mPcmOpenCnt = 0 /\ ok
    <3>1. k = [h EXCEPT !.mPcmOpenCnt = 1, !.mPcm = TRUE]
      BY <2>2 DEF openPcmOut_l
    <3> HIDE DEF k
    <3> QED BY <1>1, <2>2, <3>1
  <2>3. CASE h.mPcmOpenCnt = 0 /\ ~ok
    <3>1. k = h
      BY <2>3 DEF openPcmOut_l
    <3> HIDE DEF k
    <3> QED BY <2>3, <3>1
  <2> QED BY <1>1, <2>1, <2>2, <2>3
<1> QED BY <1>1, <1>2

(* close_l() of an output gives back what it has. *)
LEMMA OutCloseCount ==
  ASSUME NEW h, NEW c \in Nat, Counted(h, c), NEW o \in Outputs
  PROVE  LET g == OutClose(h, o)
         IN  /\ Counted(g, c) /\ SamePlay(g, h)
             /\ Put(g.pcm, h.pcm, o, FALSE) /\ Put(g.mixer, h.mixer, o, FALSE)
<1> DEFINE k == StreamCloseMixer(h, o)
           g == [closePcmOut_l(k) EXCEPT !.pcm[o] = FALSE]
<1>1. /\ Counted(k, c) /\ SamePlay(k, h) /\ SamePcm(k, h)
      /\ Put(k.mixer, h.mixer, o, FALSE)
  BY StreamCloseMixerCount DEF Streams
<1> HIDE DEF k
<1>2. CASE k.pcm[o]
  <2>1. /\ Counted(g, c) /\ SamePlay(g, k) /\ SameMixer(g, k)
        /\ Put(g.pcm, k.pcm, o, FALSE)
    BY <1>1, <1>2, ClosePcmCount
  <2>2. OutClose(h, o) = g
    BY <1>2 DEF OutClose, k
  <2> HIDE DEF g
  <2> QED BY <1>1, <2>1, <2>2, SameTrans DEF SamePcm, SameMixer
<1>3. CASE ~k.pcm[o]
  <2>1. OutClose(h, o) = k
    BY <1>3 DEF OutClose, k
  <2> QED BY <1>1, <1>3, <2>1 DEF SamePcm, Put
<1> QED BY <1>2, <1>3

(* open_l() of an output that is closed takes references, or none. *)
LEMMA OutOpenCount ==
  ASSUME NEW h, NEW c \in Nat, Counted(h, c), NEW o \in Outputs,
         ~h.pcm[o], ~h.mixer[o],
         NEW pcmOk \in Answers("pcm"), NEW mixOk \in Answers("mixer")
  PROVE  LET g == OutOpen(h, o, pcmOk, mixOk)
         IN  /\ Counted(g, c) /\ SamePlay(g, h)
             /\ \E p, m \in BOOLEAN :
                  /\ Put(g.pcm, h.pcm, o, p) /\ Put(g.mixer, h.mixer, o, m)
                  /\ m => p
                  /\ "pcm" \notin Faults => p
<1> DEFINE k == openPcmOut_l(h, pcmOk)
           p == k.mPcm /\ (h.mPcm => h.mPcmOpenCnt > 0)
           a == [k EXCEPT !.pcm[o] = TRUE]
           n == Cardinality(Chosen(Outputs, h.pcm))
           m == Cardinality(Chosen(Outputs, a.pcm))
<1>1. /\ h \in Hw /\ o \in Streams /\ pcmOk \in BOOLEAN
      /\ "pcm" \notin Faults => pcmOk
  BY AnswersYes DEF Counted, Streams
<1>2. /\ h.mPcm <=> h.mPcmOpenCnt > 0
      /\ h.mPcmOpenCnt <= n + c
      /\ "pcm" \notin Faults => h.mPcmOpenCnt = n + c
  BY DEF Counted, PcmCount
<1>3. /\ k \in Hw /\ SamePlay(k, h) /\ SameMixer(k, h) /\ k.pcm = h.pcm
      /\ h.mPcmOpenCnt \in Nat
      /\ h.mPcmOpenCnt > 0 \/ pcmOk =>
           k.mPcmOpenCnt = h.mPcmOpenCnt + 1 /\ k.mPcm
      /\ h.mPcmOpenCnt = 0 /\ ~pcmOk => SamePcm(k, h) /\ ~k.mPcm
  BY <1>1, <1>2, OpenPcmFields
<1>0. /\ p => OutOpen(h, o, pcmOk, mixOk) = StreamOpenMixer(a, o, mixOk)
      /\ ~p => OutOpen(h, o, pcmOk, mixOk) = [k EXCEPT !.pcm[o] = FALSE]
  BY DEF OutOpen
<1>9. p <=> (h.mPcmOpenCnt > 0 \/ pcmOk)
  BY <1>2, <1>3
<1> HIDE DEF k, p
<1>4. CASE p
  <2>1. /\ a \in Hw /\ SamePlay(a, k) /\ SameMixer(a, k)
        /\ a.mPcm = k.mPcm /\ a.mPcmOpenCnt = k.mPcmOpenCnt
        /\ Put(a.pcm, k.pcm, o, TRUE)
    BY <1>1, <1>3, PutFields
  <2> HIDE DEF a
  <2>2. /\ SamePlay(a, h) /\ SameMixer(a, h) /\ Put(a.pcm, h.pcm, o, TRUE)
    BY <1>3, <2>1, SameTrans DEF SameMixer
  <2>3. n \in Nat /\ m = n + 1
    BY <2>2, CountOne DEF Put, Streams
  <2>4. PcmCount(a, c)
    <3> HIDE DEF n, m
    <3>1. /\ a.mPcm <=> a.mPcmOpenCnt > 0
          /\ a.mPcmOpenCnt <= m + c
          /\ "pcm" \notin Faults => a.mPcmOpenCnt = m + c
      BY <1>2, <1>3, <1>4, <1>9, <2>1, <2>3
    <3> QED BY <3>1 DEF PcmCount, m
  <2>5. Counted(a, c) /\ ~a.mixer[o]
    BY <2>1, <2>2, <2>4, SameCounted DEF Counted, SameMixer
  <2>6. PICK b \in BOOLEAN :
          LET g == StreamOpenMixer(a, o, mixOk)
          IN  /\ Counted(g, c) /\ SamePlay(g, a) /\ SamePcm(g, a)
              /\ Put(g.mixer, a.mixer, o, b)
    BY <1>1, <2>5, StreamOpenMixerCount
  <2> DEFINE g == StreamOpenMixer(a, o, mixOk)
  <2>7. /\ Counted(g, c) /\ SamePlay(g, a) /\ SamePcm(g, a)
        /\ Put(g.mixer, a.mixer, o, b)
    BY <2>6
  <2>8. OutOpen(h, o, pcmOk, mixOk) = g
    BY <1>0, <1>4
  <2> HIDE DEF g
  <2>9. /\ SamePlay(g, h) /\ Put(g.pcm, h.pcm, o, TRUE)
        /\ Put(g.mixer, h.mixer, o, b)
    BY <2>2, <2>7, SameTrans DEF SamePcm, SameMixer
  <2> QED BY <2>7, <2>8, <2>9
<1>5. CASE ~p
  <2> DEFINE g == [k EXCEPT !.pcm[o] = FALSE]
  <2>1. /\ g \in Hw /\ SamePlay(g, k) /\ SameMixer(g, k)
        /\ g.mPcm = k.mPcm /\ g.mPcmOpenCnt = k.mPcmOpenCnt
        /\ Put(g.pcm, k.pcm, o, FALSE)
    BY <1>1, <1>3, PutFields
  <2>2. OutOpen(h, o, pcmOk, mixOk) = g
    BY <1>0, <1>5
  <2> HIDE DEF g
  <2>3. /\ SamePlay(g, h) /\ SameMixer(g, h) /\ Put(g.pcm, h.pcm, o, FALSE)
        /\ Put(g.mixer, h.mixer, o, FALSE)
        /\ g.mPcm = h.mPcm /\ g.mPcmOpenCnt = h.mPcmOpenCnt
    BY <1>3, <1>5, <1>9, <2>1, SameTrans DEF SameMixer, SamePcm, Put
  <2>4. Chosen(Outputs, g.pcm) = Chosen(Outputs, h.pcm)
    BY <2>3, CountOne DEF Put, Streams
  <2>5. Counted(g, c)
    BY <2>1, <2>3, <2>4, SameCounted DEF Counted, PcmCount
  <2>6. "pcm" \in Faults
    BY <1>1, <1>5, <1>9
  <2> QED BY <2>2, <2>3, <2>5, <2>6
<1> QED BY <1>4, <1>5

(* The counts do not depend on the streams' other fields. *)
LEMMA CountedSame ==
  ASSUME NEW h, NEW g \in Hw, NEW c, Counted(h, c), SamePcm(g, h), SameMixer(g, h)
  PROVE  Counted(g, c)
BY SameCounted DEF Counted

(* The copies of the standby count of s are out of date. *)
Forgets(g, h, s) ==
  \A t \in Threads :
    g.current[t] = IF h.current[t] = s THEN NULL ELSE h.current[t]

(* mStandbyCnt++ does nothing else. *)
LEMMA CountStandbyFields ==
  ASSUME NEW h \in Hw, NEW s
  PROVE  LET g == CountStandby(h, s)
         IN  /\ g \in Hw /\ SameHal(g, h) /\ SamePcm(g, h) /\ SameMixer(g, h)
             /\ g.standby = h.standby /\ g.echo = h.echo /\ g.wakeLock = h.wakeLock
             /\ Forgets(g, h, s)
BY CountType DEF CountStandby, Hw, HwRecords, SameHal, SameStreams, SamePcm,
                 SameMixer, Forgets

(* doStandby_l() of an output: it is closed, in standby, and silent. *)
LEMMA OutDoStandbyCount ==
  ASSUME NEW h, NEW c \in Nat, Counted(h, c), NEW o \in Outputs
  PROVE  LET g == OutDoStandby(h, o)
         IN  /\ Counted(g, c) /\ SameHal(g, h) /\ g.echo = h.echo
             /\ Put(g.pcm, h.pcm, o, FALSE) /\ Put(g.mixer, h.mixer, o, FALSE)
             /\ Put(g.standby, h.standby, o, TRUE)
             /\ g.wakeLock <=> (h.wakeLock /\ h.standby[o])
             /\ Forgets(g, h, o)
<1> DEFINE k == CountStandby(h, o)
           a == [k EXCEPT !.wakeLock = k.wakeLock /\ h.standby[o],
                          !.standby[o] = TRUE]
           g == OutClose(a, o)
<1>1. /\ k \in Hw /\ SameHal(k, h) /\ SamePcm(k, h) /\ SameMixer(k, h)
      /\ k.standby = h.standby /\ k.echo = h.echo /\ k.wakeLock = h.wakeLock
      /\ Forgets(k, h, o) /\ h \in Hw
  BY CountStandbyFields DEF Counted
<1>0. OutDoStandby(h, o) = g
  BY DEF OutDoStandby
<1> HIDE DEF k
<1>2. (k.wakeLock /\ h.standby[o]) \in BOOLEAN /\ o \in Streams
  BY DEF Streams
<1>3. /\ a \in Hw /\ SameHal(a, k) /\ SamePcm(a, k) /\ SameMixer(a, k)
      /\ a.echo = k.echo /\ a.current = k.current
      /\ a.wakeLock = (k.wakeLock /\ h.standby[o])
      /\ a.standby = [k.standby EXCEPT ![o] = TRUE]
  BY <1>1, <1>2 DEF Hw, HwRecords, SameHal, SameStreams, SamePcm, SameMixer
<1>4. Put(a.standby, k.standby, o, TRUE)
  BY <1>1, <1>2, <1>3 DEF Hw, HwRecords, Put
<1> HIDE DEF a
<1>5. Counted(a, c)
  BY <1>1, <1>3, CountedSame DEF SamePcm, SameMixer
<1>6. /\ Counted(g, c) /\ SamePlay(g, a)
      /\ Put(g.pcm, a.pcm, o, FALSE) /\ Put(g.mixer, a.mixer, o, FALSE)
  BY <1>5, OutCloseCount
<1> HIDE DEF g
<1>7. SameHal(g, h) /\ g.echo = h.echo
  BY <1>1, <1>3, <1>6, SameTrans DEF SamePlay
<1>8. /\ Put(g.pcm, h.pcm, o, FALSE) /\ Put(g.mixer, h.mixer, o, FALSE)
      /\ Put(g.standby, h.standby, o, TRUE)
  BY <1>1, <1>3, <1>4, <1>6 DEF SamePcm, SameMixer, SamePlay
<1>9. g.wakeLock <=> (h.wakeLock /\ h.standby[o])
  <2>1. g.wakeLock = (k.wakeLock /\ h.standby[o])
    BY <1>3, <1>6 DEF SamePlay
  <2> QED BY <1>1, <2>1
<1>10. Forgets(g, h, o)
  BY <1>1, <1>3, <1>6 DEF SamePlay, Forgets
<1> QED BY <1>0, <1>6, <1>7, <1>8, <1>9, <1>10

(* close_l() of an input. *)
LEMMA InCloseCount ==
  ASSUME NEW h, NEW c \in Nat, Counted(h, c), NEW i \in Inputs
  PROVE  LET g == InClose(h, i)
         IN  /\ Counted(g, c) /\ SamePlay(g, h)
             /\ Put(g.pcm, h.pcm, i, FALSE) /\ Put(g.mixer, h.mixer, i, FALSE)
<1> DEFINE k == StreamCloseMixer(h, i)
           g == [k EXCEPT !.pcm[i] = FALSE]
<1>1. /\ Counted(k, c) /\ SamePlay(k, h) /\ SamePcm(k, h)
      /\ Put(k.mixer, h.mixer, i, FALSE) /\ k \in Hw /\ i \in Streams
  BY StreamCloseMixerCount DEF Streams, Counted
<1>0. InClose(h, i) = g
  BY DEF InClose
<1> HIDE DEF k
<1>2. /\ g \in Hw /\ SamePlay(g, k) /\ SameMixer(g, k)
      /\ g.mPcm = k.mPcm /\ g.mPcmOpenCnt = k.mPcmOpenCnt
      /\ Put(g.pcm, k.pcm, i, FALSE)
  BY <1>1, PutFields
<1> HIDE DEF g
<1>3. Chosen(Outputs, g.pcm) = Chosen(Outputs, k.pcm)
  BY <1>1, <1>2, StreamAssumption DEF Put, Chosen, Streams
<1>4. Counted(g, c)
  BY <1>1, <1>2, <1>3, SameCounted DEF Counted, PcmCount
<1> QED BY <1>0, <1>1, <1>2, <1>4, SameTrans DEF SamePcm, SameMixer

(* open_l() of an input that has no mixer.  The device opens only once.     *)
LEMMA InOpenCount ==
  ASSUME NEW h, NEW c \in Nat, Counted(h, c), NEW i \in Inputs, ~h.mixer[i],
         NEW pcmOk \in Answers("pcm"), NEW mixOk \in Answers("mixer")
  PROVE  LET g == InOpen(h, i, pcmOk, mixOk)
         IN  /\ Counted(g, c) /\ SamePlay(g, h)
             /\ \E p, m \in BOOLEAN :
                  /\ Put(g.pcm, h.pcm, i, p) /\ Put(g.mixer, h.mixer, i, m)
                  /\ m => p
                  /\ p => \A j \in Inputs \ {i} : ~h.pcm[j]
                  /\ "pcm" \notin Faults /\ (\A j \in Inputs \ {i} : ~h.pcm[j])
                       => p
<1> DEFINE a == [h EXCEPT !.pcm[i] = TRUE]
           z == [h EXCEPT !.pcm[i] = FALSE]
           p == pcmOk /\ ~CaptureBusy(z)
<1>1. /\ h \in Hw /\ i \in Streams /\ pcmOk \in BOOLEAN
      /\ "pcm" \notin Faults => pcmOk
  BY AnswersYes DEF Counted, Streams
<1>0. /\ p => InOpen(h, i, pcmOk, mixOk) = StreamOpenMixer(a, i, mixOk)
      /\ ~p => InOpen(h, i, pcmOk, mixOk) = z
  BY DEF InOpen
<1>2. /\ a \in Hw /\ SamePlay(a, h) /\ SameMixer(a, h)
      /\ a.mPcm = h.mPcm /\ a.mPcmOpenCnt = h.mPcmOpenCnt
      /\ Put(a.pcm, h.pcm, i, TRUE)
  BY <1>1, PutFields
<1>3. /\ z \in Hw /\ SamePlay(z, h) /\ SameMixer(z, h)
      /\ z.mPcm = h.mPcm /\ z.mPcmOpenCnt = h.mPcmOpenCnt
      /\ Put(z.pcm, h.pcm, i, FALSE)
  BY <1>1, PutFields
<1> HIDE DEF a, z
<1>4. CaptureBusy(z) <=> \E j \in Inputs \ {i} : h.pcm[j]
  <2>1. \A j \in Inputs : z.pcm[j] <=> (j # i /\ h.pcm[j])
    BY <1>3 DEF Put, Streams
  <2> QED BY <2>1 DEF CaptureBusy
<1> HIDE DEF p
<1>5. ASSUME NEW x \in Hw, NEW b, Put(x.pcm, h.pcm, i, b), SameMixer(x, h),
             x.mPcm = h.mPcm, x.mPcmOpenCnt = h.mPcmOpenCnt
      PROVE  Counted(x, c)
  <2>1. Chosen(Outputs, x.pcm) = Chosen(Outputs, h.pcm)
    BY <1>1, <1>5, StreamAssumption DEF Put, Chosen, Streams
  <2> QED BY <1>5, <2>1, SameCounted DEF Counted, PcmCount
<1>6. CASE p
  <2>1. Counted(a, c) /\ ~a.mixer[i]
    BY <1>2, <1>5 DEF SameMixer
  <2> DEFINE g == StreamOpenMixer(a, i, mixOk)
  <2>2. /\ Counted(g, c) /\ SamePlay(g, a) /\ SamePcm(g, a)
        /\ \E b \in BOOLEAN : Put(g.mixer, a.mixer, i, b)
    BY <1>1, <2>1, StreamOpenMixerCount
  <2>3. InOpen(h, i, pcmOk, mixOk) = g
    BY <1>0, <1>6
  <2> HIDE DEF g
  <2>4. PICK b \in BOOLEAN : Put(g.mixer, a.mixer, i, b)
    BY <2>2
  <2>5. /\ SamePlay(g, h) /\ Put(g.pcm, h.pcm, i, TRUE)
        /\ Put(g.mixer, h.mixer, i, b)
    BY <1>2, <2>2, <2>4, SameTrans DEF SamePcm, SameMixer
  <2>6. \A j \in Inputs \ {i} : ~h.pcm[j]
    BY <1>4, <1>6 DEF p
  <2> QED BY <2>2, <2>3, <2>5, <2>6
<1>7. CASE ~p
  <2>1. InOpen(h, i, pcmOk, mixOk) = z
    BY <1>0, <1>7
  <2>2. Counted(z, c) /\ Put(z.mixer, h.mixer, i, FALSE)
    BY <1>3, <1>5 DEF SameMixer, Put
  <2>3. ~("pcm" \notin Faults /\ (\A j \in Inputs \ {i} : ~h.pcm[j]))
    BY <1>1, <1>4, <1>7 DEF p
  <2> QED BY <1>3, <2>1, <2>2, <2>3
<1> QED BY <1>6, <1>7

(* The end of doStandby_l() of an input.                                    *)
LEMMA InFinishCount ==
  ASSUME NEW h, NEW c \in Nat, Counted(h, c), NEW i \in Inputs
  PROVE  LET g == InFinishStandby(h, i)
         IN  /\ Counted(g, c) /\ SameHal(g, h)
             /\ g.echo[i] \in {h.echo[i], NULL}
             /\ \A s \in Streams \ {i} : g.echo[s] = h.echo[s]
             /\ Put(g.pcm, h.pcm, i, FALSE) /\ Put(g.mixer, h.mixer, i, FALSE)
             /\ Put(g.standby, h.standby, i, TRUE)
             /\ g.wakeLock = h.wakeLock /\ g.current = h.current
<1> DEFINE a == [h EXCEPT !.echo[i] = IF h.standby[i] THEN @ ELSE NULL,
                          !.standby[i] = TRUE]
           g == InClose(a, i)
<1>0. InFinishStandby(h, i) = g
  BY DEF InFinishStandby
<1>1. h \in Hw /\ i \in Streams
  BY DEF Counted, Streams
<1>2. /\ a \in Hw /\ SameHal(a, h) /\ SamePcm(a, h) /\ SameMixer(a, h)
      /\ a.current = h.current /\ a.wakeLock = h.wakeLock
      /\ a.standby = [h.standby EXCEPT ![i] = TRUE]
      /\ a.echo[i] \in {h.echo[i], NULL}
      /\ \A s \in Streams \ {i} : a.echo[s] = h.echo[s]
  BY <1>1 DEF Hw, HwRecords, SameHal, SameStreams, SamePcm, SameMixer
<1>3. Put(a.standby, h.standby, i, TRUE)
  BY <1>1, <1>2 DEF Hw, HwRecords, Put
<1> HIDE DEF a
<1>4. Counted(a, c)
  BY <1>2, CountedSame
<1>5. /\ Counted(g, c) /\ SamePlay(g, a)
      /\ Put(g.pcm, a.pcm, i, FALSE) /\ Put(g.mixer, a.mixer, i, FALSE)
  BY <1>4, InCloseCount
<1> HIDE DEF g
<1>6. SameHal(g, h)
  BY <1>2, <1>5, SameTrans DEF SamePlay
<1>7. /\ Put(g.pcm, h.pcm, i, FALSE) /\ Put(g.mixer, h.mixer, i, FALSE)
      /\ Put(g.standby, h.standby, i, TRUE)
  BY <1>2, <1>3, <1>5 DEF SamePcm, SameMixer, SamePlay
<1> QED BY <1>0, <1>2, <1>5, <1>6, <1>7 DEF SamePlay

(* doStandby_l() of an input that does not wait. *)
LEMMA InDoStandbyCount ==
  ASSUME NEW h, NEW c \in Nat, Counted(h, c), NEW i \in Inputs
  PROVE  LET g == InDoStandby(h, i)
         IN  /\ Counted(g, c) /\ SameHal(g, h)
             /\ g.echo[i] \in {h.echo[i], NULL}
             /\ \A s \in Streams \ {i} : g.echo[s] = h.echo[s]
             /\ Put(g.pcm, h.pcm, i, FALSE) /\ Put(g.mixer, h.mixer, i, FALSE)
             /\ Put(g.standby, h.standby, i, TRUE)
             /\ g.wakeLock = h.wakeLock /\ Forgets(g, h, i)
<1> DEFINE k == CountStandby(h, i)
           g == InFinishStandby(k, i)
<1>0. InDoStandby(h, i) = g
  BY DEF InDoStandby
<1>1. /\ k \in Hw /\ SameHal(k, h) /\ SamePcm(k, h) /\ SameMixer(k, h)
      /\ k.standby = h.standby /\ k.echo = h.echo /\ k.wakeLock = h.wakeLock
      /\ Forgets(k, h, i)
  BY CountStandbyFields DEF Counted
<1>2. Counted(k, c)
  BY <1>1, CountedSame
<1> HIDE DEF k
<1>3. /\ Counted(g, c) /\ SameHal(g, k)
      /\ g.echo[i] \in {k.echo[i], NULL}
      /\ \A s \in Streams \ {i} : g.echo[s] = k.echo[s]
      /\ Put(g.pcm, k.pcm, i, FALSE) /\ Put(g.mixer, k.mixer, i, FALSE)
      /\ Put(g.standby, k.standby, i, TRUE)
      /\ g.wakeLock = k.wakeLock /\ g.current = k.current
  BY <1>2, InFinishCount
<1> HIDE DEF g
<1>4. SameHal(g, h) /\ g.wakeLock = h.wakeLock
  BY <1>1, <1>3, SameTrans
<1>5. /\ g.echo[i] \in {h.echo[i], NULL}
      /\ \A s \in Streams \ {i} : g.echo[s] = h.echo[s]
      /\ Forgets(g, h, i)
  BY <1>1, <1>3 DEF Forgets
<1>6. /\ Put(g.pcm, h.pcm, i, FALSE) /\ Put(g.mixer, h.mixer, i, FALSE)
      /\ Put(g.standby, h.standby, i, TRUE)
  BY <1>1, <1>3 DEF SamePcm, SameMixer
<1> QED BY <1>0, <1>3, <1>4, <1>5, <1>6

(* Entering a call takes a reference to each device, leaving gives it back. *)
LEMMA CallCount ==
  ASSUME NEW h, NEW pcmOk \in Answers("pcm"), NEW mixOk \in Answers("mixer")
  PROVE  /\ LET g == openMixer_l(openPcmOut_l(h, pcmOk), mixOk)
            IN  Counted(h, 0) =>
                  Counted(g, 1) /\ SamePlay(g, h) /\ g.pcm = h.pcm /\ g.mixer = h.mixer
         /\ LET g == closePcmOut_l(closeMixer_l(h))
            IN  Counted(h, 1) =>
                  Counted(g, 0) /\ SamePlay(g, h) /\ g.pcm = h.pcm /\ g.mixer = h.mixer
<1> DEFINE n == Cardinality(Chosen(Outputs, h.pcm))
           m == Cardinality(Chosen(Streams, h.mixer))
<1>0. n \in Nat /\ m \in Nat
  <2>1. IsFiniteSet(Outputs) /\ IsFiniteSet(Streams)
    BY StreamAssumption, FS_Union DEF Streams
  <2>2. /\ Chosen(Outputs, h.pcm) \in SUBSET Outputs
        /\ Chosen(Streams, h.mixer) \in SUBSET Streams
    BY DEF Chosen
  <2> QED BY <2>1, <2>2, FS_Subset, FS_CardinalityType
<1> USE DEF SamePlay, SameHal, SameStreams
<1>1. ASSUME Counted(h, 0)
      PROVE  LET g == openMixer_l(openPcmOut_l(h, pcmOk), mixOk)
             IN  Counted(g, 1) /\ SamePlay(g, h) /\ g.pcm = h.pcm /\ g.mixer = h.mixer
  <2> DEFINE k == openPcmOut_l(h, pcmOk)
             g == openMixer_l(k, mixOk)
  <2>1. /\ h \in Hw /\ h.mPcmOpenCnt \in Nat /\ h.mMixerOpenCnt \in Nat
        /\ pcmOk \in BOOLEAN /\ ("pcm" \notin Faults => pcmOk)
        /\ mixOk \in BOOLEAN /\ ("mixer" \notin Faults => mixOk)
    BY <1>1, AnswersYes DEF Counted, Hw, HwRecords
  <2>2. /\ h.mPcm <=> h.mPcmOpenCnt > 0
        /\ h.mPcmOpenCnt <= n
        /\ "pcm" \notin Faults => h.mPcmOpenCnt = n
        /\ h.mMixer <=> h.mMixerOpenCnt > 0
        /\ h.mMixerOpenCnt <= m
        /\ "mixer" \notin Faults => h.mMixerOpenCnt = m
    BY <1>0, <1>1, <2>1 DEF Counted, PcmCount, MixerCount
  <2>3. /\ k \in Hw /\ SamePlay(k, h) /\ SameMixer(k, h) /\ k.pcm = h.pcm
        /\ h.mPcmOpenCnt > 0 \/ pcmOk =>
             k.mPcmOpenCnt = h.mPcmOpenCnt + 1 /\ k.mPcm
        /\ h.mPcmOpenCnt = 0 /\ ~pcmOk => SamePcm(k, h) /\ ~k.mPcm
    BY <2>1, <2>2, OpenPcmFields
  <2>4. PcmCount(k, 1)
    <3> HIDE DEF n, m, k
    <3>1. /\ k.mPcm <=> k.mPcmOpenCnt > 0
          /\ k.mPcmOpenCnt <= n + 1
          /\ "pcm" \notin Faults => k.mPcmOpenCnt = n + 1
      BY <1>0, <2>1, <2>2, <2>3 DEF SamePcm
    <3> QED BY <2>3, <3>1 DEF PcmCount, n
  <2> HIDE DEF k
  <2>5. /\ k.mMixer = h.mMixer /\ k.mMixerOpenCnt = h.mMixerOpenCnt
        /\ k.mixer = h.mixer
    BY <2>3 DEF SameMixer
  <2>6. /\ g \in Hw /\ SamePlay(g, k) /\ SamePcm(g, k) /\ g.mixer = k.mixer
        /\ h.mMixerOpenCnt > 0 \/ mixOk =>
             g.mMixerOpenCnt = h.mMixerOpenCnt + 1 /\ g.mMixer
        /\ h.mMixerOpenCnt = 0 /\ ~mixOk => SameMixer(g, k)
    <3>0. g \in Hw
      BY <2>1, <2>3, OpenMixerType
    <3> USE DEF Hw, HwRecords, SameMixer, SamePcm
    <3>1. CASE h.mMixerOpenCnt > 0
      <4>1. g = [k EXCEPT !.mMixerOpenCnt = @ + 1]
        BY <2>5, <3>1 DEF openMixer_l
      <4> HIDE DEF g
      <4> QED BY <2>1, <2>2, <2>3, <2>5, <3>0, <3>1, <4>1, SMTT(20)
    <3>2. CASE h.mMixerOpenCnt = 0 /\ mixOk
      <4>1. g = [k EXCEPT !.mMixerOpenCnt = 1, !.mMixer = TRUE]
        BY <2>2, <2>5, <3>2 DEF openMixer_l
      <4> HIDE DEF g
      <4> QED BY <2>1, <2>3, <2>5, <3>0, <3>2, <4>1
    <3>3. CASE h.mMixerOpenCnt = 0 /\ ~mixOk
      <4>1. g = k
        BY <2>5, <3>3 DEF openMixer_l
      <4> HIDE DEF g
      <4> QED BY <3>0, <3>3, <4>1
    <3> QED BY <2>1, <3>1, <3>2, <3>3
  <2> HIDE DEF g
  <2>7. MixerCount(g, 1)
    <3> HIDE DEF n, m
    <3>1. /\ g.mMixer <=> g.mMixerOpenCnt > 0
          /\ g.mMixerOpenCnt <= m + 1
          /\ "mixer" \notin Faults => g.mMixerOpenCnt = m + 1
      BY <1>0, <2>1, <2>2, <2>5, <2>6 DEF SameMixer
    <3> QED BY <2>5, <2>6, <3>1 DEF MixerCount, m
  <2>8. PcmCount(g, 1)
    BY <2>4, <2>6, SameCounted
  <2>9. SamePlay(g, h) /\ g.pcm = h.pcm /\ g.mixer = h.mixer
    BY <2>3, <2>5, <2>6 DEF SamePcm
  <2> QED BY <2>6, <2>7, <2>8, <2>9 DEF Counted, g, k
<1>2. ASSUME Counted(h, 1)
      PROVE  LET g == closePcmOut_l(closeMixer_l(h))
             IN  Counted(g, 0) /\ SamePlay(g, h) /\ g.pcm = h.pcm /\ g.mixer = h.mixer
  <2> DEFINE k == closeMixer_l(h)
             g == closePcmOut_l(k)
  <2>1. h \in Hw /\ k \in Hw /\ h.mPcmOpenCnt \in Nat /\ h.mMixerOpenCnt \in Nat
    BY <1>2, CloseMixerType DEF Counted, Hw, HwRecords
  <2>2. /\ h.mPcm <=> h.mPcmOpenCnt > 0
        /\ h.mPcmOpenCnt <= n + 1
        /\ "pcm" \notin Faults => h.mPcmOpenCnt = n + 1
        /\ h.mMixer <=> h.mMixerOpenCnt > 0
        /\ h.mMixerOpenCnt <= m + 1
        /\ "mixer" \notin Faults => h.mMixerOpenCnt = m + 1
    BY <1>2 DEF Counted, PcmCount, MixerCount
  <2>3. /\ SamePlay(k, h) /\ SamePcm(k, h) /\ k.mixer = h.mixer
        /\ h.mMixerOpenCnt = 0 => SameMixer(k, h)
        /\ h.mMixerOpenCnt # 0 => /\ k.mMixerOpenCnt = h.mMixerOpenCnt - 1
                                  /\ k.mMixer <=> (h.mMixer /\ h.mMixerOpenCnt > 1)
    BY <2>1 DEF closeMixer_l, Hw, HwRecords, SameMixer, SamePcm
  <2> HIDE DEF k
  <2>4. MixerCount(k, 0)
    <3> HIDE DEF n, m
    <3>1. /\ k.mMixer <=> k.mMixerOpenCnt > 0
          /\ k.mMixerOpenCnt <= m + 0
          /\ "mixer" \notin Faults => k.mMixerOpenCnt = m + 0
      BY <1>0, <2>1, <2>2, <2>3 DEF SameMixer
    <3> QED BY <2>3, <3>1 DEF MixerCount, m
  <2>5. k.mPcm = h.mPcm /\ k.mPcmOpenCnt = h.mPcmOpenCnt /\ k.pcm = h.pcm
    BY <2>3 DEF SamePcm
  <2>6. /\ g \in Hw /\ SamePlay(g, k) /\ SameMixer(g, k) /\ g.pcm = k.pcm
        /\ h.mPcmOpenCnt = 0 => SamePcm(g, k)
        /\ h.mPcmOpenCnt # 0 => /\ g.mPcmOpenCnt = h.mPcmOpenCnt - 1
                                /\ g.mPcm <=> (h.mPcm /\ h.mPcmOpenCnt > 1)
    BY <2>1, <2>5, ClosePcmType DEF closePcmOut_l, Hw, HwRecords, SameMixer, SamePcm
  <2> HIDE DEF g
  <2>7. PcmCount(g, 0)
    <3> HIDE DEF n, m
    <3>1. /\ g.mPcm <=> g.mPcmOpenCnt > 0
          /\ g.mPcmOpenCnt <= n + 0
          /\ "pcm" \notin Faults => g.mPcmOpenCnt = n + 0
      BY <1>0, <2>1, <2>2, <2>5, <2>6 DEF SamePcm
    <3> QED BY <2>5, <2>6, <3>1 DEF PcmCount, n
  <2>8. MixerCount(g, 0)
    BY <2>4, <2>6, SameCounted
  <2>9. SamePlay(g, h) /\ g.pcm = h.pcm /\ g.mixer = h.mixer
    BY <2>3, <2>5, <2>6 DEF SameMixer
  <2> QED BY <2>6, <2>7, <2>8, <2>9 DEF Counted, g, k
<1> QED BY <1>1, <1>2

-------------------------------------------------------------------------------
(* The invariant *)

(* doStandby_l() of an input waits for the output's mutex. *)
Waiting == {"d_out", "d_in", "d_hw"}
Calling == {"m_enter", "m_leave"}

(* A thread runs a destructor. *)
Kills(me) == me.op = "destroy"

(* write() cannot open the input again that it has closed, and waits for    *)
(* the mutex that it holds itself.                                          *)
Stuck(me) == me.pc = "d_out" /\ me.resume = "w_fail"

(* The streams that it leaves half open. *)
Excused(me) == IF Stuck(me) THEN {me.dOut, me.target} ELSE {}

(* The reference setMode() holds. *)
Use(h, me) == IF h.mInCallAudioMode /\ me.resume # "m_leave" THEN 1 ELSE 0

OneInput == \A i, j \in Inputs : i = j

(* The echo reference of the output is the current one; and so is that of   *)
(* the input, if there is only one.  Without an echo canceller there is none, *)
(* and an output that was never the current one has none.                   *)
Echoes(h) ==
  /\ h.mOutput # NULL => h.echo[h.mOutput] \in {NULL, h.mEchoReference}
  /\ OneInput => \A i \in Inputs : h.echo[i] \in {NULL, h.mEchoReference}
  /\ "aec" \notin Calls => /\ \A i \in Inputs : ~h.needEcho[i]
                           /\ \A s \in Streams : h.echo[s] = NULL
  /\ "close" \notin Calls
       => \A o \in Outputs : o # h.mOutput => h.echo[o] = NULL

(* A stream is in standby when it is closed, ex excepted; one that does not *)
(* exist is closed; one input is active; a copy of the standby count of an  *)
(* output that is in standby is out of date.                                *)
Closed(h, live, ex) ==
  /\ \A s \in Streams : h.mixer[s] => h.pcm[s]
  /\ \A s \in Streams \ ex : h.standby[s] <=> ~h.pcm[s]
  /\ \A s \in Streams \ live : h.standby[s] /\ ~h.pcm[s]
  /\ \A i, j \in Inputs : ~h.standby[i] /\ ~h.standby[j] => i = j
  /\ \A t \in Threads, o \in Outputs : h.current[t] = o => ~h.standby[o]

Data(h, c, live, ex) == Counted(h, c) /\ Closed(h, live, ex) /\ Echoes(h)

(* The mutexes that a thread has. *)
Own(t, me, out, mine) ==
  /\ me.pc \in {"w_hw", "w_in", "w_hw2", "w_pcm"} => out \in mine
  /\ me.pc \in {"w_hw2", "m_hwi"} => me.spIn \in mine
  /\ me.pc \in {"r_hw", "r_hw2", "r_pcm"} => t \in mine
  /\ me.pc \in {"r_in2", "r_hw2", "m_hwo"} => me.spOut \in mine
  /\ \/ me.pc \in {"m_in", "m_hwi"} \union Calling
     \/ me.pc \in Waiting /\ me.resume \in Calling
     => me.spOut = NULL \/ me.spOut \in mine
  /\ me.pc \in Calling => me.spIn \in mine
  /\ me.pc \in {"s_hw", "s_end", "d_hw"} => me.target \in mine
  /\ me.pc \in {"d_in", "d_hw"} \/ Stuck(me) => me.dOut \in mine

(* Where it comes from and where it goes on. *)
Route(t, me, h) ==
  /\ me.dOut # NULL => me.pc \in Waiting
  /\ me.pc \in Waiting /\ Kills(me) => me.resume = "s_end"
  /\ me.pc \in Waiting /\ me.resume = "w_fail" =>
       /\ t = Playback /\ me.pc = "d_out" /\ me.dOut = h.mOutput
       /\ me.target = me.spIn
       /\ "aec" \in Calls /\ "pcm" \in Faults
  /\ me.resume \in Calling =>
       /\ t = Ctl
       /\ \/ me.pc \in Waiting \union Calling
          \/ me.pc \in {"s_lock", "s_hw"} /\ me.after \notin SafeReturn
       /\ me.pc \in Waiting => me.target = me.spIn
       /\ me.pc \in {"d_in", "d_hw"} => me.spOut # me.dOut
  /\ me.resume = "m_leave" => h.mInCallAudioMode
  /\ me.resume = "m_enter" => ~h.mInCallAudioMode
  /\ me.pc \in Calling => me.resume = me.pc

(* What it knows of the streams. *)
Knows(t, me, h) ==
  /\ me.pc \in {"w_hw", "w_in", "w_hw2"} => h.standby[h.mOutput]
  /\ me.pc = "w_pcm" => ~h.standby[h.mOutput]
  /\ me.pc \in {"r_in", "r_hw", "r_out", "r_in2", "r_hw2"} => t \in h.mInputs
  /\ me.pc \in {"r_hw", "r_out", "r_in2", "r_hw2"} => h.standby[t]
  /\ me.pc = "r_pcm" => t \in Inputs /\ ~h.standby[t]
  /\ me.pc = "s_end" => h.standby[me.target]
  /\ me.pc \in {"m_in", "m_hwi"} /\ me.spOut # NULL => ~h.standby[me.spOut]

Local(t, me, h, mine) ==
  Own(t, me, h.mOutput, mine) /\ Route(t, me, h) /\ Knows(t, me, h)

Mine(t) == {l \in Locks : owner[l] = t}

LocalInv == \A t \in Threads : Local(t, th[t], hw, Mine(t))

Points(me) == {me.spOut, me.spIn, me.dOut}

(* A stream exists while a pointer names it; the one whose destructor runs  *)
(* has no other pointer, and no other destructor.  Without closes those that *)
(* exist are open.                                                          *)
LiveInv ==
  /\ hw.mOutput \in alive \union {NULL} /\ hw.mInputs \subseteq alive
  /\ "close" \notin Calls => alive \subseteq {hw.mOutput} \union hw.mInputs
  /\ \A t \in Threads :
       /\ Points(th[t]) \subseteq alive \union {NULL}
       /\ Kills(th[t]) =>
            /\ th[t].pc \in {"s_lock", "s_hw", "s_end"} \union Waiting
            /\ th[t].target \in alive \ {hw.mOutput} /\ th[t].target \notin hw.mInputs
            /\ \A u \in Threads : th[t].target \notin Points(th[u])
            /\ \A u \in Threads \ {t} :
                 Kills(th[u]) => th[u].target # th[t].target

DataInv == Data(hw, Use(hw, th[Ctl]), alive, Excused(th[Playback]))

(* write() has taken the wake lock and not started the output yet. *)
Up(me) == me.pc \in {"w_in", "w_hw2"}

(* The wake lock is held just when an output plays or is brought up: if no  *)
(* output is closed while it plays, and write() never waits for itself.     *)
Wake(h, me) == h.wakeLock <=> (\E o \in Outputs : ~h.standby[o]) \/ Up(me)

Meek == "close" \notin Calls /\ ("aec" \notin Calls \/ "pcm" \notin Faults)

WakeInv == Meek => Wake(hw, th[Playback])

-------------------------------------------------------------------------------
(* What the helpers do to Data *)

(* The streams outside S are not changed, nor are the lists. *)
Alike(g, h, S) ==
  /\ SameStreams(g, h) /\ g.mInCallAudioMode = h.mInCallAudioMode
  /\ \A x \in Streams \ S : /\ g.standby[x] <=> h.standby[x]
                            /\ g.pcm[x] <=> h.pcm[x]
                            /\ g.mixer[x] <=> h.mixer[x]
  /\ \A o \in Outputs \ S : g.echo[o] = h.echo[o]

(* No output starts; the wake lock goes when one stops, and only then. *)
Hush(g, h) ==
  /\ \A o \in Outputs : h.standby[o] => g.standby[o]
  /\ (\A o \in Outputs : g.standby[o] <=> h.standby[o]) => (g.wakeLock <=> h.wakeLock)
  /\ (\E o \in Outputs : g.standby[o] /\ ~h.standby[o]) => ~g.wakeLock

(* That, too, can be said of several changes. *)
LEMMA HushTrans ==
  ASSUME NEW a, NEW b, NEW c
  PROVE  /\ Hush(a, b) /\ Hush(b, c) => Hush(a, c)
         /\ a.standby = b.standby /\ a.wakeLock = b.wakeLock => Hush(a, b)
BY DEF Hush

(* Changes follow each other. *)
LEMMA AlikeTrans ==
  ASSUME NEW a, NEW b, NEW c, NEW S, NEW T, Alike(a, b, S), Alike(b, c, T)
  PROVE  Alike(a, c, S \union T)
BY DEF Alike, SameStreams

(* The set may grow, and may be empty. *)
LEMMA AlikeMore ==
  ASSUME NEW a, NEW b, NEW S, NEW T
  PROVE  /\ Alike(a, b, S) => Alike(a, b, S \union T)
         /\ Alike(a, a, S)
BY DEF Alike, SameStreams

(* A helper that changes one stream, and starts none, keeps Data, with an   *)
(* exception for that stream unless it is in standby just when closed.      *)
LEMMA DataPut ==
  ASSUME NEW h, NEW g, NEW c, NEW live, NEW ex, NEW s \in Streams,
         Data(h, c, live, ex), Counted(g, c), SameHal(g, h), Alike(g, h, {s}),
         g.mixer[s] => g.pcm[s],
         s \in live \/ (g.standby[s] /\ ~g.pcm[s]),
         h.standby[s] => g.standby[s],
         \A x \in Streams : g.echo[x] \in {h.echo[x], NULL},
         \A t \in Threads : g.current[t] \in {h.current[t], NULL},
         \A t \in Threads : s \in Outputs /\ g.current[t] = s => ~g.standby[s]
  PROVE  /\ Data(g, c, live, ex \union {s})
         /\ (g.standby[s] <=> ~g.pcm[s]) => Data(g, c, live, ex \ {s})
<1>1. Echoes(g)
  <2>1. h \in Hw /\ Echoes(h) /\ Inputs \subseteq Streams /\ Outputs \subseteq Streams
    BY DEF Data, Counted, Streams
  <2>2. g.mOutput = h.mOutput /\ g.mEchoReference = h.mEchoReference
        /\ g.needEcho = h.needEcho
    BY DEF SameHal, SameStreams
  <2>3. h.mOutput # NULL => h.mOutput \in Streams
    BY <2>1 DEF Hw, HwRecords
  <2> QED BY <2>1, <2>2, <2>3 DEF Echoes
<1>2. /\ \A x \in Streams : g.mixer[x] => g.pcm[x]
      /\ \A x \in Streams \ live : g.standby[x] /\ ~g.pcm[x]
      /\ \A i, j \in Inputs : ~g.standby[i] /\ ~g.standby[j] => i = j
  BY DEF Data, Closed, Alike, Streams
<1>3. \A t \in Threads, o \in Outputs : g.current[t] = o => ~g.standby[o]
  <2> SUFFICES ASSUME NEW t \in Threads, NEW o \in Outputs, g.current[t] = o
               PROVE  ~g.standby[o]
    OBVIOUS
  <2>1. o # NULL /\ o \in Streams
    BY StreamAssumption DEF Streams
  <2>2. h.current[t] = o
    BY <2>1
  <2>3. ~h.standby[o]
    BY <2>2 DEF Data, Closed
  <2> QED BY <2>1, <2>3 DEF Alike
<1>4. /\ \A x \in Streams \ (ex \union {s}) : g.standby[x] <=> ~g.pcm[x]
      /\ (g.standby[s] <=> ~g.pcm[s])
           => \A x \in Streams \ (ex \ {s}) : g.standby[x] <=> ~g.pcm[x]
  BY DEF Data, Closed, Alike
<1> QED BY <1>1, <1>2, <1>3, <1>4 DEF Data, Closed

(* Changes of a stream's fields are changes of that stream. *)
LEMMA PutAlike ==
  ASSUME NEW h, NEW g, NEW s \in Streams, SameHal(g, h),
         \/ g.standby = h.standby \/ \E b : Put(g.standby, h.standby, s, b),
         \E b : Put(g.pcm, h.pcm, s, b), \E b : Put(g.mixer, h.mixer, s, b),
         \A o \in Outputs \ {s} : g.echo[o] = h.echo[o]
  PROVE  Alike(g, h, {s})
BY DEF Alike, SameHal, Put

(* An output goes into standby. *)
LEMMA OutStandbyData ==
  ASSUME NEW h, NEW c \in Nat, NEW live, NEW ex, Data(h, c, live, ex),
         NEW o \in Outputs
  PROVE  LET g == OutDoStandby(h, o)
         IN  /\ Data(g, c, live, ex \ {o}) /\ Alike(g, h, {o}) /\ SameHal(g, h)
             /\ g.standby[o] /\ ~g.pcm[o] /\ g.echo = h.echo /\ Hush(g, h)
<1> DEFINE g == OutDoStandby(h, o)
<1>1. /\ Counted(g, c) /\ SameHal(g, h) /\ g.echo = h.echo
      /\ Put(g.pcm, h.pcm, o, FALSE) /\ Put(g.mixer, h.mixer, o, FALSE)
      /\ Put(g.standby, h.standby, o, TRUE)
      /\ g.wakeLock <=> (h.wakeLock /\ h.standby[o])
      /\ Forgets(g, h, o)
  BY OutDoStandbyCount DEF Data
<1> HIDE DEF g
<1>2. o \in Streams /\ o # NULL
  BY StreamAssumption DEF Streams
<1>3. Alike(g, h, {o})
  BY <1>1, <1>2, PutAlike
<1>4. ~g.mixer[o] /\ g.standby[o] /\ ~g.pcm[o]
  BY <1>1 DEF Put
<1>5. /\ \A t \in Threads : g.current[t] \in {h.current[t], NULL}
      /\ \A t \in Threads : g.current[t] # o
  BY <1>1, <1>2 DEF Forgets
<1>6. Data(g, c, live, ex \ {o})
  BY <1>1, <1>2, <1>3, <1>4, <1>5, DataPut
<1>7. Hush(g, h)
  BY <1>1, <1>2 DEF Hush, Put, Streams
<1> QED BY <1>1, <1>3, <1>4, <1>6, <1>7 DEF g

(* Input i is put in standby. *)
Aside(g, h, c, live, ex, i) ==
  /\ Data(g, c, live, ex \ {i}) /\ Alike(g, h, {i}) /\ SameHal(g, h)
  /\ g.standby[i] /\ ~g.pcm[i] /\ g.wakeLock = h.wakeLock /\ Hush(g, h)
  /\ \A o \in Outputs : g.echo[o] = h.echo[o]

(* So does an input, with the count of its standby or without. *)
LEMMA InStandbyData ==
  ASSUME NEW h, NEW c \in Nat, NEW live, NEW ex, Data(h, c, live, ex),
         NEW i \in Inputs
  PROVE  /\ Aside(InDoStandby(h, i), h, c, live, ex, i)
         /\ Aside(InFinishStandby(h, i), h, c, live, ex, i)
<1>1. ASSUME NEW g, g = InDoStandby(h, i) \/ g = InFinishStandby(h, i)
      PROVE  Aside(g, h, c, live, ex, i)
  <2>1. /\ Counted(g, c) /\ SameHal(g, h)
        /\ g.echo[i] \in {h.echo[i], NULL}
        /\ \A s \in Streams \ {i} : g.echo[s] = h.echo[s]
        /\ Put(g.pcm, h.pcm, i, FALSE) /\ Put(g.mixer, h.mixer, i, FALSE)
        /\ Put(g.standby, h.standby, i, TRUE)
        /\ g.wakeLock = h.wakeLock
        /\ g.current = h.current \/ Forgets(g, h, i)
    <3>1. Counted(h, c)
      BY DEF Data
    <3>2. CASE g = InDoStandby(h, i)
      BY <3>1, <3>2, InDoStandbyCount
    <3>3. CASE g = InFinishStandby(h, i)
      BY <3>1, <3>3, InFinishCount
    <3> QED BY <1>1, <3>2, <3>3
  <2>2. i \in Streams /\ i \notin Outputs /\ Outputs \subseteq Streams
    BY StreamAssumption DEF Streams
  <2>3. Alike(g, h, {i})
    BY <2>1, <2>2, PutAlike
  <2>4. ~g.mixer[i] /\ g.standby[i] /\ ~g.pcm[i]
    BY <2>1 DEF Put
  <2>5. \A t \in Threads : g.current[t] \in {h.current[t], NULL}
    BY <2>1 DEF Forgets
  <2>6. Data(g, c, live, ex \ {i})
    BY <2>1, <2>2, <2>3, <2>4, <2>5, DataPut
  <2>7. Hush(g, h)
    BY <2>1, <2>2 DEF Hush, Put
  <2> QED BY <2>1, <2>2, <2>3, <2>4, <2>6, <2>7 DEF Aside
<1> QED BY <1>1

(* Closing a stream. *)
LEMMA CloseData ==
  ASSUME NEW h, NEW c \in Nat, NEW live, NEW ex, Data(h, c, live, ex),
         NEW s \in Streams, NEW g,
         (s \in Outputs /\ g = OutClose(h, s)) \/ (s \in Inputs /\ g = InClose(h, s))
  PROVE  /\ Data(g, c, live, ex \union {s}) /\ Alike(g, h, {s}) /\ SamePlay(g, h)
         /\ ~g.pcm[s] /\ ~g.mixer[s]
<1>1. /\ Counted(g, c) /\ SamePlay(g, h)
      /\ Put(g.pcm, h.pcm, s, FALSE) /\ Put(g.mixer, h.mixer, s, FALSE)
  BY OutCloseCount, InCloseCount DEF Data
<1>2. Alike(g, h, {s})
  BY <1>1, PutAlike DEF SamePlay
<1>3. /\ ~g.mixer[s] /\ ~g.pcm[s]
      /\ g.standby = h.standby /\ g.echo = h.echo /\ g.current = h.current
      /\ SameHal(g, h)
  BY <1>1 DEF Put, SamePlay
<1>4. /\ s \in live \/ h.standby[s]
      /\ \A t \in Threads : s \in Outputs /\ h.current[t] = s => ~h.standby[s]
  BY DEF Data, Closed
<1>5. Data(g, c, live, ex \union {s})
  BY <1>1, <1>2, <1>3, <1>4, DataPut
<1> QED BY <1>1, <1>2, <1>3, <1>5

(* Opening an output that is closed. *)
LEMMA OutOpenData ==
  ASSUME NEW h, NEW c \in Nat, NEW live, NEW ex, Data(h, c, live, ex),
         NEW o \in Outputs \intersect live, ~h.pcm[o], ~h.mixer[o],
         NEW pcmOk \in Answers("pcm"), NEW mixOk \in Answers("mixer")
  PROVE  LET g == OutOpen(h, o, pcmOk, mixOk)
         IN  /\ Data(g, c, live, ex \union {o}) /\ Alike(g, h, {o}) /\ SamePlay(g, h)
             /\ "pcm" \notin Faults => g.pcm[o]
<1> DEFINE g == OutOpen(h, o, pcmOk, mixOk)
<1>1. /\ Counted(g, c) /\ SamePlay(g, h)
      /\ \E p, m \in BOOLEAN :
           /\ Put(g.pcm, h.pcm, o, p) /\ Put(g.mixer, h.mixer, o, m)
           /\ m => p
           /\ "pcm" \notin Faults => p
  BY OutOpenCount DEF Data
<1> HIDE DEF g
<1>2. PICK p, m \in BOOLEAN :
        /\ Put(g.pcm, h.pcm, o, p) /\ Put(g.mixer, h.mixer, o, m)
        /\ m => p
        /\ "pcm" \notin Faults => p
  BY <1>1
<1>3. o \in Streams /\ SameHal(g, h) /\ g.standby = h.standby
      /\ g.echo = h.echo /\ g.current = h.current
  BY <1>1 DEF SamePlay, Streams
<1>4. Alike(g, h, {o})
  BY <1>2, <1>3, PutAlike
<1>5. /\ g.mixer[o] => g.pcm[o]
      /\ "pcm" \notin Faults => g.pcm[o]
  BY <1>2 DEF Put
<1>6. \A t \in Threads : h.current[t] = o => ~h.standby[o]
  BY DEF Data, Closed
<1>7. Data(g, c, live, ex \union {o})
  BY <1>1, <1>3, <1>4, <1>5, <1>6, DataPut
<1> QED BY <1>1, <1>4, <1>5, <1>7 DEF g

(* Opening an input that has no mixer: the others have to be closed. *)
LEMMA InOpenData ==
  ASSUME NEW h, NEW c \in Nat, NEW live, NEW ex, Data(h, c, live, ex),
         NEW i \in Inputs \intersect live, ~h.mixer[i],
         NEW pcmOk \in Answers("pcm"), NEW mixOk \in Answers("mixer")
  PROVE  LET g == InOpen(h, i, pcmOk, mixOk)
         IN  /\ Data(g, c, live, ex \union {i}) /\ Alike(g, h, {i}) /\ SamePlay(g, h)
             /\ g.pcm[i] => \A j \in Inputs \ {i} : ~h.pcm[j]
             /\ "pcm" \notin Faults /\ (\A j \in Inputs \ {i} : ~h.pcm[j])
                  => g.pcm[i]
<1> DEFINE g == InOpen(h, i, pcmOk, mixOk)
<1>1. /\ Counted(g, c) /\ SamePlay(g, h)
      /\ \E p, m \in BOOLEAN :
           /\ Put(g.pcm, h.pcm, i, p) /\ Put(g.mixer, h.mixer, i, m)
           /\ m => p
           /\ p => \A j \in Inputs \ {i} : ~h.pcm[j]
           /\ "pcm" \notin Faults /\ (\A j \in Inputs \ {i} : ~h.pcm[j]) => p
  BY InOpenCount DEF Data
<1> HIDE DEF g
<1>2. PICK p, m \in BOOLEAN :
        /\ Put(g.pcm, h.pcm, i, p) /\ Put(g.mixer, h.mixer, i, m)
        /\ m => p
        /\ p => \A j \in Inputs \ {i} : ~h.pcm[j]
        /\ "pcm" \notin Faults /\ (\A j \in Inputs \ {i} : ~h.pcm[j]) => p
  BY <1>1
<1>3. i \in Streams /\ SameHal(g, h) /\ g.standby = h.standby
      /\ g.echo = h.echo /\ g.current = h.current /\ i \notin Outputs
  BY <1>1, StreamAssumption DEF SamePlay, Streams
<1>4. Alike(g, h, {i})
  BY <1>2, <1>3, PutAlike
<1>5. /\ g.mixer[i] => g.pcm[i]
      /\ g.pcm[i] => \A j \in Inputs \ {i} : ~h.pcm[j]
      /\ "pcm" \notin Faults /\ (\A j \in Inputs \ {i} : ~h.pcm[j]) => g.pcm[i]
  BY <1>2 DEF Put
<1>6. Data(g, c, live, ex \union {i})
  BY <1>1, <1>3, <1>4, <1>5, DataPut
<1> QED BY <1>1, <1>4, <1>5, <1>6 DEF g

(* A stream that has just been opened leaves standby. *)
LEMMA StartData ==
  ASSUME NEW h, NEW c \in Nat, NEW live, NEW ex, Data(h, c, live, ex),
         NEW s \in Streams, h.pcm[s],
         s \in Inputs => \A j \in Inputs \ {s} : h.standby[j]
  PROVE  LET g == [h EXCEPT !.standby[s] = FALSE]
         IN  /\ Data(g, c, live, ex \ {s}) /\ Alike(g, h, {s}) /\ SameHal(g, h)
             /\ ~g.standby[s] /\ g.pcm = h.pcm /\ g.echo = h.echo
             /\ g.wakeLock = h.wakeLock
<1> DEFINE g == [h EXCEPT !.standby[s] = FALSE]
<1>1. h \in Hw
  BY DEF Data, Counted
<1>2. /\ g \in Hw /\ SameHal(g, h) /\ SamePcm(g, h) /\ SameMixer(g, h)
      /\ g.echo = h.echo /\ g.current = h.current /\ g.wakeLock = h.wakeLock
      /\ ~g.standby[s] /\ \A x \in Streams \ {s} : g.standby[x] <=> h.standby[x]
  <2>1. g \in Hw
    BY <1>1, SetStream
  <2> QED BY <1>1, <2>1 DEF Hw, HwRecords, SameHal, SameStreams, SamePcm, SameMixer
<1> HIDE DEF g
<1>3. Counted(g, c)
  BY <1>2, CountedSame DEF Data
<1>4. Echoes(g)
  BY <1>2 DEF Data, Echoes, SameHal, SameStreams
<1>5. Alike(g, h, {s})
  BY <1>2 DEF Alike, SameHal, SamePcm, SameMixer
<1>6. Closed(g, live, ex \ {s})
  <2>1. /\ g.pcm = h.pcm /\ g.mixer = h.mixer
        /\ Inputs \subseteq Streams /\ Outputs \subseteq Streams
    BY <1>2 DEF SamePcm, SameMixer, Streams
  <2>2. /\ \A x \in Streams : g.mixer[x] => g.pcm[x]
        /\ \A x \in Streams \ (ex \ {s}) : g.standby[x] <=> ~g.pcm[x]
        /\ \A x \in Streams \ live : g.standby[x] /\ ~g.pcm[x]
    BY <1>2, <2>1 DEF Data, Closed
  <2>3. \A i, j \in Inputs : ~g.standby[i] /\ ~g.standby[j] => i = j
    BY <1>2, <2>1 DEF Data, Closed
  <2>4. \A t \in Threads, o \in Outputs : g.current[t] = o => ~g.standby[o]
    BY <1>2, <2>1 DEF Data, Closed
  <2> QED BY <2>2, <2>3, <2>4 DEF Closed
<1> QED BY <1>2, <1>3, <1>4, <1>5, <1>6 DEF Data, g, SamePcm

(* read() opens an active output again, or puts it in standby. *)
LEMMA ReopenData ==
  ASSUME NEW h, NEW c \in Nat, NEW live, NEW ex, Data(h, c, live, ex),
         NEW o \in Outputs \intersect live, o \notin ex,
         NEW pcmOk \in Answers("pcm"), NEW mixOk \in Answers("mixer")
  PROVE  LET g == ReadReopenOut(h, o, pcmOk, mixOk)
         IN  /\ Data(g, c, live, ex) /\ Alike(g, h, {o}) /\ SameHal(g, h)
             /\ g.echo = h.echo /\ Hush(g, h)
<1> DEFINE k == OutClose(h, o)
           g == OutOpen(k, o, pcmOk, mixOk)
<1>0. o \in Streams /\ o \in Outputs /\ SameHal(h, h)
  BY SameTrans DEF Streams
<1>1. CASE h.standby[o]
  <2>1. ReadReopenOut(h, o, pcmOk, mixOk) = h
    BY <1>1 DEF ReadReopenOut
  <2> QED BY <1>0, <2>1, AlikeMore, HushTrans
<1>2. CASE ~h.standby[o]
  <2>1. /\ Data(k, c, live, ex \union {o}) /\ Alike(k, h, {o}) /\ SamePlay(k, h)
        /\ ~k.pcm[o] /\ ~k.mixer[o]
    BY <1>0, CloseData
  <2>0. ReadReopenOut(h, o, pcmOk, mixOk) = IF g.pcm[o] THEN g ELSE OutDoStandby(g, o)
    BY <1>2 DEF ReadReopenOut
  <2> HIDE DEF k
  <2>2. Data(g, c, live, ex \union {o} \union {o}) /\ Alike(g, k, {o}) /\ SamePlay(g, k)
    BY <2>1, OutOpenData
  <2> HIDE DEF g
  <2>3. Alike(g, h, {o}) /\ SamePlay(g, h)
    <3>1. Alike(g, h, {o} \union {o})
      BY <2>1, <2>2, AlikeTrans
    <3>2. {o} \union {o} = {o}
      OBVIOUS
    <3> QED BY <2>1, <2>2, <3>1, <3>2, SameTrans
  <2>4. Data(g, c, live, ex \union {o})
    <3>1. ex \union {o} \union {o} = ex \union {o}
      OBVIOUS
    <3> QED BY <2>2, <3>1
  <2>5. CASE g.pcm[o]
    <3>1. ~g.standby[o]
      BY <1>2, <2>3 DEF SamePlay
    <3>2. Data(g, c, live, ex)
      BY <2>4, <2>5, <3>1 DEF Data, Closed
    <3> QED BY <2>0, <2>3, <2>5, <3>2, HushTrans DEF SamePlay
  <2>6. CASE ~g.pcm[o]
    <3> DEFINE n == OutDoStandby(g, o)
    <3>1. /\ Data(n, c, live, (ex \union {o}) \ {o}) /\ Alike(n, g, {o})
          /\ SameHal(n, g) /\ n.echo = g.echo /\ Hush(n, g)
      BY <1>0, <2>4, OutStandbyData
    <3>2. ReadReopenOut(h, o, pcmOk, mixOk) = n
      BY <2>0, <2>6
    <3> HIDE DEF n
    <3>3. (ex \union {o}) \ {o} = ex /\ {o} \union {o} = {o}
      OBVIOUS
    <3>4. Alike(n, h, {o} \union {o})
      BY <2>3, <3>1, AlikeTrans
    <3>5. SameHal(n, h) /\ n.echo = h.echo
      BY <2>3, <3>1, SameTrans DEF SamePlay
    <3>6. Hush(n, h)
      BY <2>3, <3>1, HushTrans DEF SamePlay
    <3> QED BY <3>1, <3>2, <3>3, <3>4, <3>5, <3>6
  <2> QED BY <2>5, <2>6
<1> QED BY <1>1, <1>2

(* The copies of the standby counts do not matter, except those of outputs. *)
LEMMA CurrentData ==
  ASSUME NEW h, NEW c \in Nat, NEW live, NEW ex, Data(h, c, live, ex),
         NEW g \in Hw, SamePcm(g, h), SameMixer(g, h), SameHal(g, h),
         g.standby = h.standby, g.echo = h.echo,
         \A t \in Threads, o \in Outputs :
           g.current[t] = o => h.current[t] = o \/ ~h.standby[o]
  PROVE  Data(g, c, live, ex) /\ Alike(g, h, {})
<1>1. Counted(g, c)
  BY CountedSame DEF Data
<1>2. Echoes(g)
  BY DEF Data, Echoes, SameHal, SameStreams
<1>3. Closed(g, live, ex)
  BY DEF Data, Closed, SamePcm, SameMixer
<1> QED BY <1>1, <1>2, <1>3 DEF Data, Alike, SameHal, SamePcm, SameMixer

(* So prepareLock() keeps Data, and so does the end of a step. *)
LEMMA PrepareData ==
  ASSUME NEW h, NEW c \in Nat, NEW live, NEW ex, Data(h, c, live, ex),
         NEW t \in Threads, NEW s \in Streams \union {NULL},
         s \in Outputs => ~h.standby[s]
  PROVE  LET g == [h EXCEPT !.current[t] = s]
         IN  /\ Data(g, c, live, ex) /\ Alike(g, h, {}) /\ SameHal(g, h)
             /\ g.standby = h.standby /\ g.echo = h.echo /\ g.wakeLock = h.wakeLock
             /\ g.pcm = h.pcm /\ g.mixer = h.mixer /\ g.current[t] = s
             /\ g.mPcm = h.mPcm
<1> DEFINE g == [h EXCEPT !.current[t] = s]
<1>1. h \in Hw /\ g \in Hw
  BY CurrentType DEF Data, Counted
<1>2. /\ SamePcm(g, h) /\ SameMixer(g, h) /\ SameHal(g, h)
      /\ g.standby = h.standby /\ g.echo = h.echo /\ g.wakeLock = h.wakeLock
      /\ g.current[t] = s /\ \A u \in Threads \ {t} : g.current[u] = h.current[u]
  BY <1>1 DEF Hw, HwRecords, SamePcm, SameMixer, SameHal, SameStreams
<1> HIDE DEF g
<1>3. \A u \in Threads, o \in Outputs :
        g.current[u] = o => h.current[u] = o \/ ~h.standby[o]
  BY <1>2
<1>4. Data(g, c, live, ex) /\ Alike(g, h, {})
  BY <1>1, <1>2, <1>3, CurrentData
<1> QED BY <1>2, <1>4 DEF g, SamePcm, SameMixer

(* mStandbyCnt++ keeps it. *)
LEMMA CountStandbyData ==
  ASSUME NEW h, NEW c \in Nat, NEW live, NEW ex, Data(h, c, live, ex), NEW s
  PROVE  LET g == CountStandby(h, s)
         IN  /\ Data(g, c, live, ex) /\ Alike(g, h, {}) /\ SameHal(g, h)
             /\ g.echo = h.echo /\ g.wakeLock = h.wakeLock /\ Hush(g, h)
             /\ g.standby = h.standby
<1> DEFINE g == CountStandby(h, s)
<1>1. /\ g \in Hw /\ SameHal(g, h) /\ SamePcm(g, h) /\ SameMixer(g, h)
      /\ g.standby = h.standby /\ g.echo = h.echo /\ g.wakeLock = h.wakeLock
      /\ Forgets(g, h, s)
  BY CountStandbyFields DEF Data, Counted
<1> HIDE DEF g
<1>2. \A t \in Threads, o \in Outputs :
        g.current[t] = o => h.current[t] = o \/ ~h.standby[o]
  BY <1>1, StreamAssumption DEF Forgets, Streams
<1>3. Data(g, c, live, ex) /\ Alike(g, h, {})
  BY <1>1, <1>2, CurrentData
<1> QED BY <1>1, <1>3, HushTrans DEF g

(* A call begins or ends. *)
LEMMA CallData ==
  ASSUME NEW h, NEW live, NEW ex,
         NEW pcmOk \in Answers("pcm"), NEW mixOk \in Answers("mixer"), NEW g,
         NEW c \in {0, 1}, NEW d \in {0, 1}, Data(h, c, live, ex),
         \/ g = openMixer_l(openPcmOut_l(h, pcmOk), mixOk) /\ c = 0 /\ d = 1
         \/ g = closePcmOut_l(closeMixer_l(h)) /\ c = 1 /\ d = 0
  PROVE  Data(g, d, live, ex) /\ Alike(g, h, {}) /\ SamePlay(g, h)
<1>1. Counted(g, d) /\ SamePlay(g, h) /\ g.pcm = h.pcm /\ g.mixer = h.mixer
  BY CallCount DEF Data
<1>2. Echoes(g)
  BY <1>1 DEF Data, Echoes, SamePlay, SameHal, SameStreams
<1>3. Closed(g, live, ex)
  BY <1>1 DEF Data, Closed, SamePlay
<1> QED BY <1>1, <1>2, <1>3 DEF Data, Alike, SamePlay, SameHal

(* The fields that Data is not about. *)
LEMMA OtherData ==
  ASSUME NEW h, NEW c \in Nat, NEW live, NEW ex, Data(h, c, live, ex),
         NEW g \in Hw, SamePcm(g, h), SameMixer(g, h), SameStreams(g, h),
         g.standby = h.standby, g.echo = h.echo, g.current = h.current,
         g.needEcho = h.needEcho, g.mEchoReference = h.mEchoReference
  PROVE  Data(g, c, live, ex)
<1>1. Counted(g, c)
  BY CountedSame DEF Data
<1>2. Echoes(g)
  BY DEF Data, Echoes, SameStreams
<1>3. Closed(g, live, ex)
  BY DEF Data, Closed, SamePcm, SameMixer
<1> QED BY <1>1, <1>2, <1>3 DEF Data

(* The mode is one of them. *)
LEMMA SetModeData ==
  ASSUME NEW h, NEW c \in Nat, NEW live, NEW ex, Data(h, c, live, ex),
         NEW m \in Modes
  PROVE  LET g == [h EXCEPT !.mMode = m]
         IN  /\ Data(g, c, live, ex) /\ Alike(g, h, {}) /\ g.standby = h.standby
             /\ g.wakeLock = h.wakeLock
<1> DEFINE g == [h EXCEPT !.mMode = m]
<1>1. h \in Hw
  BY DEF Data, Counted
<1>2. /\ g \in Hw /\ g.wakeLock = h.wakeLock
      /\ g.mInCallAudioMode = h.mInCallAudioMode
  BY <1>1 DEF Hw, HwRecords
<1>3. /\ SamePcm(g, h) /\ SameMixer(g, h) /\ SameStreams(g, h)
      /\ g.standby = h.standby /\ g.echo = h.echo /\ g.current = h.current
      /\ g.needEcho = h.needEcho /\ g.mEchoReference = h.mEchoReference
  BY <1>1 DEF Hw, HwRecords, SamePcm, SameMixer, SameStreams
<1> HIDE DEF g
<1>4. Data(g, c, live, ex)
  BY <1>2, <1>3, OtherData
<1> QED BY <1>2, <1>3, <1>4 DEF Alike, SamePcm, SameMixer, g

(* So are the call and the wake lock. *)
LEMMA ModeData ==
  ASSUME NEW h, NEW c \in Nat, NEW live, NEW ex, Data(h, c, live, ex),
         NEW b \in BOOLEAN
  PROVE  /\ LET g == [h EXCEPT !.mInCallAudioMode = b]
            IN  /\ Data(g, c, live, ex) /\ g.mInCallAudioMode = b
                /\ SameStreams(g, h) /\ g.standby = h.standby
                /\ g.pcm = h.pcm /\ g.mixer = h.mixer
                /\ g.echo = h.echo /\ g.wakeLock = h.wakeLock
         /\ LET g == [h EXCEPT !.wakeLock = b]
            IN  /\ Data(g, c, live, ex) /\ Alike(g, h, {}) /\ SameHal(g, h)
                /\ g.standby = h.standby /\ g.echo = h.echo /\ g.wakeLock = b
                /\ g.pcm = h.pcm
<1> DEFINE fc == [h EXCEPT !.mInCallAudioMode = b]
           fw == [h EXCEPT !.wakeLock = b]
<1>1. h \in Hw
  BY DEF Data, Counted
<1>2. /\ fc \in Hw /\ fw \in Hw /\ fc.mInCallAudioMode = b
      /\ fw.wakeLock = b /\ fc.wakeLock = h.wakeLock /\ SameHal(fw, h)
  BY <1>1 DEF Hw, HwRecords, SameHal, SameStreams
<1>3. ASSUME NEW g \in {fc, fw}
      PROVE  /\ SamePcm(g, h) /\ SameMixer(g, h) /\ SameStreams(g, h)
             /\ g.standby = h.standby /\ g.echo = h.echo /\ g.current = h.current
             /\ g.needEcho = h.needEcho /\ g.mEchoReference = h.mEchoReference
  BY <1>1, <1>3 DEF Hw, HwRecords, SamePcm, SameMixer, SameStreams
<1> HIDE DEF fc, fw
<1>4. Data(fc, c, live, ex) /\ Data(fw, c, live, ex)
  BY <1>2, <1>3, OtherData
<1> QED BY <1>2, <1>3, <1>4 DEF Alike, SameHal, SamePcm, SameMixer, fc, fw

(* The fields that the helpers of the echo reference do not change. *)
SameButEcho(g, h) ==
  /\ SamePcm(g, h) /\ SameMixer(g, h) /\ SameStreams(g, h)
  /\ g.mMode = h.mMode /\ g.mInCallAudioMode = h.mInCallAudioMode
  /\ g.needEcho = h.needEcho /\ g.standby = h.standby
  /\ g.wakeLock = h.wakeLock /\ g.current = h.current

(* They keep Data if they keep the references. *)
LEMMA EchoData ==
  ASSUME NEW h, NEW c \in Nat, NEW live, NEW ex, Data(h, c, live, ex),
         NEW g \in Hw, SameButEcho(g, h), Echoes(g),
         NEW S, \A o \in Outputs \ S : g.echo[o] = h.echo[o]
  PROVE  Data(g, c, live, ex) /\ Alike(g, h, S)
<1>1. Counted(g, c)
  BY CountedSame DEF Data, SameButEcho
<1>2. Closed(g, live, ex)
  BY DEF Data, Closed, SameButEcho, SamePcm, SameMixer
<1> QED BY <1>1, <1>2 DEF Data, Alike, SameButEcho, SamePcm, SameMixer

(* Releasing a reference: the output forgets it, too. *)
LEMMA ReleaseFields ==
  ASSUME NEW h \in Hw, NEW e
  PROVE  LET g == releaseEchoReference(h, e)
         IN  /\ g \in Hw /\ SameButEcho(g, h)
             /\ h.mEchoReference = NULL \/ e # h.mEchoReference => g = h
             /\ h.mEchoReference # NULL /\ e = h.mEchoReference =>
                  /\ g.mEchoReference = NULL
                  /\ \A s \in Streams :
                       g.echo[s] = IF s = h.mOutput /\ h.echo[s] = e THEN NULL
                                   ELSE h.echo[s]
<1> DEFINE a == IF h.mOutput = NULL THEN h ELSE removeEchoReference(h, h.mOutput, e)
           g == releaseEchoReference(h, e)
<1>0. g \in Hw /\ NULL \notin Streams
  BY ReleaseEchoType, StreamAssumption
<1>1. CASE h.mEchoReference = NULL \/ e # h.mEchoReference
  BY <1>1 DEF releaseEchoReference, SameButEcho, SamePcm, SameMixer, SameStreams
<1>2. CASE h.mEchoReference # NULL /\ e = h.mEchoReference
  <2>1. /\ a \in Hw /\ SameButEcho(a, h)
        /\ \A s \in Streams : a.echo[s] = IF s = h.mOutput /\ h.echo[s] = e THEN NULL
                                          ELSE h.echo[s]
    <3>1. CASE h.mOutput = NULL \/ h.echo[h.mOutput] # e
      <4>1. a = h
        BY <3>1 DEF removeEchoReference
      <4> HIDE DEF a
      <4> QED BY <1>0, <3>1, <4>1
                DEF SameButEcho, SamePcm, SameMixer, SameStreams
    <3>2. CASE h.mOutput # NULL /\ h.echo[h.mOutput] = e
      <4>1. a = [h EXCEPT !.echo[h.mOutput] = NULL]
        BY <3>2 DEF removeEchoReference
      <4> HIDE DEF a
      <4>2. a \in Hw
        BY <4>1, SetEcho
      <4> QED BY <3>2, <4>1, <4>2
                DEF Hw, HwRecords, SameButEcho, SamePcm, SameMixer, SameStreams
    <3> QED BY <3>1, <3>2
  <2>2. g = [a EXCEPT !.mEchoReference = NULL]
    BY <1>2 DEF releaseEchoReference
  <2> HIDE DEF a, g
  <2>3. SameButEcho(g, a) /\ g.mEchoReference = NULL /\ g.echo = a.echo
    BY <2>1, <2>2 DEF Hw, HwRecords, SameButEcho, SamePcm, SameMixer, SameStreams
  <2>4. SameButEcho(g, h)
    BY <2>1, <2>3 DEF SameButEcho, SamePcm, SameMixer, SameStreams
  <2> QED BY <1>0, <1>2, <2>1, <2>3, <2>4 DEF g
<1> QED BY <1>1, <1>2

(* doStandby_l() releases the reference of the input and forgets it. *)
LEMMA ReleaseData ==
  ASSUME NEW h, NEW c \in Nat, NEW live, NEW ex, Data(h, c, live, ex),
         NEW i \in Inputs
  PROVE  LET g == [releaseEchoReference(h, h.echo[i]) EXCEPT !.echo[i] = NULL]
         IN  Data(g, c, live, ex) /\ Alike(g, h, {h.mOutput}) /\ SameButEcho(g, h)
<1> DEFINE k == releaseEchoReference(h, h.echo[i])
           g == [k EXCEPT !.echo[i] = NULL]
           e == h.echo[i]
<1>1. h \in Hw /\ i \in Streams /\ i \notin Outputs /\ Echoes(h)
      /\ Inputs \subseteq Streams /\ Outputs \subseteq Streams
  BY StreamAssumption DEF Data, Counted, Streams
<1>2. /\ k \in Hw /\ SameButEcho(k, h)
      /\ h.mEchoReference = NULL \/ e # h.mEchoReference => k = h
      /\ h.mEchoReference # NULL /\ e = h.mEchoReference =>
           /\ k.mEchoReference = NULL
           /\ \A s \in Streams :
                k.echo[s] = IF s = h.mOutput /\ h.echo[s] = e THEN NULL
                            ELSE h.echo[s]
  BY <1>1, ReleaseFields
<1> HIDE DEF k
<1>3. /\ g \in Hw /\ SameButEcho(g, k) /\ g.mEchoReference = k.mEchoReference
      /\ \A s \in Streams : g.echo[s] = IF s = i THEN NULL ELSE k.echo[s]
  <2>1. g \in Hw
    BY <1>2, SetEcho
  <2> QED BY <1>1, <1>2, <2>1
            DEF Hw, HwRecords, SameButEcho, SamePcm, SameMixer, SameStreams
<1> HIDE DEF g
<1>4. SameButEcho(g, h)
  BY <1>2, <1>3 DEF SameButEcho, SamePcm, SameMixer, SameStreams
<1>5. h.mOutput # NULL => h.mOutput \in Outputs
  BY <1>1 DEF Hw, HwRecords
<1>6. g.mOutput = h.mOutput /\ g.needEcho = h.needEcho
  BY <1>4 DEF SameButEcho, SameStreams
<1>7. CASE h.mEchoReference = NULL \/ e # h.mEchoReference
  <2>1. k = h
    BY <1>2, <1>7
  <2>2. Echoes(g)
    BY <1>1, <1>3, <1>5, <1>6, <2>1 DEF Echoes
  <2>3. \A o \in Outputs \ {h.mOutput} : g.echo[o] = h.echo[o]
    BY <1>1, <1>3, <2>1
  <2> QED BY <1>3, <1>4, <2>2, <2>3, EchoData DEF g, k
<1>8. CASE h.mEchoReference # NULL /\ e = h.mEchoReference
  <2>1. h.mOutput # NULL => g.echo[h.mOutput] = NULL
    BY <1>1, <1>2, <1>3, <1>5, <1>8 DEF Echoes
  <2>2. OneInput => \A j \in Inputs : g.echo[j] = NULL
    BY <1>1, <1>3 DEF OneInput
  <2>3. "aec" \notin Calls => \A s \in Streams : g.echo[s] = NULL
    BY <1>1, <1>2, <1>3, <1>8 DEF Echoes
  <2>5. \A o \in Outputs \ {h.mOutput} : g.echo[o] = h.echo[o]
    BY <1>1, <1>2, <1>3, <1>8
  <2>4. Echoes(g)
    BY <1>1, <1>6, <2>1, <2>2, <2>3, <2>5 DEF Echoes
  <2> QED BY <1>3, <1>4, <2>4, <2>5, EchoData DEF g, k
<1> QED BY <1>7, <1>8

(* getEchoReference() for an input that asks for one. *)
LEMMA GetEchoData ==
  ASSUME NEW h, NEW c \in Nat, NEW live, NEW ex, Data(h, c, live, ex),
         NEW i \in Inputs, h.needEcho[i], NEW ok
  PROVE  LET g == getEchoReference(h, i, ok)
         IN  Data(g, c, live, ex) /\ Alike(g, h, {h.mOutput}) /\ SameButEcho(g, h)
<1> DEFINE a == releaseEchoReference(h, h.mEchoReference)
           e == FreshEcho(a)
           m == [a EXCEPT !.mEchoReference = e]
           k == IF a.mOutput = NULL \/ ~ok THEN a ELSE addEchoReference(m, a.mOutput, e)
           g == [k EXCEPT !.echo[i] = k.mEchoReference]
<1>0. getEchoReference(h, i, ok) = g
  BY DEF getEchoReference
<1>1. h \in Hw /\ i \in Streams /\ i \notin Outputs /\ Echoes(h)
      /\ Inputs \subseteq Streams /\ Outputs \subseteq Streams /\ NULL \notin Streams
  BY StreamAssumption DEF Data, Counted, Streams
<1>2. "aec" \in Calls
  BY <1>1 DEF Echoes
<1>3. h.mOutput # NULL => h.mOutput \in Outputs
  BY <1>1 DEF Hw, HwRecords
<1>4. /\ a \in Hw /\ SameButEcho(a, h) /\ a.mEchoReference = NULL
      /\ \A s \in Streams : s # h.mOutput => a.echo[s] = h.echo[s]
      /\ h.mOutput # NULL => a.echo[h.mOutput] = NULL
  <2>1. /\ a \in Hw /\ SameButEcho(a, h)
        /\ h.mEchoReference = NULL => a = h
        /\ h.mEchoReference # NULL =>
             /\ a.mEchoReference = NULL
             /\ \A s \in Streams :
                  a.echo[s] = IF s = h.mOutput /\ h.echo[s] = h.mEchoReference
                              THEN NULL ELSE h.echo[s]
    BY <1>1, ReleaseFields
  <2> HIDE DEF a
  <2>2. h.mOutput # NULL => h.echo[h.mOutput] \in {NULL, h.mEchoReference}
    BY <1>1 DEF Echoes
  <2> QED BY <1>1, <1>3, <2>1, <2>2
<1>5. e \in EchoIds
  BY <1>4, FreshEchoExists
<1> HIDE DEF a, e
<1>6. /\ m \in Hw /\ SameButEcho(m, a) /\ m.echo = a.echo /\ m.mEchoReference = e
  <2>1. m \in Hw
    BY <1>4, <1>5, SetEcho
  <2> QED BY <1>4, <2>1 DEF Hw, HwRecords, SameButEcho, SamePcm, SameMixer, SameStreams
<1> HIDE DEF m
<1>7. a.mOutput = h.mOutput
  BY <1>4 DEF SameButEcho, SameStreams
<1>8. /\ k \in Hw /\ SameButEcho(k, a)
      /\ \A s \in Streams : s # h.mOutput => k.echo[s] = h.echo[s]
      /\ h.mOutput # NULL => k.echo[h.mOutput] = k.mEchoReference
  <2>1. CASE h.mOutput = NULL \/ ~ok
    <3>1. k = a
      BY <1>7, <2>1
    <3> HIDE DEF k
    <3> QED BY <1>4, <2>1, <3>1 DEF SameButEcho, SamePcm, SameMixer, SameStreams
  <2>2. CASE h.mOutput # NULL /\ ok
    <3>1. k = [m EXCEPT !.echo[h.mOutput] = e]
      BY <1>4, <1>6, <1>7, <2>2 DEF addEchoReference
    <3> HIDE DEF k
    <3>2. k \in Hw
      BY <1>5, <1>6, <3>1, SetEcho
    <3>3. SameButEcho(k, m) /\ k.mEchoReference = e
          /\ \A s \in Streams : k.echo[s] = IF s = h.mOutput THEN e ELSE m.echo[s]
      BY <1>6, <3>1, <3>2 DEF Hw, HwRecords, SameButEcho, SamePcm, SameMixer, SameStreams
    <3>4. SameButEcho(k, a)
      BY <1>6, <3>3 DEF SameButEcho, SamePcm, SameMixer, SameStreams
    <3> QED BY <1>1, <1>3, <1>4, <1>6, <2>2, <3>2, <3>3, <3>4
  <2> QED BY <2>1, <2>2
<1> HIDE DEF k
<1>9. /\ g \in Hw /\ SameButEcho(g, k) /\ g.mEchoReference = k.mEchoReference
      /\ \A s \in Streams : g.echo[s] = IF s = i THEN k.mEchoReference ELSE k.echo[s]
  <2>1. k.mEchoReference \in EchoIds \union {NULL}
    BY <1>8 DEF Hw, HwRecords
  <2>2. g \in Hw /\ k \in Hw
    BY <1>8, <2>1, SetEcho
  <2> QED BY <1>1, <2>2, ZenonT(40)
            DEF Hw, HwRecords, SameButEcho, SamePcm, SameMixer, SameStreams
<1> HIDE DEF g
<1>10. SameButEcho(g, h)
  BY <1>4, <1>8, <1>9 DEF SameButEcho, SamePcm, SameMixer, SameStreams
<1>11. Echoes(g)
  <2>1. g.mOutput = h.mOutput
    BY <1>10 DEF SameButEcho, SameStreams
  <2>2. g.mOutput # NULL => g.echo[g.mOutput] = g.mEchoReference
    BY <1>1, <1>3, <1>8, <1>9, <2>1
  <2>3. OneInput => \A j \in Inputs : g.echo[j] = g.mEchoReference
    BY <1>1, <1>9 DEF OneInput
  <2>4. \A o \in Outputs : o # h.mOutput => g.echo[o] = h.echo[o]
    BY <1>1, <1>8, <1>9
  <2> QED BY <1>1, <1>2, <2>1, <2>2, <2>3, <2>4 DEF Echoes
<1>12. \A o \in Outputs \ {h.mOutput} : g.echo[o] = h.echo[o]
  BY <1>1, <1>8, <1>9
<1>13. Data(g, c, live, ex) /\ Alike(g, h, {h.mOutput})
  BY <1>9, <1>10, <1>11, <1>12, EchoData
<1> QED BY <1>0, <1>10, <1>13

-------------------------------------------------------------------------------
(* Steps *)

DevInv == DataInv /\ LocalInv /\ LiveInv /\ WakeInv

(* An echo reference changes with the mutex of its output held, unless the  *)
(* output is closed and opened again under it.                              *)
Tame == "close" \notin Calls \/ "aec" \notin Calls

(* The fields of stream s are as they were. *)
Untouched(g, h, s) ==
  /\ g.standby[s] <=> h.standby[s]
  /\ g.pcm[s] <=> h.pcm[s]
  /\ g.mixer[s] <=> h.mixer[s]
  /\ Tame /\ s \in Outputs => g.echo[s] = h.echo[s]

(* A step changes the fields of streams that somebody has locked. *)
Guarded == \A s \in Streams : owner[s] # NULL \/ Untouched(hw', hw, s)

Moved == DevInv' /\ Guarded

(* The locals of thread who when t goes on with me. *)
Now(t, me, who) == IF t = who THEN me ELSE th[who]

(* The mutexes t has after the step. *)
Has(t, got, given) == {l \in Locks : l \in got \/ (l \notin given /\ owner[l] = t)}

(* A thread takes a mutex that is free, and releases its own. *)
Hands(t, got, given) ==
  \A l \in Locks : l \in got \union given => owner[l] \in {NULL, t}

(* What the step leaves to the other threads: the streams it has not        *)
(* locked; only the reader of an input starts it or closes it, and only     *)
(* write() starts an output.                                                *)
Touch(t, h) ==
  /\ h.mOutput = hw.mOutput \/ t = Playback
  /\ \A i \in Inputs \ {t} : /\ i \in hw.mInputs => i \in h.mInputs
                             /\ hw.standby[i] => h.standby[i]
  /\ h.mInCallAudioMode = hw.mInCallAudioMode \/ t = Ctl
  /\ \A s \in Streams : owner[s] = t \/ Untouched(h, hw, s)
  /\ t = Playback \/ Hush(h, hw)

(* What the playback thread does to the wake lock. *)
Rings(h, me) ==
  Meek => \/ Wake(h, me)
          \/ Hush(h, hw) /\ (Up(me) <=> Up(th[Playback]))

(* Steps that change a little more. *)
LEMMA TouchMore ==
  ASSUME NEW t, NEW h, NEW g, Touch(t, h), NEW S, Alike(g, h, S),
         \A s \in S \intersect Streams : owner[s] = t,
         \A i \in Inputs \ {t} : h.standby[i] => g.standby[i],
         t = Playback \/ Hush(g, h)
  PROVE  Touch(t, g)
<1>1. \A s \in Streams : owner[s] = t \/ Untouched(g, h, s)
  BY DEF Alike, Untouched
<1>2. \A s \in Streams : owner[s] = t \/ Untouched(g, hw, s)
  BY <1>1 DEF Touch, Untouched
<1>3. SameStreams(g, h) /\ g.mInCallAudioMode = h.mInCallAudioMode
  BY DEF Alike
<1>4. t = Playback \/ Hush(g, hw)
  BY HushTrans DEF Touch
<1> QED BY <1>2, <1>3, <1>4 DEF Touch, SameStreams

(* A step that changes streams that the thread has locked. *)
LEMMA TouchOwned ==
  ASSUME NEW t, NEW h, NEW S, Alike(h, hw, S), \A s \in S \intersect Streams : owner[s] = t,
         \A i \in Inputs \ {t} : hw.standby[i] => h.standby[i],
         t = Playback \/ Hush(h, hw)
  PROVE  Touch(t, h)
BY DEF Touch, Alike, SameStreams, Untouched

(* The thread gets no pointer but to a stream that is open. *)
Keep(t, h, me) ==
  /\ h.mOutput = hw.mOutput \/ (h.mOutput = NULL /\ "close" \in Calls)
  /\ h.mInputs = hw.mInputs
       \/ (h.mInputs \subseteq hw.mInputs /\ "close" \in Calls)
  /\ Points(me) \subseteq Points(th[t]) \union {hw.mOutput, NULL} \union hw.mInputs
  /\ Kills(me) => /\ Kills(th[t]) /\ me.target = th[t].target
                  /\ me.pc \in {"s_lock", "s_hw", "s_end"} \union Waiting

(* Its last pointer to a stream goes away, and the destructor runs. *)
Kill(t, h, me) ==
  /\ SameStreams(h, hw)
  /\ Kills(me) /\ me.pc = "s_lock" /\ me.target # NULL
  /\ me.target \in Points(th[t])
  /\ Points(me) \subseteq (Points(th[t]) \union {NULL}) \ {me.target}
  /\ ~HeldElsewhere(me.target, hw, t)

(* TypeInv has the parts that AudioProofs calls Good. *)
LEMMA GoodNow == TypeInv => Good
BY DEF TypeInv, TypeOK, Good, Hw

(* The parts of a step. *)
Parts(t, got, given, h, me) ==
  /\ hw' = h \/ hw' = [h EXCEPT !.current[t] = NULL]
  /\ SameStreams(hw', h) /\ hw'.standby = h.standby
  /\ hw'.pcm = h.pcm /\ hw'.mixer = h.mixer /\ hw'.echo = h.echo
  /\ hw'.wakeLock = h.wakeLock
  /\ hw'.mInCallAudioMode = h.mInCallAudioMode
  /\ me.pc = "idle" => th'[t] = IdleThread
  /\ me.pc # "idle" => th'[t] = me
  /\ \A u \in Threads \ {t} : th'[u] = th[u]
  /\ \A l \in Locks : owner'[l] = IF l \in got THEN t
                                  ELSE IF l \in given THEN NULL ELSE owner[l]

(* A step has them. *)
LEMMA StepParts ==
  ASSUME TypeInv, NEW t \in Threads, NEW got, NEW given, NEW h \in Hw, NEW me,
         Step(t, got, given, h, me)
  PROVE  Parts(t, got, given, h, me)
BY GoodNow DEF Good, Step, SameStreams, Hw, HwRecords, Parts

(* Between calls a thread points to nothing, and holds nothing. *)
LEMMA IdleLocal ==
  /\ Points(IdleThread) = {NULL} /\ ~Kills(IdleThread)
  /\ IdleThread.resume = "none" /\ IdleThread.pc = "idle"
  /\ \A t, h, mine : Local(t, IdleThread, h, mine)
<1>1. /\ IdleThread.pc = "idle" /\ IdleThread.spOut = NULL
      /\ IdleThread.spIn = NULL /\ IdleThread.dOut = NULL
      /\ IdleThread.op = "none" /\ IdleThread.resume = "none"
  BY DEF IdleThread
<1>2. \A t, h, mine : Local(t, IdleThread, h, mine)
  BY <1>1 DEF Local, Own, Route, Knows, Waiting, Calling, Stuck
<1> QED BY <1>1, <1>2 DEF Points, Kills

(* Pointers and destructors stay in order. *)
LEMMA LiveStep ==
  ASSUME TypeInv, LiveInv, NEW t \in Threads, NEW got, NEW given, NEW h \in Hw,
         NEW me, Step(t, got, given, h, me), UNCHANGED alive,
         me.pc = "idle" => Keep(t, h, IdleThread),
         me.pc # "idle" => Keep(t, h, me) \/ Kill(t, h, me)
  PROVE  LiveInv'
<1> DEFINE n == th'[t]
<1>1. /\ SameStreams(hw', h)
      /\ me.pc = "idle" => n = IdleThread
      /\ me.pc # "idle" => n = me
      /\ \A u \in Threads \ {t} : th'[u] = th[u]
  <2>1. Parts(t, got, given, h, me)
    BY StepParts
  <2> QED BY <2>1 DEF Parts
<1> HIDE DEF n
<1>2. Keep(t, h, n) \/ Kill(t, h, n)
  BY <1>1
<1>3. hw \in Hw /\ NULL \notin Streams
  BY StreamAssumption DEF TypeInv, TypeOK, Hw
<1>4. /\ hw'.mOutput \in {hw.mOutput, NULL} /\ hw'.mInputs \subseteq hw.mInputs
  BY <1>1, <1>2 DEF Keep, Kill, SameStreams
<1>5. Points(n) \subseteq alive \union {NULL}
  BY <1>2 DEF Keep, Kill, LiveInv
<1>6. alive \subseteq Streams
  BY DEF TypeInv, TypeOK
<1>7. ASSUME NEW u \in Threads, Kills(th'[u])
      PROVE  /\ th'[u].pc \in {"s_lock", "s_hw", "s_end"} \union Waiting
             /\ th'[u].target \in alive \ {hw'.mOutput}
             /\ th'[u].target \notin hw'.mInputs
             /\ \A v \in Threads : th'[u].target \notin Points(th'[v])
             /\ \A v \in Threads \ {u} :
                  Kills(th'[v]) => th'[v].target # th'[u].target
  <2>1. CASE u # t /\ Keep(t, h, n)
    <3>1. th'[u] = th[u]
      BY <1>1, <2>1
    <3>2. /\ th[u].target \in alive \ {hw.mOutput} /\ th[u].target \notin hw.mInputs
          /\ \A v \in Threads : th[u].target \notin Points(th[v])
          /\ th[u].pc \in {"s_lock", "s_hw", "s_end"} \union Waiting
          /\ \A v \in Threads \ {u} : Kills(th[v]) => th[v].target # th[u].target
      BY <1>7, <3>1 DEF LiveInv
    <3>3. th[u].target # NULL
      BY <1>3, <1>6, <3>2
    <3>4. th[u].target \notin Points(n)
      BY <2>1, <3>2, <3>3 DEF Keep
    <3>5. \A v \in Threads \ {u} : Kills(th'[v]) => th'[v].target # th'[u].target
      BY <1>1, <2>1, <3>1, <3>2 DEF Keep, n
    <3> QED BY <1>1, <1>4, <3>1, <3>2, <3>3, <3>4, <3>5 DEF n
  <2>2. CASE u = t /\ Keep(t, h, n)
    <3>1. /\ Kills(th[t]) /\ n.target = th[t].target
          /\ n.pc \in {"s_lock", "s_hw", "s_end"} \union Waiting
      BY <1>7, <2>2 DEF Keep, n
    <3>2. /\ th[t].target \in alive \ {hw.mOutput} /\ th[t].target \notin hw.mInputs
          /\ \A v \in Threads : th[t].target \notin Points(th[v])
          /\ \A v \in Threads \ {t} : Kills(th[v]) => th[v].target # th[t].target
      BY <3>1 DEF LiveInv
    <3>3. th[t].target # NULL
      BY <1>3, <1>6, <3>2
    <3>4. n.target \notin Points(n)
      BY <2>2, <3>1, <3>2, <3>3 DEF Keep
    <3> QED BY <1>1, <1>4, <2>2, <3>1, <3>2, <3>3, <3>4 DEF n
  <2>3. CASE u # t /\ Kill(t, h, n)
    <3>1. th'[u] = th[u]
      BY <1>1, <2>3
    <3>2. /\ th[u].target \in alive \ {hw.mOutput} /\ th[u].target \notin hw.mInputs
          /\ \A v \in Threads : th[u].target \notin Points(th[v])
          /\ th[u].pc \in {"s_lock", "s_hw", "s_end"} \union Waiting
          /\ \A v \in Threads \ {u} : Kills(th[v]) => th[v].target # th[u].target
      BY <1>7, <3>1 DEF LiveInv
    <3>3. th[u].target # NULL
      BY <1>3, <1>6, <3>2
    <3>4. th[u].target \notin Points(n) /\ th[u].target # n.target
      BY <2>3, <3>2, <3>3 DEF Kill
    <3>5. \A v \in Threads \ {u} : Kills(th'[v]) => th'[v].target # th'[u].target
      BY <1>1, <2>3, <3>1, <3>2, <3>4 DEF n
    <3> QED BY <1>1, <1>4, <3>1, <3>2, <3>3, <3>4, <3>5 DEF n
  <2>4. CASE u = t /\ Kill(t, h, n)
    <3> DEFINE s == n.target
    <3>1. /\ s \in Points(th[t]) /\ s # NULL /\ s \notin Points(n) /\ n.pc = "s_lock"
          /\ ~HeldElsewhere(s, hw, t)
      BY <2>4 DEF Kill
    <3>2. s \in alive
      BY <3>1 DEF LiveInv
    <3>3. /\ s # hw.mOutput /\ s \notin hw.mInputs
          /\ \A v \in Threads \ {t} : s \notin Points(th[v])
      BY <3>1 DEF HeldElsewhere, Points
    <3>4. \A v \in Threads : Kills(th[v]) => th[v].target # s
      BY <3>1 DEF LiveInv
    <3> QED BY <1>1, <1>3, <1>4, <1>6, <2>4, <3>1, <3>2, <3>3, <3>4 DEF n
  <2> QED BY <1>2, <2>1, <2>2, <2>3, <2>4
<1>8. \A u \in Threads : Points(th'[u]) \subseteq alive \union {NULL}
  BY <1>1, <1>5 DEF LiveInv, n
<1>9. hw'.mOutput \in alive \union {NULL} /\ hw'.mInputs \subseteq alive
  BY <1>4 DEF LiveInv
<1>10. "close" \notin Calls => alive \subseteq {hw'.mOutput} \union hw'.mInputs
  <2>1. "close" \notin Calls => hw'.mOutput = hw.mOutput /\ hw'.mInputs = hw.mInputs
    BY <1>1, <1>2 DEF Keep, Kill, SameStreams
  <2> QED BY <2>1 DEF LiveInv
<1> QED BY <1>7, <1>8, <1>9, <1>10 DEF LiveInv

(* What the other threads have and know is left alone. *)
LEMMA OthersLocal ==
  ASSUME TypeInv, NEW t \in Threads, NEW h, Touch(t, h),
         NEW u \in Threads \ {t}, Local(u, th[u], hw, Mine(u))
  PROVE  Local(u, th[u], h, Mine(u))
<1> DEFINE me == th[u]
<1>1. /\ me \in ThreadRecords /\ hw \in Hw
      /\ Control(u, me, hw.mOutput, owner[HW] = u)
  BY GoodNow DEF Good, ControlInv
<1>2. /\ u = Playback => h.mOutput = hw.mOutput
      /\ u = Ctl => h.mInCallAudioMode = hw.mInCallAudioMode
      /\ \A s \in Streams : s \in Mine(u) => (h.standby[s] <=> hw.standby[s])
      /\ u \in Inputs => /\ u \in hw.mInputs => u \in h.mInputs
                         /\ hw.standby[u] => h.standby[u]
  BY DEF Touch, Mine, Untouched
<1>3. /\ me.spOut \in Streams \union {NULL} /\ me.target \in Streams \union {NULL}
      /\ hw.mOutput \in Streams \union {NULL}
      /\ hw.mInputs \subseteq Inputs /\ Inputs \subseteq Streams
  BY <1>1 DEF ThreadRecords, Hw, HwRecords, Streams
<1> HIDE DEF me
<1>4. me.pc \in {"w_out", "w_hw", "w_in", "w_hw2", "w_pcm"}
        => u = Playback /\ hw.mOutput \in Outputs
  BY <1>1 DEF Control
<1>5. Own(u, me, h.mOutput, Mine(u))
  <2>1. Own(u, me, hw.mOutput, Mine(u))
    BY DEF Local, me
  <2>2. me.pc \in {"w_hw", "w_in", "w_hw2", "w_pcm"} => h.mOutput = hw.mOutput
    BY <1>2, <1>4
  <2> QED BY <2>1, <2>2 DEF Own
<1>6. Route(u, me, h)
  BY <1>2 DEF Local, Route, Calling, me
<1>7. Knows(u, me, h)
  <2>1. Knows(u, me, hw) /\ Own(u, me, hw.mOutput, Mine(u))
    BY DEF Local, me
  <2>2. me.pc \in {"w_hw", "w_in", "w_hw2", "w_pcm"} =>
          /\ h.mOutput = hw.mOutput
          /\ h.standby[hw.mOutput] <=> hw.standby[hw.mOutput]
    BY <1>2, <1>4, <2>1 DEF Own, Streams
  <2>3. /\ me.pc \in {"r_in", "r_hw", "r_out", "r_in2", "r_hw2"} => u \in h.mInputs
        /\ me.pc \in {"r_hw", "r_out", "r_in2", "r_hw2"} => h.standby[u]
    BY <1>2, <1>3, <2>1 DEF Knows
  <2>4. me.pc = "r_pcm" => u \in Inputs /\ ~h.standby[u]
    BY <1>2, <1>3, <2>1 DEF Knows, Own
  <2>5. me.pc = "s_end" => h.standby[me.target]
    BY <1>1, <1>2, <2>1 DEF Knows, Own, Control
  <2>6. me.pc \in {"m_in", "m_hwi"} /\ me.spOut # NULL => ~h.standby[me.spOut]
    BY <1>2, <1>3, <2>1 DEF Knows, Own
  <2> QED BY <2>1, <2>2, <2>3, <2>4, <2>5, <2>6 DEF Knows
<1> QED BY <1>5, <1>6, <1>7 DEF Local, me

(* A step keeps the invariant of the locals. *)
LEMMA LocalStep ==
  ASSUME TypeInv, LocalInv, NEW t \in Threads, NEW got, NEW given, NEW h \in Hw,
         NEW me, Step(t, got, given, h, me), Hands(t, got, given), Touch(t, h),
         me.pc # "idle" => Local(t, me, h, Has(t, got, given))
  PROVE  LocalInv'
<1>1. /\ SameStreams(hw', h) /\ hw'.standby = h.standby
      /\ hw'.mInCallAudioMode = h.mInCallAudioMode
      /\ me.pc = "idle" => th'[t] = IdleThread
      /\ me.pc # "idle" => th'[t] = me
      /\ \A u \in Threads \ {t} : th'[u] = th[u]
      /\ \A l \in Locks : owner'[l] = IF l \in got THEN t
                                      ELSE IF l \in given THEN NULL ELSE owner[l]
  <2>1. Parts(t, got, given, h, me)
    BY StepParts
  <2> QED BY <2>1 DEF Parts
<1>2. \A u, me2, mine : Local(u, me2, h, mine) => Local(u, me2, hw', mine)
  BY <1>1 DEF Local, Own, Route, Knows, SameStreams
<1>3. /\ Has(t, got, given) = Mine(t)'
      /\ \A u \in Threads \ {t} : Mine(u)' = Mine(u)
  <2>1. NULL \notin Threads
    BY ThreadAssumption
  <2>2. Has(t, got, given) = {l \in Locks : owner'[l] = t}
    BY <1>1, <2>1 DEF Has
  <2>3. ASSUME NEW u \in Threads \ {t}
        PROVE  {l \in Locks : owner'[l] = u} = {l \in Locks : owner[l] = u}
    BY <1>1, <2>1 DEF Hands
  <2> QED BY <2>2, <2>3 DEF Mine
<1>4. ASSUME NEW u \in Threads
      PROVE  Local(u, th'[u], hw', Mine(u)')
  <2>1. CASE u # t
    <3>1. Local(u, th[u], h, Mine(u))
      BY <2>1, OthersLocal DEF LocalInv
    <3> QED BY <1>1, <1>2, <1>3, <2>1, <3>1
  <2>2. CASE u = t /\ me.pc # "idle"
    BY <1>1, <1>2, <1>3, <2>2
  <2>3. CASE u = t /\ me.pc = "idle"
    BY <1>1, <2>3, IdleLocal
  <2> QED BY <2>1, <2>2, <2>3
<1> QED BY <1>4 DEF LocalInv

(* So does the data, if the step gives it with its locals. *)
LEMMA DataStep ==
  ASSUME TypeInv, NEW t \in Threads, NEW got, NEW given, NEW h,
         NEW me, Step(t, got, given, h, me), me.pc = "idle" => me.resume # "m_leave",
         Data(h, Use(h, Now(t, me, Ctl)), alive', Excused(Now(t, me, Playback)))
  PROVE  DataInv' /\ h \in Hw
<1> DEFINE c == Use(h, Now(t, me, Ctl))
           ex == Excused(Now(t, me, Playback))
<1>1. h \in Hw
  BY DEF Data, Counted
<1>2. /\ hw' = h \/ hw' = [h EXCEPT !.current[t] = NULL]
      /\ hw'.mInCallAudioMode = h.mInCallAudioMode
      /\ me.pc = "idle" => th'[t] = IdleThread
      /\ me.pc # "idle" => th'[t] = me
      /\ \A u \in Threads \ {t} : th'[u] = th[u]
  <2>1. Parts(t, got, given, h, me)
    BY <1>1, StepParts
  <2> QED BY <2>1 DEF Parts
<1>3. c \in Nat
  BY DEF Use
<1>4. Data(hw', c, alive', ex)
  <2>1. NULL \in Streams \union {NULL} /\ NULL \notin Outputs
    BY StreamAssumption DEF Streams
  <2> HIDE DEF c, ex
  <2>2. Data(h, c, alive', ex)
    BY DEF c, ex
  <2>3. Data([h EXCEPT !.current[t] = NULL], c, alive', ex)
    BY <1>3, <2>1, <2>2, PrepareData
  <2> QED BY <1>2, <2>2, <2>3
<1>5. c = Use(hw', th'[Ctl])
  BY <1>2, IdleLocal DEF Use, Now, Threads
<1>6. ex = Excused(th'[Playback])
  BY <1>2, IdleLocal DEF Excused, Stuck, Now, Threads
<1> QED BY <1>1, <1>4, <1>5, <1>6 DEF DataInv

(* Without closes only the current output plays. *)
LEMMA OnePlays ==
  ASSUME TypeInv, DevInv, "close" \notin Calls
  PROVE  /\ \A o \in Outputs : ~hw.standby[o] => o = hw.mOutput
         /\ Up(th[Playback]) => hw.mOutput \in Outputs /\ hw.standby[hw.mOutput]
<1>1. /\ Closed(hw, alive, Excused(th[Playback])) /\ hw \in Hw
      /\ alive \subseteq {hw.mOutput} \union hw.mInputs
      /\ Control(Playback, th[Playback], hw.mOutput, owner[HW] = Playback)
      /\ Knows(Playback, th[Playback], hw)
  BY GoodNow DEF Good, ControlInv, DevInv, DataInv, Data, Counted, LiveInv, LocalInv, Local,
                 Threads
<1>2. hw.mInputs \intersect Outputs = {} /\ Outputs \subseteq Streams
  BY <1>1, StreamAssumption DEF Hw, HwRecords, Streams
<1> QED BY <1>1, <1>2 DEF Closed, Up, Control, Knows

(* The wake lock follows the outputs. *)
LEMMA WakeStep ==
  ASSUME TypeInv, DevInv, NEW t \in Threads, NEW h, NEW got, NEW given, NEW me,
         Parts(t, got, given, h, me), Touch(t, h), t = Playback => Rings(h, me)
  PROVE  WakeInv'
<1> SUFFICES ASSUME Meek
             PROVE  Wake(h, th'[Playback])
  BY DEF Parts, WakeInv, Wake
<1>1. Playback \in Threads /\ Wake(hw, th[Playback])
  BY DEF DevInv, WakeInv, Threads
<1>2. ~Up(IdleThread)
  BY IdleLocal DEF Up
<1>3. t = Playback => (Up(th'[t]) <=> Up(me))
  <2>1. me.pc = "idle" => ~Up(me)
    BY DEF Up
  <2> QED BY <1>2, <2>1 DEF Parts
<1>4. CASE t = Playback /\ Wake(h, me)
  BY <1>3, <1>4 DEF Wake
<1>5. CASE Hush(h, hw) /\ (Up(th'[Playback]) <=> Up(th[Playback]))
  <2>1. CASE \A o \in Outputs : h.standby[o] <=> hw.standby[o]
    BY <1>1, <1>5, <2>1 DEF Wake, Hush
  <2>2. CASE \E o \in Outputs : h.standby[o] /\ ~hw.standby[o]
    <3>1. ~h.wakeLock
      BY <1>5, <2>2 DEF Hush
    <3>2. /\ \A o \in Outputs : ~hw.standby[o] => o = hw.mOutput
          /\ Up(th[Playback]) => hw.mOutput \in Outputs /\ hw.standby[hw.mOutput]
      BY OnePlays DEF Meek
    <3>3. hw.mOutput \in Outputs /\ h.standby[hw.mOutput] /\ ~hw.standby[hw.mOutput]
      BY <2>2, <3>2
    <3>4. \A o \in Outputs : h.standby[o]
      BY <1>5, <3>2, <3>3 DEF Hush
    <3> QED BY <1>5, <3>1, <3>2, <3>3, <3>4 DEF Wake
  <2> QED BY <1>5, <2>1, <2>2 DEF Hush
<1> QED BY <1>1, <1>3, <1>4, <1>5 DEF Touch, Rings, Parts

(* A step that opens or destroys nothing. *)
LEMMA DevStep ==
  ASSUME TypeInv, DevInv, NEW t \in Threads, NEW got, NEW given, NEW h,
         NEW me, Step(t, got, given, h, me), UNCHANGED alive,
         Hands(t, got, given), Touch(t, h), t = Playback => Rings(h, me),
         Data(h, Use(h, Now(t, me, Ctl)), alive, Excused(Now(t, me, Playback))),
         \/ me.pc = "idle" /\ me.resume # "m_leave" /\ Keep(t, h, IdleThread)
         \/ /\ me.pc # "idle" /\ Local(t, me, h, Has(t, got, given))
            /\ Keep(t, h, me) \/ Kill(t, h, me)
  PROVE  Moved
<1>1. DataInv' /\ h \in Hw
  BY DataStep
<1>2. LocalInv'
  BY <1>1, LocalStep DEF DevInv
<1>3. LiveInv'
  BY <1>1, LiveStep DEF DevInv
<1>4. Parts(t, got, given, h, me)
  BY <1>1, StepParts
<1>5. WakeInv'
  BY <1>4, WakeStep
<1>6. Guarded
  BY <1>4, ThreadAssumption DEF Parts, Touch, Untouched, Guarded
<1> QED BY <1>1, <1>2, <1>3, <1>5, <1>6 DEF DevInv, Moved

-------------------------------------------------------------------------------
(* What holds of a thread before it takes a step *)

(* The parts of the invariant. *)
LEMMA DevFacts ==
  ASSUME TypeInv, DevInv, NEW t \in Threads
  PROVE  /\ th[t] \in ThreadRecords /\ hw \in Hw
         /\ Control(t, th[t], hw.mOutput, owner[HW] = t)
         /\ Own(t, th[t], hw.mOutput, Mine(t)) /\ Route(t, th[t], hw)
         /\ Knows(t, th[t], hw)
         /\ Data(hw, Use(hw, th[Ctl]), alive, Excused(th[Playback]))
         /\ Kills(th[t]) => th[t].pc \in {"s_lock", "s_hw", "s_end"} \union Waiting
BY GoodNow DEF Good, ControlInv, DevInv, DataInv, LocalInv, Local, LiveInv

(* setMode() holds one reference or none. *)
LEMMA UseType == \A h, me : Use(h, me) \in {0, 1} /\ Use(h, me) \in Nat
BY DEF Use

(* More streams may be half open, and a stream that is not need not be named. *)
LEMMA DataMore ==
  ASSUME NEW h, NEW c, NEW live, NEW ex, NEW more, Data(h, c, live, ex)
  PROVE  /\ ex \subseteq more => Data(h, c, live, more)
         /\ \A s \in Streams : (h.standby[s] <=> ~h.pcm[s])
              => Data(h, c, live, ex \ {s})
BY DEF Data, Closed

(* The wait that never ends does not move. *)
LEMMA NotStuck ==
  ASSUME NEW me
  PROVE  /\ me.pc # "d_out" => ~Stuck(me)
         /\ ~Stuck(me) => Excused(me) = {}
BY DEF Stuck, Excused

(* A step that leaves the hardware alone. *)
LEMMA DevMove ==
  ASSUME TypeInv, DevInv, NEW t \in Threads, NEW got, NEW given, NEW me,
         Step(t, got, given, hw, me), UNCHANGED alive, Hands(t, got, given),
         t = Playback => ~Stuck(th[t]),
         t = Ctl => (me.resume = "m_leave" <=> th[t].resume = "m_leave"),
         t = Playback /\ "close" \notin Calls => (Up(me) <=> Up(th[t])),
         \/ me.pc = "idle" /\ me.resume # "m_leave"
         \/ /\ me.pc # "idle" /\ Local(t, me, hw, Has(t, got, given))
            /\ Keep(t, hw, me) \/ Kill(t, hw, me)
  PROVE  Moved
<1>1. Touch(t, hw) /\ (t = Playback => Rings(hw, me))
  BY HushTrans DEF Touch, Untouched, Rings, Meek
<1>2. Data(hw, Use(hw, Now(t, me, Ctl)), alive, Excused(Now(t, me, Playback)))
  <2>1. Data(hw, Use(hw, th[Ctl]), alive, Excused(th[Playback]))
    BY DEF DevInv, DataInv
  <2>2. Use(hw, Now(t, me, Ctl)) = Use(hw, th[Ctl])
    BY DEF Use, Now
  <2>3. CASE t = Playback
    <3>1. Excused(th[Playback]) \subseteq Excused(Now(t, me, Playback))
      BY <2>3, NotStuck
    <3> QED BY <2>1, <2>2, <3>1, DataMore
  <2>4. CASE t # Playback
    BY <2>1, <2>2, <2>4 DEF Now
  <2> QED BY <2>3, <2>4
<1>3. Keep(t, hw, IdleThread)
  BY IdleLocal DEF Keep
<1> QED BY <1>1, <1>2, <1>3, DevStep

-------------------------------------------------------------------------------
(* standby() and the destructors *)

(* standby() returns; a destructor takes the object with it. *)
LEMMA DevEndStandby ==
  ASSUME TypeInv, DevInv, NEW t \in Threads, NEW h,
         th[t].pc \in {"s_hw", "s_end"}, Free(HW) \/ owner[HW] = t,
         th[t].target \in Streams, th[t].after \in SafeReturn,
         Data(h, Use(hw, th[Ctl]), alive, Excused(th[Playback])),
         Alike(h, hw, {th[t].target}), SameHal(h, hw), Hush(h, hw),
         Kills(th[t]) => h.standby[th[t].target],
         hw.standby[th[t].target] => h.standby[th[t].target],
         EndStandby(t, h)
  PROVE  Moved
<1> DEFINE s  == th[t].target
           me == [th[t] EXCEPT !.pc = th[t].after, !.target = NULL, !.op = "none",
                               !.after = "idle", !.resume = "none"]
<1>0. /\ Step(t, {}, {HW, s}, h, me)
      /\ alive' = IF Kills(th[t]) THEN alive \ {s} ELSE alive
  BY DEF EndStandby, Kills
<1>1. /\ th[t] \in ThreadRecords /\ hw \in Hw
      /\ Own(t, th[t], hw.mOutput, Mine(t)) /\ Route(t, th[t], hw)
      /\ Control(t, th[t], hw.mOutput, owner[HW] = t)
  BY DevFacts
<1>2. /\ me.pc = th[t].after /\ me.resume = "none" /\ me.op = "none"
      /\ me.spOut = th[t].spOut /\ me.spIn = th[t].spIn /\ me.dOut = th[t].dOut
      /\ me.pc \in SafeReturn
  BY <1>1 DEF ThreadRecords
<1>3. th[t].resume \notin Calling /\ th[t].dOut = NULL /\ ~Stuck(th[t])
  BY <1>1 DEF Route, SafeReturn, Calling, Waiting, Stuck
<1>4. owner[s] = t
  BY <1>1 DEF Own, Mine
<1>5. h \in Hw
  BY DEF Data, Counted
<1> HIDE DEF me
<1>6. Local(t, me, h, Has(t, {}, {HW, s}))
  BY <1>2, <1>3 DEF Local, Own, Route, Knows, SafeReturn, Waiting, Calling, Stuck
<1>7. Touch(t, h)
  <2>1. \A i \in Inputs \ {t} : hw.standby[i] => h.standby[i]
    BY <1>4 DEF Alike, Streams
  <2> QED BY <1>4, <2>1, TouchOwned
<1>8. Hands(t, {}, {HW, s})
  BY <1>4 DEF Hands, Free
<1>9. LocalInv'
  BY <1>0, <1>5, <1>6, <1>7, <1>8, LocalStep DEF DevInv
<1>10. /\ Use(h, Now(t, me, Ctl)) = Use(hw, th[Ctl])
       /\ Excused(Now(t, me, Playback)) = Excused(th[Playback])
  <2>1. h.mInCallAudioMode = hw.mInCallAudioMode /\ ~Stuck(me)
    BY <1>2 DEF SameHal, Stuck
  <2> QED BY <1>2, <1>3, <2>1, NotStuck DEF Use, Now, Calling
<1>11. Data(h, Use(hw, th[Ctl]), alive', Excused(th[Playback]))
  <2>1. CASE Kills(th[t])
    <3>1. s \notin Excused(th[Playback])
      <4>1. s \notin Points(th[Playback])
        BY <2>1 DEF DevInv, LiveInv, Threads
      <4>2. Stuck(th[Playback]) => th[Playback].target = th[Playback].spIn
        BY DevFacts DEF Route, Stuck, Waiting, Threads
      <4> QED BY <4>1, <4>2 DEF Excused, Points
    <3>2. h.standby[s] /\ ~h.pcm[s]
      BY <2>1, <3>1 DEF Data, Closed
    <3> QED BY <1>0, <2>1, <3>2 DEF Data, Closed
  <2> QED BY <1>0, <2>1
<1>12. DataInv'
  BY <1>0, <1>2, <1>10, <1>11, DataStep
<1>13. LiveInv'
  <2>1. /\ SameStreams(hw', h) /\ Kills(th'[t]) = FALSE
        /\ Points(th'[t]) \subseteq Points(th[t]) \union {NULL}
        /\ \A u \in Threads \ {t} : th'[u] = th[u]
    <3>1. Parts(t, {}, {HW, s}, h, me)
      BY <1>0, <1>5, StepParts
    <3>2. ~Kills(me) /\ Points(me) = Points(th[t])
      BY <1>2 DEF Kills, Points
    <3> QED BY <3>1, <3>2, IdleLocal DEF Parts
  <2>2. hw'.mOutput = hw.mOutput /\ hw'.mInputs = hw.mInputs
    BY <2>1 DEF SameStreams, SameHal
  <2>3. NULL \notin Streams /\ alive \subseteq Streams
    BY StreamAssumption DEF TypeInv, TypeOK
  <2>4. LiveInv
    BY DEF DevInv
  <2>5. CASE ~Kills(th[t])
    <3>1. alive' = alive
      BY <1>0, <2>5
    <3> QED BY <2>1, <2>2, <2>3, <2>4, <3>1 DEF LiveInv
  <2>6. CASE Kills(th[t])
    <3>1. alive' = alive \ {s}
      BY <1>0, <2>6
    <3>2. /\ s \in alive \ {hw.mOutput} /\ s \notin hw.mInputs
          /\ \A u \in Threads : s \notin Points(th[u])
          /\ \A u \in Threads \ {t} : Kills(th[u]) => th[u].target # s
      BY <2>4, <2>6 DEF LiveInv
    <3> QED BY <2>1, <2>2, <2>3, <2>4, <3>1, <3>2 DEF LiveInv
  <2> QED BY <2>5, <2>6
<1>14. Parts(t, {}, {HW, s}, h, me)
  BY <1>0, <1>5, StepParts
<1>15. t = Playback => Rings(h, me)
  <2>1. ~Up(me) /\ ~Up(th[t])
    BY <1>2 DEF Up, SafeReturn
  <2> QED BY <2>1 DEF Rings
<1>16. WakeInv'
  BY <1>7, <1>14, <1>15, WakeStep
<1>17. Guarded
  BY <1>7, <1>14, ThreadAssumption DEF Parts, Touch, Untouched, Guarded
<1> QED BY <1>9, <1>12, <1>13, <1>16, <1>17 DEF DevInv, Moved

(* A thread that waits for the output's mutex has given back the input's. *)
LEMMA DevStandbyHw ==
  ASSUME TypeInv, DevInv, NEW t \in Threads, StandbyHw(t)
  PROVE  Moved
<1> DEFINE s == th[t].target
           c == Use(hw, th[Ctl])
           ex == Excused(th[Playback])
<1>1. /\ th[t] \in ThreadRecords /\ hw \in Hw
      /\ Control(t, th[t], hw.mOutput, owner[HW] = t)
      /\ Own(t, th[t], hw.mOutput, Mine(t)) /\ Route(t, th[t], hw)
      /\ Data(hw, c, alive, ex) /\ c \in Nat
  BY DevFacts, UseType
<1>2. /\ th[t].pc = "s_hw" /\ Free(HW) /\ s \in Streams
      /\ th[t].after \in SafeReturn
  BY <1>1, ThreadAssumption DEF StandbyHw, Control, At, Free
<1> HIDE DEF c, ex
<1>3. CASE th[t].op = "routing" /\ EndStandby(t, hw)
  <2>1. Alike(hw, hw, {s}) /\ SameHal(hw, hw) /\ ~Kills(th[t]) /\ Hush(hw, hw)
    BY <1>3, AlikeMore, SameTrans, HushTrans DEF Kills
  <2> QED BY <1>1, <1>2, <1>3, <2>1, DevEndStandby DEF c, ex
<1>4. CASE s \in Outputs /\ EndStandby(t, OutDoStandby(hw, s))
  <2> DEFINE g == OutDoStandby(hw, s)
  <2>1. /\ Data(g, c, alive, ex \ {s}) /\ Alike(g, hw, {s})
        /\ SameHal(g, hw) /\ g.standby[s] /\ Hush(g, hw)
    <3>1. Data(hw, c, alive, ex) /\ c \in Nat /\ s \in Outputs
      BY <1>1, <1>4
    <3> HIDE DEF s
    <3> QED BY <3>1, OutStandbyData
  <2>3. EndStandby(t, g)
    BY <1>4
  <2> HIDE DEF g
  <2>2. Data(g, c, alive, ex)
    BY <2>1, DataMore
  <2> QED BY <1>2, <2>1, <2>2, <2>3, DevEndStandby DEF c, ex
<1>5. CASE s \in Inputs /\ EndStandby(t, InDoStandby(hw, s))
  <2>1. /\ Data(InDoStandby(hw, s), c, alive, ex \ {s})
        /\ Alike(InDoStandby(hw, s), hw, {s})
        /\ SameHal(InDoStandby(hw, s), hw) /\ InDoStandby(hw, s).standby[s]
        /\ Hush(InDoStandby(hw, s), hw)
    BY <1>1, <1>5, InStandbyData, ZenonT(40) DEF Aside
  <2>2. Data(InDoStandby(hw, s), c, alive, ex)
    BY <2>1, DataMore
  <2> QED BY <1>2, <1>5, <2>1, <2>2, DevEndStandby DEF c, ex
<1>6. CASE /\ s \in Inputs /\ NeedsOutputLock(hw, s)
           /\ WaitForOutput(t, {}, hw, s, "s_end") /\ UNCHANGED alive
  <2> DEFINE h == CountStandby(hw, s)
             me == [th[t] EXCEPT !.pc = "d_out", !.dOut = hw.mOutput, !.target = s,
                                 !.resume = "s_end"]
  <2>1. Step(t, {}, {s}, h, me)
    BY <1>6 DEF WaitForOutput
  <2>2. /\ Data(h, c, alive, ex) /\ Alike(h, hw, {}) /\ SameHal(h, hw)
        /\ Hush(h, hw)
    BY <1>1, CountStandbyData
  <2> HIDE DEF h
  <2>3. /\ me.pc = "d_out" /\ me.dOut = hw.mOutput /\ me.target = s
        /\ me.resume = "s_end" /\ me.op = th[t].op /\ me.spOut = th[t].spOut
        /\ me.spIn = th[t].spIn
    BY <1>1 DEF ThreadRecords
  <2> HIDE DEF me
  <2>4. th[t].resume \notin Calling /\ ~Stuck(th[t]) /\ ~Stuck(me)
    BY <1>1, <1>2, <2>3 DEF Route, SafeReturn, Calling, Waiting, Stuck
  <2>5. owner[s] = t
    BY <1>1, <1>2 DEF Own, Mine
  <2>6. Local(t, me, h, Has(t, {}, {s}))
    BY <2>3, <2>4 DEF Local, Own, Route, Knows, Waiting, Calling
  <2>7. Touch(t, h)
    <3>1. \A i \in Inputs \ {t} : hw.standby[i] => h.standby[i]
      BY <2>2 DEF Alike, Streams
    <3> QED BY <2>2, <3>1, TouchOwned
  <2>8. Hands(t, {}, {s})
    BY <2>5 DEF Hands
  <2>9. Data(h, Use(h, Now(t, me, Ctl)), alive, Excused(Now(t, me, Playback)))
    <3>1. Use(h, Now(t, me, Ctl)) = c
      BY <2>2, <2>3, <2>4 DEF Use, Now, Calling, SameHal, c
    <3>2. Excused(Now(t, me, Playback)) = ex
      BY <2>4, NotStuck DEF Now, ex
    <3> QED BY <2>2, <3>1, <3>2
  <2>10. Keep(t, h, me)
    BY <2>2, <2>3 DEF Keep, SameHal, SameStreams, Points, Kills, Waiting
  <2>11. t = Playback => Rings(h, me)
    BY <1>2, <2>2, <2>3 DEF Rings, Up
  <2> QED BY <1>6, <2>1, <2>3, <2>6, <2>7, <2>8, <2>9, <2>10, <2>11, DevStep
<1> QED BY <1>2, <1>3, <1>4, <1>5, <1>6 DEF StandbyHw, Streams

(* doStandby_l() of an input goes on with both mutexes. *)
LEMMA DevDoStandbyHw ==
  ASSUME TypeInv, DevInv, NEW t \in Threads, DoStandbyHw(t)
  PROVE  Moved
<1> DEFINE i == th[t].target
           o == th[t].dOut
           h == [releaseEchoReference(hw, hw.echo[i]) EXCEPT !.echo[i] = NULL]
           n == InFinishStandby(h, i)
           me == [th[t] EXCEPT !.dOut = NULL]
           c == Use(hw, th[Ctl])
           ex == Excused(th[Playback])
<1>1. /\ th[t] \in ThreadRecords /\ hw \in Hw
      /\ Control(t, th[t], hw.mOutput, owner[HW] = t)
      /\ Own(t, th[t], hw.mOutput, Mine(t)) /\ Route(t, th[t], hw)
      /\ Data(hw, c, alive, ex) /\ c \in Nat
  BY DevFacts, UseType
<1>2. /\ th[t].pc = "d_hw" /\ Free(HW) /\ i \in Inputs /\ o \in Outputs
      /\ th[t].resume \in {"s_end", "m_enter", "m_leave"} /\ UNCHANGED alive
  BY <1>1 DEF DoStandbyHw, Control, At, Route, Waiting
<1>3. /\ owner[i] = t /\ owner[o] = t /\ i # o /\ o # NULL /\ o \notin Inputs
      /\ i \in Streams /\ i # HW /\ o \in Locks /\ i \in Locks /\ HW \in Locks
      /\ o \in Streams
  BY <1>1, <1>2, StreamAssumption, ThreadAssumption DEF Own, Mine, Streams, Locks
<1>4. /\ Data(h, c, alive, ex) /\ Alike(h, hw, {hw.mOutput})
      /\ SameButEcho(h, hw)
  BY <1>1, <1>2, ReleaseData
<1>5. \/ /\ th[t].spOut = o \/ HeldElsewhere(o, hw, t)
         /\ Step(t, {HW}, {o}, n, [me EXCEPT !.pc = me.resume])
      \/ /\ ~(th[t].spOut = o \/ HeldElsewhere(o, hw, t))
         /\ Step(t, {HW}, {o}, h, Destructor(me, o, me.resume))
  BY DEF DoStandbyHw
<1> HIDE DEF h, c, ex
<1>6. ~Stuck(th[t]) /\ Hands(t, {HW}, {o})
  BY <1>2, <1>3 DEF Stuck, Hands, Free
<1>9. Touch(t, h) /\ Hush(h, hw)
  <2>1. Hush(h, hw)
    BY <1>4, HushTrans DEF SameButEcho
  <2>2. Tame => \A s \in Outputs : owner[s] = t \/ h.echo[s] = hw.echo[s]
    <3>1. CASE "aec" \notin Calls
      BY <1>1, <1>4, <3>1 DEF Data, Echoes, Streams
    <3>2. CASE "close" \notin Calls
      <4>1. o \in alive /\ hw.mInputs \subseteq Inputs
        BY <1>1, <1>3 DEF DevInv, LiveInv, Points, Hw, HwRecords
      <4>2. hw.mOutput = o
        BY <1>3, <3>2, <4>1 DEF DevInv, LiveInv
      <4> QED BY <1>3, <1>4, <4>2 DEF Alike
    <3> QED BY <3>1, <3>2 DEF Tame
  <2>3. \A s \in Streams : owner[s] = t \/ Untouched(h, hw, s)
    BY <1>4, <2>2 DEF Untouched, SameButEcho, SamePcm, SameMixer
  <2> QED BY <1>4, <2>1, <2>3 DEF Touch, SameButEcho, SameStreams
<1>7. CASE /\ th[t].spOut = o \/ HeldElsewhere(o, hw, t)
           /\ Step(t, {HW}, {o}, n, [me EXCEPT !.pc = me.resume])
  <2> DEFINE m == [me EXCEPT !.pc = me.resume]
  <2>0. Aside(n, h, c, alive, ex, i)
    BY <1>1, <1>2, <1>4, InStandbyData
  <2> HIDE DEF n
  <2>1. /\ Data(n, c, alive, ex \ {i}) /\ Alike(n, h, {i}) /\ SameHal(n, h)
        /\ n.standby[i] /\ Hush(n, h)
    BY <2>0 DEF Aside
  <2>2. Data(n, c, alive, ex)
    BY <2>1, DataMore
  <2>3. /\ m.pc = th[t].resume /\ m.resume = th[t].resume /\ m.dOut = NULL
        /\ m.target = i /\ m.op = th[t].op /\ m.spOut = th[t].spOut
        /\ m.spIn = th[t].spIn
    BY <1>1 DEF ThreadRecords
  <2> HIDE DEF m
  <2>4. /\ n.mOutput = hw.mOutput /\ n.mInputs = hw.mInputs
        /\ n.mInCallAudioMode = hw.mInCallAudioMode
        /\ \A x \in Streams \ {i} : n.standby[x] <=> hw.standby[x]
    BY <1>4, <2>1 DEF SameButEcho, SameHal, SameStreams, Alike
  <2>5. Own(t, m, n.mOutput, Has(t, {HW}, {o}))
    <3>1. Has(t, {HW}, {o}) = (Mine(t) \union {HW}) \ {o}
      BY <1>3, ThreadAssumption DEF Has, Mine, Streams
    <3>2. th[t].resume \in Calling => /\ th[t].spOut # o /\ i = th[t].spIn
                                      /\ th[t].spOut = NULL \/ th[t].spOut \in Mine(t)
      BY <1>1, <1>2 DEF Route, Own, Waiting
    <3> QED BY <1>2, <1>3, <2>3, <3>1, <3>2 DEF Own, Calling, Waiting, Mine, Stuck
  <2>6. Route(t, m, n)
    BY <1>1, <1>2, <2>3, <2>4 DEF Route, Calling, Waiting
  <2>7. Knows(t, m, n)
    BY <1>2, <2>1, <2>3 DEF Knows
  <2>8. Touch(t, n) /\ (t = Playback => Rings(n, m))
    <3>0. \A j \in Inputs \ {t} : h.standby[j] => n.standby[j]
      BY <2>1 DEF Alike, Streams
    <3>1. Touch(t, n)
      BY <1>3, <1>9, <2>1, <3>0, TouchMore
    <3>2. Hush(n, hw)
      BY <1>9, <2>1, HushTrans
    <3> QED BY <1>2, <2>3, <3>1, <3>2 DEF Rings, Up
  <2>9. Data(n, Use(n, Now(t, m, Ctl)), alive, Excused(Now(t, m, Playback)))
    <3>1. Use(n, Now(t, m, Ctl)) = c
      BY <2>3, <2>4 DEF Use, Now, c
    <3>2. ~Stuck(m)
      BY <1>2, <2>3 DEF Stuck
    <3>3. Excused(Now(t, m, Playback)) = ex
      BY <1>6, <3>2, NotStuck DEF Now, ex
    <3> QED BY <2>2, <3>1, <3>3
  <2>10. Keep(t, n, m)
    <3>1. Kills(m) => Kills(th[t]) /\ m.pc = "s_end"
      <4>1. Kills(th[t]) => th[t].resume = "s_end"
        BY <1>1, <1>2 DEF Route, Waiting
      <4> QED BY <2>3, <4>1 DEF Kills
    <3> QED BY <2>3, <2>4, <3>1 DEF Keep, Points
  <2> QED BY <1>2, <1>6, <1>7, <2>3, <2>5, <2>6, <2>7, <2>8, <2>9, <2>10, DevStep
          DEF Local, m
<1>8. CASE /\ ~(th[t].spOut = o \/ HeldElsewhere(o, hw, t))
           /\ Step(t, {HW}, {o}, h, Destructor(me, o, me.resume))
  <2> DEFINE m == Destructor(me, o, me.resume)
  <2>3. /\ m.pc = "s_lock" /\ m.resume = th[t].resume /\ m.dOut = NULL
        /\ m.target = o /\ m.op = "destroy" /\ m.spOut = th[t].spOut
        /\ m.spIn = th[t].spIn /\ m.after = th[t].resume
    BY <1>1 DEF ThreadRecords, Destructor
  <2> HIDE DEF m
  <2>4. /\ h.mOutput = hw.mOutput /\ h.mInputs = hw.mInputs
        /\ h.mInCallAudioMode = hw.mInCallAudioMode /\ h.standby = hw.standby
    BY <1>4 DEF SameButEcho, SameStreams, Alike
  <2>5. Own(t, m, h.mOutput, Has(t, {HW}, {o}))
    BY <2>3 DEF Own, Calling, Waiting, Stuck
  <2>6. Route(t, m, h)
    BY <1>1, <1>2, <2>3, <2>4 DEF Route, Calling, Waiting, SafeReturn
  <2>7. Knows(t, m, h)
    BY <2>3 DEF Knows
  <2>8. Touch(t, h) /\ (t = Playback => Rings(h, m))
    BY <1>2, <1>9, <2>3 DEF Rings, Up
  <2>9. Data(h, Use(h, Now(t, m, Ctl)), alive, Excused(Now(t, m, Playback)))
    <3>1. Use(h, Now(t, m, Ctl)) = c
      BY <2>3, <2>4 DEF Use, Now, c
    <3>2. ~Stuck(m)
      BY <2>3 DEF Stuck
    <3>3. Excused(Now(t, m, Playback)) = ex
      BY <1>6, <3>2, NotStuck DEF Now, ex
    <3> QED BY <1>4, <3>1, <3>3
  <2>10. Kill(t, h, m)
    <3>1. th[t].spIn # o
      BY <1>1, <1>3 DEF ThreadRecords
    <3> QED BY <1>3, <1>8, <2>3, <2>4, <3>1 DEF Kill, Points, Kills, SameStreams
  <2> QED BY <1>2, <1>6, <1>8, <2>3, <2>5, <2>6, <2>7, <2>8, <2>9, <2>10, DevStep
          DEF Local, m
<1> QED BY <1>5, <1>7, <1>8

(* The other steps of standby() only take a mutex. *)
LEMMA DevStandbyStep ==
  ASSUME TypeInv, DevInv, NEW t \in Threads, StandbyStep(t)
  PROVE  Moved
<1>1. /\ th[t] \in ThreadRecords /\ hw \in Hw
      /\ Control(t, th[t], hw.mOutput, owner[HW] = t)
      /\ Own(t, th[t], hw.mOutput, Mine(t)) /\ Route(t, th[t], hw)
      /\ Knows(t, th[t], hw)
      /\ Data(hw, Use(hw, th[Ctl]), alive, Excused(th[Playback]))
      /\ Kills(th[t]) => th[t].pc \in {"s_lock", "s_hw", "s_end"} \union Waiting
  BY DevFacts
<1>2. CASE StandbyLock(t)
  <2> DEFINE s == th[t].target
             me == [th[t] EXCEPT !.pc = "s_hw"]
  <2>1. Step(t, {s}, {}, hw, me) /\ th[t].pc = "s_lock" /\ Free(s)
        /\ UNCHANGED alive /\ s \in Locks
    BY <1>1, <1>2 DEF StandbyLock, At, Control, Locks
  <2>2. /\ me.pc = "s_hw" /\ me.target = s /\ me.resume = th[t].resume
        /\ me.dOut = th[t].dOut /\ me.op = th[t].op /\ me.after = th[t].after
        /\ Points(me) = Points(th[t])
    BY <1>1 DEF ThreadRecords, Points
  <2> HIDE DEF me
  <2>3. Local(t, me, hw, Has(t, {s}, {}))
    BY <1>1, <2>1, <2>2
       DEF Local, Own, Route, Knows, Waiting, Calling, Stuck, Has, Mine
  <2>4. Hands(t, {s}, {}) /\ ~Stuck(th[t])
    BY <2>1 DEF Hands, Free, Stuck
  <2>5. Keep(t, hw, me)
    BY <2>2 DEF Keep, Kills
  <2> QED BY <2>1, <2>2, <2>3, <2>4, <2>5, DevMove DEF Up
<1>3. CASE StandbyHw(t)
  BY <1>3, DevStandbyHw
<1>4. CASE StandbyEnd(t)
  <2>1. /\ th[t].pc = "s_end" /\ owner[HW] = t /\ th[t].target \in Streams
        /\ th[t].after \in SafeReturn /\ hw.standby[th[t].target]
        /\ EndStandby(t, hw)
    BY <1>1, <1>4 DEF StandbyEnd, At, Control, Knows
  <2>2. Alike(hw, hw, {th[t].target}) /\ SameHal(hw, hw) /\ Hush(hw, hw)
    BY AlikeMore, SameTrans, HushTrans
  <2> QED BY <1>1, <2>1, <2>2, DevEndStandby
<1>5. CASE DoStandbyOut(t)
  <2> DEFINE o == th[t].dOut
             me == [th[t] EXCEPT !.pc = "d_in"]
  <2>1. Step(t, {o}, {}, hw, me) /\ th[t].pc = "d_out" /\ Free(o)
        /\ UNCHANGED alive /\ o \in Locks /\ o # NULL
    BY <1>1, <1>5, StreamAssumption DEF DoStandbyOut, At, Control, Locks, Streams
  <2>2. /\ me.pc = "d_in" /\ me.target = th[t].target /\ me.resume = th[t].resume
        /\ me.dOut = o /\ me.op = th[t].op /\ me.after = th[t].after
        /\ me.spOut = th[t].spOut /\ me.spIn = th[t].spIn
        /\ Points(me) = Points(th[t])
    BY <1>1 DEF ThreadRecords, Points
  <2> HIDE DEF me
  <2>3. Hands(t, {o}, {}) /\ o \notin Mine(t)
    BY <2>1, ThreadAssumption DEF Hands, Free, Mine
  <2>4. ~Stuck(th[t])
    BY <1>1, <2>3 DEF Own, Stuck
  <2>5. th[t].resume # "w_fail" /\ (th[t].resume \in Calling => th[t].spOut # o)
    <3>1. th[t].resume \in Calling => th[t].spOut = NULL \/ th[t].spOut \in Mine(t)
      BY <1>1, <2>1 DEF Own, Waiting
    <3> QED BY <2>1, <2>3, <2>4, <3>1 DEF Stuck
  <2>6. Own(t, me, hw.mOutput, Has(t, {o}, {}))
    BY <1>1, <2>1, <2>2 DEF Own, Waiting, Calling, Stuck, Has, Mine
  <2>7. Route(t, me, hw) /\ Knows(t, me, hw)
    BY <1>1, <2>1, <2>2, <2>5 DEF Route, Knows, Waiting, Calling, Kills
  <2>8. Keep(t, hw, me)
    BY <1>1, <2>2 DEF Keep, Kills, Waiting
  <2> QED BY <2>1, <2>2, <2>3, <2>4, <2>6, <2>7, <2>8, DevMove DEF Local, Up
<1>6. CASE DoStandbyIn(t)
  <2> DEFINE s == th[t].target
             me == [th[t] EXCEPT !.pc = "d_hw"]
  <2>1. Step(t, {s}, {}, hw, me) /\ th[t].pc = "d_in" /\ Free(s)
        /\ UNCHANGED alive /\ s \in Locks
    BY <1>1, <1>6 DEF DoStandbyIn, At, Control, Locks, Streams
  <2>2. /\ me.pc = "d_hw" /\ me.target = s /\ me.resume = th[t].resume
        /\ me.dOut = th[t].dOut /\ me.op = th[t].op /\ me.after = th[t].after
        /\ me.spOut = th[t].spOut /\ me.spIn = th[t].spIn
        /\ Points(me) = Points(th[t])
    BY <1>1 DEF ThreadRecords, Points
  <2> HIDE DEF me
  <2>3. Hands(t, {s}, {}) /\ ~Stuck(th[t])
    BY <2>1 DEF Hands, Free, Stuck
  <2>4. Own(t, me, hw.mOutput, Has(t, {s}, {}))
    BY <1>1, <2>1, <2>2 DEF Own, Waiting, Calling, Stuck, Has, Mine
  <2>5. Route(t, me, hw) /\ Knows(t, me, hw)
    BY <1>1, <2>1, <2>2 DEF Route, Knows, Waiting, Calling, Kills
  <2>6. Keep(t, hw, me)
    BY <1>1, <2>2 DEF Keep, Kills, Waiting
  <2> QED BY <2>1, <2>2, <2>3, <2>4, <2>5, <2>6, DevMove DEF Local, Up
<1>7. CASE DoStandbyHw(t)
  BY <1>7, DevDoStandbyHw
<1> QED BY <1>2, <1>3, <1>4, <1>5, <1>6, <1>7 DEF StandbyStep

(* A pointer that goes away with no mutex held. *)
LEMMA DevDrop ==
  ASSUME TypeInv, DevInv, NEW t \in Threads, DropInput(t) \/ DropOutput(t)
  PROVE  Moved
<1>1. PICK s, me, next :
        /\ s # NULL => s \in Points(th[t]) /\ s \notin Points(me)
        /\ Points(me) \subseteq Points(th[t]) \union {NULL}
        /\ next \in SafeReturn /\ me.op = th[t].op
        /\ me.resume = th[t].resume /\ me \in ThreadRecords /\ me.dOut = th[t].dOut
        /\ Step(t, {}, {}, hw,
                IF s # NULL /\ ~HeldElsewhere(s, hw, t) THEN Destructor(me, s, next)
                ELSE [me EXCEPT !.pc = next])
  <2>0. th[t] \in ThreadRecords /\ Route(t, th[t], hw)
    BY DevFacts
  <2>1. CASE DropInput(t)
    <3> DEFINE me == [th[t] EXCEPT !.spIn = NULL]
               next == IF At(t, "m_dropIn") THEN "m_dropOut" ELSE "idle"
    <3>1. th[t].pc \in {"m_dropIn", "c_dropIn"}
      BY <2>1 DEF DropInput
    <3>2. th[t].dOut = NULL
      BY <2>0, <3>1 DEF Route, Waiting
    <3>3. /\ me \in ThreadRecords /\ me.op = th[t].op /\ me.resume = th[t].resume
          /\ me.dOut = th[t].dOut /\ me.spOut = th[t].spOut /\ me.spIn = NULL
      BY <2>0 DEF ThreadRecords
    <3>4. th[t].spIn # NULL => th[t].spIn \in Points(th[t]) /\ th[t].spIn \notin Points(me)
      BY <2>0, <3>2, <3>3, StreamAssumption DEF Points, ThreadRecords
    <3>5. next \in SafeReturn
      BY DEF SafeReturn
    <3>6. Step(t, {}, {}, hw,
               IF th[t].spIn # NULL /\ ~HeldElsewhere(th[t].spIn, hw, t)
               THEN Destructor(me, th[t].spIn, next) ELSE [me EXCEPT !.pc = next])
      BY <2>1 DEF DropInput
    <3>7. Points(me) \subseteq Points(th[t]) \union {NULL}
      BY <3>3 DEF Points
    <3> HIDE DEF me, next
    <3> QED BY <3>3, <3>4, <3>5, <3>6, <3>7
  <2>2. CASE DropOutput(t)
    <3> DEFINE me == [th[t] EXCEPT !.spOut = NULL]
               next == IF At(t, "c_dropOut") THEN "c_dropIn" ELSE "idle"
    <3>1. th[t].pc \in {"m_dropOut", "c_dropOut"}
      BY <2>2 DEF DropOutput
    <3>2. th[t].dOut = NULL
      BY <2>0, <3>1 DEF Route, Waiting
    <3>3. /\ me \in ThreadRecords /\ me.op = th[t].op /\ me.resume = th[t].resume
          /\ me.dOut = th[t].dOut /\ me.spOut = NULL /\ me.spIn = th[t].spIn
      BY <2>0 DEF ThreadRecords
    <3>4. th[t].spOut # NULL
            => th[t].spOut \in Points(th[t]) /\ th[t].spOut \notin Points(me)
      BY <2>0, <3>2, <3>3, StreamAssumption DEF Points, ThreadRecords
    <3>5. next \in SafeReturn
      BY DEF SafeReturn
    <3>6. Step(t, {}, {}, hw,
               IF th[t].spOut # NULL /\ ~HeldElsewhere(th[t].spOut, hw, t)
               THEN Destructor(me, th[t].spOut, next) ELSE [me EXCEPT !.pc = next])
      BY <2>2 DEF DropOutput
    <3>7. Points(me) \subseteq Points(th[t]) \union {NULL}
      BY <3>3 DEF Points
    <3> HIDE DEF me, next
    <3> QED BY <3>3, <3>4, <3>5, <3>6, <3>7
  <2> QED BY <2>1, <2>2
<1>2. /\ th[t].pc \in {"m_dropIn", "c_dropIn", "m_dropOut", "c_dropOut"}
      /\ UNCHANGED alive
  BY DEF DropInput, DropOutput
<1>3. /\ Route(t, th[t], hw)
      /\ Kills(th[t]) => th[t].pc \in {"s_lock", "s_hw", "s_end"} \union Waiting
  BY DevFacts
<1>4. /\ ~Kills(th[t]) /\ th[t].resume \notin Calling /\ ~Stuck(th[t])
      /\ me.dOut = NULL
  BY <1>1, <1>2, <1>3 DEF Route, Waiting, Calling, Stuck
<1>5. Hands(t, {}, {})
  BY DEF Hands
<1>6. CASE s # NULL /\ ~HeldElsewhere(s, hw, t)
  <2> DEFINE m == Destructor(me, s, next)
  <2>1. /\ m.pc = "s_lock" /\ m.target = s /\ m.op = "destroy"
        /\ m.resume = th[t].resume /\ m.dOut = NULL /\ Points(m) = Points(me)
    BY <1>1, <1>4 DEF Destructor, ThreadRecords, Points
  <2>2. Step(t, {}, {}, hw, m)
    BY <1>1, <1>6
  <2> HIDE DEF m
  <2>3. Local(t, m, hw, Has(t, {}, {}))
    BY <1>4, <2>1 DEF Local, Own, Route, Knows, Waiting, Calling, Stuck
  <2>4. Kill(t, hw, m)
    BY <1>1, <1>6, <2>1 DEF Kill, Kills, SameStreams
  <2> QED BY <1>2, <1>4, <1>5, <2>1, <2>2, <2>3, <2>4, DevMove DEF Up
<1>7. CASE ~(s # NULL /\ ~HeldElsewhere(s, hw, t))
  <2> DEFINE m == [me EXCEPT !.pc = next]
  <2>1. /\ m.pc = next /\ m.op = th[t].op
        /\ m.resume = th[t].resume /\ m.dOut = NULL /\ Points(m) = Points(me)
    BY <1>1, <1>4 DEF ThreadRecords, Points
  <2>2. Step(t, {}, {}, hw, m)
    BY <1>1, <1>7
  <2> HIDE DEF m
  <2>3. Local(t, m, hw, Has(t, {}, {}))
    BY <1>1, <1>4, <2>1
       DEF Local, Own, Route, Knows, Waiting, Calling, Stuck, SafeReturn
  <2>4. Keep(t, hw, m)
    BY <1>1, <1>4, <2>1 DEF Keep, Kills
  <2>5. ~Up(m) /\ ~Up(th[t])
    BY <1>1, <1>2, <2>1 DEF Up, SafeReturn
  <2> QED BY <1>2, <1>4, <1>5, <2>1, <2>2, <2>3, <2>4, <2>5, DevMove DEF Calling
<1> QED BY <1>6, <1>7

-------------------------------------------------------------------------------
(* Opening and closing streams, and the calls that begin *)

(* A call that begins leaves no trace of the one before. *)
LEMMA DevIdle ==
  ASSUME TypeInv, DevInv, NEW t \in Threads, th[t].pc = "idle"
  PROVE  /\ th[t] \in ThreadRecords /\ hw \in Hw
         /\ ~Kills(th[t]) /\ th[t].resume \notin Calling /\ ~Stuck(th[t])
         /\ th[t].dOut = NULL
         /\ \A h, mine : Local(t, th[t], h, mine)
<1>1. /\ th[t] \in ThreadRecords /\ hw \in Hw /\ Route(t, th[t], hw)
      /\ Kills(th[t]) => th[t].pc \in {"s_lock", "s_hw", "s_end"} \union Waiting
  BY DevFacts
<1>2. ~Kills(th[t]) /\ th[t].resume \notin Calling /\ th[t].dOut = NULL
  BY <1>1 DEF Route, Waiting, Calling
<1> QED BY <1>1, <1>2 DEF Local, Own, Route, Knows, Waiting, Calling, Stuck

(* A new stream is in standby and closed; no pointer and no destructor names *)
(* it.                                                                       *)
LEMMA DevOpen ==
  ASSUME TypeInv, DevInv, NEW t \in Threads, th[t].pc = "idle",
         NEW s \in Streams, s \notin alive, alive' = alive \union {s},
         UNCHANGED <<owner, th>>,
         hw' \in Hw, SamePcm(hw', hw), hw'.mMixer = hw.mMixer,
         hw'.mMixerOpenCnt = hw.mMixerOpenCnt,
         \A x \in Streams : hw'.mixer[x] <=> hw.mixer[x],
         \A x \in Streams : hw'.standby[x] <=> hw.standby[x],
         hw'.mInCallAudioMode = hw.mInCallAudioMode, hw'.current = hw.current,
         hw'.mEchoReference = hw.mEchoReference, hw'.wakeLock = hw.wakeLock,
         \A x \in Streams : hw'.echo[x] = IF x = s THEN NULL ELSE hw.echo[x],
         \A i \in Inputs : hw'.needEcho[i] => hw.needEcho[i],
         \/ /\ hw'.mOutput = s /\ hw'.mInputs = hw.mInputs /\ t = Playback
            /\ hw.mOutput = NULL
         \/ /\ hw'.mOutput = hw.mOutput /\ hw'.mInputs = hw.mInputs \union {s}
            /\ s \notin Outputs
  PROVE  Moved
<1> DEFINE c == Use(hw, th[Ctl])
           ex == Excused(th[Playback])
<1>1. Data(hw, c, alive, ex) /\ LiveInv /\ hw \in Hw
  BY DevFacts DEF DevInv
<1>0. Tame /\ s \in Outputs => hw.echo[s] = NULL
  <2>1. s # NULL
    BY StreamAssumption
  <2> QED BY <1>1, <2>1 DEF Tame, Data, Echoes
<1>2. Touch(t, hw') /\ Guarded
  <2>1. \A x \in Streams : Untouched(hw', hw, x)
    BY <1>0 DEF Untouched, SamePcm
  <2>2. Hush(hw', hw)
    BY DEF Hush, Streams
  <2> QED BY <2>1, <2>2 DEF Touch, Guarded, Streams
<1>3. LocalInv'
  <2>1. ASSUME NEW u \in Threads
        PROVE  Local(u, th[u], hw', Mine(u))
    <3>1. CASE u = t
      BY <3>1, DevIdle
    <3>2. CASE u # t
      BY <1>2, <3>2, OthersLocal DEF DevInv, LocalInv
    <3> QED BY <3>1, <3>2
  <2>2. th' = th /\ \A u : Mine(u)' = Mine(u)
    BY DEF Mine
  <2> QED BY <2>1, <2>2 DEF LocalInv
<1>4. Counted(hw', c)
  <2> DEFINE m == Cardinality(Chosen(Streams, hw.mixer))
  <2>1. Chosen(Streams, hw'.mixer) = Chosen(Streams, hw.mixer)
    BY DEF Chosen
  <2>2. PcmCount(hw', c)
    BY <1>1 DEF Data, Counted, PcmCount, SamePcm
  <2>3. MixerCount(hw', c)
    BY <1>1, <2>1 DEF Data, Counted, MixerCount
  <2> QED BY <2>2, <2>3 DEF Counted
<1>5. Closed(hw', alive', ex)
  BY <1>1 DEF Data, Closed, SamePcm, Streams
<1>6. Echoes(hw')
  <2>1. Echoes(hw) /\ Inputs \subseteq Streams
    BY <1>1 DEF Data, Streams
  <2>2. hw'.mOutput # NULL => hw'.echo[hw'.mOutput] \in {NULL, hw'.mEchoReference}
    <3>1. CASE hw'.mOutput = s
      BY <3>1
    <3>2. CASE hw'.mOutput = hw.mOutput
      <4>1. hw.mOutput # NULL => hw.mOutput \in Streams
        BY <1>1 DEF Hw, HwRecords, Streams
      <4> QED BY <2>1, <3>2, <4>1 DEF Echoes
    <3> QED BY <3>1, <3>2
  <2>3. OneInput => \A i \in Inputs : hw'.echo[i] \in {NULL, hw'.mEchoReference}
    BY <2>1 DEF Echoes
  <2>4. "aec" \notin Calls => /\ \A i \in Inputs : ~hw'.needEcho[i]
                              /\ \A x \in Streams : hw'.echo[x] = NULL
    BY <2>1 DEF Echoes
  <2>5. "close" \notin Calls
          => \A o \in Outputs : o # hw'.mOutput => hw'.echo[o] = NULL
    <3>1. NULL \notin Outputs /\ Outputs \subseteq Streams
      BY StreamAssumption DEF Streams
    <3> QED BY <2>1, <3>1 DEF Echoes
  <2> QED BY <2>2, <2>3, <2>4, <2>5 DEF Echoes
<1>7. DataInv'
  <2>1. Use(hw', th'[Ctl]) = c /\ Excused(th'[Playback]) = ex
    BY DEF Use
  <2> QED BY <1>4, <1>5, <1>6, <2>1 DEF DataInv, Data
<1>8. LiveInv'
  <2>1. /\ hw'.mOutput \in {hw.mOutput, s} /\ hw'.mInputs \subseteq hw.mInputs \union {s}
        /\ th' = th
    OBVIOUS
  <2>2. "close" \notin Calls => alive' \subseteq {hw'.mOutput} \union hw'.mInputs
    <3>1. NULL \notin alive
      BY StreamAssumption DEF TypeInv, TypeOK
    <3> QED BY <1>1, <3>1 DEF LiveInv
  <2> QED BY <1>1, <2>1, <2>2 DEF LiveInv
<1>9. WakeInv'
  BY DEF DevInv, WakeInv, Wake, Streams
<1> QED BY <1>2, <1>3, <1>7, <1>8, <1>9 DEF DevInv, Moved

(* The two calls that open a stream. *)
LEMMA DevOpenStream ==
  ASSUME TypeInv, DevInv,
         \/ \E o \in Outputs : OpenOutputStream(o)
         \/ \E i \in Inputs : OpenInputStream(i)
  PROVE  Moved
<1>1. hw \in Hw /\ Data(hw, Use(hw, th[Ctl]), alive, Excused(th[Playback]))
      /\ Inputs \intersect Outputs = {}
  BY DevFacts, StreamAssumption DEF Threads
<1>2. \A s \in Streams \ alive : hw.standby[s] /\ ~hw.pcm[s] /\ ~hw.mixer[s]
  BY <1>1 DEF Data, Closed
<1>3. ASSUME NEW o \in Outputs, OpenOutputStream(o)
      PROVE  Moved
  <2>1. /\ th[Playback].pc = "idle" /\ o \in Streams /\ o \notin alive
        /\ alive' = alive \union {o} /\ UNCHANGED <<owner, th>>
        /\ Playback \in Threads /\ hw.mOutput = NULL
    BY <1>3 DEF OpenOutputStream, At, Streams, Threads
  <2>2. hw' = [hw EXCEPT !.mOutput = o, !.standby[o] = TRUE, !.pcm[o] = FALSE,
                         !.mixer[o] = FALSE, !.echo[o] = NULL]
    BY <1>3 DEF OpenOutputStream
  <2>3. hw' \in Hw
    BY <1>1, <2>1, <2>2 DEF Hw, HwRecords
  <2>4. /\ hw'.mOutput = o /\ hw'.mInputs = hw.mInputs
        /\ hw'.mInCallAudioMode = hw.mInCallAudioMode /\ hw'.current = hw.current
        /\ hw'.wakeLock = hw.wakeLock
        /\ hw'.mEchoReference = hw.mEchoReference /\ hw'.needEcho = hw.needEcho
        /\ hw'.mMixer = hw.mMixer /\ hw'.mMixerOpenCnt = hw.mMixerOpenCnt
        /\ hw'.mPcm = hw.mPcm /\ hw'.mPcmOpenCnt = hw.mPcmOpenCnt
    BY <1>1, <2>2 DEF Hw, HwRecords
  <2>5. \A x \in Streams :
          /\ hw'.echo[x] = IF x = o THEN NULL ELSE hw.echo[x]
          /\ hw'.standby[x] = IF x = o THEN TRUE ELSE hw.standby[x]
          /\ hw'.pcm[x] = IF x = o THEN FALSE ELSE hw.pcm[x]
          /\ hw'.mixer[x] = IF x = o THEN FALSE ELSE hw.mixer[x]
    BY <1>1, <2>1, <2>2 DEF Hw, HwRecords
  <2>6. hw'.pcm = hw.pcm
    <3>1. hw.pcm \in [Streams -> BOOLEAN] /\ hw'.pcm \in [Streams -> BOOLEAN]
      BY <1>1, <2>3 DEF Hw, HwRecords
    <3>2. hw.pcm[o] = FALSE
      BY <1>2, <2>1, <3>1
    <3>3. \A x \in Streams : hw'.pcm[x] = hw.pcm[x]
      BY <2>5, <3>2
    <3> QED BY <3>1, <3>3
  <2>7. SamePcm(hw', hw)
    BY <2>4, <2>6 DEF SamePcm
  <2>8. /\ \A x \in Streams : hw'.mixer[x] <=> hw.mixer[x]
        /\ \A x \in Streams : hw'.standby[x] <=> hw.standby[x]
        /\ \A j \in Inputs : hw'.needEcho[j] => hw.needEcho[j]
    BY <1>2, <2>1, <2>4, <2>5, ZenonT(40)
  <2> QED BY <2>1, <2>3, <2>4, <2>5, <2>7, <2>8, DevOpen, ZenonT(40)
<1>4. ASSUME NEW i \in Inputs, OpenInputStream(i)
      PROVE  Moved
  <2>1. /\ th[i].pc = "idle" /\ i \in Streams /\ i \notin alive
        /\ alive' = alive \union {i} /\ UNCHANGED <<owner, th>>
        /\ i \in Threads
    BY <1>4 DEF OpenInputStream, At, Streams, Threads
  <2>2. hw' = [hw EXCEPT !.mInputs = @ \union {i}, !.standby[i] = TRUE,
                         !.pcm[i] = FALSE, !.mixer[i] = FALSE, !.echo[i] = NULL,
                         !.needEcho[i] = FALSE]
    BY <1>4 DEF OpenInputStream
  <2>3. hw' \in Hw
    BY <1>1, <2>1, <2>2, ZenonT(40) DEF Hw, HwRecords
  <2>4. /\ hw'.mOutput = hw.mOutput /\ hw'.mInputs = hw.mInputs \union {i}
        /\ hw'.mInCallAudioMode = hw.mInCallAudioMode /\ hw'.current = hw.current
        /\ hw'.wakeLock = hw.wakeLock
        /\ hw'.mEchoReference = hw.mEchoReference
        /\ hw'.mMixer = hw.mMixer /\ hw'.mMixerOpenCnt = hw.mMixerOpenCnt
        /\ hw'.mPcm = hw.mPcm /\ hw'.mPcmOpenCnt = hw.mPcmOpenCnt
    BY <1>1, <2>2 DEF Hw, HwRecords
  <2>5. \A x \in Streams :
          /\ hw'.echo[x] = IF x = i THEN NULL ELSE hw.echo[x]
          /\ hw'.standby[x] = IF x = i THEN TRUE ELSE hw.standby[x]
          /\ hw'.pcm[x] = IF x = i THEN FALSE ELSE hw.pcm[x]
          /\ hw'.mixer[x] = IF x = i THEN FALSE ELSE hw.mixer[x]
    BY <1>1, <2>1, <2>2 DEF Hw, HwRecords
  <2>6. hw'.pcm = hw.pcm
    <3>1. hw.pcm \in [Streams -> BOOLEAN] /\ hw'.pcm \in [Streams -> BOOLEAN]
      BY <1>1, <2>3 DEF Hw, HwRecords
    <3>2. hw.pcm[i] = FALSE
      BY <1>2, <2>1, <3>1
    <3>3. \A x \in Streams : hw'.pcm[x] = hw.pcm[x]
      BY <2>5, <3>2
    <3> QED BY <3>1, <3>3
  <2>7. \A j \in Inputs : hw'.needEcho[j] = IF j = i THEN FALSE ELSE hw.needEcho[j]
    BY <1>1, <2>2 DEF Hw, HwRecords
  <2>8. SamePcm(hw', hw)
    BY <2>4, <2>6 DEF SamePcm
  <2>9. /\ \A x \in Streams : hw'.mixer[x] <=> hw.mixer[x]
        /\ \A x \in Streams : hw'.standby[x] <=> hw.standby[x]
        /\ \A j \in Inputs : hw'.needEcho[j] => hw.needEcho[j]
        /\ i \notin Outputs
    BY <1>1, <1>2, <2>1, <2>4, <2>5, <2>7, ZenonT(40)
  <2> QED BY <2>1, <2>3, <2>4, <2>5, <2>8, <2>9, DevOpen
<1> QED BY <1>3, <1>4

(* A call begins; it may take a stream off the lists. *)
LEMMA DevCall ==
  ASSUME TypeInv, DevInv, NEW t \in Threads, th[t].pc = "idle", NEW h, NEW me,
         Step(t, {}, {}, h, me), UNCHANGED alive,
         Data(h, Use(hw, th[Ctl]), alive, Excused(th[Playback])),
         h.standby = hw.standby, h.mInCallAudioMode = hw.mInCallAudioMode,
         SamePcm(h, hw), SameMixer(h, hw), h.echo = hw.echo, h.wakeLock = hw.wakeLock,
         \/ h.mOutput = hw.mOutput
         \/ h.mOutput = NULL /\ t = Playback /\ "close" \in Calls,
         h.mInputs = hw.mInputs \/ "close" \in Calls,
         h.mInputs \subseteq hw.mInputs, hw.mInputs \subseteq h.mInputs \union {t},
         me.pc \in {"s_lock", "w_out", "r_in", "m_hw", "c_dropIn", "c_dropOut"},
         me.op # "destroy", me.resume = th[t].resume, me.dOut = NULL,
         Points(me) \subseteq Points(th[t]) \union {hw.mOutput, NULL} \union hw.mInputs,
         me.pc = "r_in" => t \in h.mInputs
  PROVE  Moved
<1>1. th[t].resume \notin Calling /\ ~Stuck(th[t])
  BY DevIdle
<1>2. Local(t, me, h, Has(t, {}, {}))
  BY <1>1 DEF Local, Own, Route, Knows, Waiting, Calling, Stuck
<1>3. Touch(t, h) /\ Hands(t, {}, {}) /\ (t = Playback => Rings(h, me))
  <2>1. Hush(h, hw) /\ ~Up(me) /\ ~Up(th[t])
    BY HushTrans DEF Up
  <2>2. \A s \in Streams : Untouched(h, hw, s)
    BY DEF Untouched, SamePcm, SameMixer
  <2>3. t = Playback => Rings(h, me)
    BY <2>1 DEF Rings
  <2> QED BY <2>1, <2>2, <2>3 DEF Touch, Hands
<1>4. Keep(t, h, me)
  BY DEF Keep, Kills
<1>5. /\ Use(h, Now(t, me, Ctl)) = Use(hw, th[Ctl])
      /\ Excused(Now(t, me, Playback)) = Excused(th[Playback])
  <2>1. ~Stuck(me)
    BY DEF Stuck
  <2> QED BY <1>1, <2>1, NotStuck DEF Use, Now
<1> QED BY <1>2, <1>3, <1>4, <1>5, DevStep

(* The calls that change nothing at first. *)
LEMMA DevBegin ==
  ASSUME TypeInv, DevInv,
         \/ \E i \in Inputs : BeginRead(i)
         \/ BeginWrite
         \/ \E t \in Threads, op \in {"standby", "routing"} : BeginStandby(t, op)
         \/ \E m \in Modes : BeginSetMode(m)
         \/ SetMicMute
  PROVE  Moved
<1>1. /\ hw \in Hw /\ Data(hw, Use(hw, th[Ctl]), alive, Excused(th[Playback]))
      /\ Playback \in Threads /\ Ctl \in Threads /\ Inputs \subseteq Threads
      /\ SamePcm(hw, hw) /\ SameMixer(hw, hw)
  BY DevFacts DEF Threads, SamePcm, SameMixer
<1>2. ASSUME NEW i \in Inputs, BeginRead(i)
      PROVE  Moved
  <2> DEFINE me == [th[i] EXCEPT !.pc = "r_in"]
  <2>1. /\ Step(i, {}, {}, hw, me) /\ UNCHANGED alive /\ th[i].pc = "idle"
        /\ i \in hw.mInputs
    BY <1>2 DEF BeginRead, At
  <2>2. th[i] \in ThreadRecords /\ ~Kills(th[i]) /\ th[i].dOut = NULL
    BY <1>1, <2>1, DevIdle
  <2>3. /\ me.pc = "r_in" /\ me.op # "destroy" /\ me.resume = th[i].resume
        /\ me.dOut = NULL /\ Points(me) = Points(th[i])
    BY <2>2 DEF ThreadRecords, Points, Kills
  <2> HIDE DEF me
  <2> QED BY <1>1, <2>1, <2>3, DevCall
<1>3. CASE BeginWrite
  <2> DEFINE me == [th[Playback] EXCEPT !.pc = "w_out"]
  <2>1. Step(Playback, {}, {}, hw, me) /\ UNCHANGED alive /\ th[Playback].pc = "idle"
    BY <1>3 DEF BeginWrite, At
  <2>2. /\ th[Playback] \in ThreadRecords /\ ~Kills(th[Playback])
        /\ th[Playback].dOut = NULL
    BY <1>1, <2>1, DevIdle
  <2>3. /\ me.pc = "w_out" /\ me.op # "destroy" /\ me.resume = th[Playback].resume
        /\ me.dOut = NULL /\ Points(me) = Points(th[Playback])
    BY <2>2 DEF ThreadRecords, Points, Kills
  <2> HIDE DEF me
  <2> QED BY <1>1, <2>1, <2>3, DevCall
<1>4. ASSUME NEW t \in Threads, NEW op \in {"standby", "routing"}, BeginStandby(t, op)
      PROVE  Moved
  <2> DEFINE me == [th[t] EXCEPT !.pc = "s_lock", !.target = MyStream(t), !.op = op,
                                 !.after = "idle"]
  <2>1. Step(t, {}, {}, hw, me) /\ UNCHANGED alive /\ th[t].pc = "idle"
    BY <1>4 DEF BeginStandby, At
  <2>2. th[t] \in ThreadRecords /\ th[t].dOut = NULL
    BY <1>1, <2>1, DevIdle
  <2>3. /\ me.pc = "s_lock" /\ me.op # "destroy" /\ me.resume = th[t].resume
        /\ me.dOut = NULL /\ Points(me) = Points(th[t])
    BY <2>2 DEF ThreadRecords, Points
  <2> HIDE DEF me
  <2> QED BY <1>1, <2>1, <2>3, DevCall
<1>5. ASSUME NEW m \in Modes, BeginSetMode(m)
      PROVE  Moved
  <2> DEFINE me == [th[Ctl] EXCEPT !.pc = "m_hw", !.mode = m]
  <2>1. Step(Ctl, {}, {}, hw, me) /\ UNCHANGED alive /\ th[Ctl].pc = "idle"
    BY <1>5 DEF BeginSetMode, At
  <2>2. th[Ctl] \in ThreadRecords /\ ~Kills(th[Ctl]) /\ th[Ctl].dOut = NULL
    BY <1>1, <2>1, DevIdle
  <2>3. /\ me.pc = "m_hw" /\ me.op # "destroy" /\ me.resume = th[Ctl].resume
        /\ me.dOut = NULL /\ Points(me) = Points(th[Ctl])
    BY <2>2 DEF ThreadRecords, Points, Kills
  <2> HIDE DEF me
  <2> QED BY <1>1, <2>1, <2>3, DevCall
<1>6. CASE SetMicMute
  <2> DEFINE i == getActiveInput_l(hw)
             me == CallStandby([th[Ctl] EXCEPT !.spIn = i], i, "c_dropIn")
  <2>1. /\ Step(Ctl, {}, {}, hw, me) /\ UNCHANGED alive /\ th[Ctl].pc = "idle"
        /\ i # NULL
    BY <1>6 DEF SetMicMute, At
  <2>2. i \in hw.mInputs
    BY <1>1, <2>1, ActiveInputType
  <2> HIDE DEF i
  <2>3. th[Ctl] \in ThreadRecords /\ th[Ctl].dOut = NULL
    BY <1>1, <2>1, DevIdle
  <2>4. /\ me.pc = "s_lock" /\ me.op # "destroy" /\ me.resume = th[Ctl].resume
        /\ me.dOut = NULL /\ Points(me) = {th[Ctl].spOut, i, NULL}
    BY <2>3 DEF ThreadRecords, Points, CallStandby
  <2>5. Points(me) \subseteq Points(th[Ctl]) \union {hw.mOutput, NULL} \union hw.mInputs
    BY <2>2, <2>4 DEF Points
  <2> HIDE DEF me
  <2> QED BY <1>1, <2>1, <2>4, <2>5, DevCall
<1> QED BY <1>2, <1>3, <1>4, <1>5, <1>6

(* The lists, and the flag of an input, may change. *)
LEMMA DevClose ==
  ASSUME TypeInv, DevInv,
         \/ CloseOutputStream
         \/ \E i \in Inputs : CloseInputStream(i) \/ ChangeAec(i)
  PROVE  Moved
<1> DEFINE c == Use(hw, th[Ctl])
           ex == Excused(th[Playback])
<1>1. /\ hw \in Hw /\ Data(hw, c, alive, ex)
      /\ Playback \in Threads /\ Ctl \in Threads /\ Inputs \subseteq Threads
  BY DevFacts DEF Threads
<1>2. ASSUME NEW h \in Hw, SamePcm(h, hw), SameMixer(h, hw), h.standby = hw.standby,
             h.current = hw.current, h.echo = hw.echo,
             h.mEchoReference = hw.mEchoReference, h.mOutput \in {hw.mOutput, NULL},
             h.mOutput = hw.mOutput \/ "close" \in Calls,
             \/ h.needEcho = hw.needEcho
             \/ "aec" \in Calls
      PROVE  Data(h, c, alive, ex)
  <2>1. Counted(h, c)
    BY <1>1, <1>2, CountedSame DEF Data
  <2>2. Closed(h, alive, ex)
    BY <1>1, <1>2 DEF Data, Closed, SamePcm, SameMixer
  <2>3. Echoes(h)
    BY <1>1, <1>2 DEF Data, Echoes
  <2> QED BY <2>1, <2>2, <2>3 DEF Data
<1>3. CASE CloseOutputStream
  <2> DEFINE i  == IF hw.mEchoReference = NULL THEN NULL ELSE getActiveInput_l(hw)
             me == [th[Playback] EXCEPT !.spOut = hw.mOutput, !.spIn = i]
             h  == [hw EXCEPT !.mOutput = NULL]
             m  == IF i # NULL THEN CallStandby(me, i, "c_dropOut")
                   ELSE [me EXCEPT !.pc = "c_dropOut"]
  <2>1. Step(Playback, {}, {}, h, m) /\ UNCHANGED alive /\ th[Playback].pc = "idle"
        /\ "close" \in Calls
    BY <1>3 DEF CloseOutputStream, At
  <2>2. i # NULL => i \in hw.mInputs
    BY <1>1, ActiveInputType
  <2> HIDE DEF i
  <2>3. /\ th[Playback] \in ThreadRecords /\ ~Kills(th[Playback])
        /\ th[Playback].dOut = NULL
    BY <1>1, <2>1, DevIdle
  <2>4. /\ m.pc \in {"s_lock", "c_dropOut"} /\ m.op # "destroy"
        /\ m.resume = th[Playback].resume
        /\ m.dOut = NULL /\ m.spOut = hw.mOutput /\ m.spIn = i
    BY <2>3 DEF ThreadRecords, CallStandby, Kills
  <2>5. Points(m) \subseteq
          Points(th[Playback]) \union {hw.mOutput, NULL} \union hw.mInputs
    BY <2>2, <2>4 DEF Points
  <2>6. /\ h \in Hw /\ SamePcm(h, hw) /\ SameMixer(h, hw)
        /\ h.standby = hw.standby /\ h.current = hw.current /\ h.echo = hw.echo
        /\ h.mEchoReference = hw.mEchoReference /\ h.mOutput = NULL
        /\ h.needEcho = hw.needEcho /\ h.mInputs = hw.mInputs
        /\ h.wakeLock = hw.wakeLock
        /\ h.mInCallAudioMode = hw.mInCallAudioMode
    BY <1>1 DEF Hw, HwRecords, SamePcm, SameMixer
  <2> HIDE DEF h, m
  <2>7. Data(h, c, alive, ex)
    BY <1>2, <2>1, <2>6
  <2> QED BY <1>1, <2>1, <2>4, <2>5, <2>6, <2>7, DevCall
<1>4. ASSUME NEW i \in Inputs, CloseInputStream(i)
      PROVE  Moved
  <2> DEFINE me == [th[i] EXCEPT !.pc = "c_dropIn", !.spIn = i]
             h  == [hw EXCEPT !.mInputs = @ \ {i}]
  <2>1. /\ Step(i, {}, {}, h, me) /\ UNCHANGED alive /\ th[i].pc = "idle"
        /\ i \in hw.mInputs /\ "close" \in Calls
    BY <1>4 DEF CloseInputStream, At
  <2>3. th[i] \in ThreadRecords /\ ~Kills(th[i]) /\ th[i].dOut = NULL
    BY <1>1, <2>1, DevIdle
  <2>4. /\ me.pc = "c_dropIn" /\ me.op # "destroy" /\ me.resume = th[i].resume
        /\ me.dOut = NULL /\ me.spOut = th[i].spOut /\ me.spIn = i
    BY <2>3 DEF ThreadRecords, Kills
  <2>5. Points(me) \subseteq Points(th[i]) \union {hw.mOutput, NULL} \union hw.mInputs
    BY <2>1, <2>4 DEF Points
  <2>6. /\ h \in Hw /\ SamePcm(h, hw) /\ SameMixer(h, hw)
        /\ h.standby = hw.standby /\ h.current = hw.current /\ h.echo = hw.echo
        /\ h.mEchoReference = hw.mEchoReference /\ h.mOutput = hw.mOutput
        /\ h.needEcho = hw.needEcho /\ h.mInputs = hw.mInputs \ {i}
        /\ h.wakeLock = hw.wakeLock
        /\ h.mInCallAudioMode = hw.mInCallAudioMode
    BY <1>1 DEF Hw, HwRecords, SamePcm, SameMixer
  <2> HIDE DEF h, me
  <2>7. Data(h, c, alive, ex)
    BY <1>2, <2>6
  <2> QED BY <1>1, <2>1, <2>4, <2>5, <2>6, <2>7, DevCall
<1>5. ASSUME NEW i \in Inputs, ChangeAec(i)
      PROVE  Moved
  <2> DEFINE me == CallStandby(th[Ctl], i, "idle")
             h  == [hw EXCEPT !.needEcho[i] = ~@]
  <2>1. /\ Step(Ctl, {}, {}, h, me) /\ UNCHANGED alive /\ th[Ctl].pc = "idle"
        /\ "aec" \in Calls
    BY <1>5 DEF ChangeAec, At
  <2>3. th[Ctl] \in ThreadRecords /\ th[Ctl].dOut = NULL
    BY <1>1, <2>1, DevIdle
  <2>4. /\ me.pc = "s_lock" /\ me.op # "destroy" /\ me.resume = th[Ctl].resume
        /\ me.dOut = NULL /\ Points(me) = Points(th[Ctl])
    BY <2>3 DEF ThreadRecords, CallStandby, Points
  <2>6. /\ h \in Hw /\ SamePcm(h, hw) /\ SameMixer(h, hw)
        /\ h.standby = hw.standby /\ h.current = hw.current /\ h.echo = hw.echo
        /\ h.mEchoReference = hw.mEchoReference /\ h.mOutput = hw.mOutput
        /\ h.mInputs = hw.mInputs /\ h.wakeLock = hw.wakeLock
        /\ h.mInCallAudioMode = hw.mInCallAudioMode
    BY <1>1 DEF Hw, HwRecords, SamePcm, SameMixer
  <2> HIDE DEF h, me
  <2>7. Data(h, c, alive, ex)
    BY <1>2, <2>1, <2>6
  <2> QED BY <1>1, <2>1, <2>4, <2>6, <2>7, DevCall
<1> QED BY <1>3, <1>4, <1>5

-------------------------------------------------------------------------------
(* write() *)

(* write() opens the output, and the input that it closed for it; that it    *)
(* cannot open again is put in standby, or waited for.                       *)
LEMMA DevWriteOpen ==
  ASSUME TypeInv, DevInv, UNCHANGED alive, th[Playback].pc \in {"w_hw", "w_hw2"},
         Free(HW), NEW h, NEW i \in Inputs \union {NULL}, NEW given,
         \A l \in given : l \in Inputs /\ owner[l] = Playback,
         Data(h, Use(hw, th[Ctl]), alive, IF i = NULL THEN {} ELSE {i}),
         Alike(h, hw, {i}), h.standby = hw.standby, Meek => h.wakeLock,
         i # NULL => /\ owner[i] = Playback /\ i \in alive /\ i = th[Playback].spIn
                     /\ ~h.mixer[i] /\ ~h.standby[i]
                     /\ \A j \in Inputs \ {i} : ~h.pcm[j],
         WriteOpen(h, i, given)
  PROVE  Moved
<1>1. PICK pcmOk, inOk \in Answers("pcm"), mixOk, inMixOk \in Answers("mixer") :
        LET o == h.mOutput
            g == OutOpen(h, o, pcmOk, mixOk)
            k == IF i = NULL THEN g ELSE InOpen(g, i, inOk, inMixOk)
            failed == i # NULL /\ ~k.pcm[i]
            n  == IF failed THEN InDoStandby(k, i) ELSE k
            me == [th[Playback] EXCEPT !.spIn = NULL]
        IN  IF failed /\ NeedsOutputLock(k, i)
            THEN WaitForOutput(Playback, given, k, i, "w_fail")
            ELSE IF n.pcm[o]
            THEN Step(Playback, {}, given \union {i},
                      [n EXCEPT !.standby[o] = FALSE], [me EXCEPT !.pc = "w_pcm"])
            ELSE Step(Playback, {}, given \union {i, o},
                      [n EXCEPT !.wakeLock = FALSE], CallStandby(me, o, "idle"))
  BY DEF WriteOpen
<1> DEFINE o == h.mOutput
           c == Use(hw, th[Ctl])
           g == OutOpen(h, o, pcmOk, mixOk)
           k == IF i = NULL THEN g ELSE InOpen(g, i, inOk, inMixOk)
           failed == i # NULL /\ ~k.pcm[i]
           n  == IF failed THEN InDoStandby(k, i) ELSE k
           me == [th[Playback] EXCEPT !.spIn = NULL]
           w  == [me EXCEPT !.pc = "w_pcm"]
           x  == [n EXCEPT !.standby[o] = FALSE]
           y  == [n EXCEPT !.wakeLock = FALSE]
           z  == CountStandby(k, i)
           q  == [th[Playback] EXCEPT !.pc = "d_out", !.dOut = k.mOutput,
                                      !.target = i, !.resume = "w_fail"]
<1>2. \/ /\ failed /\ NeedsOutputLock(k, i)
         /\ Step(Playback, {}, given \union {i}, z, q)
      \/ /\ ~(failed /\ NeedsOutputLock(k, i)) /\ n.pcm[o]
         /\ Step(Playback, {}, given \union {i}, x, w)
      \/ /\ ~(failed /\ NeedsOutputLock(k, i)) /\ ~n.pcm[o]
         /\ Step(Playback, {}, given \union {i, o}, y, CallStandby(me, o, "idle"))
  BY <1>1 DEF WaitForOutput
<1> HIDE DEF o, c, g, k, n, me, w, x, y, z, q
<1>3. /\ Playback \in Threads /\ th[Playback] \in ThreadRecords /\ hw \in Hw
      /\ Control(Playback, th[Playback], hw.mOutput, owner[HW] = Playback)
      /\ Own(Playback, th[Playback], hw.mOutput, Mine(Playback))
      /\ Route(Playback, th[Playback], hw) /\ Knows(Playback, th[Playback], hw)
      /\ ~Kills(th[Playback]) /\ LiveInv /\ c \in Nat
  BY DevFacts, UseType DEF Threads, Waiting, DevInv, c
<1>4. /\ th[Playback].resume \notin Calling /\ th[Playback].dOut = NULL
      /\ ~Stuck(th[Playback]) /\ Playback # Ctl
  BY <1>3, ThreadAssumption DEF Route, Calling, Waiting, Stuck
<1>0. SameStreams(h, hw) /\ h.mInCallAudioMode = hw.mInCallAudioMode
  BY DEF Alike
<1>5. /\ o = hw.mOutput /\ o \in Outputs /\ o \in Streams /\ o \in Locks /\ o # NULL
      /\ o \notin Inputs /\ owner[o] = Playback /\ o \in alive /\ h.standby[o]
      /\ i \in Inputs => i \in Streams /\ i # NULL
      /\ i = NULL => i \notin Locks
  <2>1. o = hw.mOutput /\ o \in Outputs
    BY <1>0, <1>3 DEF Control, SameStreams, o
  <2>2. o \in Mine(Playback) /\ h.standby[o]
    BY <1>3, <2>1 DEF Own, Knows
  <2>3. o # NULL /\ o \notin Inputs /\ o \in Streams /\ o \in Locks
    BY <2>1, StreamAssumption DEF Streams, Locks
  <2>4. o \in alive
    BY <1>3, <2>1, <2>3 DEF LiveInv
  <2> QED BY <2>1, <2>2, <2>3, <2>4, StreamAssumption, ThreadAssumption
          DEF Mine, Streams, Locks
<1>6. /\ Data(g, c, alive, (IF i = NULL THEN {} ELSE {i}) \union {o})
      /\ Alike(g, h, {o}) /\ SamePlay(g, h)
  <2>1. ~h.pcm[o] /\ ~h.mixer[o]
    BY <1>5 DEF Data, Closed
  <2>2. Data(h, c, alive, IF i = NULL THEN {} ELSE {i})
    BY DEF c
  <2> QED BY <1>3, <1>5, <2>1, <2>2, OutOpenData DEF g
<1>7. /\ Data(k, c, alive, (IF i = NULL THEN {} ELSE {i}) \union {o})
      /\ SamePlay(k, g) /\ Alike(k, g, {i})
      /\ i # NULL /\ "pcm" \notin Faults => k.pcm[i]
  <2>1. CASE i = NULL
    BY <1>6, <2>1, SameTrans, AlikeMore DEF k
  <2>2. CASE i # NULL
    <3>1. i \in Inputs \intersect alive /\ ~g.mixer[i] /\ \A j \in Inputs \ {i} : ~g.pcm[j]
      BY <1>5, <1>6, <2>2 DEF Alike, Streams
    <3>2. k = InOpen(g, i, inOk, inMixOk)
      BY <2>2 DEF k
    <3>3. /\ Data(k, c, alive, (IF i = NULL THEN {} ELSE {i}) \union {o} \union {i})
          /\ SamePlay(k, g) /\ Alike(k, g, {i})
          /\ "pcm" \notin Faults /\ (\A j \in Inputs \ {i} : ~g.pcm[j]) => k.pcm[i]
      <4>1. Data(g, c, alive, {i} \union {o})
        BY <1>6, <2>2
      <4>2. Data(k, c, alive, {i} \union {o} \union {i})
        BY <1>3, <3>1, <3>2, <4>1, InOpenData
      <4> QED BY <1>3, <2>2, <3>1, <3>2, <4>1, <4>2, InOpenData
    <3>4. {i} \union {o} \union {i} = {i} \union {o}
      OBVIOUS
    <3> QED BY <2>2, <3>1, <3>3, <3>4
  <2> QED BY <2>1, <2>2
<1>8. /\ k.mOutput = o /\ k.mInputs = hw.mInputs
      /\ k.mInCallAudioMode = hw.mInCallAudioMode /\ k.standby = hw.standby
  BY <1>0, <1>5, <1>6, <1>7 DEF SamePlay, SameHal, SameStreams
<1>13. Alike(k, hw, {i, o}) /\ (k.wakeLock <=> h.wakeLock)
  <2>1. Alike(k, hw, {i} \union ({o} \union {i}))
    BY <1>6, <1>7, AlikeTrans
  <2>2. {i} \union ({o} \union {i}) = {i, o}
    OBVIOUS
  <2> QED BY <1>6, <1>7, <2>1, <2>2 DEF SamePlay
<1>14. ASSUME NEW a, Alike(a, hw, {i, o}), i \in Inputs /\ hw.standby[i] => a.standby[i]
       PROVE  Touch(Playback, a)
  <2>1. \A s \in {i, o} \intersect Streams : owner[s] = Playback
    BY <1>5, StreamAssumption
  <2>2. \A j \in Inputs \ {Playback} : hw.standby[j] => a.standby[j]
    BY <1>5, <1>14 DEF Alike, Streams
  <2> QED BY <1>14, <2>1, <2>2, TouchOwned
<1>9. ~Kills(q) /\ ~Kills(w) /\ ~Kills(CallStandby(me, o, "idle"))
  BY <1>3 DEF ThreadRecords, CallStandby, Kills, q, w, me
<1>10. Hands(Playback, {}, given \union {i})
       /\ Hands(Playback, {}, given \union {i, o})
  BY <1>5 DEF Hands
<1>11. CASE /\ failed /\ NeedsOutputLock(k, i)
            /\ Step(Playback, {}, given \union {i}, z, q)
  <2>1. i # NULL /\ i \in Inputs /\ "pcm" \in Faults
    BY <1>7, <1>11
  <2>2. "aec" \in Calls
    <3>1. k.echo[i] # NULL /\ i \in Streams
      BY <1>5, <1>11, <2>1 DEF NeedsOutputLock
    <3> QED BY <1>7, <3>1 DEF Data, Echoes
  <2>3. Data(z, c, alive, {i} \union {o}) /\ Alike(z, k, {}) /\ SameHal(z, k)
    BY <1>3, <1>7, <2>1, CountStandbyData DEF z
  <2>4. /\ q.pc = "d_out" /\ q.dOut = o /\ q.target = i /\ q.resume = "w_fail"
        /\ q.spOut = th[Playback].spOut /\ q.spIn = i
    BY <1>3, <1>8, <2>1 DEF ThreadRecords, q
  <2>5. /\ z.mOutput = o /\ z.mInputs = hw.mInputs
        /\ z.mInCallAudioMode = hw.mInCallAudioMode
        /\ \A s \in Streams : z.standby[s] <=> hw.standby[s]
    BY <1>8, <2>3 DEF SameHal, SameStreams, Alike
  <2>6. Own(Playback, q, z.mOutput, Has(Playback, {}, given \union {i}))
    BY <1>5, <2>1, <2>4 DEF Own, Waiting, Calling, Stuck, Has
  <2>7. Route(Playback, q, z) /\ Knows(Playback, q, z)
    BY <1>9, <2>1, <2>2, <2>4, <2>5 DEF Route, Knows, Waiting, Calling
  <2>8. Touch(Playback, z) /\ Rings(z, q)
    <3>1. {} \union {i, o} = {i, o}
      OBVIOUS
    <3>2. Alike(z, hw, {i, o})
      BY <1>13, <2>3, <3>1, AlikeTrans
    <3>3. Touch(Playback, z)
      BY <1>5, <1>14, <2>1, <2>5, <3>2
    <3> QED BY <2>1, <2>2, <3>3 DEF Rings, Meek
  <2>9. Keep(Playback, z, q)
    BY <1>5, <1>9, <2>1, <2>4, <2>5 DEF Keep, Points
  <2>10. Data(z, Use(z, Now(Playback, q, Ctl)), alive,
              Excused(Now(Playback, q, Playback)))
    <3>1. Use(z, Now(Playback, q, Ctl)) = c
      BY <1>4, <2>5 DEF Use, Now, c
    <3>2. Excused(Now(Playback, q, Playback)) = {o, i}
      BY <2>4 DEF Excused, Stuck, Now
    <3>3. {i} \union {o} = {o, i}
      OBVIOUS
    <3> QED BY <2>3, <3>1, <3>2, <3>3
  <2> QED BY <1>3, <1>10, <1>11, <2>4, <2>6, <2>7, <2>8, <2>9, <2>10, DevStep
          DEF Local
<1>12. CASE ~(failed /\ NeedsOutputLock(k, i))
  <2>1. /\ Data(n, c, alive, {o}) /\ SameHal(n, k) /\ Alike(n, k, {i})
        /\ n.wakeLock <=> k.wakeLock
        /\ \A s \in Streams \ {i} : n.standby[s] <=> k.standby[s]
        /\ i \in Inputs /\ k.standby[i] => n.standby[i]
    <3>1. CASE i = NULL
      <4>1. n = k
        BY <3>1 DEF n
      <4> QED BY <1>7, <3>1, <4>1, SameTrans, AlikeMore
    <3>2. CASE i # NULL /\ ~failed
      <4>1. n = k /\ i \in Streams /\ i # o /\ k.pcm[i] /\ ~k.standby[i]
        BY <1>5, <1>8, <3>2 DEF n
      <4>2. Data(k, c, alive, ({i} \union {o}) \ {i})
        BY <1>7, <3>2, <4>1, DataMore
      <4>3. ({i} \union {o}) \ {i} = {o}
        BY <4>1
      <4> QED BY <4>1, <4>2, <4>3, SameTrans, AlikeMore
    <3>3. CASE failed
      <4>1. (n = InDoStandby(k, i) \/ n = InFinishStandby(k, i)) /\ i \in Inputs
        BY <3>3 DEF n
      <4>2. /\ Data(n, c, alive, ({i} \union {o}) \ {i}) /\ Alike(n, k, {i})
            /\ SameHal(n, k) /\ n.standby[i] /\ n.wakeLock = k.wakeLock
        <5>1. Data(k, c, alive, {i} \union {o})
          BY <1>7, <3>3
        <5>2. c \in Nat /\ i \in Inputs
          BY <1>3, <4>1
        <5> DEFINE e == {i} \union {o}
        <5>3. Data(k, c, alive, e)
          BY <5>1
        <5> HIDE DEF e, failed
        <5>4. /\ Data(n, c, alive, e \ {i}) /\ Alike(n, k, {i})
              /\ SameHal(n, k) /\ n.standby[i] /\ n.wakeLock = k.wakeLock
          <6>1. n = InDoStandby(k, i)
            BY <3>3 DEF n, failed
          <6> QED BY <5>2, <5>3, <6>1, InStandbyData DEF Aside
        <5> QED BY <5>4 DEF e
      <4>3. ({i} \union {o}) \ {i} = {o}
        BY <1>5, <4>1
      <4> QED BY <4>2, <4>3 DEF Alike
    <3> QED BY <3>1, <3>2, <3>3
  <2>2. /\ n.mOutput = o /\ n.mInputs = hw.mInputs
        /\ n.mInCallAudioMode = hw.mInCallAudioMode
        /\ \A s \in Streams \ {i} : n.standby[s] <=> hw.standby[s]
        /\ i \in Inputs /\ hw.standby[i] => n.standby[i]
        /\ Alike(n, hw, {i, o}) /\ (n.wakeLock <=> h.wakeLock)
    <3>1. {i} \union {i, o} = {i, o}
      OBVIOUS
    <3>2. Alike(n, hw, {i, o})
      BY <1>13, <2>1, <3>1, AlikeTrans
    <3> QED BY <1>8, <1>13, <2>1, <3>2 DEF SameHal, SameStreams
  <2>3. CASE n.pcm[o] /\ Step(Playback, {}, given \union {i}, x, w)
    <3>1. /\ Data(x, c, alive, {o} \ {o}) /\ Alike(x, n, {o}) /\ SameHal(x, n)
          /\ ~x.standby[o] /\ x.wakeLock = n.wakeLock
      <4>1. o \in Streams /\ o \notin Inputs /\ n.pcm[o] /\ Data(n, c, alive, {o})
        BY <1>5, <2>1, <2>3
      <4> QED BY <1>3, <4>1, StartData DEF x
    <3>2. /\ x.mOutput = o /\ x.mInputs = hw.mInputs
          /\ x.mInCallAudioMode = hw.mInCallAudioMode
          /\ \A s \in Streams \ {i, o} : x.standby[s] <=> hw.standby[s]
          /\ i \in Inputs /\ hw.standby[i] => x.standby[i]
      BY <1>5, <2>2, <3>1 DEF SameHal, SameStreams, Alike
    <3>3. /\ w.pc = "w_pcm" /\ w.dOut = NULL /\ w.resume = th[Playback].resume
          /\ w.spOut = th[Playback].spOut /\ w.spIn = NULL
      BY <1>3, <1>4 DEF ThreadRecords, w, me
    <3>4. Own(Playback, w, x.mOutput, Has(Playback, {}, given \union {i}))
      BY <1>5, <3>2, <3>3 DEF Own, Waiting, Calling, Stuck, Has
    <3>5. Route(Playback, w, x) /\ Knows(Playback, w, x)
      BY <1>4, <3>1, <3>2, <3>3 DEF Route, Knows, Waiting, Calling
    <3>6. Touch(Playback, x) /\ Rings(x, w)
      <4>1. {o} \union {i, o} = {i, o}
        OBVIOUS
      <4>2. Alike(x, hw, {i, o})
        BY <2>2, <3>1, <4>1, AlikeTrans
      <4>3. Touch(Playback, x)
        BY <1>14, <3>2, <4>2
      <4>4. Meek => Wake(x, w)
        BY <1>5, <2>2, <3>1 DEF Wake
      <4> QED BY <4>3, <4>4 DEF Rings
    <3>7. Keep(Playback, x, w)
      BY <1>5, <1>9, <3>2, <3>3 DEF Keep, Points
    <3>8. Data(x, Use(x, Now(Playback, w, Ctl)), alive,
               Excused(Now(Playback, w, Playback)))
      <4>1. Use(x, Now(Playback, w, Ctl)) = c
        BY <1>4, <3>2 DEF Use, Now, c
      <4>2. Excused(Now(Playback, w, Playback)) = {o} \ {o}
        BY <3>3, NotStuck DEF Now
      <4> QED BY <3>1, <4>1, <4>2
    <3> QED BY <1>3, <1>10, <2>3, <3>3, <3>4, <3>5, <3>6, <3>7, <3>8, DevStep
            DEF Local
  <2>4. CASE ~n.pcm[o]
             /\ Step(Playback, {}, given \union {i, o}, y, CallStandby(me, o, "idle"))
    <3> DEFINE m == CallStandby(me, o, "idle")
    <3>1. /\ Data(y, c, alive, {o}) /\ Alike(y, n, {}) /\ SameHal(y, n)
          /\ y.standby = n.standby /\ y.pcm = n.pcm /\ ~y.wakeLock
      BY <1>3, <2>1, ModeData DEF y, Modes
    <3>2. Data(y, c, alive, {o} \ {o})
      BY <1>5, <2>2, <2>4, <3>1, DataMore
    <3>3. /\ y.mOutput = o /\ y.mInputs = hw.mInputs
          /\ y.mInCallAudioMode = hw.mInCallAudioMode
          /\ \A s \in Streams \ {i} : y.standby[s] <=> hw.standby[s]
          /\ i \in Inputs /\ hw.standby[i] => y.standby[i]
      BY <2>2, <3>1 DEF SameHal, SameStreams
    <3>4. /\ m.pc = "s_lock" /\ m.dOut = NULL /\ m.resume = th[Playback].resume
          /\ m.spOut = th[Playback].spOut /\ m.spIn = NULL
      BY <1>3, <1>4 DEF ThreadRecords, CallStandby, me
    <3>9. ~Kills(m)
      BY <1>9
    <3> HIDE DEF m
    <3>5. Local(Playback, m, y, Has(Playback, {}, given \union {i, o}))
      BY <1>4, <3>4 DEF Local, Own, Route, Knows, Waiting, Calling, Stuck
    <3>6. Touch(Playback, y) /\ Rings(y, m)
      <4>1. {} \union {i, o} = {i, o}
        OBVIOUS
      <4>2. Alike(y, hw, {i, o})
        BY <2>2, <3>1, <4>1, AlikeTrans
      <4>3. Touch(Playback, y)
        BY <1>14, <3>3, <4>2
      <4>4. "close" \notin Calls => \A p \in Outputs : y.standby[p]
        <5> SUFFICES ASSUME "close" \notin Calls, NEW p \in Outputs
                     PROVE  y.standby[p]
          OBVIOUS
        <5>1. hw.standby[p]
          BY <1>5, OnePlays
        <5>2. p \in Streams \ {i}
          BY <1>5, StreamAssumption DEF Streams
        <5> QED BY <3>3, <5>1, <5>2
      <4>5. Meek => Wake(y, m)
        BY <3>1, <3>4, <4>4 DEF Wake, Up, Meek
      <4> QED BY <4>3, <4>5 DEF Rings
    <3>7. Keep(Playback, y, m)
      BY <1>5, <3>3, <3>4, <3>9 DEF Keep, Points
    <3>8. Data(y, Use(y, Now(Playback, m, Ctl)), alive,
               Excused(Now(Playback, m, Playback)))
      <4>1. Use(y, Now(Playback, m, Ctl)) = c
        BY <1>4, <3>3 DEF Use, Now, c
      <4>2. Excused(Now(Playback, m, Playback)) = {o} \ {o}
        BY <3>4, NotStuck DEF Now
      <4> QED BY <3>2, <4>1, <4>2
    <3>10. Step(Playback, {}, given \union {i, o}, y, m)
      BY <2>4 DEF m
    <3> QED BY <1>3, <1>10, <3>4, <3>5, <3>6, <3>7, <3>8, <3>10, DevStep
  <2> QED BY <1>2, <1>12, <2>3, <2>4
<1> QED BY <1>2, <1>11, <1>12

(* It looks for the active input, with the output's mutex only. *)
LEMMA DevWriteSearch ==
  ASSUME TypeInv, DevInv, UNCHANGED alive, th[Playback].pc \in {"w_hw", "w_hw2"},
         Free(HW), NEW h, NEW given,
         \A l \in given : l \in Inputs /\ owner[l] = Playback,
         Data(h, Use(hw, th[Ctl]), alive, {}), SameHal(h, hw),
         Alike(h, hw, {}), h.standby = hw.standby, Meek => h.wakeLock,
         WriteSearch(h, given)
  PROVE  Moved
<1> DEFINE i  == getActiveInput_l(h)
           k  == PrepareLock(h, Playback, i)
           me == [th[Playback] EXCEPT !.pc = "w_in", !.spIn = i]
           c  == Use(hw, th[Ctl])
<1>1. /\ Playback \in Threads /\ th[Playback] \in ThreadRecords /\ hw \in Hw
      /\ Control(Playback, th[Playback], hw.mOutput, owner[HW] = Playback)
      /\ Own(Playback, th[Playback], hw.mOutput, Mine(Playback))
      /\ Route(Playback, th[Playback], hw) /\ Knows(Playback, th[Playback], hw)
      /\ ~Kills(th[Playback]) /\ c \in Nat /\ h \in Hw
  BY DevFacts, UseType DEF Threads, Waiting, Data, Counted
<1>2. /\ th[Playback].resume \notin Calling /\ th[Playback].dOut = NULL
      /\ ~Stuck(th[Playback]) /\ Playback # Ctl
  BY <1>1, ThreadAssumption DEF Route, Calling, Waiting, Stuck
<1>3. /\ i \in Inputs \union {NULL} /\ (i # NULL => i \in hw.mInputs)
      /\ NULL \notin Inputs /\ Inputs \intersect Outputs = {} /\ NULL \notin Outputs
  BY <1>1, ActiveInputType, StreamAssumption DEF SameHal, SameStreams, Streams
<1>4. /\ i = NULL => WriteOpen(h, NULL, given)
      /\ i # NULL => Step(Playback, {}, given, k, me)
  BY DEF WriteSearch
<1> HIDE DEF i, c
<1>5. CASE i = NULL
  <2>1. WriteOpen(h, NULL, given)
    BY <1>4, <1>5
  <2>2. Data(h, Use(hw, th[Ctl]), alive, IF NULL = NULL THEN {} ELSE {NULL})
    OBVIOUS
  <2>3. Alike(h, hw, {NULL})
    <3>1. {} \union {NULL} = {NULL}
      OBVIOUS
    <3> QED BY <3>1, AlikeMore
  <2> QED BY <2>1, <2>2, <2>3, DevWriteOpen
<1>6. CASE i # NULL
  <2>1. Step(Playback, {}, given, k, me)
    BY <1>4, <1>6
  <2>2. /\ Data(k, c, alive, {}) /\ SameHal(k, h) /\ k.standby = h.standby
        /\ Alike(k, h, {}) /\ k.wakeLock = h.wakeLock
    <3>1. /\ i \in Streams \union {NULL} /\ i \notin Outputs
          /\ Data(h, c, alive, {})
      BY <1>3 DEF Streams, c
    <3>2. k = [h EXCEPT !.current[Playback] = i]
      BY DEF PrepareLock
    <3> HIDE DEF k
    <3> QED BY <1>1, <3>1, <3>2, PrepareData
  <2> HIDE DEF k
  <2>3. /\ SameHal(k, hw) /\ k.standby = hw.standby
    BY <2>2, SameTrans
  <2>4. /\ me.pc = "w_in" /\ me.dOut = NULL /\ me.resume = th[Playback].resume
        /\ me.spOut = th[Playback].spOut /\ me.spIn = i /\ me.op = th[Playback].op
    BY <1>1, <1>2 DEF ThreadRecords
  <2> HIDE DEF me
  <2>5. /\ hw.mOutput \in Mine(Playback) /\ hw.mOutput \notin given
        /\ hw.standby[hw.mOutput]
    BY <1>1, <1>3 DEF Own, Knows, Control
  <2>6. Local(Playback, me, k, Has(Playback, {}, given))
    BY <1>2, <2>3, <2>4, <2>5 DEF Local, Own, Route, Knows, Waiting, Calling, Stuck,
                                  Has, Mine, SameHal, SameStreams
  <2>7. Touch(Playback, k) /\ Hands(Playback, {}, given) /\ Rings(k, me)
    <3>1. {} \union {} = {}
      OBVIOUS
    <3>2. Alike(k, hw, {})
      BY <2>2, <3>1, AlikeTrans
    <3>3. Touch(Playback, k)
      BY <2>3, <3>2, TouchOwned
    <3>4. Meek => Wake(k, me)
      BY <2>2, <2>4 DEF Wake, Up
    <3> QED BY <3>3, <3>4 DEF Rings, Hands
  <2>8. Keep(Playback, k, me)
    BY <1>1, <1>3, <1>6, <2>3, <2>4 DEF Keep, Points, Kills, SameHal, SameStreams
  <2>9. Data(k, Use(k, Now(Playback, me, Ctl)), alive,
             Excused(Now(Playback, me, Playback)))
    <3>1. Use(k, Now(Playback, me, Ctl)) = c
      BY <1>2, <2>3 DEF Use, Now, SameHal, c
    <3>2. Excused(Now(Playback, me, Playback)) = {}
      BY <2>4, NotStuck DEF Now
    <3> QED BY <2>2, <3>1, <3>2
  <2> QED BY <1>1, <2>1, <2>4, <2>6, <2>7, <2>8, <2>9, DevStep
<1> QED BY <1>5, <1>6

(* The steps of write(). *)
LEMMA DevWrite ==
  ASSUME TypeInv, DevInv, WriteStep
  PROVE  Moved
<1> DEFINE t == Playback
<1>1. /\ t \in Threads /\ th[t] \in ThreadRecords /\ hw \in Hw
      /\ Control(t, th[t], hw.mOutput, owner[HW] = t)
      /\ Own(t, th[t], hw.mOutput, Mine(t))
      /\ Route(t, th[t], hw) /\ Knows(t, th[t], hw)
      /\ Data(hw, Use(hw, th[Ctl]), alive, Excused(th[Playback]))
      /\ UNCHANGED alive /\ NULL \notin Streams
  BY DevFacts, StreamAssumption
     DEF Threads, WriteStep, WriteLock, WriteHw, WriteIn, WriteRecheck, WritePcm
<1>2. /\ th[t].pc \in {"w_out", "w_hw", "w_in", "w_hw2", "w_pcm"}
      /\ hw.mOutput \in Outputs /\ hw.mOutput \in Locks /\ hw.mOutput # NULL
  <2>1. th[t].pc \in {"w_out", "w_hw", "w_in", "w_hw2", "w_pcm"}
    BY DEF WriteStep, WriteLock, WriteHw, WriteIn, WriteRecheck, WritePcm, At
  <2>2. hw.mOutput \in Outputs
    BY <1>1, <2>1 DEF Control
  <2> QED BY <1>1, <2>1, <2>2 DEF Locks, Streams
<1>3. /\ th[t].resume \notin Calling /\ th[t].dOut = NULL /\ ~Stuck(th[t])
      /\ ~Kills(th[t]) /\ t # Ctl /\ Excused(th[t]) = {}
  BY <1>1, <1>2, ThreadAssumption, DevFacts, NotStuck
     DEF Route, Calling, Waiting, Stuck
<1>4. Data(hw, Use(hw, th[Ctl]), alive, {}) /\ SameHal(hw, hw)
  BY <1>1, <1>3, SameTrans
<1>5. CASE WriteLock
  <2> DEFINE o == hw.mOutput
             me == [th[t] EXCEPT !.pc = IF hw.standby[o] THEN "w_hw" ELSE "w_pcm"]
  <2>1. Step(t, {o}, {}, hw, me) /\ Free(o)
    BY <1>5 DEF WriteLock
  <2>2. /\ me.pc = IF hw.standby[o] THEN "w_hw" ELSE "w_pcm"
        /\ me.resume = th[t].resume /\ me.dOut = NULL /\ me.op = th[t].op
        /\ Points(me) = Points(th[t])
    BY <1>1, <1>3 DEF ThreadRecords, Points
  <2> HIDE DEF me
  <2>3. Local(t, me, hw, Has(t, {o}, {}))
    BY <1>2, <1>3, <2>2 DEF Local, Own, Route, Knows, Waiting, Calling, Stuck, Has
  <2>4. Keep(t, hw, me) /\ Hands(t, {o}, {})
    BY <1>3, <2>1, <2>2 DEF Keep, Kills, Hands, Free
  <2>5. ~Up(me) /\ ~Up(th[t])
    BY <1>5, <2>2 DEF WriteLock, At, Up
  <2> QED BY <1>1, <1>3, <2>1, <2>2, <2>3, <2>4, <2>5, DevMove
<1>6. CASE WriteHw
  <2> DEFINE h == [hw EXCEPT !.wakeLock = TRUE]
  <2>1. WriteSearch(h, {}) /\ th[t].pc = "w_hw" /\ Free(HW)
    BY <1>6 DEF WriteHw, At
  <2>2. /\ Data(h, Use(hw, th[Ctl]), alive, {}) /\ SameHal(h, hw)
        /\ h.standby = hw.standby /\ Alike(h, hw, {}) /\ h.wakeLock = TRUE
    <3>1. Use(hw, th[Ctl]) \in Nat
      BY UseType
    <3> QED BY <1>4, <3>1, ModeData DEF Modes
  <2> HIDE DEF h
  <2> QED BY <1>1, <2>1, <2>2, DevWriteSearch
<1>7. CASE WriteIn
  <2> DEFINE i == th[t].spIn
             me == [th[t] EXCEPT !.pc = "w_hw2"]
  <2>1. Step(t, {i}, {}, hw, me) /\ Free(i) /\ th[t].pc = "w_in"
    BY <1>7 DEF WriteIn, At
  <2>2. /\ me.pc = "w_hw2" /\ me.spIn = i
        /\ me.resume = th[t].resume /\ me.dOut = NULL /\ me.op = th[t].op
        /\ Points(me) = Points(th[t])
    BY <1>1, <1>3 DEF ThreadRecords, Points
  <2> HIDE DEF me
  <2>3. i \in Locks
    BY <1>1, <2>1 DEF Control, Locks, Streams
  <2>4. Local(t, me, hw, Has(t, {i}, {}))
    <3>1. hw.mOutput \in Mine(t) /\ hw.standby[hw.mOutput]
      BY <1>1, <2>1 DEF Own, Knows
    <3> QED BY <1>3, <2>2, <2>3, <3>1
            DEF Local, Own, Route, Knows, Waiting, Calling, Stuck, Has, Mine
  <2>5. Keep(t, hw, me) /\ Hands(t, {i}, {})
    BY <1>3, <2>1, <2>2 DEF Keep, Kills, Hands, Free
  <2>6. Up(me) /\ Up(th[t])
    BY <2>1, <2>2 DEF Up
  <2> QED BY <1>1, <1>3, <2>1, <2>2, <2>4, <2>5, <2>6, DevMove
<1>8. CASE WriteRecheck
  <2> DEFINE i == th[t].spIn
  <2>1. th[t].pc = "w_hw2" /\ Free(HW) /\ i \in Inputs /\ i # NULL /\ owner[i] = t
    <3>1. th[t].pc = "w_hw2" /\ Free(HW)
      BY <1>8 DEF WriteRecheck, At
    <3> QED BY <1>1, <3>1 DEF Control, Own, Mine, Streams
  <2>5. Meek => hw.wakeLock
    BY <2>1 DEF DevInv, WakeInv, Wake, Up
  <2>2. CASE Unchanged(t, i, getActiveInput_l(hw))
    <3> DEFINE h == InClose(hw, i)
    <3>1. WriteOpen(h, i, {})
      BY <1>8, <2>2 DEF WriteRecheck
    <3>2. i \in hw.mInputs /\ ~hw.standby[i]
      <4>1. i = getActiveInput_l(hw) /\ i # NULL
        BY <2>1, <2>2 DEF Unchanged
      <4> QED BY <4>1 DEF getActiveInput_l, ActiveInputs
    <3>3. i \in alive
      BY <3>2 DEF DevInv, LiveInv
    <3>4. /\ Data(h, Use(hw, th[Ctl]), alive, {} \union {i}) /\ Alike(h, hw, {i})
          /\ SamePlay(h, hw) /\ ~h.mixer[i]
      <4>1. Use(hw, th[Ctl]) \in Nat /\ i \in Streams
        BY <2>1, UseType DEF Streams
      <4> DEFINE c == Use(hw, th[Ctl])
      <4>2. Data(hw, c, alive, {}) /\ c \in Nat
        BY <1>4, <4>1
      <4> HIDE DEF c
      <4>3. /\ Data(h, c, alive, {} \union {i}) /\ Alike(h, hw, {i})
            /\ SamePlay(h, hw) /\ ~h.mixer[i]
        BY <2>1, <4>1, <4>2, CloseData
      <4> QED BY <4>3 DEF c
    <3> HIDE DEF h
    <3>5. \A j \in Inputs \ {i} : ~h.pcm[j]
      <4> SUFFICES ASSUME NEW j \in Inputs \ {i}
                   PROVE  ~h.pcm[j]
        OBVIOUS
      <4>1. hw.standby[j] /\ j \in Streams
        BY <1>4, <2>1, <3>2 DEF Data, Closed, Streams
      <4>2. ~hw.pcm[j]
        BY <1>4, <4>1 DEF Data, Closed
      <4> QED BY <3>4, <4>1, <4>2 DEF Alike
    <3>6. /\ SameStreams(h, hw) /\ h.mInCallAudioMode = hw.mInCallAudioMode
          /\ h.standby = hw.standby /\ ~h.standby[i] /\ (Meek => h.wakeLock)
      BY <2>5, <3>2, <3>4 DEF SamePlay, SameHal
    <3>7. Data(h, Use(hw, th[Ctl]), alive, IF i = NULL THEN {} ELSE {i})
      <4>1. {} \union {i} = IF i = NULL THEN {} ELSE {i}
        BY <2>1
      <4> QED BY <3>4, <4>1
    <3>8. /\ i \in Inputs \union {NULL} /\ th[Playback].pc \in {"w_hw", "w_hw2"}
          /\ Free(HW) /\ UNCHANGED alive
          /\ i # NULL => /\ owner[i] = Playback /\ i \in alive
                         /\ i = th[Playback].spIn /\ ~h.mixer[i] /\ ~h.standby[i]
                         /\ \A j \in Inputs \ {i} : ~h.pcm[j]
      BY <1>1, <2>1, <3>3, <3>4, <3>5, <3>6
    <3> DEFINE given == {}
    <3>9. /\ WriteOpen(h, i, given) /\ \A l \in given : l \in Inputs /\ owner[l] = Playback
      BY <3>1
    <3> HIDE DEF given
    <3> QED BY <3>4, <3>6, <3>7, <3>8, <3>9, DevWriteOpen
  <2>3. CASE ~Unchanged(t, i, getActiveInput_l(hw)) /\ HeldElsewhere(i, hw, t)
    <3>1. WriteSearch(hw, {i})
      BY <1>8, <2>3 DEF WriteRecheck
    <3>2. Alike(hw, hw, {})
      BY AlikeMore
    <3> QED BY <1>1, <1>4, <2>1, <2>5, <3>1, <3>2, DevWriteSearch
  <2>4. CASE ~Unchanged(t, i, getActiveInput_l(hw)) /\ ~HeldElsewhere(i, hw, t)
    <3> DEFINE me == Destructor([th[t] EXCEPT !.spIn = NULL], i, "w_hw")
    <3>1. Step(t, {HW}, {i}, hw, me)
      BY <1>8, <2>4 DEF WriteRecheck
    <3>2. /\ me.pc = "s_lock" /\ me.target = i /\ me.op = "destroy"
          /\ me.resume = th[t].resume /\ me.dOut = NULL
          /\ me.spOut = th[t].spOut /\ me.spIn = NULL
      BY <1>1, <1>3 DEF ThreadRecords, Destructor
    <3> HIDE DEF me
    <3>3. Local(t, me, hw, Has(t, {HW}, {i})) /\ Hands(t, {HW}, {i})
      BY <1>3, <2>1, <3>2 DEF Local, Own, Route, Knows, Waiting, Calling, Stuck,
                              Hands, Free
    <3>4. Kill(t, hw, me)
      <4>1. th[t].spOut # i
        BY <1>1, <2>1, StreamAssumption DEF ThreadRecords
      <4> QED BY <2>1, <2>4, <3>2, <4>1 DEF Kill, Points, Kills, SameStreams
    <3>5. "close" \in Calls
      <4>1. i \in alive
        <5>1. i \in Points(th[t]) /\ i # NULL
          BY <3>4, <3>2 DEF Kill
        <5> QED BY <1>1, <5>1 DEF DevInv, LiveInv
      <4>2. i # hw.mOutput /\ i \notin hw.mInputs
        BY <2>4 DEF HeldElsewhere
      <4> QED BY <4>1, <4>2 DEF DevInv, LiveInv
    <3> QED BY <1>1, <1>3, <3>1, <3>2, <3>3, <3>4, <3>5, DevMove
  <2> QED BY <2>2, <2>3, <2>4
<1>9. CASE WritePcm
  <2> DEFINE o == hw.mOutput
             me == CallStandby(th[t], o, "idle")
  <2>1. owner[o] = t
    BY <1>1, <1>9 DEF WritePcm, At, Own, Mine
  <2>2. Step(t, {}, {o}, hw, IdleThread) \/ Step(t, {}, {o}, hw, me)
    BY <1>9 DEF WritePcm
  <2>3. Hands(t, {}, {o})
    BY <2>1 DEF Hands
  <2>4. /\ me.pc = "s_lock" /\ me.resume = th[t].resume /\ me.dOut = NULL
        /\ me.op = "standby" /\ Points(me) = Points(th[t])
    BY <1>1, <1>3 DEF ThreadRecords, Points, CallStandby
  <2> HIDE DEF me
  <2>5. Local(t, me, hw, Has(t, {}, {o})) /\ Keep(t, hw, me)
    BY <1>3, <2>4 DEF Local, Own, Route, Knows, Waiting, Calling, Stuck, Keep, Kills
  <2>8. ~Up(me) /\ ~Up(IdleThread) /\ ~Up(th[t])
    BY <1>9, <2>4, IdleLocal DEF WritePcm, At, Up
  <2>6. CASE Step(t, {}, {o}, hw, me)
    BY <1>1, <1>3, <2>3, <2>4, <2>5, <2>6, <2>8, DevMove
  <2>7. CASE Step(t, {}, {o}, hw, IdleThread)
    BY <1>1, <1>3, <2>3, <2>7, <2>8, IdleLocal, DevMove
  <2> QED BY <2>2, <2>6, <2>7
<1> QED BY <1>5, <1>6, <1>7, <1>8, <1>9 DEF WriteStep

-------------------------------------------------------------------------------
(* read() *)

(* read() opens its input, which no other input has open then, or gives up.  *)
LEMMA DevReadOpen ==
  ASSUME TypeInv, DevInv, UNCHANGED alive, NEW i \in Inputs,
         th[i].pc \in {"r_hw", "r_hw2"}, ~Stuck(th[Playback]),
         NEW h, NEW given, \A l \in given : l \in Outputs /\ owner[l] = i,
         Data(h, Use(hw, th[Ctl]), alive, {}),
         SameStreams(h, hw), h.mInCallAudioMode = hw.mInCallAudioMode,
         Touch(i, h), \A j \in Inputs : h.standby[j] <=> hw.standby[j],
         ReadOpen(i, h, given)
  PROVE  Moved
<1>1. PICK pcmOk \in Answers("pcm"), mixOk \in Answers("mixer") :
        LET k  == InOpen(h, i, pcmOk, mixOk)
            me == [th[i] EXCEPT !.spOut = NULL]
        IN  IF k.pcm[i]
            THEN Step(i, {}, given, [k EXCEPT !.standby[i] = FALSE],
                      [me EXCEPT !.pc = "r_pcm"])
            ELSE Step(i, {}, given \union {i}, k, CallStandby(me, i, "idle"))
  BY DEF ReadOpen
<1> DEFINE c == Use(hw, th[Ctl])
           k == InOpen(h, i, pcmOk, mixOk)
           me == [th[i] EXCEPT !.spOut = NULL]
           w  == [me EXCEPT !.pc = "r_pcm"]
           m  == CallStandby(me, i, "idle")
           x  == [k EXCEPT !.standby[i] = FALSE]
<1>2. \/ k.pcm[i] /\ Step(i, {}, given, x, w)
      \/ ~k.pcm[i] /\ Step(i, {}, given \union {i}, k, m)
  BY <1>1
<1> HIDE DEF c, k, me, w, m, x
<1>3. /\ i \in Threads /\ th[i] \in ThreadRecords /\ hw \in Hw
      /\ Own(i, th[i], hw.mOutput, Mine(i))
      /\ Route(i, th[i], hw) /\ Knows(i, th[i], hw)
      /\ ~Kills(th[i]) /\ c \in Nat /\ LiveInv /\ Data(h, c, alive, {})
  BY DevFacts, UseType DEF Threads, Waiting, DevInv, c
<1>4. /\ th[i].resume \notin Calling /\ th[i].dOut = NULL
      /\ i # Ctl /\ i # Playback
  BY <1>3, ThreadAssumption DEF Route, Calling, Waiting
<1>5. /\ i \in hw.mInputs /\ i \in alive /\ i \in Streams /\ owner[i] = i
      /\ h.standby[i] /\ i \notin Outputs /\ i \in Locks
  <2>1. i \in hw.mInputs /\ hw.standby[i] /\ i \in Mine(i)
    BY <1>3 DEF Knows, Own
  <2> QED BY <1>3, <2>1, StreamAssumption DEF LiveInv, Streams, Mine, Locks
<1>6. ~h.mixer[i]
  BY <1>3, <1>5 DEF Data, Closed
<1>7. /\ Data(k, c, alive, {} \union {i}) /\ Alike(k, h, {i}) /\ SamePlay(k, h)
      /\ k.pcm[i] => \A j \in Inputs \ {i} : ~h.pcm[j]
  <2>1. i \in Inputs \intersect alive
    BY <1>5
  <2> QED BY <1>3, <1>6, <2>1, InOpenData DEF k
<1>8. /\ k.mOutput = hw.mOutput /\ k.mInputs = hw.mInputs
      /\ k.mInCallAudioMode = hw.mInCallAudioMode /\ k.standby = h.standby
  BY <1>7 DEF SamePlay, SameHal, SameStreams
<1>9. CASE k.pcm[i] /\ Step(i, {}, given, x, w)
  <2>1. \A j \in Inputs \ {i} : k.standby[j]
    BY <1>3, <1>7, <1>8, <1>9 DEF Data, Closed, Streams
  <2>2. /\ Data(x, c, alive, ({} \union {i}) \ {i}) /\ Alike(x, k, {i})
        /\ SameHal(x, k) /\ ~x.standby[i] /\ x.wakeLock = k.wakeLock
    <3> DEFINE ex == {} \union {i}
    <3>1. Data(k, c, alive, ex) /\ c \in Nat /\ i \in Streams /\ k.pcm[i]
      BY <1>3, <1>5, <1>7, <1>9
    <3> HIDE DEF ex
    <3>2. /\ Data(x, c, alive, ex \ {i}) /\ Alike(x, k, {i})
          /\ SameHal(x, k) /\ ~x.standby[i] /\ x.wakeLock = k.wakeLock
      BY <2>1, <3>1, StartData DEF x
    <3> QED BY <3>2 DEF ex
  <2>3. /\ x.mOutput = hw.mOutput /\ x.mInputs = hw.mInputs
        /\ x.mInCallAudioMode = hw.mInCallAudioMode
        /\ \A s \in Streams \ {i} : x.standby[s] <=> h.standby[s]
    BY <1>8, <2>2 DEF SameHal, SameStreams, Alike
  <2>4. /\ w.pc = "r_pcm" /\ w.dOut = NULL /\ w.resume = th[i].resume
        /\ w.spOut = NULL /\ w.spIn = th[i].spIn /\ w.op = th[i].op
    BY <1>3, <1>4 DEF ThreadRecords, w, me
  <2>5. Own(i, w, x.mOutput, Has(i, {}, given))
    BY <1>5, <2>4 DEF Own, Waiting, Calling, Stuck, Has
  <2>6. Route(i, w, x) /\ Knows(i, w, x)
    BY <1>4, <2>2, <2>4 DEF Route, Knows, Waiting, Calling
  <2>7. Touch(i, x) /\ Hands(i, {}, given)
    <3>1. {i} \union {i} = {i}
      OBVIOUS
    <3>2. Alike(x, h, {i})
      BY <1>7, <2>2, <3>1, AlikeTrans
    <3>3. \A j \in Inputs \ {i} : h.standby[j] => x.standby[j]
      BY <2>3 DEF Streams
    <3>4. Hush(x, h)
      <4>1. \A o \in Outputs : x.standby[o] <=> h.standby[o]
        BY <1>5, <2>3 DEF Streams
      <4> QED BY <1>7, <2>2, <4>1 DEF Hush, SamePlay
    <3>5. Touch(i, x)
      BY <1>5, <3>2, <3>3, <3>4, TouchMore
    <3> QED BY <3>5 DEF Hands
  <2>8. Keep(i, x, w)
    BY <1>3, <2>3, <2>4 DEF Keep, Points, Kills
  <2>9. Data(x, Use(x, Now(i, w, Ctl)), alive, Excused(Now(i, w, Playback)))
    <3>1. Use(x, Now(i, w, Ctl)) = c
      BY <1>4, <2>3 DEF Use, Now, c
    <3>2. Excused(Now(i, w, Playback)) = ({} \union {i}) \ {i}
      BY <1>4, NotStuck DEF Now
    <3> QED BY <2>2, <3>1, <3>2
  <2> QED BY <1>3, <1>4, <1>9, <2>4, <2>5, <2>6, <2>7, <2>8, <2>9, DevStep DEF Local
<1>10. CASE ~k.pcm[i] /\ Step(i, {}, given \union {i}, k, m)
  <2>2. Data(k, c, alive, ({} \union {i}) \ {i})
    <3>1. k.standby[i] <=> ~k.pcm[i]
      BY <1>5, <1>8, <1>10
    <3> QED BY <1>5, <1>7, <3>1, DataMore
  <2>4. /\ m.pc = "s_lock" /\ m.dOut = NULL /\ m.resume = th[i].resume
        /\ m.spOut = NULL /\ m.spIn = th[i].spIn /\ m.op = "standby"
    BY <1>3, <1>4 DEF ThreadRecords, m, me, CallStandby
  <2>5. Local(i, m, k, Has(i, {}, given \union {i}))
    BY <1>4, <2>4 DEF Local, Own, Route, Knows, Waiting, Calling, Stuck
  <2>7. Touch(i, k) /\ Hands(i, {}, given \union {i})
    <3>1. Hush(k, h)
      BY <1>7, HushTrans DEF SamePlay
    <3>2. \A j \in Inputs \ {i} : h.standby[j] => k.standby[j]
      BY <1>8
    <3>3. Touch(i, k)
      BY <1>5, <1>7, <3>1, <3>2, TouchMore
    <3> QED BY <1>5, <3>3 DEF Hands
  <2>8. Keep(i, k, m)
    BY <1>8, <2>4 DEF Keep, Points, Kills
  <2>9. Data(k, Use(k, Now(i, m, Ctl)), alive, Excused(Now(i, m, Playback)))
    <3>1. Use(k, Now(i, m, Ctl)) = c
      BY <1>4, <1>8 DEF Use, Now, c
    <3>2. Excused(Now(i, m, Playback)) = ({} \union {i}) \ {i}
      BY <1>4, NotStuck DEF Now
    <3> QED BY <2>2, <3>1, <3>2
  <2> QED BY <1>3, <1>4, <1>10, <2>4, <2>5, <2>7, <2>8, <2>9, DevStep
<1> QED BY <1>2, <1>9, <1>10

(* It looks for an output; the wait of write() that never ends is not there  *)
(* when there is none.                                                       *)
LEMMA DevReadSearch ==
  ASSUME TypeInv, DevInv, UNCHANGED alive, NEW i \in Inputs,
         th[i].pc \in {"r_hw", "r_hw2"},
         NEW given, \A l \in given : l \in Outputs /\ owner[l] = i,
         ReadSearch(i, given)
  PROVE  Moved
<1>1. /\ i \in Threads /\ Playback \in Threads /\ th[i] \in ThreadRecords /\ hw \in Hw
      /\ Own(i, th[i], hw.mOutput, Mine(i))
      /\ Route(i, th[i], hw) /\ Knows(i, th[i], hw) /\ ~Kills(th[i])
      /\ Data(hw, Use(hw, th[Ctl]), alive, Excused(th[Playback]))
      /\ Control(Playback, th[Playback], hw.mOutput, owner[HW] = Playback)
      /\ Route(Playback, th[Playback], hw)
  BY DevFacts DEF Threads, Waiting
<1>2. /\ th[i].resume \notin Calling /\ th[i].dOut = NULL
      /\ i # Ctl /\ i # Playback
  BY <1>1, ThreadAssumption DEF Route, Calling, Waiting
<1>3. i \in hw.mInputs /\ hw.standby[i] /\ owner[i] = i
  BY <1>1 DEF Knows, Own, Mine
<1>4. CASE hw.mOutput = NULL
  <2>1. ~Stuck(th[Playback])
    <3>1. Stuck(th[Playback]) => th[Playback].dOut \in Outputs
                                 /\ th[Playback].dOut = hw.mOutput
      BY <1>1 DEF Stuck, Control, Route, Waiting
    <3> QED BY <1>4, <3>1, StreamAssumption DEF Streams
  <2>2. Data(hw, Use(hw, th[Ctl]), alive, {})
    BY <1>1, <2>1, NotStuck
  <2>3. ReadOpen(i, hw, given) /\ SameStreams(hw, hw)
    BY <1>4 DEF ReadSearch, SameStreams
  <2>4. Touch(i, hw)
    BY HushTrans DEF Touch, Untouched
  <2> QED BY <2>1, <2>2, <2>3, <2>4, DevReadOpen
<1>5. CASE hw.mOutput # NULL
  <2> DEFINE me == [th[i] EXCEPT !.pc = "r_out", !.spOut = hw.mOutput]
  <2>1. Step(i, {}, given \union {i}, hw, me)
    BY <1>5 DEF ReadSearch
  <2>2. /\ me.pc = "r_out" /\ me.dOut = NULL /\ me.resume = th[i].resume
        /\ me.spOut = hw.mOutput /\ me.spIn = th[i].spIn /\ me.op = th[i].op
    BY <1>1, <1>2 DEF ThreadRecords
  <2> HIDE DEF me
  <2>3. Local(i, me, hw, Has(i, {}, given \union {i}))
    BY <1>2, <1>3, <2>2 DEF Local, Own, Route, Knows, Waiting, Calling, Stuck
  <2>4. Keep(i, hw, me) /\ Hands(i, {}, given \union {i})
    BY <1>1, <1>3, <2>2 DEF Keep, Kills, Points, Hands
  <2> QED BY <1>1, <1>2, <2>1, <2>2, <2>3, <2>4, DevMove
<1> QED BY <1>4, <1>5

(* It has the output it was looking for: it opens that again, gets an echo   *)
(* reference, and then opens its input.                                      *)
LEMMA DevReadReopen ==
  ASSUME TypeInv, DevInv, UNCHANGED alive, NEW i \in Inputs, th[i].pc = "r_hw2",
         NEW o \in Outputs, o = hw.mOutput, owner[o] = i,
         NEW pcmOk \in Answers("pcm"), NEW mixOk \in Answers("mixer"),
         NEW made \in Answers("echo"),
         LET g == ReadReopenOut(hw, o, pcmOk, mixOk)
         IN  ReadOpen(i, IF g.needEcho[i] /\ g.echo[i] = NULL
                         THEN getEchoReference(g, i, made) ELSE g, {o})
  PROVE  Moved
<1> DEFINE c == Use(hw, th[Ctl])
           g == ReadReopenOut(hw, o, pcmOk, mixOk)
           h == IF g.needEcho[i] /\ g.echo[i] = NULL
                THEN getEchoReference(g, i, made) ELSE g
<1>1. /\ Playback \in Threads /\ hw \in Hw /\ c \in Nat
      /\ Data(hw, c, alive, Excused(th[Playback])) /\ LiveInv
      /\ Own(Playback, th[Playback], hw.mOutput, Mine(Playback))
      /\ Route(Playback, th[Playback], hw)
  BY DevFacts, UseType DEF Threads, DevInv
<1>2. ~Stuck(th[Playback])
  <2>1. Stuck(th[Playback]) => /\ th[Playback].dOut = o
                               /\ th[Playback].dOut \in Mine(Playback)
    BY <1>1 DEF Stuck, Own, Route, Waiting
  <2> QED BY <2>1, ThreadAssumption DEF Mine
<1>3. o \in alive /\ o # NULL /\ o \notin Inputs /\ o \in Streams
  BY <1>1, StreamAssumption DEF LiveInv, Streams
<1>4. ReadOpen(i, h, {o})
  OBVIOUS
<1>5. Data(hw, c, alive, {})
  BY <1>1, <1>2, NotStuck
<1> HIDE DEF c
<1>6. /\ Data(g, c, alive, {}) /\ Alike(g, hw, {o}) /\ SameHal(g, hw)
      /\ Hush(g, hw)
  BY <1>1, <1>3, <1>5, ReopenData
<1> HIDE DEF g
<1>7. Data(h, c, alive, {}) /\ Alike(h, g, {g.mOutput}) /\ Hush(h, g)
  <2>1. CASE g.needEcho[i] /\ g.echo[i] = NULL
    <3>1. h = getEchoReference(g, i, made) /\ g.needEcho[i]
      BY <2>1
    <3> HIDE DEF h
    <3>2. /\ Data(h, c, alive, {}) /\ Alike(h, g, {g.mOutput})
          /\ SameButEcho(h, g)
      BY <1>1, <1>6, <3>1, GetEchoData
    <3> QED BY <3>2, HushTrans DEF SameButEcho
  <2>2. CASE ~(g.needEcho[i] /\ g.echo[i] = NULL)
    <3>1. h = g
      BY <2>2
    <3> HIDE DEF h
    <3> QED BY <1>6, <3>1, AlikeMore, HushTrans
  <2> QED BY <2>1, <2>2
<1> HIDE DEF h
<1>8. /\ SameStreams(h, hw) /\ h.mInCallAudioMode = hw.mInCallAudioMode
      /\ \A s \in Streams \ {o} : h.standby[s] <=> hw.standby[s]
      /\ Alike(h, hw, {o})
  <2>1. g.mOutput = o /\ {o} \union {o} = {o}
    BY <1>6 DEF SameHal, SameStreams
  <2>2. Alike(h, hw, {o})
    BY <1>6, <1>7, <2>1, AlikeTrans
  <2> QED BY <2>2 DEF Alike
<1>9. Touch(i, h) /\ \A j \in Inputs : h.standby[j] <=> hw.standby[j]
  <2>1. \A j \in Inputs : h.standby[j] <=> hw.standby[j]
    BY <1>3, <1>8 DEF Streams
  <2>2. Hush(h, hw)
    BY <1>6, <1>7, HushTrans
  <2> QED BY <1>8, <2>1, <2>2, TouchOwned
<1>10. Data(h, Use(hw, th[Ctl]), alive, {})
  BY <1>7 DEF c
<1> DEFINE given == {o}
<1>11. ReadOpen(i, h, given) /\ \A l \in given : l \in Outputs /\ owner[l] = i
  BY <1>4
<1> HIDE DEF given
<1> QED BY <1>2, <1>8, <1>9, <1>10, <1>11, DevReadOpen

(* The steps of read(). *)
LEMMA DevRead ==
  ASSUME TypeInv, DevInv, NEW i \in Inputs, ReadStep(i)
  PROVE  Moved
<1>1. /\ i \in Threads /\ th[i] \in ThreadRecords /\ hw \in Hw
      /\ Control(i, th[i], hw.mOutput, owner[HW] = i)
      /\ Own(i, th[i], hw.mOutput, Mine(i))
      /\ Route(i, th[i], hw) /\ Knows(i, th[i], hw)
      /\ UNCHANGED alive /\ NULL \notin Streams /\ i \in Locks
  BY DevFacts, StreamAssumption
     DEF Threads, ReadStep, ReadLock, ReadHw, ReadOut, ReadIn, ReadRecheck, ReadPcm,
         Locks, Streams
<1>2. th[i].pc \in {"r_in", "r_hw", "r_out", "r_in2", "r_hw2", "r_pcm"}
  BY DEF ReadStep, ReadLock, ReadHw, ReadOut, ReadIn, ReadRecheck, ReadPcm, At
<1>3. /\ th[i].resume \notin Calling /\ th[i].dOut = NULL
      /\ ~Kills(th[i]) /\ i # Ctl /\ i # Playback
  BY <1>1, <1>2, ThreadAssumption, DevFacts DEF Route, Calling, Waiting
<1>4. CASE ReadLock(i)
  <2> DEFINE me == [th[i] EXCEPT !.pc = IF hw.standby[i] THEN "r_hw" ELSE "r_pcm"]
  <2>1. Step(i, {i}, {}, hw, me) /\ Free(i) /\ th[i].pc = "r_in"
    BY <1>4 DEF ReadLock, At
  <2>2. /\ me.pc = IF hw.standby[i] THEN "r_hw" ELSE "r_pcm"
        /\ me.resume = th[i].resume /\ me.dOut = NULL /\ me.op = th[i].op
        /\ Points(me) = Points(th[i])
    BY <1>1, <1>3 DEF ThreadRecords, Points
  <2> HIDE DEF me
  <2>3. i \in hw.mInputs
    BY <1>1, <2>1 DEF Knows
  <2>4. Local(i, me, hw, Has(i, {i}, {}))
    BY <1>1, <1>3, <2>2, <2>3
       DEF Local, Own, Route, Knows, Waiting, Calling, Stuck, Has
  <2>5. Keep(i, hw, me) /\ Hands(i, {i}, {})
    BY <1>3, <2>1, <2>2 DEF Keep, Kills, Hands, Free
  <2> QED BY <1>1, <1>3, <2>1, <2>2, <2>4, <2>5, DevMove
<1>5. CASE ReadHw(i)
  <2> DEFINE given == {}
  <2>1. ReadSearch(i, given) /\ \A l \in given : l \in Outputs /\ owner[l] = i
    BY <1>5 DEF ReadHw
  <2>2. th[i].pc = "r_hw"
    BY <1>5 DEF ReadHw, At
  <2> HIDE DEF given
  <2> QED BY <1>1, <2>1, <2>2, DevReadSearch
<1>6. CASE ReadOut(i)
  <2> DEFINE o == th[i].spOut
             me == [th[i] EXCEPT !.pc = "r_in2"]
  <2>1. Step(i, {o}, {}, hw, me) /\ Free(o) /\ th[i].pc = "r_out"
    BY <1>6 DEF ReadOut, At
  <2>2. /\ me.pc = "r_in2" /\ me.spOut = o
        /\ me.resume = th[i].resume /\ me.dOut = NULL /\ me.op = th[i].op
        /\ Points(me) = Points(th[i])
    BY <1>1, <1>3 DEF ThreadRecords, Points
  <2> HIDE DEF me
  <2>3. i \in hw.mInputs /\ hw.standby[i] /\ o \in Locks
    BY <1>1, <2>1 DEF Knows, Control, Locks, Streams
  <2>4. Local(i, me, hw, Has(i, {o}, {}))
    BY <1>3, <2>2, <2>3
       DEF Local, Own, Route, Knows, Waiting, Calling, Stuck, Has
  <2>5. Keep(i, hw, me) /\ Hands(i, {o}, {})
    BY <1>3, <2>1, <2>2 DEF Keep, Kills, Hands, Free
  <2> QED BY <1>1, <1>3, <2>1, <2>2, <2>4, <2>5, DevMove
<1>7. CASE ReadIn(i)
  <2> DEFINE me == [th[i] EXCEPT !.pc = "r_hw2"]
  <2>1. Step(i, {i}, {}, hw, me) /\ Free(i) /\ th[i].pc = "r_in2"
    BY <1>7 DEF ReadIn, At
  <2>2. /\ me.pc = "r_hw2" /\ me.spOut = th[i].spOut
        /\ me.resume = th[i].resume /\ me.dOut = NULL /\ me.op = th[i].op
        /\ Points(me) = Points(th[i])
    BY <1>1, <1>3 DEF ThreadRecords, Points
  <2> HIDE DEF me
  <2>3. i \in hw.mInputs /\ hw.standby[i] /\ th[i].spOut \in Mine(i)
    BY <1>1, <2>1 DEF Knows, Own
  <2>4. Local(i, me, hw, Has(i, {i}, {}))
    BY <1>1, <1>3, <2>2, <2>3
       DEF Local, Own, Route, Knows, Waiting, Calling, Stuck, Has, Mine
  <2>5. Keep(i, hw, me) /\ Hands(i, {i}, {})
    BY <1>3, <2>1, <2>2 DEF Keep, Kills, Hands, Free
  <2> QED BY <1>1, <1>3, <2>1, <2>2, <2>4, <2>5, DevMove
<1>8. CASE ReadRecheck(i)
  <2> DEFINE o == th[i].spOut
  <2>1. th[i].pc = "r_hw2" /\ Free(HW)
    BY <1>8 DEF ReadRecheck, At
  <2>2. o \in Outputs /\ o \in Streams /\ o # NULL /\ owner[o] = i
    BY <1>1, <2>1 DEF Control, Own, Mine, Streams
  <2>3. CASE OutputUnchanged(i, o)
    <3>1. o = hw.mOutput
      BY <2>3 DEF OutputUnchanged
    <3>2. PICK pcmOk \in Answers("pcm"), mixOk \in Answers("mixer"),
               made \in Answers("echo") :
            LET g == ReadReopenOut(hw, o, pcmOk, mixOk)
            IN  ReadOpen(i, IF g.needEcho[i] /\ g.echo[i] = NULL
                            THEN getEchoReference(g, i, made) ELSE g, {o})
      BY <1>8, <2>3 DEF ReadRecheck
    <3> HIDE DEF o
    <3> QED BY <1>1, <2>1, <2>2, <3>1, <3>2, DevReadReopen
  <2>4. CASE ~OutputUnchanged(i, o) /\ HeldElsewhere(o, hw, i)
    <3> DEFINE given == {o}
    <3>1. ReadSearch(i, given) /\ \A l \in given : l \in Outputs /\ owner[l] = i
      BY <1>8, <2>2, <2>4 DEF ReadRecheck
    <3> HIDE DEF given
    <3> QED BY <1>1, <2>1, <3>1, DevReadSearch
  <2>5. CASE ~OutputUnchanged(i, o) /\ ~HeldElsewhere(o, hw, i)
    <3> DEFINE me == Destructor([th[i] EXCEPT !.spOut = NULL], o, "r_hw")
    <3>1. Step(i, {HW}, {o}, hw, me)
      BY <1>8, <2>5 DEF ReadRecheck
    <3>2. /\ me.pc = "s_lock" /\ me.target = o /\ me.op = "destroy"
          /\ me.resume = th[i].resume /\ me.dOut = NULL
          /\ me.spOut = NULL /\ me.spIn = th[i].spIn
      BY <1>1, <1>3 DEF ThreadRecords, Destructor
    <3> HIDE DEF me
    <3>3. Local(i, me, hw, Has(i, {HW}, {o})) /\ Hands(i, {HW}, {o})
      BY <1>3, <2>1, <2>2, <3>2 DEF Local, Own, Route, Knows, Waiting, Calling, Stuck,
                                    Hands, Free
    <3>4. Kill(i, hw, me)
      <4>1. th[i].spIn # o
        BY <1>1, <2>2, StreamAssumption DEF ThreadRecords
      <4> QED BY <2>2, <2>5, <3>2, <4>1 DEF Kill, Points, Kills, SameStreams
    <3> QED BY <1>1, <1>3, <3>1, <3>2, <3>3, <3>4, DevMove
  <2> QED BY <2>3, <2>4, <2>5
<1>9. CASE ReadPcm(i)
  <2> DEFINE me == CallStandby(th[i], i, "idle")
  <2>1. owner[i] = i
    BY <1>1, <1>9 DEF ReadPcm, At, Own, Mine
  <2>2. Step(i, {}, {i}, hw, IdleThread) \/ Step(i, {}, {i}, hw, me)
    BY <1>9 DEF ReadPcm
  <2>3. Hands(i, {}, {i})
    BY <2>1 DEF Hands
  <2>4. /\ me.pc = "s_lock" /\ me.resume = th[i].resume /\ me.dOut = NULL
        /\ me.op = "standby" /\ Points(me) = Points(th[i])
    BY <1>1, <1>3 DEF ThreadRecords, Points, CallStandby
  <2> HIDE DEF me
  <2>5. Local(i, me, hw, Has(i, {}, {i})) /\ Keep(i, hw, me)
    BY <1>3, <2>4 DEF Local, Own, Route, Knows, Waiting, Calling, Stuck, Keep, Kills
  <2>6. CASE Step(i, {}, {i}, hw, me)
    BY <1>1, <1>3, <2>3, <2>4, <2>5, <2>6, DevMove
  <2>7. CASE Step(i, {}, {i}, hw, IdleThread)
    BY <1>1, <1>3, <2>3, <2>7, IdleLocal, DevMove
  <2> QED BY <2>2, <2>6, <2>7
<1> QED BY <1>4, <1>5, <1>6, <1>7, <1>8, <1>9 DEF ReadStep

-------------------------------------------------------------------------------
(* setMode() *)

(* setMode() has these, wherever it has not called standby(). *)
LEMMA ModeFacts ==
  ASSUME TypeInv, DevInv,
         th[Ctl].pc \in {"m_hw", "m_out", "m_hwo", "m_in", "m_hwi"} \union Calling
  PROVE  /\ Ctl \in Threads /\ Ctl # Playback
         /\ th[Ctl] \in ThreadRecords /\ hw \in Hw
         /\ Control(Ctl, th[Ctl], hw.mOutput, owner[HW] = Ctl)
         /\ Own(Ctl, th[Ctl], hw.mOutput, Mine(Ctl)) /\ Route(Ctl, th[Ctl], hw)
         /\ Knows(Ctl, th[Ctl], hw)
         /\ th[Ctl].dOut = NULL /\ ~Kills(th[Ctl]) /\ NULL \notin Streams
         /\ th[Ctl].pc \notin Calling =>
              /\ th[Ctl].resume \notin Calling
              /\ Data(hw, IF hw.mInCallAudioMode THEN 1 ELSE 0, alive,
                      Excused(th[Playback]))
<1>1. /\ Ctl \in Threads /\ Ctl # Playback
      /\ th[Ctl] \in ThreadRecords /\ hw \in Hw
      /\ Control(Ctl, th[Ctl], hw.mOutput, owner[HW] = Ctl)
      /\ Own(Ctl, th[Ctl], hw.mOutput, Mine(Ctl)) /\ Route(Ctl, th[Ctl], hw)
      /\ Knows(Ctl, th[Ctl], hw)
      /\ Data(hw, Use(hw, th[Ctl]), alive, Excused(th[Playback]))
      /\ Kills(th[Ctl]) => th[Ctl].pc \in {"s_lock", "s_hw", "s_end"} \union Waiting
  BY DevFacts, ThreadAssumption DEF Threads
<1>2. th[Ctl].dOut = NULL /\ ~Kills(th[Ctl]) /\ NULL \notin Streams
  BY <1>1, StreamAssumption DEF Route, Waiting, Calling
<1>3. th[Ctl].pc \notin Calling => th[Ctl].resume \notin Calling
  BY <1>1 DEF Route, Waiting, Calling
<1>4. th[Ctl].resume \notin Calling =>
        Use(hw, th[Ctl]) = IF hw.mInCallAudioMode THEN 1 ELSE 0
  BY DEF Use, Calling
<1> QED BY <1>1, <1>2, <1>3, <1>4

(* It unlocks everything, and lets its pointers go. *)
LEMMA DevUnlockMode ==
  ASSUME TypeInv, DevInv, UNCHANGED alive,
         th[Ctl].pc \in {"m_hw", "m_hwo", "m_hwi"} \union Calling,
         Free(HW) \/ owner[HW] = Ctl,
         NEW h, NEW me \in ThreadRecords, me.dOut = NULL, me.op = th[Ctl].op,
         me.spIn = NULL \/ owner[me.spIn] = Ctl,
         me.spOut = NULL \/ owner[me.spOut] = Ctl,
         Points(me) \subseteq Points(th[Ctl]) \union {hw.mOutput, NULL} \union hw.mInputs,
         NEW given, \A l \in given : owner[l] = Ctl,
         Data(h, IF h.mInCallAudioMode THEN 1 ELSE 0, alive, Excused(th[Playback])),
         Touch(Ctl, h), SameStreams(h, hw), UnlockMode(h, me, given)
  PROVE  Moved
<1> DEFINE n == [me EXCEPT !.pc = "m_dropIn", !.target = NULL, !.resume = "none"]
           gone == given \union {HW, me.spIn, me.spOut}
<1>1. Step(Ctl, {}, gone, h, n)
  BY DEF UnlockMode
<1>2. /\ n.pc = "m_dropIn" /\ n.resume = "none" /\ n.dOut = NULL
      /\ n.op = th[Ctl].op /\ Points(n) = Points(me)
  BY DEF ThreadRecords, Points
<1>3. /\ Ctl \in Threads /\ Ctl # Playback /\ ~Kills(th[Ctl]) /\ NULL \notin Locks
  BY ModeFacts, ThreadAssumption DEF Locks, Calling
<1>4. Hands(Ctl, {}, gone)
  BY <1>3 DEF Hands, Free
<1> HIDE DEF n, gone
<1>5. Local(Ctl, n, h, Has(Ctl, {}, gone))
  BY <1>2, <1>3 DEF Local, Own, Route, Knows, Waiting, Calling, Stuck, Kills
<1>6. Keep(Ctl, h, n)
  BY <1>2, <1>3 DEF Keep, Kills, SameStreams
<1>7. /\ Use(h, Now(Ctl, n, Ctl)) = IF h.mInCallAudioMode THEN 1 ELSE 0
      /\ Excused(Now(Ctl, n, Playback)) = Excused(th[Playback])
  BY <1>2, <1>3 DEF Use, Now
<1> QED BY <1>1, <1>2, <1>3, <1>4, <1>5, <1>6, <1>7, DevStep

(* A call may begin or end in a step of setMode(). *)
LEMMA TouchCall ==
  ASSUME NEW h, NEW g, Touch(Ctl, h), SameStreams(g, h), g.standby = h.standby,
         g.pcm = h.pcm, g.mixer = h.mixer, g.echo = h.echo, g.wakeLock = h.wakeLock
  PROVE  Touch(Ctl, g)
BY DEF Touch, Untouched, Hush, SameStreams

(* A call takes a reference to each device, or has given them back. *)
LEMMA DevSwitch ==
  ASSUME TypeInv, DevInv, UNCHANGED alive,
         th[Ctl].pc \in {"m_hw", "m_hwo", "m_hwi"} \union Calling,
         Free(HW) \/ owner[HW] = Ctl,
         NEW h, NEW me \in ThreadRecords, me.dOut = NULL, me.op = th[Ctl].op,
         me.spIn = NULL \/ owner[me.spIn] = Ctl,
         me.spOut = NULL \/ owner[me.spOut] = Ctl,
         Points(me) \subseteq Points(th[Ctl]) \union {hw.mOutput, NULL} \union hw.mInputs,
         NEW given, \A l \in given : owner[l] = Ctl,
         Data(h, 0, alive, Excused(th[Playback])),
         Touch(Ctl, h), SameStreams(h, hw),
         EnterCall(h, me, given) \/ LeaveCall(h, me, given)
  PROVE  Moved
<1> DEFINE ex == Excused(th[Playback])
<1> HIDE DEF ex
<1>0. 0 \in Nat /\ 1 \in Nat /\ 0 \in {0, 1} /\ 1 \in {0, 1} /\ "normal" \in Modes
      /\ Data(h, 0, alive, ex)
  BY DEF ex, Modes
<1>1. CASE EnterCall(h, me, given)
  <2>1. PICK pcmOk \in Answers("pcm"), mixOk \in Answers("mixer") :
          UnlockMode([openMixer_l(openPcmOut_l(h, pcmOk), mixOk) EXCEPT
                        !.mInCallAudioMode = TRUE], me, given)
    BY <1>1 DEF EnterCall
  <2> DEFINE k == openMixer_l(openPcmOut_l(h, pcmOk), mixOk)
             g == [k EXCEPT !.mInCallAudioMode = TRUE]
  <2>2. Data(k, 1, alive, ex) /\ SamePlay(k, h) /\ Alike(k, h, {})
    BY <1>0, CallData
  <2>3. UnlockMode(g, me, given)
    BY <2>1
  <2> HIDE DEF k
  <2>4. /\ Data(g, 1, alive, ex) /\ g.mInCallAudioMode = TRUE
        /\ SameStreams(g, k) /\ g.standby = k.standby
        /\ g.pcm = k.pcm /\ g.mixer = k.mixer /\ g.echo = k.echo
        /\ g.wakeLock = k.wakeLock
    BY <1>0, <2>2, ModeData
  <2> HIDE DEF g
  <2>7. k.standby = h.standby /\ Hush(k, h)
    BY <2>2, HushTrans DEF SamePlay
  <2>8. Touch(Ctl, k)
    BY <2>2, <2>7, TouchMore
  <2>5. SameStreams(g, hw) /\ Touch(Ctl, g)
    <3>1. SameStreams(g, hw)
      BY <2>2, <2>4 DEF SameStreams, SamePlay, SameHal
    <3> QED BY <2>4, <2>8, <3>1, TouchCall
  <2>6. Data(g, IF g.mInCallAudioMode THEN 1 ELSE 0, alive, Excused(th[Playback]))
    BY <2>4 DEF ex
  <2> QED BY <2>3, <2>5, <2>6, DevUnlockMode
<1>2. CASE LeaveCall(h, me, given)
  <2> DEFINE g == [h EXCEPT !.mInCallAudioMode = FALSE]
  <2>1. UnlockMode(g, me, given)
    BY <1>2 DEF LeaveCall
  <2>2. /\ Data(g, 0, alive, ex) /\ g.mInCallAudioMode = FALSE
        /\ SameStreams(g, h) /\ g.standby = h.standby
        /\ g.pcm = h.pcm /\ g.mixer = h.mixer /\ g.echo = h.echo
        /\ g.wakeLock = h.wakeLock
    BY <1>0, ModeData
  <2> HIDE DEF g
  <2>3. SameStreams(g, hw) /\ Touch(Ctl, g)
    <3>1. SameStreams(g, hw)
      BY <2>2 DEF SameStreams
    <3> QED BY <2>2, <3>1, TouchCall
  <2>4. Data(g, IF g.mInCallAudioMode THEN 1 ELSE 0, alive, Excused(th[Playback]))
    BY <2>2 DEF ex
  <2> QED BY <2>1, <2>3, <2>4, DevUnlockMode
<1> QED BY <1>1, <1>2

(* Nothing but the streams that setMode() has locked is put in standby. *)
Lulls(g, h, me) ==
  /\ Alike(g, h, {me.spOut, me.spIn}) /\ Hush(g, h)
  /\ \A s \in Streams : h.standby[s] => g.standby[s]

(* The two calls of doStandby_l(). *)
LEMMA LullData ==
  ASSUME NEW h, NEW c \in Nat, NEW live, NEW ex, Data(h, c, live, ex),
         NEW me \in ThreadRecords
  PROVE  /\ LET g == OutToStandby(h, me.spOut)
            IN  Data(g, c, live, ex) /\ Lulls(g, h, me)
         /\ LET g == InToStandby(h, me.spIn)
            IN  Data(g, c, live, ex) /\ Lulls(g, h, me)
<1>1. Inputs \subseteq Streams /\ Outputs \subseteq Streams
      /\ me.spOut \in Outputs \union {NULL} /\ me.spIn \in Inputs \union {NULL}
  BY DEF Streams, ThreadRecords
<1>2. Lulls(h, h, me)
  BY AlikeMore, HushTrans DEF Lulls
<1>5. ASSUME NEW g, NEW s \in {me.spOut, me.spIn}, Alike(g, h, {s}), Hush(g, h),
             g.standby[s]
      PROVE  Lulls(g, h, me)
  <2>1. {s} \union {me.spOut, me.spIn} = {me.spOut, me.spIn}
    OBVIOUS
  <2>2. Alike(g, h, {s} \union {me.spOut, me.spIn})
    BY <1>5, AlikeMore
  <2>3. \A x \in Streams : h.standby[x] => g.standby[x]
    BY <1>5 DEF Alike
  <2> QED BY <1>5, <2>1, <2>2, <2>3 DEF Lulls
<1>3. LET g == OutToStandby(h, me.spOut)
      IN  Data(g, c, live, ex) /\ Lulls(g, h, me)
  <2>1. CASE me.spOut = NULL
    BY <1>2, <2>1 DEF OutToStandby
  <2>2. CASE me.spOut # NULL
    <3> DEFINE o == me.spOut
               g == OutDoStandby(h, o)
    <3>1. o \in Outputs
      BY <1>1, <2>2
    <3>2. /\ Data(g, c, live, ex \ {o}) /\ Alike(g, h, {o}) /\ Hush(g, h)
          /\ g.standby[o]
      BY <3>1, OutStandbyData
    <3>3. OutToStandby(h, o) = g
      BY <2>2 DEF OutToStandby
    <3> HIDE DEF g
    <3>4. Data(g, c, live, ex)
      BY <3>2, DataMore
    <3>5. Lulls(g, h, me)
      BY <1>5, <3>2
    <3> QED BY <3>3, <3>4, <3>5
  <2> QED BY <2>1, <2>2
<1>4. LET g == InToStandby(h, me.spIn)
      IN  Data(g, c, live, ex) /\ Lulls(g, h, me)
  <2>1. CASE me.spIn = NULL
    BY <1>2, <2>1 DEF InToStandby
  <2>2. CASE me.spIn # NULL
    <3> DEFINE i == me.spIn
               g == InDoStandby(h, i)
    <3>1. i \in Inputs
      BY <1>1, <2>2
    <3>2. /\ Data(g, c, live, ex \ {i}) /\ Alike(g, h, {i}) /\ Hush(g, h)
          /\ g.standby[i]
      BY <3>1, InStandbyData DEF Aside
    <3>3. InToStandby(h, i) = g
      BY <2>2 DEF InToStandby
    <3> HIDE DEF g
    <3>4. Data(g, c, live, ex)
      BY <3>2, DataMore
    <3>5. Lulls(g, h, me)
      BY <1>5, <3>2
    <3> QED BY <3>3, <3>4, <3>5
  <2> QED BY <2>1, <2>2
<1> QED BY <1>3, <1>4

(* setMode() has locked an active output and an active input, if there are   *)
(* any, and goes on; it may have to wait for the output of the input.        *)
LEMMA DevSwitchMode ==
  ASSUME TypeInv, DevInv, UNCHANGED alive,
         th[Ctl].pc \in {"m_hw", "m_hwo", "m_hwi"}, Free(HW),
         NEW me \in ThreadRecords, me.dOut = NULL, me.op = th[Ctl].op,
         me.spIn = NULL \/ (owner[me.spIn] = Ctl /\ me = th[Ctl]),
         me.spOut = NULL \/ owner[me.spOut] = Ctl,
         Points(me) \subseteq Points(th[Ctl]) \union {hw.mOutput, NULL} \union hw.mInputs,
         NEW given, \A l \in given : owner[l] = Ctl,
         me.spIn = NULL \/ given \subseteq Inputs,
         SwitchMode(me, given)
  PROVE  Moved
<1> DEFINE ex == Excused(th[Playback])
           b == hw.mInCallAudioMode
           c == IF b THEN 1 ELSE 0
           h == [hw EXCEPT !.mMode = me.mode]
           entering == me.mode # hw.mMode /\ me.mode = "in_call" /\ ~b
           leaving  == me.mode # hw.mMode /\ me.mode = "normal" /\ b
           f == IF leaving THEN closePcmOut_l(closeMixer_l(h)) ELSE h
           g == OutToStandby(f, me.spOut)
           n == InToStandby(g, me.spIn)
           z == CountStandby(g, me.spIn)
           q == [th[Ctl] EXCEPT !.pc = "d_out", !.dOut = g.mOutput,
                                !.target = me.spIn,
                                !.resume = IF entering THEN "m_enter" ELSE "m_leave"]
<1>1. /\ Ctl \in Threads /\ Ctl # Playback
      /\ th[Ctl] \in ThreadRecords /\ hw \in Hw
      /\ th[Ctl].dOut = NULL /\ ~Kills(th[Ctl]) /\ NULL \notin Streams
      /\ th[Ctl].resume \notin Calling /\ Data(hw, c, alive, ex)
  BY ModeFacts DEF Calling
<1>2. /\ b \in BOOLEAN /\ c \in {0, 1} /\ c \in Nat /\ me.mode \in Modes /\ 0 \in Nat
      /\ 0 \in {0, 1} /\ 1 \in {0, 1} /\ TRUE \in Answers("pcm")
      /\ TRUE \in Answers("mixer")
  BY <1>1 DEF Hw, HwRecords, ThreadRecords, Answers
<1>3. \/ ~entering /\ ~leaving /\ UnlockMode(h, me, given)
      \/ /\ entering \/ leaving
         /\ me.spIn # NULL /\ NeedsOutputLock(g, me.spIn)
         /\ Step(Ctl, {}, given \union {me.spIn}, z, q)
      \/ entering /\ EnterCall(n, me, given)
      \/ leaving /\ LeaveCall(n, me, given)
  BY DEF SwitchMode, WaitForOutput
<1>4. /\ Data(h, c, alive, ex) /\ Alike(h, hw, {}) /\ h.standby = hw.standby
      /\ h.wakeLock = hw.wakeLock
  <2> HIDE DEF ex, b, c
  <2> QED BY <1>1, <1>2, SetModeData
<1> HIDE DEF ex, h
<1>5. SameStreams(h, hw) /\ h.mInCallAudioMode = b /\ Touch(Ctl, h)
  <2>1. Hush(h, hw)
    BY <1>4, HushTrans
  <2>2. Touch(Ctl, h)
    BY <1>4, <2>1, TouchOwned
  <2> QED BY <1>4, <2>2 DEF Alike
<1>6. CASE ~entering /\ ~leaving /\ UnlockMode(h, me, given)
  <2>1. Data(h, IF h.mInCallAudioMode THEN 1 ELSE 0, alive, Excused(th[Playback]))
    BY <1>4, <1>5 DEF ex
  <2>2. me.spIn = NULL \/ owner[me.spIn] = Ctl
    OBVIOUS
  <2> QED BY <1>5, <1>6, <2>1, <2>2, DevUnlockMode
<1>7. ASSUME entering \/ leaving
      PROVE  /\ Data(f, 0, alive, ex) /\ SameStreams(f, h)
             /\ f.mInCallAudioMode = b /\ Touch(Ctl, f)
  <2>1. CASE leaving
    <3>1. Data(h, 1, alive, ex)
      BY <1>4, <2>1
    <3>2. Data(f, 0, alive, ex) /\ SamePlay(f, h) /\ Alike(f, h, {})
      BY <1>2, <2>1, <3>1, CallData
    <3> HIDE DEF f
    <3>3. f.standby = h.standby /\ Hush(f, h)
      BY <3>2, HushTrans DEF SamePlay
    <3>4. Touch(Ctl, f)
      BY <1>5, <3>2, <3>3, TouchMore
    <3> QED BY <1>5, <3>2, <3>4 DEF SamePlay, SameHal
  <2>2. CASE ~leaving
    <3>1. Data(h, 0, alive, ex) /\ f = h
      BY <1>4, <1>7, <2>2
    <3> QED BY <1>5, <3>1 DEF SameStreams
  <2> QED BY <2>1, <2>2
<1> HIDE DEF f
<1>8. ASSUME entering \/ leaving
      PROVE  /\ Data(g, 0, alive, ex) /\ Lulls(g, f, me)
             /\ Data(n, 0, alive, ex) /\ Lulls(n, g, me)
  <2>1. Data(g, 0, alive, ex) /\ Lulls(g, f, me)
    BY <1>2, <1>7, <1>8, LullData
  <2> HIDE DEF g
  <2>2. Data(n, 0, alive, ex) /\ Lulls(n, g, me)
    BY <1>2, <2>1, LullData
  <2> QED BY <2>1, <2>2
<1> HIDE DEF g, n
<1>9. ASSUME entering \/ leaving
      PROVE  /\ Touch(Ctl, g) /\ SameStreams(g, hw) /\ g.mInCallAudioMode = b
             /\ Touch(Ctl, n) /\ SameStreams(n, hw)
  <2>1. ASSUME NEW j, NEW k, Touch(Ctl, j), SameStreams(j, hw), j.mInCallAudioMode = b,
               Lulls(k, j, me)
        PROVE  Touch(Ctl, k) /\ SameStreams(k, hw) /\ k.mInCallAudioMode = b
    <3>1. \A s \in {me.spOut, me.spIn} \intersect Streams : owner[s] = Ctl
      BY <1>1
    <3>2. \A i \in Inputs \ {Ctl} : j.standby[i] => k.standby[i]
      BY <2>1 DEF Lulls, Streams
    <3>3. Alike(k, j, {me.spOut, me.spIn}) /\ Hush(k, j)
      BY <2>1 DEF Lulls
    <3>4. Touch(Ctl, k)
      BY <2>1, <3>1, <3>2, <3>3, TouchMore
    <3>5. SameStreams(k, hw) /\ k.mInCallAudioMode = b
      BY <2>1, <3>3 DEF Alike, SameStreams
    <3> QED BY <3>4, <3>5
  <2>2. SameStreams(f, hw) /\ f.mInCallAudioMode = b /\ Touch(Ctl, f)
    BY <1>5, <1>7, <1>9 DEF SameStreams
  <2>3. Touch(Ctl, g) /\ SameStreams(g, hw) /\ g.mInCallAudioMode = b
    BY <1>8, <1>9, <2>1, <2>2
  <2> QED BY <1>8, <1>9, <2>1, <2>3
<1>10. CASE \/ entering /\ EnterCall(n, me, given)
            \/ leaving /\ LeaveCall(n, me, given)
  <2>1. /\ Data(n, 0, alive, Excused(th[Playback])) /\ Touch(Ctl, n)
        /\ SameStreams(n, hw)
    BY <1>8, <1>9, <1>10 DEF ex
  <2>2. EnterCall(n, me, given) \/ LeaveCall(n, me, given)
    BY <1>10
  <2>3. me.spIn = NULL \/ owner[me.spIn] = Ctl
    OBVIOUS
  <2> QED BY <2>1, <2>2, <2>3, DevSwitch
<1>11. CASE /\ entering \/ leaving
            /\ me.spIn # NULL /\ NeedsOutputLock(g, me.spIn)
            /\ Step(Ctl, {}, given \union {me.spIn}, z, q)
  <2> DEFINE i == me.spIn
  <2>1. /\ owner[i] = Ctl /\ me = th[Ctl] /\ i \in Inputs /\ i = th[Ctl].spIn
    BY <1>11 DEF ThreadRecords
  <2>2. /\ q.pc = "d_out" /\ q.dOut = g.mOutput /\ q.target = i
        /\ q.resume = IF entering THEN "m_enter" ELSE "m_leave"
        /\ q.op = th[Ctl].op /\ q.spOut = th[Ctl].spOut /\ q.spIn = i
    BY <1>1, <2>1 DEF ThreadRecords
  <2>3. /\ Data(z, 0, alive, ex) /\ Alike(z, g, {}) /\ SameHal(z, g) /\ Hush(z, g)
        /\ z.standby = g.standby
    BY <1>2, <1>8, <1>11, CountStandbyData
  <2> HIDE DEF z, q
  <2>4. /\ SameStreams(z, hw) /\ z.mInCallAudioMode = b /\ Touch(Ctl, z)
    <3>1. Touch(Ctl, z)
      BY <1>9, <1>11, <2>3, TouchMore
    <3> QED BY <1>9, <1>11, <2>3, <3>1 DEF Alike, SameStreams
  <2>5. Own(Ctl, q, z.mOutput, Has(Ctl, {}, given \union {i}))
    <3>1. q.spOut = NULL \/ (q.spOut \in Outputs /\ owner[q.spOut] = Ctl)
      BY <1>1, <2>1, <2>2 DEF ThreadRecords
    <3>2. q.spOut = NULL \/ q.spOut \in Has(Ctl, {}, given \union {i})
      BY <2>1, <3>1, StreamAssumption DEF Has, Locks, Streams
    <3> QED BY <2>2, <3>2 DEF Own, Waiting, Calling, Stuck
  <2>6. Route(Ctl, q, z)
    BY <1>1, <1>11, <2>1, <2>2, <2>4 DEF Route, Waiting, Calling, Kills
  <2>7. Local(Ctl, q, z, Has(Ctl, {}, given \union {i}))
    BY <2>2, <2>5, <2>6 DEF Local, Knows
  <2>8. Keep(Ctl, z, q) /\ Hands(Ctl, {}, given \union {i})
    BY <1>1, <1>9, <1>11, <2>1, <2>2, <2>4
       DEF Keep, Kills, Points, Hands, SameStreams, Waiting
  <2>9. /\ Use(z, Now(Ctl, q, Ctl)) = 0
        /\ Excused(Now(Ctl, q, Playback)) = ex
    BY <1>1, <1>11, <2>2, <2>4 DEF Use, Now, ex
  <2> QED BY <1>1, <1>11, <2>2, <2>3, <2>4, <2>7, <2>8, <2>9, DevStep
<1> QED BY <1>3, <1>6, <1>10, <1>11

(* It looks for an active input; the output it has locked is active. *)
LEMMA DevModeIn ==
  ASSUME TypeInv, DevInv, UNCHANGED alive,
         th[Ctl].pc \in {"m_hw", "m_hwo", "m_hwi"}, Free(HW),
         NEW me \in ThreadRecords, me.dOut = NULL, me.op = th[Ctl].op,
         me.resume = th[Ctl].resume, me.spOut \in {th[Ctl].spOut, NULL},
         NEW given, \A l \in given : owner[l] = Ctl /\ l \in Streams,
         me.spOut # NULL => owner[me.spOut] = Ctl /\ ~hw.standby[me.spOut],
         me.spOut = NULL \/ given \subseteq Inputs,
         ModeSearchIn(me, given)
  PROVE  Moved
<1> DEFINE i == getActiveInput_l(hw)
           k == PrepareLock(hw, Ctl, i)
           w == [me EXCEPT !.spIn = NULL]
           n == [me EXCEPT !.pc = "m_in", !.spIn = i]
           c == IF hw.mInCallAudioMode THEN 1 ELSE 0
           ex == Excused(th[Playback])
<1>1. /\ Ctl \in Threads /\ Ctl # Playback
      /\ th[Ctl] \in ThreadRecords /\ hw \in Hw
      /\ th[Ctl].dOut = NULL /\ ~Kills(th[Ctl]) /\ NULL \notin Streams
      /\ th[Ctl].resume \notin Calling /\ Data(hw, c, alive, ex) /\ c \in Nat
  BY ModeFacts DEF Calling
<1>2. i \in Inputs \union {NULL} /\ (i # NULL => i \in hw.mInputs)
      /\ Inputs \subseteq Streams
  BY <1>1, ActiveInputType DEF Streams
<1>3. \/ SwitchMode(w, given)
      \/ i # NULL /\ Step(Ctl, {}, given, k, n)
  BY DEF ModeSearchIn
<1> HIDE DEF i, c, ex
<1>4. CASE SwitchMode(w, given)
  <2>1. /\ w \in ThreadRecords /\ w.dOut = NULL /\ w.op = th[Ctl].op
        /\ w.spIn = NULL /\ w.spOut = me.spOut
    BY DEF ThreadRecords
  <2> HIDE DEF w
  <2>2. Points(w) \subseteq Points(th[Ctl]) \union {hw.mOutput, NULL} \union hw.mInputs
    BY <2>1 DEF Points
  <2>3. me.spOut = NULL \/ owner[me.spOut] = Ctl
    OBVIOUS
  <2> QED BY <1>4, <2>1, <2>2, <2>3, DevSwitchMode
<1>5. CASE i # NULL /\ Step(Ctl, {}, given, k, n)
  <2>1. /\ n.pc = "m_in" /\ n.spIn = i /\ n.dOut = NULL /\ n.op = th[Ctl].op
        /\ n.resume = th[Ctl].resume /\ n.spOut = me.spOut
    BY DEF ThreadRecords
  <2>2. i \in Streams \union {NULL} /\ i \notin Outputs
    BY <1>2, <1>5, StreamAssumption DEF Streams
  <2>3. /\ Data(k, c, alive, ex) /\ Alike(k, hw, {}) /\ SameHal(k, hw)
        /\ k.standby = hw.standby /\ k.wakeLock = hw.wakeLock
    BY <1>1, <2>2, PrepareData DEF PrepareLock
  <2> HIDE DEF n, k
  <2>4. Touch(Ctl, k) /\ Hands(Ctl, {}, given)
    <3>1. Hush(k, hw)
      BY <2>3, HushTrans
    <3>2. Touch(Ctl, k)
      BY <2>3, <3>1, TouchOwned
    <3> QED BY <3>2 DEF Hands
  <2>5. me.spOut = NULL \/ me.spOut \in Has(Ctl, {}, given)
    <3>1. me.spOut # NULL => me.spOut \in Outputs
      BY DEF ThreadRecords
    <3> QED BY <3>1, StreamAssumption DEF Has, Locks, Streams
  <2>6. Local(Ctl, n, k, Has(Ctl, {}, given))
    BY <1>1, <2>1, <2>3, <2>5 DEF Local, Own, Route, Knows, Waiting, Calling, Stuck
  <2>7. Keep(Ctl, k, n)
    BY <1>1, <1>2, <1>5, <2>1, <2>3 DEF Keep, Kills, Points, SameHal, SameStreams
  <2>8. Use(k, Now(Ctl, n, Ctl)) = c /\ Excused(Now(Ctl, n, Playback)) = ex
    BY <1>1, <2>1, <2>3 DEF Use, Now, Calling, SameHal, c, ex
  <2> QED BY <1>1, <1>5, <2>1, <2>3, <2>4, <2>6, <2>7, <2>8, DevStep
<1> QED BY <1>3, <1>4, <1>5

(* It looks for an active output first. *)
LEMMA DevModeOut ==
  ASSUME TypeInv, DevInv, UNCHANGED alive,
         th[Ctl].pc \in {"m_hw", "m_hwo"}, Free(HW),
         NEW given, \A l \in given : owner[l] = Ctl /\ l \in Streams,
         ModeSearchOut(given)
  PROVE  Moved
<1> DEFINE o == hw.mOutput
           k == PrepareLock(hw, Ctl, o)
           w == [th[Ctl] EXCEPT !.spOut = NULL]
           n == [th[Ctl] EXCEPT !.pc = "m_out", !.spOut = o]
           c == IF hw.mInCallAudioMode THEN 1 ELSE 0
           ex == Excused(th[Playback])
<1>1. /\ Ctl \in Threads /\ Ctl # Playback
      /\ th[Ctl] \in ThreadRecords /\ hw \in Hw
      /\ th[Ctl].dOut = NULL /\ ~Kills(th[Ctl]) /\ NULL \notin Streams
      /\ th[Ctl].resume \notin Calling /\ Data(hw, c, alive, ex) /\ c \in Nat
  BY ModeFacts DEF Calling
<1>2. \/ ModeSearchIn(w, given)
      \/ ~(o = NULL \/ hw.standby[o]) /\ Step(Ctl, {}, given, k, n)
  BY DEF ModeSearchOut
<1> HIDE DEF c, ex
<1>3. CASE ModeSearchIn(w, given)
  <2>1. /\ w \in ThreadRecords /\ w.dOut = NULL /\ w.op = th[Ctl].op
        /\ w.spOut = NULL /\ w.resume = th[Ctl].resume
    BY <1>1 DEF ThreadRecords
  <2> HIDE DEF w
  <2> QED BY <1>3, <2>1, DevModeIn
<1>4. CASE ~(o = NULL \/ hw.standby[o]) /\ Step(Ctl, {}, given, k, n)
  <2>1. /\ n.pc = "m_out" /\ n.spOut = o /\ n.dOut = NULL /\ n.op = th[Ctl].op
        /\ n.resume = th[Ctl].resume /\ n.spIn = th[Ctl].spIn
    BY <1>1 DEF ThreadRecords
  <2>2. o \in Streams \union {NULL}
    BY <1>1 DEF Hw, HwRecords, Streams
  <2>3. /\ Data(k, c, alive, ex) /\ Alike(k, hw, {}) /\ SameHal(k, hw)
        /\ k.standby = hw.standby /\ k.wakeLock = hw.wakeLock
    BY <1>1, <1>4, <2>2, PrepareData DEF PrepareLock
  <2> HIDE DEF n, k
  <2>4. Touch(Ctl, k) /\ Hands(Ctl, {}, given)
    <3>1. Hush(k, hw)
      BY <2>3, HushTrans
    <3>2. Touch(Ctl, k)
      BY <2>3, <3>1, TouchOwned
    <3> QED BY <3>2 DEF Hands
  <2>5. Local(Ctl, n, k, Has(Ctl, {}, given))
    BY <1>1, <2>1, <2>3 DEF Local, Own, Route, Knows, Waiting, Calling, Stuck
  <2>6. Keep(Ctl, k, n)
    BY <1>1, <2>1, <2>3 DEF Keep, Kills, Points, SameHal, SameStreams
  <2>7. Use(k, Now(Ctl, n, Ctl)) = c /\ Excused(Now(Ctl, n, Playback)) = ex
    BY <1>1, <2>1, <2>3 DEF Use, Now, Calling, SameHal, c, ex
  <2> QED BY <1>1, <1>4, <2>1, <2>3, <2>4, <2>5, <2>6, <2>7, DevStep
<1> QED BY <1>2, <1>3, <1>4

(* The steps of setMode(). *)
LEMMA DevMode ==
  ASSUME TypeInv, DevInv, ModeStep
  PROVE  Moved
<1> DEFINE me == th[Ctl]
<1>1. /\ UNCHANGED alive
      /\ me.pc \in {"m_hw", "m_out", "m_hwo", "m_in", "m_hwi"} \union Calling
  BY DEF ModeStep, ModeHw, ModeOut, ModeRecheckOut, ModeIn, ModeRecheckIn,
         ModeResume, At, Calling
<1>2. /\ Ctl \in Threads /\ Ctl # Playback
      /\ me \in ThreadRecords /\ hw \in Hw
      /\ Control(Ctl, me, hw.mOutput, owner[HW] = Ctl)
      /\ Own(Ctl, me, hw.mOutput, Mine(Ctl)) /\ Route(Ctl, me, hw)
      /\ Knows(Ctl, me, hw)
      /\ me.dOut = NULL /\ ~Kills(me) /\ NULL \notin Streams
      /\ me.pc \notin Calling =>
           /\ me.resume \notin Calling
           /\ Data(hw, IF hw.mInCallAudioMode THEN 1 ELSE 0, alive,
                   Excused(th[Playback]))
  BY <1>1, ModeFacts
<1>3. CASE ModeHw
  <2> DEFINE given == {}
  <2>1. /\ me.pc = "m_hw" /\ Free(HW) /\ ModeSearchOut(given)
        /\ \A l \in given : owner[l] = Ctl /\ l \in Streams
    BY <1>3 DEF ModeHw, At
  <2> HIDE DEF given
  <2> QED BY <1>1, <2>1, DevModeOut
<1>4. CASE ModeOut
  <2> DEFINE o == me.spOut
             n == [me EXCEPT !.pc = "m_hwo"]
  <2>1. Step(Ctl, {o}, {}, hw, n) /\ Free(o) /\ me.pc = "m_out"
    BY <1>4 DEF ModeOut, At
  <2>2. /\ n.pc = "m_hwo" /\ n.spOut = o /\ n.resume = me.resume
        /\ n.dOut = NULL /\ n.op = me.op /\ Points(n) = Points(me)
    BY <1>2 DEF ThreadRecords, Points
  <2>3. o \in Locks /\ me.resume \notin Calling
    BY <1>2, <2>1 DEF Control, Locks, Streams, Calling
  <2> HIDE DEF n
  <2>4. Local(Ctl, n, hw, Has(Ctl, {o}, {}))
    BY <1>2, <2>2, <2>3 DEF Local, Own, Route, Knows, Waiting, Calling, Stuck, Has
  <2>5. Keep(Ctl, hw, n) /\ Hands(Ctl, {o}, {})
    BY <1>2, <2>1, <2>2 DEF Keep, Kills, Hands, Free
  <2> QED BY <1>1, <1>2, <2>1, <2>2, <2>4, <2>5, DevMove
<1>5. CASE ModeRecheckOut
  <2> DEFINE o == me.spOut
  <2>1. me.pc = "m_hwo" /\ Free(HW) /\ me.resume \notin Calling
    BY <1>2, <1>5 DEF ModeRecheckOut, At, Calling
  <2>2. o \in Outputs /\ o \in Streams /\ o # NULL /\ owner[o] = Ctl
    BY <1>2, <2>1 DEF Control, Own, Mine, Streams
  <2>3. CASE Unchanged(Ctl, o, hw.mOutput)
    <3> DEFINE given == {}
    <3>1. ModeSearchIn(me, given) /\ \A l \in given : owner[l] = Ctl /\ l \in Streams
          /\ given \subseteq Inputs
      BY <1>5, <2>3 DEF ModeRecheckOut
    <3>2. ~hw.standby[o]
      BY <1>1, <1>2, <2>1, <2>2, <2>3 DEF Unchanged, Data, Closed, Calling
    <3> HIDE DEF given
    <3> QED BY <1>1, <1>2, <2>1, <2>2, <3>1, <3>2, DevModeIn
  <2>4. CASE ~Unchanged(Ctl, o, hw.mOutput) /\ HeldElsewhere(o, hw, Ctl)
    <3> DEFINE given == {o}
    <3>1. ModeSearchOut(given) /\ \A l \in given : owner[l] = Ctl /\ l \in Streams
      BY <1>5, <2>2, <2>4 DEF ModeRecheckOut
    <3> HIDE DEF given
    <3> QED BY <1>1, <2>1, <3>1, DevModeOut
  <2>5. CASE ~Unchanged(Ctl, o, hw.mOutput) /\ ~HeldElsewhere(o, hw, Ctl)
    <3> DEFINE n == Destructor([me EXCEPT !.spOut = NULL], o, "m_hw")
    <3>1. Step(Ctl, {HW}, {o}, hw, n)
      BY <1>5, <2>5 DEF ModeRecheckOut
    <3>2. /\ n.pc = "s_lock" /\ n.target = o /\ n.op = "destroy"
          /\ n.resume = me.resume /\ n.dOut = NULL
          /\ n.spOut = NULL /\ n.spIn = me.spIn
      BY <1>2 DEF ThreadRecords, Destructor
    <3> HIDE DEF n
    <3>3. Local(Ctl, n, hw, Has(Ctl, {HW}, {o})) /\ Hands(Ctl, {HW}, {o})
      BY <2>1, <2>2, <3>2 DEF Local, Own, Route, Knows, Waiting, Calling, Stuck,
                              Hands, Free
    <3>4. Kill(Ctl, hw, n)
      <4>1. me.spIn # o
        BY <1>2, <2>2, StreamAssumption DEF ThreadRecords
      <4> QED BY <2>2, <2>5, <3>2, <4>1 DEF Kill, Points, Kills, SameStreams
    <3> QED BY <1>1, <1>2, <3>1, <3>2, <3>3, <3>4, DevMove
  <2> QED BY <2>3, <2>4, <2>5
<1>6. CASE ModeIn
  <2> DEFINE i == me.spIn
             n == [me EXCEPT !.pc = "m_hwi"]
  <2>1. Step(Ctl, {i}, {}, hw, n) /\ Free(i) /\ me.pc = "m_in"
    BY <1>6 DEF ModeIn, At
  <2>2. /\ n.pc = "m_hwi" /\ n.spOut = me.spOut /\ n.spIn = i
        /\ n.resume = me.resume
        /\ n.dOut = NULL /\ n.op = me.op /\ Points(n) = Points(me)
    BY <1>2 DEF ThreadRecords, Points
  <2>3. /\ i \in Locks /\ me.resume \notin Calling
        /\ me.spOut = NULL \/ me.spOut \in Mine(Ctl)
        /\ me.spOut # NULL => ~hw.standby[me.spOut]
    BY <1>2, <2>1 DEF Control, Own, Knows, Locks, Streams, Calling
  <2> HIDE DEF n
  <2>4. Local(Ctl, n, hw, Has(Ctl, {i}, {}))
    BY <1>2, <2>2, <2>3
       DEF Local, Own, Route, Knows, Waiting, Calling, Stuck, Has, Mine
  <2>5. Keep(Ctl, hw, n) /\ Hands(Ctl, {i}, {})
    BY <1>2, <2>1, <2>2 DEF Keep, Kills, Hands, Free
  <2> QED BY <1>1, <1>2, <2>1, <2>2, <2>4, <2>5, DevMove
<1>7. CASE ModeRecheckIn
  <2> DEFINE i == me.spIn
  <2>1. me.pc = "m_hwi" /\ Free(HW) /\ me.resume \notin Calling
    BY <1>2, <1>7 DEF ModeRecheckIn, At, Calling
  <2>2. /\ i \in Inputs /\ i \in Streams /\ i # NULL /\ owner[i] = Ctl
        /\ me.spOut = NULL \/ owner[me.spOut] = Ctl
        /\ me.spOut # NULL => ~hw.standby[me.spOut]
    BY <1>2, <2>1 DEF Control, Own, Knows, Mine, Streams
  <2>3. CASE Unchanged(Ctl, i, getActiveInput_l(hw))
    <3> DEFINE given == {}
    <3>1. /\ SwitchMode(me, given) /\ \A l \in given : owner[l] = Ctl
          /\ given \subseteq Inputs
      BY <1>7, <2>3 DEF ModeRecheckIn
    <3>2. Points(me) \subseteq
            Points(th[Ctl]) \union {hw.mOutput, NULL} \union hw.mInputs
      OBVIOUS
    <3> HIDE DEF given
    <3> QED BY <1>1, <1>2, <2>1, <2>2, <3>1, <3>2, DevSwitchMode
  <2>4. CASE ~Unchanged(Ctl, i, getActiveInput_l(hw)) /\ HeldElsewhere(i, hw, Ctl)
    <3> DEFINE given == {i}
    <3>1. ModeSearchIn(me, given) /\ \A l \in given : owner[l] = Ctl /\ l \in Streams
          /\ given \subseteq Inputs
      BY <1>7, <2>2, <2>4 DEF ModeRecheckIn
    <3> HIDE DEF given
    <3> QED BY <1>1, <1>2, <2>1, <2>2, <3>1, DevModeIn
  <2>5. CASE ~Unchanged(Ctl, i, getActiveInput_l(hw)) /\ ~HeldElsewhere(i, hw, Ctl)
    <3> DEFINE n == Destructor([me EXCEPT !.spIn = NULL], i, "m_hwi")
    <3>1. Step(Ctl, {HW}, {i}, hw, n)
      BY <1>7, <2>5 DEF ModeRecheckIn
    <3>2. /\ n.pc = "s_lock" /\ n.target = i /\ n.op = "destroy"
          /\ n.resume = me.resume /\ n.dOut = NULL
          /\ n.spOut = me.spOut /\ n.spIn = NULL
      BY <1>2 DEF ThreadRecords, Destructor
    <3> HIDE DEF n
    <3>3. Local(Ctl, n, hw, Has(Ctl, {HW}, {i})) /\ Hands(Ctl, {HW}, {i})
      BY <2>1, <2>2, <3>2 DEF Local, Own, Route, Knows, Waiting, Calling, Stuck,
                              Hands, Free
    <3>4. Kill(Ctl, hw, n)
      <4>1. me.spOut # i
        BY <1>2, <2>2, StreamAssumption DEF ThreadRecords
      <4> QED BY <1>2, <2>2, <2>5, <3>2, <4>1 DEF Kill, Points, Kills, SameStreams
    <3> QED BY <1>1, <1>2, <3>1, <3>2, <3>3, <3>4, DevMove
  <2> QED BY <2>3, <2>4, <2>5
<1>8. CASE ModeResume
  <2> DEFINE given == {}
  <2>1. /\ me.pc \in Calling /\ \A l \in given : owner[l] = Ctl
        /\ EnterCall(hw, me, given) \/ LeaveCall(hw, me, given)
    BY <1>8 DEF ModeResume, At, Calling
  <2>2. /\ owner[HW] = Ctl /\ me.resume = me.pc
        /\ me.spOut = NULL \/ owner[me.spOut] = Ctl
        /\ me.spIn = NULL \/ owner[me.spIn] = Ctl
    BY <1>2, <2>1 DEF Control, Own, Route, Mine, Calling
  <2>3. Use(hw, me) = 0
    BY <1>2, <2>1, <2>2 DEF Use, Route, Calling
  <2>4. Data(hw, 0, alive, Excused(th[Playback]))
    BY <1>2, <2>3, DevFacts
  <2>5. Touch(Ctl, hw) /\ SameStreams(hw, hw)
        /\ Points(me) \subseteq
             Points(th[Ctl]) \union {hw.mOutput, NULL} \union hw.mInputs
    BY HushTrans DEF Touch, SameStreams, Untouched
  <2> HIDE DEF given
  <2> QED BY <1>1, <1>2, <2>1, <2>2, <2>4, <2>5, DevSwitch
<1> QED BY <1>3, <1>4, <1>5, <1>6, <1>7, <1>8 DEF ModeStep

-------------------------------------------------------------------------------
(* The invariant and what follows from it *)

(* Nothing is open at first. *)
LEMMA DevInit == Init => DevInv
<1> SUFFICES ASSUME Init
             PROVE  DevInv
  OBVIOUS
<1>1. /\ hw \in Hw /\ NULL \notin Streams
      /\ Playback \in Threads /\ Ctl \in Threads
  BY InitType, GoodNow, StreamAssumption DEF Good, Threads
<1>2. /\ hw.mOutput = NULL /\ hw.mInputs = {} /\ hw.mInCallAudioMode = FALSE
      /\ hw.mPcm = FALSE /\ hw.mPcmOpenCnt = 0
      /\ hw.mMixer = FALSE /\ hw.mMixerOpenCnt = 0
      /\ hw.standby = [s \in Streams |-> TRUE] /\ hw.pcm = [s \in Streams |-> FALSE]
      /\ hw.mixer = [s \in Streams |-> FALSE] /\ hw.echo = [s \in Streams |-> NULL]
      /\ hw.needEcho = [i \in Inputs |-> FALSE]
      /\ hw.current = [t \in Threads |-> NULL] /\ hw.wakeLock = FALSE
      /\ alive = {} /\ \A t \in Threads : th[t] = IdleThread
  BY DEF Init, HwInit
<1>3. Counted(hw, 0)
  <2>1. Chosen(Outputs, hw.pcm) = {} /\ Chosen(Streams, hw.mixer) = {}
    BY <1>2 DEF Chosen, Streams
  <2>2. /\ Cardinality(Chosen(Outputs, hw.pcm)) = 0
        /\ Cardinality(Chosen(Streams, hw.mixer)) = 0
    BY <2>1, FS_EmptySet
  <2>3. ~(0 > 0) /\ 0 + 0 = 0 /\ 0 <= 0
    OBVIOUS
  <2> QED BY <1>1, <1>2, <2>2, <2>3 DEF Counted, PcmCount, MixerCount
<1>4. Closed(hw, alive, {})
  BY <1>1, <1>2 DEF Closed, Streams
<1>5. Echoes(hw)
  BY <1>1, <1>2 DEF Echoes, Streams
<1>6. Use(hw, th[Ctl]) = 0 /\ Excused(th[Playback]) = {}
  BY <1>1, <1>2, IdleLocal, NotStuck DEF Use
<1>7. DataInv
  BY <1>3, <1>4, <1>5, <1>6 DEF DataInv, Data
<1>8. LocalInv
  BY <1>2, IdleLocal DEF LocalInv
<1>9. LiveInv
  BY <1>2, IdleLocal DEF LiveInv
<1>10. WakeInv
  BY <1>1, <1>2, IdleLocal DEF WakeInv, Wake, Up, Streams
<1> QED BY <1>7, <1>8, <1>9, <1>10 DEF DevInv

(* A step of nobody changes nothing. *)
LEMMA DevStutter ==
  ASSUME DevInv, UNCHANGED vars
  PROVE  Moved
<1>1. hw' = hw /\ owner' = owner /\ th' = th /\ alive' = alive
  BY DEF vars
<1>2. DataInv'
  BY <1>1 DEF DevInv, DataInv
<1>3. LocalInv'
  BY <1>1 DEF DevInv, LocalInv, Local, Own, Route, Knows, Mine
<1>4. LiveInv'
  BY <1>1 DEF DevInv, LiveInv, Points, Kills
<1>5. WakeInv'
  BY <1>1 DEF DevInv, WakeInv, Wake
<1>6. Guarded
  BY <1>1 DEF Guarded, Untouched
<1> QED BY <1>2, <1>3, <1>4, <1>5, <1>6 DEF DevInv, Moved

(* Every step of the system keeps the invariant, and asks for the mutexes. *)
LEMMA DevNext == TypeInv /\ DevInv /\ [Next]_vars => Moved
<1> SUFFICES ASSUME TypeInv, DevInv, [Next]_vars
             PROVE  Moved
  OBVIOUS
<1>1. CASE Begin
  <2>1. \/ \/ \E o \in Outputs : OpenOutputStream(o)
           \/ \E i \in Inputs : OpenInputStream(i)
        \/ \/ CloseOutputStream
           \/ \E i \in Inputs : CloseInputStream(i) \/ ChangeAec(i)
        \/ \/ \E i \in Inputs : BeginRead(i)
           \/ BeginWrite
           \/ \E t \in Threads, op \in {"standby", "routing"} : BeginStandby(t, op)
           \/ \E m \in Modes : BeginSetMode(m)
           \/ SetMicMute
    BY <1>1 DEF Begin
  <2> QED BY <2>1, DevOpenStream, DevClose, DevBegin
<1>2. ASSUME NEW t \in Threads, Continue(t)
      PROVE  Moved
  <2>1. \/ StandbyStep(t) \/ DropInput(t) \/ DropOutput(t)
        \/ WriteStep
        \/ t \in Inputs /\ ReadStep(t)
        \/ ModeStep
    BY <1>2 DEF Continue
  <2> QED BY <2>1, DevStandbyStep, DevDrop, DevWrite, DevRead, DevMode
<1> QED BY <1>1, <1>2, DevStutter DEF Next

(* The invariant holds in every state. *)
LEMMA DevAlways == Spec => [](TypeInv /\ DevInv)
<1>1. Init => TypeInv /\ DevInv
  BY InitType, DevInit
<1>2. TypeInv /\ DevInv /\ [Next]_vars => TypeInv' /\ DevInv'
  BY NextType, DevNext DEF Moved
<1> QED BY <1>1, <1>2, PTL DEF Spec

(* The users of the devices are the streams that are open and setMode(). *)
LEMMA UsersCount ==
  ASSUME TypeInv
  PROVE  /\ Cardinality(PcmUsers)
              = Cardinality(Chosen(Outputs, hw.pcm)) + Use(hw, th[Ctl])
         /\ Cardinality(MixerUsers)
              = Cardinality(Chosen(Streams, hw.mixer)) + Use(hw, th[Ctl])
         /\ Cardinality(PcmUsers) \in Nat /\ Cardinality(MixerUsers) \in Nat
         /\ PcmUsers # {} <=> Cardinality(PcmUsers) > 0
         /\ MixerUsers # {} <=> Cardinality(MixerUsers) > 0
<1> DEFINE P == Chosen(Outputs, hw.pcm)
           M == Chosen(Streams, hw.mixer)
<1>1. PcmUsers = P \union InCallUser /\ MixerUsers = M \union InCallUser
  BY DEF PcmUsers, MixerUsers, Chosen
<1>2. IsFiniteSet(Outputs) /\ IsFiniteSet(Streams)
  BY StreamAssumption, FS_Union DEF Streams
<1>3. IsFiniteSet(P) /\ IsFiniteSet(M) /\ HW \notin P /\ HW \notin M
  BY <1>2, FS_Subset, ThreadAssumption DEF Chosen, Streams
<1> HIDE DEF P, M
<1>4. \/ InCallUser = {} /\ Use(hw, th[Ctl]) = 0
      \/ InCallUser = {HW} /\ Use(hw, th[Ctl]) = 1
  BY DEF InCallUser, Use
<1>5. ASSUME NEW S, IsFiniteSet(S), HW \notin S
      PROVE  /\ Cardinality(S \union InCallUser) = Cardinality(S) + Use(hw, th[Ctl])
             /\ Cardinality(S \union InCallUser) \in Nat
             /\ S \union InCallUser # {} <=> Cardinality(S \union InCallUser) > 0
  <2>1. IsFiniteSet(S \union InCallUser) /\ Cardinality(S) \in Nat
    <3>1. IsFiniteSet(S \union {HW})
      BY <1>5, FS_AddElement
    <3> QED BY <1>4, <1>5, <3>1, FS_CardinalityType
  <2>2. /\ Cardinality(S \union InCallUser) \in Nat
        /\ S \union InCallUser # {} <=> Cardinality(S \union InCallUser) > 0
    <3>1. /\ Cardinality(S \union InCallUser) \in Nat
          /\ Cardinality(S \union InCallUser) = 0 <=> S \union InCallUser = {}
      BY <2>1, FS_CardinalityType, FS_EmptySet
    <3> QED BY <3>1
  <2>3. Cardinality(S \union {HW}) = Cardinality(S) + 1
    BY <1>5, FS_AddElement
  <2>4. S \union {} = S
    OBVIOUS
  <2>5. Cardinality(S \union InCallUser) = Cardinality(S) + Use(hw, th[Ctl])
    <3>1. CASE InCallUser = {} /\ Use(hw, th[Ctl]) = 0
      BY <2>1, <2>4, <3>1
    <3>2. CASE InCallUser = {HW} /\ Use(hw, th[Ctl]) = 1
      BY <2>3, <3>2
    <3> QED BY <1>4, <3>1, <3>2
  <2> QED BY <2>2, <2>5
<1> QED BY <1>1, <1>3, <1>5 DEF P, M

(* However often the driver refuses to open a device, setMode() and the      *)
(* streams keep none open that nobody uses.                                  *)
THEOREM NoDeviceLeakHolds == Spec => []NoDeviceLeak
<1>1. TypeInv /\ DevInv => NoDeviceLeak
  <2> SUFFICES ASSUME TypeInv, DevInv
               PROVE  NoDeviceLeak
    OBVIOUS
  <2>1. Counted(hw, Use(hw, th[Ctl]))
    BY DEF DevInv, DataInv, Data
  <2> QED BY <2>1, UsersCount DEF NoDeviceLeak, Counted, PcmCount, MixerCount
<1> QED BY <1>1, DevAlways, PTL

(* With a driver that opens what it is asked to, the counts are the users:   *)
(* no close hits a device in use.                                            *)
THEOREM RefCountsHolds ==
  ASSUME "pcm" \notin Faults, "mixer" \notin Faults
  PROVE  Spec => []RefCounts
<1>1. TypeInv /\ DevInv => RefCounts
  <2> SUFFICES ASSUME TypeInv, DevInv
               PROVE  RefCounts
    OBVIOUS
  <2>1. Counted(hw, Use(hw, th[Ctl]))
    BY DEF DevInv, DataInv, Data
  <2>2. /\ hw.mPcmOpenCnt = Cardinality(PcmUsers)
        /\ hw.mMixerOpenCnt = Cardinality(MixerUsers)
        /\ hw.mPcm <=> hw.mPcmOpenCnt > 0
        /\ hw.mMixer <=> hw.mMixerOpenCnt > 0
    BY <2>1, UsersCount DEF Counted, PcmCount, MixerCount
  <2> QED BY <2>2, UsersCount DEF RefCounts
<1> QED BY <1>1, DevAlways, PTL

(* Whichever thread opened or closed a stream last, its PCM is open exactly  *)
(* when it is not in standby - unless write() waits for ever for its own     *)
(* mutex, which takes an echo canceller and a driver that refuses an open.   *)
THEOREM StandbyClosedHolds ==
  ASSUME "aec" \notin Calls \/ "pcm" \notin Faults
  PROVE  Spec => []StandbyClosed
<1>1. TypeInv /\ DevInv => StandbyClosed
  <2> SUFFICES ASSUME TypeInv, DevInv
               PROVE  StandbyClosed
    OBVIOUS
  <2>1. /\ Route(Playback, th[Playback], hw)
        /\ Data(hw, Use(hw, th[Ctl]), alive, Excused(th[Playback]))
    BY DevFacts DEF Threads
  <2>2. Excused(th[Playback]) = {}
    BY <2>1, NotStuck DEF Route, Stuck, Waiting
  <2> QED BY <2>1, <2>2 DEF Data, Closed, StandbyClosed
<1> QED BY <1>1, DevAlways, PTL

(* "as only one input can be in this state": whatever fails.                 *)
THEOREM OneActiveInputHolds == Spec => []OneActiveInput
<1>1. DevInv => OneActiveInput
  BY DEF DevInv, DataInv, Data, Closed, OneActiveInput
<1> QED BY <1>1, DevAlways, PTL

(* write() and read() use a PCM that is open, although other threads close   *)
(* and open it again between their calls.                                    *)
THEOREM IoOnOpenPcmHolds ==
  ASSUME "pcm" \notin Faults
  PROVE  Spec => []IoOnOpenPcm
<1>1. TypeInv /\ DevInv => IoOnOpenPcm
  <2> SUFFICES ASSUME TypeInv, DevInv
               PROVE  IoOnOpenPcm
    OBVIOUS
  <2>1. /\ Route(Playback, th[Playback], hw) /\ Playback \in Threads
        /\ Control(Playback, th[Playback], hw.mOutput, owner[HW] = Playback)
        /\ Knows(Playback, th[Playback], hw)
        /\ Data(hw, Use(hw, th[Ctl]), alive, Excused(th[Playback]))
    BY DevFacts DEF Threads
  <2>2. Excused(th[Playback]) = {}
    BY <2>1, NotStuck DEF Route, Stuck, Waiting
  <2>3. \A s \in Streams : ~hw.standby[s] => hw.pcm[s]
    BY <2>1, <2>2 DEF Data, Closed
  <2>4. ASSUME At(Playback, "w_pcm")
        PROVE  hw.pcm[hw.mOutput] /\ hw.mPcm
    <3>1. hw.mOutput \in Outputs /\ hw.pcm[hw.mOutput]
      BY <2>1, <2>3, <2>4 DEF Control, Knows, At, Streams
    <3>2. PcmUsers # {}
      BY <3>1 DEF PcmUsers
    <3>3. hw.mPcmOpenCnt > 0 /\ (hw.mPcm <=> hw.mPcmOpenCnt > 0)
      BY <2>1, <3>2, UsersCount DEF Data, Counted, PcmCount
    <3> QED BY <3>1, <3>3
  <2>5. ASSUME NEW i \in Inputs, At(i, "r_pcm")
        PROVE  hw.pcm[i]
    <3>1. Knows(i, th[i], hw)
      BY DevFacts DEF Threads
    <3> QED BY <2>3, <2>5, <3>1 DEF Knows, At, Streams
  <2> QED BY <2>4, <2>5 DEF IoOnOpenPcm
<1> QED BY <1>1, DevAlways, PTL

(* The echo reference of a write() or a read() is the one that is not        *)
(* released, as long as there is one input, or none asks for one.            *)
THEOREM EchoNotReleasedHolds ==
  ASSUME OneInput \/ "aec" \notin Calls
  PROVE  Spec => []EchoNotReleased
<1>1. TypeInv /\ DevInv => EchoNotReleased
  <2> SUFFICES ASSUME TypeInv, DevInv
               PROVE  EchoNotReleased
    OBVIOUS
  <2>1. /\ Control(Playback, th[Playback], hw.mOutput, owner[HW] = Playback)
        /\ Data(hw, Use(hw, th[Ctl]), alive, Excused(th[Playback]))
    BY DevFacts DEF Threads
  <2>2. At(Playback, "w_pcm") => hw.mOutput \in Outputs /\ hw.mOutput # NULL
    BY <2>1, StreamAssumption DEF Control, At, Streams
  <2> QED BY <2>1, <2>2 DEF Data, Echoes, EchoNotReleased, Streams
<1> QED BY <1>1, DevAlways, PTL

(* "spOut is not 0 here only if the output is active": as long as the mixer  *)
(* keeps its streams open, what setMode() has locked stays the output that   *)
(* plays until it has the input, too.                                        *)
THEOREM LockedStaysActiveHolds ==
  ASSUME "close" \notin Calls
  PROVE  Spec => []LockedStaysActive
<1>1. TypeInv /\ DevInv => LockedStaysActive
  <2> SUFFICES ASSUME TypeInv, DevInv,
                      th[Ctl].pc \in {"m_in", "m_hwi"}, th[Ctl].spOut # NULL
               PROVE  /\ owner[th[Ctl].spOut] = Ctl
                      /\ th[Ctl].spOut = hw.mOutput
                      /\ ~hw.standby[hw.mOutput]
    BY DEF LockedStaysActive
  <2> DEFINE o == th[Ctl].spOut
  <2>1. /\ Own(Ctl, th[Ctl], hw.mOutput, Mine(Ctl)) /\ Knows(Ctl, th[Ctl], hw)
        /\ th[Ctl] \in ThreadRecords /\ hw \in Hw
        /\ alive \subseteq {hw.mOutput} \union hw.mInputs
        /\ Points(th[Ctl]) \subseteq alive \union {NULL}
    BY DevFacts DEF Threads, DevInv, LiveInv
  <2>2. owner[o] = Ctl /\ ~hw.standby[o]
    BY <2>1 DEF Own, Knows, Mine
  <2>3. o \in Outputs /\ hw.mInputs \intersect Outputs = {}
    BY <2>1, StreamAssumption DEF ThreadRecords, Hw, HwRecords
  <2>4. o = hw.mOutput
    BY <2>1, <2>3 DEF Points
  <2> QED BY <2>2, <2>4
<1> QED BY <1>1, DevAlways, PTL

(* read(), write() and setMode() change the streams of other threads only    *)
(* with the mutexes of those held; for the echo reference that takes an      *)
(* output that stays open, or no echo canceller.                             *)
THEOREM StreamFieldsGuardedHolds ==
  ASSUME "close" \notin Calls \/ "aec" \notin Calls
  PROVE  Spec => StreamFieldsGuarded
<1>1. TypeInv /\ DevInv /\ [Next]_vars =>
        [\A s \in Streams :
           \/ owner[s] # NULL
           \/ /\ hw'.standby[s] = hw.standby[s]
              /\ hw'.pcm[s] = hw.pcm[s]
              /\ hw'.mixer[s] = hw.mixer[s]
              /\ s \in Outputs => hw'.echo[s] = hw.echo[s]]_vars
  <2> SUFFICES ASSUME TypeInv, DevInv, [Next]_vars,
                      NEW s \in Streams, owner[s] = NULL
               PROVE  /\ hw'.standby[s] = hw.standby[s]
                      /\ hw'.pcm[s] = hw.pcm[s]
                      /\ hw'.mixer[s] = hw.mixer[s]
                      /\ s \in Outputs => hw'.echo[s] = hw.echo[s]
    OBVIOUS
  <2>1. Untouched(hw', hw, s)
    BY DevNext DEF Moved, Guarded
  <2>2. hw \in Hw /\ hw' \in Hw
    BY NextType DEF TypeInv, TypeOK, Hw
  <2>3. \A h \in Hw : h.standby[s] \in BOOLEAN /\ h.pcm[s] \in BOOLEAN
                     /\ h.mixer[s] \in BOOLEAN
    BY DEF Hw, HwRecords
  <2> QED BY <2>1, <2>2, <2>3 DEF Untouched, Tame
<1> QED BY <1>1, DevAlways, PTL DEF Spec, StreamFieldsGuarded

(* The processor is kept awake just while sound is played: as long as the    *)
(* mixer keeps its output open and write() does not wait for itself.         *)
THEOREM WakeLockWhilePlayingHolds ==
  ASSUME "close" \notin Calls, "aec" \notin Calls \/ "pcm" \notin Faults
  PROVE  Spec => []WakeLockWhilePlaying
<1>1. TypeInv /\ DevInv => WakeLockWhilePlaying
  BY DEF DevInv, WakeInv, Meek, Wake, Up, WakeLockWhilePlaying
<1> QED BY <1>1, DevAlways, PTL
===============================================================================
