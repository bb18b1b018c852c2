------------------------------ MODULE ControlsProofs ------------------------------
(* The settings of the camera, for any cameras, whatever a client asks for  *)
(* and whichever calls of the driver fail.                                  *)
EXTENDS ControlsProps, TLAPS

Words ==
  Int \union {Nothing, "fixed", "15-30", "7.5-30", "4-30", "dummy"}
    \union DOMAIN IsoOf \union DOMAIN WhiteOf \union DOMAIN EffectOf
    \union DOMAIN FocusOf \union DOMAIN FlashOf \union DOMAIN SceneOf
    \union SUBSET DOMAIN FlashOf

Values ==
  Int \union BOOLEAN
    \union {Nothing, "AUTO", "ISO_MOVIE", "METERING_CENTER", "METERING_MATRIX",
            "CONTRAST_DEFAULT", "SHARPNESS_DEFAULT", "SATURATION_DEFAULT"}
    \union {IsoOf[w] : w \in DOMAIN IsoOf} \union {WhiteOf[w] : w \in DOMAIN WhiteOf}
    \union {EffectOf[w] : w \in DOMAIN EffectOf} \union {FocusOf[w] : w \in DOMAIN FocusOf}
    \union {FlashOf[w] : w \in DOMAIN FlashOf} \union {SceneOf[w] : w \in DOMAIN SceneOf}

HalType ==
  [told : [Keys -> Words], cached : [Controls -> Values], sensor : [Controls -> Values],
   id : {"back", "front", Nothing}, started : BOOLEAN, recording : BOOLEAN,
   ret : BOOLEAN, err : BOOLEAN, fail : Failures \union {{}},
   unsent : BOOLEAN, spoilt : BOOLEAN]

TypeOK == hal \in HalType

(* A torch that is on was asked for and belongs to a running preview.       *)
TorchInv(d) ==
  ~d.spoilt /\ d.sensor["flash"] = "FLASH_TORCH" =>
    d.started /\ d.cached["flash"] = "FLASH_TORCH"

(* What any part of a call keeps: the session; what the sensor and the      *)
(* cache agree on, unless a driver call fails (but for the frame rate); and *)
(* the torch.                                                               *)
Keeps(d, t) ==
  /\ t \in HalType
  /\ t.id = d.id /\ t.started = d.started /\ t.recording = d.recording /\ t.fail = d.fail
  /\ d.spoilt => t.spoilt
  /\ d.unsent => t.unsent
  /\ \A x \in Resent \ {"rate"} :
       d.started /\ ~t.unsent /\ d.sensor[x] = d.cached[x] => t.sensor[x] = t.cached[x]
  /\ TorchInv(d) => TorchInv(t)

(* What setting control x to value v does, at most.                         *)
Sets(d, t, x, v) ==
  /\ Keeps(d, t)
  /\ t.told = d.told /\ t.ret = d.ret
  /\ t.cached = [d.cached EXCEPT ![x] = v]
  /\ \A y \in Controls \ {x} : t.sensor[y] = d.sensor[y]
  /\ t.err => t.spoilt

-------------------------------------------------------------------------------
(* Setters *)

(* Failing changes no setting.                                              *)
LEMMA FailFields ==
  ASSUME NEW d \in HalType
  PROVE  LET t == Fail(d)
         IN  /\ t \in HalType /\ t.told = d.told /\ t.cached = d.cached /\ t.sensor = d.sensor
             /\ t.id = d.id /\ t.started = d.started /\ t.recording = d.recording
             /\ t.ret = d.ret /\ t.fail = d.fail /\ t.unsent /\ t.spoilt
<1>1. PICK b \in BOOLEAN : b = TRUE
  OBVIOUS
<1>2. PICK t : t = [d EXCEPT !.err = b, !.unsent = b, !.spoilt = b]
  OBVIOUS
<1>3. /\ t \in HalType /\ t.told = d.told /\ t.cached = d.cached /\ t.sensor = d.sensor
      /\ t.id = d.id /\ t.started = d.started /\ t.recording = d.recording
      /\ t.ret = d.ret /\ t.fail = d.fail /\ t.unsent = b /\ t.spoilt = b
  BY <1>2 DEF HalType
<1> QED BY <1>1, <1>2, <1>3 DEF Fail

(* Caching changes nothing but the cache.                                   *)
LEMMA CacheFields ==
  ASSUME NEW d \in HalType, NEW x \in Controls, NEW v \in Values
  PROVE  LET t == Cache(d, x, v)
         IN  /\ t \in HalType /\ t.told = d.told /\ t.cached = [d.cached EXCEPT ![x] = v]
             /\ t.sensor = d.sensor
             /\ t.id = d.id /\ t.started = d.started /\ t.recording = d.recording
             /\ t.ret = d.ret /\ t.fail = d.fail /\ t.unsent = d.unsent
             /\ t.spoilt = d.spoilt /\ ~t.err
<1>1. PICK b \in BOOLEAN : b = FALSE
  OBVIOUS
<1>2. PICK f : f = [d.cached EXCEPT ![x] = v]
  OBVIOUS
<1>3. f \in [Controls -> Values]
  BY <1>2 DEF HalType
<1>4. PICK t : t = [d EXCEPT !.cached = f, !.err = b]
  OBVIOUS
<1>5. /\ t \in HalType /\ t.told = d.told /\ t.cached = f /\ t.sensor = d.sensor
      /\ t.id = d.id /\ t.started = d.started /\ t.recording = d.recording
      /\ t.ret = d.ret /\ t.fail = d.fail /\ t.unsent = d.unsent
      /\ t.spoilt = d.spoilt /\ t.err = b
  BY <1>3, <1>4 DEF HalType
<1>6. Cache(d, x, v) = t
  BY <1>1, <1>2, <1>4 DEF Cache, HalType
<1> QED BY <1>1, <1>2, <1>5, <1>6

(* Passing a value on either reaches the sensor or fails.                   *)
LEMMA SendFields ==
  ASSUME NEW d \in HalType, NEW x \in Controls, NEW v \in Values
  PROVE  LET t == Send(d, x, v)
         IN  /\ t \in HalType /\ t.told = d.told /\ t.cached = d.cached
             /\ t.id = d.id /\ t.started = d.started /\ t.recording = d.recording
             /\ t.ret = d.ret /\ t.fail = d.fail
             /\ \A y \in Controls \ {x} : t.sensor[y] = d.sensor[y]
             /\ \/ t.sensor = d.sensor /\ t.unsent /\ t.spoilt /\ x \in d.fail
                \/ /\ t.sensor[x] = v /\ t.unsent = d.unsent /\ t.spoilt = d.spoilt
                   /\ t.err = d.err
<1>1. CASE x \in d.fail
  BY <1>1, FailFields DEF Send
<1>2. CASE x \notin d.fail
  <2>1. PICK f : f = [d.sensor EXCEPT ![x] = v]
    OBVIOUS
  <2>2. f \in [Controls -> Values] /\ f[x] = v /\ \A y \in Controls \ {x} : f[y] = d.sensor[y]
    BY <2>1 DEF HalType
  <2>3. PICK t : t = [d EXCEPT !.sensor = f]
    OBVIOUS
  <2>4. /\ t \in HalType /\ t.told = d.told /\ t.cached = d.cached /\ t.sensor = f
        /\ t.id = d.id /\ t.started = d.started /\ t.recording = d.recording
        /\ t.ret = d.ret /\ t.fail = d.fail /\ t.unsent = d.unsent
        /\ t.spoilt = d.spoilt /\ t.err = d.err
    BY <2>2, <2>3 DEF HalType
  <2>5. Send(d, x, v) = t
    BY <1>2, <2>1, <2>3 DEF Send, HalType
  <2> QED BY <2>2, <2>4, <2>5
<1> QED BY <1>1, <1>2

(* The setters: the cache has the value, and while the preview runs the     *)
(* sensor goes with it.                                                     *)
LEMMA SetControlSets ==
  ASSUME NEW d \in HalType, NEW x \in Controls, NEW v \in Values
  PROVE  Sets(d, SetControl(d, x, v), x, v)
<1> DEFINE e == Cache(d, x, v)
           t == SetControl(d, x, v)
<1>1. /\ e \in HalType /\ e.told = d.told /\ e.cached = [d.cached EXCEPT ![x] = v]
      /\ e.sensor = d.sensor
      /\ e.id = d.id /\ e.started = d.started /\ e.recording = d.recording
      /\ e.ret = d.ret /\ e.fail = d.fail /\ e.unsent = d.unsent
      /\ e.spoilt = d.spoilt /\ ~e.err
  BY CacheFields
<1>2. d.cached \in [Controls -> Values] /\ Resent \subseteq Controls
  BY DEF HalType, Controls
<1>3. e.cached[x] = v /\ \A y \in Controls \ {x} : e.cached[y] = d.cached[y]
  BY <1>1, <1>2
<1>4. CASE d.cached[x] # v /\ d.started
  <2>1. t = Send(e, x, v)
    BY <1>4 DEF SetControl
  <2>2. /\ t \in HalType /\ t.told = e.told /\ t.cached = e.cached
        /\ t.id = e.id /\ t.started = e.started /\ t.recording = e.recording
        /\ t.ret = e.ret /\ t.fail = e.fail
        /\ \A y \in Controls \ {x} : t.sensor[y] = e.sensor[y]
        /\ \/ t.sensor = e.sensor /\ t.unsent /\ t.spoilt
           \/ /\ t.sensor[x] = v /\ t.unsent = e.unsent /\ t.spoilt = e.spoilt
              /\ t.err = e.err
    <3> HIDE DEF e, t
    <3> QED BY <1>1, <2>1, SendFields
  <2> HIDE DEF e, t
  <2>3. TorchInv(d) => TorchInv(t)
    BY <1>1, <1>3, <1>4, <2>2 DEF TorchInv, Controls, Resent
  <2>4. \A y \in Resent \ {"rate"} :
         d.started /\ ~t.unsent /\ d.sensor[y] = d.cached[y] => t.sensor[y] = t.cached[y]
    BY <1>1, <1>2, <1>3, <2>2
  <2>5. Keeps(d, t)
    BY <1>1, <2>2, <2>3, <2>4 DEF Keeps
  <2> QED BY <1>1, <2>2, <2>5 DEF Sets, t
<1>5. CASE ~(d.cached[x] # v /\ d.started)
  <2>1. t = e
    BY <1>5 DEF SetControl
  <2> HIDE DEF e, t
  <2>2. TorchInv(d) => TorchInv(t)
    BY <1>1, <1>3, <1>5, <2>1 DEF TorchInv, Controls, Resent
  <2>3. \A y \in Resent \ {"rate"} :
         d.started /\ ~t.unsent /\ d.sensor[y] = d.cached[y] => t.sensor[y] = t.cached[y]
    BY <1>1, <1>2, <1>3, <1>5, <2>1
  <2>4. Keeps(d, t)
    BY <1>1, <2>1, <2>2, <2>3 DEF Keeps
  <2> QED BY <1>1, <2>1, <2>4 DEF Sets, t
<1> QED BY <1>4, <1>5

(* So a setter may follow a setter.                                         *)
LEMMA SetControlType ==
  ASSUME NEW d \in HalType, NEW x \in Controls, NEW v \in Values
  PROVE  SetControl(d, x, v) \in HalType
BY SetControlSets DEF Sets, Keeps

(* Nothing that is kept is lost between two parts of a call.                *)
LEMMA KeepsTrans ==
  ASSUME NEW d, NEW t, NEW u, Keeps(d, t), Keeps(t, u)
  PROVE  Keeps(d, u)
BY DEF Keeps

(* Doing nothing keeps everything.                                          *)
LEMMA KeepsRefl ==
  ASSUME NEW d \in HalType
  PROVE  Keeps(d, d)
BY DEF Keeps

-------------------------------------------------------------------------------
(* The sections of setParameters()                                          *)

(* The keys a client may set, the control of each, the word asked for (with *)
(* a scene, the scene's), the words it may have and the driver's values.    *)
Settings == {"quality", "exposure", "iso", "white", "effect", "focus", "flash", "scene"}

ControlOf(k) == IF k = "exposure" THEN "brightness" ELSE k

Asked(p, k) ==
  IF k = "focus" THEN FocusIn(p) ELSE IF k = "flash" THEN FlashIn(p) ELSE p[k]

Valid(k) ==
  CASE k = "quality"  -> 1..100
    [] k = "exposure" -> -4..4
    [] k = "iso"      -> DOMAIN IsoOf
    [] k = "white"    -> DOMAIN WhiteOf
    [] k = "effect"   -> DOMAIN EffectOf
    [] k = "focus"    -> DOMAIN FocusOf
    [] k = "flash"    -> DOMAIN FlashOf
    [] k = "scene"    -> DOMAIN SceneOf

ValueOf(k, w) ==
  CASE k \in {"quality", "exposure"} -> w
    [] k = "iso"    -> IsoOf[w]
    [] k = "white"  -> WhiteOf[w]
    [] k = "effect" -> EffectOf[w]
    [] k = "focus"  -> FocusOf[w]
    [] k = "flash"  -> FlashOf[w]
    [] k = "scene"  -> SceneOf[w]

(* What is asked for is supported; a bad quality or exposure is ignored.    *)
Supported(p) ==
  \A k \in Settings \ {"quality", "exposure"} : Asked(p, k) \in Valid(k)

(* What the sections of the keys K make of p: the control of each key has   *)
(* the value asked for, the client is told unless a driver call failed, and *)
(* nothing else changes.  (A touch of the area and the contrast are not     *)
(* settings.)                                                               *)
Asks(d, t, p, K) ==
  /\ Keeps(d, t)
  /\ \A k \in Settings \ K : t.cached[ControlOf(k)] = d.cached[ControlOf(k)]
  /\ \A x \in {"rate", "metering"} :
       t.cached[x] = d.cached[x] /\ t.sensor[x] = d.sensor[x]
  /\ \A k \in Keys \ K : t.told[k] = d.told[k]
  /\ \A k \in K :
       IF Asked(p, k) \in Valid(k)
       THEN /\ t.cached[ControlOf(k)] = ValueOf(k, Asked(p, k))
            /\ t.told[k] \in {d.told[k], Asked(p, k)}
            /\ ~t.spoilt => t.told[k] = Asked(p, k)
       ELSE /\ t.cached[ControlOf(k)] = d.cached[ControlOf(k)]
            /\ t.told[k] = d.told[k]
  /\ ~t.spoilt /\ d.ret /\ Supported(p) => t.ret

(* Every setting is a key and has a control of its own.                     *)
LEMMA SettingTypes ==
  /\ Settings \subseteq Keys
  /\ \A k \in Settings :
       /\ ControlOf(k) \in Controls \ {"rate", "metering", "touch", "contrast"}
       /\ \A j \in Settings : ControlOf(j) = ControlOf(k) => j = k
<1>1. Keys = {"quality", "exposure", "iso", "white", "effect", "focus", "fps", "scene",
              "flash", "flashes", "area"}
  BY DEF Keys, Defaults
<1> QED BY <1>1 DEF Settings, ControlOf, Controls, Resent

(* Every valid word is a word, and the driver has a value for it.           *)
LEMMA ValueTypes ==
  ASSUME NEW k \in Settings, NEW w \in Valid(k)
  PROVE  w \in Words /\ ValueOf(k, w) \in Values
<1>1. CASE k \in {"quality", "exposure"}
  BY <1>1 DEF Valid, ValueOf, Words, Values
<1>2. CASE k = "iso"
  BY <1>2 DEF Valid, ValueOf, Words, Values
<1>3. CASE k = "white"
  BY <1>3 DEF Valid, ValueOf, Words, Values
<1>4. CASE k = "effect"
  BY <1>4 DEF Valid, ValueOf, Words, Values
<1>5. CASE k = "focus"
  BY <1>5 DEF Valid, ValueOf, Words, Values
<1>6. CASE k = "flash"
  BY <1>6 DEF Valid, ValueOf, Words, Values
<1>7. CASE k = "scene"
  BY <1>7 DEF Valid, ValueOf, Words, Values
<1> QED BY <1>1, <1>2, <1>3, <1>4, <1>5, <1>6, <1>7 DEF Settings

(* The sections of two disjoint sets of keys are those of both.             *)
LEMMA AsksTrans ==
  ASSUME NEW d, NEW t, NEW u, NEW p, NEW K \in SUBSET Settings, NEW L \in SUBSET Settings,
         K \intersect L = {}, Asks(d, t, p, K), Asks(t, u, p, L)
  PROVE  Asks(d, u, p, K \union L)
<1>1. Keeps(d, u) /\ (~u.spoilt => ~t.spoilt)
  BY KeepsTrans DEF Asks, Keeps
<1>2. \A k \in Settings \ (K \union L) : u.cached[ControlOf(k)] = d.cached[ControlOf(k)]
  BY DEF Asks
<1>3. \A x \in {"rate", "metering"} :
        u.cached[x] = d.cached[x] /\ u.sensor[x] = d.sensor[x]
  BY DEF Asks
<1>4. \A k \in Keys \ (K \union L) : u.told[k] = d.told[k]
  BY DEF Asks
<1>5. ASSUME NEW k \in K \union L
      PROVE  IF Asked(p, k) \in Valid(k)
             THEN /\ u.cached[ControlOf(k)] = ValueOf(k, Asked(p, k))
                  /\ u.told[k] \in {d.told[k], Asked(p, k)}
                  /\ ~u.spoilt => u.told[k] = Asked(p, k)
             ELSE /\ u.cached[ControlOf(k)] = d.cached[ControlOf(k)]
                  /\ u.told[k] = d.told[k]
  <2>1. k \in Keys /\ k \in Settings
    BY SettingTypes
  <2>2. CASE k \in K
    <3>1. u.cached[ControlOf(k)] = t.cached[ControlOf(k)] /\ u.told[k] = t.told[k]
      BY <2>1, <2>2 DEF Asks
    <3> QED BY <1>1, <2>2, <3>1 DEF Asks
  <2>3. CASE k \in L
    <3>1. t.cached[ControlOf(k)] = d.cached[ControlOf(k)] /\ t.told[k] = d.told[k]
      BY <2>1, <2>3 DEF Asks
    <3> QED BY <1>1, <2>3, <3>1 DEF Asks
  <2> QED BY <2>2, <2>3
<1>6. ~u.spoilt /\ d.ret /\ Supported(p) => u.ret
  BY <1>1 DEF Asks
<1> QED BY <1>1, <1>2, <1>3, <1>4, <1>5, <1>6 DEF Asks

(* An error of setParameters() changes nothing but what it returns.         *)
LEMMA ErrorKeeps ==
  ASSUME NEW d \in HalType
  PROVE  Keeps(d, Error(d)) /\ Error(d) \in HalType
<1>1. PICK t : t = Error(d)
  OBVIOUS
<1>2. /\ t \in HalType /\ t.told = d.told /\ t.cached = d.cached /\ t.sensor = d.sensor
      /\ t.id = d.id /\ t.started = d.started /\ t.recording = d.recording
      /\ t.fail = d.fail /\ t.unsent = d.unsent /\ t.spoilt = d.spoilt
  BY <1>1 DEF Error, HalType
<1> QED BY <1>1, <1>2 DEF Keeps, TorchInv

(* A word that is not valid is refused, and changes nothing.                *)
LEMMA ErrorAsks ==
  ASSUME NEW d \in HalType, NEW p, NEW K \in SUBSET Settings,
         \A k \in K : Asked(p, k) \notin Valid(k)
  PROVE  /\ Asks(d, d, p, K)
         /\ (d.spoilt \/ ~Supported(p)) => Asks(d, Error(d), p, K)
<1>1. PICK t : t = Error(d)
  OBVIOUS
<1>2. /\ t \in HalType /\ t.told = d.told /\ t.cached = d.cached /\ t.sensor = d.sensor
      /\ t.id = d.id /\ t.started = d.started /\ t.recording = d.recording
      /\ t.fail = d.fail /\ t.unsent = d.unsent /\ t.spoilt = d.spoilt
  BY <1>1 DEF Error, HalType
<1>3. Keeps(d, d) /\ Keeps(d, t)
  BY <1>2 DEF Keeps, TorchInv
<1> QED BY <1>1, <1>2, <1>3 DEF Asks

(* Telling the client a word, unless the setter failed.                     *)
LEMMA TellFields ==
  ASSUME NEW d \in HalType, NEW k \in Keys, NEW w \in Words
  PROVE  LET t == Tell(d, k, w)
         IN  /\ t \in HalType /\ t.cached = d.cached /\ t.sensor = d.sensor
             /\ t.id = d.id /\ t.started = d.started /\ t.recording = d.recording
             /\ t.fail = d.fail /\ t.unsent = d.unsent /\ t.spoilt = d.spoilt
             /\ \A j \in Keys \ {k} : t.told[j] = d.told[j]
             /\ IF d.err THEN t.told[k] = d.told[k] ELSE t.told[k] = w /\ t.ret = d.ret
<1>1. CASE d.err
  BY <1>1 DEF Tell, Error, HalType
<1>2. CASE ~d.err
  <2>1. PICK f : f = [d.told EXCEPT ![k] = w]
    OBVIOUS
  <2>2. f \in [Keys -> Words] /\ f[k] = w /\ \A j \in Keys \ {k} : f[j] = d.told[j]
    BY <2>1 DEF HalType
  <2>3. PICK t : t = [d EXCEPT !.told = f]
    OBVIOUS
  <2>4. /\ t \in HalType /\ t.told = f /\ t.cached = d.cached /\ t.sensor = d.sensor
        /\ t.id = d.id /\ t.started = d.started /\ t.recording = d.recording
        /\ t.ret = d.ret /\ t.fail = d.fail /\ t.unsent = d.unsent
        /\ t.spoilt = d.spoilt
    BY <2>2, <2>3 DEF HalType
  <2>5. Tell(d, k, w) = t
    BY <1>2, <2>1, <2>3 DEF Tell, HalType
  <2> QED BY <1>2, <2>2, <2>4, <2>5
<1> QED BY <1>1, <1>2

(* A setter and what the client is told of it.                              *)
LEMMA TellAsks ==
  ASSUME NEW d \in HalType, NEW p, NEW k \in Settings, Asked(p, k) \in Valid(k),
         NEW e, Sets(d, e, ControlOf(k), ValueOf(k, Asked(p, k)))
  PROVE  Asks(d, Tell(e, k, Asked(p, k)), p, {k})
<1> DEFINE w == Asked(p, k)
           x == ControlOf(k)
<1>1. /\ k \in Keys /\ x \in Controls \ {"rate", "metering"}
      /\ \A j \in Settings : ControlOf(j) \in Controls /\ (ControlOf(j) = x => j = k)
      /\ {"rate", "metering"} \subseteq Controls
  BY SettingTypes DEF Controls, Resent
<1>2. w \in Words
  BY ValueTypes
<1>3. PICK t : t = Tell(e, k, w)
  OBVIOUS
<1>4. e \in HalType
  BY DEF Sets, Keeps
<1>5. /\ t \in HalType /\ t.cached = e.cached /\ t.sensor = e.sensor
      /\ t.id = e.id /\ t.started = e.started /\ t.recording = e.recording
      /\ t.fail = e.fail /\ t.unsent = e.unsent /\ t.spoilt = e.spoilt
      /\ \A j \in Keys \ {k} : t.told[j] = e.told[j]
      /\ IF e.err THEN t.told[k] = e.told[k] ELSE t.told[k] = w /\ t.ret = e.ret
  BY <1>1, <1>2, <1>3, <1>4, TellFields
<1> HIDE DEF w, x
<1>6. Keeps(d, t)
  BY <1>5 DEF Sets, Keeps, TorchInv
<1>7. /\ e.cached[x] = ValueOf(k, w)
      /\ \A y \in Controls \ {x} : e.cached[y] = d.cached[y] /\ e.sensor[y] = d.sensor[y]
  BY <1>1 DEF Sets, HalType, w, x
<1>8. /\ \A j \in Settings \ {k} : t.cached[ControlOf(j)] = d.cached[ControlOf(j)]
      /\ \A y \in {"rate", "metering"} :
           t.cached[y] = d.cached[y] /\ t.sensor[y] = d.sensor[y]
  BY <1>1, <1>5, <1>7
<1>9. /\ t.told[k] \in {d.told[k], w}
      /\ ~t.spoilt => t.told[k] = w /\ t.ret = d.ret
      /\ \A j \in Keys \ {k} : t.told[j] = d.told[j]
  BY <1>5 DEF Sets
<1>10. t.cached[x] = ValueOf(k, w)
  BY <1>5, <1>7
<1> QED BY <1>3, <1>6, <1>8, <1>9, <1>10 DEF Asks, w, x

(* A control that the preview does not pass on may only be cached.          *)
LEMMA CacheSets ==
  ASSUME NEW d \in HalType, NEW x \in Controls \ Resent, NEW v \in Values
  PROVE  Sets(d, Cache(d, x, v), x, v)
<1>1. PICK t : t = Cache(d, x, v)
  OBVIOUS
<1>2. /\ t \in HalType /\ t.told = d.told /\ t.cached = [d.cached EXCEPT ![x] = v]
      /\ t.sensor = d.sensor
      /\ t.id = d.id /\ t.started = d.started /\ t.recording = d.recording
      /\ t.ret = d.ret /\ t.fail = d.fail /\ t.unsent = d.unsent
      /\ t.spoilt = d.spoilt /\ ~t.err
  BY <1>1, CacheFields
<1>3. d.cached \in [Controls -> Values] /\ Resent \subseteq Controls /\ "flash" \in Resent
  BY DEF HalType, Controls, Resent
<1>4. \A y \in Resent : t.cached[y] = d.cached[y]
  BY <1>2, <1>3
<1>5. Keeps(d, t)
  BY <1>2, <1>3, <1>4 DEF Keeps, TorchInv
<1> QED BY <1>1, <1>2, <1>5 DEF Sets

(* The quality, which the front camera only caches.                          *)
LEMMA QualityAsks ==
  ASSUME NEW d \in HalType, NEW p
  PROVE  Asks(d, ParamQuality(d, p), p, {"quality"})
<1> DEFINE e == setJpegQuality(d, p.quality)
<1>1. Asked(p, "quality") = p.quality /\ Valid("quality") = 1..100
      /\ ControlOf("quality") = "quality" /\ "quality" \in Settings
  BY DEF Asked, Valid, ControlOf, Settings
<1>2. CASE p.quality \in 1..100
  <2>1. p.quality \in Values /\ ValueOf("quality", p.quality) = p.quality
    BY <1>2 DEF Values, ValueOf
  <2>2. "quality" \in Controls \ Resent
    BY DEF Controls, Resent
  <2>3. Sets(d, e, "quality", p.quality)
    BY <2>1, <2>2, SetControlSets, CacheSets DEF setJpegQuality
  <2>4. Asks(d, Tell(e, "quality", p.quality), p, {"quality"})
    <3> HIDE DEF e
    <3> QED BY <1>1, <1>2, <2>1, <2>3, TellAsks
  <2> QED BY <1>2, <2>4 DEF ParamQuality
<1>3. CASE p.quality \notin 1..100
  BY <1>1, <1>3, ErrorAsks DEF ParamQuality
<1> QED BY <1>2, <1>3

(* The exposure, whose range the client and the setter share.                *)
LEMMA ExposureAsks ==
  ASSUME NEW d \in HalType, NEW p
  PROVE  Asks(d, ParamExposure(d, p), p, {"exposure"})
<1> DEFINE e == setBrightness(d, p.exposure)
<1>1. Asked(p, "exposure") = p.exposure /\ Valid("exposure") = -4..4
      /\ ControlOf("exposure") = "brightness" /\ "exposure" \in Settings
  BY DEF Asked, Valid, ControlOf, Settings
<1>2. CASE p.exposure \in -4..4
  <2>1. p.exposure \in Values /\ ValueOf("exposure", p.exposure) = p.exposure
    BY <1>2 DEF Values, ValueOf
  <2>2. "brightness" \in Controls
    BY DEF Controls, Resent
  <2>3. Sets(d, e, "brightness", p.exposure)
    BY <1>2, <2>1, <2>2, SetControlSets DEF setBrightness
  <2>4. Asks(d, Tell(e, "exposure", p.exposure), p, {"exposure"})
    <3> HIDE DEF e
    <3> QED BY <1>1, <1>2, <2>1, <2>3, TellAsks
  <2> QED BY <1>2, <2>4 DEF ParamExposure
<1>3. CASE p.exposure \notin -4..4
  BY <1>1, <1>3, ErrorAsks DEF ParamExposure
<1> QED BY <1>2, <1>3

(* A setting that is set with the driver's value and told.                  *)
LEMMA SettingAsks ==
  ASSUME NEW d \in HalType, NEW p, NEW k \in Settings, Asked(p, k) \in Valid(k)
  PROVE  Asks(d, Tell(SetControl(d, ControlOf(k), ValueOf(k, Asked(p, k))), k, Asked(p, k)),
              p, {k})
<1>1. PICK e : e = SetControl(d, ControlOf(k), ValueOf(k, Asked(p, k)))
  OBVIOUS
<1>2. ControlOf(k) \in Controls /\ ValueOf(k, Asked(p, k)) \in Values
  BY SettingTypes, ValueTypes
<1>3. Sets(d, e, ControlOf(k), ValueOf(k, Asked(p, k)))
  BY <1>1, <1>2, SetControlSets
<1> QED BY <1>1, <1>3, TellAsks

(* A word that is not in the table of a setting is an error.                *)
LEMMA RefusedAsks ==
  ASSUME NEW d \in HalType, NEW p, NEW k \in Settings \ {"quality", "exposure"},
         Asked(p, k) \notin Valid(k)
  PROVE  Asks(d, Error(d), p, {k}) /\ Asks(d, d, p, {k})
BY ErrorAsks DEF Supported

(* The ISO value.                                                            *)
LEMMA IsoAsks ==
  ASSUME NEW d \in HalType, NEW p
  PROVE  Asks(d, ParamIso(d, p), p, {"iso"})
<1>1. Asked(p, "iso") = p.iso /\ Valid("iso") = DOMAIN IsoOf
      /\ ControlOf("iso") = "iso" /\ "iso" \in Settings \ {"quality", "exposure"}
  BY DEF Asked, Valid, ControlOf, Settings
<1>2. ValueOf("iso", p.iso) = IsoOf[p.iso]
  BY DEF ValueOf
<1>3. CASE p.iso \in DOMAIN IsoOf
  <2>1. ParamIso(d, p) = Tell(SetControl(d, "iso", IsoOf[p.iso]), "iso", p.iso)
    BY <1>3 DEF ParamIso, setISO
  <2> QED BY <1>1, <1>2, <1>3, <2>1, SettingAsks
<1>4. CASE p.iso \notin DOMAIN IsoOf
  BY <1>1, <1>4, RefusedAsks DEF ParamIso
<1> QED BY <1>3, <1>4

(* The white balance.                                                        *)
LEMMA WhiteAsks ==
  ASSUME NEW d \in HalType, NEW p
  PROVE  Asks(d, ParamWhite(d, p), p, {"white"})
<1>1. Asked(p, "white") = p.white /\ Valid("white") = DOMAIN WhiteOf
      /\ ControlOf("white") = "white" /\ "white" \in Settings \ {"quality", "exposure"}
  BY DEF Asked, Valid, ControlOf, Settings
<1>2. ValueOf("white", p.white) = WhiteOf[p.white]
  BY DEF ValueOf
<1>3. CASE p.white \in DOMAIN WhiteOf
  <2>1. ParamWhite(d, p)
          = Tell(SetControl(d, "white", WhiteOf[p.white]), "white", p.white)
    BY <1>3 DEF ParamWhite, setWhiteBalance
  <2> QED BY <1>1, <1>2, <1>3, <2>1, SettingAsks
<1>4. CASE p.white \notin DOMAIN WhiteOf
  BY <1>1, <1>4, RefusedAsks DEF ParamWhite
<1> QED BY <1>3, <1>4

(* The effect.                                                               *)
LEMMA EffectAsks ==
  ASSUME NEW d \in HalType, NEW p
  PROVE  Asks(d, ParamEffect(d, p), p, {"effect"})
<1>1. Asked(p, "effect") = p.effect /\ Valid("effect") = DOMAIN EffectOf
      /\ ControlOf("effect") = "effect" /\ "effect" \in Settings \ {"quality", "exposure"}
  BY DEF Asked, Valid, ControlOf, Settings
<1>2. ValueOf("effect", p.effect) = EffectOf[p.effect]
  BY DEF ValueOf
<1>3. CASE p.effect \in DOMAIN EffectOf
  <2>1. ParamEffect(d, p)
          = Tell(SetControl(d, "effect", EffectOf[p.effect]), "effect", p.effect)
    BY <1>3 DEF ParamEffect, setImageEffect
  <2> QED BY <1>1, <1>2, <1>3, <2>1, SettingAsks
<1>4. CASE p.effect \notin DOMAIN EffectOf
  BY <1>1, <1>4, RefusedAsks DEF ParamEffect
<1> QED BY <1>3, <1>4

(* The focus, or that of the scene.                                          *)
LEMMA FocusAsks ==
  ASSUME NEW d \in HalType, NEW p
  PROVE  Asks(d, ParamFocus(d, p), p, {"focus"})
<1>1. Asked(p, "focus") = FocusIn(p) /\ Valid("focus") = DOMAIN FocusOf
      /\ ControlOf("focus") = "focus" /\ "focus" \in Settings \ {"quality", "exposure"}
  BY DEF Asked, Valid, ControlOf, Settings
<1>2. ValueOf("focus", FocusIn(p)) = FocusOf[FocusIn(p)]
  BY DEF ValueOf
<1>3. CASE FocusIn(p) \in DOMAIN FocusOf
  <2>1. ParamFocus(d, p)
          = Tell(SetControl(d, "focus", FocusOf[FocusIn(p)]), "focus", FocusIn(p))
    BY <1>3 DEF ParamFocus, setFocusMode
  <2> QED BY <1>1, <1>2, <1>3, <2>1, SettingAsks
<1>4. CASE FocusIn(p) \notin DOMAIN FocusOf
  BY <1>1, <1>4, RefusedAsks DEF ParamFocus
<1> QED BY <1>3, <1>4

(* The flash, or that of the scene.                                          *)
LEMMA FlashAsks ==
  ASSUME NEW d \in HalType, NEW p
  PROVE  Asks(d, ParamFlash(d, p), p, {"flash"})
<1>1. Asked(p, "flash") = FlashIn(p) /\ Valid("flash") = DOMAIN FlashOf
      /\ ControlOf("flash") = "flash" /\ "flash" \in Settings \ {"quality", "exposure"}
  BY DEF Asked, Valid, ControlOf, Settings
<1>2. ValueOf("flash", FlashIn(p)) = FlashOf[FlashIn(p)]
  BY DEF ValueOf
<1>3. CASE FlashIn(p) \in DOMAIN FlashOf
  <2>1. ParamFlash(d, p)
          = Tell(SetControl(d, "flash", FlashOf[FlashIn(p)]), "flash", FlashIn(p))
    BY <1>3 DEF ParamFlash, setFlashMode
  <2> QED BY <1>1, <1>2, <1>3, <2>1, SettingAsks
<1>4. CASE FlashIn(p) \notin DOMAIN FlashOf
  BY <1>1, <1>4, RefusedAsks DEF ParamFlash
<1> QED BY <1>3, <1>4

(* The scene; one that the camera does not have is skipped.                  *)
LEMMA SceneAsks ==
  ASSUME NEW d \in HalType, NEW p
  PROVE  Asks(d, ParamScene(d, p), p, {"scene"})
<1>1. Asked(p, "scene") = p.scene /\ Valid("scene") = DOMAIN SceneOf
      /\ ControlOf("scene") = "scene" /\ "scene" \in Settings \ {"quality", "exposure"}
  BY DEF Asked, Valid, ControlOf, Settings
<1>2. ValueOf("scene", p.scene) = SceneOf[p.scene]
  BY DEF ValueOf
<1>3. CASE p.scene \in DOMAIN SceneOf
  <2>1. ParamScene(d, p)
          = Tell(SetControl(d, "scene", SceneOf[p.scene]), "scene", p.scene)
    BY <1>3 DEF ParamScene, setSceneMode
  <2> QED BY <1>1, <1>2, <1>3, <2>1, SettingAsks
<1>4. CASE p.scene \notin DOMAIN SceneOf
  BY <1>1, <1>4, RefusedAsks DEF ParamScene
<1> QED BY <1>3, <1>4

(* The area of the focus is no setting.                                     *)
LEMMA AreaAsks ==
  ASSUME NEW d \in HalType, NEW p
  PROVE  Asks(d, ParamArea(d, p), p, {})
<1>0. PICK v \in Values : v = (p.area # "dummy")
  BY DEF Values
<1> DEFINE e == setTouchAFStartStop(d, v)
<1>1. "touch" \in Controls \ Resent
  BY DEF Controls, Resent
<1>2. /\ Keeps(d, e) /\ e.told = d.told /\ e.ret = d.ret
      /\ \A y \in Controls \ {"touch"} : e.cached[y] = d.cached[y] /\ e.sensor[y] = d.sensor[y]
      /\ e.err => e.spoilt
  <2>1. CASE d.started
    <3>1. PICK f : f = Cache(d, "touch", v)
      OBVIOUS
    <3>2. /\ Sets(d, f, "touch", v) /\ f \in HalType /\ ~f.err /\ f.started
          /\ f.sensor = d.sensor /\ f.spoilt = d.spoilt /\ f.unsent = d.unsent
      BY <1>1, <2>1, <3>1, CacheSets, CacheFields
    <3>3. e = Send(f, "touch", v)
      BY <2>1, <3>1 DEF setTouchAFStartStop
    <3>4. /\ e \in HalType /\ e.told = f.told /\ e.cached = f.cached
          /\ e.id = f.id /\ e.started = f.started /\ e.recording = f.recording
          /\ e.ret = f.ret /\ e.fail = f.fail
          /\ \A y \in Controls \ {"touch"} : e.sensor[y] = f.sensor[y]
          /\ \/ e.sensor = f.sensor /\ e.unsent /\ e.spoilt
             \/ /\ e.sensor["touch"] = v /\ e.unsent = f.unsent /\ e.spoilt = f.spoilt
                /\ e.err = f.err
      <4>1. f \in HalType /\ "touch" \in Controls
        BY <1>1, <3>2
      <4> HIDE DEF e
      <4> QED BY <3>3, <4>1, SendFields
    <3> HIDE DEF e
    <3>5. Resent \subseteq Controls \ {"touch"} /\ "flash" \in Resent
      BY DEF Resent, Controls
    <3>6. Keeps(f, e)
      BY <3>2, <3>4, <3>5 DEF Keeps, TorchInv
    <3>7. Keeps(d, e)
      BY <3>2, <3>6, KeepsTrans DEF Sets
    <3>8. \A y \in Controls \ {"touch"} : f.cached[y] = d.cached[y]
      BY <3>2 DEF Sets, HalType
    <3> QED BY <3>2, <3>4, <3>7, <3>8 DEF Sets
  <2>2. CASE ~d.started
    <3>1. e = [d EXCEPT !.err = FALSE]
      BY <2>2 DEF setTouchAFStartStop
    <3>2. /\ e \in HalType /\ e.told = d.told /\ e.ret = d.ret /\ e.cached = d.cached
          /\ e.sensor = d.sensor /\ e.id = d.id /\ e.started = d.started
          /\ e.recording = d.recording /\ e.fail = d.fail /\ e.unsent = d.unsent
          /\ e.spoilt = d.spoilt /\ ~e.err
      <4> HIDE DEF e
      <4> QED BY <3>1 DEF HalType
    <3> HIDE DEF e
    <3> QED BY <3>2 DEF Keeps, TorchInv
  <2> QED BY <2>1, <2>2
<1> HIDE DEF e
<1>3. \A k \in Settings : ControlOf(k) \in Controls \ {"touch"}
  BY SettingTypes
<1>4. {"rate", "metering"} \subseteq Controls \ {"touch"}
  BY DEF Controls, Resent
<1>5. Asks(d, e, p, {})
  BY <1>2, <1>3, <1>4 DEF Asks
<1>6. CASE e.err
  <2>1. e \in HalType /\ e.spoilt
    BY <1>2, <1>6 DEF Keeps
  <2>2. Asks(e, Error(e), p, {})
    BY <2>1, ErrorAsks
  <2>3. Asks(d, Error(e), p, {})
    BY <1>5, <2>2, AsksTrans
  <2> QED BY <1>0, <1>6, <2>3 DEF ParamArea, e
<1>7. CASE ~e.err
  BY <1>0, <1>5, <1>7 DEF ParamArea, e
<1> QED BY <1>6, <1>7

(* The contrast is no setting either.                                       *)
LEMMA InternalAsks ==
  ASSUME NEW d \in HalType, NEW p
  PROVE  Asks(d, ParamInternal(d), p, {})
<1>1. PICK e : e = setContrast(d, "CONTRAST_DEFAULT")
  OBVIOUS
<1>2. Sets(d, e, "contrast", "CONTRAST_DEFAULT")
  BY <1>1, SetControlSets DEF setContrast, Controls, Resent, Values
<1>3. \A y \in Controls \ {"contrast"} : e.cached[y] = d.cached[y] /\ e.sensor[y] = d.sensor[y]
  BY <1>2 DEF Sets, HalType
<1>4. \A k \in Settings : ControlOf(k) \in Controls \ {"contrast"}
  BY SettingTypes
<1>5. {"rate", "metering"} \subseteq Controls \ {"contrast"}
  BY DEF Controls, Resent
<1>6. Asks(d, e, p, {})
  BY <1>2, <1>3, <1>4, <1>5 DEF Asks, Sets
<1>7. CASE e.err
  <2>1. e \in HalType /\ e.spoilt
    BY <1>2, <1>7 DEF Sets, Keeps
  <2>2. Asks(e, Error(e), p, {})
    BY <2>1, ErrorAsks
  <2>3. Asks(d, Error(e), p, {})
    BY <1>6, <2>2, AsksTrans
  <2> QED BY <1>1, <1>7, <2>3 DEF ParamInternal
<1>8. CASE ~e.err
  BY <1>1, <1>6, <1>8 DEF ParamInternal
<1> QED BY <1>7, <1>8

(* The range of frames and the flashes of a scene.                          *)
FpsOf(scene) == IF scene = "night" THEN "4-30" ELSE "15-30"

FlashesOf(p) == IF p.scene = "auto" THEN DOMAIN FlashOf ELSE {FlashIn(p)}

(* The client is told of them before the scene is known to be one.          *)
LEMMA TellSceneFields ==
  ASSUME NEW d \in HalType, NEW p
  PROVE  LET t == TellScene(d, p)
         IN  /\ Keeps(d, t) /\ t.cached = d.cached /\ t.sensor = d.sensor
             /\ t.spoilt = d.spoilt
             /\ \A k \in Keys \ {"fps", "flashes"} : t.told[k] = d.told[k]
             /\ t.told.fps = FpsOf(p.scene)
             /\ p.scene \in DOMAIN SceneOf => t.told.flashes = FlashesOf(p) /\ t.ret = d.ret
<1> DEFINE valid == p.scene \in DOMAIN SceneOf
<1>1. Keys = {"quality", "exposure", "iso", "white", "effect", "focus", "fps", "scene",
              "flash", "flashes", "area"}
  BY DEF Keys, Defaults
<1>2. "auto" \in DOMAIN SceneOf /\ "night" \in DOMAIN SceneOf
      /\ {"auto", "off"} \subseteq DOMAIN FlashOf
  BY DEF SceneOf, FlashOf
<1>3. p.scene # "auto" => FlashIn(p) \in {"auto", "off"}
  BY DEF FlashIn
<1>4. PICK f : f = IF valid THEN FlashesOf(p) ELSE d.told.flashes
  OBVIOUS
<1>5. f \in Words /\ FpsOf(p.scene) \in Words
  <2>1. d.told.flashes \in Words
    BY <1>1 DEF HalType
  <2>2. FlashesOf(p) \in SUBSET DOMAIN FlashOf
    BY <1>2, <1>3 DEF FlashesOf
  <2>3. \A s \in SUBSET DOMAIN FlashOf : s \in Words
    BY DEF Words
  <2> QED BY <1>4, <2>1, <2>2, <2>3 DEF FpsOf, Words
<1>6. PICK g : g = [d.told EXCEPT !.fps = FpsOf(p.scene), !.flashes = f]
  OBVIOUS
<1>7. /\ g \in [Keys -> Words] /\ g.fps = FpsOf(p.scene) /\ g.flashes = f
      /\ \A k \in Keys \ {"fps", "flashes"} : g[k] = d.told[k]
  BY <1>1, <1>5, <1>6 DEF HalType
<1>8. PICK r \in BOOLEAN : r = (valid /\ d.ret)
  OBVIOUS
<1>9. PICK t : t = [d EXCEPT !.told = g, !.ret = r]
  OBVIOUS
<1>10. /\ t \in HalType /\ t.told = g /\ t.cached = d.cached /\ t.sensor = d.sensor
       /\ t.id = d.id /\ t.started = d.started /\ t.recording = d.recording
       /\ t.ret = r /\ t.fail = d.fail /\ t.unsent = d.unsent /\ t.spoilt = d.spoilt
  BY <1>7, <1>9 DEF HalType
<1>11. TellScene(d, p) = t
  <2>1. CASE p.scene = "auto"
    <3>1. f = DOMAIN FlashOf /\ FpsOf(p.scene) = "15-30" /\ r = d.ret
      BY <1>2, <1>4, <1>8, <2>1 DEF FpsOf, FlashesOf, HalType
    <3>2. TellScene(d, p) = [d EXCEPT !.told = g]
      BY <1>6, <2>1, <3>1 DEF TellScene, HalType
    <3> QED BY <1>9, <3>1, <3>2 DEF HalType
  <2>2. CASE p.scene # "auto" /\ valid
    <3>1. f = {FlashIn(p)} /\ r = d.ret
      BY <1>4, <1>8, <2>2 DEF FlashesOf, HalType
    <3>2. TellScene(d, p) = [d EXCEPT !.told = g]
      BY <1>6, <2>2, <3>1 DEF TellScene, HalType, FpsOf
    <3> QED BY <1>9, <3>1, <3>2 DEF HalType
  <2>3. CASE ~valid
    <3>1. p.scene # "auto" /\ p.scene # "night" /\ f = d.told.flashes /\ r = FALSE
      BY <1>2, <1>4, <1>8, <2>3
    <3>2. g = [d.told EXCEPT !.fps = "15-30"]
      BY <1>1, <1>6, <3>1 DEF FpsOf, HalType
    <3>3. TellScene(d, p) = [[d EXCEPT !.told = g] EXCEPT !.ret = FALSE]
      BY <2>3, <3>1, <3>2 DEF TellScene, Error, HalType
    <3> QED BY <1>9, <3>1, <3>3
  <2> QED BY <2>1, <2>2, <2>3
<1>12. Keeps(d, t)
  BY <1>10 DEF Keeps, TorchInv
<1>13. valid => f = FlashesOf(p) /\ r = d.ret
  BY <1>4, <1>8 DEF HalType
<1> HIDE DEF valid
<1> QED BY <1>7, <1>10, <1>11, <1>12, <1>13 DEF valid

(* What setParameters() makes of p for the back camera.                     *)
Params(d, t, p) ==
  /\ Keeps(d, t)
  /\ \A x \in {"rate", "metering"} :
       t.cached[x] = d.cached[x] /\ t.sensor[x] = d.sensor[x]
  /\ \A k \in Settings :
       IF Asked(p, k) \in Valid(k)
       THEN /\ t.cached[ControlOf(k)] = ValueOf(k, Asked(p, k))
            /\ t.told[k] \in {d.told[k], Asked(p, k)}
            /\ ~t.spoilt => t.told[k] = Asked(p, k)
       ELSE /\ t.cached[ControlOf(k)] = d.cached[ControlOf(k)]
            /\ t.told[k] = d.told[k]
  /\ t.told.area = d.told.area
  /\ t.told.fps = FpsOf(p.scene)
  /\ p.scene \in DOMAIN SceneOf => t.told.flashes = FlashesOf(p)
  /\ /\ ~t.spoilt /\ Supported(p) /\ d.told.scene \in DOMAIN SceneOf
     /\ p.scene = d.told.scene => p.fps = d.told.fps
     => t.ret

(* The sections that both cameras have before the scene.                    *)
FirstSections(d, p) ==
  ParamWhite(ParamIso(ParamExposure(ParamQuality([d EXCEPT !.ret = TRUE], p), p), p), p)

(* They ask for the quality, the exposure, the ISO value and the white balance. *)
LEMMA FirstAsk ==
  ASSUME NEW d \in HalType, NEW p
  PROVE  /\ [d EXCEPT !.ret = TRUE] \in HalType
         /\ Asks([d EXCEPT !.ret = TRUE], FirstSections(d, p), p,
                 {"quality", "exposure", "iso", "white"})
<1>1. PICK a1 : a1 = [d EXCEPT !.ret = TRUE]
  OBVIOUS
<1>2. a1 \in HalType
  BY <1>1 DEF HalType
<1>3. PICK a2 : a2 = ParamQuality(a1, p)
  OBVIOUS
<1>4. Asks(a1, a2, p, {"quality"}) /\ a2 \in HalType
  BY <1>2, <1>3, QualityAsks DEF Asks, Keeps
<1>5. PICK a3 : a3 = ParamExposure(a2, p)
  OBVIOUS
<1>6. Asks(a2, a3, p, {"exposure"}) /\ a3 \in HalType
  BY <1>4, <1>5, ExposureAsks DEF Asks, Keeps
<1>7. PICK a4 : a4 = ParamIso(a3, p)
  OBVIOUS
<1>8. Asks(a3, a4, p, {"iso"}) /\ a4 \in HalType
  BY <1>6, <1>7, IsoAsks DEF Asks, Keeps
<1>9. PICK a5 : a5 = ParamWhite(a4, p)
  OBVIOUS
<1>10. Asks(a4, a5, p, {"white"})
  BY <1>8, <1>9, WhiteAsks
<1>11. Asks(a1, a3, p, {"quality"} \union {"exposure"})
  BY <1>4, <1>6, AsksTrans DEF Settings
<1>12. Asks(a1, a4, p, ({"quality"} \union {"exposure"}) \union {"iso"})
  BY <1>8, <1>11, AsksTrans DEF Settings
<1>13. Asks(a1, a5, p, (({"quality"} \union {"exposure"}) \union {"iso"}) \union {"white"})
  BY <1>10, <1>12, AsksTrans DEF Settings
<1>14. (({"quality"} \union {"exposure"}) \union {"iso"}) \union {"white"}
         = {"quality", "exposure", "iso", "white"}
  OBVIOUS
<1>15. FirstSections(d, p) = a5
  BY <1>1, <1>3, <1>5, <1>7, <1>9 DEF FirstSections
<1> QED BY <1>1, <1>2, <1>13, <1>14, <1>15

(* The effect and the contrast end it.                                      *)
LEMMA LastAsk ==
  ASSUME NEW d \in HalType, NEW p
  PROVE  Asks(d, ParamInternal(ParamEffect(d, p)), p, {"effect"})
<1>1. PICK e : e = ParamEffect(d, p)
  OBVIOUS
<1>2. Asks(d, e, p, {"effect"}) /\ e \in HalType
  BY <1>1, EffectAsks DEF Asks, Keeps
<1>3. Asks(e, ParamInternal(e), p, {})
  BY <1>2, InternalAsks
<1>4. Asks(d, ParamInternal(e), p, {"effect"} \union {})
  BY <1>2, <1>3, AsksTrans DEF Settings
<1> QED BY <1>1, <1>4

(* The focus, the flash, the scene and the area, once the client is told of *)
(* the scene.                                                               *)
LEMMA SceneSections ==
  ASSUME NEW d \in HalType, NEW p
  PROVE  Asks(d, ParamArea(ParamScene(ParamFlash(ParamFocus(d, p), p), p), p), p,
              {"focus", "flash", "scene"})
<1>1. PICK a : a = ParamFocus(d, p)
  OBVIOUS
<1>2. Asks(d, a, p, {"focus"}) /\ a \in HalType
  BY <1>1, FocusAsks DEF Asks, Keeps
<1>3. PICK b : b = ParamFlash(a, p)
  OBVIOUS
<1>4. Asks(a, b, p, {"flash"}) /\ b \in HalType
  BY <1>2, <1>3, FlashAsks DEF Asks, Keeps
<1>5. PICK e : e = ParamScene(b, p)
  OBVIOUS
<1>6. Asks(b, e, p, {"scene"}) /\ e \in HalType
  BY <1>4, <1>5, SceneAsks DEF Asks, Keeps
<1>7. Asks(e, ParamArea(e, p), p, {})
  BY <1>6, AreaAsks
<1>8. Asks(d, b, p, {"focus"} \union {"flash"})
  BY <1>2, <1>4, AsksTrans DEF Settings
<1>9. Asks(d, e, p, ({"focus"} \union {"flash"}) \union {"scene"})
  BY <1>6, <1>8, AsksTrans DEF Settings
<1>10. Asks(d, ParamArea(e, p), p, (({"focus"} \union {"flash"}) \union {"scene"}) \union {})
  BY <1>7, <1>9, AsksTrans DEF Settings
<1>11. (({"focus"} \union {"flash"}) \union {"scene"}) \union {} = {"focus", "flash", "scene"}
  OBVIOUS
<1> QED BY <1>1, <1>3, <1>5, <1>10, <1>11

(* setParameters() of the back camera makes of p what the sections make of it. *)
LEMMA SetParametersBack ==
  ASSUME NEW d \in HalType, d.id = "back", NEW p
  PROVE  Params(d, setParameters(d, p), p)
<1> DEFINE K == {"quality", "exposure", "iso", "white"}
           L == {"focus", "flash", "scene", "effect"}
<1>1. PICK a1 : a1 = [d EXCEPT !.ret = TRUE]
  OBVIOUS
<1>2. /\ a1 \in HalType /\ a1.told = d.told /\ a1.cached = d.cached /\ a1.sensor = d.sensor
      /\ a1.id = d.id /\ a1.started = d.started /\ a1.recording = d.recording /\ a1.ret
      /\ a1.fail = d.fail /\ a1.unsent = d.unsent /\ a1.spoilt = d.spoilt
  BY <1>1 DEF HalType
<1>3. PICK a : a = FirstSections(d, p)
  OBVIOUS
<1>4. Asks(a1, a, p, K) /\ a \in HalType
  BY <1>1, <1>3, FirstAsk DEF Asks, Keeps
<1>5. PICK b : b = ParamFps(a, p)
  OBVIOUS
<1>6. /\ b \in HalType /\ b.told = a.told /\ b.cached = a.cached /\ b.sensor = a.sensor
      /\ b.id = a.id /\ b.started = a.started /\ b.recording = a.recording
      /\ b.fail = a.fail /\ b.unsent = a.unsent /\ b.spoilt = a.spoilt
      /\ /\ p.scene \in DOMAIN SceneOf /\ a.told.scene \in DOMAIN SceneOf
         /\ p.scene = a.told.scene => p.fps = a.told.fps
         => b.ret = a.ret
  BY <1>4, <1>5, NothingAssumption DEF ParamFps, Error, HalType
<1>7. PICK e : e = TellScene(b, p)
  OBVIOUS
<1>8. /\ Keeps(b, e) /\ e.cached = b.cached /\ e.sensor = b.sensor
      /\ e.spoilt = b.spoilt
      /\ \A k \in Keys \ {"fps", "flashes"} : e.told[k] = b.told[k]
      /\ e.told.fps = FpsOf(p.scene)
      /\ p.scene \in DOMAIN SceneOf => e.told.flashes = FlashesOf(p) /\ e.ret = b.ret
  BY <1>6, <1>7, TellSceneFields, ZenonT(40)
<1>9. PICK f : f = ParamArea(ParamScene(ParamFlash(ParamFocus(e, p), p), p), p)
  OBVIOUS
<1>10. e \in HalType
  BY <1>8 DEF Keeps
<1>11. Asks(e, f, p, {"focus", "flash", "scene"}) /\ f \in HalType
  BY <1>9, <1>10, SceneSections DEF Asks, Keeps
<1>12. PICK t : t = ParamInternal(ParamEffect(f, p))
  OBVIOUS
<1>13. Asks(f, t, p, {"effect"})
  BY <1>11, <1>12, LastAsk
<1>14. Asks(e, t, p, L)
  <2>1. Asks(e, t, p, {"focus", "flash", "scene"} \union {"effect"})
    BY <1>11, <1>13, AsksTrans DEF Settings
  <2>2. {"focus", "flash", "scene"} \union {"effect"} = L
    OBVIOUS
  <2> QED BY <2>1, <2>2
<1>15. setParameters(d, p) = t
  BY <1>3, <1>5, <1>7, <1>9, <1>12 DEF setParameters, FirstSections, ParamsOfBack
<1>16. Keys = {"quality", "exposure", "iso", "white", "effect", "focus", "fps", "scene",
               "flash", "flashes", "area"}
  BY DEF Keys, Defaults
<1>17. Settings = K \union L /\ K \intersect L = {}
  BY DEF Settings
<1>18. Keeps(d, t) /\ (~t.spoilt => ~e.spoilt /\ ~a.spoilt)
  <2>1. Keeps(d, a1) /\ Keeps(a, b)
    BY <1>2, <1>6 DEF Keeps, TorchInv
  <2>2. Keeps(a1, a) /\ Keeps(e, t)
    BY <1>4, <1>14 DEF Asks
  <2>3. Keeps(d, b)
    BY <2>1, <2>2, KeepsTrans
  <2>4. Keeps(d, t)
    BY <1>8, <2>2, <2>3, KeepsTrans
  <2> QED BY <2>4, <2>2, <1>6, <1>8 DEF Keeps
<1>19. \A x \in {"rate", "metering"} :
         t.cached[x] = d.cached[x] /\ t.sensor[x] = d.sensor[x]
  BY <1>2, <1>4, <1>6, <1>8, <1>14 DEF Asks
<1>20. ASSUME NEW k \in K
       PROVE  /\ t.cached[ControlOf(k)] = a.cached[ControlOf(k)] /\ t.told[k] = a.told[k]
  <2>1. k \in Settings \ L /\ k \in Keys \ L /\ k \in Keys \ {"fps", "flashes"}
    BY <1>16, <1>17
  <2>2. t.cached[ControlOf(k)] = e.cached[ControlOf(k)] /\ t.told[k] = e.told[k]
    BY <1>14, <2>1 DEF Asks
  <2> HIDE DEF K, L
  <2> QED BY <1>6, <1>8, <2>1, <2>2
<1>21. ASSUME NEW k \in L
       PROVE  /\ e.cached[ControlOf(k)] = d.cached[ControlOf(k)] /\ e.told[k] = d.told[k]
  <2>1. k \in Settings \ K /\ k \in Keys \ K /\ k \in Keys \ {"fps", "flashes"}
    BY <1>16, <1>17
  <2>2. a.cached[ControlOf(k)] = a1.cached[ControlOf(k)] /\ a.told[k] = a1.told[k]
    BY <1>4, <2>1 DEF Asks
  <2> HIDE DEF K, L
  <2> QED BY <1>2, <1>6, <1>8, <2>1, <2>2
<1>22. ASSUME NEW k \in Settings
       PROVE  IF Asked(p, k) \in Valid(k)
              THEN /\ t.cached[ControlOf(k)] = ValueOf(k, Asked(p, k))
                   /\ t.told[k] \in {d.told[k], Asked(p, k)}
                   /\ ~t.spoilt => t.told[k] = Asked(p, k)
              ELSE /\ t.cached[ControlOf(k)] = d.cached[ControlOf(k)]
                   /\ t.told[k] = d.told[k]
  <2>1. CASE k \in K
    <3> HIDE DEF K
    <3> QED BY <1>2, <1>4, <1>18, <1>20, <2>1 DEF Asks
  <2>2. CASE k \in L
    <3> HIDE DEF L
    <3> QED BY <1>14, <1>18, <1>21, <2>2 DEF Asks
  <2> QED BY <1>17, <2>1, <2>2
<1>23. /\ t.told.area = d.told.area
       /\ t.told.fps = FpsOf(p.scene)
       /\ p.scene \in DOMAIN SceneOf => t.told.flashes = FlashesOf(p)
  <2>1. {"area", "fps", "flashes"} \subseteq Keys \ K /\ {"area", "fps", "flashes"} \subseteq Keys \ L
    BY <1>16
  <2>2. "area" \in Keys \ {"fps", "flashes"}
    BY <1>16
  <2>3. \A k \in {"area", "fps", "flashes"} : t.told[k] = e.told[k] /\ a.told[k] = a1.told[k]
    BY <1>4, <1>14, <2>1 DEF Asks
  <2> QED BY <1>2, <1>6, <1>8, <2>2, <2>3
<1>24. /\ ~t.spoilt /\ Supported(p) /\ d.told.scene \in DOMAIN SceneOf
       /\ p.scene = d.told.scene => p.fps = d.told.fps
       => t.ret
  <2>1. SUFFICES ASSUME ~t.spoilt, Supported(p), d.told.scene \in DOMAIN SceneOf,
                        p.scene = d.told.scene => p.fps = d.told.fps
                 PROVE  t.ret
    OBVIOUS
  <2>2. a.ret
    BY <1>2, <1>4, <1>18, <2>1 DEF Asks
  <2>3. {"scene", "fps"} \subseteq Keys \ K
    BY <1>16
  <2>4. a.told.scene = d.told.scene /\ a.told.fps = d.told.fps
    BY <1>2, <1>4, <2>3 DEF Asks
  <2>5. p.scene \in DOMAIN SceneOf
    BY <2>1 DEF Supported, Settings, Asked, Valid
  <2>6. e.ret
    BY <1>6, <1>8, <2>1, <2>2, <2>4, <2>5
  <2> QED BY <1>14, <2>1, <2>6 DEF Asks
<1> QED BY <1>15, <1>18, <1>19, <1>22, <1>23, <1>24 DEF Params

(* The settings of the front camera, which has no focus, flash or scene.    *)
FrontSettings == {"quality", "exposure", "iso", "white"} \union {"effect"}

(* What setParameters() makes of them; the session is kept, too.            *)
LEMMA SetParametersFront ==
  ASSUME NEW d \in HalType, d.id # "back", NEW p
  PROVE  LET t == setParameters(d, p)
         IN  /\ Keeps(d, t)
             /\ \A k \in FrontSettings : Asked(p, k) \in Valid(k) =>
                  /\ t.cached[ControlOf(k)] = ValueOf(k, Asked(p, k))
                  /\ t.told[k] \in {d.told[k], Asked(p, k)}
             /\ \A k \in Keys \ FrontSettings : t.told[k] = d.told[k]
<1> DEFINE K == {"quality", "exposure", "iso", "white"}
           L == {"effect"}
<1>1. PICK a1 : a1 = [d EXCEPT !.ret = TRUE]
  OBVIOUS
<1>2. Keeps(d, a1) /\ a1.told = d.told /\ a1.cached = d.cached
  BY <1>1 DEF HalType, Keeps, TorchInv
<1>3. PICK a : a = FirstSections(d, p)
  OBVIOUS
<1>4. Asks(a1, a, p, K) /\ Keeps(a1, a)
  BY <1>1, <1>3, FirstAsk DEF Asks
<1>5. PICK b : b = ParamFps(a, p)
  OBVIOUS
<1>6. \A e \in HalType :
        /\ Keeps(e, Error(e)) /\ Error(e) \in HalType
        /\ Error(e).told = e.told /\ Error(e).cached = e.cached
  BY ErrorKeeps DEF Error, HalType
<1>7. Keeps(a, b) /\ b.told = a.told /\ b.cached = a.cached
  BY <1>4, <1>5, <1>6, KeepsRefl DEF ParamFps, Keeps
<1>8. PICK e : e = ParamsOfFront(b, p)
  OBVIOUS
<1>9. Keeps(b, e) /\ e.told = b.told /\ e.cached = b.cached
  BY <1>6, <1>7, <1>8, KeepsRefl DEF ParamsOfFront, Keeps
<1>10. PICK t : t = ParamInternal(ParamEffect(e, p))
  OBVIOUS
<1>11. Asks(e, t, p, L) /\ Keeps(e, t)
  BY <1>9, <1>10, LastAsk DEF Asks, Keeps
<1>12. setParameters(d, p) = t
  BY <1>3, <1>5, <1>8, <1>10 DEF setParameters, FirstSections
<1>13. Keeps(d, a)
  BY <1>2, <1>4, KeepsTrans
<1>14. Keeps(d, e)
  BY <1>7, <1>9, <1>13, KeepsTrans
<1>15. Keeps(d, t)
  BY <1>11, <1>14, KeepsTrans
<1>16. K \subseteq Settings \ L /\ K \subseteq Keys \ L /\ L \subseteq Settings \ K /\ L \subseteq Keys \ K
  BY SettingTypes DEF Settings
<1>17. ASSUME NEW k \in FrontSettings, Asked(p, k) \in Valid(k)
       PROVE  /\ t.cached[ControlOf(k)] = ValueOf(k, Asked(p, k))
              /\ t.told[k] \in {d.told[k], Asked(p, k)}
  <2>1. CASE k \in K
    <3>1. k \in Settings \ L /\ k \in Keys \ L
      BY <1>16, <2>1
    <3> HIDE DEF K, L
    <3>2. t.cached[ControlOf(k)] = a.cached[ControlOf(k)] /\ t.told[k] = a.told[k]
      BY <1>7, <1>9, <1>11, <3>1 DEF Asks
    <3> QED BY <1>2, <1>4, <1>17, <2>1, <3>2 DEF Asks
  <2>2. CASE k \in L
    <3>1. k \in Settings \ K /\ k \in Keys \ K
      BY <1>16, <2>2
    <3> HIDE DEF K, L
    <3>2. e.told[k] = d.told[k]
      BY <1>2, <1>4, <1>7, <1>9, <3>1 DEF Asks
    <3> QED BY <1>11, <1>17, <2>2, <3>2 DEF Asks
  <2> QED BY <2>1, <2>2 DEF FrontSettings
<1>18. ASSUME NEW k \in Keys \ FrontSettings PROVE t.told[k] = d.told[k]
  <2>1. k \in Keys \ K /\ k \in Keys \ L
    BY DEF FrontSettings
  <2> HIDE DEF K, L
  <2> QED BY <1>2, <1>4, <1>7, <1>9, <1>11, <2>1 DEF Asks
<1> QED BY <1>12, <1>15, <1>17, <1>18

-------------------------------------------------------------------------------
(* Opening a camera *)

(* The last part of initDefaultParameters().                                *)
SetDefaults(d) ==
  setFrameRate(setSaturation(setSharpness(setContrast(setMetering(setISO(
    d, "ISO_AUTO"), "METERING_CENTER"), "CONTRAST_DEFAULT"), "SHARPNESS_DEFAULT"),
    "SATURATION_DEFAULT"), IF d.id = "back" THEN 30 ELSE 15)

(* It caches the driver's defaults.                                        *)
LEMMA SetDefaultsFields ==
  ASSUME NEW d \in HalType
  PROVE  LET t == SetDefaults(d)
         IN  /\ Keeps(d, t) /\ t.told = d.told /\ t.ret = d.ret
             /\ t.cached = [d.cached EXCEPT !.iso = "ISO_AUTO",
                  !.metering = "METERING_CENTER", !.contrast = "CONTRAST_DEFAULT",
                  !.sharpness = "SHARPNESS_DEFAULT", !.saturation = "SATURATION_DEFAULT",
                  !.rate = IF d.id = "back" THEN 30 ELSE 15]
<1>1. {"iso", "metering", "contrast", "sharpness", "saturation", "rate"} \subseteq Controls
  BY DEF Controls, Resent
<1>2. {"ISO_AUTO", "METERING_CENTER", "CONTRAST_DEFAULT", "SHARPNESS_DEFAULT",
       "SATURATION_DEFAULT", IF d.id = "back" THEN 30 ELSE 15} \subseteq Values
  <2>1. "ISO_AUTO" \in {IsoOf[w] : w \in DOMAIN IsoOf}
    BY DEF IsoOf
  <2> QED BY <2>1 DEF Values
<1>3. PICK a : a = setISO(d, "ISO_AUTO")
  OBVIOUS
<1>4. Sets(d, a, "iso", "ISO_AUTO") /\ a \in HalType
  BY <1>1, <1>2, <1>3, SetControlSets, SetControlType DEF setISO
<1>5. PICK b : b = setMetering(a, "METERING_CENTER")
  OBVIOUS
<1>6. Sets(a, b, "metering", "METERING_CENTER") /\ b \in HalType
  BY <1>1, <1>2, <1>4, <1>5, SetControlSets, SetControlType DEF setMetering
<1>7. PICK e : e = setContrast(b, "CONTRAST_DEFAULT")
  OBVIOUS
<1>8. Sets(b, e, "contrast", "CONTRAST_DEFAULT") /\ e \in HalType
  BY <1>1, <1>2, <1>6, <1>7, SetControlSets, SetControlType DEF setContrast
<1>9. PICK f : f = setSharpness(e, "SHARPNESS_DEFAULT")
  OBVIOUS
<1>10. Sets(e, f, "sharpness", "SHARPNESS_DEFAULT") /\ f \in HalType
  BY <1>1, <1>2, <1>8, <1>9, SetControlSets, SetControlType DEF setSharpness
<1>11. PICK g : g = setSaturation(f, "SATURATION_DEFAULT")
  OBVIOUS
<1>12. Sets(f, g, "saturation", "SATURATION_DEFAULT") /\ g \in HalType
  BY <1>1, <1>2, <1>10, <1>11, SetControlSets, SetControlType DEF setSaturation
<1>13. PICK r : r = IF d.id = "back" THEN 30 ELSE 15
  OBVIOUS
<1>14. PICK t : t = setFrameRate(g, r)
  OBVIOUS
<1>15. Sets(g, t, "rate", r)
  BY <1>1, <1>2, <1>12, <1>13, <1>14, SetControlSets DEF setFrameRate
<1>16. Keeps(d, t)
  <2>1. Keeps(d, a) /\ Keeps(a, b)
    BY <1>4, <1>6 DEF Sets
  <2>2. Keeps(d, b) /\ Keeps(b, e)
    BY <2>1, <1>8, KeepsTrans DEF Sets
  <2>3. Keeps(d, e) /\ Keeps(e, f)
    BY <2>2, <1>10, KeepsTrans DEF Sets
  <2>4. Keeps(d, f) /\ Keeps(f, g)
    BY <2>3, <1>12, KeepsTrans DEF Sets
  <2>5. Keeps(d, g) /\ Keeps(g, t)
    BY <2>4, <1>15, KeepsTrans DEF Sets
  <2> QED BY <2>5, KeepsTrans
<1>17. t.told = d.told /\ t.ret = d.ret
  BY <1>4, <1>6, <1>8, <1>10, <1>12, <1>15 DEF Sets
<1>18. t.cached = [d.cached EXCEPT !.iso = "ISO_AUTO",
         !.metering = "METERING_CENTER", !.contrast = "CONTRAST_DEFAULT",
         !.sharpness = "SHARPNESS_DEFAULT", !.saturation = "SATURATION_DEFAULT",
         !.rate = r]
  <2>1. a.cached = [d.cached EXCEPT !.iso = "ISO_AUTO"]
    BY <1>4 DEF Sets
  <2>2. b.cached = [a.cached EXCEPT !.metering = "METERING_CENTER"]
    BY <1>6 DEF Sets
  <2>3. e.cached = [b.cached EXCEPT !.contrast = "CONTRAST_DEFAULT"]
    BY <1>8 DEF Sets
  <2>4. f.cached = [e.cached EXCEPT !.sharpness = "SHARPNESS_DEFAULT"]
    BY <1>10 DEF Sets
  <2>5. g.cached = [f.cached EXCEPT !.saturation = "SATURATION_DEFAULT"]
    BY <1>12 DEF Sets
  <2>6. t.cached = [g.cached EXCEPT !.rate = r]
    BY <1>15 DEF Sets
  <2> QED BY <2>1, <2>2, <2>3, <2>4, <2>5, <2>6
<1>19. SetDefaults(d) = t
  BY <1>3, <1>5, <1>7, <1>9, <1>11, <1>13, <1>14 DEF SetDefaults
<1> QED BY <1>13, <1>16, <1>17, <1>18, <1>19

(* The words a client is told when the camera is opened are words.          *)
LEMMA DefaultsType ==
  ASSUME NEW id
  PROVE  Defaults(id) \in [Keys -> Words]
<1>1. Keys = {"quality", "exposure", "iso", "white", "effect", "focus", "fps", "scene",
              "flash", "flashes", "area"}
  BY DEF Keys, Defaults
<1>2. {"auto"} \subseteq Words /\ {"none"} \subseteq Words /\ {"off"} \subseteq Words
      /\ {"fixed", "15-30", "7.5-30", "dummy", Nothing, 100, 0} \subseteq Words
      /\ {DOMAIN FlashOf} \subseteq Words
  BY DEF Words, IsoOf, EffectOf, FlashOf
<1>3. PICK f : f = IF id = "back" THEN "auto" ELSE "fixed"
  OBVIOUS
<1>4. PICK r : r = IF id = "back" THEN "15-30" ELSE "7.5-30"
  OBVIOUS
<1>5. PICK s : s = IF id = "back" THEN "auto" ELSE Nothing
  OBVIOUS
<1>6. PICK l : l = IF id = "back" THEN "off" ELSE Nothing
  OBVIOUS
<1>7. PICK m : m = IF id = "back" THEN DOMAIN FlashOf ELSE Nothing
  OBVIOUS
<1>8. PICK a : a = IF id = "back" THEN "dummy" ELSE Nothing
  OBVIOUS
<1>9. PICK w \in Words : w = "auto"
  BY <1>2
<1>10. PICK n \in Words : n = "none"
  BY <1>2
<1>11. PICK q \in Words : q = 100
  BY <1>2
<1>12. PICK z \in Words : z = 0
  BY <1>2
<1>13. {f, r, s, l, m, a} \subseteq Words
  BY <1>2, <1>3, <1>4, <1>5, <1>6, <1>7, <1>8
<1>14. Defaults(id) = [quality |-> q, exposure |-> z, iso |-> w, white |-> w, effect |-> n,
                       focus |-> f, fps |-> r, scene |-> s, flash |-> l, flashes |-> m,
                       area |-> a]
  BY <1>3, <1>4, <1>5, <1>6, <1>7, <1>8, <1>9, <1>10, <1>11, <1>12 DEF Defaults
<1> QED BY <1>1, <1>13, <1>14

(* initDefaultParameters() of the back camera: the client is told the       *)
(* defaults, all of them are cached and none is refused.                    *)
LEMMA InitBack ==
  ASSUME NEW d \in HalType, d.id = "back"
  PROVE  LET t == initDefaultParameters(d)
         IN  /\ Keeps(d, t)
             /\ t.told = Defaults("back")
             /\ \A x \in Resent : t.cached[x] = FreshOf("back")[x]
             /\ t.cached["quality"] = 100
             /\ ~t.spoilt => t.ret
<1> DEFINE p == Defaults("back")
<1>1. Keys = {"quality", "exposure", "iso", "white", "effect", "focus", "fps", "scene",
              "flash", "flashes", "area"}
  BY DEF Keys, Defaults
<1>2. /\ p.quality = 100 /\ p.exposure = 0 /\ p.iso = "auto" /\ p.white = "auto"
      /\ p.effect = "none" /\ p.focus = "auto" /\ p.fps = "15-30" /\ p.scene = "auto"
      /\ p.flash = "off" /\ p.flashes = DOMAIN FlashOf /\ p.area = "dummy"
  BY DEF Defaults
<1>3. p \in [Keys -> Words]
  BY DefaultsType
<1> HIDE DEF p
<1>4. PICK a : a = [d EXCEPT !.told = p]
  OBVIOUS
<1>5. a \in HalType /\ a.told = p /\ a.id = "back" /\ Keeps(d, a)
  BY <1>3, <1>4 DEF HalType, Keeps, TorchInv
<1>6. PICK e : e = setParameters(a, p)
  OBVIOUS
<1>7. Params(a, e, p)
  BY <1>5, <1>6, SetParametersBack
<1>8. \A k \in Settings : Asked(p, k) = p[k] /\ p[k] \in Valid(k)
  BY <1>2 DEF Settings, Asked, FocusIn, FlashIn, Valid, IsoOf, WhiteOf, EffectOf, FocusOf,
              FlashOf, SceneOf
<1>9. Settings = Keys \ {"fps", "flashes", "area"}
  BY <1>1 DEF Settings
<1>10. e \in HalType /\ e.id = "back" /\ Keeps(d, e)
  <2>1. Keeps(a, e)
    BY <1>7 DEF Params
  <2> QED BY <1>5, <2>1, KeepsTrans DEF Keeps
<1>11. \A k \in Settings : e.told[k] = p[k]
  BY <1>5, <1>7, <1>8 DEF Params
<1>12. e.told = p
  <2>1. e.told.fps = "15-30"
    BY <1>2, <1>7 DEF Params, FpsOf
  <2>2. e.told.flashes = DOMAIN FlashOf
    BY <1>2, <1>7 DEF Params, FlashesOf, SceneOf
  <2>3. e.told.area = p.area
    BY <1>5, <1>7 DEF Params
  <2>4. \A k \in Keys : e.told[k] = p[k]
    BY <1>1, <1>2, <1>9, <1>11, <2>1, <2>2, <2>3
  <2>5. e.told \in [Keys -> Words]
    BY <1>10 DEF HalType
  <2> QED BY <1>3, <2>4, <2>5
<1>13. \A k \in Settings : e.cached[ControlOf(k)] = ValueOf(k, p[k])
  BY <1>7, <1>8 DEF Params
<1>14. /\ e.cached["quality"] = 100 /\ e.cached["brightness"] = 0
       /\ e.cached["white"] = "WB_AUTO" /\ e.cached["effect"] = "EFFECT_NONE"
       /\ e.cached["focus"] = "FOCUS_AUTO" /\ e.cached["flash"] = "FLASH_OFF"
       /\ e.cached["scene"] = "SCENE_NONE"
  <2>1. {"quality", "exposure", "white", "effect", "focus", "flash", "scene"} \subseteq Settings
    BY DEF Settings
  <2>2. e.cached["quality"] = 100
    BY <1>2, <1>13, <2>1 DEF ControlOf, ValueOf
  <2>3. e.cached["brightness"] = 0
    BY <1>2, <1>13, <2>1 DEF ControlOf, ValueOf
  <2>4. e.cached["white"] = "WB_AUTO"
    BY <1>2, <1>13, <2>1 DEF ControlOf, ValueOf, WhiteOf
  <2>5. e.cached["effect"] = "EFFECT_NONE"
    BY <1>2, <1>13, <2>1 DEF ControlOf, ValueOf, EffectOf
  <2>6. e.cached["focus"] = "FOCUS_AUTO"
    BY <1>2, <1>13, <2>1 DEF ControlOf, ValueOf, FocusOf
  <2>7. e.cached["flash"] = "FLASH_OFF"
    BY <1>2, <1>13, <2>1 DEF ControlOf, ValueOf, FlashOf
  <2>8. e.cached["scene"] = "SCENE_NONE"
    BY <1>2, <1>13, <2>1 DEF ControlOf, ValueOf, SceneOf
  <2> QED BY <2>2, <2>3, <2>4, <2>5, <2>6, <2>7, <2>8
<1>15. PICK t : t = SetDefaults(e)
  OBVIOUS
<1>16. /\ Keeps(e, t) /\ t.told = e.told /\ t.ret = e.ret
       /\ t.cached = [e.cached EXCEPT !.iso = "ISO_AUTO",
            !.metering = "METERING_CENTER", !.contrast = "CONTRAST_DEFAULT",
            !.sharpness = "SHARPNESS_DEFAULT", !.saturation = "SATURATION_DEFAULT",
            !.rate = 30]
  BY <1>10, <1>15, SetDefaultsFields
<1>17. e.cached \in [Controls -> Values]
  BY <1>10 DEF HalType
<1>18. /\ \A x \in {"quality", "brightness", "white", "effect", "focus", "flash", "scene"} :
            t.cached[x] = e.cached[x]
       /\ t.cached["iso"] = "ISO_AUTO" /\ t.cached["metering"] = "METERING_CENTER"
       /\ t.cached["contrast"] = "CONTRAST_DEFAULT" /\ t.cached["rate"] = 30
       /\ t.cached["sharpness"] = "SHARPNESS_DEFAULT"
       /\ t.cached["saturation"] = "SATURATION_DEFAULT"
  BY <1>16, <1>17 DEF Controls, Resent
<1>19. \A x \in Resent : t.cached[x] = FreshOf("back")[x]
  BY <1>14, <1>18 DEF Resent, FreshOf
<1>20. Keeps(d, t)
  BY <1>10, <1>16, KeepsTrans
<1>21. ~t.spoilt => t.ret
  <2>1. Supported(p)
    BY <1>8 DEF Supported
  <2>2. ~t.spoilt => ~e.spoilt
    BY <1>16 DEF Keeps
  <2>3. a.told.scene \in DOMAIN SceneOf
    BY <1>2, <1>5 DEF SceneOf
  <2>4. ~e.spoilt => e.ret
    BY <1>5, <1>7, <2>1, <2>3 DEF Params
  <2> QED BY <1>16, <2>2, <2>4
<1>22. initDefaultParameters(d) = t
  BY <1>4, <1>5, <1>6, <1>10, <1>15 DEF initDefaultParameters, SetDefaults, p
<1>23. t.told = Defaults("back") /\ t.cached["quality"] = 100
  BY <1>12, <1>14, <1>16, <1>18 DEF p
<1> QED BY <1>19, <1>20, <1>21, <1>22, <1>23

(* That of the front camera: the client is told its defaults, and all but   *)
(* the scene, the focus and the flash are cached.                           *)
LEMMA InitFront ==
  ASSUME NEW d \in HalType, d.id = "front"
  PROVE  LET t == initDefaultParameters(d)
         IN  /\ Keeps(d, t)
             /\ t.told = Defaults("front")
             /\ \A x \in Resent \ BackOnly : t.cached[x] = FreshOf("front")[x]
<1>1. PICK p : p = Defaults("front")
  OBVIOUS
<1>2. p \in [Keys -> Words]
  BY <1>1, DefaultsType
<1>3. PICK a : a = [d EXCEPT !.told = p]
  OBVIOUS
<1>4. a \in HalType /\ a.id = "front" /\ Keeps(d, a) /\ a.told = p
  BY <1>2, <1>3 DEF HalType, Keeps, TorchInv
<1>5. PICK e : e = setParameters(a, p)
  OBVIOUS
<1>6. /\ Keeps(a, e)
      /\ \A k \in FrontSettings : Asked(p, k) \in Valid(k) =>
           /\ e.cached[ControlOf(k)] = ValueOf(k, Asked(p, k))
           /\ e.told[k] \in {a.told[k], Asked(p, k)}
      /\ \A k \in Keys \ FrontSettings : e.told[k] = a.told[k]
  BY <1>4, <1>5, SetParametersFront
<1>7. Keeps(d, e)
  BY <1>4, <1>6, KeepsTrans
<1>8. e \in HalType /\ e.id = d.id
  BY <1>7 DEF Keeps
<1>9. PICK t : t = SetDefaults(e)
  OBVIOUS
<1>10. /\ Keeps(e, t) /\ t.told = e.told
       /\ t.cached = [e.cached EXCEPT !.iso = "ISO_AUTO",
            !.metering = "METERING_CENTER", !.contrast = "CONTRAST_DEFAULT",
            !.sharpness = "SHARPNESS_DEFAULT", !.saturation = "SATURATION_DEFAULT",
            !.rate = 15]
  BY <1>8, <1>9, SetDefaultsFields
<1>11. Keeps(d, t)
  BY <1>7, <1>10, KeepsTrans
<1>12. initDefaultParameters(d) = t
  BY <1>1, <1>3, <1>5, <1>8, <1>9 DEF initDefaultParameters, SetDefaults
<1>13. /\ p.quality = 100 /\ p.exposure = 0 /\ p.iso = "auto" /\ p.white = "auto"
       /\ p.effect = "none"
  BY <1>1 DEF Defaults
<1>14. \A k \in FrontSettings : Asked(p, k) = p[k] /\ p[k] \in Valid(k)
  BY <1>13 DEF FrontSettings, Asked, Valid, IsoOf, WhiteOf, EffectOf
<1>15. e.told = p
  <2>1. \A k \in Keys : e.told[k] = p[k]
    BY <1>4, <1>6, <1>14
  <2>2. e.told \in [Keys -> Words]
    BY <1>8 DEF HalType
  <2> QED BY <1>2, <2>1, <2>2
<1>16. \A k \in FrontSettings : e.cached[ControlOf(k)] = ValueOf(k, p[k])
  BY <1>6, <1>14
<1>17. /\ e.cached["brightness"] = 0 /\ e.cached["white"] = "WB_AUTO"
       /\ e.cached["effect"] = "EFFECT_NONE"
  <2>1. {"exposure", "white", "effect"} \subseteq FrontSettings
    BY DEF FrontSettings
  <2>2. e.cached["brightness"] = 0
    BY <1>13, <1>16, <2>1 DEF ControlOf, ValueOf
  <2>3. e.cached["white"] = "WB_AUTO"
    BY <1>13, <1>16, <2>1 DEF ControlOf, ValueOf, WhiteOf
  <2>4. e.cached["effect"] = "EFFECT_NONE"
    BY <1>13, <1>16, <2>1 DEF ControlOf, ValueOf, EffectOf
  <2> QED BY <2>2, <2>3, <2>4
<1>18. e.cached \in [Controls -> Values]
  BY <1>8 DEF HalType
<1>19. /\ \A x \in {"brightness", "white", "effect"} : t.cached[x] = e.cached[x]
       /\ t.cached["iso"] = "ISO_AUTO" /\ t.cached["metering"] = "METERING_CENTER"
       /\ t.cached["contrast"] = "CONTRAST_DEFAULT" /\ t.cached["rate"] = 15
       /\ t.cached["sharpness"] = "SHARPNESS_DEFAULT"
       /\ t.cached["saturation"] = "SATURATION_DEFAULT"
  BY <1>10, <1>18 DEF Controls, Resent
<1>20. \A x \in Resent \ BackOnly : t.cached[x] = FreshOf("front")[x]
  BY <1>17, <1>19 DEF Resent, BackOnly, FreshOf
<1> QED BY <1>1, <1>10, <1>11, <1>12, <1>15, <1>20

-------------------------------------------------------------------------------
(* The session *)

(* The sensor has what is cached; a camera that is closed has no preview    *)
(* and no recording, unless a driver call failed.                           *)
Agree(d) ==
  /\ d.id = "back" /\ d.started /\ ~d.unsent =>
       \A x \in Resent \ {"rate"} : d.sensor[x] = d.cached[x]
  /\ d.id = Nothing => (d.started => d.unsent) /\ ~d.recording

(* The metering and the rate of a recording.                                *)
Metering(d) ==
  d.id = "back" /\ ~d.spoilt =>
    /\ d.cached["metering"] = IF d.recording THEN "METERING_MATRIX" ELSE "METERING_CENTER"
    /\ d.recording => d.sensor["rate"] = d.cached["rate"]

(* The settings that only setParameters() changes.                          *)
Plain == Settings \ {"flash", "iso"}

(* What the client is told are words of the tables, and they are cached, but *)
(* for a torch that was put out and the ISO value of a recording.            *)
Told(d) ==
  d.id = "back" /\ ~d.spoilt =>
    /\ \A k \in Settings : d.told[k] \in Valid(k)
    /\ \A k \in Plain : d.cached[ControlOf(k)] = ValueOf(k, d.told[k])
    /\ \/ d.cached["flash"] = FlashOf[d.told.flash]
       \/ d.cached["flash"] = "FLASH_OFF" /\ d.told.flash = "torch"
    /\ \/ d.cached["iso"] = IsoOf[d.told.iso]
       \/ d.cached["iso"] = "ISO_AUTO"
       \/ d.cached["iso"] = "ISO_MOVIE" /\ d.recording

Session(d) == Agree(d) /\ TorchInv(d) /\ Metering(d) /\ Told(d)

(* What the calls between setParameters() and setParameters() keep.         *)
Calls(d, t) ==
  /\ t \in HalType
  /\ t.id = d.id /\ t.told = d.told /\ t.ret = d.ret
  /\ d.spoilt => t.spoilt
  /\ Session(d) => Session(t)

(* One such call may follow another.                                        *)
LEMMA CallsTrans ==
  ASSUME NEW d, NEW t, NEW u, Calls(d, t), Calls(t, u)
  PROVE  Calls(d, u)
BY DEF Calls

(* The torch is a flash of its own.                                         *)
LEMMA TorchWord ==
  ASSUME NEW w \in DOMAIN FlashOf, FlashOf[w] = "FLASH_TORCH"
  PROVE  w = "torch"
BY DEF FlashOf

(* The controls that are no plain setting.                                  *)
LEMMA PlainControls ==
  \A k \in Plain : ControlOf(k) \in Controls \ {"flash", "iso", "metering", "rate"}
BY DEF Plain, Settings, ControlOf, Controls, Resent

(* When a driver call has failed there is nothing left to keep.             *)
LEMMA SpoiltSession ==
  ASSUME NEW d, d.spoilt, d.unsent, d.id # Nothing
  PROVE  Session(d)
BY DEF Session, Agree, TorchInv, Metering, Told

(* startPreview() passes on what is cached.                                 *)
LEMMA StartPreviewCalls ==
  ASSUME NEW d \in HalType, d.id # Nothing
  PROVE  Calls(d, StartPreview(d))
<1>1. CASE d.started
  BY <1>1 DEF StartPreview, Calls
<1>2. CASE ~d.started /\ "format" \in d.fail
  <2>1. StartPreview(d) = Fail(d)
    BY <1>2 DEF StartPreview
  <2> QED BY <2>1, FailFields, SpoiltSession DEF Calls
<1>3. CASE ~d.started /\ "format" \notin d.fail
  <2>1. PICK b \in BOOLEAN : b = TRUE
    OBVIOUS
  <2>2. PICK e : e = [d EXCEPT !.started = b]
    OBVIOUS
  <2>3. /\ e \in HalType /\ e.told = d.told /\ e.cached = d.cached /\ e.sensor = d.sensor
        /\ e.id = d.id /\ e.started /\ e.recording = d.recording
        /\ e.ret = d.ret /\ e.fail = d.fail /\ e.unsent = d.unsent /\ e.spoilt = d.spoilt
    BY <2>1, <2>2 DEF HalType
  <2>4. CASE d.id = "back"
    <3>1. StartPreview(d) = Resend(e)
      BY <1>3, <2>1, <2>2, <2>4 DEF StartPreview
    <3>2. PICK sent : sent = {StartOrder[i] : i \in {i \in DOMAIN StartOrder :
                                \A j \in 1..i : StartOrder[j] \notin e.fail}}
      OBVIOUS
    <3>3. PICK f : f = [x \in Controls |-> IF x \in sent THEN e.cached[x] ELSE e.sensor[x]]
      OBVIOUS
    <3>4. f \in [Controls -> Values]
          /\ \A x \in Controls : x \in sent => f[x] = e.cached[x]
      BY <2>3, <3>3 DEF HalType
    <3>5. PICK g : g = [e EXCEPT !.sensor = f]
      OBVIOUS
    <3>6. /\ g \in HalType /\ g.told = e.told /\ g.cached = e.cached /\ g.sensor = f
          /\ g.id = e.id /\ g.started = e.started /\ g.recording = e.recording
          /\ g.ret = e.ret /\ g.fail = e.fail /\ g.unsent = e.unsent /\ g.spoilt = e.spoilt
      BY <2>3, <3>4, <3>5 DEF HalType
    <3>7. CASE sent = Resent
      <4>1. PICK n \in BOOLEAN : n = FALSE
        OBVIOUS
      <4>2. PICK t : t = [g EXCEPT !.unsent = n]
        OBVIOUS
      <4>3. /\ t \in HalType /\ t.told = g.told /\ t.cached = g.cached /\ t.sensor = g.sensor
            /\ t.id = g.id /\ t.started = g.started /\ t.recording = g.recording
            /\ t.ret = g.ret /\ t.fail = g.fail /\ t.spoilt = g.spoilt
        BY <3>6, <4>2 DEF HalType
      <4>4. Resend(e) = t
        BY <3>2, <3>3, <3>5, <3>7, <4>1, <4>2 DEF Resend
      <4>5. \A x \in Resent : t.sensor[x] = t.cached[x]
        BY <3>4, <3>6, <3>7, <4>3 DEF Controls
      <4>6. {"flash", "rate"} \subseteq Resent
        BY DEF Resent
      <4>7. Session(d) => Session(t)
        BY <2>3, <2>4, <3>6, <4>3, <4>5, <4>6
           DEF Session, Agree, TorchInv, Metering, Told
      <4> QED BY <2>3, <3>1, <3>6, <4>3, <4>4, <4>7 DEF Calls
    <3>8. CASE sent # Resent
      <4>1. Resend(e) = Fail(g)
        BY <3>2, <3>3, <3>5, <3>8 DEF Resend
      <4> QED BY <2>3, <3>1, <3>6, <4>1, FailFields, SpoiltSession DEF Calls
    <3> QED BY <3>7, <3>8
  <2>5. CASE d.id # "back"
    <3>1. PICK n \in BOOLEAN : n = FALSE
      OBVIOUS
    <3>2. PICK t : t = [e EXCEPT !.unsent = n]
      OBVIOUS
    <3>3. /\ t \in HalType /\ t.told = e.told /\ t.cached = e.cached /\ t.sensor = e.sensor
          /\ t.id = e.id /\ t.started = e.started /\ t.recording = e.recording
          /\ t.ret = e.ret /\ t.fail = e.fail /\ t.spoilt = e.spoilt
      BY <2>3, <3>2 DEF HalType
    <3>4. StartPreview(d) = t
      BY <1>3, <2>1, <2>2, <2>5, <3>1, <3>2 DEF StartPreview
    <3> QED BY <2>3, <2>5, <3>3, <3>4 DEF Calls, Session, Agree, TorchInv, Metering, Told
  <2> QED BY <2>4, <2>5
<1> QED BY <1>1, <1>2, <1>3

(* What Agree is about is kept with the rest.                               *)
LEMMA KeepsAgree ==
  ASSUME NEW d, NEW t, Keeps(d, t), d.id # Nothing, Agree(d)
  PROVE  Agree(t)
BY DEF Keeps, Agree

(* What is told is told after any setter for a control that is no setting.  *)
LEMMA PlainCached ==
  ASSUME NEW d \in HalType, NEW t, NEW x \in {"flash", "iso", "metering", "rate"}, NEW v,
         t.cached = [d.cached EXCEPT ![x] = v], t.told = d.told
  PROVE  /\ \A k \in Plain : t.cached[ControlOf(k)] = d.cached[ControlOf(k)]
         /\ \A k \in Settings : t.told[k] = d.told[k]
         /\ t.cached[x] = v
         /\ \A y \in {"flash", "iso", "metering", "rate"} \ {x} : t.cached[y] = d.cached[y]
<1>1. d.cached \in [Controls -> Values]
  BY DEF HalType
<1>2. {"flash", "iso", "metering", "rate"} \subseteq Controls
  BY DEF Controls, Resent
<1> QED BY <1>1, <1>2, PlainControls

(* stopPreview() puts out the torch first.                                  *)
LEMMA StopPreviewCalls ==
  ASSUME NEW d \in HalType, d.id # Nothing
  PROVE  /\ Calls(d, StopPreview(d))
         /\ Session(d) => LET t == StopPreview(d) IN t.started => t.unsent
<1>1. CASE ~d.started
  BY <1>1 DEF StopPreview, Calls
<1>2. CASE d.started
  <2>1. PICK e : e = IF d.cached["flash"] = "FLASH_TORCH" THEN setFlashMode(d, "FLASH_OFF")
                     ELSE d
    OBVIOUS
  <2>2. /\ Keeps(d, e) /\ e.told = d.told /\ e.ret = d.ret
        /\ e.cached["flash"] # "FLASH_TORCH"
        /\ Session(d) => Session(e)
    <3>1. CASE d.cached["flash"] = "FLASH_TORCH"
      <4>1. "flash" \in Controls /\ "rate" \in Controls \ {"flash"}
        BY DEF Controls, Resent
      <4>2. "FLASH_OFF" \in Values
        <5>1. "FLASH_OFF" \in {FlashOf[w] : w \in DOMAIN FlashOf}
          BY DEF FlashOf
        <5> QED BY <5>1 DEF Values
      <4>3. Sets(d, e, "flash", "FLASH_OFF")
        BY <2>1, <3>1, <4>1, <4>2, SetControlSets DEF setFlashMode
      <4>4. /\ Keeps(d, e) /\ e.told = d.told /\ e.ret = d.ret
            /\ e.cached = [d.cached EXCEPT !["flash"] = "FLASH_OFF"]
            /\ e.sensor["rate"] = d.sensor["rate"]
        BY <4>1, <4>3 DEF Sets
      <4>5. /\ \A k \in Plain : e.cached[ControlOf(k)] = d.cached[ControlOf(k)]
            /\ \A k \in Settings : e.told[k] = d.told[k]
            /\ e.cached["flash"] = "FLASH_OFF"
            /\ \A y \in {"iso", "metering", "rate"} : e.cached[y] = d.cached[y]
        BY <4>4, PlainCached
      <4>6. ASSUME Session(d)
            PROVE  Session(e)
        <5>1. Agree(e)
          BY <4>4, <4>6, KeepsAgree DEF Session
        <5>2. TorchInv(e)
          BY <4>4, <4>6 DEF Session, Keeps
        <5>3. Metering(e)
          BY <4>4, <4>5, <4>6 DEF Session, Metering, Keeps
        <5>4. Told(e)
          <6>1. SUFFICES ASSUME e.id = "back", ~e.spoilt
                         PROVE  Told(e)
            BY DEF Told
          <6>2. d.id = "back" /\ ~d.spoilt /\ e.recording = d.recording
            BY <4>4, <6>1 DEF Keeps
          <6>3. d.told.flash \in DOMAIN FlashOf
            BY <4>6, <6>2 DEF Session, Told, Settings, Valid
          <6>4. d.told.flash = "torch"
            BY <3>1, <4>6, <6>2, <6>3, TorchWord DEF Session, Told
          <6> QED BY <4>4, <4>5, <4>6, <6>2, <6>4 DEF Session, Told
        <5> QED BY <5>1, <5>2, <5>3, <5>4 DEF Session
      <4> QED BY <4>4, <4>5, <4>6
    <3>2. CASE d.cached["flash"] # "FLASH_TORCH"
      BY <2>1, <3>2, KeepsRefl
    <3> QED BY <3>1, <3>2
  <2>3. e \in HalType /\ e.id = d.id /\ (d.spoilt => e.spoilt)
    BY <2>2 DEF Keeps
  <2>4. CASE "streamoff" \in d.fail \/ d.id = Nothing
    <3>1. StopPreview(d) = Fail(e)
      BY <1>2, <2>1, <2>4 DEF StopPreview
    <3> QED BY <2>2, <2>3, <3>1, FailFields, SpoiltSession DEF Calls
  <2>5. CASE ~("streamoff" \in d.fail \/ d.id = Nothing)
    <3>1. PICK n \in BOOLEAN : n = FALSE
      OBVIOUS
    <3>2. PICK t : t = [e EXCEPT !.started = n]
      OBVIOUS
    <3>3. /\ t \in HalType /\ t.told = e.told /\ t.cached = e.cached /\ t.sensor = e.sensor
          /\ t.id = e.id /\ ~t.started /\ t.recording = e.recording
          /\ t.ret = e.ret /\ t.fail = e.fail /\ t.spoilt = e.spoilt
      BY <2>3, <3>1, <3>2 DEF HalType
    <3>4. StopPreview(d) = t
      BY <1>2, <2>1, <2>5, <3>1, <3>2 DEF StopPreview
    <3>5. Session(d) => Session(t)
      BY <2>2, <2>3, <3>3 DEF Session, Agree, TorchInv, Metering, Told
    <3> QED BY <2>2, <2>3, <3>3, <3>4, <3>5 DEF Calls
  <2> QED BY <2>4, <2>5
<1> QED BY <1>1, <1>2

(* The driver is given a frame rate of its own.                             *)
LEMMA SendRate ==
  ASSUME NEW d \in HalType, NEW v \in Values
  PROVE  LET t == Send(d, "rate", v)
         IN  /\ Keeps(d, t) /\ t.told = d.told /\ t.ret = d.ret /\ t.cached = d.cached
             /\ ~t.spoilt => t.sensor["rate"] = v
             /\ "rate" \in d.fail => t.spoilt /\ t.unsent
<1>1. "rate" \in Controls /\ "flash" \in Controls \ {"rate"}
      /\ Resent \ {"rate"} \subseteq Controls \ {"rate"}
  BY DEF Controls, Resent
<1>2. PICK t : t = Send(d, "rate", v)
  OBVIOUS
<1>3. /\ t \in HalType /\ t.told = d.told /\ t.cached = d.cached
      /\ t.id = d.id /\ t.started = d.started /\ t.recording = d.recording
      /\ t.ret = d.ret /\ t.fail = d.fail
      /\ \A y \in Controls \ {"rate"} : t.sensor[y] = d.sensor[y]
      /\ \/ t.sensor = d.sensor /\ t.unsent /\ t.spoilt /\ "rate" \in d.fail
         \/ /\ t.sensor["rate"] = v /\ t.unsent = d.unsent /\ t.spoilt = d.spoilt
            /\ t.err = d.err
  BY <1>1, <1>2, SendFields
<1>4. "rate" \in d.fail => t.spoilt /\ t.unsent
  BY <1>2, FailFields DEF Send
<1> QED BY <1>1, <1>2, <1>3, <1>4 DEF Keeps, TorchInv

(* startRecord() of the back camera makes its own settings, and spoils the  *)
(* session when one of them fails.                                          *)
LEMMA StartRecordCalls ==
  ASSUME NEW d \in HalType, d.id # Nothing
  PROVE  Calls(d, StartRecord(d))
<1>1. CASE d.recording
  BY <1>1 DEF StartRecord, Calls
<1>2. CASE ~d.recording /\ "format" \in d.fail
  <2>1. StartRecord(d) = Fail(d)
    BY <1>2 DEF StartRecord
  <2> QED BY <2>1, FailFields, SpoiltSession DEF Calls
<1>3. CASE ~d.recording /\ "format" \notin d.fail
  <2>1. PICK e : e = IF d.id = "back"
                     THEN setMetering(setISO(d, "ISO_MOVIE"), "METERING_MATRIX") ELSE d
    OBVIOUS
  <2>2. /\ Keeps(d, e) /\ e.told = d.told /\ e.ret = d.ret
        /\ d.id = "back" =>
             /\ e.cached["metering"] = "METERING_MATRIX" /\ e.cached["iso"] = "ISO_MOVIE"
             /\ e.cached["flash"] = d.cached["flash"]
             /\ e.cached["rate"] = d.cached["rate"]
             /\ \A k \in Plain : e.cached[ControlOf(k)] = d.cached[ControlOf(k)]
    <3>1. CASE d.id = "back"
      <4>1. {"iso", "metering"} \subseteq Controls
            /\ {"ISO_MOVIE", "METERING_MATRIX"} \subseteq Values
        BY DEF Controls, Resent, Values
      <4>2. PICK f : f = setISO(d, "ISO_MOVIE")
        OBVIOUS
      <4>3. Sets(d, f, "iso", "ISO_MOVIE") /\ f \in HalType
        BY <4>1, <4>2, SetControlSets, SetControlType DEF setISO
      <4>4. Sets(f, e, "metering", "METERING_MATRIX")
        BY <2>1, <3>1, <4>1, <4>2, <4>3, SetControlSets DEF setMetering
      <4>5. /\ \A k \in Plain : f.cached[ControlOf(k)] = d.cached[ControlOf(k)]
            /\ f.cached["iso"] = "ISO_MOVIE" /\ f.cached["flash"] = d.cached["flash"]
            /\ f.cached["rate"] = d.cached["rate"]
        BY <4>3, PlainCached DEF Sets
      <4>6. /\ \A k \in Plain : e.cached[ControlOf(k)] = f.cached[ControlOf(k)]
            /\ e.cached["metering"] = "METERING_MATRIX"
            /\ e.cached["iso"] = f.cached["iso"] /\ e.cached["flash"] = f.cached["flash"]
            /\ e.cached["rate"] = f.cached["rate"]
        BY <4>3, <4>4, PlainCached DEF Sets
      <4>7. Keeps(d, e)
        BY <4>3, <4>4, KeepsTrans DEF Sets
      <4>8. e.told = d.told /\ e.ret = d.ret
        BY <4>3, <4>4 DEF Sets
      <4> QED BY <4>5, <4>6, <4>7, <4>8
    <3>2. CASE d.id # "back"
      BY <2>1, <3>2, KeepsRefl
    <3> QED BY <3>1, <3>2
  <2>3. e \in HalType /\ e.fail = d.fail
    BY <2>2 DEF Keeps
  <2>4. "rate" \in Controls
    BY DEF Controls, Resent
  <2>5. d.cached["rate"] \in Values
    BY <2>4 DEF HalType
  <2>6. PICK f : f = Send(e, "rate", d.cached["rate"])
    OBVIOUS
  <2>7. /\ Keeps(e, f) /\ f.told = e.told /\ f.ret = e.ret /\ f.cached = e.cached
        /\ ~f.spoilt => f.sensor["rate"] = d.cached["rate"]
    BY <2>3, <2>5, <2>6, SendRate
  <2>8. Keeps(d, f)
    BY <2>2, <2>7, KeepsTrans
  <2>9. f \in HalType /\ f.id = d.id /\ (d.spoilt => f.spoilt)
    BY <2>8 DEF Keeps
  <2>10. CASE d.fail \intersect {"rate", "record"} # {}
    <3>1. StartRecord(d) = Fail(f)
      BY <1>3, <2>1, <2>6, <2>10 DEF StartRecord
    <3> QED BY <2>2, <2>7, <2>9, <3>1, FailFields, SpoiltSession DEF Calls
  <2>11. CASE d.fail \intersect {"rate", "record"} = {}
    <3>1. PICK b \in BOOLEAN : b = TRUE
      OBVIOUS
    <3>2. PICK t : t = [f EXCEPT !.recording = b]
      OBVIOUS
    <3>3. /\ t \in HalType /\ t.told = f.told /\ t.cached = f.cached /\ t.sensor = f.sensor
          /\ t.id = f.id /\ t.started = f.started /\ t.recording
          /\ t.ret = f.ret /\ t.fail = f.fail /\ t.unsent = f.unsent /\ t.spoilt = f.spoilt
      BY <2>9, <3>1, <3>2 DEF HalType
    <3>4. StartRecord(d) = t
      BY <1>3, <2>1, <2>6, <2>11, <3>1, <3>2 DEF StartRecord
    <3>5. ASSUME Session(d)
          PROVE  Session(t)
      <4>1. Agree(f) /\ TorchInv(f)
        BY <2>8, <3>5, KeepsAgree DEF Session, Keeps
      <4>2. Agree(t) /\ TorchInv(t)
        BY <2>9, <3>3, <4>1 DEF Agree, TorchInv
      <4>3. SUFFICES ASSUME d.id = "back", ~f.spoilt
                     PROVE  Metering(t) /\ Told(t)
        BY <2>9, <3>3, <4>2 DEF Session, Metering, Told
      <4>4. t.cached["rate"] = d.cached["rate"]
        BY <2>2, <2>7, <3>3, <4>3
      <4>5. Metering(t)
        BY <2>2, <2>7, <3>3, <4>3, <4>4 DEF Metering
      <4>6. Told(t)
        BY <2>2, <2>7, <2>9, <3>3, <3>5, <4>3 DEF Session, Told
      <4> QED BY <4>5, <4>6
    <3> QED BY <2>2, <2>7, <2>9, <3>3, <3>4, <3>5 DEF Calls
  <2> QED BY <2>10, <2>11
<1> QED BY <1>1, <1>2, <1>3

(* stopRecord() has the focus move once and restores what was cached.       *)
LEMMA FocusRestored ==
  ASSUME NEW d \in HalType
  PROVE  LET t == setFocusMode(setFocusMode(d, "FOCUS_MACRO"), d.cached["focus"])
         IN  Keeps(d, t) /\ t.told = d.told /\ t.ret = d.ret /\ t.cached = d.cached
<1>1. "focus" \in Controls
  BY DEF Controls, Resent
<1>2. d.cached \in [Controls -> Values] /\ d.cached["focus"] \in Values
  BY <1>1 DEF HalType
<1>3. "FOCUS_MACRO" \in Values
  <2>1. "FOCUS_MACRO" \in {FocusOf[w] : w \in DOMAIN FocusOf}
    BY DEF FocusOf
  <2> QED BY <2>1 DEF Values
<1>4. PICK e : e = setFocusMode(d, "FOCUS_MACRO")
  OBVIOUS
<1>5. Sets(d, e, "focus", "FOCUS_MACRO") /\ e \in HalType
  BY <1>1, <1>3, <1>4, SetControlSets, SetControlType DEF setFocusMode
<1>6. PICK t : t = setFocusMode(e, d.cached["focus"])
  OBVIOUS
<1>7. Sets(e, t, "focus", d.cached["focus"])
  BY <1>1, <1>2, <1>5, <1>6, SetControlSets DEF setFocusMode
<1>8. Keeps(d, t)
  BY <1>5, <1>7, KeepsTrans DEF Sets
<1>9. t.told = d.told /\ t.ret = d.ret
  BY <1>5, <1>7 DEF Sets
<1>10. t.cached = d.cached
  <2>1. e.cached = [d.cached EXCEPT !["focus"] = "FOCUS_MACRO"]
    BY <1>5 DEF Sets
  <2>2. t.cached = [e.cached EXCEPT !["focus"] = d.cached["focus"]]
    BY <1>7 DEF Sets
  <2> QED BY <1>1, <1>2, <2>1, <2>2
<1> QED BY <1>4, <1>6, <1>8, <1>9, <1>10

(* stopRecord() takes back the settings of the recording; the session is    *)
(* spoilt when it cannot.                                                   *)
LEMMA StopRecordCalls ==
  ASSUME NEW d \in HalType, d.id # Nothing
  PROVE  LET t == StopRecord(d)
         IN  /\ Calls(d, t)
             /\ t.started = d.started /\ (d.unsent => t.unsent) /\ ~t.recording
<1>1. CASE ~d.recording
  BY <1>1 DEF StopRecord, Calls
<1>2. CASE d.recording
  <2>1. PICK a : a = setFocusMode(setFocusMode(d, "FOCUS_MACRO"), d.cached["focus"])
    OBVIOUS
  <2>2. Keeps(d, a) /\ a.told = d.told /\ a.ret = d.ret /\ a.cached = d.cached
    BY <2>1, FocusRestored
  <2>3. a \in HalType /\ a.id = d.id /\ a.started = d.started /\ a.fail = d.fail
        /\ (d.spoilt => a.spoilt) /\ (d.unsent => a.unsent)
    BY <2>2 DEF Keeps
  <2>4. PICK n \in BOOLEAN : n = FALSE
    OBVIOUS
  <2>5. PICK e : e = [a EXCEPT !.recording = n]
    OBVIOUS
  <2>6. /\ e \in HalType /\ e.told = a.told /\ e.cached = a.cached /\ e.sensor = a.sensor
        /\ e.id = a.id /\ e.started = a.started /\ ~e.recording
        /\ e.ret = a.ret /\ e.fail = a.fail /\ e.unsent = a.unsent /\ e.spoilt = a.spoilt
    BY <2>3, <2>4, <2>5 DEF HalType
  <2>7. Agree(d) /\ TorchInv(d) => Agree(e) /\ TorchInv(e)
    <3>1. Agree(d) /\ TorchInv(d) => Agree(a) /\ TorchInv(a)
      BY <2>2, KeepsAgree DEF Keeps
    <3> QED BY <2>3, <2>6, <3>1 DEF Agree, TorchInv
  <2>8. PICK f : f = Send(e, "rate", "AUTO")
    OBVIOUS
  <2>9. /\ Keeps(e, f) /\ f.told = e.told /\ f.ret = e.ret /\ f.cached = e.cached
        /\ "rate" \in e.fail => f.spoilt /\ f.unsent
    <3>1. "AUTO" \in Values
      BY DEF Values
    <3> QED BY <2>6, <2>8, <3>1, SendRate
  <2>10. /\ f \in HalType /\ f.id = e.id /\ f.started = e.started /\ ~f.recording
         /\ (e.spoilt => f.spoilt) /\ (e.unsent => f.unsent)
    BY <2>6, <2>9 DEF Keeps
  <2>11. Agree(d) /\ TorchInv(d) => Agree(f) /\ TorchInv(f)
    BY <2>3, <2>6, <2>7, <2>9, KeepsAgree DEF Keeps
  <2>12. CASE "record" \in d.fail
    <3>1. StopRecord(d) = Fail(e)
      BY <1>2, <2>1, <2>4, <2>5, <2>12 DEF StopRecord
    <3> QED BY <2>2, <2>3, <2>6, <3>1, FailFields, SpoiltSession DEF Calls
  <2>13. CASE "record" \notin d.fail /\ "rate" \in d.fail
    <3>1. StopRecord(d) = f
      BY <1>2, <2>1, <2>4, <2>5, <2>8, <2>13 DEF StopRecord
    <3> QED BY <2>2, <2>3, <2>6, <2>9, <2>10, <2>13, <3>1, SpoiltSession DEF Calls
  <2>14. CASE "record" \notin d.fail /\ "rate" \notin d.fail /\ d.id # "back"
    <3>1. StopRecord(d) = f
      BY <1>2, <2>1, <2>4, <2>5, <2>8, <2>14 DEF StopRecord
    <3>2. Metering(f) /\ Told(f)
      BY <2>3, <2>6, <2>10, <2>14 DEF Metering, Told
    <3> QED BY <2>2, <2>3, <2>6, <2>9, <2>10, <2>11, <3>1, <3>2 DEF Calls, Session
  <2>15. CASE "record" \notin d.fail /\ "rate" \notin d.fail /\ d.id = "back"
    <3>1. {"iso", "metering"} \subseteq Controls
          /\ {"ISO_AUTO", "METERING_CENTER"} \subseteq Values
      <4>1. "ISO_AUTO" \in {IsoOf[w] : w \in DOMAIN IsoOf}
        BY DEF IsoOf
      <4> QED BY <4>1 DEF Controls, Resent, Values
    <3>2. PICK g : g = setISO(f, "ISO_AUTO")
      OBVIOUS
    <3>3. Sets(f, g, "iso", "ISO_AUTO") /\ g \in HalType
      BY <2>10, <3>1, <3>2, SetControlSets, SetControlType DEF setISO
    <3>4. PICK t : t = setMetering(g, "METERING_CENTER")
      OBVIOUS
    <3>5. Sets(g, t, "metering", "METERING_CENTER")
      BY <3>1, <3>3, <3>4, SetControlSets DEF setMetering
    <3>6. StopRecord(d) = t
      BY <1>2, <2>1, <2>4, <2>5, <2>8, <2>15, <3>2, <3>4 DEF StopRecord
    <3>7. Keeps(f, t)
      BY <3>3, <3>5, KeepsTrans DEF Sets
    <3>8. t.told = f.told /\ t.ret = f.ret
      BY <3>3, <3>5 DEF Sets
    <3>9. /\ \A k \in Plain : g.cached[ControlOf(k)] = f.cached[ControlOf(k)]
          /\ g.cached["iso"] = "ISO_AUTO" /\ g.cached["flash"] = f.cached["flash"]
      BY <2>10, <3>3, PlainCached DEF Sets
    <3>10. /\ \A k \in Plain : t.cached[ControlOf(k)] = g.cached[ControlOf(k)]
           /\ t.cached["metering"] = "METERING_CENTER"
           /\ t.cached["iso"] = g.cached["iso"] /\ t.cached["flash"] = g.cached["flash"]
      <4>1. t.cached = [g.cached EXCEPT !["metering"] = "METERING_CENTER"] /\ t.told = g.told
        BY <3>5 DEF Sets
      <4> QED BY <3>3, <4>1, PlainCached
    <3>11. /\ t \in HalType /\ t.id = f.id /\ t.started = f.started /\ ~t.recording
           /\ (f.spoilt => t.spoilt) /\ (f.unsent => t.unsent)
      BY <2>10, <3>7 DEF Keeps
    <3>12. ASSUME Session(d)
           PROVE  Session(t)
      <4>1. Agree(t) /\ TorchInv(t)
        BY <2>3, <2>6, <2>10, <2>11, <3>7, <3>12, KeepsAgree DEF Session, Keeps
      <4>2. Metering(t)
        BY <3>10, <3>11 DEF Metering
      <4>3. Told(t)
        BY <2>2, <2>3, <2>6, <2>9, <2>10, <3>8, <3>9, <3>10, <3>11, <3>12 DEF Session, Told
      <4> QED BY <4>1, <4>2, <4>3 DEF Session
    <3> QED BY <2>2, <2>3, <2>6, <2>9, <2>10, <3>6, <3>8, <3>11, <3>12 DEF Calls
  <2> QED BY <2>12, <2>13, <2>14, <2>15
<1> QED BY <1>1, <1>2

(* release() ends both, and leaves no preview that counts as sent.          *)
LEMMA ReleaseSession ==
  ASSUME NEW d \in HalType, d.id # Nothing, Session(d)
  PROVE  Release(d) \in HalType /\ Session(Release(d)) /\ Release(d).id = Nothing
<1>1. PICK a : a = StopPreview(d)
  OBVIOUS
<1>2. Calls(d, a) /\ (a.started => a.unsent)
  BY <1>1, StopPreviewCalls
<1>3. a \in HalType /\ a.id = d.id /\ Session(a)
  BY <1>2 DEF Calls
<1>4. PICK e : e = StopRecord(a)
  OBVIOUS
<1>5. Calls(a, e) /\ e.started = a.started /\ (a.unsent => e.unsent) /\ ~e.recording
  BY <1>3, <1>4, StopRecordCalls
<1>6. e \in HalType /\ Session(e)
  BY <1>3, <1>5 DEF Calls
<1>7. PICK t : t = [e EXCEPT !.id = Nothing]
  OBVIOUS
<1>8. /\ t \in HalType /\ t.told = e.told /\ t.cached = e.cached /\ t.sensor = e.sensor
      /\ t.id = Nothing /\ t.started = e.started /\ t.recording = e.recording
      /\ t.fail = e.fail /\ t.unsent = e.unsent /\ t.spoilt = e.spoilt
  BY <1>6, <1>7 DEF HalType
<1>9. Nothing # "back"
  BY NothingAssumption
<1>10. Session(t)
  BY <1>2, <1>5, <1>6, <1>8, <1>9 DEF Session, Agree, TorchInv, Metering, Told
<1> QED BY <1>1, <1>4, <1>7, <1>8, <1>10 DEF Release

-------------------------------------------------------------------------------
(* The inductive invariant *)

Inv == TypeOK /\ Session(hal)

(* Which driver calls fail is no part of the session.                       *)
LEMMA FailsField ==
  ASSUME NEW d \in HalType, NEW F \in Failures \union {{}}
  PROVE  LET t == [d EXCEPT !.fail = F]
         IN  /\ t \in HalType /\ t.told = d.told /\ t.cached = d.cached /\ t.sensor = d.sensor
             /\ t.id = d.id /\ t.started = d.started /\ t.recording = d.recording
             /\ t.ret = d.ret /\ t.unsent = d.unsent /\ t.spoilt = d.spoilt
             /\ Session(d) => Session(t)
<1>1. PICK t : t = [d EXCEPT !.fail = F]
  OBVIOUS
<1>2. /\ t \in HalType /\ t.told = d.told /\ t.cached = d.cached /\ t.sensor = d.sensor
      /\ t.id = d.id /\ t.started = d.started /\ t.recording = d.recording
      /\ t.ret = d.ret /\ t.unsent = d.unsent /\ t.spoilt = d.spoilt
  BY <1>1 DEF HalType
<1>3. Session(d) => Session(t)
  BY <1>2 DEF Session, Agree, TorchInv, Metering, Told
<1> QED BY <1>1, <1>2, <1>3

(* What a call returns with is what it made of the settings.                *)
LEMMA ReturnsFields ==
  ASSUME NEW d \in HalType, Returns(d)
  PROVE  /\ hal' \in HalType /\ hal'.told = d.told /\ hal'.cached = d.cached
         /\ hal'.id = d.id /\ hal'.ret = d.ret /\ hal'.spoilt = d.spoilt
         /\ Session(d) => Session(hal')
<1>1. PICK F \in Failures \union {{}} : F = {}
  OBVIOUS
<1>2. hal' = [d EXCEPT !.fail = F]
  BY <1>1 DEF Returns
<1> QED BY <1>2, FailsField

(* No camera is open at first.                                              *)
LEMMA InitInv == Init => Inv
<1>1. SUFFICES ASSUME Init
               PROVE  Inv
  OBVIOUS
<1>2. PICK told : told = Defaults("back")
  OBVIOUS
<1>3. told \in [Keys -> Words]
  BY <1>2, DefaultsType
<1>4. PICK q \in Values : q = 100
  BY DEF Values
<1>5. Nothing \in Values
  BY DEF Values
<1>6. PICK cached : cached = [c \in Controls |-> IF c = "quality" THEN q ELSE Nothing]
  OBVIOUS
<1>7. PICK sensor : sensor = [c \in Controls |-> Nothing]
  OBVIOUS
<1>8. cached \in [Controls -> Values] /\ sensor \in [Controls -> Values]
  BY <1>5, <1>6, <1>7
<1>9. PICK y \in BOOLEAN : y = TRUE
  OBVIOUS
<1>10. PICK n \in BOOLEAN : n = FALSE
  OBVIOUS
<1>11. PICK F \in Failures \union {{}} : F = {}
  OBVIOUS
<1>12. hal = [told |-> told, cached |-> cached, sensor |-> sensor, id |-> Nothing,
              started |-> n, recording |-> n, ret |-> y, err |-> n, fail |-> F,
              unsent |-> n, spoilt |-> n]
  BY <1>1, <1>2, <1>4, <1>6, <1>7, <1>9, <1>10, <1>11 DEF Init
<1>13. hal \in HalType /\ hal.id = Nothing /\ hal.started = n /\ hal.recording = n
       /\ hal.sensor = sensor
  BY <1>3, <1>8, <1>12 DEF HalType
<1>14. Nothing # "back" /\ Nothing # "FLASH_TORCH"
  <2>1. "FLASH_TORCH" \in {FlashOf[w] : w \in DOMAIN FlashOf}
    BY DEF FlashOf
  <2> QED BY <2>1, NothingAssumption
<1>15. sensor["flash"] = Nothing
  BY <1>7 DEF Controls, Resent
<1>16. Session(hal)
  BY <1>10, <1>13, <1>14, <1>15 DEF Session, Agree, TorchInv, Metering, Told
<1> QED BY <1>13, <1>16 DEF Inv, TypeOK

(* What the driver has before a camera is opened says nothing of its sensor. *)
LEMMA InitCameraFields ==
  ASSUME NEW d \in HalType, NEW id \in {"back", "front"}
  PROVE  LET t == InitCamera(d, id)
         IN  /\ t \in HalType /\ t.id = id /\ t.started = d.started
             /\ t.recording = d.recording /\ t.unsent = d.unsent
             /\ TorchInv(t)
<1>1. PICK n \in BOOLEAN : n = FALSE
  OBVIOUS
<1>2. PICK f : f = [c \in Controls |-> Nothing]
  OBVIOUS
<1>3. f \in [Controls -> Values] /\ f["flash"] = Nothing
  BY <1>2 DEF Values, Controls, Resent
<1>4. PICK t : t = [d EXCEPT !.id = id, !.sensor = f, !.spoilt = n]
  OBVIOUS
<1>5. /\ t \in HalType /\ t.id = id /\ t.started = d.started
      /\ t.recording = d.recording /\ t.unsent = d.unsent /\ t.sensor = f
  BY <1>3, <1>4 DEF HalType
<1>6. Nothing # "FLASH_TORCH"
  <2>1. "FLASH_TORCH" \in {FlashOf[w] : w \in DOMAIN FlashOf}
    BY DEF FlashOf
  <2> QED BY <2>1, NothingAssumption
<1>7. TorchInv(t)
  BY <1>3, <1>5, <1>6 DEF TorchInv
<1> QED BY <1>1, <1>2, <1>4, <1>5, <1>7 DEF InitCamera

(* The defaults are a session's.                                            *)
LEMMA FreshTold ==
  ASSUME NEW t, t.told = Defaults("back"), \A x \in Resent : t.cached[x] = FreshOf("back")[x],
         t.cached["quality"] = 100
  PROVE  Told(t)
<1> DEFINE p == Defaults("back")
<1>1. /\ p.quality = 100 /\ p.exposure = 0 /\ p.iso = "auto" /\ p.white = "auto"
      /\ p.effect = "none" /\ p.focus = "auto" /\ p.scene = "auto" /\ p.flash = "off"
  BY DEF Defaults
<1> HIDE DEF p
<1>2. \A k \in Settings : p[k] \in Valid(k)
  BY <1>1 DEF Settings, Valid, IsoOf, WhiteOf, EffectOf, FocusOf, FlashOf, SceneOf
<1>3. /\ t.cached["brightness"] = 0 /\ t.cached["white"] = "WB_AUTO"
      /\ t.cached["effect"] = "EFFECT_NONE" /\ t.cached["focus"] = "FOCUS_AUTO"
      /\ t.cached["scene"] = "SCENE_NONE" /\ t.cached["flash"] = "FLASH_OFF"
      /\ t.cached["iso"] = "ISO_AUTO"
  BY DEF Resent, FreshOf
<1>4. ASSUME NEW k \in Plain
      PROVE  t.cached[ControlOf(k)] = ValueOf(k, p[k])
  <2>1. CASE k = "quality"
    BY <1>1, <2>1 DEF ControlOf, ValueOf
  <2>2. CASE k = "exposure"
    BY <1>1, <1>3, <2>2 DEF ControlOf, ValueOf
  <2>3. CASE k = "white"
    BY <1>1, <1>3, <2>3 DEF ControlOf, ValueOf, WhiteOf
  <2>4. CASE k = "effect"
    BY <1>1, <1>3, <2>4 DEF ControlOf, ValueOf, EffectOf
  <2>5. CASE k = "focus"
    BY <1>1, <1>3, <2>5 DEF ControlOf, ValueOf, FocusOf
  <2>6. CASE k = "scene"
    BY <1>1, <1>3, <2>6 DEF ControlOf, ValueOf, SceneOf
  <2> QED BY <2>1, <2>2, <2>3, <2>4, <2>5, <2>6 DEF Plain, Settings
<1>5. t.cached["flash"] = FlashOf[p.flash]
  BY <1>1, <1>3 DEF FlashOf
<1>6. t.told = p
  BY DEF p
<1> QED BY <1>2, <1>3, <1>4, <1>5, <1>6 DEF Told

(* What is told and cached when a camera is opened.                         *)
Fresh(t) ==
  /\ t.told = Defaults(t.id)
  /\ \A x \in IF t.id = "back" THEN Resent ELSE Resent \ BackOnly :
       t.cached[x] = FreshOf(t.id)[x]

(* A camera is opened with the session kept, and fresh.                     *)
LEMMA OpenStep ==
  ASSUME Inv, Open
  PROVE  /\ hal' \in HalType /\ Session(hal')
         /\ Fresh(hal')
         /\ hal'.id = "back" /\ ~hal'.spoilt => hal'.ret
<1>1. PICK id \in Cameras, fail \in Failures :
        Returns(initDefaultParameters(InitCamera([hal EXCEPT !.fail = fail], id)))
  BY DEF Open
<1>2. id \in {"back", "front"}
  BY CamerasAssumption
<1>3. PICK a : a = [hal EXCEPT !.fail = fail]
  OBVIOUS
<1>4. /\ a \in HalType /\ a.id = Nothing /\ Session(a)
  BY <1>3, FailsField DEF Inv, TypeOK, Open
<1>5. (a.started => a.unsent) /\ ~a.recording
  BY <1>4 DEF Session, Agree
<1>6. PICK d : d = InitCamera(a, id)
  OBVIOUS
<1>7. /\ d \in HalType /\ d.id = id /\ (d.started => d.unsent) /\ ~d.recording
      /\ TorchInv(d)
  BY <1>2, <1>4, <1>5, <1>6, InitCameraFields
<1>8. PICK t : t = initDefaultParameters(d)
  OBVIOUS
<1>9. Keeps(d, t)
  BY <1>2, <1>7, <1>8, InitBack, InitFront
<1>10. /\ t \in HalType /\ t.id = id /\ (t.started => t.unsent) /\ ~t.recording
       /\ TorchInv(t)
  BY <1>7, <1>9 DEF Keeps
<1>11. Returns(t)
  BY <1>1, <1>3, <1>6, <1>8
<1>12. Nothing \notin {"back", "front"}
  BY NothingAssumption
<1>13. CASE id = "back"
  <2>1. /\ t.told = Defaults("back")
        /\ \A x \in Resent : t.cached[x] = FreshOf("back")[x]
        /\ t.cached["quality"] = 100
        /\ ~t.spoilt => t.ret
    BY <1>7, <1>8, <1>13, InitBack
  <2>2. Told(t)
    BY <2>1, FreshTold
  <2>3. Metering(t)
    BY <1>10, <2>1 DEF Metering, Resent, FreshOf
  <2>4. Session(t)
    BY <1>2, <1>10, <1>12, <2>2, <2>3 DEF Session, Agree
  <2>5. Fresh(t)
    BY <1>10, <1>13, <2>1 DEF Fresh
  <2> QED BY <1>10, <1>11, <2>1, <2>4, <2>5, ReturnsFields DEF Fresh
<1>14. CASE id = "front"
  <2>1. Session(t)
    BY <1>10, <1>12, <1>14 DEF Session, Agree, Metering, Told
  <2>2. /\ t.told = Defaults("front")
        /\ \A x \in Resent \ BackOnly : t.cached[x] = FreshOf("front")[x]
    BY <1>7, <1>8, <1>14, InitFront
  <2>3. Fresh(t)
    BY <1>10, <1>14, <2>2 DEF Fresh
  <2> QED BY <1>10, <1>11, <1>14, <2>1, <2>3, ReturnsFields DEF Fresh
<1> QED BY <1>2, <1>13, <1>14

(* setParameters() keeps the session whatever the client asks for.          *)
LEMMA SetParametersSession ==
  ASSUME NEW d \in HalType, d.id # Nothing, Session(d), NEW p
  PROVE  /\ Keeps(d, setParameters(d, p))
         /\ Session(setParameters(d, p))
<1>1. PICK t : t = setParameters(d, p)
  OBVIOUS
<1>2. Keeps(d, t)
  BY <1>1, SetParametersBack, SetParametersFront DEF Params
<1>3. Agree(t) /\ TorchInv(t)
  BY <1>2, KeepsAgree DEF Session, Keeps
<1>4. CASE d.id = "back"
  <2>1. Params(d, t, p)
    BY <1>1, <1>4, SetParametersBack
  <2>2. t.recording = d.recording /\ (~t.spoilt => ~d.spoilt)
    BY <1>2 DEF Keeps
  <2>3. Metering(t)
    BY <1>4, <2>1, <2>2 DEF Params, Session, Metering
  <2>4. SUFFICES ASSUME ~t.spoilt
                 PROVE  Told(t)
    BY <1>1, <1>2, <1>3, <2>3 DEF Session, Told
  <2>5. \A k \in Settings :
          \/ /\ t.told[k] \in Valid(k)
             /\ t.cached[ControlOf(k)] = ValueOf(k, t.told[k])
          \/ /\ t.cached[ControlOf(k)] = d.cached[ControlOf(k)]
             /\ t.told[k] = d.told[k]
    BY <2>1, <2>4 DEF Params
  <2>6. Told(d) /\ d.id = "back" /\ ~d.spoilt
    BY <1>4, <2>2, <2>4 DEF Session
  <2>7. /\ \A k \in Settings : t.told[k] \in Valid(k)
        /\ \A k \in Plain : t.cached[ControlOf(k)] = ValueOf(k, t.told[k])
    BY <2>5, <2>6 DEF Told, Plain
  <2>8. \/ t.cached["flash"] = FlashOf[t.told.flash]
        \/ t.cached["flash"] = "FLASH_OFF" /\ t.told.flash = "torch"
    <3>1. "flash" \in Settings /\ ControlOf("flash") = "flash"
      BY DEF Settings, ControlOf
    <3>2. ValueOf("flash", t.told.flash) = FlashOf[t.told.flash]
      BY DEF ValueOf
    <3> QED BY <2>5, <2>6, <3>1, <3>2 DEF Told
  <2>9. \/ t.cached["iso"] = IsoOf[t.told.iso]
        \/ t.cached["iso"] = "ISO_AUTO"
        \/ t.cached["iso"] = "ISO_MOVIE" /\ t.recording
    <3>1. "iso" \in Settings /\ ControlOf("iso") = "iso"
      BY DEF Settings, ControlOf
    <3>2. ValueOf("iso", t.told.iso) = IsoOf[t.told.iso]
      BY DEF ValueOf
    <3> QED BY <2>2, <2>5, <2>6, <3>1, <3>2 DEF Told
  <2> QED BY <2>7, <2>8, <2>9 DEF Told
<1>5. CASE d.id # "back"
  BY <1>1, <1>2, <1>3, <1>5 DEF Session, Keeps, Metering, Told
<1> QED BY <1>4, <1>5

(* The other calls but release() keep the session and what the client is    *)
(* told.                                                                    *)
LEMMA CallStep ==
  ASSUME Inv, hal.id # Nothing, NEW fail \in Failures, Call(fail)
  PROVE  /\ hal' \in HalType /\ Session(hal')
         /\ \/ hal'.id = Nothing
            \/ /\ hal'.id = hal.id /\ hal'.told = hal.told /\ hal'.ret = hal.ret
               /\ hal.spoilt => hal'.spoilt
<1>1. PICK d : d = [hal EXCEPT !.fail = fail]
  OBVIOUS
<1>2. /\ d \in HalType /\ d.id = hal.id /\ d.told = hal.told /\ d.ret = hal.ret
      /\ d.spoilt = hal.spoilt /\ Session(d)
  BY <1>1, FailsField DEF Inv, TypeOK
<1>3. ASSUME NEW t, Calls(d, t), Returns(t)
      PROVE  /\ hal' \in HalType /\ Session(hal')
             /\ hal'.id = hal.id /\ hal'.told = hal.told /\ hal'.ret = hal.ret
             /\ hal.spoilt => hal'.spoilt
  BY <1>2, <1>3, ReturnsFields DEF Calls
<1>4. CASE Returns(StartPreview(d))
  BY <1>2, <1>3, <1>4, StartPreviewCalls
<1>5. CASE Returns(StopPreview(d))
  BY <1>2, <1>3, <1>5, StopPreviewCalls
<1>6. CASE Returns(StartRecord(d))
  BY <1>2, <1>3, <1>6, StartRecordCalls
<1>7. CASE Returns(StopRecord(d))
  BY <1>2, <1>3, <1>7, StopRecordCalls
<1>8. CASE Returns(Release(d))
  BY <1>2, <1>8, ReleaseSession, ReturnsFields
<1> QED BY <1>1, <1>4, <1>5, <1>6, <1>7, <1>8 DEF Call

(* Every call of the client keeps the session.                              *)
LEMMA NextInv == Inv /\ [Next]_hal => Inv'
<1> SUFFICES ASSUME Inv, [Next]_hal
             PROVE  hal' \in HalType /\ Session(hal')
  BY DEF Inv, TypeOK, Session, Agree, TorchInv, Metering, Told
<1>1. CASE Open
  BY <1>1, OpenStep
<1>2. CASE SetParameters
  <2>1. PICK change \in Changes, fail \in Failures :
          Returns(setParameters([hal EXCEPT !.fail = fail],
                                [hal.told EXCEPT ![change[1]] = change[2]]))
    BY <1>2 DEF SetParameters
  <2>2. PICK d : d = [hal EXCEPT !.fail = fail]
    OBVIOUS
  <2>3. PICK p : p = [hal.told EXCEPT ![change[1]] = change[2]]
    OBVIOUS
  <2>4. d \in HalType /\ d.id # Nothing /\ Session(d)
    BY <1>2, <2>2, FailsField DEF Inv, TypeOK, SetParameters
  <2>5. PICK t : t = setParameters(d, p)
    OBVIOUS
  <2>6. t \in HalType /\ Session(t)
    BY <2>4, <2>5, SetParametersSession DEF Keeps
  <2> QED BY <2>1, <2>2, <2>3, <2>5, <2>6, ReturnsFields
<1>3. ASSUME NEW fail \in Failures, hal.id # Nothing, Call(fail)
      PROVE  hal' \in HalType /\ Session(hal')
  BY <1>3, CallStep
<1>4. CASE UNCHANGED hal
  BY <1>4 DEF Inv, TypeOK
<1> QED BY <1>1, <1>2, <1>3, <1>4 DEF Next

(* So it holds in every session.                                            *)
THEOREM InvHolds == Spec => []Inv
BY InitInv, NextInv, PTL DEF Spec

-------------------------------------------------------------------------------
(* What follows *)

(* What the client is told, what is cached and what the sensor was given    *)
(* are words and values of the tables, whatever was asked for.              *)
THEOREM ControlsTypeCorrect == Spec => []TypeOK
<1>1. Inv => TypeOK
  BY DEF Inv
<1> QED BY <1>1, InvHolds, PTL

(* While the preview of the back camera runs the sensor has what is cached. *)
THEOREM SensorAgreesHolds == Spec => []SensorAgrees
<1>1. Inv => SensorAgrees
  BY DEF Inv, Session, Agree, SensorAgrees
<1> QED BY <1>1, InvHolds, PTL

(* The torch is off whenever the preview does not run.                      *)
THEOREM TorchIsOffHolds == Spec => []TorchIsOff
<1>1. Inv => TorchIsOff
  BY DEF Inv, Session, TorchInv, TorchIsOff
<1> QED BY <1>1, InvHolds, PTL

(* The metering and the frame rate of a recording.                          *)
THEOREM RecordSettingsHolds == Spec => []RecordSettings
<1>1. Inv => RecordSettings
  BY DEF Inv, Session, Metering, RecordSettings
<1> QED BY <1>1, InvHolds, PTL

(* What the client is told is cached, but for a torch that was put out and  *)
(* the ISO value of a recording.                                            *)
THEOREM ToldIsCachedHolds == Spec => []ToldIsCached
<1>1. Inv => ToldIsCached
  <2>1. SUFFICES ASSUME Inv, hal.id = "back", ~hal.spoilt
                 PROVE  ToldIsCached
    BY DEF ToldIsCached
  <2>2. /\ \A k \in Plain : hal.cached[ControlOf(k)] = ValueOf(k, hal.told[k])
        /\ \/ hal.cached["flash"] = FlashOf[hal.told.flash]
           \/ hal.cached["flash"] = "FLASH_OFF" /\ hal.told.flash = "torch"
        /\ \/ hal.cached["iso"] = IsoOf[hal.told.iso]
           \/ hal.cached["iso"] = "ISO_AUTO"
           \/ hal.cached["iso"] = "ISO_MOVIE" /\ hal.recording
    BY <2>1 DEF Inv, Session, Told
  <2>3. {"white", "effect", "scene", "focus", "exposure", "quality"} \subseteq Plain
    BY DEF Plain, Settings
  <2>4. \A k \in {"white", "effect", "scene", "focus", "exposure", "quality"} :
          hal.cached[ControlOf(k)] = ValueOf(k, hal.told[k])
    BY <2>2, <2>3
  <2>5. /\ hal.cached["white"] = WhiteOf[hal.told.white]
        /\ hal.cached["effect"] = EffectOf[hal.told.effect]
        /\ hal.cached["scene"] = SceneOf[hal.told.scene]
        /\ hal.cached["focus"] = FocusOf[hal.told.focus]
        /\ hal.cached["brightness"] = hal.told.exposure
        /\ hal.cached["quality"] = hal.told.quality
    BY <2>4 DEF ControlOf, ValueOf
  <2> QED BY <2>2, <2>5 DEF ToldIsCached
<1> QED BY <1>1, InvHolds, PTL

(* A camera, the back or the front one, is opened with its defaults, told   *)
(* and, but for the scene, the focus and the flash of a front session,      *)
(* cached, whichever driver calls fail then and whatever the session before *)
(* left.                                                                    *)
THEOREM FreshSessionHolds == Spec => FreshSession
<1> DEFINE Opened == hal.id = Nothing /\ hal'.id # Nothing => Fresh(hal')
<1>1. ASSUME Inv, [Next]_hal
      PROVE  [Opened]_hal
  <2>1. CASE Open
    BY <1>1, <2>1, OpenStep
  <2>2. CASE hal.id # Nothing
    BY <2>2
  <2>3. CASE UNCHANGED hal
    BY <2>3
  <2> QED BY <1>1, <2>1, <2>2, <2>3 DEF Next, SetParameters
<1>2. Spec => [][Opened]_hal
  BY <1>1, InvHolds, PTL DEF Spec
<1>3. ASSUME [Opened]_hal
      PROVE  [hal.id = Nothing /\ hal'.id # Nothing =>
                /\ hal'.told = Defaults(hal'.id)
                /\ \A c \in IF hal'.id = "back" THEN Resent ELSE Resent \ BackOnly :
                     hal'.cached[c] = FreshOf(hal'.id)[c]]_hal
  BY <1>3 DEF Fresh
<1> QED BY <1>2, <1>3, PTL DEF FreshSession

-------------------------------------------------------------------------------
(* Scenes *)

(* The client asks for words of the tables, and leaves the range of frames  *)
(* to the scene; a quality or an exposure may be anything.                  *)
SupportedChanges ==
  \A change \in Changes :
    /\ change[1] # "fps"
    /\ change[1] \in Settings \ {"quality", "exposure"} => change[2] \in Valid(change[1])

(* SceneConsistent of a state.                                              *)
SceneOk(d) ==
  d.id = "back" /\ ~d.spoilt =>
    /\ d.told.fps = FpsOf(d.told.scene)
    /\ d.told.flash \in d.told.flashes
    /\ d.ret
    /\ d.told.scene # "auto" =>
         d.told.focus = "auto" /\ d.told.flash = FlashIn(d.told)

(* With one such change what the client is told is supported again.         *)
LEMMA ChangedSupported ==
  ASSUME NEW told \in [Keys -> Words], \A k \in Settings : told[k] \in Valid(k),
         SupportedChanges, NEW change \in Changes
  PROVE  LET p == [told EXCEPT ![change[1]] = change[2]]
         IN  Supported(p) /\ p.fps = told.fps
<1> DEFINE p == [told EXCEPT ![change[1]] = change[2]]
<1>1. Settings \subseteq Keys /\ "fps" \in Keys
  BY SettingTypes DEF Keys, Defaults
<1>2. \A k \in Keys : p[k] = IF k = change[1] THEN change[2] ELSE told[k]
  OBVIOUS
<1>3. p.fps = told.fps
  BY <1>1, <1>2 DEF SupportedChanges
<1>4. \A k \in Settings \ {"quality", "exposure"} : p[k] \in Valid(k)
  BY <1>1, <1>2 DEF SupportedChanges
<1> HIDE DEF p
<1>5. p.focus \in DOMAIN FocusOf /\ p.flash \in DOMAIN FlashOf
  <2>1. {"focus", "flash"} \subseteq Settings \ {"quality", "exposure"}
    BY DEF Settings
  <2>2. p["focus"] \in Valid("focus") /\ p["flash"] \in Valid("flash")
    BY <1>4, <2>1
  <2> QED BY <2>2 DEF Valid
<1>6. FocusIn(p) \in DOMAIN FocusOf
  BY <1>5 DEF FocusIn, FocusOf
<1>7. FlashIn(p) \in DOMAIN FlashOf
  BY <1>5 DEF FlashIn, FlashOf
<1>8. ASSUME NEW k \in Settings \ {"quality", "exposure"}
      PROVE  Asked(p, k) \in Valid(k)
  <2>1. CASE k = "focus"
    BY <1>6, <2>1 DEF Asked, Valid
  <2>2. CASE k = "flash"
    BY <1>7, <2>2 DEF Asked, Valid
  <2>3. CASE k \notin {"focus", "flash"}
    BY <1>4, <2>3 DEF Asked
  <2> QED BY <2>1, <2>2, <2>3
<1> QED BY <1>3, <1>8 DEF Supported, p

(* setParameters() tells the scene's focus, flash and range of frames.      *)
LEMMA SetParametersScene ==
  ASSUME NEW d \in HalType, d.id = "back", Session(d), NEW p, Supported(p),
         p.fps = d.told.fps, d.told.scene \in DOMAIN SceneOf
  PROVE  SceneOk(setParameters(d, p))
<1>1. PICK t : t = setParameters(d, p)
  OBVIOUS
<1>2. Params(d, t, p)
  BY <1>1, SetParametersBack
<1>3. SUFFICES ASSUME ~t.spoilt
               PROVE  /\ t.told.fps = FpsOf(t.told.scene)
                      /\ t.told.flash \in t.told.flashes
                      /\ t.ret
                      /\ t.told.scene # "auto" =>
                           t.told.focus = "auto" /\ t.told.flash = FlashIn(t.told)
  BY <1>1 DEF SceneOk
<1>4. {"focus", "flash", "scene"} \subseteq Settings \ {"quality", "exposure"}
  BY DEF Settings
<1>5. \A k \in {"focus", "flash", "scene"} : Asked(p, k) \in Valid(k) /\ t.told[k] = Asked(p, k)
  BY <1>2, <1>3, <1>4 DEF Params, Supported
<1>6. t.told.scene = p.scene /\ p.scene \in DOMAIN SceneOf
  BY <1>5 DEF Asked, Valid
<1>7. t.told.focus = FocusIn(p)
  BY <1>5 DEF Asked
<1>8. t.told.flash = FlashIn(p) /\ FlashIn(p) \in DOMAIN FlashOf
  BY <1>5 DEF Asked, Valid
<1>9. t.told.fps = FpsOf(p.scene) /\ t.told.flashes = FlashesOf(p)
  BY <1>2, <1>6 DEF Params
<1>10. t.ret
  BY <1>2, <1>3 DEF Params
<1> QED BY <1>6, <1>7, <1>8, <1>9, <1>10 DEF FlashesOf, FocusIn, FlashIn

(* The scene decides on the focus, the flash and the range of frames, and   *)
(* what the client is told is accepted again with one supported change.     *)
THEOREM SceneConsistentHolds ==
  ASSUME SupportedChanges
  PROVE  Spec => []SceneConsistent
<1>1. Init => SceneOk(hal)
  <2>1. Nothing # "back"
    BY NothingAssumption
  <2>2. Init => hal.id = Nothing
    BY DEF Init
  <2> QED BY <2>1, <2>2 DEF SceneOk
<1>2. ASSUME Inv, SceneOk(hal), [Next]_hal
      PROVE  SceneOk(hal')
  <2>1. CASE Open
    <3>1. /\ hal'.id = "back" =>
               /\ hal'.told = Defaults("back")
               /\ ~hal'.spoilt => hal'.ret
      BY <1>2, <2>1, OpenStep DEF Fresh
    <3> QED BY <3>1 DEF SceneOk, Defaults, FpsOf, FlashOf
  <2>2. CASE SetParameters
    <3>1. PICK change \in Changes, fail \in Failures :
            Returns(setParameters([hal EXCEPT !.fail = fail],
                                  [hal.told EXCEPT ![change[1]] = change[2]]))
      BY <2>2 DEF SetParameters
    <3>2. PICK d : d = [hal EXCEPT !.fail = fail]
      OBVIOUS
    <3>3. PICK p : p = [hal.told EXCEPT ![change[1]] = change[2]]
      OBVIOUS
    <3>4. /\ d \in HalType /\ d.id # Nothing /\ d.told = hal.told /\ d.spoilt = hal.spoilt
          /\ Session(d)
      BY <1>2, <2>2, <3>2, FailsField DEF Inv, TypeOK, SetParameters
    <3>5. PICK t : t = setParameters(d, p)
      OBVIOUS
    <3>6. t \in HalType /\ t.id = d.id /\ (d.spoilt => t.spoilt)
      BY <3>4, <3>5, SetParametersSession DEF Keeps
    <3>7. /\ hal'.told = t.told /\ hal'.id = t.id /\ hal'.ret = t.ret
          /\ hal'.spoilt = t.spoilt
      BY <3>1, <3>2, <3>3, <3>5, <3>6, ReturnsFields
    <3>8. SUFFICES ASSUME d.id = "back", ~d.spoilt
                   PROVE  SceneOk(t)
      BY <3>6, <3>7 DEF SceneOk
    <3>9. d.told \in [Keys -> Words] /\ \A k \in Settings : d.told[k] \in Valid(k)
      BY <3>4, <3>8 DEF Session, Told, HalType
    <3>10. Supported(p) /\ p.fps = d.told.fps
      BY <3>3, <3>4, <3>9, ChangedSupported
    <3>11. d.told.scene \in DOMAIN SceneOf
      BY <3>9 DEF Settings, Valid
    <3> QED BY <3>4, <3>5, <3>8, <3>10, <3>11, SetParametersScene
  <2>3. ASSUME NEW fail \in Failures, hal.id # Nothing, Call(fail)
        PROVE  SceneOk(hal')
    <3>1. \/ hal'.id = Nothing
          \/ /\ hal'.id = hal.id /\ hal'.told = hal.told /\ hal'.ret = hal.ret
             /\ hal.spoilt => hal'.spoilt
      BY <1>2, <2>3, CallStep
    <3>2. Nothing # "back"
      BY NothingAssumption
    <3> QED BY <1>2, <3>1, <3>2 DEF SceneOk
  <2>4. CASE UNCHANGED hal
    BY <1>2, <2>4
  <2> QED BY <1>2, <2>1, <2>2, <2>3, <2>4 DEF Next
<1>3. SceneOk(hal) => SceneConsistent
  BY DEF SceneOk, SceneConsistent, FpsOf
<1>4. Inv /\ SceneOk(hal) /\ [Next]_hal => SceneOk(hal)'
  BY <1>2 DEF SceneOk
<1> QED BY <1>1, <1>3, <1>4, InvHolds, PTL DEF Spec
===============================================================================
