------------------------------ MODULE CameraControls ------------------------------
(***************************************************************************)
(* The settings of the camera: what setParameters() and the other calls of *)
(* SecCameraHWInterface.cpp and SecCamera.cpp do to three copies of them,  *)
(*   told     mParameters, which getParameters() gives to the client,      *)
(*   cached   m_params and its neighbours in the singleton SecCamera,      *)
(*   sensor   the value the driver was last given since its node is open.  *)
(* A setter caches its value, and passes it on only while the preview      *)
(* runs; startPreview() of the back camera passes on what is cached.       *)
(*                                                                         *)
(* Calls are whole here: the client makes one at a time, and who else may  *)
(* use the node meanwhile is the subject of CameraHal.  Sizes, rotation,   *)
(* thumbnails and positions are copied and left out; S_PARM, which passes  *)
(* the whole cache on, is the driver's to interpret and left out too.      *)
(***************************************************************************)
EXTENDS Integers, Sequences

CONSTANTS Nothing,   \* a key that is missing, a control the driver was not given
          Cameras,   \* a subset of {"back", "front"}
          Changes,   \* pairs of a key and a word: what a client may ask for
          Failures   \* sets of driver calls that may fail in one call

ASSUME CamerasAssumption == Cameras \subseteq {"back", "front"}

(* The controls that startPreview() passes on, in its order. *)
StartOrder ==
  <<"scene", "white", "effect", "rate", "metering", "saturation", "focus",
    "contrast", "iso", "brightness", "sharpness", "flash">>
Resent == {"scene", "white", "effect", "rate", "metering", "saturation", "focus",
           "contrast", "iso", "brightness", "sharpness", "flash"}
Controls == Resent \union {"quality", "touch"}

(* The words of CameraParameters and the driver's values for them; a word   *)
(* that is not in the table is invalid.                                     *)
IsoOf    == [auto |-> "ISO_AUTO", ISO100 |-> "ISO_100", ISO200 |-> "ISO_200",
             ISO400 |-> "ISO_400"]
WhiteOf  == [auto |-> "WB_AUTO", daylight |-> "WB_DAYLIGHT", cloudy |-> "WB_CLOUDY",
             fluorescent |-> "WB_FLUORESCENT", incandescent |-> "WB_INCANDESCENT"]
EffectOf == [none |-> "EFFECT_NONE", mono |-> "EFFECT_BNW", sepia |-> "EFFECT_SEPIA",
             negative |-> "EFFECT_NEGATIVE"]
FocusOf  == [auto |-> "FOCUS_AUTO", macro |-> "FOCUS_MACRO",
             infinity |-> "FOCUS_INFINITY"]
FlashOf  == [off |-> "FLASH_OFF", auto |-> "FLASH_AUTO", on |-> "FLASH_ON",
             torch |-> "FLASH_TORCH"]
SceneOf  == [auto |-> "SCENE_NONE", portrait |-> "SCENE_PORTRAIT",
             landscape |-> "SCENE_LANDSCAPE", sports |-> "SCENE_SPORTS",
             party |-> "SCENE_PARTY", beach |-> "SCENE_BEACH_SNOW",
             snow |-> "SCENE_BEACH_SNOW", sunset |-> "SCENE_SUNSET",
             night |-> "SCENE_NIGHTSHOT", fireworks |-> "SCENE_FIREWORKS",
             candlelight |-> "SCENE_CANDLE_LIGHT"]
ScenesWithFlash == {"portrait", "party"}

ASSUME NothingAssumption ==
  Nothing \notin {"back", "front"} \union DOMAIN SceneOf \union {FlashOf[w] : w \in DOMAIN FlashOf}

(* What a client is told when the camera is opened. *)
Defaults(id) ==
  [quality |-> 100, exposure |-> 0, iso |-> "auto", white |-> "auto",
   effect |-> "none",
   focus   |-> IF id = "back" THEN "auto" ELSE "fixed",
   fps     |-> IF id = "back" THEN "15-30" ELSE "7.5-30",
   scene   |-> IF id = "back" THEN "auto" ELSE Nothing,
   flash   |-> IF id = "back" THEN "off" ELSE Nothing,
   flashes |-> IF id = "back" THEN DOMAIN FlashOf ELSE Nothing,
   area    |-> IF id = "back" THEN "dummy" ELSE Nothing]
Keys == DOMAIN Defaults("back")

VARIABLE hal

(***************************************************************************)
(* id: the camera that is open.  started, recording: m_flag_camera_start,  *)
(* m_flag_record_start.  ret: the last setParameters() returned NO_ERROR;  *)
(* err: the last setter returned -1.  fail: the driver calls that fail in  *)
(* this call.  unsent and spoilt remember that one did, since the preview  *)
(* was started and since the camera was opened.                            *)
(***************************************************************************)
Init ==
  hal = [told |-> Defaults("back"),
         cached |-> [c \in Controls |-> IF c = "quality" THEN 100 ELSE Nothing],
         sensor |-> [c \in Controls |-> Nothing],
         id |-> Nothing, started |-> FALSE, recording |-> FALSE,
         ret |-> TRUE, err |-> FALSE,
         fail |-> {}, unsent |-> FALSE, spoilt |-> FALSE]

-------------------------------------------------------------------------------
(* Setters *)

Fail(d) == [d EXCEPT !.err = TRUE, !.unsent = TRUE, !.spoilt = TRUE]

Send(d, c, v) == IF c \in d.fail THEN Fail(d) ELSE [d EXCEPT !.sensor[c] = v]

Cache(d, c, v) == [d EXCEPT !.cached[c] = v, !.err = FALSE]

SetControl(d, c, v) ==
  IF d.cached[c] # v /\ d.started THEN Send(Cache(d, c, v), c, v) ELSE Cache(d, c, v)

setFrameRate(d, v)    == SetControl(d, "rate", v)
setWhiteBalance(d, v) == SetControl(d, "white", v)
setImageEffect(d, v)  == SetControl(d, "effect", v)
setSceneMode(d, v)    == SetControl(d, "scene", v)
setFlashMode(d, v)    == SetControl(d, "flash", v)
setISO(d, v)          == SetControl(d, "iso", v)
setContrast(d, v)     == SetControl(d, "contrast", v)
setSaturation(d, v)   == SetControl(d, "saturation", v)
setSharpness(d, v)    == SetControl(d, "sharpness", v)
setMetering(d, v)     == SetControl(d, "metering", v)
setFocusMode(d, v)    == SetControl(d, "focus", v)

(* EV_MINUS_4 .. EV_PLUS_4 *)
setBrightness(d, v) ==
  IF v \in -4..4 THEN SetControl(d, "brightness", v) ELSE [d EXCEPT !.err = TRUE]

(* Only the back camera has its quality set, and only while it previews.    *)
setJpegQuality(d, v) ==
  IF d.id = "back" THEN SetControl(d, "quality", v) ELSE Cache(d, "quality", v)

setTouchAFStartStop(d, v) ==
  IF d.started THEN Send(Cache(d, "touch", v), "touch", v) ELSE [d EXCEPT !.err = FALSE]

-------------------------------------------------------------------------------
(* setParameters(), by its sections.  p is what the client asks for.        *)

Error(d) == [d EXCEPT !.ret = FALSE]

(* The client is told only what the setter before did not refuse.           *)
Tell(d, key, word) == IF d.err THEN Error(d) ELSE [d EXCEPT !.told[key] = word]

(* A bad quality is ignored. *)
ParamQuality(d, p) ==
  IF p.quality \in 1..100
  THEN Tell(setJpegQuality(d, p.quality), "quality", p.quality) ELSE d

(* So is an exposure out of the range the client names, -4..4. *)
ParamExposure(d, p) ==
  IF p.exposure \in -4..4
  THEN Tell(setBrightness(d, p.exposure), "exposure", p.exposure) ELSE d

ParamIso(d, p) ==
  IF p.iso \in DOMAIN IsoOf THEN Tell(setISO(d, IsoOf[p.iso]), "iso", p.iso)
  ELSE Error(d)

ParamWhite(d, p) ==
  IF p.white \in DOMAIN WhiteOf
  THEN Tell(setWhiteBalance(d, WhiteOf[p.white]), "white", p.white) ELSE Error(d)

(* The range of frames is the scene's: only another scene may change it.    *)
(* Without scenes only a range upside down, or below 0, is refused.         *)
ParamFps(d, p) ==
  LET scenes == d.told.scene # Nothing /\ p.scene # Nothing
  IN  IF \/ scenes /\ p.scene = d.told.scene /\ p.fps # d.told.fps
         \/ ~scenes /\ p.fps = "30-15"
      THEN Error(d) ELSE d

(* What a scene makes of the focus, the flash and the range of frames; the  *)
(* defaults are set before the scene is known to be one.                    *)
FocusIn(p) == IF p.scene = "auto" THEN p.focus ELSE "auto"
FlashIn(p) == IF p.scene = "auto" THEN p.flash
              ELSE IF p.scene \in ScenesWithFlash THEN "auto" ELSE "off"

TellScene_Bug(d, p) ==    \* the range of frames is not the night's
  IF p.scene = "auto" THEN [d EXCEPT !.told.fps = "15-30", !.told.flashes = DOMAIN FlashOf]
  ELSE IF p.scene \in DOMAIN SceneOf
  THEN [d EXCEPT !.told.fps = "15-30", !.told.flashes = {FlashIn(p)}]
  ELSE Error([d EXCEPT !.told.fps = "15-30"])

TellScene(d, p) ==
  IF p.scene = "auto" THEN [d EXCEPT !.told.fps = "15-30", !.told.flashes = DOMAIN FlashOf]
  ELSE IF p.scene \in DOMAIN SceneOf
  THEN [d EXCEPT !.told.fps = IF p.scene = "night" THEN "4-30" ELSE "15-30",
                 !.told.flashes = {FlashIn(p)}]
  ELSE Error([d EXCEPT !.told.fps = "15-30"])

ParamFocus(d, p) ==
  IF FocusIn(p) \in DOMAIN FocusOf
  THEN Tell(setFocusMode(d, FocusOf[FocusIn(p)]), "focus", FocusIn(p)) ELSE Error(d)

ParamFlash(d, p) ==
  IF FlashIn(p) \in DOMAIN FlashOf
  THEN Tell(setFlashMode(d, FlashOf[FlashIn(p)]), "flash", FlashIn(p)) ELSE Error(d)

ParamScene(d, p) ==
  IF p.scene \in DOMAIN SceneOf
  THEN Tell(setSceneMode(d, SceneOf[p.scene]), "scene", p.scene) ELSE d

(* The area of the focus starts or stops it and is not remembered. *)
ParamArea(d, p) ==
  LET e == setTouchAFStartStop(d, p.area # "dummy")
  IN  IF e.err THEN Error(e) ELSE e

ParamsOfBack(d, p) ==
  ParamArea(ParamScene(ParamFlash(ParamFocus(TellScene(d, p), p), p), p), p)

ParamsOfFront(d, p) == IF p.focus = "fixed" THEN d ELSE Error(d)

ParamEffect(d, p) ==
  IF p.effect \in DOMAIN EffectOf
  THEN Tell(setImageEffect(d, EffectOf[p.effect]), "effect", p.effect) ELSE Error(d)

(* mInternalParameters, which never change. *)
ParamInternal(d) ==
  LET e == setContrast(d, "CONTRAST_DEFAULT") IN IF e.err THEN Error(e) ELSE e

setParameters(d, p) ==
  LET a == ParamFps(ParamWhite(ParamIso(ParamExposure(ParamQuality(
             [d EXCEPT !.ret = TRUE], p), p), p), p), p)
      b == IF d.id = "back" THEN ParamsOfBack(a, p) ELSE ParamsOfFront(a, p)
  IN  ParamInternal(ParamEffect(b, p))

-------------------------------------------------------------------------------
(* The other calls *)

initDefaultParameters_Bug(d) ==    \* the rate is still that of the camera before
  LET e == setParameters([d EXCEPT !.told = Defaults(d.id)], Defaults(d.id))
  IN  setSaturation(setSharpness(setContrast(setMetering(setISO(
        e, "ISO_AUTO"), "METERING_CENTER"), "CONTRAST_DEFAULT"), "SHARPNESS_DEFAULT"),
        "SATURATION_DEFAULT")

initDefaultParameters(d) ==
  LET e == setParameters([d EXCEPT !.told = Defaults(d.id)], Defaults(d.id))
  IN  setFrameRate(setSaturation(setSharpness(setContrast(setMetering(setISO(
        e, "ISO_AUTO"), "METERING_CENTER"), "CONTRAST_DEFAULT"), "SHARPNESS_DEFAULT"),
        "SATURATION_DEFAULT"), IF d.id = "back" THEN 30 ELSE 15)

InitCamera(d, id) ==
  [d EXCEPT !.id = id, !.sensor = [c \in Controls |-> Nothing], !.spoilt = FALSE]

(* startPreview() of the back camera stops at the first control that fails. *)
Resend_Bug(d) ==    \* without the last, the flash
  [d EXCEPT !.sensor = [c \in Controls |->
     IF c \in Resent \ {"flash"} THEN d.cached[c] ELSE d.sensor[c]], !.unsent = FALSE]

Resend(d) ==
  LET sent == {StartOrder[i] : i \in {i \in DOMAIN StartOrder :
                 \A j \in 1..i : StartOrder[j] \notin d.fail}}
      e    == [d EXCEPT !.sensor = [c \in Controls |->
                 IF c \in sent THEN d.cached[c] ELSE d.sensor[c]]]
  IN  IF sent = Resent THEN [e EXCEPT !.unsent = FALSE] ELSE Fail(e)

StartPreview(d) ==
  IF d.started \/ d.id = Nothing THEN d
  ELSE IF "format" \in d.fail THEN Fail(d)
  ELSE LET e == [d EXCEPT !.started = TRUE]
       IN  IF d.id = "back" THEN Resend(e) ELSE [e EXCEPT !.unsent = FALSE]

StopPreview_Bug(d) ==    \* leaves the torch
  IF ~d.started THEN d
  ELSE IF "streamoff" \in d.fail \/ d.id = Nothing THEN Fail(d)
  ELSE [d EXCEPT !.started = FALSE]

StopPreview(d) ==
  IF ~d.started THEN d
  ELSE LET e == IF d.cached["flash"] = "FLASH_TORCH" THEN setFlashMode(d, "FLASH_OFF")
                ELSE d
       IN  IF "streamoff" \in d.fail \/ d.id = Nothing THEN Fail(e)
           ELSE [e EXCEPT !.started = FALSE]

(* "format" fails before the settings of a recording are made, "record"     *)
(* after.                                                                   *)
StartRecord(d) ==
  IF d.recording \/ d.id = Nothing THEN d
  ELSE IF "format" \in d.fail THEN Fail(d)
  ELSE LET e == IF d.id = "back"
                THEN setMetering(setISO(d, "ISO_MOVIE"), "METERING_MATRIX") ELSE d
           f == Send(e, "rate", d.cached["rate"])
       IN  IF d.fail \intersect {"rate", "record"} # {} THEN Fail(f)
           ELSE [f EXCEPT !.recording = TRUE]

StopRecord_Bug(d) ==    \* restores the focus it has just set
  IF ~d.recording THEN d
  ELSE LET e == [setFocusMode(d, "FOCUS_MACRO") EXCEPT !.recording = FALSE]
           f == Send(e, "rate", "AUTO")
       IN  IF "record" \in d.fail THEN Fail(e)
           ELSE IF "rate" \in d.fail \/ d.id # "back" THEN f
           ELSE setMetering(setISO(f, "ISO_AUTO"), "METERING_CENTER")

StopRecord_Bug2(d) ==   \* the metering stays
  IF ~d.recording THEN d
  ELSE LET e == [setFocusMode(setFocusMode(d, "FOCUS_MACRO"), d.cached["focus"])
                   EXCEPT !.recording = FALSE]
           f == Send(e, "rate", "AUTO")
       IN  IF "record" \in d.fail THEN Fail(e)
           ELSE IF "rate" \in d.fail \/ d.id # "back" THEN f
           ELSE setISO(f, "ISO_AUTO")

StopRecord(d) ==
  IF ~d.recording THEN d
  ELSE LET e == [setFocusMode(setFocusMode(d, "FOCUS_MACRO"), d.cached["focus"])
                   EXCEPT !.recording = FALSE]
           f == Send(e, "rate", "AUTO")
       IN  IF "record" \in d.fail THEN Fail(e)
           ELSE IF "rate" \in d.fail \/ d.id # "back" THEN f
           ELSE setMetering(setISO(f, "ISO_AUTO"), "METERING_CENTER")

(* release(): the preview thread stops the preview on its way out. *)
Release(d) == [StopRecord(StopPreview(d)) EXCEPT !.id = Nothing]

-------------------------------------------------------------------------------
(* A call of the client while the driver fails what it fails. *)

Returns(d) == hal' = [d EXCEPT !.fail = {}]

Open ==
  /\ hal.id = Nothing
  /\ \E id \in Cameras, fail \in Failures :
       \E d \in {InitCamera([hal EXCEPT !.fail = fail], id)} :
         Returns(initDefaultParameters(d))

(* The client changes something of what getParameters() gave it. *)
SetParameters ==
  /\ hal.id # Nothing
  /\ \E change \in Changes, fail \in Failures :
       \E p \in {[hal.told EXCEPT ![change[1]] = change[2]]} :
         Returns(setParameters([hal EXCEPT !.fail = fail], p))

Call(fail) ==
  LET d == [hal EXCEPT !.fail = fail]
  IN  \/ Returns(StartPreview(d))
      \/ Returns(StopPreview(d))
      \/ Returns(StartRecord(d))
      \/ Returns(StopRecord(d))
      \/ Returns(Release(d))

Next ==
  \/ Open
  \/ SetParameters
  \/ hal.id # Nothing /\ \E fail \in Failures : Call(fail)

Spec == Init /\ [][Next]_hal
===============================================================================
