------------------------------- MODULE ControlsProps -------------------------------
(* What the three copies of the camera's settings have to do with each other. *)
EXTENDS CameraControls

(* While the preview of the back camera runs the sensor has what is cached, *)
(* whatever was set while it did not run, and also after a driver failure   *)
(* once the preview was started again.  The frame rate is the exception:    *)
(* stopRecord() gives the driver one that is not cached.                    *)
SensorAgrees ==
  hal.id = "back" /\ hal.started /\ ~hal.unsent =>
    \A c \in Resent \ {"rate"} : hal.sensor[c] = hal.cached[c]

(* The torch is off whenever the preview is not running: it is not left on  *)
(* by a stop, a picture or a release.                                       *)
TorchIsOff ==
  hal.id # Nothing /\ ~hal.started /\ ~hal.spoilt =>
    hal.sensor["flash"] # "FLASH_TORCH"

(* What the client is told is what is cached, except for a torch that the   *)
(* end of a preview has put out, and an ISO value that a recording has set  *)
(* for itself or, after it, to automatic.                                   *)
ToldIsCached ==
  hal.id = "back" /\ ~hal.spoilt =>
    /\ hal.cached["white"] = WhiteOf[hal.told.white]
    /\ hal.cached["effect"] = EffectOf[hal.told.effect]
    /\ hal.cached["scene"] = SceneOf[hal.told.scene]
    /\ hal.cached["focus"] = FocusOf[hal.told.focus]
    /\ hal.cached["brightness"] = hal.told.exposure
    /\ hal.cached["quality"] = hal.told.quality
    /\ \/ hal.cached["flash"] = FlashOf[hal.told.flash]
       \/ hal.cached["flash"] = "FLASH_OFF" /\ hal.told.flash = "torch"
    /\ \/ hal.cached["iso"] = IsoOf[hal.told.iso]
       \/ hal.cached["iso"] = "ISO_AUTO"
       \/ hal.cached["iso"] = "ISO_MOVIE" /\ hal.recording

(* Matrix metering and the rate that is cached are used for a recording,    *)
(* all of it, and centre metering before and after.                         *)
RecordSettings ==
  hal.id = "back" /\ ~hal.spoilt =>
    /\ hal.cached["metering"] =
         IF hal.recording THEN "METERING_MATRIX" ELSE "METERING_CENTER"
    /\ hal.recording => hal.sensor["rate"] = hal.cached["rate"]

(* A scene decides on the range of frames, the focus and the flash, and the *)
(* client is told all of it, whatever it asked for with the scene and since *)
(* then; and what the client is told is accepted again with one supported   *)
(* change, although a scene narrows what is supported.  (Scenes the camera  *)
(* does not have are not asked for.)                                        *)
SceneConsistent ==
  hal.id = "back" /\ ~hal.spoilt =>
    /\ hal.told.fps = IF hal.told.scene = "night" THEN "4-30" ELSE "15-30"
    /\ hal.told.flash \in hal.told.flashes
    /\ hal.ret
    /\ hal.told.scene # "auto" =>
         hal.told.focus = "auto" /\ hal.told.flash = FlashIn(hal.told)

(* What is cached for a camera when it is opened. *)
FreshOf(id) ==
  [scene |-> "SCENE_NONE", white |-> "WB_AUTO", effect |-> "EFFECT_NONE",
   rate |-> IF id = "back" THEN 30 ELSE 15, metering |-> "METERING_CENTER",
   saturation |-> "SATURATION_DEFAULT", focus |-> "FOCUS_AUTO",
   contrast |-> "CONTRAST_DEFAULT", iso |-> "ISO_AUTO", brightness |-> 0,
   sharpness |-> "SHARPNESS_DEFAULT", flash |-> "FLASH_OFF"]

(* Only setParameters() of the back camera sets them. *)
BackOnly == {"scene", "focus", "flash"}

(* Whichever camera is opened, its client is told that camera's defaults,   *)
(* and they are what is cached, whichever camera was open before, however   *)
(* its session ended and whatever the driver refuses meanwhile.  A front    *)
(* session keeps the scene, the focus and the flash that the last one of    *)
(* the back camera cached: nothing resends them to the front sensor.        *)
FreshSession ==
  [][hal.id = Nothing /\ hal'.id # Nothing =>
       /\ hal'.told = Defaults(hal'.id)
       /\ \A c \in IF hal'.id = "back" THEN Resent ELSE Resent \ BackOnly :
            hal'.cached[c] = FreshOf(hal'.id)[c]]_hal
===============================================================================
