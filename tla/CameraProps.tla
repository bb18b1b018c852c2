------------------------------ MODULE CameraProps ------------------------------
(* What the camera HAL has to keep, and what its comments say it keeps. *)
EXTENDS CameraHal, FiniteSets

Idle    == At("client", "idle")
Resting == {"idle", "released", "closed"}

ClientLabels ==
  Resting \union
  {"rl_signal", "rl_joinP", "rl_joinF", "st_lock", "st_wait", "st_back",
   "sw_set", "wc", "sp_lock", "tp_run", "tp_flag", "pa_set", "cp_join"}
PreviewLabels ==
  {"off", "p_lock", "p_stop", "p_waiting", "p_exit", "p_get", "p_reset",
   "p_frame", "p_enq", "p_rec"}

(* Type correctness: the fields of the HAL and of the session, where every  *)
(* thread is, and that the preview thread has mPreviewLock, and a buffer of *)
(* a window, only where its code has.                                       *)
TypeOK ==
  /\ hal \in HalRecords
  /\ d \in Sessions
  /\ lock \in {"none", "client", "preview"}
  /\ pc = [t \in Threads |-> pc[t]]
  /\ pc["client"] \in ClientLabels
  /\ pc["preview"] \in PreviewLabels
  /\ pc["focus"] \in {"off", "f_lock", "f_waiting", "f_woken", "f_run"}
  /\ pc["picture"] \in {"off", "q_cmd", "q_image", "q_end", "q_exit"}
  /\ call \in {"none", "start", "stop", "take", "window", "cancel", "params",
               "record", "release"}
  /\ buf \in Windows \union {NULL}
  /\ held \subseteq [buf : Buffers, old : BOOLEAN]
  /\ asked \in BOOLEAN
  /\ lock = "preview" <=> At("preview", "p_stop")
  /\ buf # NULL => At("preview", "p_enq")

-------------------------------------------------------------------------------
(* Safety *)

(* Once stopPreview(), takePicture() or a change of the window has          *)
(* returned with the preview off, the sensor is off and the preview thread  *)
(* is in none of the code that uses it: the wait in stopPreviewInternal()   *)
(* is for the thread, not only for the flag.                                *)
StoppedIsStopped ==
  Idle /\ ~hal.running =>
    /\ ~d.started
    /\ pc["preview"] \in {"p_lock", "p_stop", "p_waiting"}

(* From the capture command of pictureThread() to its image, the node keeps *)
(* streaming the capture: no other thread stops it or starts a preview,     *)
(* because takePicture() waited for the preview to stop and startPreview()  *)
(* waits for mCaptureInProgress.                                            *)
CaptureUndisturbed == At("picture", "q_image") => d.node = "capture"

(* The node goes from the preview to a capture and back through "off"       *)
(* only: setSnapshotCmd() never finds the preview on ("Camera was in        *)
(* preview, should have been stopped").  And setParameters() does not set a *)
(* size while the picture thread has the sensor: "if someone calls us while *)
(* picture thread is running, it could screw up the sensor quite a bit".    *)
NodeHandOver ==
  [][/\ d'.node # d.node => "off" \in {d.node, d'.node}
     /\ pc["picture"] \in {"q_cmd", "q_image"} => d'.size = d.size]_vars

(* m_flag_camera_start says what the node does, from one open() of the      *)
(* camera to the next, although SecCamera is a singleton that outlives      *)
(* CameraHardwareSec and DeinitCamera() does not clear the flag; and while  *)
(* the camera is open, mRecordRunning of the HAL agrees with                *)
(* m_flag_record_start of the singleton.                                    *)
FlagsAgree ==
  /\ d.started <=> d.node = "preview"
  /\ Idle => (hal.recRunning <=> d.recording)

(* release() only returns, and the nodes are only closed, when every thread *)
(* of the HAL has ended.                                                    *)
ThreadsEnded ==
  pc["client"] \in {"released", "closed"} =>
    \A t \in {"preview", "focus", "picture"} : At(t, "off")

(* After release() both nodes stream nothing, and no recording or capture   *)
(* buffer is left in the singleton for the next open() to find.             *)
ClosedQuiet ==
  pc["client"] \in {"released", "closed"} =>
    ~d.init /\ d.node = "off" /\ ~d.node2 /\ ~d.recording /\ ~d.mapped

(* Every buffer of a recording is either the driver's or a frame the client *)
(* has, never both and never neither; without a recording the driver has    *)
(* none.                                                                    *)
BuffersAccounted ==
  LET frames == {f \in held : ~f.old}
  IN  IF d.recording
      THEN /\ {f.buf : f \in frames} = Buffers \ d.queue
           /\ Cardinality(frames) + Cardinality(d.queue) = Cardinality(Buffers)
      ELSE d.queue = {}

(* Frames that come back after the end of a recording, however it ended,    *)
(* are not queued: a node that does not stream has no buffer, whichever of  *)
(* the two flags was cleared and whatever failed.                           *)
LateFrameIgnored == ~d.node2 => d.queue = {}

-------------------------------------------------------------------------------
(* Liveness *)

(* Every call of the client returns.                                        *)
CallsReturn == (pc["client"] \notin Resting) ~> (pc["client"] \in Resting)

(* As long as the preview runs and is not deferred, the preview thread      *)
(* keeps getting frames: no signal of startPreview() or setPreviewWindow()  *)
(* is lost.                                                                 *)
Previewing == Idle /\ hal.running /\ ~hal.deferred
FramesKeepComing == []<>(Previewing => At("preview", "p_get") /\ d.started)

(* release() does not wait for the auto focus thread in vain, and the       *)
(* signal with which it wakes the thread is not taken for a request: the    *)
(* sensor is told to focus only when an autoFocus() asked for it.           *)
FocusJoined ==
  /\ At("client", "rl_joinF") ~> At("client", "released")
  /\ [](At("focus", "f_run") => asked)

===============================================================================
