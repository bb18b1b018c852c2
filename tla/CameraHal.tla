------------------------------- MODULE CameraHal -------------------------------
(***************************************************************************)
(* CameraHardwareSec (libcamera/SecCameraHWInterface.cpp) over its         *)
(* SecCamera: the camera service's calls, one at a time, and the preview,  *)
(* auto focus and picture threads they start, wait for and shut down.      *)
(*                                                                         *)
(* A part of the code that runs under one mutex and does not wait is one   *)
(* action, except the part of the preview thread that release(), which     *)
(* takes no lock, can interleave with: mPreviewLock is therefore a         *)
(* variable, mFocusLock, mCaptureLock and mRecordLock are not.             *)
(***************************************************************************)
EXTENDS CameraSession

CONSTANTS Windows,   \* the preview windows the client may set
          NULL,      \* no window
          Calls,     \* the kinds of call the client makes
          Faults,    \* the kinds of driver or window call that may fail
          Patient    \* the client returns every recorded frame before it
                     \* stops a recording or disables CAMERA_MSG_VIDEO_FRAME

ASSUME WindowAssumption == NULL \notin Windows
ASSUME PatientAssumption == Patient \in BOOLEAN

Threads == {"client", "preview", "focus", "picture"}

VARIABLES hal,     \* the fields of CameraHardwareSec
          d,       \* the session of SecCamera
          lock,    \* the thread that holds mPreviewLock
          pc,      \* where the client's call and each thread is
          call,    \* the call the client's thread is in
          buf,     \* the window the preview thread has a buffer of
          held,    \* the recorded frames the client has
          asked    \* an autoFocus() that was not answered yet

vars == <<hal, d, lock, pc, call, buf, held, asked>>

(* running, deferred, exitPreview: mPreviewRunning, mPreviewStartDeferred,  *)
(* mExitPreviewThread; capture: mCaptureInProgress; exitFocus:              *)
(* mExitAutoFocusThread; recRunning: mRecordRunning; video: the             *)
(* CAMERA_MSG_VIDEO_FRAME bit of mMsgEnabled.                               *)
HalRecords ==
  [running : BOOLEAN, deferred : BOOLEAN, exitPreview : BOOLEAN,
   window : Windows \union {NULL}, capture : BOOLEAN, exitFocus : BOOLEAN,
   recRunning : BOOLEAN, video : BOOLEAN]

NewHal ==
  [running |-> FALSE, deferred |-> FALSE, exitPreview |-> FALSE,
   window |-> NULL, capture |-> FALSE, exitFocus |-> FALSE,
   recRunning |-> FALSE, video |-> FALSE]

Init ==
  /\ hal = NewHal
  /\ d = NoSession
  /\ lock = "none"
  /\ pc = [t \in Threads |-> IF t = "client" THEN "closed" ELSE "off"]
  /\ call = "none"
  /\ buf = NULL
  /\ held = {}
  /\ asked = FALSE

Answers(c)  == IF c \in Faults THEN Answer ELSE {"ok"}
Succeeds(c) == IF c \in Faults THEN BOOLEAN ELSE {TRUE}

At(t, label) == pc[t] = label

(* Condition::signal(): t, if it waits at from, goes on at to. *)
Signal(p, t, from, to) == IF p[t] = from THEN [p EXCEPT ![t] = to] ELSE p

WakePreview(p) == Signal(p, "preview", "p_waiting", "p_lock")
WakeFocus(p)   == Signal(p, "focus", "f_waiting", "f_woken")

Goto(t, label) == pc' = [pc EXCEPT ![t] = label]

Begin(kind, label) ==
  /\ kind \in Calls /\ At("client", "idle")
  /\ call' = kind
  /\ Goto("client", label)

-------------------------------------------------------------------------------
(* Opening: the constructor sets the default parameters and starts the      *)
(* preview and the auto focus thread.                                       *)

OpenCamera(front, opened) ==
  /\ At("client", "closed")
  /\ hal' = NewHal
  /\ d' = SetPreviewSize(InitCamera(d, front, opened), DefaultSize)
  /\ pc' = [pc EXCEPT !["client"] = "idle", !["preview"] = "p_lock",
                       !["focus"] = "f_lock", !["picture"] = "off"]
  /\ lock' = "none" /\ call' = "none" /\ buf' = NULL /\ held' = {}
  /\ asked' = FALSE

-------------------------------------------------------------------------------
(* stopPreview(), and the calls that begin with it: takePicture() and       *)
(* setPreviewWindow(), which keeps the lock                                 *)

StopPreviewCall ==
  /\ Begin("stop", "st_lock")
  /\ UNCHANGED <<hal, d, lock, buf, held, asked>>

TakePicture_Bug ==    \* the preview is not stopped before
  /\ Begin("take", "wc")
  /\ UNCHANGED <<hal, d, lock, buf, held, asked>>

TakePicture ==
  /\ Begin("take", "st_lock")
  /\ UNCHANGED <<hal, d, lock, buf, held, asked>>

(* The window is stored before the lock is taken. *)
SetPreviewWindow(w) ==
  /\ w = NULL => "defer" \in Calls
  /\ Begin("window", IF w = NULL THEN "idle" ELSE "st_lock")
  /\ hal' = [hal EXCEPT !.window = w]
  /\ UNCHANGED <<d, lock, buf, held, asked>>

AfterStop ==
  CASE call = "stop" -> "idle" [] call = "take" -> "wc" [] call = "window" -> "sw_set"

LockAfterStop == IF call = "window" THEN "client" ELSE "none"

StopPreviewInternal_Bug ==    \* does not wait for the thread
  /\ At("client", "st_lock") /\ lock = "none"
  /\ hal' = [hal EXCEPT !.running = @ /\ call = "window" /\ hal.deferred]
  /\ Goto("client", AfterStop)
  /\ lock' = LockAfterStop
  /\ UNCHANGED <<d, call, buf, held, asked>>

StopPreviewInternal ==
  /\ At("client", "st_lock") /\ lock = "none"
  /\ IF hal.running /\ ~hal.deferred
     THEN /\ hal' = [hal EXCEPT !.running = FALSE]
          /\ pc' = [WakePreview(pc) EXCEPT !["client"] = "st_wait"]
          /\ UNCHANGED lock
     ELSE /\ hal' = [hal EXCEPT !.running = @ /\ call = "window"]
          /\ Goto("client", AfterStop)
          /\ lock' = LockAfterStop
  /\ UNCHANGED <<d, call, buf, held, asked>>

(* Condition::wait() may return when nobody signalled. *)
SpuriousWakeup ==
  /\ "spurious" \in Faults /\ At("client", "st_wait")
  /\ Goto("client", "st_back")
  /\ UNCHANGED <<hal, d, lock, call, buf, held, asked>>

StopWaitReturns ==
  /\ At("client", "st_back") /\ lock = "none"
  /\ Goto("client", AfterStop)
  /\ lock' = LockAfterStop
  /\ UNCHANGED <<hal, d, call, buf, held, asked>>

(* The rest of setPreviewWindow().  When the window refuses a setting the   *)
(* function returns with mPreviewLock held.                                 *)
ConfigureWindow(accepted, r) ==
  /\ At("client", "sw_set")
  /\ IF ~accepted
     THEN Goto("client", "idle") /\ UNCHANGED <<hal, d, lock>>
     ELSE /\ lock' = "none"
          /\ IF hal.running /\ hal.deferred
             THEN /\ d' = StartPreview(d, r)
                  /\ IF StartPreviewOk(d, r)
                     THEN /\ hal' = [hal EXCEPT !.deferred = FALSE]
                          /\ pc' = [WakePreview(pc) EXCEPT !["client"] = "idle"]
                     ELSE UNCHANGED hal /\ Goto("client", "idle")
             ELSE Goto("client", "idle") /\ UNCHANGED <<hal, d>>
  /\ UNCHANGED <<call, buf, held, asked>>

-------------------------------------------------------------------------------
(* waitCaptureCompletion(), startPreview(), setParameters() and the rest of *)
(* takePicture()                                                            *)

StartPreviewCall ==
  /\ hal.window = NULL => "defer" \in Calls
  /\ Begin("start", "wc")
  /\ UNCHANGED <<hal, d, lock, buf, held, asked>>

SetParametersCall ==
  /\ Begin("params", "wc")
  /\ UNCHANGED <<hal, d, lock, buf, held, asked>>

AfterWait ==
  CASE call = "start" -> "sp_lock" [] call = "take" -> "tp_run" [] call = "params" -> "pa_set"

WaitCaptureCompletion_Bug ==    \* does not wait
  /\ At("client", "wc")
  /\ Goto("client", AfterWait)
  /\ UNCHANGED <<hal, d, lock, call, buf, held, asked>>

WaitCaptureCompletion ==
  /\ At("client", "wc") /\ ~hal.capture
  /\ Goto("client", AfterWait)
  /\ UNCHANGED <<hal, d, lock, call, buf, held, asked>>

(* Five seconds pass when no picture thread will clear the flag, or when a  *)
(* picture takes that long.                                                 *)
WaitCaptureTimeout ==
  /\ At("client", "wc") /\ hal.capture
  /\ "slow" \in Faults \/ At("picture", "off")
  /\ Goto("client", "idle")
  /\ UNCHANGED <<hal, d, lock, call, buf, held, asked>>

StartPreviewLocked_Bug(r) ==    \* the preview thread is not signalled
  /\ At("client", "sp_lock") /\ lock = "none"
  /\ Goto("client", "idle")
  /\ IF hal.running THEN UNCHANGED <<hal, d>>
     ELSE /\ hal' = [hal EXCEPT !.running = TRUE, !.deferred = hal.window = NULL]
          /\ d' = IF hal.window = NULL THEN d ELSE StartPreview(d, r)
  /\ UNCHANGED <<lock, call, buf, held, asked>>

StartPreviewLocked(r) ==
  /\ At("client", "sp_lock") /\ lock = "none"
  /\ IF hal.running
     THEN Goto("client", "idle") /\ UNCHANGED <<hal, d>>
     ELSE /\ hal' = [hal EXCEPT !.running = TRUE, !.deferred = hal.window = NULL]
          /\ IF hal.window = NULL
             THEN Goto("client", "idle") /\ UNCHANGED d
             ELSE /\ d' = StartPreview(d, r)
                  /\ pc' = [(IF StartPreviewOk(d, r) THEN WakePreview(pc) ELSE pc)
                              EXCEPT !["client"] = "idle"]
  /\ UNCHANGED <<lock, call, buf, held, asked>>

(* Thread::run() refuses while the thread has not exited. *)
RunPicture ==
  /\ At("client", "tp_run")
  /\ pc' = IF At("picture", "off")
           THEN [pc EXCEPT !["picture"] = "q_cmd", !["client"] = "tp_flag"]
           ELSE [pc EXCEPT !["client"] = "idle"]
  /\ UNCHANGED <<hal, d, lock, call, buf, held, asked>>

SetCaptureFlag ==
  /\ At("client", "tp_flag")
  /\ hal' = [hal EXCEPT !.capture = TRUE]
  /\ Goto("client", "idle")
  /\ UNCHANGED <<d, lock, call, buf, held, asked>>

(* A preview that is running changes the result, not what is set. *)
SetParameters(s) ==
  /\ At("client", "pa_set")
  /\ d' = SetPreviewSize(d, s)
  /\ Goto("client", "idle")
  /\ UNCHANGED <<hal, lock, call, buf, held, asked>>

CancelPicture ==
  /\ Begin("cancel", "cp_join")
  /\ UNCHANGED <<hal, d, lock, buf, held, asked>>

CancelJoined ==
  /\ At("client", "cp_join") /\ At("picture", "off")
  /\ Goto("client", "idle")
  /\ UNCHANGED <<hal, d, lock, call, buf, held, asked>>

-------------------------------------------------------------------------------
(* Recording: under mRecordLock, but releaseRecordingFrame() *)

(* A record heap that cannot be allocated leaves what "early" leaves: no     *)
(* session and no flag has changed.                                         *)
StartRecording(r) ==
  /\ Begin("record", "idle") /\ ~hal.recRunning
  /\ d' = StartRecord(d, r)
  /\ hal' = [hal EXCEPT !.recRunning = StartRecordOk(d, r)]
  /\ held' = {[f EXCEPT !.old = TRUE] : f \in held}
  /\ UNCHANGED <<lock, buf, asked>>

StopRecording(r) ==
  /\ Begin("record", "idle") /\ hal.recRunning
  /\ Patient => held = {}
  /\ d' = StopRecord(d, r)
  /\ hal' = [hal EXCEPT !.recRunning = ~StopRecordOk(d, r)]
  /\ UNCHANGED <<lock, buf, held, asked>>

ReleaseRecordingFrame(f) ==
  /\ Begin("record", "idle") /\ f \in held
  /\ d' = ReleaseRecordFrame(d, f.buf)
  /\ held' = held \ {f}
  /\ UNCHANGED <<hal, lock, buf, asked>>

EnableVideoFrames ==
  /\ Begin("record", "idle") /\ ~hal.video
  /\ hal' = [hal EXCEPT !.video = TRUE]
  /\ UNCHANGED <<d, lock, buf, held, asked>>

(* The client may not touch a frame from here on. *)
DisableVideoFrames ==
  /\ Begin("record", "idle") /\ hal.video
  /\ Patient => held = {}
  /\ hal' = [hal EXCEPT !.video = FALSE]
  /\ held' = {}
  /\ UNCHANGED <<d, lock, buf, asked>>

-------------------------------------------------------------------------------
(* Auto focus *)

AutoFocus ==
  /\ "focus" \in Calls /\ At("client", "idle")
  /\ asked' = TRUE
  /\ pc' = WakeFocus(pc)
  /\ UNCHANGED <<hal, d, lock, call, buf, held>>

FocusWait ==
  /\ At("focus", "f_lock")
  /\ Goto("focus", IF hal.exitFocus THEN "off" ELSE "f_waiting")
  /\ UNCHANGED <<hal, d, lock, call, buf, held, asked>>

FocusWoken ==
  /\ At("focus", "f_woken")
  /\ Goto("focus", IF hal.exitFocus THEN "off" ELSE "f_run")
  /\ UNCHANGED <<hal, d, lock, call, buf, held, asked>>

(* Focuses and calls mNotifyCb, then threadLoop() starts over. *)
FocusRun(ok) ==
  /\ At("focus", "f_run")
  /\ asked' = (asked /\ ~(d.fd /\ ok))
  /\ Goto("focus", "f_lock")
  /\ UNCHANGED <<hal, d, lock, call, buf, held>>

-------------------------------------------------------------------------------
(* release() and the close of the device *)

ReleaseFlags ==
  /\ Begin("release", "rl_signal")
  /\ hal' = [hal EXCEPT !.exitPreview = TRUE, !.running = TRUE]
  /\ UNCHANGED <<d, lock, buf, held, asked>>

ReleaseSignal ==
  /\ At("client", "rl_signal")
  /\ pc' = [WakePreview(pc) EXCEPT !["client"] = "rl_joinP"]
  /\ UNCHANGED <<hal, d, lock, call, buf, held, asked>>

ReleaseFocus_Bug ==    \* the thread is not signalled
  /\ At("client", "rl_joinP") /\ At("preview", "off")
  /\ hal' = [hal EXCEPT !.exitFocus = TRUE]
  /\ Goto("client", "rl_joinF")
  /\ UNCHANGED <<d, lock, call, buf, held, asked>>

ReleaseFocus ==
  /\ At("client", "rl_joinP") /\ At("preview", "off")
  /\ hal' = [hal EXCEPT !.exitFocus = TRUE]
  /\ pc' = [WakeFocus(pc) EXCEPT !["client"] = "rl_joinF"]
  /\ UNCHANGED <<d, lock, call, buf, held, asked>>

ReleaseDeinit_Bug ==    \* the picture thread is not joined
  /\ At("client", "rl_joinF") /\ At("focus", "off")
  /\ d' = DeinitCamera(d)
  /\ Goto("client", "released")
  /\ UNCHANGED <<hal, lock, call, buf, held, asked>>

ReleaseDeinit ==
  /\ At("client", "rl_joinF") /\ At("focus", "off") /\ At("picture", "off")
  /\ d' = DeinitCamera(d)
  /\ Goto("client", "released")
  /\ UNCHANGED <<hal, lock, call, buf, held, asked>>

CloseCamera ==
  /\ At("client", "released")
  /\ d' = DeinitCamera(d)
  /\ Goto("client", "closed")
  /\ UNCHANGED <<hal, lock, call, buf, held, asked>>

-------------------------------------------------------------------------------
(* The preview thread: previewThreadWrapper() *)

PreviewCheck_Bug ==    \* only stops when it has to exit
  /\ At("preview", "p_lock") /\ lock = "none"
  /\ Goto("preview", "p_exit")
  /\ UNCHANGED <<hal, d, lock, call, buf, held, asked>>

PreviewCheck_Bug2 ==   \* goes on with the lock held
  /\ At("preview", "p_lock") /\ lock = "none"
  /\ Goto("preview", IF hal.running THEN "p_exit" ELSE "p_stop")
  /\ lock' = "preview"
  /\ UNCHANGED <<hal, d, call, buf, held, asked>>

PreviewCheck ==
  /\ At("preview", "p_lock") /\ lock = "none"
  /\ IF hal.running
     THEN Goto("preview", "p_exit") /\ UNCHANGED lock
     ELSE Goto("preview", "p_stop") /\ lock' = "preview"
  /\ UNCHANGED <<hal, d, call, buf, held, asked>>

(* Stops, signals, and waits, which releases the lock. *)
PreviewStop(r) ==
  /\ At("preview", "p_stop")
  /\ d' = StopPreview(d, r)
  /\ lock' = "none"
  /\ pc' = [Signal(pc, "client", "st_wait", "st_back")
              EXCEPT !["preview"] = "p_waiting"]
  /\ UNCHANGED <<hal, call, buf, held, asked>>

PreviewExit(r) ==
  /\ At("preview", "p_exit")
  /\ IF hal.exitPreview
     THEN d' = StopPreview(d, r) /\ Goto("preview", "off")
     ELSE UNCHANGED d /\ Goto("preview", "p_get")
  /\ UNCHANGED <<hal, lock, call, buf, held, asked>>

(* getPreview(): a frame, or one to skip, or nothing for a second *)
PreviewGet(data) ==
  /\ At("preview", "p_get")
  /\ IF d.started /\ data
     THEN \E next \in {"p_frame", "p_lock"} :
            /\ d.node # "preview" => next = "p_lock"
            /\ Goto("preview", next)
     ELSE Goto("preview", "p_reset")
  /\ UNCHANGED <<hal, d, lock, call, buf, held, asked>>

(* The reset of the device is left, with an error, when the driver can name *)
(* its input; when it cannot, the preview is started again.                 *)
PreviewReset(named, r) ==
  /\ At("preview", "p_reset")
  /\ LET g == StopPreview(d, "ok")
     IN  IF named THEN d' = g /\ Goto("preview", "p_lock")
         ELSE d' = StartPreview(g, r) /\ Goto("preview", "p_frame")
  /\ UNCHANGED <<hal, lock, call, buf, held, asked>>

PreviewDequeue(ok) ==
  /\ At("preview", "p_frame")
  /\ IF hal.window # NULL /\ ok
     THEN buf' = hal.window /\ Goto("preview", "p_enq")
     ELSE UNCHANGED buf /\ Goto("preview", "p_rec")
  /\ UNCHANGED <<hal, d, lock, call, held, asked>>

PreviewEnqueue ==
  /\ At("preview", "p_enq")
  /\ buf' = NULL
  /\ Goto("preview", "p_rec")
  /\ UNCHANGED <<hal, d, lock, call, held, asked>>

(* A recorded frame whose physical address cannot be had is lost. *)
PreviewRecord(known) ==
  /\ At("preview", "p_rec")
  /\ Goto("preview", "p_lock")
  /\ IF hal.recRunning /\ d.recording /\ d.queue # {}
     THEN \E b \in d.queue :
            LET g == GetRecordFrame(d, b)
            IN  IF ~known THEN d' = g /\ UNCHANGED held
                ELSE IF hal.video
                THEN d' = g /\ held' = held \union {[buf |-> b, old |-> FALSE]}
                ELSE d' = ReleaseRecordFrame(g, b) /\ UNCHANGED held
     ELSE UNCHANGED <<d, held>>
  /\ UNCHANGED <<hal, lock, call, buf, asked>>

-------------------------------------------------------------------------------
(* The picture thread: pictureThread() *)

PictureCommand(r) ==
  /\ At("picture", "q_cmd")
  /\ d' = SetSnapshotCmd(d, r)
  /\ Goto("picture", "q_image")
  /\ UNCHANGED <<hal, lock, call, buf, held, asked>>

PictureImage(ok) ==
  /\ At("picture", "q_image")
  /\ d' = IF d.front THEN GetSnapshot(d) ELSE GetJpeg(d, ok /\ d.node = "capture")
  /\ Goto("picture", "q_end")
  /\ UNCHANGED <<hal, lock, call, buf, held, asked>>

PictureEnd ==
  /\ At("picture", "q_end")
  /\ d' = EndSnapshot(d)
  /\ hal' = [hal EXCEPT !.capture = FALSE]
  /\ Goto("picture", "q_exit")
  /\ UNCHANGED <<lock, call, buf, held, asked>>

PictureExit ==
  /\ At("picture", "q_exit")
  /\ Goto("picture", "off")
  /\ UNCHANGED <<hal, d, lock, call, buf, held, asked>>

-------------------------------------------------------------------------------
(* The specification *)

ClientBegins ==
  \/ \E front \in BOOLEAN :
       \E opened \in IF "init" \in Faults THEN 0..2 ELSE {2} :
         OpenCamera(front, opened)
  \/ StopPreviewCall \/ TakePicture \/ StartPreviewCall \/ CancelPicture
  \/ SetParametersCall
  \/ \E w \in Windows \union {NULL} : SetPreviewWindow(w)
  \/ \E r \in Answers("record") : StartRecording(r)
  \/ \E r \in Answers("endrecord") : StopRecording(r)
  \/ \E f \in held : ReleaseRecordingFrame(f)
  \/ EnableVideoFrames \/ DisableVideoFrames
  \/ AutoFocus \/ ReleaseFlags \/ CloseCamera

ClientContinues ==
  \/ StopPreviewInternal \/ StopWaitReturns
  \/ \E accepted \in Succeeds("window") : \E r \in Answers("start") :
       ConfigureWindow(accepted, r)
  \/ WaitCaptureCompletion \/ WaitCaptureTimeout
  \/ \E r \in Answers("start") : StartPreviewLocked(r)
  \/ \E s \in Sizes : SetParameters(s)
  \/ RunPicture \/ SetCaptureFlag \/ CancelJoined
  \/ ReleaseSignal \/ ReleaseFocus \/ ReleaseDeinit

PreviewThread ==
  \/ PreviewCheck
  \/ \E r \in Answers("stop") : PreviewStop(r) \/ PreviewExit(r)
  \/ \E data \in Succeeds("data") : PreviewGet(data)
  \/ \E named \in Succeeds("name") : \E r \in Answers("start") :
       PreviewReset(named, r)
  \/ \E ok \in Succeeds("buffer") : PreviewDequeue(ok)
  \/ PreviewEnqueue
  \/ \E known \in Succeeds("address") : PreviewRecord(known)

FocusThread ==
  FocusWait \/ FocusWoken \/ \E ok \in Succeeds("focus") : FocusRun(ok)

PictureThread ==
  \/ \E r \in Answers("snapshot") : PictureCommand(r)
  \/ \E ok \in Succeeds("jpeg") : PictureImage(ok)
  \/ PictureEnd \/ PictureExit

Next ==
  \/ ClientBegins \/ ClientContinues \/ SpuriousWakeup
  \/ PreviewThread \/ FocusThread \/ PictureThread

(* A thread of the HAL, and a call that is under way, goes on whenever it   *)
(* can; whether the client makes another call is its own affair.            *)
Spec ==
  /\ Init /\ [][Next]_vars
  /\ WF_vars(ClientContinues) /\ WF_vars(PreviewThread)
  /\ WF_vars(FocusThread) /\ WF_vars(PictureThread)
===============================================================================
