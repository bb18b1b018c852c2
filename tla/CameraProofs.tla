----------------------------- MODULE CameraProofs -----------------------------
(***************************************************************************)
(* The camera HAL for any windows, buffers, sizes, calls and faults: type  *)
(* correctness; what the driver has, whatever fails; that a stopped        *)
(* preview is stopped; how the preview and the picture thread hand the     *)
(* first node over to each other; and who has the buffers of a recording.  *)
(* A theorem that needs some calls of the driver to succeed says which.    *)
(***************************************************************************)
EXTENDS CameraProps, FiniteSetTheorems, FunctionTheorems, TLAPS

(* Which call is under way at the labels that calls share, who has          *)
(* mPreviewLock when a window is configured, and which thread a release()   *)
(* has seen end.                                                            *)
Control ==
  /\ pc["client"] \in {"st_lock", "st_wait", "st_back"} =>
       call \in {"stop", "take", "window"}
  /\ pc["client"] = "wc" => call \in {"start", "take", "params"}
  /\ pc["client"] = "sw_set" => lock = "client"
  /\ pc["client"] = "rl_joinF" => pc["preview"] = "off"

Inv == TypeOK /\ Control /\ ThreadsEnded

-------------------------------------------------------------------------------
(* The operations of SecCamera *)

(* What starting and stopping a preview leaves is a session.                *)
LEMMA PreviewSessions ==
  ASSUME NEW g \in Sessions, NEW r
  PROVE  StartPreview(g, r) \in Sessions /\ StopPreview(g, r) \in Sessions
<1>1. StartPreview(g, r) \in Sessions
  BY DEF Sessions, StartPreview
<1>2. StopPreview(g, r) \in Sessions
  BY DEF Sessions, StopPreview
<1> QED
  BY <1>1, <1>2

(* What setting a size leaves is a session.                                 *)
LEMMA SizeSessions ==
  ASSUME NEW g \in Sessions, NEW s \in Sizes
  PROVE  SetPreviewSize(g, s) \in Sessions
BY DEF Sessions, SetPreviewSize

(* What starting and stopping a recording leaves is a session.              *)
LEMMA RecordSessions ==
  ASSUME NEW g \in Sessions, NEW r
  PROVE  StartRecord(g, r) \in Sessions /\ StopRecord(g, r) \in Sessions
<1>1. StartRecord(g, r) \in Sessions
  BY DEF Sessions, StartRecord
<1>2. StopRecord(g, r) \in Sessions
  BY DEF Sessions, StopRecord
<1> QED
  BY <1>1, <1>2

(* What getting and releasing a frame of it leaves is a session.            *)
LEMMA FrameSessions ==
  ASSUME NEW g \in Sessions, NEW b \in Buffers
  PROVE  GetRecordFrame(g, b) \in Sessions /\ ReleaseRecordFrame(g, b) \in Sessions
<1>1. GetRecordFrame(g, b) \in Sessions
  BY DEF Sessions, GetRecordFrame
<1>2. ReleaseRecordFrame(g, b) \in Sessions
  BY DEF Sessions, ReleaseRecordFrame
<1> QED
  BY <1>1, <1>2

(* What one of the snapshot's operations leaves is a session.               *)
LEMMA SnapshotSessions ==
  ASSUME NEW g \in Sessions, NEW r
  PROVE  /\ SetSnapshotCmd(g, r) \in Sessions
         /\ GetJpeg(g, r) \in Sessions
         /\ GetSnapshot(g) \in Sessions
         /\ EndSnapshot(g) \in Sessions
<1>1. SetSnapshotCmd(g, r) \in Sessions
  <2>1. StopPreview(g, "ok") \in Sessions
    BY PreviewSessions
  <2> QED
    BY <2>1 DEF Sessions, SetSnapshotCmd
<1>2. GetJpeg(g, r) \in Sessions
  BY DEF Sessions, GetJpeg
<1>3. GetSnapshot(g) \in Sessions
  BY DEF Sessions, GetSnapshot
<1>4. EndSnapshot(g) \in Sessions
  BY DEF Sessions, EndSnapshot
<1> QED
  BY <1>1, <1>2, <1>3, <1>4

(* Opening and closing the nodes leaves a session.                          *)
LEMMA OpenSessions ==
  ASSUME NEW g \in Sessions, NEW front \in BOOLEAN, NEW opened \in 0..2
  PROVE  /\ InitCamera(g, front, opened) \in Sessions
         /\ DeinitCamera(g) \in Sessions
<1>1. InitCamera(g, front, opened) \in Sessions
  BY DEF Sessions, InitCamera
<1>2. DeinitCamera(g) \in Sessions
  <2>1. StopRecord(g, "ok") \in Sessions
    BY RecordSessions
  <2> QED
    BY <2>1, ZenonT(40) DEF Sessions, DeinitCamera
<1> QED
  BY <1>1, <1>2

-------------------------------------------------------------------------------
(* The steps *)

(* What a step of one thread leaves of the program counters.                *)
LEMMA Moves ==
  ASSUME TypeOK, NEW t \in Threads, NEW label, pc' = [pc EXCEPT ![t] = label]
  PROVE  /\ pc' = [u \in Threads |-> pc'[u]]
         /\ pc'[t] = label
         /\ \A u \in Threads \ {t} : pc'[u] = pc[u]
BY DEF TypeOK

(* What a step that also signals another thread leaves of them.             *)
LEMMA SignalMoves ==
  ASSUME TypeOK, NEW t \in Threads, NEW label, NEW v \in Threads \ {t},
         NEW from, NEW to, pc' = [Signal(pc, v, from, to) EXCEPT ![t] = label]
  PROVE  /\ pc' = [u \in Threads |-> pc'[u]]
         /\ pc'[t] = label
         /\ pc'[v] = IF pc[v] = from THEN to ELSE pc[v]
         /\ \A u \in Threads \ {t, v} : pc'[u] = pc[u]
BY DEF TypeOK, Signal

(* What a step of the client's thread that changes no more than the         *)
(* program counters, the session, and the fields of the HAL leaves.         *)
LEMMA ClientStep ==
  ASSUME Inv,
         pc' = [u \in Threads |-> pc'[u]],
         pc'["client"] \in ClientLabels,
         pc'["preview"] = pc["preview"]
           \/ (pc["preview"] = "p_waiting" /\ pc'["preview"] = "p_lock"),
         pc'["focus"] = pc["focus"]
           \/ (pc["focus"] = "f_waiting" /\ pc'["focus"] = "f_woken"),
         pc'["picture"] = pc["picture"]
           \/ (pc["client"] = "tp_run" /\ pc'["picture"] = "q_cmd"),
         hal' \in HalRecords, d' \in Sessions,
         lock' = lock \/ (lock = "none" /\ lock' = "client")
           \/ (lock = "client" /\ lock' = "none"),
         call' \in {"none", "start", "stop", "take", "window", "cancel",
                    "params", "record", "release"},
         buf' = buf, asked' \in BOOLEAN,
         held' \subseteq [buf : Buffers, old : BOOLEAN],
         Control',
         pc'["client"] \in {"released", "closed"} =>
           \A t \in {"preview", "focus", "picture"} : pc'[t] = "off"
  PROVE  Inv'
<1>1. TypeOK'
  BY DEF Inv, TypeOK, At, PreviewLabels
<1>2. ThreadsEnded'
  BY DEF ThreadsEnded, At
<1> QED
  BY <1>1, <1>2 DEF Inv

(* What a step of the preview thread leaves.                                *)
LEMMA PreviewStep ==
  ASSUME Inv, pc["preview"] # "off",
         pc' = [u \in Threads |-> pc'[u]],
         pc'["preview"] \in PreviewLabels,
         pc'["client"] = pc["client"]
           \/ (pc["client"] = "st_wait" /\ pc'["client"] = "st_back"),
         pc'["focus"] = pc["focus"], pc'["picture"] = pc["picture"],
         d' \in Sessions, hal' = hal, call' = call, asked' = asked,
         lock' \in {"none", "client", "preview"},
         lock' = "preview" <=> pc'["preview"] = "p_stop",
         lock = "client" => lock' = "client",
         buf' \in Windows \union {NULL},
         buf' # NULL => pc'["preview"] = "p_enq",
         held' \subseteq [buf : Buffers, old : BOOLEAN]
  PROVE  Inv'
<1>1. TypeOK'
  BY DEF Inv, TypeOK, At, ClientLabels
<1>2. Control'
  BY DEF Inv, Control
<1>3. ThreadsEnded'
  BY DEF Inv, ThreadsEnded, At
<1> QED
  BY <1>1, <1>2, <1>3 DEF Inv

(* What a step of the auto focus or the picture thread leaves.              *)
LEMMA OtherStep ==
  ASSUME Inv, NEW t \in {"focus", "picture"}, pc[t] # "off", NEW label,
         pc' = [pc EXCEPT ![t] = label],
         t = "focus" => label \in {"off", "f_lock", "f_waiting", "f_woken", "f_run"},
         t = "picture" => label \in {"off", "q_cmd", "q_image", "q_end", "q_exit"},
         d' \in Sessions, hal' \in HalRecords, lock' = lock, call' = call,
         buf' = buf, held' = held, asked' \in BOOLEAN
  PROVE  Inv'
<1>1. /\ pc' = [u \in Threads |-> pc'[u]]
      /\ pc'[t] = label
      /\ \A u \in Threads \ {t} : pc'[u] = pc[u]
  BY Moves DEF Inv, Threads
<1>2. /\ pc'["client"] = pc["client"] /\ pc'["preview"] = pc["preview"]
      /\ t = "focus" => pc'["focus"] = label /\ pc'["picture"] = pc["picture"]
      /\ t = "picture" => pc'["picture"] = label /\ pc'["focus"] = pc["focus"]
  BY <1>1 DEF Threads
<1>3. TypeOK'
  BY <1>1, <1>2 DEF Inv, TypeOK, At
<1>4. Control'
  BY <1>2 DEF Inv, Control
<1>5. ThreadsEnded'
  BY <1>2 DEF Inv, ThreadsEnded, At
<1> QED
  BY <1>3, <1>4, <1>5 DEF Inv

-------------------------------------------------------------------------------
(* The actions *)

(* What a step of the client's thread that signals nobody leaves.           *)
LEMMA ClientAlone ==
  ASSUME Inv, NEW label \in ClientLabels, pc' = [pc EXCEPT !["client"] = label],
         hal' \in HalRecords, d' \in Sessions,
         lock' = lock \/ (lock = "none" /\ lock' = "client")
           \/ (lock = "client" /\ lock' = "none"),
         call' \in {"none", "start", "stop", "take", "window", "cancel",
                    "params", "record", "release"},
         buf' = buf, asked' \in BOOLEAN,
         held' \subseteq [buf : Buffers, old : BOOLEAN],
         label \in {"st_lock", "st_wait", "st_back"} =>
           call' \in {"stop", "take", "window"},
         label = "wc" => call' \in {"start", "take", "params"},
         label = "sw_set" => lock' = "client",
         label = "rl_joinF" => pc["preview"] = "off",
         label \in {"released", "closed"} =>
           \A t \in {"preview", "focus", "picture"} : pc[t] = "off"
  PROVE  Inv'
<1>1. /\ pc' = [u \in Threads |-> pc'[u]]
      /\ pc'["client"] = label
      /\ \A t \in {"preview", "focus", "picture"} : pc'[t] = pc[t]
  BY Moves DEF Inv, Threads
<1>2. Control'
  BY <1>1 DEF Control
<1> QED
  BY <1>1, <1>2, ClientStep

(* What a step of the client's thread that signals the preview thread       *)
(* leaves.                                                                  *)
LEMMA ClientWakesPreview ==
  ASSUME Inv, NEW label \in ClientLabels \ {"rl_joinF", "released", "closed"},
         pc' = [WakePreview(pc) EXCEPT !["client"] = label],
         hal' \in HalRecords, d' \in Sessions,
         lock' = lock \/ (lock = "none" /\ lock' = "client")
           \/ (lock = "client" /\ lock' = "none"),
         call' = call, buf' = buf, asked' = asked, held' = held,
         label \in {"st_lock", "st_wait", "st_back"} =>
           call \in {"stop", "take", "window"},
         label = "wc" => call \in {"start", "take", "params"},
         label = "sw_set" => lock' = "client"
  PROVE  Inv'
<1>1. /\ pc' = [u \in Threads |-> pc'[u]]
      /\ pc'["client"] = label
      /\ pc'["preview"] = IF pc["preview"] = "p_waiting" THEN "p_lock"
                          ELSE pc["preview"]
      /\ \A t \in {"focus", "picture"} : pc'[t] = pc[t]
  BY SignalMoves DEF Inv, Threads, WakePreview
<1>2. Control'
  BY <1>1 DEF Control
<1>3. /\ call' \in {"none", "start", "stop", "take", "window", "cancel",
                     "params", "record", "release"}
      /\ asked' \in BOOLEAN
      /\ held' \subseteq [buf : Buffers, old : BOOLEAN]
  BY DEF Inv, TypeOK
<1> QED
  BY <1>1, <1>2, <1>3, ClientStep

(* The client's call of each kind keeps the invariant when it begins.       *)
LEMMA BeginsKeep ==
  ASSUME Inv, ClientBegins
  PROVE  Inv'
<1> USE DEF Inv, Begin, Goto, At, ClientLabels, Resting
<1>1. ASSUME NEW front \in BOOLEAN, NEW opened \in 0..2, OpenCamera(front, opened)
      PROVE  Inv'
  <2>1. d' \in Sessions
    <3>1. InitCamera(d, front, opened) \in Sessions
      BY OpenSessions DEF TypeOK
    <3> QED
      BY <1>1, <3>1, SizeSessions, SizeAssumption DEF OpenCamera
  <2>2. /\ pc' = [u \in Threads |-> pc'[u]]
        /\ pc'["client"] = "idle" /\ pc'["preview"] = "p_lock"
        /\ pc'["focus"] = "f_lock" /\ pc'["picture"] = "off"
    BY <1>1 DEF OpenCamera, TypeOK, Threads
  <2>3. hal' \in HalRecords
    BY <1>1 DEF OpenCamera, HalRecords, NewHal
  <2>4. TypeOK'
    BY <1>1, <2>1, <2>2, <2>3 DEF OpenCamera, TypeOK, PreviewLabels
  <2>5. Control' /\ ThreadsEnded'
    BY <2>2 DEF Control, ThreadsEnded
  <2> QED
    BY <2>4, <2>5
<1>2. CASE StopPreviewCall
  BY <1>2, ClientAlone DEF StopPreviewCall, TypeOK
<1>3. CASE TakePicture
  BY <1>3, ClientAlone DEF TakePicture, TypeOK
<1>4. CASE StartPreviewCall
  BY <1>4, ClientAlone DEF StartPreviewCall, TypeOK
<1>5. CASE CancelPicture
  BY <1>5, ClientAlone DEF CancelPicture, TypeOK
<1>6. CASE SetParametersCall
  BY <1>6, ClientAlone DEF SetParametersCall, TypeOK
<1>7. CASE EnableVideoFrames
  BY <1>7, ClientAlone DEF EnableVideoFrames, TypeOK, HalRecords
<1>8. CASE DisableVideoFrames
  BY <1>8, ClientAlone DEF DisableVideoFrames, TypeOK, HalRecords
<1>9. CASE ReleaseFlags
  BY <1>9, ClientAlone DEF ReleaseFlags, TypeOK, HalRecords
<1>10. ASSUME NEW w \in Windows \union {NULL}, SetPreviewWindow(w)
      PROVE  Inv'
  <2>1. hal' \in HalRecords
    BY <1>10 DEF SetPreviewWindow, TypeOK, HalRecords
  <2>2. CASE w = NULL
    BY <1>10, <2>1, <2>2, ClientAlone DEF SetPreviewWindow, TypeOK
  <2>3. CASE w # NULL
    BY <1>10, <2>1, <2>3, ClientAlone DEF SetPreviewWindow, TypeOK
  <2> QED
    BY <2>2, <2>3
<1>11. ASSUME NEW r, StartRecording(r)
      PROVE  Inv'
  <2>1. d' \in Sessions
    BY <1>11, RecordSessions DEF StartRecording, TypeOK
  <2>2. StartRecordOk(d, r) \in BOOLEAN
    BY DEF StartRecordOk, TypeOK, Sessions
  <2>3. hal' \in HalRecords
    BY <1>11, <2>2 DEF StartRecording, TypeOK, HalRecords
  <2>4. held' \subseteq [buf : Buffers, old : BOOLEAN]
    BY <1>11 DEF StartRecording, TypeOK
  <2> QED
    BY <1>11, <2>1, <2>3, <2>4, ClientAlone DEF StartRecording, TypeOK
<1>12. ASSUME NEW r, StopRecording(r)
      PROVE  Inv'
  <2>1. d' \in Sessions
    BY <1>12, RecordSessions DEF StopRecording, TypeOK
  <2>2. StopRecordOk(d, r) \in BOOLEAN
    BY DEF StopRecordOk, TypeOK, Sessions
  <2>3. hal' \in HalRecords
    BY <1>12, <2>2 DEF StopRecording, TypeOK, HalRecords
  <2> QED
    BY <1>12, <2>1, <2>3, ClientAlone DEF StopRecording, TypeOK
<1>13. ASSUME NEW f \in held, ReleaseRecordingFrame(f)
      PROVE  Inv'
  <2>1. d' \in Sessions
    BY <1>13, FrameSessions DEF ReleaseRecordingFrame, TypeOK
  <2> QED
    BY <1>13, <2>1, ClientAlone DEF ReleaseRecordingFrame, TypeOK
<1>14. CASE AutoFocus
  <2>1. /\ pc' = [u \in Threads |-> pc'[u]]
        /\ \A t \in {"client", "preview", "picture"} : pc'[t] = pc[t]
        /\ pc'["focus"] = IF pc["focus"] = "f_waiting" THEN "f_woken"
                          ELSE pc["focus"]
    BY <1>14 DEF AutoFocus, WakeFocus, Signal, TypeOK, Threads
  <2>2. Control'
    BY <1>14, <2>1 DEF AutoFocus, Control
  <2> QED
    BY <1>14, <2>1, <2>2, ClientStep DEF AutoFocus, TypeOK
<1>15. CASE CloseCamera
  <2>1. d' \in Sessions
    BY <1>15, OpenSessions DEF CloseCamera, TypeOK
  <2>2. \A t \in {"preview", "focus", "picture"} : pc[t] = "off"
    BY <1>15 DEF CloseCamera, ThreadsEnded
  <2> QED
    BY <1>15, <2>1, <2>2, ClientAlone DEF CloseCamera, TypeOK
<1> QED
  BY <1>1, <1>2, <1>3, <1>4, <1>5, <1>6, <1>7, <1>8, <1>9, <1>10, <1>11, <1>12, <1>13, <1>14, <1>15 DEF ClientBegins

(* The client's call keeps the invariant as it goes on.                     *)
LEMMA ContinuesKeep ==
  ASSUME Inv, ClientContinues
  PROVE  Inv'
<1> USE DEF Inv, Goto, At, ClientLabels, Resting
<1>1. CASE StopPreviewInternal
  <2>1. call \in {"stop", "take", "window"}
    BY <1>1 DEF StopPreviewInternal, Control
  <2>2. hal' \in HalRecords
    BY <1>1 DEF StopPreviewInternal, TypeOK, HalRecords
  <2>3. CASE hal.running /\ ~hal.deferred
    BY <1>1, <2>1, <2>2, <2>3, ClientWakesPreview DEF StopPreviewInternal, TypeOK
  <2>4. CASE ~(hal.running /\ ~hal.deferred)
    BY <1>1, <2>1, <2>2, <2>4, ClientAlone
       DEF StopPreviewInternal, TypeOK, AfterStop, LockAfterStop
  <2> QED
    BY <2>3, <2>4
<1>2. CASE StopWaitReturns
  <2>1. call \in {"stop", "take", "window"}
    BY <1>2 DEF StopWaitReturns, Control
  <2> QED
    BY <1>2, <2>1, ClientAlone DEF StopWaitReturns, TypeOK, AfterStop, LockAfterStop
<1>3. ASSUME NEW accepted, NEW r, ConfigureWindow(accepted, r)
      PROVE  Inv'
  <2>1. lock = "client"
    BY <1>3 DEF ConfigureWindow, Control
  <2>2. StartPreview(d, r) \in Sessions
    BY PreviewSessions DEF TypeOK
  <2>3. d' \in Sessions /\ hal' \in HalRecords
    BY <1>3, <2>2 DEF ConfigureWindow, TypeOK, HalRecords
  <2>4. CASE pc' = [WakePreview(pc) EXCEPT !["client"] = "idle"]
    BY <1>3, <2>1, <2>3, <2>4, ClientWakesPreview DEF ConfigureWindow
  <2>5. CASE pc' = [pc EXCEPT !["client"] = "idle"]
    BY <1>3, <2>1, <2>3, <2>5, ClientAlone DEF ConfigureWindow, TypeOK
  <2> QED
    BY <1>3, <2>4, <2>5 DEF ConfigureWindow
<1>4. CASE WaitCaptureCompletion
  <2>1. call \in {"start", "take", "params"}
    BY <1>4 DEF WaitCaptureCompletion, Control
  <2> QED
    BY <1>4, <2>1, ClientAlone DEF WaitCaptureCompletion, TypeOK, AfterWait
<1>5. CASE WaitCaptureTimeout
  BY <1>5, ClientAlone DEF WaitCaptureTimeout, TypeOK
<1>6. ASSUME NEW r, StartPreviewLocked(r)
      PROVE  Inv'
  <2>1. StartPreview(d, r) \in Sessions
    BY PreviewSessions DEF TypeOK
  <2>2. d' \in Sessions
    BY <1>6, <2>1 DEF StartPreviewLocked, TypeOK
  <2>3. hal' \in HalRecords
    BY <1>6 DEF StartPreviewLocked, TypeOK, HalRecords
  <2>4. CASE pc' = [WakePreview(pc) EXCEPT !["client"] = "idle"]
    BY <1>6, <2>2, <2>3, <2>4, ClientWakesPreview DEF StartPreviewLocked
  <2>5. CASE pc' = [pc EXCEPT !["client"] = "idle"]
    BY <1>6, <2>2, <2>3, <2>5, ClientAlone DEF StartPreviewLocked, TypeOK
  <2> QED
    BY <1>6, <2>4, <2>5 DEF StartPreviewLocked
<1>7. ASSUME NEW s \in Sizes, SetParameters(s)
      PROVE  Inv'
  <2>1. d' \in Sessions
    BY <1>7, SizeSessions DEF SetParameters, TypeOK
  <2> QED
    BY <1>7, <2>1, ClientAlone DEF SetParameters, TypeOK
<1>8. CASE RunPicture
  <2>1. CASE pc["picture"] = "off"
    <3>1. /\ pc' = [u \in Threads |-> pc'[u]]
          /\ pc'["client"] = "tp_flag" /\ pc'["picture"] = "q_cmd"
          /\ pc'["preview"] = pc["preview"] /\ pc'["focus"] = pc["focus"]
      BY <1>8, <2>1 DEF RunPicture, TypeOK, Threads
    <3>2. Control'
      BY <3>1 DEF Control
    <3> QED
      BY <1>8, <3>1, <3>2, ClientStep DEF RunPicture, TypeOK
  <2>2. CASE pc["picture"] # "off"
    BY <1>8, <2>2, ClientAlone DEF RunPicture, TypeOK
  <2> QED
    BY <2>1, <2>2
<1>9. CASE SetCaptureFlag
  <2>1. hal' \in HalRecords
    BY <1>9 DEF SetCaptureFlag, TypeOK, HalRecords
  <2> QED
    BY <1>9, <2>1, ClientAlone DEF SetCaptureFlag, TypeOK
<1>10. CASE CancelJoined
  BY <1>10, ClientAlone DEF CancelJoined, TypeOK
<1>11. CASE ReleaseSignal
  BY <1>11, ClientWakesPreview DEF ReleaseSignal, TypeOK
<1>12. CASE ReleaseFocus
  <2>1. /\ pc' = [u \in Threads |-> pc'[u]]
        /\ pc'["client"] = "rl_joinF"
        /\ pc'["focus"] = IF pc["focus"] = "f_waiting" THEN "f_woken"
                          ELSE pc["focus"]
        /\ \A t \in {"preview", "picture"} : pc'[t] = pc[t]
    BY <1>12, SignalMoves DEF ReleaseFocus, WakeFocus, Threads
  <2>2. hal' \in HalRecords
    BY <1>12 DEF ReleaseFocus, TypeOK, HalRecords
  <2>3. Control'
    BY <1>12, <2>1 DEF ReleaseFocus, Control
  <2> QED
    BY <1>12, <2>1, <2>2, <2>3, ClientStep DEF ReleaseFocus, TypeOK
<1>13. CASE ReleaseDeinit
  <2>1. d' \in Sessions
    BY <1>13, OpenSessions DEF ReleaseDeinit, TypeOK
  <2>2. \A t \in {"preview", "focus", "picture"} : pc[t] = "off"
    BY <1>13 DEF ReleaseDeinit, Control
  <2> QED
    BY <1>13, <2>1, <2>2, ClientAlone DEF ReleaseDeinit, TypeOK
<1>14. QED
  BY <1>1, <1>2, <1>3, <1>4, <1>5, <1>6, <1>7, <1>8, <1>9, <1>10, <1>11, <1>12,
     <1>13 DEF ClientContinues

(* A wake-up of Condition::wait() that nobody caused keeps the invariant.   *)
LEMMA SpuriousKeeps ==
  ASSUME Inv, SpuriousWakeup
  PROVE  Inv'
<1>1. call \in {"stop", "take", "window"}
  BY DEF SpuriousWakeup, Inv, Control, At
<1> QED
  BY <1>1, ClientAlone
     DEF SpuriousWakeup, Inv, Goto, At, ClientLabels, Resting, TypeOK

(* What a step of the preview thread that signals nobody leaves.            *)
LEMMA PreviewAlone ==
  ASSUME Inv, NEW label \in PreviewLabels, pc["preview"] # "off",
         pc["preview"] # "p_stop", pc' = [pc EXCEPT !["preview"] = label],
         d' \in Sessions, hal' = hal, call' = call, asked' = asked,
         IF label = "p_stop" THEN lock = "none" /\ lock' = "preview"
                             ELSE lock' = lock,
         buf' \in Windows \union {NULL}, buf' # NULL => label = "p_enq",
         held' \subseteq [buf : Buffers, old : BOOLEAN]
  PROVE  Inv'
<1>1. /\ pc' = [u \in Threads |-> pc'[u]]
      /\ pc'["preview"] = label
      /\ \A t \in {"client", "focus", "picture"} : pc'[t] = pc[t]
  BY Moves DEF Inv, Threads
<1>2. /\ lock \in {"none", "client", "preview"}
      /\ lock # "preview"
  BY DEF Inv, TypeOK, At
<1>3. /\ lock' \in {"none", "client", "preview"}
      /\ lock' = "preview" <=> pc'["preview"] = "p_stop"
      /\ lock = "client" => lock' = "client"
  BY <1>1, <1>2
<1> QED
  BY <1>1, <1>3, PreviewStep

(* The preview thread keeps the invariant.                                  *)
LEMMA PreviewKeeps ==
  ASSUME Inv, PreviewThread
  PROVE  Inv'
<1> USE DEF Inv, Goto, At, PreviewLabels
<1>1. CASE PreviewCheck
  BY <1>1, PreviewAlone DEF PreviewCheck, TypeOK
<1>2. ASSUME NEW r, PreviewStop(r)
      PROVE  Inv'
  <2>1. d' \in Sessions
    BY <1>2, PreviewSessions DEF PreviewStop, TypeOK
  <2>2. /\ pc' = [u \in Threads |-> pc'[u]]
        /\ pc'["preview"] = "p_waiting"
        /\ pc'["client"] = IF pc["client"] = "st_wait" THEN "st_back"
                           ELSE pc["client"]
        /\ \A t \in {"focus", "picture"} : pc'[t] = pc[t]
    BY <1>2, SignalMoves DEF PreviewStop, Threads
  <2> QED
    BY <1>2, <2>1, <2>2, PreviewStep DEF PreviewStop, TypeOK
<1>3. ASSUME NEW r, PreviewExit(r)
      PROVE  Inv'
  <2>1. d' \in Sessions
    BY <1>3, PreviewSessions DEF PreviewExit, TypeOK
  <2> QED
    BY <1>3, <2>1, PreviewAlone DEF PreviewExit, TypeOK
<1>4. ASSUME NEW data, PreviewGet(data)
      PROVE  Inv'
  BY <1>4, PreviewAlone DEF PreviewGet, TypeOK
<1>5. ASSUME NEW named, NEW r, PreviewReset(named, r)
      PROVE  Inv'
  <2>1. StopPreview(d, "ok") \in Sessions
    BY PreviewSessions DEF TypeOK
  <2>2. StartPreview(StopPreview(d, "ok"), r) \in Sessions
    BY <2>1, PreviewSessions
  <2>3. d' \in Sessions
    BY <1>5, <2>1, <2>2 DEF PreviewReset
  <2> QED
    BY <1>5, <2>3, PreviewAlone DEF PreviewReset, TypeOK
<1>6. ASSUME NEW ok, PreviewDequeue(ok)
      PROVE  Inv'
  <2>1. buf' \in Windows \union {NULL}
    BY <1>6 DEF PreviewDequeue, TypeOK, HalRecords
  <2> QED
    BY <1>6, <2>1, PreviewAlone DEF PreviewDequeue, TypeOK
<1>7. CASE PreviewEnqueue
  BY <1>7, PreviewAlone DEF PreviewEnqueue, TypeOK
<1>8. ASSUME NEW known, PreviewRecord(known)
      PROVE  Inv'
  <2>1. d.queue \subseteq Buffers
    BY DEF TypeOK, Sessions
  <2>2. CASE UNCHANGED <<d, held>>
    BY <1>8, <2>2, PreviewAlone DEF PreviewRecord, TypeOK
  <2>3. CASE ~UNCHANGED <<d, held>>
    <3>1. PICK b \in d.queue :
            \/ d' = GetRecordFrame(d, b) /\ UNCHANGED held
            \/ /\ d' = GetRecordFrame(d, b)
               /\ held' = held \union {[buf |-> b, old |-> FALSE]}
            \/ /\ d' = ReleaseRecordFrame(GetRecordFrame(d, b), b)
               /\ UNCHANGED held
      BY <1>8, <2>3 DEF PreviewRecord
    <3>2. GetRecordFrame(d, b) \in Sessions
      BY <2>1, FrameSessions DEF TypeOK
    <3>3. ReleaseRecordFrame(GetRecordFrame(d, b), b) \in Sessions
      BY <2>1, <3>2, FrameSessions
    <3>4. d' \in Sessions
      BY <3>1, <3>2, <3>3
    <3>5. held' \subseteq [buf : Buffers, old : BOOLEAN]
      <4> DEFINE Frames == [buf : Buffers, old : BOOLEAN]
      <4>1. held \subseteq Frames
        BY DEF TypeOK
      <4>2. [buf |-> b, old |-> FALSE] \in Frames
        BY <2>1
      <4> HIDE DEF Frames
      <4>3. held' \subseteq Frames
        BY <3>1, <4>1, <4>2
      <4> QED
        BY <4>3 DEF Frames
    <3>6. /\ pc["preview"] = "p_rec" /\ pc' = [pc EXCEPT !["preview"] = "p_lock"]
          /\ hal' = hal /\ lock' = lock /\ call' = call /\ buf' = buf /\ asked' = asked
      BY <1>8 DEF PreviewRecord
    <3>7. buf \in Windows \union {NULL} /\ buf = NULL
      BY <3>6 DEF TypeOK
    <3> QED
      BY <3>4, <3>5, <3>6, <3>7, PreviewAlone
  <2> QED
    BY <2>2, <2>3
<1> QED
  BY <1>1, <1>2, <1>3, <1>4, <1>5, <1>6, <1>7, <1>8 DEF PreviewThread

(* The auto focus thread keeps the invariant.                               *)
LEMMA FocusKeeps ==
  ASSUME Inv, FocusThread
  PROVE  Inv'
<1> USE DEF Inv, Goto, At
<1>1. CASE FocusWait
  BY <1>1, OtherStep DEF FocusWait, TypeOK
<1>2. CASE FocusWoken
  BY <1>2, OtherStep DEF FocusWoken, TypeOK
<1>3. ASSUME NEW ok \in BOOLEAN, FocusRun(ok)
      PROVE  Inv'
  BY <1>3, OtherStep DEF FocusRun, TypeOK
<1> QED
  BY <1>1, <1>2, <1>3 DEF FocusThread, Succeeds

(* The picture thread keeps the invariant.                                  *)
LEMMA PictureKeeps ==
  ASSUME Inv, PictureThread
  PROVE  Inv'
<1> USE DEF Inv, Goto, At
<1>1. ASSUME NEW r, PictureCommand(r)
      PROVE  Inv'
  <2>1. d' \in Sessions
    BY <1>1, SnapshotSessions DEF PictureCommand, TypeOK
  <2> QED
    BY <1>1, <2>1, OtherStep DEF PictureCommand, TypeOK
<1>2. ASSUME NEW ok, PictureImage(ok)
      PROVE  Inv'
  <2>1. d' \in Sessions
    BY <1>2, SnapshotSessions DEF PictureImage, TypeOK
  <2> QED
    BY <1>2, <2>1, OtherStep DEF PictureImage, TypeOK
<1>3. CASE PictureEnd
  <2>1. d' \in Sessions /\ hal' \in HalRecords
    BY <1>3, SnapshotSessions DEF PictureEnd, TypeOK, HalRecords
  <2> QED
    BY <1>3, <2>1, OtherStep DEF PictureEnd, TypeOK
<1>4. CASE PictureExit
  BY <1>4, OtherStep DEF PictureExit, TypeOK
<1> QED
  BY <1>1, <1>2, <1>3, <1>4 DEF PictureThread

-------------------------------------------------------------------------------
(* The theorems *)

(* The invariant holds initially.                                           *)
LEMMA InitInv == Init => Inv
<1> SUFFICES ASSUME Init PROVE Inv
  OBVIOUS
<1>1. NoSession \in Sessions /\ NewHal \in HalRecords
  BY SizeAssumption DEF NoSession, Sessions, NewHal, HalRecords
<1>2. TypeOK
  BY <1>1 DEF Init, TypeOK, Threads, At, ClientLabels, PreviewLabels, Resting
<1>3. Control /\ ThreadsEnded
  BY DEF Init, Control, ThreadsEnded, Threads, At
<1> QED
  BY <1>2, <1>3 DEF Inv

(* Every step keeps the invariant.                                          *)
LEMMA NextInv == Inv /\ [Next]_vars => Inv'
<1> SUFFICES ASSUME Inv, [Next]_vars PROVE Inv'
  OBVIOUS
<1>1. CASE UNCHANGED vars
  BY <1>1 DEF vars, Inv, TypeOK, Control, ThreadsEnded, At
<1>2. CASE Next
  BY <1>2, BeginsKeep, ContinuesKeep, SpuriousKeeps, PreviewKeeps, FocusKeeps,
     PictureKeeps DEF Next
<1> QED
  BY <1>1, <1>2

(* The camera HAL is type-correct: the preview thread has mPreviewLock, or  *)
(* a buffer of a window, only where previewThreadWrapper() and              *)
(* previewThread() have it, whatever the client and the drivers do.         *)
THEOREM CameraTypeCorrect == Spec => []TypeOK
<1>1. Inv => TypeOK
  BY DEF Inv
<1> QED
  BY <1>1, InitInv, NextInv, PTL DEF Spec

(* release() returns, and the device is closed, only with the preview, auto *)
(* focus and picture threads ended: requestExitAndWait() of the first is    *)
(* over before that of the second, and nothing starts one in between.       *)
THEOREM ThreadsEndedHolds == Spec => []ThreadsEnded
<1>1. Inv => ThreadsEnded
  BY DEF Inv
<1> QED
  BY <1>1, InitInv, NextInv, PTL DEF Spec

-------------------------------------------------------------------------------
(* What the operations of SecCamera leave alone *)

SameOpen(g, t)    == t.init = g.init /\ t.fd = g.fd /\ t.fd2 = g.fd2
SamePreview(g, t) == t.started = g.started /\ t.node = g.node
SameRecord(g, t)  == t.recording = g.recording /\ t.node2 = g.node2 /\ t.queue = g.queue

(* Starting a preview changes no more than the preview.                     *)
LEMMA StartPreviewFields ==
  ASSUME NEW g \in Sessions, NEW r
  PROVE  LET t == StartPreview(g, r)
         IN  /\ SameOpen(g, t) /\ SameRecord(g, t) /\ t.mapped = g.mapped
             /\ t.size = g.size
             /\ \/ SamePreview(g, t)
                \/ ~g.started /\ g.fd /\ t.started /\ t.node = "preview"
BY DEF StartPreview, Sessions, SameOpen, SameRecord, SamePreview

(* Stopping it, too; it is off but for a failure of the driver.             *)
LEMMA StopPreviewFields ==
  ASSUME NEW g \in Sessions, NEW r
  PROVE  LET t == StopPreview(g, r)
         IN  /\ SameOpen(g, t) /\ SameRecord(g, t) /\ t.mapped = g.mapped
             /\ t.size = g.size
             /\ \/ SamePreview(g, t)
                \/ g.started /\ ~t.started /\ t.node = "off"
             /\ ~g.started => t = g
             /\ r # "early" /\ g.fd => ~t.started
BY DEF StopPreview, Sessions, SameOpen, SameRecord, SamePreview

(* So does a size.                                                           *)
LEMMA SizeFields ==
  ASSUME NEW g \in Sessions, NEW s
  PROVE  LET t == SetPreviewSize(g, s)
         IN  SameOpen(g, t) /\ SamePreview(g, t) /\ SameRecord(g, t) /\ t.mapped = g.mapped
BY DEF SetPreviewSize, Sessions, SameOpen, SameRecord, SamePreview

(* Starting a recording changes the second node only.                       *)
LEMMA StartRecordFields ==
  ASSUME NEW g \in Sessions, NEW r
  PROVE  LET t == StartRecord(g, r)
         IN  /\ SameOpen(g, t) /\ SamePreview(g, t) /\ t.mapped = g.mapped
             /\ t.size = g.size
             /\ \/ SameRecord(g, t) /\ (g.recording \/ ~g.fd2 \/ r = "early")
                \/ /\ ~g.recording /\ g.fd2 /\ t.node2 /\ t.queue = Buffers
                   /\ t.recording = (r = "ok")
BY DEF StartRecord, Sessions, SameOpen, SameRecord, SamePreview

(* So does stopping one: the flag is cleared even when the driver fails.    *)
LEMMA StopRecordFields ==
  ASSUME NEW g \in Sessions, NEW r
  PROVE  LET t == StopRecord(g, r)
         IN  /\ SameOpen(g, t) /\ SamePreview(g, t) /\ t.mapped = g.mapped
             /\ t.size = g.size
             /\ \/ SameRecord(g, t) /\ (~g.recording \/ ~g.fd2)
                \/ /\ ~t.recording /\ t.node2 = g.node2 /\ t.queue = g.queue
                   /\ r = "early"
                \/ ~t.recording /\ ~t.node2 /\ t.queue = {}
BY DEF StopRecord, Sessions, SameOpen, SameRecord, SamePreview

(* A frame that is got leaves the queue.                                    *)
LEMMA GetFrameFields ==
  ASSUME NEW g \in Sessions, NEW b
  PROVE  LET t == GetRecordFrame(g, b)
         IN  /\ SameOpen(g, t) /\ SamePreview(g, t) /\ t.mapped = g.mapped
             /\ t.size = g.size
             /\ t.recording = g.recording /\ t.node2 = g.node2 /\ t.queue = g.queue \ {b}
BY DEF GetRecordFrame, Sessions, SameOpen, SamePreview

(* One that is released goes back to it while the recording goes on.        *)
LEMMA ReleaseFrameFields ==
  ASSUME NEW g \in Sessions, NEW b
  PROVE  LET t == ReleaseRecordFrame(g, b)
         IN  /\ SameOpen(g, t) /\ SamePreview(g, t) /\ t.mapped = g.mapped
             /\ t.size = g.size
             /\ t.recording = g.recording /\ t.node2 = g.node2
             /\ t.queue = IF g.recording THEN g.queue \union {b} ELSE g.queue
BY DEF ReleaseRecordFrame, Sessions, SameOpen, SamePreview

(* The command of a snapshot changes the first node, and maps the capture   *)
(* buffer.                                                                  *)
LEMMA SnapshotFields ==
  ASSUME NEW g \in Sessions, NEW r
  PROVE  LET t == SetSnapshotCmd(g, r)
         IN  /\ SameOpen(g, t) /\ SameRecord(g, t) /\ t.size = g.size
             /\ ~g.started =>
                  /\ ~t.started
                  /\ \/ t = g /\ (r = "early" \/ ~g.fd)
                     \/ t.mapped /\ t.node = g.node /\ r = "late"
                     \/ t.mapped /\ t.node = "capture"
<1>1. PICK e : e = StopPreview(g, "ok")
  OBVIOUS
<1>2. /\ e \in Sessions /\ SameOpen(g, e) /\ SameRecord(g, e) /\ e.size = g.size
      /\ ~g.started => e = g
  BY <1>1, PreviewSessions, StopPreviewFields
<1>3. PICK t : t = SetSnapshotCmd(g, r)
  OBVIOUS
<1>4. /\ SameOpen(e, t) /\ SameRecord(e, t) /\ t.size = e.size /\ t.started = e.started
      /\ \/ t = e /\ (r = "early" \/ ~g.fd)
         \/ t.mapped /\ t.node = e.node /\ r = "late"
         \/ t.mapped /\ t.node = "capture"
  BY <1>1, <1>2, <1>3 DEF SetSnapshotCmd, Sessions, SameOpen, SameRecord
<1> QED BY <1>2, <1>3, <1>4 DEF SameOpen, SameRecord

(* Its image ends the capture, but for the back camera when that fails.     *)
LEMMA ImageFields ==
  ASSUME NEW g \in Sessions, NEW ok \in BOOLEAN,
         NEW t \in {GetJpeg(g, ok), GetSnapshot(g)}
  PROVE  /\ SameOpen(g, t) /\ SameRecord(g, t) /\ t.mapped = g.mapped
         /\ t.started = g.started /\ t.size = g.size
         /\ t.node = "off" \/ (t.node = g.node /\ ~ok)
<1>1. CASE t = GetJpeg(g, ok)
  BY <1>1 DEF GetJpeg, Sessions, SameOpen, SameRecord
<1>2. CASE t = GetSnapshot(g)
  BY <1>2 DEF GetSnapshot, Sessions, SameOpen, SameRecord
<1> QED BY <1>1, <1>2

(* Its end unmaps the buffer.                                               *)
LEMMA EndFields ==
  ASSUME NEW g \in Sessions
  PROVE  LET t == EndSnapshot(g)
         IN  /\ SameOpen(g, t) /\ SamePreview(g, t) /\ SameRecord(g, t) /\ ~t.mapped
             /\ t.size = g.size
BY DEF EndSnapshot, Sessions, SameOpen, SameRecord, SamePreview

(* Opening leaves alone what streams.                                       *)
LEMMA InitFields ==
  ASSUME NEW g \in Sessions, NEW front \in BOOLEAN, NEW opened \in 0..2
  PROVE  LET t == InitCamera(g, front, opened)
         IN  /\ SamePreview(g, t) /\ SameRecord(g, t) /\ t.mapped = g.mapped
             /\ \/ g.init /\ t = g
                \/ /\ ~g.init /\ t.fd = (opened # 0)
                   /\ t.fd2 = (opened = 2) /\ t.init = (opened = 2)
BY DEF InitCamera, Sessions, SameRecord, SamePreview

(* Closing ends it, but for the flag of a preview.                          *)
LEMMA DeinitFields ==
  ASSUME NEW g \in Sessions
  PROVE  LET t == DeinitCamera(g)
         IN  /\ t.started = g.started /\ t.mapped = g.mapped /\ t.size = g.size
             /\ \/ ~g.init /\ t = g
                \/ /\ g.init /\ ~t.init /\ ~t.fd /\ ~t.fd2 /\ t.node = "off" /\ ~t.node2
                   /\ t.queue = {} /\ t.recording = (g.recording /\ ~g.fd2)
<1>1. PICK e : e = StopRecord(g, "ok")
  OBVIOUS
<1>2. e \in Sessions
  BY <1>1, RecordSessions
<1>3. /\ e.started = g.started /\ e.mapped = g.mapped /\ e.size = g.size
      /\ e.recording = (g.recording /\ ~g.fd2)
  BY <1>1 DEF StopRecord, Sessions
<1>4. CASE g.init
  <2>1. DeinitCamera(g) = [e EXCEPT !.init = FALSE, !.fd = FALSE, !.fd2 = FALSE,
                             !.node = "off", !.node2 = FALSE, !.queue = {}]
    BY <1>1, <1>4 DEF DeinitCamera
  <2> QED BY <1>2, <1>3, <1>4, <2>1 DEF Sessions
<1>5. CASE ~g.init
  BY <1>5 DEF DeinitCamera
<1> QED BY <1>4, <1>5

-------------------------------------------------------------------------------
(* The second node and the capture buffer, whatever fails *)

(* Both nodes are open or none counts as open; a recording needs the node   *)
(* it streams on, buffers are queued while it streams only, and the capture *)
(* buffer is mapped for the picture thread only.                            *)
DriverInv ==
  /\ d.init <=> d.fd2
  /\ d.fd2 => d.fd
  /\ d.recording => d.fd2 /\ d.node2
  /\ d.node2 => d.fd2
  /\ ~d.node2 => d.queue = {}
  /\ d.mapped => pc["picture"] \in {"q_image", "q_end"}

(* A step that leaves the second node alone, and the picture thread its     *)
(* buffer.                                                                  *)
LEMMA DriverSame ==
  ASSUME DriverInv, SameOpen(d, d'), SameRecord(d, d'),
         d'.mapped => (d.mapped /\ pc'["picture"] = pc["picture"])
                        \/ pc'["picture"] \in {"q_image", "q_end"}
  PROVE  DriverInv'
BY DEF DriverInv, SameOpen, SameRecord

(* The client keeps it as it begins a call.                                 *)
LEMMA BeginsDriver ==
  ASSUME Inv, DriverInv, ClientBegins
  PROVE  DriverInv'
<1>1. pc = [t \in Threads |-> pc[t]] /\ d \in Sessions
  BY DEF Inv, TypeOK
<1>2. ASSUME UNCHANGED d, pc'["picture"] = pc["picture"]
      PROVE  DriverInv'
  BY <1>2, DriverSame DEF SameOpen, SameRecord
<1>3. ASSUME NEW front \in BOOLEAN, NEW opened \in 0..2, OpenCamera(front, opened)
      PROVE  DriverInv'
  <2>1. PICK e : e = InitCamera(d, front, opened)
    OBVIOUS
  <2>2. /\ e \in Sessions
        /\ SamePreview(d, e) /\ SameRecord(d, e) /\ e.mapped = d.mapped
        /\ \/ d.init /\ e = d
           \/ /\ ~d.init /\ e.fd = (opened # 0)
              /\ e.fd2 = (opened = 2) /\ e.init = (opened = 2)
    BY <1>1, <2>1, InitFields, OpenSessions
  <2>3. d' = SetPreviewSize(e, DefaultSize)
    BY <1>3, <2>1 DEF OpenCamera
  <2>4. SameOpen(e, d') /\ SameRecord(e, d') /\ d'.mapped = e.mapped
    BY <2>2, <2>3, SizeFields
  <2>5. ~d.mapped
    BY <1>3 DEF OpenCamera, Inv, ThreadsEnded, DriverInv, At
  <2> QED BY <2>2, <2>4, <2>5 DEF DriverInv, SameOpen, SameRecord
<1>4. ASSUME NEW l, pc' = [pc EXCEPT !["client"] = l]
      PROVE  pc'["picture"] = pc["picture"]
  BY <1>1, <1>4 DEF Threads
<1>5. CASE StopPreviewCall
  BY <1>2, <1>4, <1>5 DEF StopPreviewCall, Begin, Goto
<1>6. CASE TakePicture
  BY <1>2, <1>4, <1>6 DEF TakePicture, Begin, Goto
<1>7. CASE StartPreviewCall
  BY <1>2, <1>4, <1>7 DEF StartPreviewCall, Begin, Goto
<1>8. CASE CancelPicture
  BY <1>2, <1>4, <1>8 DEF CancelPicture, Begin, Goto
<1>9. CASE SetParametersCall
  BY <1>2, <1>4, <1>9 DEF SetParametersCall, Begin, Goto
<1>10. ASSUME NEW w, SetPreviewWindow(w)
       PROVE  DriverInv'
  BY <1>2, <1>4, <1>10 DEF SetPreviewWindow, Begin, Goto
<1>11. ASSUME NEW r, StartRecording(r)
       PROVE  DriverInv'
  <2>1. d' = StartRecord(d, r) /\ pc'["picture"] = pc["picture"]
    BY <1>4, <1>11 DEF StartRecording, Begin, Goto
  <2>2. /\ SameOpen(d, d') /\ d'.mapped = d.mapped
        /\ \/ SameRecord(d, d')
           \/ d.fd2 /\ d'.node2
    BY <1>1, <2>1, StartRecordFields
  <2> QED BY <2>1, <2>2 DEF DriverInv, SameOpen, SameRecord
<1>12. ASSUME NEW r, StopRecording(r)
       PROVE  DriverInv'
  <2>1. d' = StopRecord(d, r) /\ pc'["picture"] = pc["picture"]
    BY <1>4, <1>12 DEF StopRecording, Begin, Goto
  <2>2. /\ SameOpen(d, d') /\ d'.mapped = d.mapped
        /\ \/ SameRecord(d, d')
           \/ ~d'.recording /\ d'.node2 = d.node2 /\ d'.queue = d.queue
           \/ ~d'.recording /\ ~d'.node2 /\ d'.queue = {}
    BY <1>1, <2>1, StopRecordFields
  <2> QED BY <2>1, <2>2 DEF DriverInv, SameOpen, SameRecord
<1>13. ASSUME NEW f, ReleaseRecordingFrame(f)
       PROVE  DriverInv'
  <2>1. d' = ReleaseRecordFrame(d, f.buf) /\ pc'["picture"] = pc["picture"]
    BY <1>4, <1>13 DEF ReleaseRecordingFrame, Begin, Goto
  <2>2. /\ SameOpen(d, d') /\ d'.mapped = d.mapped
        /\ d'.recording = d.recording /\ d'.node2 = d.node2
        /\ ~d.recording => d'.queue = d.queue
    BY <1>1, <2>1, ReleaseFrameFields
  <2> QED BY <2>1, <2>2 DEF DriverInv, SameOpen
<1>14. CASE EnableVideoFrames
  BY <1>2, <1>4, <1>14 DEF EnableVideoFrames, Begin, Goto
<1>15. CASE DisableVideoFrames
  BY <1>2, <1>4, <1>15 DEF DisableVideoFrames, Begin, Goto
<1>16. CASE AutoFocus
  BY <1>1, <1>2, <1>16 DEF AutoFocus, WakeFocus, Signal, Threads
<1>17. CASE ReleaseFlags
  BY <1>2, <1>4, <1>17 DEF ReleaseFlags, Begin, Goto
<1>18. CASE CloseCamera
  <2>1. d' = DeinitCamera(d) /\ pc'["picture"] = pc["picture"]
    BY <1>4, <1>18 DEF CloseCamera, Goto
  <2>2. /\ d'.mapped = d.mapped
        /\ \/ ~d.init /\ d' = d
           \/ /\ d.init /\ ~d'.init /\ ~d'.fd2 /\ ~d'.node2
              /\ d'.queue = {} /\ d'.recording = (d.recording /\ ~d.fd2)
    BY <1>1, <2>1, DeinitFields
  <2> QED BY <2>1, <2>2 DEF DriverInv
<1> QED BY <1>3, <1>5, <1>6, <1>7, <1>8, <1>9, <1>10, <1>11, <1>12, <1>13, <1>14, <1>15,
           <1>16, <1>17, <1>18 DEF ClientBegins

(* As it goes on.                                                           *)
LEMMA ContinuesDriver ==
  ASSUME Inv, DriverInv, ClientContinues \/ SpuriousWakeup
  PROVE  DriverInv'
<1>1. pc = [t \in Threads |-> pc[t]] /\ d \in Sessions
  BY DEF Inv, TypeOK
<1>2. ASSUME NEW e, d' = e, SameOpen(d, e), SameRecord(d, e), e.mapped = d.mapped,
             pc'["picture"] = pc["picture"]
      PROVE  DriverInv'
  BY <1>2, DriverSame
<1>3. SameOpen(d, d) /\ SameRecord(d, d)
  BY DEF SameOpen, SameRecord
<1>4. ASSUME NEW l, pc' = [pc EXCEPT !["client"] = l]
                      \/ pc' = [WakePreview(pc) EXCEPT !["client"] = l]
                      \/ pc' = [WakeFocus(pc) EXCEPT !["client"] = l]
      PROVE  pc'["picture"] = pc["picture"]
  BY <1>1, <1>4 DEF Threads, WakePreview, WakeFocus, Signal
<1>5. ASSUME NEW r
      PROVE  SameOpen(d, StartPreview(d, r)) /\ SameRecord(d, StartPreview(d, r))
               /\ StartPreview(d, r).mapped = d.mapped
  BY <1>1, StartPreviewFields
<1>6. CASE StopPreviewInternal
  BY <1>2, <1>3, <1>4, <1>6 DEF StopPreviewInternal, Goto
<1>7. CASE StopWaitReturns
  BY <1>2, <1>3, <1>4, <1>7 DEF StopWaitReturns, Goto
<1>8. ASSUME NEW accepted, NEW r, ConfigureWindow(accepted, r)
      PROVE  DriverInv'
  BY <1>2, <1>3, <1>4, <1>5, <1>8 DEF ConfigureWindow, Goto
<1>9. CASE WaitCaptureCompletion
  BY <1>2, <1>3, <1>4, <1>9 DEF WaitCaptureCompletion, Goto
<1>10. CASE WaitCaptureTimeout
  BY <1>2, <1>3, <1>4, <1>10 DEF WaitCaptureTimeout, Goto
<1>11. ASSUME NEW r, StartPreviewLocked(r)
       PROVE  DriverInv'
  BY <1>2, <1>3, <1>4, <1>5, <1>11 DEF StartPreviewLocked, Goto
<1>12. ASSUME NEW s, SetParameters(s)
       PROVE  DriverInv'
  <2>1. d' = SetPreviewSize(d, s) /\ pc'["picture"] = pc["picture"]
    BY <1>4, <1>12 DEF SetParameters, Goto
  <2> QED BY <1>1, <1>2, <2>1, SizeFields
<1>13. CASE RunPicture
  <2>1. d' = d /\ (pc["picture"] # "off" => pc'["picture"] = pc["picture"])
    BY <1>4, <1>13 DEF RunPicture, At
  <2>2. d'.mapped => d.mapped /\ pc'["picture"] = pc["picture"]
    BY <2>1 DEF DriverInv
  <2> QED BY <1>3, <2>1, <2>2, DriverSame
<1>14. CASE SetCaptureFlag
  BY <1>2, <1>3, <1>4, <1>14 DEF SetCaptureFlag, Goto
<1>15. CASE CancelJoined
  BY <1>2, <1>3, <1>4, <1>15 DEF CancelJoined, Goto
<1>16. CASE ReleaseSignal
  BY <1>2, <1>3, <1>4, <1>16 DEF ReleaseSignal
<1>17. CASE ReleaseFocus
  BY <1>2, <1>3, <1>4, <1>17 DEF ReleaseFocus
<1>18. CASE ReleaseDeinit
  <2>1. d' = DeinitCamera(d) /\ pc'["picture"] = pc["picture"]
    BY <1>4, <1>18 DEF ReleaseDeinit, Goto
  <2>2. /\ d'.mapped = d.mapped
        /\ \/ ~d.init /\ d' = d
           \/ /\ d.init /\ ~d'.init /\ ~d'.fd2 /\ ~d'.node2
              /\ d'.queue = {} /\ d'.recording = (d.recording /\ ~d.fd2)
    BY <1>1, <2>1, DeinitFields
  <2> QED BY <2>1, <2>2 DEF DriverInv
<1>19. CASE SpuriousWakeup
  BY <1>2, <1>3, <1>4, <1>19 DEF SpuriousWakeup, Goto
<1> QED BY <1>6, <1>7, <1>8, <1>9, <1>10, <1>11, <1>12, <1>13, <1>14, <1>15, <1>16, <1>17,
           <1>18, <1>19 DEF ClientContinues

(* What the preview thread does with a recorded frame leaves the first      *)
(* node, and what is open, alone.                                           *)
LEMMA RecordStep ==
  ASSUME d \in Sessions, NEW known, PreviewRecord(known)
  PROVE  /\ SameOpen(d, d') /\ SamePreview(d, d') /\ d'.mapped = d.mapped
         /\ d'.size = d.size
         /\ d'.recording = d.recording /\ d'.node2 = d.node2
         /\ d'.queue \subseteq d.queue
<1>1. CASE d' = d
  BY <1>1 DEF SameOpen, SamePreview
<1>2. CASE d' # d
  <2>1. PICK b \in d.queue :
          \/ d' = GetRecordFrame(d, b)
          \/ d' = ReleaseRecordFrame(GetRecordFrame(d, b), b)
    BY <1>2 DEF PreviewRecord
  <2>2. d.queue \subseteq Buffers
    BY DEF Sessions
  <2>3. PICK g : g = GetRecordFrame(d, b)
    OBVIOUS
  <2>4. /\ g \in Sessions /\ SameOpen(d, g) /\ SamePreview(d, g) /\ g.mapped = d.mapped
        /\ g.size = d.size
        /\ g.recording = d.recording /\ g.node2 = d.node2 /\ g.queue = d.queue \ {b}
    BY <2>2, <2>3, FrameSessions, GetFrameFields
  <2> QED BY <2>1, <2>3, <2>4, ReleaseFrameFields DEF SameOpen, SamePreview
<1> QED BY <1>1, <1>2

(* The preview thread keeps it: a frame it gets leaves the queue, one that  *)
(* nobody wants comes back to it.                                           *)
LEMMA PreviewDriver ==
  ASSUME Inv, DriverInv, PreviewThread
  PROVE  DriverInv'
<1>1. pc = [t \in Threads |-> pc[t]] /\ d \in Sessions
  BY DEF Inv, TypeOK
<1>2. ASSUME NEW e, d' = e, SameOpen(d, e), SameRecord(d, e), e.mapped = d.mapped,
             pc'["picture"] = pc["picture"]
      PROVE  DriverInv'
  BY <1>2, DriverSame
<1>3. SameOpen(d, d) /\ SameRecord(d, d)
  BY DEF SameOpen, SameRecord
<1>4. ASSUME NEW l, pc' = [pc EXCEPT !["preview"] = l]
                      \/ pc' = [Signal(pc, "client", "st_wait", "st_back")
                                  EXCEPT !["preview"] = l]
      PROVE  pc'["picture"] = pc["picture"]
  BY <1>1, <1>4 DEF Threads, Signal
<1>5. ASSUME NEW r
      PROVE  SameOpen(d, StopPreview(d, r)) /\ SameRecord(d, StopPreview(d, r))
               /\ StopPreview(d, r).mapped = d.mapped
  BY <1>1, StopPreviewFields
<1>6. CASE PreviewCheck
  BY <1>2, <1>3, <1>4, <1>6 DEF PreviewCheck, Goto
<1>7. ASSUME NEW r, PreviewStop(r)
      PROVE  DriverInv'
  <2>1. d' = StopPreview(d, r) /\ pc'["picture"] = pc["picture"]
    BY <1>4, <1>7 DEF PreviewStop
  <2> QED BY <1>2, <1>5, <2>1
<1>8. ASSUME NEW r, PreviewExit(r)
      PROVE  DriverInv'
  <2>1. (d' = StopPreview(d, r) \/ d' = d) /\ pc'["picture"] = pc["picture"]
    BY <1>4, <1>8 DEF PreviewExit, Goto
  <2> QED BY <1>2, <1>3, <1>5, <2>1
<1>9. ASSUME NEW data, PreviewGet(data)
      PROVE  DriverInv'
  BY <1>2, <1>3, <1>4, <1>9 DEF PreviewGet, Goto
<1>10. ASSUME NEW named, NEW r, PreviewReset(named, r)
       PROVE  DriverInv'
  <2>1. PICK g : g = StopPreview(d, "ok")
    OBVIOUS
  <2>2. g \in Sessions /\ SameOpen(d, g) /\ SameRecord(d, g) /\ g.mapped = d.mapped
    BY <1>1, <1>5, <2>1, PreviewSessions
  <2>3. d' = g \/ d' = StartPreview(g, r)
    BY <1>10, <2>1 DEF PreviewReset
  <2>4. SameOpen(d, d') /\ SameRecord(d, d') /\ d'.mapped = d.mapped
    BY <2>2, <2>3, StartPreviewFields DEF SameOpen, SameRecord
  <2>5. pc'["picture"] = pc["picture"]
    BY <1>4, <1>10 DEF PreviewReset, Goto
  <2> QED BY <1>2, <2>4, <2>5
<1>11. ASSUME NEW ok, PreviewDequeue(ok)
       PROVE  DriverInv'
  BY <1>2, <1>3, <1>4, <1>11 DEF PreviewDequeue, Goto
<1>12. CASE PreviewEnqueue
  BY <1>2, <1>3, <1>4, <1>12 DEF PreviewEnqueue, Goto
<1>13. ASSUME NEW known, PreviewRecord(known)
       PROVE  DriverInv'
  <2>1. pc'["picture"] = pc["picture"]
    BY <1>4, <1>13 DEF PreviewRecord, Goto
  <2> QED BY <1>1, <1>13, <2>1, RecordStep DEF DriverInv, SameOpen
<1> QED BY <1>6, <1>7, <1>8, <1>9, <1>10, <1>11, <1>12, <1>13 DEF PreviewThread

(* The other two threads keep it.                                           *)
LEMMA OthersDriver ==
  ASSUME Inv, DriverInv, FocusThread \/ PictureThread
  PROVE  DriverInv'
<1>1. pc = [t \in Threads |-> pc[t]] /\ d \in Sessions
  BY DEF Inv, TypeOK
<1>2. CASE FocusThread
  <2>1. d' = d /\ pc'["picture"] = pc["picture"]
    BY <1>1, <1>2 DEF FocusThread, FocusWait, FocusWoken, FocusRun, Goto, Threads
  <2> QED BY <2>1, DriverSame DEF SameOpen, SameRecord
<1>3. ASSUME NEW l, pc' = [pc EXCEPT !["picture"] = l]
      PROVE  pc'["picture"] = l
  BY <1>1, <1>3 DEF Threads
<1>4. ASSUME NEW r, PictureCommand(r)
      PROVE  DriverInv'
  <2>1. d' = SetSnapshotCmd(d, r) /\ pc'["picture"] = "q_image"
    BY <1>3, <1>4 DEF PictureCommand, Goto
  <2> QED BY <1>1, <2>1, SnapshotFields, DriverSame
<1>5. ASSUME NEW ok \in BOOLEAN, PictureImage(ok)
      PROVE  DriverInv'
  <2>1. /\ d' = GetSnapshot(d) \/ d' = GetJpeg(d, ok /\ d.node = "capture")
        /\ pc'["picture"] = "q_end"
    BY <1>3, <1>5 DEF PictureImage, Goto
  <2>2. SameOpen(d, d') /\ SameRecord(d, d')
    <3>1. PICK o \in BOOLEAN : o = (ok /\ d.node = "capture")
      OBVIOUS
    <3>2. d' \in {GetJpeg(d, o), GetSnapshot(d)}
      BY <2>1, <3>1
    <3> QED BY <1>1, <3>2, ImageFields
  <2> QED BY <2>1, <2>2, DriverSame
<1>6. CASE PictureEnd
  <2>1. d' = EndSnapshot(d)
    BY <1>6 DEF PictureEnd
  <2>2. SameOpen(d, d') /\ SameRecord(d, d') /\ ~d'.mapped
    BY <1>1, <2>1, EndFields
  <2> QED BY <2>2, DriverSame
<1>7. CASE PictureExit
  <2>1. d' = d /\ pc["picture"] = "q_exit"
    BY <1>7 DEF PictureExit, At
  <2> QED BY <2>1, DriverSame DEF SameOpen, SameRecord, DriverInv
<1> QED BY <1>2, <1>4, <1>5, <1>6, <1>7 DEF PictureThread, Succeeds

(* So it holds in every session, whatever fails.                            *)
LEMMA DriverHolds == Spec => [](Inv /\ DriverInv)
<1>1. Init => DriverInv
  BY DEF Init, NoSession, DriverInv
<1>2. Inv /\ DriverInv /\ [Next]_vars => DriverInv'
  <2> SUFFICES ASSUME Inv, DriverInv, [Next]_vars PROVE DriverInv'
    OBVIOUS
  <2>1. CASE UNCHANGED vars
    BY <2>1 DEF vars, DriverInv
  <2>2. CASE Next
    BY <2>2, BeginsDriver, ContinuesDriver, PreviewDriver, OthersDriver DEF Next
  <2> QED BY <2>1, <2>2
<1> QED BY <1>1, <1>2, InitInv, NextInv, PTL DEF Spec

(* A node that does not stream has no buffer, whichever call fails and in   *)
(* whatever order the frames come back.                                     *)
THEOREM LateFrameIgnoredHolds == Spec => []LateFrameIgnored
<1>1. DriverInv => LateFrameIgnored
  BY DEF DriverInv, LateFrameIgnored
<1> QED BY <1>1, DriverHolds, PTL

-------------------------------------------------------------------------------
(* Stopping the preview *)

(* What stopping relies on: the driver stops a stream when it is told to,   *)
(* the wait in stopPreviewInternal() returns only when it was signalled,    *)
(* and the preview is started with a window.                                *)
Waits == {"stop", "spurious"} \cap Faults = {} /\ "defer" \notin Calls

Using     == {"p_exit", "p_get", "p_reset", "p_frame", "p_enq", "p_rec"}
Active    == {"q_cmd", "q_image", "q_end"}
Releasing == {"rl_signal", "rl_joinP", "rl_joinF", "released", "closed"}

(* The preview thread exits for a release only; the sensor is on, or the    *)
(* thread in the code that uses it, only while mPreviewRunning is set or    *)
(* stopPreviewInternal() waits for the thread.                              *)
StopInv ==
  /\ hal.exitPreview \/ pc["preview"] = "off" => pc["client"] \in Releasing
  /\ ~hal.deferred
  /\ (pc["client"] = "wc" /\ call = "start") \/ pc["client"] = "sp_lock" =>
       hal.window # NULL
  /\ d.started => d.fd
  /\ d.started \/ pc["preview"] \in Using => hal.running \/ pc["client"] = "st_wait"
  /\ pc["preview"] = "off" => ~d.started
  /\ pc["client"] = "st_wait" => ~hal.running
  /\ pc["client"] = "st_back" => ~hal.running /\ ~d.started
  /\ (pc["client"] = "wc" /\ call = "take") \/ pc["client"] \in {"tp_run", "tp_flag"} =>
       ~hal.running

(* mCaptureInProgress covers the picture thread's work, so startPreview()   *)
(* and setParameters() wait for it; meanwhile the preview is off, and only  *)
(* release() lets its thread go on, to its exit.                            *)
PictureInv ==
  /\ pc["picture"] \in Active => hal.capture \/ pc["client"] = "tp_flag"
  /\ pc["client"] \in {"tp_run", "sp_lock", "pa_set"} => pc["picture"] \notin Active
  /\ pc["picture"] \in Active =>
       /\ ~d.started
       /\ pc["preview"] \in Using => pc["preview"] = "p_exit" /\ hal.exitPreview
       /\ hal.running => hal.exitPreview

Quiet == StopInv /\ PictureInv

SameFlags(h, k) ==
  /\ k.running = h.running /\ k.deferred = h.deferred
  /\ k.exitPreview = h.exitPreview /\ k.capture = h.capture

(* What a driver that is told to answers.                                   *)
LEMMA DriverAnswers ==
  ASSUME NEW c, c \notin Faults
  PROVE  /\ \A r \in Answers(c) : r = "ok"
         /\ \A b \in Succeeds(c) : b = TRUE
BY DEF Answers, Succeeds

(* A call that begins leaves the preview and its flags alone.               *)
LEMMA BeginsQuiet ==
  ASSUME Waits, Inv, DriverInv, Quiet, ClientBegins
  PROVE  Quiet'
<1>1. pc = [t \in Threads |-> pc[t]] /\ d \in Sessions /\ hal \in HalRecords
  BY DEF Inv, TypeOK
<1>2. ASSUME NEW l \in {"idle", "st_lock", "wc", "cp_join"},
             pc["client"] = "idle", pc' = [pc EXCEPT !["client"] = l],
             SameOpen(d, d'), SamePreview(d, d'),
             l = "wc" => call' # "take" /\ (call' = "start" => hal'.window # NULL),
             SameFlags(hal, hal')
      PROVE  Quiet'
  <2>1. /\ pc'["client"] = l
        /\ pc'["preview"] = pc["preview"] /\ pc'["picture"] = pc["picture"]
    BY <1>1, <1>2 DEF Threads
  <2>2. StopInv'
    BY <1>2, <2>1 DEF Quiet, StopInv, Releasing, SameOpen, SamePreview, SameFlags
  <2>3. PictureInv'
    BY <1>2, <2>1 DEF Quiet, PictureInv, SameOpen, SamePreview, SameFlags
  <2> QED BY <2>2, <2>3 DEF Quiet
<1>3. SameOpen(d, d) /\ SamePreview(d, d) /\ SameFlags(hal, hal)
  BY DEF SameOpen, SamePreview, SameFlags
<1>4. ASSUME NEW front \in BOOLEAN, NEW opened \in 0..2, OpenCamera(front, opened)
      PROVE  Quiet'
  <2>1. PICK e : e = InitCamera(d, front, opened)
    OBVIOUS
  <2>2. e \in Sessions /\ SamePreview(d, e)
    BY <1>1, <2>1, InitFields, OpenSessions
  <2>3. d' = SetPreviewSize(e, DefaultSize)
    BY <1>4, <2>1 DEF OpenCamera
  <2>4. SamePreview(e, d')
    BY <2>2, <2>3, SizeFields
  <2>5. ~d.started
    BY <1>4 DEF OpenCamera, Inv, ThreadsEnded, Quiet, StopInv, At
  <2>6. ~d'.started
    BY <2>2, <2>4, <2>5 DEF SamePreview
  <2>7. /\ pc'["client"] = "idle" /\ pc'["preview"] = "p_lock" /\ pc'["picture"] = "off"
    BY <1>1, <1>4 DEF OpenCamera, Threads
  <2>8. ~hal'.running /\ ~hal'.deferred /\ ~hal'.exitPreview
    BY <1>4 DEF OpenCamera, NewHal
  <2> QED BY <2>6, <2>7, <2>8 DEF Quiet, StopInv, PictureInv, Using, Active
<1>5. CASE StopPreviewCall
  BY <1>2, <1>3, <1>5 DEF StopPreviewCall, Begin, Goto, At
<1>6. CASE TakePicture
  BY <1>2, <1>3, <1>6 DEF TakePicture, Begin, Goto, At
<1>7. CASE StartPreviewCall
  BY <1>2, <1>3, <1>7 DEF StartPreviewCall, Begin, Goto, At, Waits
<1>8. CASE CancelPicture
  BY <1>2, <1>3, <1>8 DEF CancelPicture, Begin, Goto, At
<1>9. CASE SetParametersCall
  BY <1>2, <1>3, <1>9 DEF SetParametersCall, Begin, Goto, At
<1>10. ASSUME NEW w \in Windows \union {NULL}, SetPreviewWindow(w)
       PROVE  Quiet'
  <2>1. SameFlags(hal, hal')
    BY <1>1, <1>10 DEF SetPreviewWindow, HalRecords, SameFlags
  <2>2. pc["client"] = "idle" /\ d' = d
    BY <1>10 DEF SetPreviewWindow, Begin, At
  <2>3. \E l \in {"idle", "st_lock"} : pc' = [pc EXCEPT !["client"] = l]
    BY <1>10 DEF SetPreviewWindow, Begin, Goto
  <2> QED BY <1>2, <1>3, <2>1, <2>2, <2>3
<1>11. ASSUME NEW r, StartRecording(r)
       PROVE  Quiet'
  <2>1. d' = StartRecord(d, r) /\ pc["client"] = "idle"
          /\ pc' = [pc EXCEPT !["client"] = "idle"]
    BY <1>11 DEF StartRecording, Begin, Goto, At
  <2>2. SameOpen(d, d') /\ SamePreview(d, d')
    BY <1>1, <2>1, StartRecordFields
  <2>3. SameFlags(hal, hal')
    BY <1>1, <1>11 DEF StartRecording, HalRecords, SameFlags
  <2> QED BY <1>2, <2>1, <2>2, <2>3
<1>12. ASSUME NEW r, StopRecording(r)
       PROVE  Quiet'
  <2>1. d' = StopRecord(d, r) /\ pc["client"] = "idle"
          /\ pc' = [pc EXCEPT !["client"] = "idle"]
    BY <1>12 DEF StopRecording, Begin, Goto, At
  <2>2. SameOpen(d, d') /\ SamePreview(d, d')
    BY <1>1, <2>1, StopRecordFields
  <2>3. SameFlags(hal, hal')
    BY <1>1, <1>12 DEF StopRecording, HalRecords, SameFlags
  <2> QED BY <1>2, <2>1, <2>2, <2>3
<1>13. ASSUME NEW f, ReleaseRecordingFrame(f)
       PROVE  Quiet'
  <2>1. d' = ReleaseRecordFrame(d, f.buf) /\ pc["client"] = "idle"
          /\ pc' = [pc EXCEPT !["client"] = "idle"] /\ hal' = hal
    BY <1>13 DEF ReleaseRecordingFrame, Begin, Goto, At
  <2>2. SameOpen(d, d') /\ SamePreview(d, d')
    BY <1>1, <2>1, ReleaseFrameFields
  <2> QED BY <1>2, <1>3, <2>1, <2>2
<1>14. CASE EnableVideoFrames \/ DisableVideoFrames
  <2>1. /\ d' = d /\ pc["client"] = "idle"
        /\ pc' = [pc EXCEPT !["client"] = "idle"]
    BY <1>14 DEF EnableVideoFrames, DisableVideoFrames, Begin, Goto, At
  <2>2. SameFlags(hal, hal')
    BY <1>1, <1>14 DEF EnableVideoFrames, DisableVideoFrames, HalRecords, SameFlags
  <2> QED BY <1>2, <1>3, <2>1, <2>2
<1>15. CASE AutoFocus
  <2>1. /\ pc'["client"] = pc["client"] /\ pc'["preview"] = pc["preview"]
        /\ pc'["picture"] = pc["picture"] /\ d' = d /\ hal' = hal /\ call' = call
    BY <1>1, <1>15 DEF AutoFocus, WakeFocus, Signal, Threads
  <2> QED BY <2>1 DEF Quiet, StopInv, PictureInv
<1>16. CASE ReleaseFlags
  <2>1. /\ d' = d /\ pc["client"] = "idle" /\ pc'["client"] = "rl_signal"
        /\ pc'["preview"] = pc["preview"] /\ pc'["picture"] = pc["picture"]
    BY <1>1, <1>16 DEF ReleaseFlags, Begin, Goto, At, Threads
  <2>2. /\ hal'.running /\ hal'.deferred = hal.deferred
        /\ hal'.exitPreview /\ hal'.capture = hal.capture
    BY <1>1, <1>16 DEF ReleaseFlags, HalRecords
  <2>3. StopInv'
    BY <2>1, <2>2 DEF Quiet, StopInv, Releasing
  <2>4. PictureInv'
    BY <2>1, <2>2 DEF Quiet, PictureInv, StopInv, Releasing
  <2> QED BY <2>3, <2>4 DEF Quiet
<1>17. CASE CloseCamera
  <2>1. /\ d' = DeinitCamera(d) /\ hal' = hal /\ pc["client"] = "released"
        /\ pc'["client"] = "closed"
        /\ pc'["preview"] = pc["preview"] /\ pc'["picture"] = pc["picture"]
    BY <1>1, <1>17 DEF CloseCamera, Goto, At, Threads
  <2>2. pc["preview"] = "off" /\ pc["picture"] = "off" /\ ~d.started
    BY <2>1 DEF Inv, ThreadsEnded, At, Quiet, StopInv
  <2>3. ~d'.started
    BY <1>1, <2>1, <2>2, DeinitFields
  <2> QED BY <2>1, <2>2, <2>3 DEF Quiet, StopInv, PictureInv, Releasing, Using, Active
<1> QED BY <1>4, <1>5, <1>6, <1>7, <1>8, <1>9, <1>10, <1>11, <1>12, <1>13, <1>14, <1>15,
           <1>16, <1>17 DEF ClientBegins

(* A call that goes on: stopPreviewInternal() returns when the sensor is    *)
(* off, and startPreview() starts it when no picture is being taken.        *)
LEMMA ContinuesQuiet ==
  ASSUME Waits, Inv, DriverInv, Quiet, ClientContinues
  PROVE  Quiet'
<1>1. /\ pc = [t \in Threads |-> pc[t]] /\ d \in Sessions /\ hal \in HalRecords
      /\ ~hal.deferred
  BY DEF Inv, TypeOK, Quiet, StopInv
<1>2. ASSUME NEW l, pc' = [pc EXCEPT !["client"] = l]
      PROVE  /\ pc'["client"] = l
             /\ pc'["preview"] = pc["preview"] /\ pc'["picture"] = pc["picture"]
  BY <1>1, <1>2 DEF Threads
<1>3. ASSUME NEW l, pc' = [WakePreview(pc) EXCEPT !["client"] = l]
      PROVE  /\ pc'["client"] = l /\ pc'["picture"] = pc["picture"]
             /\ \/ pc'["preview"] = pc["preview"]
                \/ pc["preview"] = "p_waiting" /\ pc'["preview"] = "p_lock"
  BY <1>1, <1>3 DEF Threads, WakePreview, Signal
<1>4. CASE StopPreviewInternal
  <2>1. pc["client"] = "st_lock" /\ d' = d /\ call' = call
        /\ call \in {"stop", "take", "window"}
    BY <1>4 DEF StopPreviewInternal, At, Inv, Control
  <2>2. /\ ~hal'.running /\ hal'.deferred = hal.deferred
        /\ hal'.exitPreview = hal.exitPreview /\ hal'.capture = hal.capture
        /\ hal'.window = hal.window
    BY <1>1, <1>4 DEF StopPreviewInternal, HalRecords
  <2>3. /\ pc'["picture"] = pc["picture"]
        /\ \/ pc'["preview"] = pc["preview"]
           \/ pc["preview"] = "p_waiting" /\ pc'["preview"] = "p_lock"
        /\ \/ pc'["client"] = "st_wait"
           \/ ~hal.running /\ pc'["client"] = AfterStop
    BY <1>1, <1>2, <1>3, <1>4 DEF StopPreviewInternal, Goto
  <2>4. AfterStop \in {"idle", "wc", "sw_set"} /\ (AfterStop = "wc" => call = "take")
    BY <2>1 DEF AfterStop
  <2>5. StopInv'
    BY <2>1, <2>2, <2>3, <2>4 DEF Quiet, StopInv, Releasing, Using
  <2>6. PictureInv'
    BY <2>1, <2>2, <2>3, <2>4 DEF Quiet, PictureInv, Using, Active
  <2> QED BY <2>5, <2>6 DEF Quiet
<1>5. CASE StopWaitReturns
  <2>1. /\ pc["client"] = "st_back" /\ d' = d /\ hal' = hal /\ call' = call
        /\ call \in {"stop", "take", "window"} /\ pc' = [pc EXCEPT !["client"] = AfterStop]
    BY <1>5 DEF StopWaitReturns, Goto, At, Inv, Control
  <2>2. AfterStop \in {"idle", "wc", "sw_set"} /\ (AfterStop = "wc" => call = "take")
    BY <2>1 DEF AfterStop
  <2>3. /\ pc'["client"] = AfterStop
        /\ pc'["preview"] = pc["preview"] /\ pc'["picture"] = pc["picture"]
    BY <1>2, <2>1
  <2>4. StopInv'
    BY <2>1, <2>2, <2>3 DEF Quiet, StopInv, Releasing
  <2>5. PictureInv'
    BY <2>1, <2>2, <2>3 DEF Quiet, PictureInv
  <2> QED BY <2>4, <2>5 DEF Quiet
<1>6. ASSUME NEW l \in {"idle", "sp_lock", "tp_run", "pa_set"},
             pc["client"] \in {"sw_set", "wc", "pa_set", "cp_join"},
             pc' = [pc EXCEPT !["client"] = l], hal' = hal, call' = call,
             SameOpen(d, d'), SamePreview(d, d'),
             l # "idle" => pc["client"] = "wc" /\ ~hal.capture,
             l = "sp_lock" => call = "start", l = "tp_run" => call = "take"
      PROVE  Quiet'
  <2>1. /\ pc'["client"] = l
        /\ pc'["preview"] = pc["preview"] /\ pc'["picture"] = pc["picture"]
    BY <1>2, <1>6
  <2>2. StopInv'
    BY <1>6, <2>1 DEF Quiet, StopInv, Releasing, SameOpen, SamePreview
  <2>3. PictureInv'
    BY <1>6, <2>1 DEF Quiet, PictureInv, SameOpen, SamePreview
  <2> QED BY <2>2, <2>3 DEF Quiet
<1>7. SameOpen(d, d) /\ SamePreview(d, d)
  BY DEF SameOpen, SamePreview
<1>8. ASSUME NEW accepted, NEW r, ConfigureWindow(accepted, r)
      PROVE  Quiet'
  BY <1>1, <1>6, <1>7, <1>8 DEF ConfigureWindow, Goto, At
<1>9. CASE WaitCaptureCompletion
  <2>1. call \in {"start", "take", "params"}
    BY <1>9 DEF WaitCaptureCompletion, At, Inv, Control
  <2> QED BY <1>6, <1>7, <1>9, <2>1 DEF WaitCaptureCompletion, Goto, At, AfterWait
<1>10. CASE WaitCaptureTimeout
  BY <1>6, <1>7, <1>10 DEF WaitCaptureTimeout, Goto, At
<1>11. ASSUME NEW r, StartPreviewLocked(r)
       PROVE  Quiet'
  <2>1. pc["client"] = "sp_lock" /\ hal.window # NULL
    BY <1>11 DEF StartPreviewLocked, At, Quiet, StopInv
  <2>2. CASE hal.running
    <3>1. d' = d /\ hal' = hal /\ pc' = [pc EXCEPT !["client"] = "idle"]
      BY <1>11, <2>2 DEF StartPreviewLocked, Goto
    <3>2. /\ pc'["client"] = "idle"
          /\ pc'["preview"] = pc["preview"] /\ pc'["picture"] = pc["picture"]
      BY <1>2, <3>1
    <3> QED BY <2>1, <2>2, <3>1, <3>2 DEF Quiet, StopInv, PictureInv, Releasing
  <2>3. CASE ~hal.running
    <3>1. /\ d' = StartPreview(d, r)
          /\ hal' = [hal EXCEPT !.running = TRUE, !.deferred = FALSE]
          /\ \/ pc' = [pc EXCEPT !["client"] = "idle"]
             \/ pc' = [WakePreview(pc) EXCEPT !["client"] = "idle"]
      BY <1>11, <2>1, <2>3 DEF StartPreviewLocked
    <3>2. /\ hal'.running /\ ~hal'.deferred
          /\ hal'.exitPreview = hal.exitPreview /\ hal'.capture = hal.capture
      BY <1>1, <3>1 DEF HalRecords
    <3>3. /\ pc'["client"] = "idle" /\ pc'["picture"] = pc["picture"]
          /\ \/ pc'["preview"] = pc["preview"]
             \/ pc["preview"] = "p_waiting" /\ pc'["preview"] = "p_lock"
      BY <1>2, <1>3, <3>1
    <3>4. d'.fd = d.fd /\ (d'.started => d.started \/ d.fd)
      BY <1>1, <3>1, StartPreviewFields DEF SameOpen, SamePreview
    <3>5. StopInv'
      BY <2>1, <3>2, <3>3, <3>4 DEF Quiet, StopInv, Releasing
    <3>6. PictureInv'
      BY <2>1, <3>2, <3>3, <3>4 DEF Quiet, PictureInv
    <3> QED BY <3>5, <3>6 DEF Quiet
  <2> QED BY <2>2, <2>3
<1>12. ASSUME NEW s, SetParameters(s)
       PROVE  Quiet'
  <2>1. SameOpen(d, d') /\ SamePreview(d, d')
    BY <1>1, <1>12, SizeFields DEF SetParameters
  <2> QED BY <1>6, <1>12, <2>1 DEF SetParameters, Goto, At
<1>13. CASE RunPicture
  <2>1. /\ pc["client"] = "tp_run" /\ d' = d /\ hal' = hal
        /\ pc'["preview"] = pc["preview"] /\ ~hal.running
    BY <1>1, <1>13 DEF RunPicture, At, Threads, Quiet, StopInv
  <2>2. \/ pc'["client"] = "tp_flag" /\ pc'["picture"] = "q_cmd"
        \/ pc'["client"] = "idle" /\ pc'["picture"] = pc["picture"]
    BY <1>1, <1>13 DEF RunPicture, Threads
  <2>3. StopInv'
    BY <2>1, <2>2 DEF Quiet, StopInv, Releasing
  <2>4. PictureInv'
    BY <2>1, <2>2 DEF Quiet, PictureInv, StopInv
  <2> QED BY <2>3, <2>4 DEF Quiet
<1>14. CASE SetCaptureFlag
  <2>1. /\ pc["client"] = "tp_flag" /\ d' = d
        /\ pc' = [pc EXCEPT !["client"] = "idle"]
    BY <1>14 DEF SetCaptureFlag, Goto, At
  <2>2. /\ hal'.running = hal.running /\ hal'.deferred = hal.deferred
        /\ hal'.exitPreview = hal.exitPreview /\ hal'.capture
    BY <1>1, <1>14 DEF SetCaptureFlag, HalRecords
  <2>3. /\ pc'["client"] = "idle"
        /\ pc'["preview"] = pc["preview"] /\ pc'["picture"] = pc["picture"]
    BY <1>2, <2>1
  <2> QED BY <2>1, <2>2, <2>3 DEF Quiet, StopInv, PictureInv, Releasing
<1>15. CASE CancelJoined
  BY <1>6, <1>7, <1>15 DEF CancelJoined, Goto, At
<1>16. CASE ReleaseSignal
  <2>1. /\ pc["client"] = "rl_signal" /\ d' = d /\ hal' = hal
        /\ pc' = [WakePreview(pc) EXCEPT !["client"] = "rl_joinP"]
    BY <1>16 DEF ReleaseSignal, At
  <2>2. /\ pc'["client"] = "rl_joinP" /\ pc'["picture"] = pc["picture"]
        /\ \/ pc'["preview"] = pc["preview"]
           \/ pc["preview"] = "p_waiting" /\ pc'["preview"] = "p_lock"
    BY <1>3, <2>1
  <2> QED BY <2>1, <2>2 DEF Quiet, StopInv, PictureInv, Releasing, Using
<1>17. CASE ReleaseFocus
  <2>1. /\ pc["client"] = "rl_joinP" /\ d' = d /\ pc'["client"] = "rl_joinF"
        /\ pc'["preview"] = pc["preview"] /\ pc'["picture"] = pc["picture"]
    BY <1>1, <1>17 DEF ReleaseFocus, At, WakeFocus, Signal, Threads
  <2>2. SameFlags(hal, hal')
    BY <1>1, <1>17 DEF ReleaseFocus, HalRecords, SameFlags
  <2> QED BY <2>1, <2>2 DEF Quiet, StopInv, PictureInv, Releasing, SameFlags
<1>18. CASE ReleaseDeinit
  <2>1. /\ d' = DeinitCamera(d) /\ hal' = hal /\ pc["client"] = "rl_joinF"
        /\ pc["picture"] = "off" /\ pc' = [pc EXCEPT !["client"] = "released"]
    BY <1>18 DEF ReleaseDeinit, Goto, At
  <2>2. pc["preview"] = "off" /\ ~d.started
    BY <2>1 DEF Inv, Control, Quiet, StopInv
  <2>3. ~d'.started
    BY <1>1, <2>1, <2>2, DeinitFields
  <2>4. /\ pc'["client"] = "released" /\ pc'["preview"] = "off" /\ pc'["picture"] = "off"
    BY <1>2, <2>1, <2>2
  <2> QED BY <2>1, <2>3, <2>4 DEF Quiet, StopInv, PictureInv, Releasing, Using, Active
<1> QED BY <1>4, <1>5, <1>8, <1>9, <1>10, <1>11, <1>12, <1>13, <1>14, <1>15, <1>16, <1>17,
           <1>18 DEF ClientContinues

(* The preview thread: it has stopped the sensor when it wakes              *)
(* stopPreviewInternal(), and starts it again only in a preview.            *)
LEMMA PreviewQuiet ==
  ASSUME Waits, Inv, DriverInv, Quiet, PreviewThread
  PROVE  Quiet'
<1>1. /\ pc = [t \in Threads |-> pc[t]] /\ d \in Sessions /\ pc["preview"] # "off"
  BY DEF Inv, TypeOK, PreviewThread, PreviewCheck, PreviewStop, PreviewExit, PreviewGet,
         PreviewReset, PreviewDequeue, PreviewEnqueue, PreviewRecord, At
<1>2. ASSUME NEW l, pc' = [pc EXCEPT !["preview"] = l]
      PROVE  /\ pc'["preview"] = l
             /\ pc'["client"] = pc["client"] /\ pc'["picture"] = pc["picture"]
  BY <1>1, <1>2 DEF Threads
<1>3. ASSUME NEW l \in {"p_lock", "p_get", "p_reset", "p_frame", "p_enq", "p_rec"},
             pc["preview"] \in Using, pc["preview"] = "p_exit" => ~hal.exitPreview,
             pc' = [pc EXCEPT !["preview"] = l], hal' = hal, call' = call,
             d'.started => d'.fd,
             pc["preview"] # "p_reset" => SamePreview(d, d')
      PROVE  Quiet'
  <2>1. /\ pc'["preview"] = l
        /\ pc'["client"] = pc["client"] /\ pc'["picture"] = pc["picture"]
    BY <1>2, <1>3
  <2>2. StopInv'
    BY <1>3, <2>1 DEF Quiet, StopInv, Using, SamePreview
  <2>3. PictureInv'
    BY <1>3, <2>1 DEF Quiet, PictureInv, Using, SamePreview
  <2> QED BY <2>2, <2>3 DEF Quiet
<1>4. SamePreview(d, d) /\ (d.started => d.fd)
  BY DEF SamePreview, Quiet, StopInv
<1>5. ASSUME NEW r \in Answers("stop")
      PROVE  r = "ok" /\ StopPreview(d, r).fd = d.fd /\ ~StopPreview(d, r).started
  <2>1. r = "ok"
    BY DriverAnswers DEF Waits
  <2>2. PICK t : t = StopPreview(d, r)
    OBVIOUS
  <2>3. t.fd = d.fd /\ (d.fd => ~t.started) /\ (~d.started => t = d)
    BY <1>1, <2>1, <2>2, StopPreviewFields DEF SameOpen
  <2> QED BY <1>4, <2>1, <2>2, <2>3
<1>6. CASE PreviewCheck
  <2>1. /\ hal' = hal /\ d' = d /\ call' = call /\ pc["preview"] = "p_lock"
        /\ \/ hal.running /\ pc' = [pc EXCEPT !["preview"] = "p_exit"]
           \/ ~hal.running /\ pc' = [pc EXCEPT !["preview"] = "p_stop"]
    BY <1>6 DEF PreviewCheck, Goto, At
  <2>2. /\ pc'["client"] = pc["client"] /\ pc'["picture"] = pc["picture"]
        /\ \/ hal.running /\ pc'["preview"] = "p_exit"
           \/ ~hal.running /\ pc'["preview"] = "p_stop"
    BY <1>2, <2>1
  <2>3. StopInv'
    BY <2>1, <2>2 DEF Quiet, StopInv, Using
  <2>4. PictureInv'
    BY <2>1, <2>2 DEF Quiet, PictureInv, Using
  <2> QED BY <2>3, <2>4 DEF Quiet
<1>7. ASSUME NEW r \in Answers("stop"), PreviewStop(r)
      PROVE  Quiet'
  <2>1. /\ hal' = hal /\ call' = call /\ ~d'.started
        /\ pc' = [Signal(pc, "client", "st_wait", "st_back")
                    EXCEPT !["preview"] = "p_waiting"]
    BY <1>5, <1>7 DEF PreviewStop
  <2>2. /\ pc'["preview"] = "p_waiting" /\ pc'["picture"] = pc["picture"]
        /\ pc'["client"] = IF pc["client"] = "st_wait" THEN "st_back" ELSE pc["client"]
    BY <1>1, <2>1 DEF Signal, Threads
  <2>3. StopInv'
    BY <1>1, <2>1, <2>2 DEF Quiet, StopInv, Using, Releasing
  <2>4. PictureInv'
    BY <2>1, <2>2 DEF Quiet, PictureInv, Using
  <2> QED BY <2>3, <2>4 DEF Quiet
<1>8. ASSUME NEW r \in Answers("stop"), PreviewExit(r)
      PROVE  Quiet'
  <2>1. CASE hal.exitPreview
    <3>1. /\ hal' = hal /\ call' = call /\ ~d'.started
          /\ pc' = [pc EXCEPT !["preview"] = "off"]
      BY <1>5, <1>8, <2>1 DEF PreviewExit, Goto
    <3>2. /\ pc'["preview"] = "off"
          /\ pc'["client"] = pc["client"] /\ pc'["picture"] = pc["picture"]
      BY <1>2, <3>1
    <3> QED BY <2>1, <3>1, <3>2 DEF Quiet, StopInv, PictureInv, Using
  <2>2. CASE ~hal.exitPreview
    BY <1>3, <1>4, <1>8, <2>2 DEF PreviewExit, Goto, At, Using
  <2> QED BY <2>1, <2>2
<1>9. ASSUME NEW data, PreviewGet(data)
      PROVE  Quiet'
  BY <1>3, <1>4, <1>9 DEF PreviewGet, Goto, At, Using
<1>10. ASSUME NEW named, NEW r, PreviewReset(named, r)
       PROVE  Quiet'
  <2>1. PICK g : g = StopPreview(d, "ok")
    OBVIOUS
  <2>2. g \in Sessions /\ ~g.started
    BY <1>1, <1>4, <2>1, PreviewSessions, StopPreviewFields
  <2>3. d' = g \/ d' = StartPreview(g, r)
    BY <1>10, <2>1 DEF PreviewReset
  <2>4. d'.started => d'.fd
    BY <2>2, <2>3, StartPreviewFields DEF SameOpen, SamePreview
  <2> QED BY <1>3, <1>10, <2>4 DEF PreviewReset, Goto, At, Using
<1>11. ASSUME NEW ok, PreviewDequeue(ok)
       PROVE  Quiet'
  BY <1>3, <1>4, <1>11 DEF PreviewDequeue, Goto, At, Using
<1>12. CASE PreviewEnqueue
  BY <1>3, <1>4, <1>12 DEF PreviewEnqueue, Goto, At, Using
<1>13. ASSUME NEW known, PreviewRecord(known)
       PROVE  Quiet'
  <2>1. SamePreview(d, d') /\ d'.fd = d.fd
    BY <1>1, <1>13, RecordStep DEF SameOpen
  <2> QED BY <1>3, <1>4, <1>13, <2>1 DEF PreviewRecord, Goto, At, Using, SamePreview
<1> QED BY <1>6, <1>7, <1>8, <1>9, <1>10, <1>11, <1>12, <1>13 DEF PreviewThread

(* The other two threads: the picture thread finds the preview off.         *)
LEMMA OthersQuiet ==
  ASSUME Inv, DriverInv, Quiet, FocusThread \/ PictureThread
  PROVE  Quiet'
<1>1. pc = [t \in Threads |-> pc[t]] /\ d \in Sessions /\ hal \in HalRecords
  BY DEF Inv, TypeOK
<1>2. CASE FocusThread
  <2>1. /\ d' = d /\ hal' = hal /\ call' = call /\ pc'["picture"] = pc["picture"]
        /\ pc'["client"] = pc["client"] /\ pc'["preview"] = pc["preview"]
    BY <1>1, <1>2 DEF FocusThread, FocusWait, FocusWoken, FocusRun, Goto, Threads
  <2> QED BY <2>1 DEF Quiet, StopInv, PictureInv
<1>3. ASSUME NEW l, pc["picture"] \in Active \/ l \notin Active,
             pc' = [pc EXCEPT !["picture"] = l], call' = call,
             SameFlags(hal, hal') \/ l \notin Active,
             hal'.running = hal.running, hal'.deferred = hal.deferred,
             hal'.exitPreview = hal.exitPreview, hal'.window = hal.window,
             d'.started = d.started, d'.fd = d.fd
      PROVE  Quiet'
  <2>1. /\ pc'["picture"] = l
        /\ pc'["client"] = pc["client"] /\ pc'["preview"] = pc["preview"]
    BY <1>1, <1>3 DEF Threads
  <2>2. StopInv'
    BY <1>3, <2>1 DEF Quiet, StopInv
  <2>3. PictureInv'
    BY <1>3, <2>1 DEF Quiet, PictureInv, SameFlags
  <2> QED BY <2>2, <2>3 DEF Quiet
<1>4. SameFlags(hal, hal)
  BY DEF SameFlags
<1>5. ASSUME NEW r, PictureCommand(r)
      PROVE  Quiet'
  <2>1. d' = SetSnapshotCmd(d, r) /\ hal' = hal /\ call' = call /\ pc["picture"] = "q_cmd"
          /\ pc' = [pc EXCEPT !["picture"] = "q_image"]
    BY <1>5 DEF PictureCommand, Goto, At
  <2>2. ~d.started
    BY <2>1 DEF Quiet, PictureInv, Active
  <2>3. ~d'.started /\ d'.fd = d.fd /\ d' \in Sessions
    BY <1>1, <2>1, <2>2, SnapshotFields, SnapshotSessions DEF SameOpen
  <2>4. d'.started = d.started
    BY <1>1, <2>2, <2>3 DEF Sessions
  <2> QED BY <1>3, <1>4, <2>1, <2>3, <2>4 DEF Active
<1>6. ASSUME NEW ok \in BOOLEAN, PictureImage(ok)
      PROVE  Quiet'
  <2>1. /\ d' = GetSnapshot(d) \/ d' = GetJpeg(d, ok /\ d.node = "capture")
        /\ hal' = hal /\ call' = call /\ pc["picture"] = "q_image"
        /\ pc' = [pc EXCEPT !["picture"] = "q_end"]
    BY <1>6 DEF PictureImage, Goto, At
  <2>2. d'.started = d.started /\ d'.fd = d.fd
    <3>1. PICK o \in BOOLEAN : o = (ok /\ d.node = "capture")
      OBVIOUS
    <3>2. d' \in {GetJpeg(d, o), GetSnapshot(d)}
      BY <2>1, <3>1
    <3> QED BY <1>1, <3>2, ImageFields DEF SameOpen
  <2> QED BY <1>3, <1>4, <2>1, <2>2 DEF Active
<1>7. CASE PictureEnd
  <2>1. /\ d' = EndSnapshot(d) /\ call' = call /\ pc["picture"] = "q_end"
        /\ pc' = [pc EXCEPT !["picture"] = "q_exit"]
    BY <1>7 DEF PictureEnd, Goto, At
  <2>2. /\ hal'.running = hal.running /\ hal'.deferred = hal.deferred
        /\ hal'.exitPreview = hal.exitPreview /\ hal'.window = hal.window
    BY <1>1, <1>7 DEF PictureEnd, HalRecords
  <2>3. d'.started = d.started /\ d'.fd = d.fd
    BY <1>1, <2>1, EndFields DEF SameOpen, SamePreview
  <2> QED BY <1>3, <2>1, <2>2, <2>3 DEF Active
<1>8. CASE PictureExit
  BY <1>3, <1>4, <1>8 DEF PictureExit, Goto, At, Active
<1> QED BY <1>2, <1>5, <1>6, <1>7, <1>8 DEF PictureThread, FocusThread, Succeeds

(* So it holds in every session in which the driver stops what it is told   *)
(* to.                                                                      *)
LEMMA QuietHolds == ASSUME Waits PROVE Spec => [](Inv /\ DriverInv /\ Quiet)
<1>1. Init => Quiet
  BY DEF Init, NoSession, NewHal, Threads, Quiet, StopInv, PictureInv, Using, Active,
         Releasing
<1>2. Inv /\ DriverInv /\ Quiet /\ [Next]_vars => Quiet'
  <2> SUFFICES ASSUME Inv, DriverInv, Quiet, [Next]_vars PROVE Quiet'
    OBVIOUS
  <2>1. CASE UNCHANGED vars
    BY <2>1 DEF vars, Quiet, StopInv, PictureInv
  <2>2. ~SpuriousWakeup
    BY DEF Waits, SpuriousWakeup
  <2>3. CASE Next
    BY <2>2, <2>3, BeginsQuiet, ContinuesQuiet, PreviewQuiet, OthersQuiet DEF Next
  <2> QED BY <2>1, <2>3
<1> QED BY <1>1, <1>2, DriverHolds, PTL DEF Spec

(* stopPreview() returns only when the sensor is off and the preview thread *)
(* waits, whatever else fails.                                              *)
THEOREM StoppedIsStoppedHolds == ASSUME Waits PROVE Spec => []StoppedIsStopped
<1>1. Inv /\ Quiet => StoppedIsStopped
  BY DEF Inv, TypeOK, PreviewLabels, Quiet, StopInv, Using, Releasing, StoppedIsStopped,
         Idle, At
<1> QED BY <1>1, QuietHolds, PTL

-------------------------------------------------------------------------------
(* Handing over the first node *)

(* Only the thread itself, and the takePicture() that starts it, move the   *)
(* picture thread.                                                          *)
LEMMA PictureStays ==
  ASSUME Inv, ClientBegins \/ ClientContinues \/ PreviewThread \/ FocusThread
  PROVE  \/ pc'["picture"] = pc["picture"]
         \/ RunPicture /\ pc["picture"] = "off" /\ pc'["picture"] = "q_cmd"
<1>1. pc = [t \in Threads |-> pc[t]]
  BY DEF Inv, TypeOK
<1>2. ASSUME NEW t \in Threads \ {"picture"}, NEW l,
             \/ pc' = [pc EXCEPT ![t] = l]
             \/ pc' = [WakePreview(pc) EXCEPT ![t] = l]
             \/ pc' = [WakeFocus(pc) EXCEPT ![t] = l]
             \/ pc' = [Signal(pc, "client", "st_wait", "st_back") EXCEPT ![t] = l]
             \/ pc' = WakeFocus(pc)
      PROVE  pc'["picture"] = pc["picture"]
  BY <1>1, <1>2 DEF Threads, WakePreview, WakeFocus, Signal
<1>3. ASSUME NEW front, NEW opened, OpenCamera(front, opened)
      PROVE  pc'["picture"] = pc["picture"]
  BY <1>1, <1>3 DEF OpenCamera, Threads, Inv, ThreadsEnded, At
<1>4. {"client", "preview", "focus"} \subseteq Threads \ {"picture"}
  BY DEF Threads
<1>5. CASE ClientBegins
  BY <1>2, <1>3, <1>4, <1>5
     DEF ClientBegins, StopPreviewCall, TakePicture, StartPreviewCall, CancelPicture,
         SetParametersCall, SetPreviewWindow, StartRecording, StopRecording,
         ReleaseRecordingFrame, EnableVideoFrames, DisableVideoFrames, AutoFocus,
         ReleaseFlags, CloseCamera, Begin, Goto
<1>6. CASE ClientContinues /\ ~RunPicture
  BY <1>2, <1>4, <1>6
     DEF ClientContinues, StopPreviewInternal, StopWaitReturns, ConfigureWindow,
         WaitCaptureCompletion, WaitCaptureTimeout, StartPreviewLocked, SetParameters,
         SetCaptureFlag, CancelJoined, ReleaseSignal, ReleaseFocus, ReleaseDeinit, Goto
<1>7. CASE RunPicture
  BY <1>1, <1>2, <1>4, <1>7 DEF RunPicture, At, Threads
<1>8. CASE PreviewThread
  BY <1>2, <1>4, <1>8
     DEF PreviewThread, PreviewCheck, PreviewStop, PreviewExit, PreviewGet, PreviewReset,
         PreviewDequeue, PreviewEnqueue, PreviewRecord, Goto
<1>9. CASE FocusThread
  BY <1>2, <1>4, <1>9 DEF FocusThread, FocusWait, FocusWoken, FocusRun, Goto
<1> QED BY <1>5, <1>6, <1>7, <1>8, <1>9

(* What a step may do to the first node and its size: start a preview when  *)
(* no picture is being taken, put it off, or start the capture.             *)
NodeStep ==
  /\ d'.size = d.size \/ pc["picture"] \notin Active
  /\ \/ /\ SamePreview(d, d')
        /\ pc'["picture"] = "q_image" =>
             \/ pc["picture"] = "q_image"
             \/ pc["picture"] = "q_cmd" /\ (~d.fd \/ "snapshot" \in Faults)
        /\ pc["picture"] = "q_image" /\ d.node = "capture" =>
             pc'["picture"] = "q_image" \/ "jpeg" \in Faults
     \/ /\ d'.started /\ d'.node = "preview"
        /\ pc["picture"] \notin Active /\ pc'["picture"] \notin Active
     \/ ~d'.started /\ d'.node = "off" /\ pc'["picture"] # "q_image"
     \/ /\ ~d.started /\ ~d'.started /\ d'.node = "capture"
        /\ pc["picture"] = "q_cmd" /\ pc'["picture"] = "q_image"

(* A step that leaves the first node alone.                                 *)
LEMMA NodeSame ==
  ASSUME SamePreview(d, d'), d'.size = d.size \/ pc["picture"] \notin Active,
         pc'["picture"] = pc["picture"]
           \/ (pc["picture"] # "q_image" /\ pc'["picture"] # "q_image")
  PROVE  NodeStep
BY DEF NodeStep

(* The client's steps.                                                      *)
LEMMA ClientNodeStep ==
  ASSUME Waits, Inv, Quiet, ClientBegins \/ ClientContinues
  PROVE  NodeStep
<1>1. d \in Sessions /\ ~hal.deferred
  BY DEF Inv, TypeOK, Quiet, StopInv
<1>2. pc'["picture"] = pc["picture"]
        \/ (pc["picture"] # "q_image" /\ pc'["picture"] # "q_image")
  BY PictureStays
<1>3. ASSUME d' = d PROVE NodeStep
  BY <1>2, <1>3, NodeSame DEF SamePreview
<1>4. ASSUME NEW front \in BOOLEAN, NEW opened \in 0..2, OpenCamera(front, opened)
      PROVE  NodeStep
  <2>1. PICK e : e = InitCamera(d, front, opened)
    OBVIOUS
  <2>2. e \in Sessions /\ SamePreview(d, e)
    BY <1>1, <2>1, InitFields, OpenSessions
  <2>3. d' = SetPreviewSize(e, DefaultSize)
    BY <1>4, <2>1 DEF OpenCamera
  <2>4. SamePreview(d, d')
    BY <2>2, <2>3, SizeFields DEF SamePreview
  <2>5. pc["picture"] \notin Active
    BY <1>4 DEF OpenCamera, Inv, ThreadsEnded, At, Active
  <2> QED BY <1>2, <2>4, <2>5, NodeSame
<1>5. ASSUME NEW r, StartRecording(r) PROVE NodeStep
  <2>1. d' = StartRecord(d, r)
    BY <1>5 DEF StartRecording
  <2> QED BY <1>1, <1>2, <2>1, StartRecordFields, NodeSame
<1>6. ASSUME NEW r, StopRecording(r) PROVE NodeStep
  <2>1. d' = StopRecord(d, r)
    BY <1>6 DEF StopRecording
  <2> QED BY <1>1, <1>2, <2>1, StopRecordFields, NodeSame
<1>7. ASSUME NEW f, ReleaseRecordingFrame(f) PROVE NodeStep
  <2>1. d' = ReleaseRecordFrame(d, f.buf)
    BY <1>7 DEF ReleaseRecordingFrame
  <2> QED BY <1>1, <1>2, <2>1, ReleaseFrameFields, NodeSame
<1>8. CASE CloseCamera \/ ReleaseDeinit
  <2>1. d' = DeinitCamera(d)
    BY <1>8 DEF CloseCamera, ReleaseDeinit
  <2>2. ~d.started /\ pc["picture"] = "off"
    BY <1>8 DEF CloseCamera, ReleaseDeinit, Inv, Control, ThreadsEnded, At, Quiet, StopInv
  <2>3. \/ d' = d
        \/ ~d'.started /\ d'.node = "off" /\ d'.size = d.size
    BY <1>1, <2>1, <2>2, DeinitFields
  <2> QED BY <1>2, <1>3, <2>2, <2>3 DEF NodeStep
<1>9. CASE ClientBegins
  BY <1>3, <1>4, <1>5, <1>6, <1>7, <1>8, <1>9
     DEF ClientBegins, StopPreviewCall, TakePicture, StartPreviewCall, CancelPicture,
         SetParametersCall, SetPreviewWindow, EnableVideoFrames, DisableVideoFrames,
         AutoFocus, ReleaseFlags
<1>10. ASSUME NEW r, StartPreviewLocked(r) PROVE NodeStep
  <2>1. pc["client"] = "sp_lock" /\ (d' = d \/ d' = StartPreview(d, r))
    BY <1>10 DEF StartPreviewLocked, At
  <2>2. pc["picture"] \notin Active
    BY <2>1 DEF Quiet, PictureInv
  <2>3. pc'["picture"] = pc["picture"]
    BY <2>1, PictureStays DEF RunPicture, At
  <2> QED BY <1>1, <1>3, <2>1, <2>2, <2>3, StartPreviewFields, NodeSame DEF NodeStep
<1>11. ASSUME NEW s, SetParameters(s) PROVE NodeStep
  <2>1. pc["picture"] \notin Active /\ d' = SetPreviewSize(d, s)
    BY <1>11 DEF SetParameters, At, Quiet, PictureInv
  <2> QED BY <1>1, <1>2, <2>1, SizeFields, NodeSame
<1>12. CASE ClientContinues
  BY <1>1, <1>3, <1>8, <1>10, <1>11, <1>12
     DEF ClientContinues, StopPreviewInternal, StopWaitReturns, ConfigureWindow,
         WaitCaptureCompletion, WaitCaptureTimeout, RunPicture, SetCaptureFlag, CancelJoined,
         ReleaseSignal, ReleaseFocus
<1> QED BY <1>9, <1>12

(* The threads' steps.                                                      *)
LEMMA ThreadNodeStep ==
  ASSUME Waits, Inv, Quiet, PreviewThread \/ FocusThread \/ PictureThread
  PROVE  NodeStep
<1>1. d \in Sessions /\ pc = [t \in Threads |-> pc[t]]
  BY DEF Inv, TypeOK
<1>2. ASSUME PreviewThread \/ FocusThread
      PROVE  pc'["picture"] = pc["picture"]
  <2>2. pc'["client"] # "tp_flag" \/ pc["client"] = "tp_flag"
    BY <1>1, <1>2
       DEF PreviewThread, PreviewCheck, PreviewStop, PreviewExit, PreviewGet, PreviewReset,
           PreviewDequeue, PreviewEnqueue, PreviewRecord, FocusThread, FocusWait, FocusWoken,
           FocusRun, Goto, Signal, Threads
  <2>3. RunPicture /\ pc["picture"] = "off" => pc'["client"] = "tp_flag" /\ pc["client"] = "tp_run"
    BY <1>1 DEF RunPicture, At, Threads
  <2> QED BY <1>2, <2>2, <2>3, PictureStays
<1>3. ASSUME PreviewThread \/ FocusThread, d' = d
      PROVE  NodeStep
  BY <1>2, <1>3, NodeSame DEF SamePreview
<1>4. ASSUME NEW r, PreviewThread, d' = StopPreview(d, r) PROVE NodeStep
  <2>1. d'.size = d.size /\ (SamePreview(d, d') \/ (d.started /\ ~d'.started /\ d'.node = "off"))
    BY <1>1, <1>4, StopPreviewFields
  <2>2. d.started => pc["picture"] \notin Active
    BY DEF Quiet, PictureInv
  <2> QED BY <1>2, <1>4, <2>1, <2>2, NodeSame DEF NodeStep, Active
<1>5. ASSUME NEW named, NEW r, PreviewThread, PreviewReset(named, r) PROVE NodeStep
  <2>1. PICK g : g = StopPreview(d, "ok")
    OBVIOUS
  <2>2. CASE d' = g
    BY <1>4, <1>5, <2>1, <2>2
  <2>3. CASE d' # g
    <3>1. d' = StartPreview(g, r) /\ pc["picture"] \notin Active
      BY <1>5, <2>1, <2>3 DEF PreviewReset, At, Quiet, PictureInv, Using
    <3>2. g \in Sessions /\ g.size = d.size
      BY <1>1, <2>1, PreviewSessions, StopPreviewFields
    <3>3. SamePreview(d, g) \/ (~g.started /\ g.node = "off")
      BY <1>1, <2>1, StopPreviewFields
    <3>4. /\ d'.size = g.size
          /\ SamePreview(g, d') \/ (d'.started /\ d'.node = "preview")
      BY <3>1, <3>2, StartPreviewFields
    <3>5. pc'["picture"] \notin Active
      BY <1>2, <1>5, <3>1
    <3> QED BY <1>2, <1>5, <3>1, <3>2, <3>3, <3>4, <3>5, NodeSame
            DEF SamePreview, NodeStep, Active
  <2> QED BY <2>2, <2>3
<1>6. ASSUME NEW known, PreviewThread, PreviewRecord(known) PROVE NodeStep
  BY <1>1, <1>2, <1>6, RecordStep, NodeSame
<1>7. CASE PreviewThread
  BY <1>3, <1>4, <1>5, <1>6, <1>7
     DEF PreviewThread, PreviewCheck, PreviewStop, PreviewExit, PreviewGet, PreviewDequeue,
         PreviewEnqueue
<1>8. CASE FocusThread
  BY <1>3, <1>8 DEF FocusThread, FocusWait, FocusWoken, FocusRun
<1>9. ASSUME NEW l, pc' = [pc EXCEPT !["picture"] = l]
      PROVE  pc'["picture"] = l
  BY <1>1, <1>9 DEF Threads
<1>10. ASSUME NEW r \in Answers("snapshot"), PictureCommand(r)
       PROVE  NodeStep
  <2>1. /\ d' = SetSnapshotCmd(d, r) /\ pc["picture"] = "q_cmd" /\ pc'["picture"] = "q_image"
    BY <1>9, <1>10 DEF PictureCommand, Goto, At
  <2>2. ~d.started
    BY <2>1 DEF Quiet, PictureInv, Active
  <2>3. r = "ok" \/ "snapshot" \in Faults
    BY DriverAnswers
  <2>4. /\ d'.size = d.size /\ ~d'.started /\ d' \in Sessions
        /\ \/ d' = d /\ (r = "early" \/ ~d.fd)
           \/ d'.node = d.node /\ r = "late"
           \/ d'.node = "capture"
    BY <1>1, <2>1, <2>2, SnapshotFields, SnapshotSessions
  <2>5. d'.started = d.started
    BY <1>1, <2>2, <2>4 DEF Sessions
  <2> QED BY <2>1, <2>2, <2>3, <2>4, <2>5 DEF NodeStep, SamePreview
<1>11. ASSUME NEW ok \in Succeeds("jpeg"), PictureImage(ok)
       PROVE  NodeStep
  <2>1. /\ d' = GetSnapshot(d) \/ d' = GetJpeg(d, ok /\ d.node = "capture")
        /\ pc["picture"] = "q_image" /\ pc'["picture"] = "q_end"
    BY <1>9, <1>11 DEF PictureImage, Goto, At
  <2>2. ~d.started
    BY <2>1 DEF Quiet, PictureInv, Active
  <2>3. PICK o \in BOOLEAN : o = (ok /\ d.node = "capture")
    OBVIOUS
  <2>4. d' \in {GetJpeg(d, o), GetSnapshot(d)}
    BY <2>1, <2>3
  <2>5. /\ d'.started = d.started /\ d'.size = d.size
        /\ d'.node = "off" \/ (d'.node = d.node /\ ~o)
    BY <1>1, <2>4, ImageFields
  <2>6. ok = TRUE \/ "jpeg" \in Faults
    BY DriverAnswers
  <2> QED BY <2>1, <2>2, <2>3, <2>5, <2>6 DEF NodeStep, SamePreview
<1>12. CASE PictureEnd
  <2>1. d' = EndSnapshot(d) /\ pc["picture"] = "q_end" /\ pc'["picture"] = "q_exit"
    BY <1>9, <1>12 DEF PictureEnd, Goto, At
  <2> QED BY <1>1, <2>1, EndFields, NodeSame
<1>13. CASE PictureExit
  <2>1. d' = d /\ pc["picture"] = "q_exit" /\ pc'["picture"] = "off"
    BY <1>9, <1>13 DEF PictureExit, Goto, At
  <2> QED BY <2>1, NodeSame DEF SamePreview
<1> QED BY <1>7, <1>8, <1>10, <1>11, <1>12, <1>13 DEF PictureThread

(* m_flag_camera_start says whether the node streams a preview.             *)
NodeInv == d.started <=> d.node = "preview"

(* The node streams a capture for the picture thread only.                  *)
CaptureInv == d.node = "capture" => pc["picture"] = "q_image"

(* Every step does to the first node what NodeStep allows.                  *)
LEMMA NodeSteps == ASSUME Waits, Inv, Quiet, Next PROVE NodeStep
<1>1. ~SpuriousWakeup
  BY DEF Waits, SpuriousWakeup
<1> QED BY <1>1, ClientNodeStep, ThreadNodeStep DEF Next

(* So the flag is true to the node from one open() to the next.             *)
LEMMA NodeHolds == ASSUME Waits PROVE Spec => [](Inv /\ DriverInv /\ Quiet /\ NodeInv)
<1>1. Init => NodeInv
  BY DEF Init, NoSession, NodeInv
<1>2. Inv /\ Quiet /\ NodeInv /\ [Next]_vars => NodeInv'
  <2> SUFFICES ASSUME Inv, Quiet, NodeInv, [Next]_vars PROVE NodeInv'
    OBVIOUS
  <2>1. CASE UNCHANGED vars
    BY <2>1 DEF vars, NodeInv
  <2>2. CASE Next
    <3>1. NodeStep
      BY <2>2, NodeSteps
    <3> QED BY <3>1 DEF NodeStep, NodeInv, SamePreview
  <2> QED BY <2>1, <2>2
<1> QED BY <1>1, <1>2, QuietHolds, PTL DEF Spec

(* Where a capture that was started delivers its image, it ends before the  *)
(* picture thread goes on.                                                  *)
LEMMA CaptureHolds ==
  ASSUME Waits, "jpeg" \notin Faults
  PROVE  Spec => [](Inv /\ DriverInv /\ Quiet /\ NodeInv /\ CaptureInv)
<1>1. Init => CaptureInv
  BY DEF Init, NoSession, CaptureInv
<1>2. Inv /\ Quiet /\ CaptureInv /\ [Next]_vars => CaptureInv'
  <2> SUFFICES ASSUME Inv, Quiet, CaptureInv, [Next]_vars PROVE CaptureInv'
    OBVIOUS
  <2>1. CASE UNCHANGED vars
    BY <2>1 DEF vars, CaptureInv
  <2>2. CASE Next
    <3>1. NodeStep
      BY <2>2, NodeSteps
    <3> QED BY <3>1 DEF NodeStep, CaptureInv, SamePreview
  <2> QED BY <2>1, <2>2
<1> QED BY <1>1, <1>2, NodeHolds, PTL DEF Spec

(* No step takes the node from a preview to a capture or back without       *)
(* putting it off between, and none sets a size while the picture thread    *)
(* has the sensor.                                                          *)
THEOREM NodeHandOverHolds ==
  ASSUME Waits, "jpeg" \notin Faults
  PROVE  Spec => NodeHandOver
<1>1. Inv /\ Quiet /\ NodeInv /\ CaptureInv /\ [Next]_vars =>
        [/\ d'.node # d.node => "off" \in {d.node, d'.node}
         /\ pc["picture"] \in {"q_cmd", "q_image"} => d'.size = d.size]_vars
  <2> SUFFICES ASSUME Inv, Quiet, NodeInv, CaptureInv, Next
               PROVE  /\ d'.node # d.node => "off" \in {d.node, d'.node}
                      /\ pc["picture"] \in {"q_cmd", "q_image"} => d'.size = d.size
    OBVIOUS
  <2>1. NodeStep /\ d.node \in {"off", "preview", "capture"}
    BY NodeSteps DEF Inv, TypeOK, Sessions
  <2> QED BY <2>1 DEF NodeStep, NodeInv, CaptureInv, SamePreview, Active
<1> QED BY <1>1, CaptureHolds, PTL DEF Spec, NodeHandOver

-------------------------------------------------------------------------------
(* Opening and recording *)

Closed == {"released", "closed"}

(* A step that leaves alone what is open, the recording and its frames.     *)
Elsewhere ==
  /\ SameOpen(d, d') /\ SameRecord(d, d')
  /\ hal'.recRunning = hal.recRunning /\ held' = held
  /\ pc["client"] \in Closed <=> pc'["client"] \in Closed

(* All steps but those that open, close and record are such steps.          *)
LEMMA ClientElsewhere ==
  ASSUME Inv, ClientContinues \/ SpuriousWakeup
  PROVE  Elsewhere \/ ReleaseDeinit
<1>1. pc = [t \in Threads |-> pc[t]] /\ d \in Sessions /\ hal \in HalRecords
  BY DEF Inv, TypeOK
<1>2. ASSUME NEW l \in ClientLabels \ Closed, pc["client"] \notin Closed,
             \/ pc' = [pc EXCEPT !["client"] = l]
             \/ pc' = [WakePreview(pc) EXCEPT !["client"] = l]
             \/ pc' = [WakeFocus(pc) EXCEPT !["client"] = l],
             SameOpen(d, d'), SameRecord(d, d'),
             hal'.recRunning = hal.recRunning, held' = held
      PROVE  Elsewhere
  <2>1. pc'["client"] = l
    BY <1>1, <1>2 DEF Threads, WakePreview, WakeFocus, Signal
  <2> QED BY <1>2, <2>1 DEF Elsewhere
<1>3. SameOpen(d, d) /\ SameRecord(d, d)
  BY DEF SameOpen, SameRecord
<1>4. {"idle", "wc", "sw_set", "st_wait", "st_back", "sp_lock", "tp_run", "pa_set",
       "rl_joinP", "rl_joinF"} \subseteq ClientLabels \ Closed
  BY DEF ClientLabels, Resting, Closed
<1>5. /\ pc["client"] \in {"st_lock", "st_back"} => AfterStop \in {"idle", "wc", "sw_set"}
      /\ pc["client"] = "wc" => AfterWait \in {"sp_lock", "tp_run", "pa_set"}
  BY DEF Inv, Control, AfterStop, AfterWait
<1>6. CASE StopPreviewInternal
  <2>1. hal'.recRunning = hal.recRunning
    BY <1>1, <1>6 DEF StopPreviewInternal, HalRecords
  <2> QED BY <1>2, <1>3, <1>4, <1>5, <1>6, <2>1 DEF StopPreviewInternal, Goto, At, Closed
<1>7. CASE StopWaitReturns
  BY <1>2, <1>3, <1>4, <1>5, <1>7 DEF StopWaitReturns, Goto, At, Closed
<1>8. CASE SpuriousWakeup
  BY <1>2, <1>3, <1>4, <1>8 DEF SpuriousWakeup, Goto, At, Closed
<1>9. ASSUME NEW accepted, NEW r, ConfigureWindow(accepted, r)
      PROVE  Elsewhere
  <2>1. hal'.recRunning = hal.recRunning
    BY <1>1, <1>9 DEF ConfigureWindow, HalRecords
  <2>2. SameOpen(d, d') /\ SameRecord(d, d')
    BY <1>1, <1>3, <1>9, StartPreviewFields DEF ConfigureWindow
  <2> QED BY <1>2, <1>4, <1>9, <2>1, <2>2 DEF ConfigureWindow, Goto, At, Closed
<1>10. CASE WaitCaptureCompletion
  BY <1>2, <1>3, <1>4, <1>5, <1>10 DEF WaitCaptureCompletion, Goto, At, Closed
<1>11. CASE WaitCaptureTimeout
  BY <1>2, <1>3, <1>4, <1>11 DEF WaitCaptureTimeout, Goto, At, Closed
<1>12. ASSUME NEW r, StartPreviewLocked(r)
       PROVE  Elsewhere
  <2>1. hal'.recRunning = hal.recRunning
    <3>1. PICK k \in BOOLEAN : k = (hal.window = NULL)
      OBVIOUS
    <3>2. hal' = hal \/ hal' = [hal EXCEPT !.running = TRUE, !.deferred = k]
      BY <1>12, <3>1 DEF StartPreviewLocked
    <3> QED BY <1>1, <3>2 DEF HalRecords
  <2>2. SameOpen(d, d') /\ SameRecord(d, d')
    BY <1>1, <1>3, <1>12, StartPreviewFields DEF StartPreviewLocked
  <2>3. \/ pc' = [pc EXCEPT !["client"] = "idle"]
        \/ pc' = [WakePreview(pc) EXCEPT !["client"] = "idle"]
    BY <1>12 DEF StartPreviewLocked, Goto
  <2>4. pc["client"] \notin Closed /\ held' = held
    BY <1>12 DEF StartPreviewLocked, At, Closed
  <2> QED BY <1>2, <1>4, <2>1, <2>2, <2>3, <2>4
<1>13. ASSUME NEW s, SetParameters(s)
       PROVE  Elsewhere
  <2>1. SameOpen(d, d') /\ SameRecord(d, d')
    BY <1>1, <1>13, SizeFields DEF SetParameters
  <2> QED BY <1>2, <1>4, <1>13, <2>1 DEF SetParameters, Goto, At, Closed
<1>14. CASE RunPicture
  <2>1. pc["client"] = "tp_run" /\ pc'["client"] \in {"tp_flag", "idle"}
    BY <1>1, <1>14 DEF RunPicture, At, Threads
  <2> QED BY <1>3, <1>14, <2>1 DEF Elsewhere, RunPicture, Closed
<1>15. CASE SetCaptureFlag
  <2>1. hal'.recRunning = hal.recRunning
    BY <1>1, <1>15 DEF SetCaptureFlag, HalRecords
  <2> QED BY <1>2, <1>3, <1>4, <1>15, <2>1 DEF SetCaptureFlag, Goto, At, Closed
<1>16. CASE CancelJoined
  BY <1>2, <1>3, <1>4, <1>16 DEF CancelJoined, Goto, At, Closed
<1>17. CASE ReleaseSignal
  BY <1>2, <1>3, <1>4, <1>17 DEF ReleaseSignal, At, Closed
<1>18. CASE ReleaseFocus
  <2>1. hal'.recRunning = hal.recRunning
    BY <1>1, <1>18 DEF ReleaseFocus, HalRecords
  <2> QED BY <1>2, <1>3, <1>4, <1>18, <2>1 DEF ReleaseFocus, At, Closed
<1> QED BY <1>6, <1>7, <1>8, <1>9, <1>10, <1>11, <1>12, <1>13, <1>14, <1>15, <1>16, <1>17,
           <1>18 DEF ClientContinues

(* Of the client's new calls, too.                                          *)
LEMMA BeginsElsewhere ==
  ASSUME Inv, NEW w,
         \/ StopPreviewCall \/ TakePicture \/ StartPreviewCall \/ CancelPicture
         \/ SetParametersCall \/ SetPreviewWindow(w) \/ EnableVideoFrames \/ AutoFocus
         \/ ReleaseFlags
  PROVE  Elsewhere
<1>1. pc = [t \in Threads |-> pc[t]] /\ hal \in HalRecords
  BY DEF Inv, TypeOK
<1>2. SameOpen(d, d) /\ SameRecord(d, d)
  BY DEF SameOpen, SameRecord
<1>3. d' = d /\ held' = held /\ pc["client"] = "idle"
  BY DEF StopPreviewCall, TakePicture, StartPreviewCall, CancelPicture, SetParametersCall,
         SetPreviewWindow, EnableVideoFrames, AutoFocus, ReleaseFlags, Begin, At
<1>4. hal'.recRunning = hal.recRunning
  BY <1>1 DEF StopPreviewCall, TakePicture, StartPreviewCall, CancelPicture,
         SetParametersCall, SetPreviewWindow, EnableVideoFrames, AutoFocus, ReleaseFlags,
         HalRecords
<1>5. pc'["client"] \in {"idle", "st_lock", "wc", "cp_join", "rl_signal"}
  <2>1. ASSUME NEW l, pc' = [pc EXCEPT !["client"] = l]
        PROVE  pc'["client"] = l
    BY <1>1, <2>1 DEF Threads
  <2>2. CASE AutoFocus
    BY <1>1, <1>3, <2>2 DEF AutoFocus, WakeFocus, Signal, Threads
  <2>3. CASE ~AutoFocus
    BY <2>1, <2>3 DEF StopPreviewCall, TakePicture, StartPreviewCall, CancelPicture,
         SetParametersCall, SetPreviewWindow, EnableVideoFrames, ReleaseFlags, Begin, Goto
  <2> QED BY <2>2, <2>3
<1> QED BY <1>2, <1>3, <1>4, <1>5 DEF Elsewhere, Closed

(* And of the threads, which leave the client's label alone but for the     *)
(* signal at the end of the preview.                                        *)
LEMMA ThreadElsewhere ==
  ASSUME Inv, PreviewThread \/ FocusThread \/ PictureThread
  PROVE  \/ Elsewhere
         \/ \E known \in Succeeds("address") : PreviewRecord(known)
<1>1. pc = [t \in Threads |-> pc[t]] /\ d \in Sessions /\ hal \in HalRecords
  BY DEF Inv, TypeOK
<1>2. pc["client"] \in Closed <=> pc'["client"] \in Closed
  <2>1. ASSUME NEW t \in Threads \ {"client"}, NEW l,
               \/ pc' = [pc EXCEPT ![t] = l]
               \/ pc' = [Signal(pc, "client", "st_wait", "st_back") EXCEPT ![t] = l]
        PROVE  pc["client"] \in Closed <=> pc'["client"] \in Closed
    BY <1>1, <2>1 DEF Signal, Threads, Closed
  <2>2. {"preview", "focus", "picture"} \subseteq Threads \ {"client"}
    BY DEF Threads
  <2>3. CASE PreviewThread
    BY <2>1, <2>2, <2>3
       DEF PreviewThread, PreviewCheck, PreviewStop, PreviewExit, PreviewGet, PreviewReset,
           PreviewDequeue, PreviewEnqueue, PreviewRecord, Goto
  <2>4. CASE FocusThread \/ PictureThread
    BY <2>1, <2>2, <2>4
       DEF FocusThread, FocusWait, FocusWoken, FocusRun, PictureThread, PictureCommand,
           PictureImage, PictureEnd, PictureExit, Goto
  <2> QED BY <2>3, <2>4
<1>3. ASSUME SameOpen(d, d'), SameRecord(d, d'), hal'.recRunning = hal.recRunning,
             held' = held
      PROVE  Elsewhere
  BY <1>2, <1>3 DEF Elsewhere
<1>4. SameOpen(d, d) /\ SameRecord(d, d)
  BY DEF SameOpen, SameRecord
<1>5. ASSUME NEW r, d' = StopPreview(d, r), hal' = hal, held' = held
      PROVE  Elsewhere
  BY <1>1, <1>3, <1>5, StopPreviewFields
<1>6. ASSUME NEW named, NEW r, PreviewReset(named, r)
      PROVE  Elsewhere
  <2>1. PICK g : g = StopPreview(d, "ok")
    OBVIOUS
  <2>2. g \in Sessions /\ SameOpen(d, g) /\ SameRecord(d, g)
    BY <1>1, <2>1, StopPreviewFields, PreviewSessions
  <2>3. d' = g \/ d' = StartPreview(g, r)
    BY <1>6, <2>1 DEF PreviewReset
  <2>4. SameOpen(d, d') /\ SameRecord(d, d')
    BY <2>2, <2>3, StartPreviewFields DEF SameOpen, SameRecord
  <2> QED BY <1>3, <1>6, <2>4 DEF PreviewReset
<1>7. ASSUME NEW r, PictureCommand(r)
      PROVE  Elsewhere
  BY <1>1, <1>3, <1>7, SnapshotFields DEF PictureCommand
<1>8. ASSUME NEW ok, PictureImage(ok)
      PROVE  Elsewhere
  <2>1. PICK o \in BOOLEAN : o = (ok /\ d.node = "capture")
    OBVIOUS
  <2>2. d' \in {GetJpeg(d, o), GetSnapshot(d)}
    BY <1>8, <2>1 DEF PictureImage
  <2> QED BY <1>1, <1>3, <1>8, <2>2, ImageFields DEF PictureImage
<1>9. CASE PictureEnd
  <2>1. hal'.recRunning = hal.recRunning
    BY <1>1, <1>9 DEF PictureEnd, HalRecords
  <2> QED BY <1>1, <1>3, <1>9, <2>1, EndFields DEF PictureEnd
<1>10. CASE PreviewThread
  BY <1>3, <1>4, <1>5, <1>6, <1>10
     DEF PreviewThread, PreviewCheck, PreviewStop, PreviewExit, PreviewGet, PreviewDequeue,
         PreviewEnqueue
<1>11. CASE FocusThread \/ PictureThread
  BY <1>3, <1>4, <1>7, <1>8, <1>9, <1>11
     DEF FocusThread, FocusWait, FocusWoken, FocusRun, PictureThread, PictureExit
<1> QED BY <1>10, <1>11

(* What a step may do to what is open and to the recording.                 *)
LEMMA RecordSteps ==
  ASSUME Inv, Next
  PROVE  \/ Elsewhere
         \/ \E front \in BOOLEAN : \E opened \in IF "init" \in Faults THEN 0..2 ELSE {2} :
              OpenCamera(front, opened)
         \/ \E r \in Answers("record") : StartRecording(r)
         \/ \E r \in Answers("endrecord") : StopRecording(r)
         \/ \E f \in held : ReleaseRecordingFrame(f)
         \/ DisableVideoFrames
         \/ \E known \in Succeeds("address") : PreviewRecord(known)
         \/ ReleaseDeinit \/ CloseCamera
<1>1. CASE ClientBegins
  BY <1>1, BeginsElsewhere DEF ClientBegins
<1> QED BY <1>1, ClientElsewhere, ThreadElsewhere DEF Next

(* The client's label at the steps that open and close.                     *)
LEMMA ClosedLabels ==
  ASSUME Inv
  PROVE  /\ \A front, opened : OpenCamera(front, opened) =>
              pc["client"] = "closed" /\ pc'["client"] = "idle"
         /\ ReleaseDeinit => pc["client"] = "rl_joinF" /\ pc'["client"] = "released"
         /\ CloseCamera => pc["client"] = "released" /\ pc'["client"] = "closed"
         /\ \A r : StartRecording(r) \/ StopRecording(r) \/ ReleaseRecordingFrame(r)
                     \/ DisableVideoFrames =>
              pc["client"] = "idle" /\ pc'["client"] = "idle"
         /\ \A known : PreviewRecord(known) => pc'["client"] = pc["client"]
<1>1. pc = [t \in Threads |-> pc[t]]
  BY DEF Inv, TypeOK
<1> QED
  BY <1>1 DEF OpenCamera, ReleaseDeinit, CloseCamera, StartRecording, StopRecording,
       ReleaseRecordingFrame, DisableVideoFrames, PreviewRecord, Begin, Goto, At, Threads

(* Opening changes neither what streams nor what is mapped.                 *)
LEMMA OpenFields ==
  ASSUME d \in Sessions, NEW front \in BOOLEAN, NEW opened \in 0..2,
         OpenCamera(front, opened)
  PROVE  /\ SamePreview(d, d') /\ SameRecord(d, d') /\ d'.mapped = d.mapped
         /\ d'.init = (d.init \/ opened = 2)
<1>1. PICK e : e = InitCamera(d, front, opened)
  OBVIOUS
<1>2. /\ e \in Sessions
      /\ SamePreview(d, e) /\ SameRecord(d, e) /\ e.mapped = d.mapped
      /\ \/ d.init /\ e = d
         \/ ~d.init /\ e.init = (opened = 2)
  BY <1>1, InitFields, OpenSessions
<1>3. e.init = (d.init \/ opened = 2)
  BY <1>2 DEF Sessions
<1>4. d' = SetPreviewSize(e, DefaultSize)
  BY <1>1 DEF OpenCamera
<1> QED BY <1>2, <1>3, <1>4, SizeFields DEF SamePreview, SameRecord, SameOpen

(* Between open() and release() both nodes are open.                        *)
OpenInv == pc["client"] \notin Closed => d.init

(* So it is when the nodes can be opened.                                   *)
LEMMA OpenHolds == ASSUME "init" \notin Faults PROVE Spec => [](Inv /\ DriverInv /\ OpenInv)
<1>1. Init => OpenInv
  BY DEF Init, Threads, OpenInv, Closed
<1>2. Inv /\ OpenInv /\ [Next]_vars => OpenInv'
  <2> SUFFICES ASSUME Inv, OpenInv, [Next]_vars PROVE OpenInv'
    OBVIOUS
  <2> d \in Sessions
    BY DEF Inv, TypeOK
  <2>1. CASE UNCHANGED vars
    BY <2>1 DEF vars, OpenInv
  <2>2. CASE Elsewhere
    BY <2>2 DEF Elsewhere, SameOpen, OpenInv
  <2>3. ASSUME NEW front \in BOOLEAN, OpenCamera(front, 2)
        PROVE  OpenInv'
    <3>1. PICK opened \in 0..2 : opened = 2
      OBVIOUS
    <3>2. d'.init = (d.init \/ opened = 2)
      BY <2>3, <3>1, OpenFields
    <3> QED BY <3>1, <3>2 DEF OpenInv
  <2>4. ASSUME NEW r, StartRecording(r) \/ StopRecording(r) PROVE OpenInv'
    <3>1. d' = StartRecord(d, r) \/ d' = StopRecord(d, r)
      BY <2>4 DEF StartRecording, StopRecording
    <3>2. SameOpen(d, d')
      BY <3>1, StartRecordFields, StopRecordFields
    <3>3. pc["client"] = "idle"
      BY <2>4, ClosedLabels
    <3> QED BY <3>2, <3>3 DEF SameOpen, OpenInv, Closed
  <2>5. ASSUME NEW f, ReleaseRecordingFrame(f) PROVE OpenInv'
    <3>1. SameOpen(d, d')
      BY <2>5, ReleaseFrameFields DEF ReleaseRecordingFrame
    <3>2. pc["client"] = "idle"
      BY <2>5, ClosedLabels
    <3> QED BY <3>1, <3>2 DEF SameOpen, OpenInv, Closed
  <2>6. CASE DisableVideoFrames
    <3>1. d' = d /\ pc["client"] = "idle"
      BY <2>6, ClosedLabels DEF DisableVideoFrames
    <3> QED BY <3>1 DEF OpenInv, Closed
  <2>7. ASSUME NEW known, PreviewRecord(known) PROVE OpenInv'
    <3>1. SameOpen(d, d')
      BY <2>7, RecordStep
    <3>2. pc'["client"] = pc["client"]
      BY <2>7, ClosedLabels
    <3> QED BY <3>1, <3>2 DEF SameOpen, OpenInv
  <2>8. CASE ReleaseDeinit \/ CloseCamera
    BY <2>8, ClosedLabels DEF OpenInv, Closed
  <2>9. ASSUME Next,
               NEW front \in BOOLEAN, NEW opened \in IF "init" \in Faults THEN 0..2 ELSE {2},
               OpenCamera(front, opened)
        PROVE  OpenInv'
    BY <2>3, <2>9
  <2> QED BY <2>1, <2>2, <2>4, <2>5, <2>6, <2>7, <2>8, <2>9, RecordSteps
<1> QED BY <1>1, <1>2, DriverHolds, PTL DEF Spec

(* While the picture thread waits for its image, the capture streams.       *)
THEOREM CaptureUndisturbedHolds ==
  ASSUME Waits, {"init", "snapshot"} \cap Faults = {}
  PROVE  Spec => []CaptureUndisturbed
<1>1. Init => CaptureUndisturbed
  BY DEF Init, Threads, CaptureUndisturbed, At
<1>2. Inv /\ DriverInv /\ Quiet /\ OpenInv /\ CaptureUndisturbed /\ [Next]_vars =>
        CaptureUndisturbed'
  <2> SUFFICES ASSUME Inv, DriverInv, Quiet, OpenInv, CaptureUndisturbed, [Next]_vars
               PROVE  CaptureUndisturbed'
    OBVIOUS
  <2>1. CASE UNCHANGED vars
    BY <2>1 DEF vars, CaptureUndisturbed, At
  <2>2. CASE Next
    <3>1. NodeStep
      BY <2>2, NodeSteps
    <3>2. pc["picture"] = "q_cmd" => d.fd
      BY DEF Inv, ThreadsEnded, At, OpenInv, Closed, DriverInv
    <3> QED BY <3>1, <3>2 DEF NodeStep, CaptureUndisturbed, At, SamePreview, Active
  <2> QED BY <2>1, <2>2
<1>3. Spec => [](Inv /\ DriverInv /\ OpenInv)
  BY OpenHolds
<1> QED BY <1>1, <1>2, <1>3, QuietHolds, PTL DEF Spec

(* After release() only a close(), and then an open(), follows.             *)
LEMMA ClosedSteps ==
  ASSUME Inv, Next, pc["client"] \in Closed
  PROVE  CloseCamera \/ \E front, opened : OpenCamera(front, opened)
<1>1. pc["preview"] = "off" /\ pc["focus"] = "off" /\ pc["picture"] = "off"
  BY DEF Inv, ThreadsEnded, At, Closed
<1>2. pc["client"] = "released" \/ pc["client"] = "closed"
  BY DEF Closed
<1>3. ~PreviewThread
  BY <1>1 DEF PreviewThread, PreviewCheck, PreviewStop, PreviewExit, PreviewGet, PreviewReset,
         PreviewDequeue, PreviewEnqueue, PreviewRecord, At
<1>4. ~FocusThread /\ ~PictureThread
  BY <1>1 DEF FocusThread, FocusWait, FocusWoken, FocusRun, PictureThread, PictureCommand,
         PictureImage, PictureEnd, PictureExit, At
<1>5. ~ClientContinues
  BY <1>2 DEF ClientContinues, StopPreviewInternal, StopWaitReturns, ConfigureWindow,
         WaitCaptureCompletion, WaitCaptureTimeout, StartPreviewLocked, SetParameters,
         RunPicture, SetCaptureFlag, CancelJoined, ReleaseSignal, ReleaseFocus,
         ReleaseDeinit, At
<1>6. ~SpuriousWakeup
  BY <1>2 DEF SpuriousWakeup, At
<1>7. ClientBegins
  BY <1>3, <1>4, <1>5, <1>6 DEF Next
<1> QED
  BY <1>2, <1>7 DEF ClientBegins, StopPreviewCall, TakePicture, StartPreviewCall,
       CancelPicture, SetParametersCall, SetPreviewWindow, StartRecording, StopRecording,
       ReleaseRecordingFrame, EnableVideoFrames, DisableVideoFrames, AutoFocus,
       ReleaseFlags, Begin, At

(* Only the end of release() gets there.                                    *)
LEMMA ClosingSteps ==
  ASSUME Inv, Next, pc["client"] \notin Closed, pc'["client"] \in Closed
  PROVE  ReleaseDeinit
<1>1. ~Elsewhere
  BY DEF Elsewhere
<1>2. "idle" \notin Closed
  BY DEF Closed
<1>3. CASE CloseCamera
  BY <1>3, ClosedLabels DEF Closed
<1> QED BY <1>1, <1>2, <1>3, RecordSteps, ClosedLabels

(* After release() the session is not initialised.                          *)
ClosedInv == pc["client"] \in Closed => ~d.init

(* So it is, whatever fails.                                                *)
LEMMA ClosedHolds == Spec => [](Inv /\ DriverInv /\ ClosedInv)
<1>1. Init => ClosedInv
  BY DEF Init, NoSession, ClosedInv
<1>2. Inv /\ ClosedInv /\ [Next]_vars => ClosedInv'
  <2> SUFFICES ASSUME Inv, ClosedInv, [Next]_vars PROVE ClosedInv'
    OBVIOUS
  <2>1. CASE UNCHANGED vars
    BY <2>1 DEF vars, ClosedInv
  <2>2. CASE CloseCamera \/ ReleaseDeinit
    <3>1. d' = DeinitCamera(d) /\ d \in Sessions
      BY <2>2 DEF CloseCamera, ReleaseDeinit, Inv, TypeOK
    <3>2. ~d'.init
      BY <3>1, DeinitFields
    <3> QED BY <3>2 DEF ClosedInv
  <2>3. CASE \E front, opened : OpenCamera(front, opened)
    BY <2>3, ClosedLabels DEF ClosedInv, Closed
  <2> QED BY <2>1, <2>2, <2>3, ClosedSteps, ClosingSteps DEF ClosedInv
<1> QED BY <1>1, <1>2, DriverHolds, PTL DEF Spec

(* After release() nothing streams and nothing is left of a recording or a  *)
(* capture: always when the nodes could be opened, because the close ends   *)
(* what streams; and when they could not, where stopping and taking a       *)
(* picture end it before.                                                   *)
THEOREM ClosedQuietHolds ==
  ASSUME "init" \notin Faults \/ (Waits /\ "jpeg" \notin Faults)
  PROVE  Spec => []ClosedQuiet
<1> DEFINE NodeOff == pc["client"] \in Closed => d.node = "off"
<1>1. Spec => []NodeOff
  <2>1. CASE "init" \notin Faults
    <3>1. Init => NodeOff
      BY DEF Init, NoSession
    <3>2. Inv /\ OpenInv /\ ClosedInv /\ NodeOff /\ [Next]_vars => NodeOff'
      <4> SUFFICES ASSUME Inv, OpenInv, ClosedInv, NodeOff, [Next]_vars, pc'["client"] \in Closed
                   PROVE  d'.node = "off"
        OBVIOUS
      <4>1. CASE UNCHANGED vars
        BY <4>1 DEF vars
      <4>2. CASE CloseCamera \/ ReleaseDeinit
        <5>1. d' = DeinitCamera(d) /\ d \in Sessions
          BY <4>2 DEF CloseCamera, ReleaseDeinit, Inv, TypeOK
        <5>2. d.init \/ d.node = "off"
          BY DEF OpenInv
        <5> QED BY <5>1, <5>2, DeinitFields
      <4>3. CASE \E front, opened : OpenCamera(front, opened)
        BY <4>3, ClosedLabels DEF Closed
      <4> QED BY <4>1, <4>2, <4>3, ClosedSteps, ClosingSteps
    <3>3. Spec => [](Inv /\ DriverInv /\ OpenInv)
      BY <2>1, OpenHolds
    <3> QED BY <3>1, <3>2, <3>3, ClosedHolds, PTL DEF Spec
  <2>2. CASE Waits /\ "jpeg" \notin Faults
    <3>1. Inv /\ Quiet /\ NodeInv /\ CaptureInv => NodeOff
      BY DEF Inv, TypeOK, Sessions, ThreadsEnded, At, Closed, Quiet, StopInv, NodeInv,
             CaptureInv
    <3>2. Spec => [](Inv /\ DriverInv /\ Quiet /\ NodeInv /\ CaptureInv)
      BY <2>2, CaptureHolds
    <3> QED BY <3>1, <3>2, PTL
  <2> QED BY <2>1, <2>2
<1>2. Inv /\ DriverInv /\ ClosedInv /\ NodeOff => ClosedQuiet
  BY DEF Inv, ThreadsEnded, At, Closed, DriverInv, ClosedInv, ClosedQuiet
<1> QED BY <1>1, <1>2, ClosedHolds, PTL

(* mRecordRunning agrees with m_flag_record_start while the camera is open, *)
(* and no recording outlives a release().                                   *)
RecordInv ==
  /\ pc["client"] \in Closed => ~d.recording
  /\ pc["client"] \notin Closed => (hal.recRunning <=> d.recording)

(* So it is when the driver ends a recording that it is told to.            *)
LEMMA RecordNext ==
  ASSUME "endrecord" \notin Faults, Inv, DriverInv, RecordInv, [Next]_vars
  PROVE  RecordInv'
<1> d \in Sessions /\ hal \in HalRecords
  BY DEF Inv, TypeOK
<1>1. CASE UNCHANGED vars
  BY <1>1 DEF vars, RecordInv
<1>2. CASE Elsewhere
  BY <1>2 DEF Elsewhere, SameRecord, RecordInv
<1>3. ASSUME NEW front \in BOOLEAN, NEW opened \in 0..2, OpenCamera(front, opened)
      PROVE  RecordInv'
  <2>1. SameRecord(d, d') /\ pc["client"] = "closed"
    BY <1>3, OpenFields, ClosedLabels
  <2>2. ~hal'.recRunning
    BY <1>3 DEF OpenCamera, NewHal
  <2> QED BY <2>1, <2>2 DEF SameRecord, RecordInv, Closed
<1>4. ASSUME NEW r \in Answers("record"), StartRecording(r) PROVE RecordInv'
  <2>1. /\ d' = StartRecord(d, r)
        /\ pc["client"] = "idle" /\ pc'["client"] = "idle" /\ ~hal.recRunning
    BY <1>4, ClosedLabels DEF StartRecording
  <2>2. hal'.recRunning <=> (d.recording \/ (d.fd2 /\ r = "ok"))
    <3>1. PICK ok \in BOOLEAN : ok = StartRecordOk(d, r)
      BY DEF StartRecordOk, Sessions
    <3>2. hal' = [hal EXCEPT !.recRunning = ok]
      BY <1>4, <3>1 DEF StartRecording
    <3> QED BY <2>1, <3>1, <3>2 DEF StartRecordOk, HalRecords
  <2>3. \/ SameRecord(d, d') /\ (d.recording \/ ~d.fd2 \/ r = "early")
        \/ d.fd2 /\ d'.recording = (r = "ok")
    BY <2>1, StartRecordFields
  <2> QED BY <2>1, <2>2, <2>3 DEF SameRecord, RecordInv, DriverInv, Closed
<1>5. ASSUME NEW r \in Answers("endrecord"), StopRecording(r) PROVE RecordInv'
  <2>1. /\ d' = StopRecord(d, r) /\ r = "ok"
        /\ pc["client"] = "idle" /\ pc'["client"] = "idle" /\ hal.recRunning
    BY <1>5, DriverAnswers, ClosedLabels DEF StopRecording
  <2>2. d.recording /\ d.fd2
    BY <2>1 DEF RecordInv, DriverInv, Closed
  <2>3. ~hal'.recRunning
    <3>1. PICK ok \in BOOLEAN : ok = ~StopRecordOk(d, r)
      OBVIOUS
    <3>2. hal' = [hal EXCEPT !.recRunning = ok]
      BY <1>5, <3>1 DEF StopRecording
    <3> QED BY <2>1, <2>2, <3>1, <3>2 DEF StopRecordOk, HalRecords
  <2>4. ~d'.recording
    BY <2>1, <2>2, StopRecordFields
  <2> QED BY <2>1, <2>3, <2>4 DEF RecordInv, Closed
<1>6. ASSUME NEW f, ReleaseRecordingFrame(f) PROVE RecordInv'
  <2>1. d' = ReleaseRecordFrame(d, f.buf) /\ hal' = hal
          /\ pc["client"] = "idle" /\ pc'["client"] = "idle"
    BY <1>6, ClosedLabels DEF ReleaseRecordingFrame
  <2>2. d'.recording = d.recording
    BY <2>1, ReleaseFrameFields
  <2> QED BY <2>1, <2>2 DEF RecordInv
<1>7. CASE DisableVideoFrames
  <2>1. /\ d' = d /\ pc["client"] = "idle" /\ pc'["client"] = "idle"
        /\ hal'.recRunning = hal.recRunning
    BY <1>7, ClosedLabels DEF DisableVideoFrames, HalRecords
  <2> QED BY <2>1 DEF RecordInv
<1>8. ASSUME NEW known, PreviewRecord(known) PROVE RecordInv'
  <2>1. hal' = hal /\ pc'["client"] = pc["client"]
    BY <1>8, ClosedLabels DEF PreviewRecord
  <2>2. d'.recording = d.recording
    BY <1>8, RecordStep
  <2> QED BY <2>1, <2>2 DEF RecordInv
<1>9. CASE ReleaseDeinit \/ CloseCamera
  <2>1. d' = DeinitCamera(d) /\ pc'["client"] \in Closed
    BY <1>9, ClosedLabels DEF ReleaseDeinit, CloseCamera, Closed
  <2>2. ~d'.recording
    BY <2>1, DeinitFields DEF DriverInv
  <2> QED BY <2>1, <2>2 DEF RecordInv
<1>10. CASE Next
  BY <1>2, <1>3, <1>4, <1>5, <1>6, <1>7, <1>8, <1>9, <1>10, RecordSteps
<1> QED BY <1>1, <1>10

(* It holds in every such session.                                          *)
LEMMA RecordHolds ==
  ASSUME "endrecord" \notin Faults
  PROVE  Spec => [](Inv /\ DriverInv /\ RecordInv)
<1>1. Init => RecordInv
  BY DEF Init, NoSession, NewHal, Threads, RecordInv, Closed
<1> QED BY <1>1, RecordNext, DriverHolds, PTL DEF Spec

(* The flags of the singleton are true to the nodes, and to the flag of the *)
(* HAL.                                                                     *)
THEOREM FlagsAgreeHolds ==
  ASSUME Waits, "endrecord" \notin Faults
  PROVE  Spec => []FlagsAgree
<1>1. NodeInv /\ RecordInv => FlagsAgree
  BY DEF NodeInv, RecordInv, Closed, FlagsAgree, Idle, At
<1>2. Spec => [](Inv /\ DriverInv /\ RecordInv)
  BY RecordHolds
<1> QED BY <1>1, <1>2, NodeHolds, PTL

(* The frames of a recording are the client's or the driver's; the second   *)
(* node streams for a recording only.                                       *)
HeldInv ==
  /\ d.node2 => d.recording
  /\ pc["client"] \notin Closed /\ ~d.recording => held = {}
  /\ \A f \in held : ~f.old
  /\ d.recording => {f.buf : f \in held} = Buffers \ d.queue

(* They are when the client keeps to the rules of the camera service.       *)
LEMMA HeldNext ==
  ASSUME Patient, {"record", "endrecord", "address"} \cap Faults = {},
         Inv, DriverInv, RecordInv, HeldInv, [Next]_vars
  PROVE  HeldInv'
<1> d \in Sessions /\ hal \in HalRecords /\ held \subseteq [buf : Buffers, old : BOOLEAN]
  BY DEF Inv, TypeOK
<1>1. CASE UNCHANGED vars
  BY <1>1 DEF vars, HeldInv
<1>2. CASE Elsewhere
  BY <1>2 DEF Elsewhere, SameRecord, HeldInv
<1>3. ASSUME NEW front \in BOOLEAN, NEW opened \in 0..2, OpenCamera(front, opened)
      PROVE  HeldInv'
  <2>1. SameRecord(d, d') /\ pc["client"] = "closed" /\ held' = {}
    BY <1>3, OpenFields, ClosedLabels DEF OpenCamera
  <2> QED BY <2>1 DEF SameRecord, RecordInv, Closed, HeldInv
<1>4. ASSUME NEW r \in Answers("record"), StartRecording(r) PROVE HeldInv'
  <2>1. /\ d' = StartRecord(d, r) /\ pc["client"] = "idle" /\ ~hal.recRunning
        /\ held' = {[f EXCEPT !.old = TRUE] : f \in held}
    BY <1>4, ClosedLabels DEF StartRecording
  <2>2. ~d.recording /\ held = {}
    BY <2>1 DEF RecordInv, HeldInv, Closed
  <2>3. held' = {}
    BY <2>1, <2>2
  <2>4. SameRecord(d, d') \/ (d'.queue = Buffers /\ d'.recording)
    BY <1>4, <2>1, DriverAnswers, StartRecordFields
  <2> QED BY <2>2, <2>3, <2>4 DEF SameRecord, HeldInv
<1>5. ASSUME NEW r \in Answers("endrecord"), StopRecording(r) PROVE HeldInv'
  <2>1. /\ d' = StopRecord(d, r) /\ r = "ok" /\ pc["client"] = "idle" /\ hal.recRunning
        /\ held = {} /\ held' = {}
    BY <1>5, DriverAnswers, ClosedLabels DEF StopRecording
  <2>2. d.recording /\ d.fd2
    BY <2>1 DEF RecordInv, DriverInv, Closed
  <2>3. ~d'.recording /\ ~d'.node2
    BY <2>1, <2>2, StopRecordFields
  <2> QED BY <2>1, <2>3 DEF HeldInv
<1>6. ASSUME NEW f \in held, ReleaseRecordingFrame(f) PROVE HeldInv'
  <2>1. d' = ReleaseRecordFrame(d, f.buf) /\ pc["client"] = "idle" /\ held' = held \ {f}
    BY <1>6, ClosedLabels DEF ReleaseRecordingFrame
  <2>2. d.recording
    BY <2>1 DEF HeldInv, Closed
  <2>3. d'.recording = d.recording /\ d'.queue = d.queue \union {f.buf}
          /\ d'.node2 = d.node2
    BY <2>1, <2>2, ReleaseFrameFields
  <2>4. \A g \in held : g.buf = f.buf => g = f
    BY DEF HeldInv
  <2>5. {g.buf : g \in held'} = {g.buf : g \in held} \ {f.buf}
    BY <2>1, <2>4
  <2> QED BY <2>1, <2>2, <2>3, <2>5 DEF HeldInv
<1>7. CASE DisableVideoFrames
  <2>1. d' = d /\ held = {} /\ held' = {} /\ pc["client"] = "idle"
    BY <1>7, ClosedLabels DEF DisableVideoFrames
  <2> QED BY <2>1 DEF HeldInv
<1>8. ASSUME NEW known \in Succeeds("address"), PreviewRecord(known) PROVE HeldInv'
  <2>1. known = TRUE /\ pc'["client"] = pc["client"]
    BY <1>8, DriverAnswers, ClosedLabels
  <2>2. CASE d' = d /\ held' = held
    BY <2>1, <2>2 DEF HeldInv
  <2>3. CASE ~(d' = d /\ held' = held)
    <3>1. PICK b \in d.queue :
            LET g == GetRecordFrame(d, b)
            IN  /\ d.recording
                /\ \/ d' = g /\ held' = held \union {[buf |-> b, old |-> FALSE]}
                   \/ d' = ReleaseRecordFrame(g, b) /\ held' = held
      BY <1>8, <2>1, <2>3 DEF PreviewRecord
    <3>2. b \in Buffers /\ d.queue \subseteq Buffers
      BY DEF Sessions
    <3>3. PICK g : g = GetRecordFrame(d, b)
      OBVIOUS
    <3>4. g \in Sessions /\ g.recording = d.recording /\ g.node2 = d.node2
          /\ g.queue = d.queue \ {b}
      BY <3>2, <3>3, FrameSessions, GetFrameFields
    <3>5. CASE d' = g /\ held' = held \union {[buf |-> b, old |-> FALSE]}
      <4>1. PICK h : h = [buf |-> b, old |-> FALSE]
        OBVIOUS
      <4>2. held' = held \union {h} /\ h.buf = b /\ ~h.old
        BY <3>5, <4>1
      <4>3. {f.buf : f \in held'} = {f.buf : f \in held} \union {b}
        BY <4>2
      <4>4. \A f \in held' : ~f.old
        BY <4>2 DEF HeldInv
      <4>5. {f.buf : f \in held} = Buffers \ d.queue
        BY <3>1 DEF HeldInv
      <4>6. d'.queue = d.queue \ {b} /\ d'.recording
        BY <3>1, <3>4, <3>5
      <4>7. {f.buf : f \in held'} = Buffers \ d'.queue
        BY <3>2, <4>3, <4>5, <4>6
      <4>8. (pc["client"] \notin Closed /\ ~d.recording => held = {})'
        BY <4>6
      <4>9. (\A f \in held : ~f.old)'
        BY <4>4
      <4>10. (d.recording => {f.buf : f \in held} = Buffers \ d.queue)'
        BY <4>7
      <4> QED BY <4>6, <4>8, <4>9, <4>10 DEF HeldInv
    <3>6. CASE d' = ReleaseRecordFrame(g, b) /\ held' = held
      <4>1. /\ d'.recording = g.recording /\ d'.node2 = g.node2
            /\ d'.queue = IF g.recording THEN g.queue \union {b} ELSE g.queue
        BY <3>4, <3>6, ReleaseFrameFields
      <4>2. d'.queue = (d.queue \ {b}) \union {b}
        BY <3>1, <3>4, <4>1
      <4>3. d'.queue = d.queue
        BY <4>2
      <4> QED BY <2>1, <3>4, <3>6, <4>1, <4>3 DEF HeldInv
    <3> QED BY <3>1, <3>3, <3>5, <3>6
  <2> QED BY <2>2, <2>3
<1>9. CASE ReleaseDeinit \/ CloseCamera
  <2>1. d' = DeinitCamera(d) /\ pc'["client"] \in Closed /\ held' = held
    BY <1>9, ClosedLabels DEF ReleaseDeinit, CloseCamera, Closed
  <2>2. ~d'.recording /\ ~d'.node2
    BY <2>1, DeinitFields DEF DriverInv
  <2> QED BY <2>1, <2>2 DEF HeldInv
<1>10. CASE Next
  BY <1>2, <1>3, <1>4, <1>5, <1>6, <1>7, <1>8, <1>9, <1>10, RecordSteps
<1> QED BY <1>1, <1>10

(* While a recording runs every buffer is queued or a frame the client has, *)
(* and not both; after it the driver has none.                              *)
THEOREM BuffersAccountedHolds ==
  ASSUME Patient, {"record", "endrecord", "address"} \cap Faults = {},
         IsFiniteSet(Buffers)
  PROVE  Spec => []BuffersAccounted
<1>1. Init => HeldInv
  BY DEF Init, NoSession, HeldInv
<1>2. Inv /\ DriverInv /\ RecordInv /\ HeldInv => BuffersAccounted
  <2> SUFFICES ASSUME Inv, DriverInv, RecordInv, HeldInv PROVE BuffersAccounted
    OBVIOUS
  <2>1. d \in Sessions /\ held \subseteq [buf : Buffers, old : BOOLEAN]
    BY DEF Inv, TypeOK
  <2>2. {f \in held : ~f.old} = held
    BY DEF HeldInv
  <2>3. CASE ~d.recording
    BY <2>3 DEF DriverInv, HeldInv, BuffersAccounted
  <2>4. CASE d.recording
    <3>1. /\ d.queue \subseteq Buffers
          /\ {f.buf : f \in held} = Buffers \ d.queue
      BY <2>1, <2>4 DEF Sessions, HeldInv
    <3>2. Cardinality(held) = Cardinality(Buffers \ d.queue)
      <4> DEFINE F == [f \in held |-> f.buf]
      <4>1. F \in Bijection(held, Buffers \ d.queue)
        <5>1. F \in [held -> Buffers \ d.queue]
          BY <3>1
        <5>2. \A f, g \in held : F[f] = F[g] => f = g
          BY <2>1 DEF HeldInv
        <5>3. \A b \in Buffers \ d.queue : \E f \in held : F[f] = b
          BY <3>1
        <5> QED BY <5>1, <5>2, <5>3, Fun_IsBij
      <4>2. IsFiniteSet(Buffers \ d.queue)
        BY FS_Difference
      <4>3. F \in Bijection(held, Buffers \ d.queue) =>
              ExistsBijection(held, Buffers \ d.queue)
        BY DEF ExistsBijection
      <4>4. ExistsBijection(Buffers \ d.queue, held)
        BY <4>1, <4>3, Fun_ExistsBijSymmetric
      <4> QED BY <4>2, <4>4, FS_Bijection
    <3>3. Cardinality(held) + Cardinality(d.queue) = Cardinality(Buffers)
      <4>1. Cardinality(Buffers \ d.queue) =
              Cardinality(Buffers) - Cardinality(Buffers \intersect d.queue)
        BY FS_Difference
      <4>2. Buffers \intersect d.queue = d.queue
        BY <3>1
      <4>3. Cardinality(Buffers) \in Nat /\ Cardinality(d.queue) \in Nat
        BY <3>1, FS_CardinalityType, FS_Subset
      <4> QED BY <3>2, <4>1, <4>2, <4>3
    <3> QED BY <2>2, <2>4, <3>1, <3>3 DEF BuffersAccounted
  <2> QED BY <2>3, <2>4
<1>3. Spec => [](Inv /\ DriverInv /\ RecordInv)
  BY RecordHolds
<1>4. Inv /\ DriverInv /\ RecordInv /\ HeldInv /\ [Next]_vars => HeldInv'
  BY HeldNext
<1> QED BY <1>1, <1>2, <1>3, <1>4, PTL DEF Spec
===============================================================================
