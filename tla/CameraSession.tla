----------------------------- MODULE CameraSession -----------------------------
(***************************************************************************)
(* The session SecCamera (libcamera/SecCamera.cpp) keeps with the two FIMC *)
(* video nodes, as operators on a record: one takes the session before the *)
(* call and the driver's answer and returns the session after it.          *)
(*                                                                         *)
(* "early" is a failure before VIDIOC_STREAMON (of a stop: of              *)
(* VIDIOC_STREAMOFF), "late" one after it.  Formats, sizes, controls and   *)
(* image data are left out.                                                *)
(***************************************************************************)
EXTENDS Naturals

CONSTANTS Buffers,   \* the MAX_BUFFERS buffers of the recording node
          Sizes,     \* the sizes and formats of a preview
          DefaultSize

ASSUME SizeAssumption == DefaultSize \in Sizes

Answer == {"ok", "early", "late"}

(***************************************************************************)
(* init, started, recording: m_flag_init, m_flag_camera_start and          *)
(* m_flag_record_start.  fd, fd2: m_cam_fd and m_cam_fd2 are open.  front: *)
(* m_camera_id.  mapped: m_capture_buf.start # NULL.  size: the preview    *)
(* size that is set.  Of the driver: what node streams, whether node2      *)
(* streams, and the buffers of node2 it has.                               *)
(***************************************************************************)
Sessions ==
  [init : BOOLEAN, started : BOOLEAN, recording : BOOLEAN, fd : BOOLEAN,
   fd2 : BOOLEAN, front : BOOLEAN, mapped : BOOLEAN,
   node : {"off", "preview", "capture"}, node2 : BOOLEAN,
   queue : SUBSET Buffers, size : Sizes]

NoSession ==
  [init |-> FALSE, started |-> FALSE, recording |-> FALSE, fd |-> FALSE,
   fd2 |-> FALSE, front |-> FALSE, mapped |-> FALSE,
   node |-> "off", node2 |-> FALSE, queue |-> {}, size |-> DefaultSize]

(* Operators whose name ends in _Bug are versions of the one below them with *)
(* a plausible mistake; nothing uses them, they show that a property can     *)
(* fail.                                                                     *)

-------------------------------------------------------------------------------
(* Preview *)

StartPreviewOk(d, r) == d.started \/ (d.fd /\ r = "ok")

StartPreview_Bug(d, r) ==   \* the flag is set before the stream is on
  IF d.started \/ ~d.fd THEN d
  ELSE [d EXCEPT !.started = TRUE,
                 !.node = IF r = "early" THEN @ ELSE "preview"]

StartPreview(d, r) ==
  IF d.started \/ ~d.fd \/ r = "early" THEN d
  ELSE [d EXCEPT !.started = TRUE, !.node = "preview"]

StopPreview(d, r) ==
  IF ~d.started \/ ~d.fd \/ r = "early" THEN d
  ELSE [d EXCEPT !.started = FALSE, !.node = "off"]

SetPreviewSize(d, s) == [d EXCEPT !.size = s]

-------------------------------------------------------------------------------
(* Recording *)

StartRecordOk(d, r) == d.recording \/ (d.fd2 /\ r = "ok")

StartRecord_Bug(d, r) ==   \* only the buffers that are not queued yet
  IF d.recording \/ ~d.fd2 \/ r = "early" THEN d
  ELSE [d EXCEPT !.node2 = TRUE, !.recording = (r = "ok")]

StartRecord(d, r) ==
  IF d.recording \/ ~d.fd2 \/ r = "early" THEN d
  ELSE [d EXCEPT !.node2 = TRUE, !.queue = Buffers,
                 !.recording = (r = "ok")]

StopRecordOk(d, r) == ~d.recording \/ (d.fd2 /\ r = "ok")

StopRecord(d, r) ==
  IF ~d.recording \/ ~d.fd2 THEN d
  ELSE IF r = "early" THEN [d EXCEPT !.recording = FALSE]
  ELSE [d EXCEPT !.recording = FALSE, !.node2 = FALSE, !.queue = {}]

(* VIDIOC_DQBUF of buffer b *)
GetRecordFrame(d, b) == [d EXCEPT !.queue = @ \ {b}]

(* VIDIOC_QBUF of buffer b, but not when the recording is over *)
ReleaseRecordFrame_Bug(d, b) == [d EXCEPT !.queue = @ \union {b}]

ReleaseRecordFrame(d, b) ==
  IF d.recording THEN [d EXCEPT !.queue = @ \union {b}] ELSE d

-------------------------------------------------------------------------------
(* Snapshot.  A preview that is still on is stopped first. *)

SetSnapshotCmd(d, r) ==
  LET g == StopPreview(d, "ok")
  IN  IF ~d.fd \/ r = "early" THEN g
      ELSE IF r = "late" THEN [g EXCEPT !.mapped = TRUE]
      ELSE [g EXCEPT !.mapped = TRUE, !.node = "capture"]

(* The back camera's picture: a failure leaves the stream on. *)
GetJpeg(d, ok) == IF ok THEN [d EXCEPT !.node = "off"] ELSE d

(* The front camera's: it does not. *)
GetSnapshot(d) == [d EXCEPT !.node = "off"]

EndSnapshot(d) == [d EXCEPT !.mapped = FALSE]

-------------------------------------------------------------------------------
(* Opening and closing the nodes *)

(* opened: how many of the two nodes could be opened and set up. *)
InitCamera(d, front, opened) ==
  IF d.init THEN d
  ELSE [d EXCEPT !.fd = opened # 0, !.fd2 = opened = 2, !.init = opened = 2,
                 !.front = IF opened = 2 THEN front ELSE @]

(* The driver stops what a closed node streams. *)
DeinitCamera_Bug(d) ==     \* the recording is not stopped before
  IF ~d.init THEN d
  ELSE [d EXCEPT !.init = FALSE, !.fd = FALSE, !.fd2 = FALSE,
          !.node = "off", !.node2 = FALSE, !.queue = {}]

DeinitCamera(d) ==
  IF ~d.init THEN d
  ELSE [StopRecord(d, "ok") EXCEPT !.init = FALSE, !.fd = FALSE, !.fd2 = FALSE,
          !.node = "off", !.node2 = FALSE, !.queue = {}]
===============================================================================
