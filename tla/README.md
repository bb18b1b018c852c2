# TLA+ models of the Samsung P1 (Galaxy Tab) device tree

This directory holds a model, in TLA+, of the parts of this device tree that are
programs with state of their own: the audio HAL (`libaudio`), the camera HAL
(`libcamera`) with its threads and its settings, the charger (`charger`) and the
display under it (`recovery/graphics.c`), the lights (`liblights`) and the
updater (`rootdir/updater.sh`).  TLC checks the models on small instances; TLAPS
proves their safety properties for every instance.  `PROJECT.json` says, definition by
definition, which lines of the source a definition stands for.

## Inventory

| component | state | operations | interacts with | hard because |
|---|---|---|---|---|
| Audio HAL (`libaudio/AudioHardware.cpp`) | the output, the inputs, PCM and mixer handles with reference counts, audio mode, echo reference, wake lock; one mutex per stream, one for the hardware | open and close of streams, `write()`, `read()`, `standby()`, `setParameters()`, `setMode()`, `setMicMute()`, `addAudioEffect()`, `removeAudioEffect()` | called by AudioFlinger's playback thread, one capture thread per input, and binder threads; calls tinyalsa | each thread closes and reopens the streams of the others; locks are given up in the middle of a search; destructors lock |
| Camera HAL (`libcamera/SecCameraHWInterface.cpp`) | running, deferred, exit and capture flags, preview window, enabled messages; mutex and condition pairs for preview, focus, capture, recording | `startPreview()`, `stopPreview()`, `setPreviewWindow()`, `takePicture()`, `cancelPicture()`, `startRecording()`, `stopRecording()`, `releaseRecordingFrame()`, `autoFocus()`, `setParameters()`, `release()` | called by CameraService, one call at a time; runs a preview, a picture and an auto focus thread | conditions without predicates, flags set before or after the thread they concern, early returns |
| `SecCamera` (`libcamera/SecCamera.cpp`) | a singleton: init, started and recording flags, two file descriptors, buffers | one per driver operation | called by the client's thread and the three threads above | survives `release()` and `close()`; each operation has error returns half way |
| Camera settings (`SecCameraHWInterface.cpp`, `SecCamera.cpp`) | the parameters the client is told, the controls `SecCamera` caches, what the sensor was given | `setParameters()`, defaults, resend at `startPreview()`, the settings of a recording, the torch | CameraService, the driver | three copies, written at different times, kept over failures and sessions |
| Charger (`charger/charger.c`) | animation, key states, supply, three deadlines | key events, the battery animation, suspend, restart and power off | input events, sysfs, the display | deadlines that race key and supply events; a wait that knows two of three deadlines |
| Display (`recovery/graphics.c`) | two framebuffers, a surface in memory, the panel | init, draw, flip, blank | the framebuffer driver | what is written and what is shown; failures nobody looks at |
| Lights (`liblights/lights.c`) | button brightness under `g_lock` | backlight, notifications | sysfs files | two threads write the same files, several writes each |
| Updater (`rootdir/updater.sh`, `bml_over_mtd.sh`) | kernel, `/efs`, its backup, `omni.cfg`, volumes, user data | a stage per boot | recovery, updater-script | power can fail between two commands; boots may loop |
| Data migration (`setupdatadata.sh`) | directories and links | moves at boot | init | power can fail |
| TV-out (`TvOutService.java`, `C30Observer.java`, `tvouthack`) | enabled, was-on | broadcasts for screen, headset and orientation | the TV-out driver, SurfaceFlinger | events in any order |
| Device settings, key table, `pvrsrvinit`, make files, overlays | none worth a model | | | |

What makes each component correct:

* Audio: mutexes are always acquired in the order out, in, hw; no deadlock; the
  shared PCM and mixer are open exactly while they have users; nobody transfers
  on a closed handle; standby means closed; the echo reference in use is not
  released; the wake lock is held exactly while playing; every call returns.
* Camera: after `stopPreview()` nobody uses the sensor; the capture owns the node
  from its command to its image; no wake-up is lost; every recording buffer is
  the driver's or the client's; nothing of one session misleads the next; the
  threads have ended before the nodes are closed.
* Camera settings: while the preview runs the sensor has what is cached; what the
  client is told is what is cached; the torch goes out with the preview; a
  recording puts back what it changed; a scene and what it implies agree; a new
  session has the defaults (all of them for the back camera, all but scene, focus
  and flash for the front one).
* Charger: it restarts only after a full hold and is switched off only without
  its supply; it never suspends under an animation, and every animation ends; the
  buffer on show is the last picture and is not written, while the driver shows
  the one that `gr_flip()` made active.  Lights: each call takes effect as one
  step, and the buttons go with the screen.  Updater: a copy of `/efs` that a loss
  of power cannot take away exists at every moment but one (between the write of a
  kernel and the sync after it), data are wiped only on confirmation, boots do not
  loop, an undisturbed install completes.

`PROJECT.json` lists the hazards, each at its line, with the properties that
cover it.

## Modules

| module | models |
|---|---|
| `AudioState` | the record `hw` that `AudioHardware::mLock` protects (with the handles and flags of every stream) and, as operators on it, the functions that run under that mutex: `openPcmOut_l`, `closePcmOut_l`, `openMixer_l`, `closeMixer_l`, `open_l`, `close_l` and `doStandby_l` of the streams, the echo reference |
| `AudioHardware` | the threads and the mutexes: one action from the moment a thread obtains a mutex to the moment it asks for the next |
| `AudioProps` | type invariant, properties |
| `AudioProofs`, `AudioOrderProofs`, `AudioDeviceProofs` | proofs: types; the order of the mutexes; devices, standby and echo reference |
| `CameraSession` | the session record of `SecCamera` and its operations: one operator takes the session and the driver's answer ("ok", a failure before, or after, the stream is switched) and gives the session after it |
| `CameraHal` | `CameraHardwareSec`: the client's calls and the three threads over a `CameraSession` |
| `CameraProps` | type invariant, properties |
| `CameraProofs` | proofs |
| `CameraControls` | `setParameters()` section by section, the setters and the other calls of both camera files, on the three copies of the settings |
| `ControlsProps`, `ControlsProofs` | properties, type invariant and proofs |
| `Display` | `graphics.c` as operators on a record: what `gr_init()`, `gr_flip()`, `gr_fb_blank()` do to the buffers, byte by byte |
| `Charger` | the event loop of `charger.c` over a `Display`, and time, keys and cable around it |
| `ChargerProps`, `ChargerProofs` | properties, type invariant and proofs |
| `LightState` | what a colour means for each file |
| `LightsSpec` | what the lights promise: a call is one step |
| `Lights` | `lights.c`, one action per write |
| `LightsProps` | type invariant, properties, the refinement mapping to `LightsSpec` |
| `LightsProofs` | proofs, that of the refinement included |
| `Updater` | `updater.sh`, one action per command, and the boots, faults and users around it |
| `UpdaterProps`, `UpdaterProofs` | properties, proofs |
| `MCAudio`, `MCCamera`, `MCControls`, `MCCharger`, `MCLights` | the kinds of call and of failure, and the values, that TLC's instances use |

`AudioHardware` is built on `AudioState`, and `CameraHal` on `CameraSession`, as
the code is layered: a lower module says what one operation does to the state,
the upper one who calls it, and where a thread can be interrupted.  `Charger` is
built on `Display` in the same way.  `CameraControls` and `CameraHal` are two
views of the same calls: which thread has the sensor when, and what the calls do
to the settings when they are whole.

### Audio

`hw` is a record of what `AudioHardware::mLock` guards; `owner` maps each mutex
to the thread that holds it; `th` has for each thread a program counter and the
local strong pointers `spOut`, `spIn` of the call; `alive` is the set of stream
objects that are not destroyed, because a closed stream lives on as long as a
thread has a pointer to it, and its destructor takes mutexes.  The labels name
the mutex a thread waits for: `w_*` in `write()`, `r_*` in `read()`, `m_*` in
`setMode()`, `s_*` in `standby()`, `d_*` in `doStandby_l()` of an input.
`needEcho[i]` is the flag that `addAudioEffect()` writes with no mutex.
`CountStandby` keeps of `mStandbyCnt` what the code asks of it: whether it has
changed since a thread that still has to compare it has read it.

### Camera

`hal` is the record of the flags of `CameraHardwareSec`, `d` the session,
`lock` the owner of `mPreviewLock`, `pc` where the client's thread and the three
threads are, `call` which call the client's thread is in, `buf` the window whose
buffer the preview thread has, `held` the recorded frames the client has, and
`asked` an auto focus that has not been answered.  A part of the code that runs
under one mutex and does not wait is one action.  `mPreviewLock` is a variable
because `release()` ignores it, and because `setPreviewWindow()` forgets to
release it; the other mutexes are never held across two actions.

Of a recorded frame the model keeps its buffer and whether it is of an earlier
recording.  `Patient`
restricts the client: it gives back every frame before it stops.  A client that
does not is the subject of other runs.

### Camera settings

`hal` is one record: `told` is `mParameters`, `cached` the members of `m_params`
and their neighbours in the singleton, `sensor` what the driver was given since
its node is open.  A setter is `SetControl`: it caches, and sends if the preview
runs and the value is new.  Each section of `setParameters()` is an operator on
the record (`ParamIso`, `TellScene`, ...); `setParameters` is their composition in
the order of the code, with the result in `ret`.  `fail` is the set of driver
calls that fail during one call of the client.  `unsent` and `spoilt` only
remember that one did, for the properties.  Words of `CameraParameters` are the
keys of the tables (`IsoOf`, ...); any other word is invalid.

### Charger and display

Time is in ticks, and a deadline is the time that is left to it, so that the model
needs no clock that grows.  `c` is the program's state with the display (`c.g`),
`left` what is left of the timeout of `ev_wait()`.  `Timeout` and `Dispatch` are
one turn of `event_loop()` each: keys, supply, screen, and the next wait, in the
order of the code.  `Tick` is the world: a tick passes, a key changes, the cable
is pulled or plugged in; the loop may wake up one tick late, but not more, and
not before it has been given the events that are there.  `heldFor` is how long the
power key has really been held, which the program does not know.

A surface of `Display` is a function from byte numbers, two to a pixel, because
`gr_flip()` turns bytes; the picture that is drawn covers the surface.  `shown` and
`blank` are the driver's, `active` is what the program believes: the ioctls may
fail (`Answers`), the code prints it and goes on, and `gr_flip()` has toggled
`active` by then.

### Lights

`th` has for each light where its call is, its colour and its result; `file` what
the three files have, `absent` those the kernel does not have.  Each `write_int()`
is an action under `g_lock`.  `LightsSpec` has the same calls, but a call is served
in one step.  The refinement mapping (`LightsProps`) makes a call take effect when
it gets the lock: from then on the files are shown with what is left to be
written to them.

### Updater

`kernel`, `efs`, `sd`, `lvm`, `data`, `modem` are what survives a reboot.  `sd` is
the card as the script sees it, with the page cache of its vfat; `card` is the set
of what may be on it if the power goes now.  A write adds to `card` what it may
leave behind (`Write`), a reboot of the script, which syncs (307, 343), and
switching off make it `{sd}`, and a loss of power picks one of its members.
`unsaved` remembers that a loss of power between the write of a kernel and the
sync left no copy of `/efs` that the kernel can read.  `tmp` is
the accept file of `warn_repartition()`, which does not; `pc` is the next command
of the stage that the kernel selects (`Following`).  A copy is two steps, a
part and then all.  `PowerLoss` may happen at any command; mounts and the writing
of a kernel may fail, up to `MaxLosses` times in all, together with the user's
returns to stock (`Reflash`).  `consent` remembers that the user confirmed a wipe
of the data that are there now.

### What is assumed of code outside the repository

* CameraService makes one call at a time, and one operation of `SecCamera` is
  atomic to the other threads: the model interleaves between them only.
* A thread of the camera HAL has entered its loop before it is asked to exit,
  and `Thread::run()` fails while the thread has not exited.
* `VIDIOC_DQBUF` on a queue with no buffer fails; closing a node stops it.
* Which frames are skipped (`mSkipFrame`) is nondeterministic.
* AudioFlinger's playback thread writes to one output, and thread `i` reads input
  `i`; `android::Mutex` is neither recursive nor fair.
* A PCM, mixer or transfer call, or the creation of an echo reference, may fail
  when `Faults` names its kind.
* The capture device can be opened once.
* The light service makes one call of a light at a time and sets the backlight
  first; the driver takes the value that was written last.
* The recovery of the new kernel runs the package that `omni.cfg` names at boot
  and the updater-script formats and writes `/system` after a script that exits
  with 0; it syncs before the user switches it off.  A kernel is written as a
  whole or not at all.
* Nothing is written to the vfat card for certain before a sync; a move within a
  directory is one sector, the files of a copy may come in any order.  `/efs` and
  `/radio` are yaffs2, which has a file when it is closed.

## Runs

The size of an instance is its windows, buffers, streams and the kinds of call
and failure; nothing is counted, so the models are finite without a bound on
steps.  Only `EchoIds` (5) bounds something the code creates afresh: an echo
reference is told from those that some variable still names, and one output, one
input and the hardware name no more than that.  The charger's ages and deadlines
are bounded by its constants, the updater's faults by `MaxLosses`.

| run | instance | shows |
|---|---|---|
| `audio_calls` | one output, one input; playback, capture, calls, standby, rerouting, mute, with fairness | the order of the mutexes, no deadlock, the wake lock, what is locked stays active, fields change under their mutexes, every call returns |
| `audio_faults` | two inputs compete while opens, transfers and the mixer fail | no device leak, standby means closed, one active input, types |
| `audio_all` | all calls: those of `audio_calls`, and streams are closed and opened, echo cancellers come and go; an echo reference may not be created | the reference counts are the users, no transfer on a closed handle; the echo reference in use is not released |
| `camera_calls` | two windows, two sizes, deferred starts excluded; pictures may be slow | stopped means stopped, the capture is not disturbed and hands the node over, every call returns, the preview keeps getting frames |
| `camera_sessions` | two buffers; recording, focus, release and reopening; the failures of `MildFaults` | the flags agree with the nodes and each other, the buffers are accounted for, the threads end, nothing is left on, the wake-up of the auto focus thread by `release()` arrives and is not a request to focus |
| `camera_faults` | the failures of `HardFaults`, an impatient client | types, and that a late frame is not queued on a node that is off |
| `camera_controls` | both cameras; eight changes of settings, among them scenes, torch, focus, ISO, an area and a bad quality; previews, recordings and controls that fail | the sensor has what is cached, the client is told what is cached, the torch goes out, recordings put back what they changed, scenes are consistent, what was returned is accepted, sessions are fresh |
| `charger` | three of the six frames, two cycles, two pixels, a battery that can be read or not, a display whose initialisation and page flips may fail, frames that may be missing | no suspend under an animation, no early restart, no power-off with the supply in, what is shown is the last picture and is not written to while the driver shows the active buffer, the animation ends, an unplugged tablet is noticed at the next key |
| `updater` | the three layouts, three faults, unsynced writes of the card lost or not | the copy of `/efs` and the one window without it, the consent, no loop, completion |
| `lights` | six greys at the limits of the buttons' levels and a dark blue; any files missing | each call is atomic (`LightsSpec`), the buttons follow the screen, no deadlock |
| `audio_call_aec`, `charger_key` | the smallest instance that shows it | what the code does against its comments (below) |

Two windows are enough for a window to be replaced by another; two recording
buffers for one to be the driver's and one the client's; two sizes for a change;
one output, because the HAL has one (two only to close it and open the next);
two inputs, because only one may be active.  TLC treats every interleaving of
the threads.  A driver or window call fails
only when `Faults` names it.  `MildFaults` are the failures after which the code
still knows what it left on; `HardFaults` are those that leave a flag, a lock or
a stream behind (and spurious wake-ups), and about them only the properties that
survive are claimed.  A failure of the JPEG read is in no run.  Deadlock is checked
except where the code really stops: in `audio_all` a thread waits for itself (a
call with an echo canceller, or a destructor with the hardware mutex held); in
`camera_sessions` the signal of `release()` can be lost; in `camera_faults`
`setPreviewWindow()` leaves `mPreviewLock` locked; the charger switches the tablet
off.

The changes of `camera_controls` have one word for each thing another section
asks about: a scene with and one without flash, the torch, another focus and ISO
value; the remaining words go through the same operators.  The three frames of
`charger` are the first, the one that only stands for a level, and the last;
two cycles distinguish the first from the others; two pixels are the least for which
`gr_flip()` has a byte that stays and bytes that change.  Three faults let the
updater lose power, lose it again in the recovery of that, and meet a failed
mount or a return to stock.  The charger is checked without read errors of the
supply, after which it believes that it is plugged in, and on a tablet whose supply
does not change its kind: `charger_type` is found once, at the start.  A hold of two
ticks is the least that two presses in a row do not make up together.  A refused
FBIOBLANK (`"blank"`) is in the model and in the proofs but not in the run, where
no property looks at the panel and it would only multiply the states.

The type invariants of the lights, the updater, the camera's settings and the
charger are proved and not run.

A mutant accompanies each checked property: a definition whose name ends in
`_Bug` is the one below it with a plausible mistake, and the property fails on it.

### Disagreements between the code and what it says

Each has a run that finds it; `PROJECT.json` quotes the comment it contradicts.

* `audio_call_aec`: with an echo canceller active, `setMode()` into a call waits
  for the output's mutex that it holds itself.
* `charger_key`: a power key that is pressed twice in a row and then held does not
  restart a tablet whose screen went dark meanwhile: the deadline of the first
  press stands for the second one, is dropped, and nothing wakes the loop.

The models also have the following behaviours, which no run asks about.  Audio:
the last pointer to a closed stream may be dropped with the hardware mutex held,
which the destructor takes again (`AudioHardware.cpp:380`, `361`);
`closeOutputStream()` clears `mOutput` before the standby that would release the
echo reference through it (`267`); with two inputs, the `getEchoReference()` of
one releases the reference that the other still has (`1025`); an output that
`setMode()` found in standby starts while it waits for the input (`371`), and
stays active in the call; a call that cannot open the PCM is entered all the
same (`408`).  Camera
(`SecCameraHWInterface.cpp`): `release()` signals without `mPreviewLock`, and
when the signal falls between the thread's test and its wait the join never
returns (`2139`); `autoFocus()` only signals, and a request made while the thread
is not in its wait is forgotten (`899`); after a deferred start that failed half
way, `stopPreviewInternal()` does nothing and a picture finds the preview on
(`746`);
`mCaptureInProgress` is set after the picture thread may have cleared it (`1228`);
a start that fails leaves `mPreviewRunning` set (`686`); the wait for the preview
thread tests nothing (`751`), so a spurious wake-up ends it; a window is replaced
under the preview thread (`375`); an error of the window leaves `mPreviewLock`
locked (`392`-`424`); a preview size that is refused is set nevertheless (`1485`).
`SecCamera.cpp`: the reset of the sensor is left half way when the driver can name
its input (`1003`; `camera_sessions` has it, `camera_calls`, whose only fault is a
slow picture, does not); a frame of an earlier recording is queued in the next (`1042`).

Camera settings: a setter that fails keeps its value cached, so that the same
value is not sent again until the preview starts; the JPEG quality and the touch
area are not resent at all; after a recording the ISO value is automatic whatever
the client was told, and `setParameters()` during a recording sets the told one; a
scene that the camera does not have still overwrites what the client is told of
focus, flash and frame range (`1733`), which is why `camera_controls` asks for
scenes it has; a front session keeps the scene, the focus and the flash that the
back camera's last session cached, because only the back branch of
`setParameters()` sets them (`1733`-`1909`).  Charger: an unplugged tablet with a dark screen is only noticed at
the next key, because the wait ignores `next_supply_check` (`739`); a tablet that
was started without a supply is never switched off; when `gr_init()` fails nobody
looks, and `gr_flip()` may write through a null pointer; `gr_flip()` exchanges the
bytes `i` and `2n - i`, which is not a picture turned by 180 degrees but one moved
by a byte, with the two bytes of each pixel exchanged.  Display: the charger's
comment "unblank the screen on first cycle" (`charger.c:601`) describes a panel that
comes on, but `redraw_screen()` begins with `clear_screen()`, whose `gr_clear()`
(`charger.c:196`) is `gr_fb_blank(true)` in this back end (`graphics.c:365`): as long
as FBIOBLANK works the panel is blanked again before the picture is drawn, in every
animation (`PanelStaysDark`).
With a refused FBIOBLANK the panel may be left lit as well, also under a tablet that
suspends.  A refused FBIOPUT_VSCREENINFO (`graphics.c:145`) comes after `gr_active_fb`
was toggled, so the old picture stays and the next `gr_flip()` writes it while it
is shown.  Lights: the comment that
lit buttons go with a lit screen (`126`) does not survive a notification that is
cleared, which darkens them; a blue of 8 or less is lit with brightness 0.
Updater: the backup on the card is synced (`307`, `343`) only after the new kernel is
written (`301`, `338`), and a loss of power in between may leave a kernel that cannot
read `/efs` and a card without the backup; after a loss of power between the removal of `omni.cfg` (`392`) and the
end of the restore and of the LVM set-up no later run does either; a `modem.bin`
that was copied in part is never replaced (`restore_modem()` tests that it
exists); the write of the kernel over an old layout is not looked at (`338`), that
of the stock kernel is, but `omni.cfg` stays; a `cp` that fails is not noticed.

## Fairness

Camera (`Spec`): weak fairness of the client's call under way and of each
thread: they are threads of the scheduler, and each action waits at most for a
mutex held for a moment or for a condition that is in its guard.  Nothing makes
the client begin a call, and a spurious wake-up is never due.

Audio (`FairSpec`): strong fairness of each thread's progress inside a call.
Mutexes are not fair, so weak fairness would let `write()` retake its mutex for
ever; but whoever is about to wait sets `mSleepReq` (`prepareLock()`,
`standby()`), and the client thread then sleeps 10 ms before it asks again.  No
call has to begin.  That `setMode()` returns needs that clients do not call
`standby()` for ever: each call bumps `mStandbyCnt` and the search starts over
(the part `ControlReturns` of `CallsReturn` has it as its premise).

Charger: weak fairness of the loop's turns and of time; nobody has to press a key
or pull the cable.  `PowersOff` takes keys as its premise, because the loop
does not wake up without them.  Lights: none, only safety is claimed.  Updater: weak fairness of the script and of a boot after it; neither the user nor
a fault is ever due.

## Proofs

All proofs are about the whole specification with its constants left open: any
streams, threads, windows, buffers, settings, frames and times.  Every safety
property that a run checks is a theorem.  Some theorems have a hypothesis on the
calls or the faults; without it TLC has a counterexample, and the hypothesis is
what the code relies on.

* `AudioProofs`, `TypeCorrect`: `Spec => []TypeOK`.  `TypeOK` alone is not
  inductive: that `spIn` is a stream where a step uses it depends on where the
  thread is.  The invariant is `TypeOK` with `ControlInv`, which says for each
  label which pointers are not null and whether the hardware mutex is kept.  A
  lemma per operator of `AudioState` says what it does to the types; the other
  audio proofs cite them.
* `AudioOrderProofs`, `LockOrderHolds` and `NoDeadlock`: without closes and echo
  cancellers (`"close"`, `"aec"` not in `Calls`; with either, TLC's
  counterexamples show that the code breaks it) every thread takes mutexes in
  the order out, in, hw, for any number of inputs and any faults.  The inductive
  invariant `OrderInv` bounds what a thread holds by where it is (`Held`), says
  that no echo reference exists (`Quiet`), and that a thread's pointers are to
  streams that are open (`Ordered`).  `NoDeadlock` follows from the order: a
  blocked thread waits for one that waits for a later mutex, at most three times.
* `AudioDeviceProofs`: who uses the PCMs, the mixer and the echo reference.  None of
  the properties is inductive, since each relates the shared record to the streams
  and to a thread that is between two mutexes.  `DevInv` has four parts:
  * `DataInv`: the counts are the users, or at most the users if the driver may
    refuse an open (`Counted`); a stream is in standby exactly when its PCM is
    closed, but for an output whose `write()` waits for itself, and one input at
    most is not (`Closed`); who may hold which echo reference (`Echoes`);
  * `LocalInv`: which mutexes a thread owns where it is, how it got there, and what it
    still knows of a stream it has locked;
  * `LiveInv`: pointers are to streams that are not freed, and the stream that a
    destructor works on has no other pointer to it;
  * `WakeInv`: the wake lock and the output that plays or is being brought up.

  The helpers are followed field by field first; then each step is shown to leave
  streams that it has not locked alone (`Touch`), so that what the others know stays
  true.  The theorems, and what they assume:

  | theorem | assumes |
  |---|---|
  | `NoDeviceLeakHolds`, `OneActiveInputHolds` | nothing |
  | `RefCountsHolds` | no refused open of PCM or mixer |
  | `IoOnOpenPcmHolds` | no refused open of a PCM |
  | `StandbyClosedHolds` | no echo canceller, or no refused open of a PCM |
  | `EchoNotReleasedHolds` | one input, or no echo canceller |
  | `WakeLockWhilePlayingHolds` | no close of streams, and as `StandbyClosedHolds` |
  | `LockedStaysActiveHolds` | no close of streams |
  | `StreamFieldsGuardedHolds` | no close of streams, or no echo canceller |

* `CameraProofs`.  `CameraTypeCorrect` and `ThreadsEndedHolds`: the invariant is
  `TypeOK`, `Control` and `ThreadsEnded` itself.  `Control` carries what
  `release()` has seen end (the preview thread, when it joins the next one),
  that `mPreviewLock` is the client's where a window is configured, and which
  call is under way at labels that calls share.  `ClientStep`, `PreviewStep` and
  `OtherStep` say once what a step of a thread leaves of the invariant; there
  is one case per action.  The properties of the node and the session rest on
  it, each on an invariant of its own:

  | theorem | invariant | assumes |
  |---|---|---|
  | `LateFrameIgnoredHolds` | `DriverInv`: which nodes are open, stream and have buffers, whatever fails | nothing |
  | `StoppedIsStoppedHolds` | `Quiet`: the sensor is in use only while `mPreviewRunning` is set or the client waits for the thread (`StopInv`), and the preview is off while the picture thread works (`PictureInv`) | `Waits` |
  | `NodeHandOverHolds` | `NodeInv`, `CaptureInv`: `m_flag_camera_start` says whether the node streams a preview; it streams a capture for the picture thread only | `Waits`, the JPEG is read |
  | `CaptureUndisturbedHolds` | `OpenInv`: both nodes are open between `open()` and `release()` | `Waits`, `init()` and the snapshot succeed |
  | `ClosedQuietHolds` | `ClosedInv`: after `release()` the session is not initialised | `init()` succeeds, or `Waits` and the JPEG is read |
  | `FlagsAgreeHolds` | `RecordInv`: `mRecordRunning` agrees with the session's flag, and no recording outlives `release()` | `Waits`, the end of a recording succeeds |
  | `BuffersAccountedHolds` | `HeldInv`: what the driver and the client hold | a patient client, no failure in a recording, finitely many buffers |

  `Waits` says that no stream refuses to go off, no wait of
  `stopPreviewInternal()` ends without its signal, and no start is deferred: that
  wait has no predicate, and a deferred start lets the preview thread use a
  sensor that nobody has started.  That `Quiet` needs both threads at once is the
  point: preview and picture thread exclude each other only through the client,
  which stops one before it starts the other.
* `ControlsProofs`: `Inv` is `TypeOK` with `Session(hal)`, the conjunction of what
  relates the three copies of a setting: `Agree` (cache and sensor), `TorchInv`,
  `Metering` (recordings) and `Told` (client and cache).  `setParameters()` is a
  sequence of sections, each of which may end the call, so there is a lemma per
  section and one for an end half way.  `ControlsTypeCorrect`,
  `SensorAgreesHolds`, `TorchIsOffHolds`, `RecordSettingsHolds`,
  `ToldIsCachedHolds` and `FreshSessionHolds` hold for all settings, words, failures
  and any number of sessions of both cameras.  `SceneConsistentHolds` assumes
  `SupportedChanges`: the client asks for words of the tables and leaves the range of
  frame rates to the scene.  `NothingAssumption`: the value that stands for no camera,
  or for no word, is neither a camera nor a scene or a flash mode.
* `ChargerProofs`: `Inv` is `TypeOK` (each deadline within its interval) with
  `DisplayInv` (an open display that shows its active buffer shows what was
  filled last), `DarkInv` (the panel is blanked, if FBIOBLANK works), `IdleInv` (no
  picture is due without an animation, and the system may suspend only then),
  `KeyInv` (the program never takes the power key to be
  held longer than it is) and `SupplyInv` (the charger runs while its supply is
  on line).  It gives
  `ChargerTypeCorrect`, `SuspendedIsIdleHolds`, `NoEarlyRestartHolds`,
  `PanelStaysDark` (which assumes that FBIOBLANK does not fail), and with
  `StepOK`, what a step may do, `DoubleBufferedHolds`, whatever calls fail, and
  `OffUnpluggedHolds`, which is the safety half of `PowersOff`.  `FlipInvolutive` says
  that two turns of the surface are none, for any number of pixels; `FrameOfLevel`
  that the loop that looks for the first frame stays inside the array and stops at
  the right one.  They assume that the array of frames is not empty and that the
  animation has a number of cycles, as `charger.c` has; TLC checks both assumptions.
* `LightsProofs`: `LightsTypeCorrect` (every value that is written fits in a byte,
  because the weights of the colours add up to 256), `LevelFollowsHolds`, and
  `AtomicHolds`, the refinement `Spec => Atomic`.  The invariant adds to the types
  that a call which writes holds the lock (`LockInv`) and that the level file has
  what the brightness says when nobody writes (`LevelInv`).  For the refinement
  there is one lemma per action: taking the lock is `Serve`, the return is
  `Return`, and the writes are stutters, since the mapping shows what is left to
  be written (`WriteStep`).
* `UpdaterProofs`: `UpdaterTypeCorrect`, `NvSafeHolds`, `WipeConsentedHolds`, for any
  number of faults (`MaxLosses` is any natural number), any faults and any layout
  at first.  `NvSafe` is not inductive: `BackupInv` adds, for everything the card
  may hold (`card`), that before the first kernel change `/efs` can be read, and
  after it, once the sync is done, a complete backup is on the card, and that what
  the script sees when it is about to write the kernel is a copy of `/efs`.  Its
  exceptions are those of `NvSafe`: the label `reboot`, between kernel and sync, and
  `unsaved`, a loss of power that met it there.
  `ConsentInv` says which commands follow the warning, `Control` which commands a
  stage has.

Only model-checked: the liveness properties (`CallsReturn` of audio and camera,
`FocusJoined`, `FramesKeepComing`, `AnimationEnds`, that `PowersOff` gets there, and
`InstallEnds`), because TLAPS has no rule for fairness and ENABLED.  The violation
runs are TLC's alone, too.

## Not modelled, and why

* Audio: mixer routes, volumes and the input source, the RIL client and the call
  clock (`mActivatedCP`), `dump()`; sample rates, resampler and pre-processing.
* Camera: the sections of `setParameters()` that copy sizes, rotation, thumbnail,
  GPS and video-call settings; controls that no caller reaches; formats, image
  data and conversions, the marker scan of the interleaved JPEG, metadata, `cancelAutoFocus()`, which touches no state; errors of
  `VIDIOC_STREAMOFF` are modelled for a recording and left out of
  `camera_faults` for the preview, because the code has no answer to them.
* The `fimc_v4l2_*` wrappers: one ioctl each.
* Charger: the dump of the last kernel log, and the layout of the screen.  Display:
  fonts, colours and clipping.
* Lights: `set_light_buttons()`, which `open_lights()` does not hand out.
* Updater: CDMA devices, the block-by-block work of `bml_over_mtd.sh`, a full card.
* `setupdatadata.sh`: moves and links of directories, which the next boot tests again.
  A loss of power leaves two things for good: a cache that was moved but not linked is
  removed by the next `migrate_cache()`, and a `migrate_datadata()` that was interrupted
  after `com.android.settings` had gone is not taken up again, because that directory
  is its only test.  The script says nothing of either.
* TV-out: a receiver of one thread that forwards broadcasts to a library that is not
  in the repository; what the flag `mWasOn` should do after the service was
  disabled is not said anywhere.
* Settings, key table, make files, overlays and policies: no state that a property
  could be about.

## Plan

The safety properties of the runs are proved.  What is left:

1. Abstract specifications to refine: one list of users per device, which the audio
   HAL's reference counts implement; a node with one owner, which the camera's
   session implements while `Waits` holds.
2. Weaker hypotheses: `WakeLockWhilePlaying` and `LockedStaysActive` when streams are
   closed at moments that do no harm.
3. Extend: the audio routes and the call clock.
