----------------------------- MODULE AudioHardware -----------------------------
(***************************************************************************)
(* The locking protocol of libaudio/AudioHardware.cpp: the playback thread *)
(* that calls write(), one capture thread per input stream that calls      *)
(* read(), and the control thread that calls setMode(), setMicMute() and   *)
(* add/removeAudioEffect(), over the three kinds of mutex (the mLock of an *)
(* output, of an input, and of AudioHardware).                             *)
(*                                                                         *)
(* An action is what a thread does from the moment it obtains one mutex to *)
(* the moment it asks for the next one: everything in between happens      *)
(* under a mutex that protects what it touches.  A mutex obtained and      *)
(* released within one action shows only in the guard.                     *)
(***************************************************************************)
EXTENDS AudioState

CONSTANTS Playback, Ctl,   \* the playback and the control thread
          HW,              \* AudioHardware::mLock
          Calls,           \* the kinds of call the clients make
          Faults           \* what may fail: "pcm", "mixer", "io", "echo"

Threads == {Playback, Ctl} \union Inputs     \* input i is read by thread i
Locks   == Streams \union {HW}               \* stream s stands for s->mLock

ASSUME ThreadAssumption ==
  /\ Playback # Ctl /\ {Playback, Ctl} \intersect Inputs = {}
  /\ HW \notin Streams /\ NULL \notin Threads \union {HW}

VARIABLES hw,      \* what AudioHardware::mLock protects
          owner,   \* the thread that holds each mutex
          th,      \* the locals and the program counter of each thread
          alive    \* the stream objects that are not destroyed yet

vars == <<hw, owner, th, alive>>

(* spOut, spIn: the strong pointers of the call; dOut: the one inside       *)
(* AudioStreamInALSA::doStandby_l().  target, op: the stream whose          *)
(* standby(), routing change or destructor runs, and which of them; after:  *)
(* where that returns to; resume: where doStandby_l() returns to.           *)
IdleThread ==
  [pc |-> "idle", spOut |-> NULL, spIn |-> NULL, dOut |-> NULL,
   target |-> NULL, op |-> "none", after |-> "idle", resume |-> "none",
   mode |-> "normal"]

Init ==
  /\ hw = HwInit(Threads)
  /\ owner = [l \in Locks |-> NULL]
  /\ th = [t \in Threads |-> IdleThread]
  /\ alive = {}

-------------------------------------------------------------------------------
(* Building blocks *)

Answers(call) == IF call \in Faults THEN BOOLEAN ELSE {TRUE}

Free(l) == owner[l] = NULL

(* Where a thread has read mStandbyCnt and has not compared it yet. *)
CountInUse == {"w_in", "w_hw2", "m_out", "m_hwo", "m_in", "m_hwi"}

PrepareLock_Bug(h, t, s) == h   \* returns something else than mStandbyCnt

PrepareLock(h, t, s) == [h EXCEPT !.current[t] = s]

(* Thread t takes the mutexes in got, releases those in given, leaves the   *)
(* hardware state h, and goes on with the locals me.                        *)
Step(t, got, given, h, me) ==
  /\ owner' = [l \in Locks |-> IF l \in got THEN t
                               ELSE IF l \in given THEN NULL ELSE owner[l]]
  /\ hw' = IF me.pc \in CountInUse THEN h ELSE [h EXCEPT !.current[t] = NULL]
  /\ th' = [th EXCEPT ![t] = IF me.pc = "idle" THEN IdleThread ELSE me]

At(t, label) == th[t].pc = label

(* Some strong pointer other than those of thread t's call names s. *)
HeldElsewhere(s, h, t) ==
  \/ s = h.mOutput \/ s \in h.mInputs
  \/ \E u \in Threads \ {t} : s \in {th[u].spOut, th[u].spIn, th[u].dOut}

(* The last strong pointer to s goes away: t runs its destructor, which     *)
(* calls standby(), and then goes on at next.                               *)
Destructor(me, s, next) ==
  [me EXCEPT !.pc = "s_lock", !.target = s, !.op = "destroy", !.after = next]

CallStandby(me, s, next) ==
  [me EXCEPT !.pc = "s_lock", !.target = s, !.op = "standby", !.after = next]

(* doStandby_l() of input i gives up the locks of the input and of the      *)
(* hardware to take them again behind the output's.                         *)
WaitForOutput(t, given, h, i, resume) ==
  Step(t, {}, given \union {i}, CountStandby(h, i),
       [th[t] EXCEPT !.pc = "d_out", !.dOut = h.mOutput, !.target = i,
                     !.resume = resume])

InDoStandby(h, i) == InFinishStandby(CountStandby(h, i), i)

-------------------------------------------------------------------------------
(* Opening and closing streams *)

OpenOutputStream(o) ==
  /\ At(Playback, "idle") /\ Free(HW)
  /\ hw.mOutput = NULL /\ o \notin alive
  /\ hw' = [hw EXCEPT !.mOutput = o, !.standby[o] = TRUE, !.pcm[o] = FALSE,
                      !.mixer[o] = FALSE, !.echo[o] = NULL]
  /\ alive' = alive \union {o}
  /\ UNCHANGED <<owner, th>>

OpenInputStream(i) ==
  /\ At(i, "idle") /\ Free(HW)
  /\ i \notin alive
  /\ hw' = [hw EXCEPT !.mInputs = @ \union {i}, !.standby[i] = TRUE,
                      !.pcm[i] = FALSE, !.mixer[i] = FALSE, !.echo[i] = NULL,
                      !.needEcho[i] = FALSE]
  /\ alive' = alive \union {i}
  /\ UNCHANGED <<owner, th>>

CloseOutputStream ==
  /\ "close" \in Calls
  /\ At(Playback, "idle") /\ Free(HW) /\ hw.mOutput # NULL
  /\ LET i  == IF hw.mEchoReference = NULL THEN NULL ELSE getActiveInput_l(hw)
         me == [th[Playback] EXCEPT !.spOut = hw.mOutput, !.spIn = i]
     IN  Step(Playback, {}, {}, [hw EXCEPT !.mOutput = NULL],
              IF i # NULL THEN CallStandby(me, i, "c_dropOut")
              ELSE [me EXCEPT !.pc = "c_dropOut"])
  /\ UNCHANGED alive

(* A client closes an input only when no other call of its own uses it. *)
CloseInputStream(i) ==
  /\ "close" \in Calls
  /\ At(i, "idle") /\ Free(HW) /\ i \in hw.mInputs
  /\ \A u \in Threads : th[u].target = i => th[u].spIn = i
  /\ Step(i, {}, {}, [hw EXCEPT !.mInputs = @ \ {i}],
          [th[i] EXCEPT !.pc = "c_dropIn", !.spIn = i])
  /\ UNCHANGED alive

(* Strong pointers that go out of scope, or are cleared, with no mutex held. *)
DropInput(t) ==
  LET s    == th[t].spIn
      next == IF At(t, "m_dropIn") THEN "m_dropOut" ELSE "idle"
      me   == [th[t] EXCEPT !.spIn = NULL]
  IN  /\ th[t].pc \in {"m_dropIn", "c_dropIn"}
      /\ Step(t, {}, {}, hw,
              IF s # NULL /\ ~HeldElsewhere(s, hw, t) THEN Destructor(me, s, next)
              ELSE [me EXCEPT !.pc = next])
      /\ UNCHANGED alive

DropOutput(t) ==
  LET s    == th[t].spOut
      next == IF At(t, "c_dropOut") THEN "c_dropIn" ELSE "idle"
      me   == [th[t] EXCEPT !.spOut = NULL]
  IN  /\ th[t].pc \in {"m_dropOut", "c_dropOut"}
      /\ Step(t, {}, {}, hw,
              IF s # NULL /\ ~HeldElsewhere(s, hw, t) THEN Destructor(me, s, next)
              ELSE [me EXCEPT !.pc = next])
      /\ UNCHANGED alive

-------------------------------------------------------------------------------
(* standby(), the routing change of setParameters(), and the destructors *)

(* The stream a client thread calls on: it has to be open. *)
MyStream(t) == IF t = Playback THEN hw.mOutput
               ELSE IF t \in hw.mInputs THEN t ELSE NULL

BeginStandby(t, op) ==
  /\ op \in Calls /\ t # Ctl /\ At(t, "idle") /\ MyStream(t) # NULL
  /\ Step(t, {}, {}, hw, [th[t] EXCEPT !.pc = "s_lock", !.target = MyStream(t),
                                       !.op = op, !.after = "idle"])
  /\ UNCHANGED alive

StandbyLock(t) ==
  /\ At(t, "s_lock") /\ Free(th[t].target)
  /\ Step(t, {th[t].target}, {}, hw, [th[t] EXCEPT !.pc = "s_hw"])
  /\ UNCHANGED alive

(* Unlock and return; after a destructor the object is gone. *)
EndStandby(t, h) ==
  LET me == th[t]
  IN  /\ Step(t, {}, {HW, me.target}, h,
              [me EXCEPT !.pc = me.after, !.target = NULL, !.op = "none",
                         !.after = "idle", !.resume = "none"])
      /\ alive' = IF me.op = "destroy" THEN alive \ {me.target} ELSE alive

StandbyHw(t) ==
  LET s == th[t].target
  IN  /\ At(t, "s_hw") /\ Free(HW)
      /\ IF th[t].op = "routing" /\ hw.mMode = "in_call" THEN EndStandby(t, hw)
         ELSE IF s \in Outputs THEN EndStandby(t, OutDoStandby(hw, s))
         ELSE IF NeedsOutputLock(hw, s)
              THEN WaitForOutput(t, {}, hw, s, "s_end") /\ UNCHANGED alive
         ELSE EndStandby(t, InDoStandby(hw, s))

StandbyEnd(t) == At(t, "s_end") /\ EndStandby(t, hw)

(* doStandby_l() of an input, from the wait for the output's lock on.  The  *)
(* output it has locked may be the one that setMode() has in spOut, too.    *)
DoStandbyOut(t) ==
  /\ At(t, "d_out") /\ Free(th[t].dOut)
  /\ Step(t, {th[t].dOut}, {}, hw, [th[t] EXCEPT !.pc = "d_in"])
  /\ UNCHANGED alive

DoStandbyIn(t) ==
  /\ At(t, "d_in") /\ Free(th[t].target)
  /\ Step(t, {th[t].target}, {}, hw, [th[t] EXCEPT !.pc = "d_hw"])
  /\ UNCHANGED alive

DoStandbyHw(t) ==
  LET i  == th[t].target
      o  == th[t].dOut
      h  == releaseEchoReference(hw, hw.echo[i])
      me == [th[t] EXCEPT !.dOut = NULL]
  IN  /\ At(t, "d_hw") /\ Free(HW)
      /\ IF th[t].spOut = o \/ HeldElsewhere(o, hw, t)
         THEN Step(t, {HW}, {o}, InFinishStandby([h EXCEPT !.echo[i] = NULL], i),
                   [me EXCEPT !.pc = me.resume])
         ELSE Step(t, {HW}, {o}, [h EXCEPT !.echo[i] = NULL],
                   Destructor(me, o, me.resume))
      /\ UNCHANGED alive

-------------------------------------------------------------------------------
(* AudioStreamOutALSA::write() *)

BeginWrite ==
  /\ "write" \in Calls /\ At(Playback, "idle") /\ hw.mOutput # NULL
  /\ Step(Playback, {}, {}, hw, [th[Playback] EXCEPT !.pc = "w_out"])
  /\ UNCHANGED alive

WriteLock ==
  /\ At(Playback, "w_out") /\ Free(hw.mOutput)
  /\ Step(Playback, {hw.mOutput}, {}, hw,
          [th[Playback] EXCEPT
             !.pc = IF hw.standby[hw.mOutput] THEN "w_hw" ELSE "w_pcm"])
  /\ UNCHANGED alive

(* Open the output, then the input i that was closed for it.  The wait for  *)
(* the output in doStandby_l() of the input never ends: write() itself holds *)
(* that mutex, so nothing follows "w_fail".                                 *)
WriteOpen(h, i, given) ==
  \E pcmOk, inOk \in Answers("pcm"), mixOk, inMixOk \in Answers("mixer") :
    LET o == h.mOutput
        g == OutOpen(h, o, pcmOk, mixOk)
        k == IF i = NULL THEN g ELSE InOpen(g, i, inOk, inMixOk)
        failed == i # NULL /\ ~k.pcm[i]
        n  == IF failed THEN InDoStandby(k, i) ELSE k
        me == [th[Playback] EXCEPT !.spIn = NULL]
    IN  IF failed /\ NeedsOutputLock(k, i)
        THEN WaitForOutput(Playback, given, k, i, "w_fail")
        ELSE IF n.pcm[o]
        THEN Step(Playback, {}, given \union {i},
                  [n EXCEPT !.standby[o] = FALSE], [me EXCEPT !.pc = "w_pcm"])
        ELSE Step(Playback, {}, given \union {i, o},
                  [n EXCEPT !.wakeLock = FALSE], CallStandby(me, o, "idle"))

(* Look for an active input; its mutex has to be taken before the hardware's. *)
WriteSearch(h, given) ==
  LET i == getActiveInput_l(h)
  IN  IF i = NULL THEN WriteOpen(h, NULL, given)
      ELSE Step(Playback, {}, given, PrepareLock(h, Playback, i),
                [th[Playback] EXCEPT !.pc = "w_in", !.spIn = i])

WriteHw ==
  /\ At(Playback, "w_hw") /\ Free(HW)
  /\ WriteSearch([hw EXCEPT !.wakeLock = TRUE], {})
  /\ UNCHANGED alive

WriteIn ==
  /\ At(Playback, "w_in") /\ Free(th[Playback].spIn)
  /\ Step(Playback, {th[Playback].spIn}, {}, hw,
          [th[Playback] EXCEPT !.pc = "w_hw2"])
  /\ UNCHANGED alive

Unchanged_Bug(t, s, now) == s = now   \* mStandbyCnt is not compared

(* Is s still what thread t read, with no doStandby_l() since? *)
Unchanged(t, s, now) == s = now /\ hw.current[t] = s

WriteRecheck ==
  LET i == th[Playback].spIn
  IN  /\ At(Playback, "w_hw2") /\ Free(HW)
      /\ IF Unchanged(Playback, i, getActiveInput_l(hw))
         THEN WriteOpen(InClose(hw, i), i, {})
         ELSE IF HeldElsewhere(i, hw, Playback) THEN WriteSearch(hw, {i})
         ELSE Step(Playback, {HW}, {i}, hw,
                   Destructor([th[Playback] EXCEPT !.spIn = NULL], i, "w_hw"))
      /\ UNCHANGED alive

(* pcm_write() with the output's mutex held. *)
WritePcm ==
  /\ At(Playback, "w_pcm")
  /\ \E ok \in Answers("io") :
       Step(Playback, {}, {hw.mOutput}, hw,
            IF ok THEN IdleThread
            ELSE CallStandby(th[Playback], hw.mOutput, "idle"))
  /\ UNCHANGED alive

-------------------------------------------------------------------------------
(* AudioStreamInALSA::read() *)

BeginRead(i) ==
  /\ "read" \in Calls /\ At(i, "idle") /\ i \in hw.mInputs
  /\ Step(i, {}, {}, hw, [th[i] EXCEPT !.pc = "r_in"])
  /\ UNCHANGED alive

ReadLock(i) ==
  /\ At(i, "r_in") /\ Free(i)
  /\ Step(i, {i}, {}, hw,
          [th[i] EXCEPT !.pc = IF hw.standby[i] THEN "r_hw" ELSE "r_pcm"])
  /\ UNCHANGED alive

ReadOpen_Bug(i, h, given) ==   \* mPcm == NULL is not tested
  \E pcmOk \in Answers("pcm"), mixOk \in Answers("mixer") :
    Step(i, {}, given, [InOpen(h, i, pcmOk, mixOk) EXCEPT !.standby[i] = FALSE],
         [th[i] EXCEPT !.spOut = NULL, !.pc = "r_pcm"])

ReadOpen(i, h, given) ==
  \E pcmOk \in Answers("pcm"), mixOk \in Answers("mixer") :
    LET k  == InOpen(h, i, pcmOk, mixOk)
        me == [th[i] EXCEPT !.spOut = NULL]
    IN  IF k.pcm[i]
        THEN Step(i, {}, given, [k EXCEPT !.standby[i] = FALSE],
                  [me EXCEPT !.pc = "r_pcm"])
        ELSE Step(i, {}, given \union {i}, k, CallStandby(me, i, "idle"))

ReadSearch_Bug(i, given) ==   \* the input stays locked while waiting
  IF hw.mOutput = NULL THEN ReadOpen(i, hw, given)
  ELSE Step(i, {}, given, hw,
            [th[i] EXCEPT !.pc = "r_out", !.spOut = hw.mOutput])

ReadSearch(i, given) ==
  IF hw.mOutput = NULL THEN ReadOpen(i, hw, given)
  ELSE Step(i, {}, given \union {i}, hw,
            [th[i] EXCEPT !.pc = "r_out", !.spOut = hw.mOutput])

ReadHw(i) == At(i, "r_hw") /\ Free(HW) /\ ReadSearch(i, {}) /\ UNCHANGED alive

ReadOut(i) ==
  /\ At(i, "r_out") /\ Free(th[i].spOut)
  /\ Step(i, {th[i].spOut}, {}, hw, [th[i] EXCEPT !.pc = "r_in2"])
  /\ UNCHANGED alive

ReadIn(i) ==
  /\ At(i, "r_in2") /\ Free(i)
  /\ Step(i, {i}, {}, hw, [th[i] EXCEPT !.pc = "r_hw2"])
  /\ UNCHANGED alive

ReadReopenOut_Bug(h, o, pcmOk, mixOk) ==   \* closed, not opened again
  IF h.standby[o] THEN h ELSE OutClose(h, o)

ReadReopenOut_Bug2(h, o, pcmOk, mixOk) ==  \* a failed open_l() is ignored
  IF h.standby[o] THEN h ELSE OutOpen(OutClose(h, o), o, pcmOk, mixOk)

(* An active output is closed and opened again, so that it is open first.   *)
ReadReopenOut(h, o, pcmOk, mixOk) ==
  IF h.standby[o] THEN h
  ELSE LET g == OutOpen(OutClose(h, o), o, pcmOk, mixOk)
       IN  IF g.pcm[o] THEN g ELSE OutDoStandby(g, o)

(* read() compares the output only, not its mStandbyCnt. *)
OutputUnchanged(i, o) == o = hw.mOutput

ReadRecheck(i) ==
  LET o == th[i].spOut
  IN  /\ At(i, "r_hw2") /\ Free(HW)
      /\ IF OutputUnchanged(i, o)
         THEN \E pcmOk \in Answers("pcm"), mixOk \in Answers("mixer"),
                 made \in Answers("echo") :
                LET g == ReadReopenOut(hw, o, pcmOk, mixOk)
                IN  ReadOpen(i, IF g.needEcho[i] /\ g.echo[i] = NULL
                                THEN getEchoReference(g, i, made) ELSE g, {o})
         ELSE IF HeldElsewhere(o, hw, i) THEN ReadSearch(i, {o})
         ELSE Step(i, {HW}, {o}, hw,
                   Destructor([th[i] EXCEPT !.spOut = NULL], o, "r_hw"))
      /\ UNCHANGED alive

(* pcm_read() with the input's mutex held. *)
ReadPcm(i) ==
  /\ At(i, "r_pcm")
  /\ \E ok \in Answers("io") :
       Step(i, {}, {i}, hw,
            IF ok THEN IdleThread ELSE CallStandby(th[i], i, "idle"))
  /\ UNCHANGED alive

-------------------------------------------------------------------------------
(* AudioHardware::setMode() *)

BeginSetMode(m) ==
  /\ "mode" \in Calls /\ At(Ctl, "idle")
  /\ Step(Ctl, {}, {}, hw, [th[Ctl] EXCEPT !.pc = "m_hw", !.mode = m])
  /\ UNCHANGED alive

UnlockMode(h, me, given) ==
  Step(Ctl, {}, given \union {HW, me.spIn, me.spOut}, h,
       [me EXCEPT !.pc = "m_dropIn", !.target = NULL, !.resume = "none"])

EnterCall(h, me, given) ==
  \E pcmOk \in Answers("pcm"), mixOk \in Answers("mixer") :
    UnlockMode([openMixer_l(openPcmOut_l(h, pcmOk), mixOk) EXCEPT
                  !.mInCallAudioMode = TRUE], me, given)

LeaveCall(h, me, given) ==
  UnlockMode([h EXCEPT !.mInCallAudioMode = FALSE], me, given)

OutToStandby_Bug(h, o) ==   \* the current output instead of the locked one
  IF h.mOutput = NULL THEN h ELSE OutDoStandby(h, h.mOutput)

OutToStandby(h, o) == IF o = NULL THEN h ELSE OutDoStandby(h, o)
InToStandby(h, i)  == IF i = NULL THEN h ELSE InDoStandby(h, i)

(* The base class refuses the mode it is already in.  me.spOut and me.spIn  *)
(* are locked, or NULL.                                                     *)
SwitchMode(me, given) ==
  LET h == [hw EXCEPT !.mMode = me.mode]
      entering == me.mode # hw.mMode /\ me.mode = "in_call"
                  /\ ~hw.mInCallAudioMode
      leaving  == me.mode # hw.mMode /\ me.mode = "normal"
                  /\ hw.mInCallAudioMode
      g == OutToStandby(IF leaving THEN closePcmOut_l(closeMixer_l(h)) ELSE h,
                        me.spOut)
      n == InToStandby(g, me.spIn)
  IN  IF ~entering /\ ~leaving THEN UnlockMode(h, me, given)
      ELSE IF me.spIn # NULL /\ NeedsOutputLock(g, me.spIn)
      THEN WaitForOutput(Ctl, given, g, me.spIn,
                         IF entering THEN "m_enter" ELSE "m_leave")
      ELSE IF entering THEN EnterCall(n, me, given) ELSE LeaveCall(n, me, given)

(* Look for an active input, then switch. *)
ModeSearchIn(me, given) ==
  LET i == getActiveInput_l(hw)
  IN  IF i = NULL THEN SwitchMode([me EXCEPT !.spIn = NULL], given)
      ELSE Step(Ctl, {}, given, PrepareLock(hw, Ctl, i),
                [me EXCEPT !.pc = "m_in", !.spIn = i])

(* Look for an active output, then for an active input. *)
ModeSearchOut(given) ==
  LET o  == hw.mOutput
      me == th[Ctl]
  IN  IF o = NULL \/ hw.standby[o]
      THEN ModeSearchIn([me EXCEPT !.spOut = NULL], given)
      ELSE Step(Ctl, {}, given, PrepareLock(hw, Ctl, o),
                [me EXCEPT !.pc = "m_out", !.spOut = o])

ModeHw == At(Ctl, "m_hw") /\ Free(HW) /\ ModeSearchOut({}) /\ UNCHANGED alive

ModeOut ==
  /\ At(Ctl, "m_out") /\ Free(th[Ctl].spOut)
  /\ Step(Ctl, {th[Ctl].spOut}, {}, hw, [th[Ctl] EXCEPT !.pc = "m_hwo"])
  /\ UNCHANGED alive

ModeRecheckOut ==
  LET o == th[Ctl].spOut
  IN  /\ At(Ctl, "m_hwo") /\ Free(HW)
      /\ IF Unchanged(Ctl, o, hw.mOutput) THEN ModeSearchIn(th[Ctl], {})
         ELSE IF HeldElsewhere(o, hw, Ctl) THEN ModeSearchOut({o})
         ELSE Step(Ctl, {HW}, {o}, hw,
                   Destructor([th[Ctl] EXCEPT !.spOut = NULL], o, "m_hw"))
      /\ UNCHANGED alive

ModeIn ==
  /\ At(Ctl, "m_in") /\ Free(th[Ctl].spIn)
  /\ Step(Ctl, {th[Ctl].spIn}, {}, hw, [th[Ctl] EXCEPT !.pc = "m_hwi"])
  /\ UNCHANGED alive

ModeRecheckIn ==
  LET i == th[Ctl].spIn
  IN  /\ At(Ctl, "m_hwi") /\ Free(HW)
      /\ IF Unchanged(Ctl, i, getActiveInput_l(hw)) THEN SwitchMode(th[Ctl], {})
         ELSE IF HeldElsewhere(i, hw, Ctl) THEN ModeSearchIn(th[Ctl], {i})
         ELSE Step(Ctl, {HW}, {i}, hw,
                   Destructor([th[Ctl] EXCEPT !.spIn = NULL], i, "m_hwi"))
      /\ UNCHANGED alive

(* setMode() goes on after doStandby_l() of the input has waited. *)
ModeResume ==
  /\ \/ At(Ctl, "m_enter") /\ EnterCall(hw, th[Ctl], {})
     \/ At(Ctl, "m_leave") /\ LeaveCall(hw, th[Ctl], {})
  /\ UNCHANGED alive

-------------------------------------------------------------------------------
(* setMicMute(), addAudioEffect() and removeAudioEffect() *)

(* The mute state changes; in a call the modem mutes. *)
SetMicMute ==
  LET i == getActiveInput_l(hw)
  IN  /\ "mute" \in Calls /\ At(Ctl, "idle") /\ Free(HW)
      /\ hw.mMode # "in_call" /\ i # NULL
      /\ Step(Ctl, {}, {}, hw,
              CallStandby([th[Ctl] EXCEPT !.spIn = i], i, "c_dropIn"))
      /\ UNCHANGED alive

(* An echo canceller is added to or removed from an input: the flag is      *)
(* written with no mutex held, then the input is put in standby.            *)
ChangeAec(i) ==
  /\ "aec" \in Calls /\ At(Ctl, "idle") /\ i \in hw.mInputs
  /\ Step(Ctl, {}, {}, [hw EXCEPT !.needEcho[i] = ~@],
          CallStandby(th[Ctl], i, "idle"))
  /\ UNCHANGED alive

-------------------------------------------------------------------------------

(* A call begins ... *)
Begin ==
  \/ \E o \in Outputs : OpenOutputStream(o)
  \/ \E i \in Inputs : OpenInputStream(i) \/ CloseInputStream(i)
                       \/ BeginRead(i) \/ ChangeAec(i)
  \/ CloseOutputStream
  \/ BeginWrite
  \/ \E t \in Threads, op \in {"standby", "routing"} : BeginStandby(t, op)
  \/ \E m \in Modes : BeginSetMode(m)
  \/ SetMicMute

(* ... and goes on. *)
StandbyStep(t) ==
  \/ StandbyLock(t) \/ StandbyHw(t) \/ StandbyEnd(t)
  \/ DoStandbyOut(t) \/ DoStandbyIn(t) \/ DoStandbyHw(t)

WriteStep == WriteLock \/ WriteHw \/ WriteIn \/ WriteRecheck \/ WritePcm

ReadStep(i) == ReadLock(i) \/ ReadHw(i) \/ ReadOut(i) \/ ReadIn(i)
               \/ ReadRecheck(i) \/ ReadPcm(i)

ModeStep == ModeHw \/ ModeOut \/ ModeRecheckOut \/ ModeIn \/ ModeRecheckIn
            \/ ModeResume

Continue(t) ==
  \/ StandbyStep(t) \/ DropInput(t) \/ DropOutput(t)
  \/ t = Playback /\ WriteStep
  \/ t \in Inputs /\ ReadStep(t)
  \/ t = Ctl /\ ModeStep

Next == Begin \/ \E t \in Threads : Continue(t)

Spec == Init /\ [][Next]_vars

(* The mutexes are not fair, but a thread that will need one sets mSleepReq  *)
(* first and the client thread that holds it sleeps before it asks again:    *)
(* whoever waits for a mutex obtains it.                                     *)
FairSpec == Spec /\ \A t \in Threads : SF_vars(Continue(t))
===============================================================================
