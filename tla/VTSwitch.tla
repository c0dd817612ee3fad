------------------------------ MODULE VTSwitch ------------------------------
(***************************************************************************)
(* Virtual console switching in svgalib (src/src/vga.c).                   *)
(*                                                                         *)
(* One process, four contexts: the program itself ("main"), which calls    *)
(* the library, and the handlers of SIGUSR1 ("release"), SIGUSR2           *)
(* ("acquire") and of the fatal signals ("fatal").  The handlers are       *)
(* installed with an empty sa_mask (SETSIG, vga.c:67), so any of them      *)
(* interrupts any other context between two steps, and only `top' runs.    *)
(* pc[c] is where context c is; below[c] is the context it interrupted.    *)
(*                                                                         *)
(* Definitions named Faulty... are plausible mistakes in the definition    *)
(* that follows them.  No action uses them: they are there to show that    *)
(* the properties tell them from the code.                                 *)
(*                                                                         *)
(* vga_setmode is a routine any context calls: arg[c] is its mode argument *)
(* and ret[c] the place it returns to.                                     *)
(***************************************************************************)
EXTENDS VTKernel, Integers

CONSTANTS
  GraphMode,  \* the graphics modes of the card
  TEXT,       \* the text mode
  Fallback,   \* G640x480x256, forced into CM when a mode set fails
  Image,      \* what the program can draw
  Blank,      \* the image vga_clear leaves
  Undefined,  \* contents nobody defined
  MaxLock,    \* bound on nested vga_lockvc calls
  BadMode,    \* modes vga_hasmode accepts and chipset_setmode rejects
  Style,      \* what the program does: a "careful" one flips, and changes
              \* background running, only under vga_lockvc and in front; so
              \* it sets modes while running in the background; "any" one
              \* does anything
  Uses,       \* the services it uses, of "flip" and "background"
  Patient,    \* the user waits for a switch to finish before the next one
  Fatal       \* fatal signals occur

Mode == GraphMode \cup {TEXT}
Ctx == {"main", "release", "acquire", "fatal"}

ASSUME VTSwitchAssumption ==
  /\ TEXT \notin GraphMode
  /\ Fallback \in GraphMode
  /\ Blank \in Image
  /\ Undefined \notin Image
  /\ MaxLock \in Nat
  /\ BadMode \subseteq GraphMode
  /\ Style \in {"careful", "any"} /\ Uses \subseteq {"flip", "background"}
  /\ {Patient, Fatal} \subseteq BOOLEAN

VARIABLES
  top, below, pc, arg, ret,                  \* control
  CM, flip_mode, flip,                       \* modes the library believes in
  lock_count, release_flag,                  \* vga_lockvc
  forbidvtrelease, forbidvtacquire,          \* handler against handler
  runinbackground, oktowrite,                \* background running
  screenon, hw, vram,                        \* the card: video output, mode
                                             \* programmed, video memory
  graph_buf, bufkind,                        \* save buffer: contents, and how
                                             \* it was allocated
  map,                                       \* where GM and the linear window
                                             \* point: "video" or "buffer"
  app_bg, app_flip                           \* what the program knows: in the
                                             \* background, inside vga_flip

ctlVars == <<top, below, pc, arg, ret>>
modeVars == <<CM, flip_mode, flip>>
lockVars == <<lock_count, release_flag>>
forbidVars == <<forbidvtrelease, forbidvtacquire>>
bgVars == <<runinbackground, oktowrite>>
cardVars == <<screenon, hw, vram>>
bufVars == <<graph_buf, bufkind>>
appVars == <<app_bg, app_flip>>
vars == <<ctlVars, modeVars, lockVars, forbidVars, bgVars, cardVars, bufVars,
          map, appVars, vtVars>>

SetmodeLabel == {"sm_enter", "sm_prog", "sm_end"}
ReleaseLabel == {"rel", "fa", "fa_save", "fa_done", "reldisp", "rel_allow",
                 "rel_suspend", "rel_wait"}
AcquireLabel == {"acq", "fb", "fb_restore", "ack", "acq_end"}
ExitLabel == {"rt", "rt_end", "dead"}
MainLabel == {"idle", "rib_wait", "rib_set", "vf_done", "vf_restore"}
Label == SetmodeLabel \cup ReleaseLabel \cup AcquireLabel \cup ExitLabel
           \cup MainLabel \cup {"off"}

TypeOK ==
  /\ VTTypeOK
  /\ top \in Ctx
  /\ below \in [Ctx -> Ctx]
  /\ pc \in [Ctx -> Label]
  /\ arg \in [Ctx -> Mode]
  /\ ret \in [Ctx -> Label]
  /\ {CM, flip_mode, hw} \subseteq Mode
  /\ lock_count \in 0 .. MaxLock
  /\ {flip, release_flag, forbidvtrelease, forbidvtacquire, runinbackground,
      oktowrite, screenon, app_bg, app_flip} \subseteq BOOLEAN
  /\ {vram, graph_buf} \subseteq Image \cup {Undefined}
  /\ bufkind \in {"none", "heap", "file"}
  /\ map \in {"video", "buffer"}

(***************************************************************************)
(* The program has called vga_init and vga_setmode(TEXT): the console is   *)
(* in VT_PROCESS mode and the card in the saved text mode.                 *)
(***************************************************************************)
Init ==
  /\ VTInit
  /\ top = "main"
  /\ below = [c \in Ctx |-> "main"]
  /\ pc = [c \in Ctx |-> IF c = "main" THEN "idle" ELSE "off"]
  /\ arg = [c \in Ctx |-> TEXT]
  /\ ret = [c \in Ctx |-> "idle"]
  /\ CM = TEXT /\ flip_mode = TEXT /\ flip = FALSE
  /\ lock_count = 0 /\ release_flag = FALSE
  /\ forbidvtrelease = FALSE /\ forbidvtacquire = FALSE
  /\ runinbackground = FALSE /\ oktowrite = TRUE
  /\ screenon = TRUE /\ hw = TEXT /\ vram = Undefined
  /\ graph_buf = Undefined /\ bufkind = "none" /\ map = "video"
  /\ app_bg = FALSE /\ app_flip = FALSE

-----------------------------------------------------------------------------
(* Control flow of a context.                                              *)

At(c, l) == top = c /\ pc[c] = l
Goto(c, l) == pc' = [pc EXCEPT ![c] = l] /\ UNCHANGED <<top, below, arg, ret>>

(* The main program goes on; a handler returns to what it interrupted. *)
Return(c) ==
  /\ pc' = [pc EXCEPT ![c] = IF c = "main" THEN "idle" ELSE "off"]
  /\ top' = below[c]
  /\ UNCHANGED <<below, arg, ret>>

CallSetmode(c, m, l) ==
  /\ pc' = [pc EXCEPT ![c] = "sm_enter"]
  /\ arg' = [arg EXCEPT ![c] = m]
  /\ ret' = [ret EXCEPT ![c] = l]
  /\ UNCHANGED <<top, below>>

Interrupt(h, l) ==
  /\ pc[h] = "off"
  /\ pc["fatal"] # "dead" /\ pc["main"] # "dead"
  /\ pc' = [pc EXCEPT ![h] = l]
  /\ top' = h
  /\ below' = [below EXCEPT ![h] = top]
  /\ UNCHANGED <<arg, ret>>

(* A signal whose handler is running is blocked; any other is delivered. *)
Deliverable ==
  \/ RelSig \in pend /\ pc["release"] = "off"
  \/ AcqSig \in pend /\ pc["acquire"] = "off"

(* waitvtactive: VT_WAITACTIVE returns, after the pending handlers ran. *)
FaultyVTActiveAtOnce == TRUE
FaultyVTActiveElsewhere == fg = "other"
VTActive == fg = "ours" /\ ~Deliverable

-----------------------------------------------------------------------------
(* vga_setmode, called by context c for mode arg[c].                       *)

(* Lines 1908-1917: the globals change first, then the screen goes dark. *)
SetmodeEnter(c) ==
  /\ At(c, "sm_enter")
  /\ CM' = arg[c]
  /\ screenon' = FALSE
  /\ kd' = IF CM = TEXT /\ arg[c] # TEXT THEN "graphics" ELSE kd
  /\ Goto(c, "sm_prog")
  /\ UNCHANGED <<flip_mode, flip, lockVars, forbidVars, bgVars, hw, vram,
                 bufVars, map, appVars, fg, newvt, vtmode, pend>>

(* The card is programmed; the contents of video memory are not kept. *)
SetmodeProgram(c) ==
  /\ At(c, "sm_prog")
  /\ arg[c] \notin BadMode
  /\ hw' = arg[c]
  /\ vram' = Undefined
  /\ Goto(c, "sm_end")
  /\ UNCHANGED <<modeVars, lockVars, forbidVars, bgVars, screenon, bufVars,
                 map, appVars, vtVars>>

(* chipset_setmode fails: back to text mode by a nested call. *)
SetmodeFail(c) ==
  /\ At(c, "sm_prog")
  /\ arg[c] \in BadMode
  /\ CM' = Fallback
  /\ CallSetmode(c, TEXT, ret[c])
  /\ UNCHANGED <<flip_mode, flip, lockVars, forbidVars, bgVars,
                 cardVars, bufVars, map, appVars, vtVars>>

(* What a write through GM or the linear window reaches. *)
Paint(img) ==
  IF map = "video"
    THEN vram' = img /\ UNCHANGED graph_buf
    ELSE graph_buf' = img /\ UNCHANGED vram

(* Text: KD_TEXT and the screen on.  Graphics: a flip leaves the screen    *)
(* dark and the memory alone, a real mode set clears it.                   *)
SetmodeEnd(c) ==
  /\ At(c, "sm_end")
  /\ \/ /\ arg[c] = TEXT
        /\ kd' = "text" /\ screenon' = TRUE
        /\ UNCHANGED <<vram, graph_buf>>
     \/ /\ arg[c] # TEXT /\ flip
        /\ UNCHANGED <<kd, screenon, vram, graph_buf>>
     \/ /\ arg[c] # TEXT /\ ~flip
        /\ Paint(Blank) /\ screenon' = TRUE
        /\ UNCHANGED kd
  /\ Goto(c, ret[c])
  /\ UNCHANGED <<modeVars, lockVars, forbidVars, bgVars, hw, bufkind, map,
                 appVars, fg, newvt, vtmode, pend>>

Setmode(c) ==
  \/ SetmodeEnter(c)
  \/ SetmodeProgram(c)
  \/ SetmodeFail(c)
  \/ SetmodeEnd(c)

-----------------------------------------------------------------------------
(* savestate and restorestate.                                             *)

SaveState ==
  /\ screenon' = FALSE
  /\ graph_buf' = IF map = "video" THEN vram ELSE graph_buf
  /\ bufkind' = IF runinbackground THEN "file" ELSE "heap"
  /\ UNCHANGED <<hw, vram>>

FaultyRestoreStateDark ==
  /\ vram' = graph_buf
  /\ graph_buf' = Undefined
  /\ bufkind' = "none"
  /\ UNCHANGED <<screenon, hw>>

FaultyRestoreStateLost ==
  /\ screenon' = TRUE
  /\ graph_buf' = Undefined
  /\ bufkind' = "none"
  /\ UNCHANGED <<hw, vram>>

FaultyRestoreStateKept ==
  /\ screenon' = TRUE
  /\ vram' = graph_buf
  /\ UNCHANGED <<hw, graph_buf, bufkind>>

RestoreState ==
  /\ screenon' = TRUE
  /\ vram' = IF map = "video" THEN graph_buf ELSE vram
  /\ graph_buf' = Undefined
  /\ bufkind' = "none"
  /\ UNCHANGED hw

-----------------------------------------------------------------------------
(* releasevt_signal, in its handler or called by vga_unlockvc in main.     *)

FaultyLocked == lock_count > 1
Locked == lock_count > 0

DeferRelease(c) ==
  /\ At(c, "rel")
  /\ Locked
  /\ release_flag' = TRUE
  /\ Return(c)
  /\ UNCHANGED <<modeVars, lock_count, forbidVars, bgVars, cardVars, bufVars,
                 map, appVars, vtVars>>

RefuseRelease(c) ==
  /\ At(c, "rel")
  /\ ~Locked
  /\ forbidvtrelease
  /\ forbidvtacquire' = FALSE
  /\ RelDisp("no")
  /\ Return(c)
  /\ UNCHANGED <<modeVars, lockVars, forbidvtrelease, bgVars, cardVars,
                 bufVars, map, appVars>>

FaultyBeginRelease(c) ==
  /\ At(c, "rel")
  /\ ~Locked
  /\ ~forbidvtrelease
  /\ app_bg' = TRUE
  /\ Goto(c, "fa")
  /\ UNCHANGED <<modeVars, lockVars, forbidVars, bgVars, cardVars, bufVars,
                 map, app_flip, vtVars>>

(* The callback __svgalib_go_to_background tells the program. *)
BeginRelease(c) ==
  /\ At(c, "rel")
  /\ ~Locked
  /\ ~forbidvtrelease
  /\ forbidvtacquire' = TRUE
  /\ app_bg' = TRUE
  /\ Goto(c, "fa")
  /\ UNCHANGED <<modeVars, lockVars, forbidvtrelease, bgVars, cardVars,
                 bufVars, map, app_flip, vtVars>>

FaultyFlipAway(c) ==
  /\ At(c, "fa")
  /\ flip_mode' = CM
  /\ Goto(c, IF flip_mode = TEXT THEN "reldisp" ELSE "fa_save")
  /\ UNCHANGED <<CM, flip, lockVars, forbidVars, bgVars, cardVars, bufVars,
                 map, appVars, vtVars>>

FlipAway(c) ==
  /\ At(c, "fa")
  /\ flip_mode' = CM
  /\ Goto(c, IF CM = TEXT THEN "reldisp" ELSE "fa_save")
  /\ UNCHANGED <<CM, flip, lockVars, forbidVars, bgVars, cardVars,
                 bufVars, map, appVars, vtVars>>

FlipAwaySave(c) ==
  /\ At(c, "fa_save")
  /\ SaveState
  /\ flip' = TRUE
  /\ CallSetmode(c, TEXT, "fa_done")
  /\ UNCHANGED <<CM, flip_mode, lockVars, forbidVars, bgVars, map,
                 appVars, vtVars>>

(* In background mode the program's windows move to the save buffer. *)
FaultyAwayMap == map
AwayMap == IF runinbackground THEN "buffer" ELSE map

FlipAwayDone(c) ==
  /\ At(c, "fa_done")
  /\ flip' = FALSE
  /\ map' = AwayMap
  /\ Goto(c, "reldisp")
  /\ UNCHANGED <<CM, flip_mode, lockVars, forbidVars, bgVars,
                 cardVars, bufVars, appVars, vtVars>>

GrantRelease(c) ==
  /\ At(c, "reldisp")
  /\ RelDisp("yes")
  /\ Goto(c, "rel_allow")
  /\ UNCHANGED <<modeVars, lockVars, forbidVars, bgVars, cardVars, bufVars,
                 map, appVars>>

AllowAcquire(c) ==
  /\ At(c, "rel_allow")
  /\ forbidvtacquire' = FALSE
  /\ IF runinbackground THEN Return(c) ELSE Goto(c, "rel_suspend")
  /\ UNCHANGED <<modeVars, lockVars, forbidvtrelease, bgVars, cardVars,
                 bufVars, map, appVars, vtVars>>

Suspend(c) ==
  /\ At(c, "rel_suspend")
  /\ oktowrite' = FALSE
  /\ Goto(c, "rel_wait")
  /\ UNCHANGED <<modeVars, lockVars, forbidVars, runinbackground, cardVars,
                 bufVars, map, appVars, vtVars>>

Wake(c) ==
  /\ At(c, "rel_wait")
  /\ VTActive
  /\ Return(c)
  /\ UNCHANGED <<modeVars, lockVars, forbidVars, bgVars, cardVars, bufVars,
                 map, appVars, vtVars>>

Release(c) ==
  \/ DeferRelease(c)
  \/ RefuseRelease(c)
  \/ BeginRelease(c)
  \/ FlipAway(c)
  \/ FlipAwaySave(c)
  \/ FlipAwayDone(c)
  \/ GrantRelease(c)
  \/ AllowAcquire(c)
  \/ Suspend(c)
  \/ Wake(c)

-----------------------------------------------------------------------------
(* acquirevt_signal.                                                       *)

(* During a release the request is dropped: nothing acknowledges it. *)
IgnoreAcquire(c) ==
  /\ At(c, "acq")
  /\ forbidvtacquire
  /\ forbidvtrelease' = FALSE
  /\ Return(c)
  /\ UNCHANGED <<modeVars, lockVars, forbidvtacquire, bgVars, cardVars,
                 bufVars, map, appVars, vtVars>>

BeginAcquire(c) ==
  /\ At(c, "acq")
  /\ ~forbidvtacquire
  /\ forbidvtrelease' = TRUE
  /\ Goto(c, "fb")
  /\ UNCHANGED <<modeVars, lockVars, forbidvtacquire, bgVars, cardVars,
                 bufVars, map, appVars, vtVars>>

FlipBack(c) ==
  /\ At(c, "fb")
  /\ IF flip_mode = TEXT
       THEN /\ Goto(c, "ack")
            /\ UNCHANGED <<flip, map>>
       ELSE /\ map' = IF runinbackground THEN "video" ELSE map
            /\ flip' = TRUE
            /\ CallSetmode(c, flip_mode, "fb_restore")
  /\ UNCHANGED <<CM, flip_mode, lockVars, forbidVars, bgVars,
                 cardVars, bufVars, appVars, vtVars>>

FlipBackRestore(c) ==
  /\ At(c, "fb_restore")
  /\ flip' = FALSE
  /\ RestoreState
  /\ Goto(c, "ack")
  /\ UNCHANGED <<CM, flip_mode, lockVars, forbidVars, bgVars, map,
                 appVars, vtVars>>

AckAcquire(c) ==
  /\ At(c, "ack")
  /\ RelDisp("ackacq")
  /\ Goto(c, "acq_end")
  /\ UNCHANGED <<modeVars, lockVars, forbidVars, bgVars, cardVars, bufVars,
                 map, appVars>>

(* The callback __svgalib_come_from_background tells the program. *)
EndAcquire(c) ==
  /\ At(c, "acq_end")
  /\ forbidvtrelease' = FALSE
  /\ app_bg' = FALSE
  /\ oktowrite' = TRUE
  /\ Return(c)
  /\ UNCHANGED <<modeVars, lockVars, forbidvtacquire, runinbackground,
                 cardVars, bufVars, map, app_flip, vtVars>>

Acquire(c) ==
  \/ IgnoreAcquire(c)
  \/ BeginAcquire(c)
  \/ FlipBack(c)
  \/ FlipBackRestore(c)
  \/ AckAcquire(c)
  \/ EndAcquire(c)

-----------------------------------------------------------------------------
(* restoretextmode, from a fatal signal handler or from atexit in main.    *)

FaultyInGraphics == CM # TEXT /\ ~flip
InGraphics == CM # TEXT

RestoreText(c) ==
  /\ At(c, "rt")
  /\ IF InGraphics THEN CallSetmode(c, TEXT, "rt_end") ELSE Goto(c, "rt_end")
  /\ UNCHANGED <<modeVars, lockVars, forbidVars, bgVars, cardVars, bufVars,
                 map, appVars, vtVars>>

(* The kernel takes the console back; then the process is gone. *)
RestoreTextEnd(c) ==
  /\ At(c, "rt_end")
  /\ screenon' = TRUE
  /\ kd' = "text" /\ vtmode' = "auto" /\ newvt' = FALSE /\ pend' = {}
  /\ Goto(c, "dead")
  /\ UNCHANGED <<modeVars, lockVars, forbidVars, bgVars, hw, vram, bufVars,
                 map, appVars, fg>>

Terminate(c) == RestoreText(c) \/ RestoreTextEnd(c)

Alive == "dead" \notin {pc["main"], pc["fatal"]}

-----------------------------------------------------------------------------
(* The calls of the program.                                               *)

Running == At("main", "idle")

(* A careful program brackets the delicate calls with vga_lockvc, makes    *)
(* them only in the foreground, and does nothing else inside vga_flip.     *)
Careful == Style = "careful"
Bracketed == Careful => lock_count > 0 /\ ~app_bg
Unflipped == Careful => ~app_flip

(* Line 3995 waits when flip is set, which it never is while main runs.     *)
vga_lockvc ==
  /\ Running
  /\ lock_count < MaxLock
  /\ flip => VTActive
  /\ lock_count' = lock_count + 1
  /\ UNCHANGED <<ctlVars, modeVars, release_flag, forbidVars, bgVars,
                 cardVars, bufVars, map, appVars, vtVars>>

(* The count after --lock_count, and whether a deferred release is due. *)
FaultyUnlocked(n) == n - 1
Unlocked(n) == IF n - 1 <= 0 THEN 0 ELSE n - 1

FaultyReleaseDue(n) == n - 1 < 0 /\ release_flag
ReleaseDue(n) == n - 1 <= 0 /\ release_flag

vga_unlockvc ==
  /\ Running
  /\ Unflipped
  /\ lock_count' = Unlocked(lock_count)
  /\ IF ReleaseDue(lock_count)
       THEN release_flag' = FALSE /\ Goto("main", "rel")
       ELSE UNCHANGED <<release_flag, ctlVars>>
  /\ UNCHANGED <<modeVars, forbidVars, bgVars, cardVars, bufVars, map,
                 appVars, vtVars>>

vga_setmode ==
  /\ Running
  /\ Unflipped /\ (runinbackground => Bracketed)
  /\ \E m \in Mode : CallSetmode("main", m, "idle")
  /\ UNCHANGED <<modeVars, lockVars, forbidVars, bgVars, cardVars, bufVars,
                 map, appVars, vtVars>>

(* Switching background running off first waits for the console. *)
vga_runinbackground ==
  /\ Running
  /\ "background" \in Uses /\ Unflipped /\ Bracketed
  /\ Goto("main", IF runinbackground THEN "rib_wait" ELSE "rib_set")
  /\ UNCHANGED <<modeVars, lockVars, forbidVars, bgVars, cardVars, bufVars,
                 map, appVars, vtVars>>

RunInBackgroundWait ==
  /\ At("main", "rib_wait")
  /\ VTActive
  /\ Goto("main", "rib_set")
  /\ UNCHANGED <<modeVars, lockVars, forbidVars, bgVars, cardVars, bufVars,
                 map, appVars, vtVars>>

RunInBackgroundSet ==
  /\ At("main", "rib_set")
  /\ runinbackground' = ~runinbackground
  /\ Goto("main", "idle")
  /\ UNCHANGED <<modeVars, lockVars, forbidVars, oktowrite, cardVars, bufVars,
                 map, appVars, vtVars>>

(* vga_flip: to text and back, through the same save buffer. *)
vga_flip ==
  /\ Running
  /\ "flip" \in Uses /\ Bracketed
  /\ app_flip' = ~app_flip
  /\ flip' = TRUE
  /\ \/ /\ CM # TEXT
        /\ ~app_flip
        /\ SaveState
        /\ flip_mode' = CM
        /\ CallSetmode("main", TEXT, "vf_done")
     \/ /\ CM = TEXT
        /\ app_flip
        /\ CallSetmode("main", flip_mode, "vf_restore")
        /\ UNCHANGED <<flip_mode, cardVars, bufVars>>
  /\ UNCHANGED <<CM, lockVars, forbidVars, bgVars, map, app_bg,
                 vtVars>>

FlipDone ==
  /\ At("main", "vf_done")
  /\ flip' = FALSE
  /\ Goto("main", "idle")
  /\ UNCHANGED <<CM, flip_mode, lockVars, forbidVars, bgVars,
                 cardVars, bufVars, map, appVars, vtVars>>

FlipRestore ==
  /\ At("main", "vf_restore")
  /\ flip' = FALSE
  /\ RestoreState
  /\ Goto("main", "idle")
  /\ UNCHANGED <<CM, flip_mode, lockVars, forbidVars, bgVars, map,
                 appVars, vtVars>>

(* The program's screen: in the save buffer while there is one. *)
ScreenMode == IF bufkind = "none" THEN CM ELSE flip_mode
ScreenImage == IF bufkind = "none" THEN vram ELSE graph_buf

Draw ==
  /\ Running
  /\ ScreenMode # TEXT /\ ~app_flip
  /\ \E img \in Image : Paint(img)
  /\ UNCHANGED <<ctlVars, modeVars, lockVars, forbidVars, bgVars, screenon,
                 hw, bufkind, map, appVars, vtVars>>

Exit ==
  /\ Running
  /\ runinbackground \/ app_flip => Bracketed
  /\ Goto("main", "rt")
  /\ UNCHANGED <<modeVars, lockVars, forbidVars, bgVars, cardVars, bufVars,
                 map, appVars, vtVars>>

Call ==
  \/ vga_lockvc
  \/ vga_unlockvc
  \/ vga_setmode
  \/ vga_runinbackground
  \/ RunInBackgroundWait
  \/ RunInBackgroundSet
  \/ vga_flip
  \/ FlipDone
  \/ FlipRestore
  \/ Draw
  \/ Exit

-----------------------------------------------------------------------------
(* Signals and the user.                                                   *)

progVars == <<modeVars, lockVars, forbidVars, bgVars, cardVars, bufVars, map,
              appVars>>

ReleaseSignal ==
  /\ RelSig \in pend
  /\ Interrupt("release", "rel")
  /\ pend' = pend \ {RelSig}
  /\ UNCHANGED <<progVars, fg, newvt, vtmode, kd>>

AcquireSignal ==
  /\ AcqSig \in pend
  /\ Interrupt("acquire", "acq")
  /\ pend' = pend \ {AcqSig}
  /\ UNCHANGED <<progVars, fg, newvt, vtmode, kd>>

FatalSignal ==
  /\ Fatal
  /\ Interrupt("fatal", "rt")
  /\ UNCHANGED <<progVars, vtVars>>

(* No signal is on its way and no handler is at work: the program runs or  *)
(* is suspended.                                                           *)
HandshakeDone ==
  /\ pend = {} /\ ~newvt
  /\ \/ pc[top] = "rel_wait"
     \/ top = "main" /\ pc["main"] \notin ReleaseLabel

User ==
  /\ Patient /\ Alive => HandshakeDone
  /\ RequestAway \/ SwitchBack
  /\ UNCHANGED <<ctlVars, progVars>>

Step(c) == Setmode(c) \/ Release(c) \/ Acquire(c) \/ Terminate(c)

Library == \E c \in Ctx : Step(c)

Next ==
  \/ Library
  \/ Call
  \/ ReleaseSignal
  \/ AcquireSignal
  \/ FatalSignal
  \/ User

Spec == Init /\ [][Next]_vars

-----------------------------------------------------------------------------
(* Properties.                                                             *)

InFlipAway(c) ==
  \/ pc[c] \in {"fa", "fa_save", "fa_done"}
  \/ pc[c] \in SetmodeLabel /\ ret[c] = "fa_done"

InFlipBack(c) ==
  \/ pc[c] \in {"fb", "fb_restore", "ack"}
  \/ pc[c] \in SetmodeLabel /\ ret[c] = "fb_restore"

(***************************************************************************)
(* When another console is visible the card is in text mode with the       *)
(* output on: releasevt_signal answers VT_RELDISP only after flipaway has  *)
(* finished, and nothing puts graphics back before the console returns.    *)
(* The exception is a release that interrupts the program's own            *)
(* vga_setmode(TEXT), or that of a fatal signal, which has set CM and not  *)
(* yet the card: flipaway finds nothing to do.                             *)
(***************************************************************************)
ReleasedIsText ==
  /\ Alive /\ fg = "other"
  /\ \A c \in {"main", "fatal"} : ~(pc[c] \in SetmodeLabel /\ arg[c] = TEXT)
  =>
    hw = TEXT /\ kd = "text" /\ screenon

(***************************************************************************)
(* While the program runs in front, its mode is the one on the card, the   *)
(* output is on, its windows point at video memory, and a save buffer      *)
(* exists only inside vga_flip: every flipaway was undone by a flipback.   *)
(***************************************************************************)
ShownInFront ==
  Running /\ VTActive /\ ~app_bg =>
    /\ hw = CM /\ screenon /\ map = "video"
    /\ kd = "graphics" <=> CM # TEXT
    /\ bufkind # "none" <=> app_flip
    /\ oktowrite

(***************************************************************************)
(* A program that runs while another console is visible and has a graphics *)
(* screen writes into a save buffer it can share, never to the card.       *)
(***************************************************************************)
NoScribble ==
  Running /\ fg = "other" /\ ScreenMode # TEXT =>
    map = "buffer" /\ bufkind = "file"

(***************************************************************************)
(* alloc_graph_buf never overwrites a buffer in use, and free_graph_buf,   *)
(* which looks at the present runinbackground, frees a buffer the way it   *)
(* was allocated.                                                          *)
(***************************************************************************)
BufferMatched ==
  /\ pc[top] = "fa_save" => bufkind = "none"
  /\ pc[top] \in {"fb_restore", "vf_restore"} =>
       bufkind = IF runinbackground THEN "file" ELSE "heap"

(***************************************************************************)
(* Without background running the program is suspended while its console   *)
(* is not the visible one (doc/man3/vga_runinbackground.3).                *)
(***************************************************************************)
SuspendedWhenHidden ==
  fg = "other" /\ ~runinbackground /\ Alive => ~Running

(***************************************************************************)
(* The console is never given away while the program holds vga_lockvc.     *)
(***************************************************************************)
LockHolds ==
  [][fg = "ours" /\ fg' = "other" /\ Alive => lock_count = 0]_vars

(***************************************************************************)
(* The forbid flags keep a SIGUSR2 handler from restoring the screen in    *)
(* the middle of a SIGUSR1 handler's flipaway, and the other way round,    *)
(* however fast the user switches.                                         *)
(***************************************************************************)
FlipsExclude == ~(InFlipAway("release") /\ InFlipBack("acquire"))

(***************************************************************************)
(* No release is granted under vga_lockvc, whatever the program calls and  *)
(* however fast the user switches: the count that releasevt_signal tested  *)
(* is still zero when it answers.  acquirevt_signal is excluded: its       *)
(* VT_ACKACQ completes a request made meanwhile, lock or no lock.          *)
(***************************************************************************)
GrantsUnlocked ==
  [][top # "acquire" /\ fg = "ours" /\ fg' = "other" /\ Alive =>
       lock_count = 0]_vars

(***************************************************************************)
(* Transparent virtual console switching: the program's own screen is as   *)
(* if there were no switches (Screen.tla).                                 *)
(***************************************************************************)
InCall ==
  \/ pc["main"] \in SetmodeLabel /\ ret["main"] \in {"idle", "rt_end"}
  \/ pc["main"] \in ExitLabel

Virtual ==
  INSTANCE Screen WITH
    mode <- ScreenMode,
    image <- IF ScreenMode = TEXT \/ InCall THEN Undefined ELSE ScreenImage,
    busy <- InCall,
    killed <- pc["fatal"] # "off"

Transparent == Virtual!Spec

(***************************************************************************)
(* A program that dies leaves the card in text mode, its console in        *)
(* KD_TEXT and VT_AUTO ("handle unexpected interrupts - restore text mode  *)
(* and exit", vga.c:1093).                                                 *)
(***************************************************************************)
DeadIsText ==
  ~Alive => hw = TEXT /\ screenon /\ kd = "text" /\ vtmode = "auto"

(***************************************************************************)
(* The same, except for two windows: the signal came while vga_setmode(    *)
(* TEXT) had set CM and not yet the card, or SIGUSR2 flipped back to       *)
(* graphics after restoretextmode had looked at CM.  Whatever else the     *)
(* signal interrupts, a switch in either direction or a mode set, text     *)
(* mode is restored.                                                       *)
(***************************************************************************)
DiedInWindow ==
  \/ \E c \in Ctx : pc[c] = "sm_prog" /\ arg[c] = TEXT
  \/ below["acquire"] = "fatal"

DeadIsTextOutsideWindows ==
  ~Alive /\ ~DiedInWindow =>
    hw = TEXT /\ screenon /\ kd = "text" /\ vtmode = "auto"

-----------------------------------------------------------------------------
(* The inductive invariant of FlipsExclude and GrantsUnlocked.             *)

Handler == {"release", "acquire", "fatal"}

Off(h) == pc[h] = "off"

(* Interrupts nest: what runs is on top of a chain of distinct handlers    *)
(* that ends in main.                                                      *)
Chain(a, b, c) ==
  /\ a # b /\ b # c /\ a # c
  /\ \/ top = "main" /\ Off(a) /\ Off(b) /\ Off(c)
     \/ /\ top = a /\ below[a] = "main"
        /\ ~Off(a) /\ Off(b) /\ Off(c)
     \/ /\ top = b /\ below[b] = a /\ below[a] = "main"
        /\ ~Off(a) /\ ~Off(b) /\ Off(c)
     \/ /\ top = c /\ below[c] = b /\ below[b] = a /\ below[a] = "main"
        /\ ~Off(a) /\ ~Off(b) /\ ~Off(c)

Stacked ==
  /\ below["main"] = "main"
  /\ pc["main"] # "off"
  /\ \E a, b, c \in Handler : Chain(a, b, c)

(* Each handler runs its own code and returns to it from vga_setmode.      *)
Placed ==
  /\ pc["release"] \in ReleaseLabel \cup SetmodeLabel \cup {"off"}
  /\ pc["acquire"] \in AcquireLabel \cup SetmodeLabel \cup {"off"}
  /\ pc["fatal"] \in ExitLabel \cup SetmodeLabel \cup {"off"}
  /\ pc["main"] \notin AcquireLabel
  /\ pc["release"] \in SetmodeLabel => ret["release"] = "fa_done"
  /\ pc["acquire"] \in SetmodeLabel => ret["acquire"] = "fb_restore"
  /\ pc["fatal"] \in SetmodeLabel => ret["fatal"] = "rt_end"
  /\ pc["main"] \in SetmodeLabel =>
       ret["main"] \in {"idle", "fa_done", "rt_end", "vf_done", "vf_restore"}

Forbidding ==
  /\ InFlipAway("release") => forbidvtacquire
  /\ InFlipBack("acquire") => forbidvtrelease

(* Between its test of lock_count and its answer a release finds the count *)
(* at zero: only main changes it, and main is below or at work itself.     *)
Granting(c) == InFlipAway(c) \/ pc[c] = "reldisp"

GrantingUnlocked ==
  Granting("main") \/ Granting("release") => lock_count = 0

(* The program keeps the arbitration of switches until it is dead.         *)
Arbitrating == Alive => vtmode = "process"

IInv ==
  /\ TypeOK
  /\ Arbitrating
  /\ Stacked
  /\ Placed
  /\ Forbidding
  /\ GrantingUnlocked
  /\ FlipsExclude

-----------------------------------------------------------------------------
(***************************************************************************)
(* Fairness: the process is scheduled, so what it started it finishes and  *)
(* signals reach it; the program gives up vga_lockvc again and again, and  *)
(* flips back what it flipped.  The user and the other calls are free.     *)
(***************************************************************************)
Fairness ==
  /\ \A c \in Ctx : SF_vars(Step(c))
  /\ WF_vars(ReleaseSignal)
  /\ WF_vars(AcquireSignal)
  /\ SF_vars(RunInBackgroundWait \/ RunInBackgroundSet)
  /\ SF_vars(FlipDone \/ FlipRestore)
  /\ SF_vars(vga_unlockvc)
  /\ SF_vars(app_flip /\ vga_flip)

FairSpec == Spec /\ Fairness

(***************************************************************************)
(* With a patient user the answer is yes.                                  *)
(***************************************************************************)
RequestGranted == newvt ~> fg = "other" \/ ~Alive

(***************************************************************************)
(* A program whose console stays visible gets to run: no handler waits for *)
(* ever.                                                                   *)
(***************************************************************************)
Resumes == []<>(top = "main" \/ fg = "other" \/ ~Alive)

=============================================================================
