--------------------------- MODULE VTSwitchProofs ---------------------------
(***************************************************************************)
(* Theorems about VTSwitch, for all modes, images, lock depths, styles of  *)
(* program, users and signals; and, with a patient user (VTPatient), that  *)
(* at any moment at most one request or return is under way.               *)
(***************************************************************************)
EXTENDS VTPatient, TLAPS

USE VTSwitchAssumption

(* Type correctness at the start, and of each routine.                     *)
LEMMA InitTypeOK == Init => TypeOK
  <1> SUFFICES ASSUME Init PROVE TypeOK
    OBVIOUS
  <1> USE DEF Init, Mode
  <1>1. VTTypeOK
    BY DEF VTInit, VTTypeOK
  <1>2. /\ top \in Ctx
        /\ below \in [Ctx -> Ctx]
        /\ pc \in [Ctx -> Label]
        /\ arg \in [Ctx -> Mode]
        /\ ret \in [Ctx -> Label]
    BY DEF Ctx, Label, MainLabel
  <1>3. /\ {CM, flip_mode, hw} \subseteq Mode
        /\ lock_count \in 0 .. MaxLock
        /\ {vram, graph_buf} \subseteq Image \cup {Undefined}
    OBVIOUS
  <1>4. {flip, release_flag, forbidvtrelease, forbidvtacquire, runinbackground,
         oktowrite, screenon, app_bg, app_flip} \subseteq BOOLEAN
    OBVIOUS
  <1>5. QED BY <1>1, <1>2, <1>3, <1>4 DEF TypeOK

(* vga_setmode.                                                            *)
LEMMA SetmodeTypeOK ==
  ASSUME TypeOK, NEW c \in Ctx, Setmode(c) PROVE TypeOK'
  <1> USE DEF TypeOK, VTTypeOK, vtVars, ctlVars, modeVars, lockVars,
              forbidVars, bgVars, cardVars, bufVars, appVars,
              At, Goto, Label, Mode, SetmodeLabel
  <1>1. CASE SetmodeEnter(c)
    BY <1>1 DEF SetmodeEnter
  <1>2. CASE SetmodeProgram(c)
    BY <1>2 DEF SetmodeProgram
  <1>3. CASE SetmodeFail(c)
    BY <1>3 DEF SetmodeFail, CallSetmode
  <1>4. CASE SetmodeEnd(c)
    BY <1>4 DEF SetmodeEnd, Paint
  <1>5. QED BY <1>1, <1>2, <1>3, <1>4 DEF Setmode

(* The release handler.                                                    *)
LEMMA ReleaseTypeOK ==
  ASSUME TypeOK, NEW c \in Ctx, Release(c) PROVE TypeOK'
  <1> USE DEF TypeOK, VTTypeOK, vtVars, ctlVars, modeVars, lockVars,
              forbidVars, bgVars, cardVars, bufVars, appVars,
              At, Goto, Label, Mode, ReleaseLabel,
              SetmodeLabel, MainLabel, Return
  <1>1. CASE DeferRelease(c)
    BY <1>1 DEF DeferRelease
  <1>2. CASE RefuseRelease(c)
    BY <1>2 DEF RefuseRelease, RelDisp
  <1>3. CASE BeginRelease(c)
    BY <1>3 DEF BeginRelease
  <1>4. CASE FlipAway(c)
    BY <1>4 DEF FlipAway
  <1>5. CASE FlipAwaySave(c)
    BY <1>5 DEF FlipAwaySave, SaveState, CallSetmode
  <1>6. CASE FlipAwayDone(c)
    BY <1>6 DEF FlipAwayDone, AwayMap
  <1>7. CASE GrantRelease(c)
    BY <1>7 DEF GrantRelease, RelDisp
  <1>8. CASE AllowAcquire(c)
    <2>1. CASE runinbackground
      <3>1. Return(c)
        BY <1>8, <2>1 DEF AllowAcquire
      <3>2. top' \in Ctx /\ pc' \in [Ctx -> Label]
        BY <3>1
      <3>3. QED BY <1>8, <3>1, <3>2 DEF AllowAcquire
    <2>2. CASE ~runinbackground
      BY <1>8, <2>2 DEF AllowAcquire
    <2>3. QED BY <2>1, <2>2
  <1>9. CASE Suspend(c)
    BY <1>9 DEF Suspend
  <1>10. CASE Wake(c)
    BY <1>10 DEF Wake
  <1>11. QED BY <1>1, <1>2, <1>3, <1>4, <1>5, <1>6, <1>7, <1>8, <1>9, <1>10 DEF Release

(* The acquire handler.                                                    *)
LEMMA AcquireTypeOK ==
  ASSUME TypeOK, NEW c \in Ctx, Acquire(c) PROVE TypeOK'
  <1> USE DEF TypeOK, VTTypeOK, vtVars, ctlVars, modeVars, lockVars,
              forbidVars, bgVars, cardVars, bufVars, appVars,
              At, Goto, Label, Mode, AcquireLabel,
              SetmodeLabel, MainLabel, Return
  <1>1. CASE IgnoreAcquire(c)
    BY <1>1 DEF IgnoreAcquire
  <1>2. CASE BeginAcquire(c)
    BY <1>2 DEF BeginAcquire
  <1>3. CASE FlipBack(c)
    <2>1. CASE flip_mode = TEXT
      BY <1>3, <2>1 DEF FlipBack
    <2>2. CASE flip_mode # TEXT
      BY <1>3, <2>2 DEF FlipBack, CallSetmode
    <2>3. QED BY <2>1, <2>2
  <1>4. CASE FlipBackRestore(c)
    BY <1>4 DEF FlipBackRestore, RestoreState
  <1>5. CASE AckAcquire(c)
    BY <1>5 DEF AckAcquire, RelDisp
  <1>6. CASE EndAcquire(c)
    BY <1>6 DEF EndAcquire
  <1>7. QED BY <1>1, <1>2, <1>3, <1>4, <1>5, <1>6 DEF Acquire

(* restoretextmode and the end.                                            *)
LEMMA TerminateTypeOK ==
  ASSUME TypeOK, NEW c \in Ctx, Terminate(c) PROVE TypeOK'
  <1> USE DEF TypeOK, VTTypeOK, vtVars, ctlVars, modeVars, lockVars,
              forbidVars, bgVars, cardVars, bufVars, appVars,
              At, Goto, Label, Mode, ExitLabel,
              SetmodeLabel
  <1>1. CASE RestoreText(c)
    BY <1>1 DEF RestoreText, CallSetmode
  <1>2. CASE RestoreTextEnd(c)
    BY <1>2 DEF RestoreTextEnd
  <1>3. QED BY <1>1, <1>2 DEF Terminate

(* The calls of the program.                                               *)
LEMMA CallTypeOK ==
  ASSUME TypeOK, Call PROVE TypeOK'
  <1> USE DEF TypeOK, VTTypeOK, vtVars, ctlVars, modeVars, lockVars,
              forbidVars, bgVars, cardVars, bufVars, appVars,
              At, Goto, Label, Mode, Running, Ctx,
              MainLabel, SetmodeLabel, ReleaseLabel, ExitLabel, CallSetmode
  <1>1. CASE vga_lockvc
    BY <1>1 DEF vga_lockvc
  <1>2. CASE vga_unlockvc
    <2>1. lock_count' \in 0 .. MaxLock
      BY <1>2 DEF vga_unlockvc, Unlocked
    <2>2. CASE ReleaseDue(lock_count)
      <3>1. release_flag' = FALSE /\ Goto("main", "rel")
        BY <1>2, <2>2 DEF vga_unlockvc
      <3>2. pc' \in [Ctx -> Label]
        BY <3>1
      <3>3. QED BY <1>2, <2>1, <3>1, <3>2 DEF vga_unlockvc
    <2>3. CASE ~ReleaseDue(lock_count)
      BY <1>2, <2>1, <2>3 DEF vga_unlockvc
    <2>4. QED BY <2>2, <2>3
  <1>3. CASE vga_setmode
    BY <1>3 DEF vga_setmode
  <1>4. CASE vga_runinbackground
    BY <1>4 DEF vga_runinbackground
  <1>5. CASE RunInBackgroundWait
    BY <1>5 DEF RunInBackgroundWait
  <1>6. CASE RunInBackgroundSet
    BY <1>6 DEF RunInBackgroundSet
  <1>7. CASE vga_flip
    <2>1. CASE CM # TEXT
      <3>1. CallSetmode("main", TEXT, "vf_done") /\ flip_mode' = CM
        BY <1>7, <2>1 DEF vga_flip
      <3>2. pc' \in [Ctx -> Label] /\ arg' \in [Ctx -> Mode]
              /\ ret' \in [Ctx -> Label]
        BY <3>1
      <3>3. SaveState
        BY <1>7, <2>1 DEF vga_flip
      <3>4. {flip_mode'} \subseteq Mode BY <3>1
      <3>5. {vram, graph_buf}' \subseteq Image \cup {Undefined}
        BY <1>7, <3>3 DEF vga_flip, SaveState
      <3>6. QED BY <1>7, <3>1, <3>2, <3>3, <3>4, <3>5 DEF vga_flip, SaveState
    <2>2. CASE CM = TEXT
      BY <1>7, <2>2 DEF vga_flip
    <2>3. QED BY <2>1, <2>2
  <1>8. CASE FlipDone
    BY <1>8 DEF FlipDone
  <1>9. CASE FlipRestore
    BY <1>9 DEF FlipRestore, RestoreState
  <1>10. CASE Draw
    BY <1>10 DEF Draw, Paint
  <1>11. CASE Exit
    BY <1>11 DEF Exit
  <1>12. QED BY <1>1, <1>2, <1>3, <1>4, <1>5, <1>6, <1>7, <1>8, <1>9, <1>10, <1>11 DEF Call

(* Signals and the user.                                                   *)
LEMMA OutsideTypeOK ==
  ASSUME TypeOK, ReleaseSignal \/ AcquireSignal \/ FatalSignal \/ User PROVE TypeOK'
  <1> USE DEF TypeOK, VTTypeOK, vtVars, ctlVars, modeVars, lockVars,
              forbidVars, bgVars, cardVars, bufVars, appVars,
              At, Goto, Label, Mode, progVars, Ctx,
              Interrupt, ReleaseLabel, AcquireLabel, ExitLabel, RelSig, AcqSig
  <1>1. CASE ReleaseSignal
    BY <1>1 DEF ReleaseSignal
  <1>2. CASE AcquireSignal
    BY <1>2 DEF AcquireSignal
  <1>3. CASE FatalSignal
    BY <1>3 DEF FatalSignal
  <1>4. CASE User
    BY <1>4 DEF User, RequestAway, SwitchBack
  <1>5. QED BY <1>1, <1>2, <1>3, <1>4

LEMMA NextTypeOK ==
  ASSUME TypeOK, [Next]_vars PROVE TypeOK'
  <1>1. CASE Library
    BY <1>1, SetmodeTypeOK, ReleaseTypeOK, AcquireTypeOK, TerminateTypeOK
    DEF Library, Step
  <1>2. CASE Call
    BY <1>2, CallTypeOK
  <1>3. CASE ReleaseSignal \/ AcquireSignal \/ FatalSignal \/ User
    BY <1>3, OutsideTypeOK
  <1>4. CASE UNCHANGED vars
    BY <1>4 DEF vars, ctlVars, modeVars, lockVars, forbidVars, bgVars,
                cardVars, bufVars, appVars, vtVars, TypeOK, VTTypeOK
  <1>5. QED BY <1>1, <1>2, <1>3, <1>4 DEF Next

(***************************************************************************)
(* Every variable keeps its type: in particular the lock count stays       *)
(* between 0 and its bound, whatever the program locks and unlocks.        *)
(***************************************************************************)
THEOREM TypeCorrect == Spec => []TypeOK
  <1>1. Init => TypeOK
    BY InitTypeOK
  <1>2. TypeOK /\ [Next]_vars => TypeOK'
    BY NextTypeOK
  <1>3. QED BY <1>1, <1>2, PTL DEF Spec

-----------------------------------------------------------------------------
(***************************************************************************)
(* The handlers against each other, for every program, every user and      *)
(* every fatal signal: IInv is inductive, and FlipsExclude and             *)
(* GrantsUnlocked follow from it.                                          *)
(***************************************************************************)
(* The stack of contexts.                                                  *)

(* A step within the running context leaves the chain of interrupts alone. *)
LEMMA GotoStacked ==
  ASSUME TypeOK, Stacked, NEW l \in Label \ {"off"}, NEW c \in Ctx, top = c,
         pc' = [pc EXCEPT ![c] = l], UNCHANGED <<top, below>>
  PROVE  Stacked'
  <1> USE DEF TypeOK, Ctx, Handler, Off
  <1>1. PICK x \in Handler, y \in Handler, z \in Handler : Chain(x, y, z)
    BY DEF Stacked
  <1>2. below'["main"] = "main" /\ pc'["main"] # "off"
    BY DEF Stacked
  <1>3. \E a, b, d \in Handler : Chain(a, b, d)'
    BY <1>1, <1>2 DEF Chain
  <1>4. QED BY <1>2, <1>3 DEF Stacked

(* The return of a handler takes it off the chain.                         *)
LEMMA ReturnStacked ==
  ASSUME TypeOK, Stacked, NEW c \in Ctx, top = c, Return(c)
  PROVE  Stacked'
  <1> USE DEF TypeOK, Ctx, Handler, Off, Return
  <1>1. PICK x \in Handler, y \in Handler, z \in Handler : Chain(x, y, z)
    BY DEF Stacked
  <1>2. below'["main"] = "main" /\ pc'["main"] # "off"
    BY DEF Stacked
  <1>3. \E a, b, d \in Handler : Chain(a, b, d)'
    BY <1>1, <1>2 DEF Chain
  <1>4. QED BY <1>2, <1>3 DEF Stacked

(* An interrupt puts a handler on the chain.                               *)
LEMMA InterruptStacked ==
  ASSUME TypeOK, Stacked, NEW h \in Handler, NEW l \in Label \ {"off"},
         Interrupt(h, l)
  PROVE  Stacked'
  <1> USE DEF TypeOK, Ctx, Handler, Off, Interrupt
  <1>1. PICK x \in Handler, y \in Handler, z \in Handler : Chain(x, y, z)
    BY DEF Stacked
  <1>2. below'["main"] = "main" /\ pc'["main"] # "off"
    BY DEF Stacked
  <1>3. \E a, b, d \in Handler : Chain(a, b, d)'
    BY <1>1, <1>2 DEF Chain
  <1>4. QED BY <1>2, <1>3 DEF Stacked

(* While main runs, no handler is anywhere.                                *)
LEMMA MainAlone ==
  ASSUME Stacked, top = "main"
  PROVE  pc["release"] = "off" /\ pc["acquire"] = "off" /\ pc["fatal"] = "off"
  <1>1. PICK x \in Handler, y \in Handler, z \in Handler : Chain(x, y, z)
    BY DEF Stacked
  <1>2. QED BY <1>1 DEF Chain, Handler, Off

-----------------------------------------------------------------------------
(* What the conjuncts of IInv say of one step of context c.                *)

StepFacts ==
  /\ Stacked'
  /\ Placed'
  /\ Forbidding'
  /\ GrantingUnlocked'
  /\ FlipsExclude'

(* The invariant holds at the start.                                       *)
LEMMA InitIInv == Init => IInv
  <1> SUFFICES ASSUME Init PROVE IInv
    OBVIOUS
  <1>1. TypeOK
    BY InitTypeOK
  <1>2. Stacked
    <2>1. Chain("release", "acquire", "fatal")
      BY DEF Init, Chain, Off, Ctx
    <2>2. QED BY <2>1 DEF Init, Stacked, Handler, Ctx
  <1>3. Placed
    BY DEF Init, Placed, Ctx, SetmodeLabel, AcquireLabel
  <1>4. Forbidding /\ GrantingUnlocked /\ FlipsExclude
    BY DEF Init, Forbidding, GrantingUnlocked, Granting, InFlipAway, InFlipBack,
           FlipsExclude, Ctx, SetmodeLabel
  <1>5. Arbitrating
    BY DEF Init, VTInit, Arbitrating
  <1>6. QED BY <1>1, <1>2, <1>3, <1>4, <1>5 DEF IInv

(* vga_setmode, whoever called it, preserves the invariant.                *)
LEMMA SetmodeStep ==
  ASSUME IInv, NEW c \in Ctx, Setmode(c) PROVE StepFacts
  <1> USE DEF IInv
  <1>1. top = c /\ pc[c] \in SetmodeLabel /\ UNCHANGED <<top, below>>
    BY DEF Setmode, SetmodeEnter, SetmodeProgram, SetmodeFail, SetmodeEnd, At, Goto,
           CallSetmode, SetmodeLabel
  <1>2. UNCHANGED <<ret, lockVars, forbidVars>>
    BY DEF Setmode, SetmodeEnter, SetmodeProgram, SetmodeFail, SetmodeEnd, At, Goto,
           CallSetmode, TypeOK
  <1>3. PICK l \in SetmodeLabel \cup {ret[c]} : pc' = [pc EXCEPT ![c] = l]
    BY DEF Setmode, SetmodeEnter, SetmodeProgram, SetmodeFail, SetmodeEnd, At, Goto,
           CallSetmode, SetmodeLabel
  <1>4. ret[c] \in {"idle", "fa_done", "fb_restore", "rt_end", "vf_done", "vf_restore"}
    BY <1>1 DEF Placed, Ctx
  <1>5. Stacked'
    BY <1>1, <1>3, <1>4, GotoStacked DEF Label, SetmodeLabel, ReleaseLabel, AcquireLabel,
       ExitLabel, MainLabel
  <1>6. Placed'
    BY <1>1, <1>2, <1>3, <1>4 DEF Placed, Ctx, TypeOK, SetmodeLabel, ReleaseLabel,
       AcquireLabel, ExitLabel
  <1>7. Forbidding' /\ GrantingUnlocked' /\ FlipsExclude'
    BY <1>1, <1>2, <1>3, <1>4 DEF Placed, Forbidding, FlipsExclude, GrantingUnlocked, Granting,
       InFlipAway, InFlipBack, Ctx, TypeOK, SetmodeLabel, lockVars, forbidVars
  <1>8. QED BY <1>5, <1>6, <1>7 DEF StepFacts

(***************************************************************************)
(* A step to another place of the same context, or a return, keeps the     *)
(* stack; what else it must keep is left to the action.                    *)
(***************************************************************************)
LEMMA ReleaseStep ==
  ASSUME IInv, NEW c \in Ctx, Release(c) PROVE StepFacts
  <1> USE DEF IInv
  <1>1. c \in {"main", "release"} /\ top = c
    BY DEF Release, DeferRelease, RefuseRelease, BeginRelease, FlipAway,
       FlipAwaySave, FlipAwayDone, GrantRelease, AllowAcquire, Suspend, Wake,
       At, Placed, Ctx, SetmodeLabel, AcquireLabel, ExitLabel
  <1>2. c = "main" => pc["release"] = "off" /\ pc["acquire"] = "off"
    BY <1>1, MainAlone
  <1> USE DEF At, Goto, Return, Placed, Forbidding, GrantingUnlocked, Granting,
              FlipsExclude,
              InFlipAway, InFlipBack, Ctx, TypeOK, SetmodeLabel, ReleaseLabel,
              AcquireLabel, ExitLabel, lockVars, forbidVars
  <1>3. CASE DeferRelease(c)
    <2>1. Return(c) /\ UNCHANGED <<lock_count, forbidVars>> /\ pc[c] = "rel"
      BY <1>3 DEF DeferRelease
    <2>2. Stacked'
      BY <1>1, <2>1, ReturnStacked
    <2>3. QED BY <1>1, <1>2, <2>1, <2>2 DEF StepFacts
  <1>4. CASE RefuseRelease(c)
    <2>1. Return(c) /\ UNCHANGED <<lock_count, forbidvtrelease>> /\ pc[c] = "rel"
      BY <1>4 DEF RefuseRelease
    <2>2. Stacked'
      BY <1>1, <2>1, ReturnStacked
    <2>3. QED BY <1>1, <1>2, <2>1, <2>2 DEF StepFacts
  <1>5. CASE BeginRelease(c)
    <2>1. Goto(c, "fa") /\ lock_count' = lock_count /\ lock_count = 0
      BY <1>5 DEF BeginRelease, Locked
    <2>2. forbidvtacquire' /\ ~forbidvtrelease /\ UNCHANGED forbidvtrelease
      BY <1>5 DEF BeginRelease
    <2>3. Stacked'
      BY <1>1, <2>1, GotoStacked DEF Label
    <2>4. QED BY <1>1, <1>2, <2>1, <2>2, <2>3 DEF StepFacts
  <1>6. CASE FlipAway(c)
    <2>1. PICK l \in {"reldisp", "fa_save"} : Goto(c, l)
      BY <1>6 DEF FlipAway
    <2>2. UNCHANGED <<lock_count, forbidVars>> /\ pc[c] = "fa"
      BY <1>6 DEF FlipAway
    <2>3. Stacked'
      BY <1>1, <2>1, GotoStacked DEF Label
    <2>4. QED BY <1>1, <1>2, <2>1, <2>2, <2>3 DEF StepFacts
  <1>7. CASE FlipAwaySave(c)
    <2>1. CallSetmode(c, TEXT, "fa_done") /\ UNCHANGED <<lock_count, forbidVars>>
            /\ pc[c] = "fa_save"
      BY <1>7 DEF FlipAwaySave
    <2>2. Stacked'
      BY <1>1, <2>1, GotoStacked DEF Label, CallSetmode
    <2>3. QED BY <1>1, <1>2, <2>1, <2>2 DEF StepFacts, CallSetmode
  <1>8. CASE FlipAwayDone(c)
    <2>1. Goto(c, "reldisp") /\ UNCHANGED <<lock_count, forbidVars>>
            /\ pc[c] = "fa_done"
      BY <1>8 DEF FlipAwayDone
    <2>2. Stacked'
      BY <1>1, <2>1, GotoStacked DEF Label
    <2>3. QED BY <1>1, <1>2, <2>1, <2>2 DEF StepFacts
  <1>9. CASE GrantRelease(c)
    <2>1. Goto(c, "rel_allow") /\ UNCHANGED <<lock_count, forbidVars>>
      BY <1>9 DEF GrantRelease
    <2>2. Stacked'
      BY <1>1, <2>1, GotoStacked DEF Label
    <2>3. QED BY <1>1, <1>2, <2>1, <2>2 DEF StepFacts
  <1>10. CASE AllowAcquire(c)
    <2>1. pc[c] = "rel_allow" /\ UNCHANGED <<lock_count, forbidvtrelease>>
      BY <1>10 DEF AllowAcquire
    <2>2. CASE Return(c)
      <3>1. Stacked'
        BY <1>1, <2>1, <2>2, ReturnStacked
      <3>2. QED BY <1>1, <1>2, <2>1, <2>2, <3>1 DEF StepFacts
    <2>3. CASE Goto(c, "rel_suspend")
      <3>1. Stacked'
        BY <1>1, <2>3, GotoStacked DEF Label
      <3>2. QED BY <1>1, <1>2, <2>1, <2>3, <3>1 DEF StepFacts
    <2>4. QED BY <1>10, <2>2, <2>3 DEF AllowAcquire
  <1>11. CASE Suspend(c)
    <2>1. Goto(c, "rel_wait") /\ UNCHANGED <<lock_count, forbidVars>>
      BY <1>11 DEF Suspend
    <2>2. Stacked'
      BY <1>1, <2>1, GotoStacked DEF Label
    <2>3. QED BY <1>1, <1>2, <2>1, <2>2 DEF StepFacts
  <1>12. CASE Wake(c)
    <2>1. Return(c) /\ UNCHANGED <<lock_count, forbidVars>> /\ pc[c] = "rel_wait"
      BY <1>12 DEF Wake
    <2>2. Stacked'
      BY <1>1, <2>1, ReturnStacked
    <2>3. QED BY <1>1, <1>2, <2>1, <2>2 DEF StepFacts
  <1>13. QED BY <1>3, <1>4, <1>5, <1>6, <1>7, <1>8, <1>9, <1>10, <1>11, <1>12
         DEF Release

(* So does the acquire handler,                                            *)
LEMMA AcquireStep ==
  ASSUME IInv, NEW c \in Ctx, Acquire(c) PROVE StepFacts
  <1> USE DEF IInv
  <1>1. c = "acquire" /\ top = c
    BY DEF Acquire, IgnoreAcquire, BeginAcquire, FlipBack, FlipBackRestore,
       AckAcquire, EndAcquire, At, Placed, Ctx, SetmodeLabel, ReleaseLabel,
       AcquireLabel, ExitLabel
  <1> USE DEF At, Goto, Return, Placed, Forbidding, GrantingUnlocked, Granting,
              FlipsExclude,
              InFlipAway, InFlipBack, Ctx, TypeOK, SetmodeLabel, ReleaseLabel,
              AcquireLabel, ExitLabel, lockVars, forbidVars
  <1>2. CASE IgnoreAcquire(c)
    <2>1. Return(c) /\ UNCHANGED <<lock_count, forbidvtacquire>>
      BY <1>2 DEF IgnoreAcquire
    <2>2. QED BY <1>1, <2>1, ReturnStacked DEF StepFacts
  <1>3. CASE BeginAcquire(c)
    <2>1. Goto(c, "fb") /\ forbidvtrelease' /\ UNCHANGED <<lock_count, forbidvtacquire>>
      BY <1>3 DEF BeginAcquire
    <2>2. pc[c] = "acq" /\ ~forbidvtacquire
      BY <1>3 DEF BeginAcquire
    <2>3. Stacked'
      BY <1>1, <2>1, GotoStacked DEF Label
    <2>4. QED BY <1>1, <2>1, <2>2, <2>3 DEF StepFacts
  <1>4. CASE FlipBack(c)
    <2>1. pc[c] = "fb" /\ UNCHANGED <<lock_count, forbidVars>>
      BY <1>4 DEF FlipBack
    <2>2. CASE Goto(c, "ack")
      <3>1. Stacked'
        BY <1>1, <2>2, GotoStacked DEF Label
      <3>2. QED BY <1>1, <2>1, <2>2, <3>1 DEF StepFacts
    <2>3. CASE CallSetmode(c, flip_mode, "fb_restore")
      <3>1. Stacked'
        BY <1>1, <2>3, GotoStacked DEF Label, CallSetmode
      <3>2. QED BY <1>1, <2>1, <2>3, <3>1 DEF StepFacts, CallSetmode
    <2>4. QED BY <1>4, <2>2, <2>3 DEF FlipBack
  <1>5. CASE FlipBackRestore(c)
    <2>1. Goto(c, "ack") /\ UNCHANGED <<lock_count, forbidVars>> /\ pc[c] = "fb_restore"
      BY <1>5 DEF FlipBackRestore
    <2>2. Stacked'
      BY <1>1, <2>1, GotoStacked DEF Label
    <2>3. QED BY <1>1, <2>1, <2>2 DEF StepFacts
  <1>6. CASE AckAcquire(c)
    <2>1. Goto(c, "acq_end") /\ UNCHANGED <<lock_count, forbidVars>>
      BY <1>6 DEF AckAcquire
    <2>2. Stacked'
      BY <1>1, <2>1, GotoStacked DEF Label
    <2>3. QED BY <1>1, <2>1, <2>2 DEF StepFacts
  <1>7. CASE EndAcquire(c)
    <2>1. Return(c) /\ UNCHANGED <<lock_count, forbidvtacquire>>
      BY <1>7 DEF EndAcquire
    <2>2. QED BY <1>1, <2>1, ReturnStacked DEF StepFacts
  <1>8. QED BY <1>2, <1>3, <1>4, <1>5, <1>6, <1>7 DEF Acquire

(* the way out,                                                            *)
LEMMA TerminateStep ==
  ASSUME IInv, NEW c \in Ctx, Terminate(c) PROVE StepFacts
  <1> USE DEF IInv
  <1>1. c \in {"main", "fatal"} /\ top = c /\ pc[c] \in {"rt", "rt_end"}
    BY DEF Terminate, RestoreText, RestoreTextEnd, At, Placed, Ctx, SetmodeLabel,
       ReleaseLabel, AcquireLabel, ExitLabel
  <1>2. UNCHANGED <<lock_count, forbidVars>>
    BY DEF Terminate, RestoreText, RestoreTextEnd, lockVars, forbidVars
  <1> USE DEF Goto, Placed, Forbidding, GrantingUnlocked, Granting, FlipsExclude,
              InFlipAway, InFlipBack, Ctx, TypeOK, SetmodeLabel, ReleaseLabel,
              AcquireLabel, ExitLabel, lockVars, forbidVars
  <1>3. CASE CallSetmode(c, TEXT, "rt_end")
    <2>1. Stacked'
      BY <1>1, <1>3, GotoStacked DEF Label, CallSetmode
    <2>2. QED BY <1>1, <1>2, <1>3, <2>1 DEF StepFacts, CallSetmode
  <1>4. ASSUME NEW l \in {"rt_end", "dead"}, Goto(c, l) PROVE StepFacts
    <2>1. Stacked'
      BY <1>1, <1>4, GotoStacked DEF Label
    <2>2. QED BY <1>1, <1>2, <1>4, <2>1 DEF StepFacts
  <1>5. QED BY <1>3, <1>4 DEF Terminate, RestoreText, RestoreTextEnd

(* each call of the program,                                               *)
LEMMA CallStep ==
  ASSUME IInv, Call PROVE StepFacts
  <1> USE DEF IInv
  <1>1. top = "main" /\ pc["main"] \in MainLabel
    BY DEF Call, vga_lockvc, vga_unlockvc, vga_setmode, vga_runinbackground,
       RunInBackgroundWait, RunInBackgroundSet, vga_flip, FlipDone,
       FlipRestore, Draw, Exit, Running, At, MainLabel
  <1>2. pc["release"] = "off" /\ pc["acquire"] = "off" /\ pc["fatal"] = "off"
    BY <1>1, MainAlone
  <1>3. UNCHANGED forbidVars
    BY DEF Call, vga_lockvc, vga_unlockvc, vga_setmode, vga_runinbackground,
       RunInBackgroundWait, RunInBackgroundSet, vga_flip, FlipDone,
       FlipRestore, Draw, Exit
  <1> USE DEF Goto, Placed, Forbidding, GrantingUnlocked, Granting, FlipsExclude,
              InFlipAway, InFlipBack, Ctx, TypeOK, SetmodeLabel, ReleaseLabel,
              AcquireLabel, ExitLabel, MainLabel
  <1>4. CASE UNCHANGED ctlVars
    BY <1>1, <1>2, <1>3, <1>4 DEF ctlVars, StepFacts, Stacked, Chain, Off,
       forbidVars
  <1>5. ASSUME NEW l \in {"idle", "rel", "rib_wait", "rib_set", "rt"},
               Goto("main", l)
        PROVE  StepFacts
    <2>1. Stacked'
      BY <1>1, <1>5, GotoStacked DEF Label
    <2>2. QED BY <1>1, <1>2, <1>3, <1>5, <2>1 DEF StepFacts, forbidVars
  <1>6. ASSUME NEW l \in {"idle", "vf_done", "vf_restore"}, NEW m \in Mode,
               CallSetmode("main", m, l)
        PROVE  StepFacts
    <2>1. Stacked'
      BY <1>1, <1>6, GotoStacked DEF Label, CallSetmode
    <2>2. QED BY <1>1, <1>2, <1>3, <1>6, <2>1 DEF StepFacts, CallSetmode, forbidVars
  <1>7. CASE vga_lockvc \/ vga_unlockvc
    BY <1>4, <1>5, <1>7 DEF vga_lockvc, vga_unlockvc
  <1>8. CASE vga_setmode \/ vga_flip
    BY <1>6, <1>8 DEF vga_setmode, vga_flip, Mode
  <1>9. CASE \/ vga_runinbackground \/ RunInBackgroundWait
            \/ RunInBackgroundSet \/ Exit
    BY <1>5, <1>9 DEF vga_runinbackground, RunInBackgroundWait,
       RunInBackgroundSet, Exit
  <1>10. CASE FlipDone \/ FlipRestore \/ Draw
    BY <1>4, <1>5, <1>10 DEF FlipDone, FlipRestore, Draw
  <1>11. QED BY <1>7, <1>8, <1>9, <1>10 DEF Call

(* and each signal or action of the user.                                  *)
LEMMA OutsideStep ==
  ASSUME IInv, ReleaseSignal \/ AcquireSignal \/ FatalSignal \/ User
  PROVE StepFacts
  <1> USE DEF IInv
  <1>1. UNCHANGED <<lockVars, forbidVars, ret>>
    BY DEF ReleaseSignal, AcquireSignal, FatalSignal, User, progVars, ctlVars,
       Interrupt
  <1> USE DEF Placed, Forbidding, GrantingUnlocked, Granting, FlipsExclude,
              InFlipAway, InFlipBack, Ctx, TypeOK, SetmodeLabel, ReleaseLabel,
              AcquireLabel, ExitLabel, lockVars, forbidVars
  <1>2. CASE ReleaseSignal
    <2>1. Interrupt("release", "rel")
      BY <1>2 DEF ReleaseSignal
    <2>2. Stacked'
      BY <2>1, InterruptStacked DEF Label, Handler
    <2>3. QED BY <1>1, <2>1, <2>2 DEF StepFacts, Interrupt
  <1>3. CASE AcquireSignal
    <2>1. Interrupt("acquire", "acq")
      BY <1>3 DEF AcquireSignal
    <2>2. Stacked'
      BY <2>1, InterruptStacked DEF Label, Handler
    <2>3. QED BY <1>1, <2>1, <2>2 DEF StepFacts, Interrupt
  <1>4. CASE FatalSignal
    <2>1. Interrupt("fatal", "rt")
      BY <1>4 DEF FatalSignal
    <2>2. Stacked'
      BY <2>1, InterruptStacked DEF Label, Handler
    <2>3. QED BY <1>1, <2>1, <2>2 DEF StepFacts, Interrupt
  <1>5. CASE User
    BY <1>1, <1>5 DEF User, ctlVars, StepFacts, Stacked, Chain, Off
  <1>6. QED BY <1>2, <1>3, <1>4, <1>5

-----------------------------------------------------------------------------
(* Death is for good, and only the dead give up VT_PROCESS.                *)

(* What a library step can do to the control of switches.                  *)
LEMMA LibraryControl ==
  ASSUME TypeOK, NEW c \in Ctx, Step(c)
  PROVE  pc[c] # "dead" /\ \E l \in Label : pc' = [pc EXCEPT ![c] = l]
  <1> USE DEF At, Goto, Return, CallSetmode, TypeOK, Label, SetmodeLabel,
              ReleaseLabel, AcquireLabel, ExitLabel, MainLabel
  <1>1. CASE Setmode(c)
    BY <1>1 DEF Setmode, SetmodeEnter, SetmodeProgram, SetmodeFail, SetmodeEnd
  <1>2. CASE Release(c)
    BY <1>2 DEF Release, DeferRelease, RefuseRelease, BeginRelease, FlipAway,
       FlipAwaySave, FlipAwayDone, GrantRelease, AllowAcquire, Suspend, Wake
  <1>3. CASE Acquire(c)
    BY <1>3 DEF Acquire, IgnoreAcquire, BeginAcquire, FlipBack,
       FlipBackRestore, AckAcquire, EndAcquire
  <1>4. CASE Terminate(c)
    BY <1>4 DEF Terminate, RestoreText, RestoreTextEnd
  <1>5. QED BY <1>1, <1>2, <1>3, <1>4 DEF Step

(* What a call of the program can do to it.                                *)
LEMMA CallControl ==
  ASSUME TypeOK, Call
  PROVE  /\ pc["main"] # "dead" /\ vtmode' = vtmode
         /\ pc' = pc \/ \E l \in Label : pc' = [pc EXCEPT !["main"] = l]
  <1> USE DEF At, Goto, CallSetmode, Running, ctlVars, vtVars, Label, SetmodeLabel,
              ReleaseLabel, ExitLabel, MainLabel
  <1>1. CASE vga_lockvc \/ vga_unlockvc
    BY <1>1 DEF vga_lockvc, vga_unlockvc
  <1>2. CASE vga_setmode \/ vga_flip
    BY <1>2 DEF vga_setmode, vga_flip
  <1>3. CASE \/ vga_runinbackground \/ RunInBackgroundWait
            \/ RunInBackgroundSet \/ Exit
    BY <1>3 DEF vga_runinbackground, RunInBackgroundWait, RunInBackgroundSet, Exit
  <1>4. CASE FlipDone \/ FlipRestore \/ Draw
    BY <1>4 DEF FlipDone, FlipRestore, Draw
  <1>5. QED BY <1>1, <1>2, <1>3, <1>4 DEF Call

(* The console stays in VT_PROCESS mode while the program lives.           *)
LEMMA ArbitratingStep ==
  ASSUME IInv, [Next]_vars PROVE Arbitrating'
  <1> USE DEF IInv, TypeOK, Ctx
  <1>1. CASE Library
    <2>1. PICK c \in Ctx : Step(c)
      BY <1>1 DEF Library
    <2>2. CASE RestoreTextEnd(c)
      <3>1. top = c /\ pc[c] = "rt_end" /\ pc' = [pc EXCEPT ![c] = "dead"]
        BY <2>2 DEF RestoreTextEnd, At, Goto
      <3>2. c \in {"main", "fatal"}
        BY <3>1 DEF Placed, SetmodeLabel, ReleaseLabel, AcquireLabel
      <3>3. QED BY <3>1, <3>2 DEF Arbitrating, Alive
    <2>3. CASE ~RestoreTextEnd(c)
      <3>1. vtmode' = vtmode
        <4>1. CASE Setmode(c)
          BY <4>1 DEF Setmode, SetmodeEnter, SetmodeProgram, SetmodeFail,
             SetmodeEnd, vtVars
        <4>2. CASE Release(c)
          BY <4>2 DEF Release, DeferRelease, RefuseRelease, BeginRelease,
             FlipAway, FlipAwaySave, FlipAwayDone, GrantRelease, AllowAcquire,
             Suspend, Wake, vtVars, RelDisp
        <4>3. CASE Acquire(c)
          BY <4>3 DEF Acquire, IgnoreAcquire, BeginAcquire, FlipBack,
             FlipBackRestore, AckAcquire, EndAcquire, vtVars, RelDisp
        <4>4. CASE Terminate(c)
          BY <2>3, <4>4 DEF Terminate, RestoreText, vtVars
        <4>5. QED BY <2>1, <4>1, <4>2, <4>3, <4>4 DEF Step
      <3>2. pc[c] # "dead" /\ \E l \in Label : pc' = [pc EXCEPT ![c] = l]
        BY <2>1, LibraryControl
      <3>3. QED BY <3>1, <3>2 DEF Arbitrating, Alive
    <2>4. QED BY <2>2, <2>3
  <1>2. CASE Call
    BY <1>2, CallControl DEF Arbitrating, Alive
  <1>3. CASE ReleaseSignal \/ AcquireSignal \/ FatalSignal
    BY <1>3 DEF ReleaseSignal, AcquireSignal, FatalSignal, Interrupt, vtVars,
       Arbitrating, Alive
  <1>4. CASE User
    BY <1>4 DEF User, RequestAway, SwitchBack, ctlVars, Arbitrating, Alive
  <1>5. CASE UNCHANGED vars
    BY <1>5 DEF vars, ctlVars, vtVars, Arbitrating, Alive
  <1>6. QED BY <1>1, <1>2, <1>3, <1>4, <1>5 DEF Next

-----------------------------------------------------------------------------
(***************************************************************************)
(* IInv is inductive: it holds at first and every step, of the library,    *)
(* the program, a signal or the user, keeps it.                            *)
(***************************************************************************)
THEOREM Inductive == Spec => []IInv
  <1>1. Init => IInv
    BY InitIInv
  <1>2. IInv /\ [Next]_vars => IInv'
    <2> SUFFICES ASSUME IInv, [Next]_vars PROVE IInv'
      OBVIOUS
    <2>1. TypeOK'
      BY NextTypeOK DEF IInv
    <2>2. Arbitrating'
      BY ArbitratingStep
    <2>3. StepFacts
      <3>1. CASE Library
        BY <3>1, SetmodeStep, ReleaseStep, AcquireStep, TerminateStep
        DEF Library, Step
      <3>2. CASE Call
        BY <3>2, CallStep
      <3>3. CASE ReleaseSignal \/ AcquireSignal \/ FatalSignal \/ User
        BY <3>3, OutsideStep
      <3>4. CASE UNCHANGED vars
        BY <3>4 DEF IInv, StepFacts, vars, ctlVars, lockVars, forbidVars,
           Stacked, Chain, Off, Placed, Forbidding, GrantingUnlocked, Granting,
           FlipsExclude, InFlipAway, InFlipBack
      <3>5. QED BY <3>1, <3>2, <3>3, <3>4 DEF Next
    <2>4. QED BY <2>1, <2>2, <2>3 DEF IInv, StepFacts
  <1>3. QED BY <1>1, <1>2, PTL DEF Spec

(***************************************************************************)
(* The SIGUSR1 and SIGUSR2 handlers never work on the screen at the same   *)
(* time: forbidvtrelease and forbidvtacquire (vga.c:1493, 1534) are a      *)
(* mutual exclusion, for any program, any user and any nesting of signals. *)
(***************************************************************************)
THEOREM HandlersExclude == Spec => []FlipsExclude
  <1>1. IInv => FlipsExclude
    BY DEF IInv
  <1>2. QED BY <1>1, Inductive, PTL

(***************************************************************************)
(* releasevt_signal never answers yes under vga_lockvc (vga.c:1486): the   *)
(* count it tested cannot change before its answer, because main, which    *)
(* alone changes it, is below it on the stack or runs it itself.           *)
(***************************************************************************)
THEOREM NoGrantUnderLock == Spec => GrantsUnlocked
  <1> DEFINE A == top # "acquire" /\ fg = "ours" /\ fg' = "other" /\ Alive =>
                    lock_count = 0
  <1>1. IInv /\ [Next]_vars => [A]_vars
    <2> SUFFICES ASSUME IInv, [Next]_vars,
                        top # "acquire", fg = "ours", fg' = "other", Alive
                 PROVE  lock_count = 0
      OBVIOUS
    <2>1. CASE Library
      <3>1. PICK c \in Ctx : Step(c)
        BY <2>1 DEF Library
      <3>2. ~Setmode(c)
        BY DEF Setmode, SetmodeEnter, SetmodeProgram, SetmodeFail, SetmodeEnd,
           vtVars
      <3>3. ~Terminate(c)
        BY DEF Terminate, RestoreText, RestoreTextEnd, vtVars
      <3>4. ~Acquire(c)
        BY DEF Acquire, IgnoreAcquire, BeginAcquire, FlipBack, FlipBackRestore,
           AckAcquire, EndAcquire, At, IInv, Placed, Ctx, SetmodeLabel,
           ReleaseLabel, AcquireLabel, ExitLabel
      <3>5. GrantRelease(c)
        BY <3>1, <3>2, <3>3, <3>4 DEF Step, Release, DeferRelease,
           RefuseRelease, BeginRelease, FlipAway, FlipAwaySave, FlipAwayDone,
           AllowAcquire, Suspend, Wake, RelDisp, vtVars
      <3>6. c \in {"main", "release"} /\ pc[c] = "reldisp"
        BY <3>5 DEF GrantRelease, At, IInv, Placed, Ctx, SetmodeLabel,
           AcquireLabel, ExitLabel
      <3>7. QED BY <3>6 DEF IInv, GrantingUnlocked, Granting
    <2>2. CASE Call
      BY <2>2 DEF Call, vga_lockvc, vga_unlockvc, vga_setmode,
         vga_runinbackground, RunInBackgroundWait, RunInBackgroundSet,
         vga_flip, FlipDone, FlipRestore, Draw, Exit, vtVars
    <2>3. CASE ReleaseSignal \/ AcquireSignal \/ FatalSignal
      BY <2>3 DEF ReleaseSignal, AcquireSignal, FatalSignal, vtVars
    <2>4. CASE User
      BY <2>4 DEF User, RequestAway, SwitchBack, IInv, Arbitrating
    <2>5. CASE UNCHANGED vars
      BY <2>5 DEF vars, vtVars
    <2>6. QED BY <2>1, <2>2, <2>3, <2>4, <2>5 DEF Next
  <1>2. QED BY <1>1, Inductive, PTL DEF Spec, GrantsUnlocked

-----------------------------------------------------------------------------
(* The handshake of a console switch with a patient user.                  *)

shakeVars == <<newvt, pend, fg, release_flag, forbidVars>>

LEMMA InitHandshake == Init => Handshake
  BY DEF Init, VTInit, Handshake, Releaser, Releasing, Granting, InFlipAway,
     Returning, Off, Ctx, SetmodeLabel

(* vga_setmode, whoever called it, takes no part.                          *)
LEMMA SetmodeShake ==
  ASSUME IInv, Handshake, NEW c \in Ctx, Setmode(c) PROVE Handshake'
  <1> USE DEF IInv
  <1>1. top = c /\ pc[c] \in SetmodeLabel /\ UNCHANGED <<top, ret, shakeVars>>
    BY DEF Setmode, SetmodeEnter, SetmodeProgram, SetmodeFail, SetmodeEnd, At, Goto,
           CallSetmode, SetmodeLabel, TypeOK, shakeVars, vtVars, lockVars
  <1>2. PICK l \in SetmodeLabel \cup {ret[c]} : pc' = [pc EXCEPT ![c] = l]
    BY DEF Setmode, SetmodeEnter, SetmodeProgram, SetmodeFail, SetmodeEnd, At, Goto,
           CallSetmode, SetmodeLabel
  <1>3. ret[c] \in {"idle", "fa_done", "fb_restore", "rt_end", "vf_done", "vf_restore"}
    BY <1>1 DEF Placed, Ctx
  <1>4. QED
    BY <1>1, <1>2, <1>3 DEF Handshake, Releaser, Releasing, Granting, InFlipAway,
       Returning, Off, Ctx, TypeOK, SetmodeLabel, shakeVars, forbidVars, Placed

LEMMA ReleaseShake ==
  ASSUME IInv, Handshake, NEW c \in Ctx, Release(c) PROVE Handshake'
  <1> USE DEF IInv
  <1>1. c \in Releaser /\ top = c
    BY DEF Release, DeferRelease, RefuseRelease, BeginRelease, FlipAway,
       FlipAwaySave, FlipAwayDone, GrantRelease, AllowAcquire, Suspend, Wake,
       At, Placed, Ctx, SetmodeLabel, AcquireLabel, ExitLabel, Releaser
  <1>2. Off("acquire") /\ (c = "main" => Off("release"))
    BY <1>1, MainAlone DEF Handshake, Releaser, Off
  <1> USE DEF At, Goto, Return, Placed, Handshake, Releaser, Releasing, Granting,
              InFlipAway, Returning, Off, Ctx, TypeOK, SetmodeLabel, lockVars,
              forbidVars, vtVars
  <1>3. CASE DeferRelease(c)
    BY <1>1, <1>2, <1>3 DEF DeferRelease
  <1>4. CASE RefuseRelease(c)
    BY <1>1, <1>2, <1>4 DEF RefuseRelease
  <1>5. CASE BeginRelease(c)
    BY <1>1, <1>2, <1>5 DEF BeginRelease
  <1>6. CASE FlipAway(c)
    BY <1>1, <1>2, <1>6 DEF FlipAway
  <1>7. CASE FlipAwaySave(c)
    BY <1>1, <1>2, <1>7 DEF FlipAwaySave, CallSetmode
  <1>8. CASE FlipAwayDone(c)
    BY <1>1, <1>2, <1>8 DEF FlipAwayDone
  <1>9. CASE GrantRelease(c)
    BY <1>1, <1>2, <1>9 DEF GrantRelease, RelDisp
  <1>10. CASE AllowAcquire(c)
    BY <1>1, <1>2, <1>10 DEF AllowAcquire
  <1>11. CASE Suspend(c)
    BY <1>1, <1>2, <1>11 DEF Suspend
  <1>12. CASE Wake(c)
    BY <1>1, <1>2, <1>12 DEF Wake
  <1>13. QED BY <1>3, <1>4, <1>5, <1>6, <1>7, <1>8, <1>9, <1>10, <1>11, <1>12
         DEF Release

LEMMA AcquireShake ==
  ASSUME IInv, Handshake, NEW c \in Ctx, Acquire(c) PROVE Handshake'
  <1> USE DEF IInv
  <1>1. c = "acquire" /\ top = c
    BY DEF Acquire, IgnoreAcquire, BeginAcquire, FlipBack, FlipBackRestore,
       AckAcquire, EndAcquire, At, Placed, Ctx, SetmodeLabel, ReleaseLabel,
       AcquireLabel, ExitLabel
  <1>2. below[c] \in Ctx /\ pc[c] # "off"
    BY <1>1 DEF TypeOK, Ctx, Acquire, IgnoreAcquire, BeginAcquire, FlipBack,
       FlipBackRestore, AckAcquire, EndAcquire, At
  <1> USE DEF At, Goto, Return, Placed, Handshake, Releaser, Releasing, Granting,
              InFlipAway, Returning, Off, Ctx, TypeOK, SetmodeLabel, lockVars,
              forbidVars, vtVars
  <1>3. CASE IgnoreAcquire(c)
    BY <1>1, <1>2, <1>3 DEF IgnoreAcquire
  <1>4. CASE BeginAcquire(c)
    BY <1>1, <1>2, <1>4 DEF BeginAcquire
  <1>5. CASE FlipBack(c)
    BY <1>1, <1>2, <1>5 DEF FlipBack, CallSetmode
  <1>6. CASE FlipBackRestore(c)
    BY <1>1, <1>2, <1>6 DEF FlipBackRestore
  <1>7. CASE AckAcquire(c)
    BY <1>1, <1>2, <1>7 DEF AckAcquire, RelDisp
  <1>8. CASE EndAcquire(c)
    BY <1>1, <1>2, <1>8 DEF EndAcquire
  <1>9. QED BY <1>3, <1>4, <1>5, <1>6, <1>7, <1>8 DEF Acquire

LEMMA TerminateShake ==
  ASSUME IInv, Handshake, NEW c \in Ctx, Terminate(c), Alive' PROVE Handshake'
  <1> USE DEF IInv
  <1>1. c \in {"main", "fatal"} /\ top = c /\ pc[c] \in {"rt", "rt_end"}
    BY DEF Terminate, RestoreText, RestoreTextEnd, At, Placed, Ctx, SetmodeLabel,
       ReleaseLabel, AcquireLabel, ExitLabel
  <1>2. ~RestoreTextEnd(c)
    BY <1>1 DEF RestoreTextEnd, Goto, Alive, TypeOK, Ctx
  <1>3. RestoreText(c)
    BY <1>2 DEF Terminate
  <1>4. QED
    BY <1>1, <1>3 DEF RestoreText, Goto, CallSetmode, Placed, Handshake, Releaser,
       Releasing, Granting, InFlipAway, Returning, Off, Ctx, TypeOK, SetmodeLabel,
       lockVars, forbidVars, vtVars

LEMMA CallShake ==
  ASSUME IInv, Handshake, Call PROVE Handshake'
  <1> USE DEF IInv
  <1>1. top = "main" /\ pc["main"] \in {"idle", "rib_wait", "rib_set", "vf_done", "vf_restore"}
    BY DEF Call, vga_lockvc, vga_unlockvc, vga_setmode, vga_runinbackground,
       RunInBackgroundWait, RunInBackgroundSet, vga_flip, FlipDone,
       FlipRestore, Draw, Exit, Running, At
  <1>2. pc["release"] = "off" /\ pc["acquire"] = "off" /\ pc["fatal"] = "off"
    BY <1>1, MainAlone
  <1> USE DEF At, Goto, CallSetmode, Placed, Handshake, Releaser, Releasing,
              Granting, InFlipAway, Returning, Off, Ctx, TypeOK, SetmodeLabel,
              ctlVars, lockVars, forbidVars, vtVars
  <1>3. CASE vga_lockvc
    BY <1>1, <1>2, <1>3 DEF vga_lockvc
  <1>4. CASE vga_unlockvc
    BY <1>1, <1>2, <1>4 DEF vga_unlockvc, ReleaseDue
  <1>5. CASE vga_setmode
    BY <1>1, <1>2, <1>5 DEF vga_setmode
  <1>6. CASE vga_runinbackground
    BY <1>1, <1>2, <1>6 DEF vga_runinbackground
  <1>7. CASE RunInBackgroundWait
    BY <1>1, <1>2, <1>7 DEF RunInBackgroundWait
  <1>8. CASE RunInBackgroundSet
    BY <1>1, <1>2, <1>8 DEF RunInBackgroundSet
  <1>9. CASE vga_flip
    BY <1>1, <1>2, <1>9 DEF vga_flip
  <1>10. CASE FlipDone
    BY <1>1, <1>2, <1>10 DEF FlipDone
  <1>11. CASE FlipRestore
    BY <1>1, <1>2, <1>11 DEF FlipRestore
  <1>12. CASE Draw
    BY <1>1, <1>2, <1>12 DEF Draw
  <1>13. CASE Exit
    BY <1>1, <1>2, <1>13 DEF Exit
  <1>14. QED BY <1>3, <1>4, <1>5, <1>6, <1>7, <1>8, <1>9, <1>10, <1>11, <1>12,
                <1>13 DEF Call

LEMMA OutsideShake ==
  ASSUME Patient, Alive, IInv, Handshake,
         ReleaseSignal \/ AcquireSignal \/ FatalSignal \/ User
  PROVE Handshake'
  <1> USE DEF IInv
  <1>1. UNCHANGED <<lockVars, forbidVars, ret>>
    BY DEF ReleaseSignal, AcquireSignal, FatalSignal, User, progVars, ctlVars,
       Interrupt
  <1> USE DEF Interrupt, Placed, Handshake, Releaser, Releasing, Granting, InFlipAway,
              Returning, Off, Ctx, TypeOK, VTTypeOK, SetmodeLabel, lockVars, forbidVars,
              vtVars, RelSig, AcqSig
  <1>2. CASE ReleaseSignal
    BY <1>1, <1>2 DEF ReleaseSignal
  <1>3. CASE AcquireSignal
    BY <1>1, <1>3 DEF AcquireSignal
  <1>4. CASE FatalSignal
    BY <1>1, <1>4 DEF FatalSignal
  <1>5. CASE User
    <2>1. HandshakeDone /\ UNCHANGED <<top, pc>>
      BY <1>5 DEF User, ctlVars
    <2>2. vtmode = "process"
      BY DEF Arbitrating
    <2>3. ~release_flag /\ \A c \in Releaser : ~Releasing(c)
      BY <2>1 DEF HandshakeDone
    <2>4. Off("acquire")
      BY <2>1, MainAlone DEF HandshakeDone, AcquireLabel, ExitLabel
    <2>5. CASE RequestAway
      BY <1>1, <2>1, <2>2, <2>3, <2>4, <2>5 DEF RequestAway, HandshakeDone
    <2>6. CASE SwitchBack
      <3>1. \A c \in Releaser : pc[c] \notin {"rel_allow", "rel_suspend"}
        BY <2>1 DEF HandshakeDone, ReleaseLabel, ExitLabel
      <3>2. QED BY <1>1, <2>1, <2>2, <2>3, <2>4, <2>6, <3>1 DEF SwitchBack, HandshakeDone
    <2>7. QED BY <1>5, <2>5, <2>6 DEF User
  <1>6. QED BY <1>2, <1>3, <1>4, <1>5

-----------------------------------------------------------------------------
(* Death is for good.                                                      *)
LEMMA AliveBefore ==
  ASSUME IInv, [Next]_vars, Alive' PROVE Alive
  <1> USE DEF IInv, TypeOK, Ctx, Alive
  <1>1. CASE Library
    <2>1. PICK c \in Ctx : Step(c)
      BY <1>1 DEF Library
    <2>2. QED BY <2>1, LibraryControl
  <1>2. CASE Call
    BY <1>2, CallControl
  <1>3. CASE ReleaseSignal \/ AcquireSignal \/ FatalSignal
    BY <1>3 DEF ReleaseSignal, AcquireSignal, FatalSignal, Interrupt
  <1>4. CASE User
    BY <1>4 DEF User, ctlVars
  <1>5. CASE UNCHANGED vars
    BY <1>5 DEF vars, ctlVars
  <1>6. QED BY <1>1, <1>2, <1>3, <1>4, <1>5 DEF Next

PatientInv == IInv /\ (Alive => Handshake)

LEMMA HandshakeStep ==
  ASSUME Patient, PatientInv, [Next]_vars, Alive' PROVE Alive /\ Handshake /\ Handshake'
  <1>1. IInv /\ Alive /\ Handshake
    BY AliveBefore DEF PatientInv
  <1>2. CASE Library
    BY <1>1, <1>2, SetmodeShake, ReleaseShake, AcquireShake, TerminateShake
    DEF Library, Step
  <1>3. CASE Call
    BY <1>1, <1>3, CallShake
  <1>4. CASE ReleaseSignal \/ AcquireSignal \/ FatalSignal \/ User
    BY <1>1, <1>4, OutsideShake
  <1>5. CASE UNCHANGED vars
    BY <1>1, <1>5 DEF vars, ctlVars, lockVars, forbidVars, vtVars, Handshake, Releaser,
       Releasing, Granting, InFlipAway, Returning, Off
  <1>6. QED BY <1>1, <1>2, <1>3, <1>4, <1>5 DEF Next

LEMMA PatientInductive ==
  ASSUME Patient PROVE Spec => []PatientInv
  <1>1. Init => PatientInv
    BY InitIInv, InitHandshake DEF PatientInv
  <1>2. PatientInv /\ IInv' /\ [Next]_vars => PatientInv'
    BY HandshakeStep DEF PatientInv
  <1>3. QED BY <1>1, <1>2, Inductive, PTL DEF Spec

(***************************************************************************)
(* With a patient user the console is never given away while the program   *)
(* holds vga_lockvc: releasevt_signal answers under a count of zero, and   *)
(* when acquirevt_signal acknowledges (vga.c:1557) no request is left for  *)
(* its VT_ACKACQ to complete.                                              *)
(***************************************************************************)
THEOREM LockKept ==
  ASSUME Patient PROVE Spec => LockHolds
  <1> DEFINE G == top # "acquire" /\ fg = "ours" /\ fg' = "other" /\ Alive =>
                    lock_count = 0
             L == fg = "ours" /\ fg' = "other" /\ Alive => lock_count = 0
  <1>1. PatientInv /\ [Next]_vars /\ [G]_vars => [L]_vars
    <2> SUFFICES ASSUME PatientInv, Next, G, fg = "ours", fg' = "other", Alive,
                        top = "acquire"
                 PROVE  FALSE
      OBVIOUS
    <2>1. pc["acquire"] # "off" /\ ~newvt /\ vtmode = "process"
      BY DEF PatientInv, Handshake, Returning, Off, IInv, Stacked, Chain, Handler,
         Arbitrating
    <2>2. CASE Library
      BY <2>1, <2>2 DEF Library, Step, Setmode, SetmodeEnter, SetmodeProgram,
         SetmodeFail, SetmodeEnd, Release, DeferRelease, RefuseRelease,
         BeginRelease, FlipAway, FlipAwaySave, FlipAwayDone, GrantRelease,
         AllowAcquire, Suspend, Wake, Acquire, IgnoreAcquire, BeginAcquire,
         FlipBack, FlipBackRestore, AckAcquire, EndAcquire, Terminate,
         RestoreText, RestoreTextEnd, RelDisp, vtVars
    <2>3. CASE Call
      BY <2>3 DEF Call, vga_lockvc, vga_unlockvc, vga_setmode,
         vga_runinbackground, RunInBackgroundWait, RunInBackgroundSet,
         vga_flip, FlipDone, FlipRestore, Draw, Exit, vtVars
    <2>4. CASE ReleaseSignal \/ AcquireSignal \/ FatalSignal
      BY <2>4 DEF ReleaseSignal, AcquireSignal, FatalSignal, vtVars
    <2>5. CASE User
      BY <2>1, <2>5 DEF User, RequestAway, SwitchBack
    <2>6. QED BY <2>2, <2>3, <2>4, <2>5 DEF Next
  <1>2. QED BY <1>1, PatientInductive, NoGrantUnderLock, PTL
        DEF Spec, LockHolds, GrantsUnlocked

-----------------------------------------------------------------------------
(***************************************************************************)
(* A careful program and a patient user: what a console switch does to the *)
(* card, the save buffer and the program, for any modes, images and nested *)
(* locks, with background running and vga_flip or without, and with fatal  *)
(* signals at any moment; and that every step of VTSwitch is then a step   *)
(* of Screen, the screen a program without switches would have.            *)
(***************************************************************************)

(* Where the context at work is, and what is below it.                     *)
LEMMA ReleaseAt ==
  ASSUME IInv, Handshake, NEW c \in Ctx, Release(c)
  PROVE  /\ c \in Releaser /\ top = c
         /\ Off("acquire") /\ (c = "main" => Off("release") /\ Off("fatal"))
  BY MainAlone DEF IInv, Release, DeferRelease, RefuseRelease, BeginRelease, FlipAway,
     FlipAwaySave, FlipAwayDone, GrantRelease, AllowAcquire, Suspend, Wake,
     At, Placed, Ctx, SetmodeLabel, AcquireLabel, ExitLabel, Releaser, Handshake, Off

LEMMA AcquireAt ==
  ASSUME IInv, NEW c \in Ctx, Acquire(c)
  PROVE  c = "acquire" /\ top = c /\ below[c] \in Ctx /\ ~Off(c)
  <1>1. c = "acquire" /\ top = c /\ ~Off(c)
    BY DEF IInv, Acquire, IgnoreAcquire, BeginAcquire, FlipBack, FlipBackRestore,
       AckAcquire, EndAcquire, At, Placed, Ctx, SetmodeLabel, ReleaseLabel,
       AcquireLabel, ExitLabel, Off
  <1>2. QED BY <1>1 DEF IInv, TypeOK, Ctx

LEMMA TerminateAt ==
  ASSUME IInv, NEW c \in Ctx, Terminate(c), Alive'
  PROVE  c \in {"main", "fatal"} /\ top = c /\ pc[c] = "rt" /\ RestoreText(c)
  <1>1. c \in {"main", "fatal"} /\ top = c /\ pc[c] \in {"rt", "rt_end"}
    BY DEF IInv, Terminate, RestoreText, RestoreTextEnd, At, Placed, Ctx, SetmodeLabel,
       ReleaseLabel, AcquireLabel, ExitLabel
  <1>2. ~RestoreTextEnd(c)
    BY <1>1 DEF RestoreTextEnd, Goto, Alive, IInv, TypeOK, Ctx
  <1>3. QED BY <1>1, <1>2 DEF Terminate, RestoreText, At

LEMMA CallAt ==
  ASSUME IInv, Call
  PROVE  /\ top = "main"
         /\ pc["main"] \in {"idle", "rib_wait", "rib_set", "vf_done", "vf_restore"}
         /\ Off("release") /\ Off("acquire") /\ Off("fatal")
  <1>1. /\ top = "main"
        /\ pc["main"] \in {"idle", "rib_wait", "rib_set", "vf_done", "vf_restore"}
    BY DEF Call, vga_lockvc, vga_unlockvc, vga_setmode, vga_runinbackground,
       RunInBackgroundWait, RunInBackgroundSet, vga_flip, FlipDone,
       FlipRestore, Draw, Exit, Running, At
  <1>2. QED BY <1>1, MainAlone DEF IInv, Off

LEMMA SetmodeAt ==
  ASSUME IInv, NEW c \in Ctx, Setmode(c)
  PROVE  /\ top = c /\ pc[c] \in SetmodeLabel /\ UNCHANGED <<top, below, ret>>
         /\ pc' = [pc EXCEPT ![c] = pc'[c]]
         /\ pc'[c] \in SetmodeLabel \cup {ret[c]}
         /\ ret[c] \in {"idle", "fa_done", "fb_restore", "rt_end", "vf_done", "vf_restore"}
         /\ c = "main" => Off("release") /\ Off("acquire") /\ Off("fatal")
  <1>1. top = c /\ pc[c] \in SetmodeLabel /\ UNCHANGED <<top, below, ret>>
    BY DEF IInv, Setmode, SetmodeEnter, SetmodeProgram, SetmodeFail, SetmodeEnd, At, Goto,
           CallSetmode, SetmodeLabel, TypeOK
  <1>2. /\ pc' = [pc EXCEPT ![c] = pc'[c]]
        /\ pc'[c] \in SetmodeLabel \cup {ret[c]}
    BY DEF IInv, TypeOK, Setmode, SetmodeEnter, SetmodeProgram, SetmodeFail, SetmodeEnd, At,
           Goto, CallSetmode, SetmodeLabel
  <1>3. ret[c] \in {"idle", "fa_done", "fb_restore", "rt_end", "vf_done", "vf_restore"}
    BY <1>1 DEF IInv, Placed, Ctx
  <1>4. QED BY <1>1, <1>2, <1>3, MainAlone DEF IInv, Off

-----------------------------------------------------------------------------
(* Bracketing: lock_count, app_bg and where main is.                       *)

LEMMA InitBracketing == Init => Bracketing
  BY DEF Init, VTInit, Bracketing, Delicate, Flipped, Setting, Returning, Off, Releaser,
     Granting, InFlipAway, Ctx, SetmodeLabel, ExitLabel

LEMMA SetmodeBracketing ==
  ASSUME IInv, Bracketing, NEW c \in Ctx, Setmode(c) PROVE Bracketing'
  <1>1. UNCHANGED <<lockVars, bgVars, appVars, fg, pend>>
    BY DEF Setmode, SetmodeEnter, SetmodeProgram, SetmodeFail, SetmodeEnd, vtVars
  <1>2. QED
    BY <1>1, SetmodeAt DEF Bracketing, Delicate, Flipped, Setting, Returning, Off,
       Releaser, Granting, Granted, InFlipAway, Ctx, SetmodeLabel, ExitLabel, IInv,
       Placed, lockVars, bgVars, appVars, TypeOK

LEMMA ReleaseBracketing ==
  ASSUME IInv, Handshake, Bracketing, NEW c \in Ctx, Release(c) PROVE Bracketing'
  <1>1. /\ c \in Releaser /\ top = c
        /\ Off("acquire") /\ (c = "main" => Off("release") /\ Off("fatal"))
    BY ReleaseAt
  <1> USE DEF IInv, At, Goto, Return, Placed, Handshake, Bracketing, Delicate, Flipped,
              Setting, Returning, Off, Releaser, Releasing, Granting, Granted,
              InFlipAway, Ctx, TypeOK, SetmodeLabel, ExitLabel, lockVars, bgVars, appVars,
              forbidVars, vtVars
  <1>3. CASE DeferRelease(c)
    BY <1>1, <1>3 DEF DeferRelease
  <1>4. CASE RefuseRelease(c)
    BY <1>1, <1>4 DEF RefuseRelease, RelDisp
  <1>5. CASE BeginRelease(c)
    BY <1>1, <1>5 DEF BeginRelease, Locked
  <1>6. CASE FlipAway(c)
    BY <1>1, <1>6 DEF FlipAway
  <1>7. CASE FlipAwaySave(c)
    BY <1>1, <1>7 DEF FlipAwaySave, CallSetmode
  <1>8. CASE FlipAwayDone(c)
    BY <1>1, <1>8 DEF FlipAwayDone
  <1>9. CASE GrantRelease(c)
    BY <1>1, <1>9 DEF GrantRelease, RelDisp
  <1>10. CASE AllowAcquire(c)
    BY <1>1, <1>10 DEF AllowAcquire
  <1>11. CASE Suspend(c)
    BY <1>1, <1>11 DEF Suspend
  <1>12. CASE Wake(c)
    BY <1>1, <1>12 DEF Wake, VTActive, Deliverable
  <1>13. QED BY <1>3, <1>4, <1>5, <1>6, <1>7, <1>8, <1>9, <1>10, <1>11, <1>12
         DEF Release

LEMMA AcquireBracketing ==
  ASSUME IInv, Handshake, Bracketing, NEW c \in Ctx, Acquire(c) PROVE Bracketing'
  <1>1. c = "acquire" /\ top = c /\ below[c] \in Ctx /\ ~Off(c)
    BY AcquireAt
  <1> USE DEF IInv, At, Goto, Return, Placed, Handshake, Bracketing, Delicate, Flipped,
              Setting, Returning, Off, Releaser, Releasing, Granting, Granted,
              InFlipAway, Ctx, TypeOK, SetmodeLabel, ExitLabel, lockVars, bgVars, appVars,
              forbidVars, vtVars
  <1>3. CASE IgnoreAcquire(c)
    BY <1>1, <1>3 DEF IgnoreAcquire
  <1>4. CASE BeginAcquire(c)
    BY <1>1, <1>4 DEF BeginAcquire
  <1>5. CASE FlipBack(c)
    BY <1>1, <1>5 DEF FlipBack, CallSetmode
  <1>6. CASE FlipBackRestore(c)
    BY <1>1, <1>6 DEF FlipBackRestore
  <1>7. CASE AckAcquire(c)
    BY <1>1, <1>7 DEF AckAcquire, RelDisp
  <1>8. CASE EndAcquire(c)
    BY <1>1, <1>8 DEF EndAcquire
  <1>9. QED BY <1>3, <1>4, <1>5, <1>6, <1>7, <1>8 DEF Acquire

LEMMA TerminateBracketing ==
  ASSUME IInv, Bracketing, Choosing, NEW c \in Ctx, Terminate(c), Alive'
  PROVE  Bracketing'
  BY TerminateAt DEF RestoreText, InGraphics, Choosing, IInv, At, Goto, CallSetmode, Placed, Bracketing,
     Delicate, Flipped, Setting, Returning, Off, Releaser, Granting, Granted,
     InFlipAway, Ctx, TypeOK, SetmodeLabel, ExitLabel, lockVars, bgVars, appVars, vtVars

LEMMA CallBracketing ==
  ASSUME Careful, IInv, Handshake, Bracketing, Call PROVE Bracketing'
  <1>1. /\ top = "main"
        /\ pc["main"] \in {"idle", "rib_wait", "rib_set", "vf_done", "vf_restore"}
        /\ Off("release") /\ Off("acquire") /\ Off("fatal")
    BY CallAt
  <1> USE DEF IInv, At, Goto, CallSetmode, Placed, Handshake, Bracketing, Delicate,
              Flipped, Setting, Returning, Off, Releaser, Releasing, Granting, Granted,
              InFlipAway, Ctx, TypeOK, SetmodeLabel, ExitLabel, ctlVars, lockVars, bgVars,
              appVars, vtVars, Running, Bracketed, Unflipped
  <1>3. CASE vga_lockvc
    BY <1>1, <1>3 DEF vga_lockvc
  <1>4. CASE vga_unlockvc
    <2>1. UNCHANGED <<bgVars, appVars, vtVars>> /\ ~app_flip /\ pc["main"] = "idle"
      BY <1>4 DEF vga_unlockvc
    <2>2. CASE Goto("main", "rel")
      BY <1>1, <2>1, <2>2
    <2>3. CASE UNCHANGED ctlVars
      BY <1>1, <2>1, <2>3
    <2>4. QED BY <1>4, <2>2, <2>3 DEF vga_unlockvc
  <1>5. CASE vga_setmode
    BY <1>1, <1>5 DEF vga_setmode
  <1>6. CASE vga_runinbackground
    BY <1>1, <1>6 DEF vga_runinbackground, VTTypeOK
  <1>7. CASE RunInBackgroundWait
    <2>1. /\ fg = "ours" /\ Goto("main", "rib_set")
          /\ pc["main"] = "rib_wait" /\ Delicate
      BY <1>7 DEF RunInBackgroundWait, VTActive
    <2>2. UNCHANGED <<lockVars, bgVars, appVars, vtVars>>
      BY <1>7 DEF RunInBackgroundWait
    <2>3. QED BY <1>1, <2>1, <2>2
  <1>8. CASE RunInBackgroundSet
    BY <1>1, <1>8 DEF RunInBackgroundSet
  <1>9. CASE vga_flip
    BY <1>1, <1>9 DEF vga_flip
  <1>10. CASE FlipDone
    BY <1>1, <1>10 DEF FlipDone
  <1>11. CASE FlipRestore
    BY <1>1, <1>11 DEF FlipRestore
  <1>12. CASE Draw
    BY <1>1, <1>12 DEF Draw
  <1>13. CASE Exit
    BY <1>1, <1>13 DEF Exit
  <1>14. QED BY <1>3, <1>4, <1>5, <1>6, <1>7, <1>8, <1>9, <1>10, <1>11, <1>12,
                <1>13 DEF Call

LEMMA OutsideBracketing ==
  ASSUME Patient, Alive, IInv, Handshake, Bracketing,
         ReleaseSignal \/ AcquireSignal \/ FatalSignal \/ User
  PROVE Bracketing'
  <1>1. UNCHANGED <<lockVars, bgVars, appVars, ret>>
    BY DEF ReleaseSignal, AcquireSignal, FatalSignal, User, progVars, ctlVars,
       Interrupt
  <1> USE DEF IInv, Interrupt, Placed, Handshake, Bracketing, Delicate, Flipped, Setting,
              Returning, Off, Releaser, Releasing, Granting, Granted, InFlipAway, Ctx,
              TypeOK, VTTypeOK, SetmodeLabel, ExitLabel, lockVars, bgVars, appVars, vtVars,
              RelSig, AcqSig
  <1>2. CASE ReleaseSignal
    BY <1>1, <1>2 DEF ReleaseSignal
  <1>3. CASE AcquireSignal
    BY <1>1, <1>3 DEF AcquireSignal
  <1>4. CASE FatalSignal
    BY <1>1, <1>4 DEF FatalSignal
  <1>5. CASE User
    BY <1>1, <1>5 DEF User, RequestAway, SwitchBack, ctlVars, Arbitrating
  <1>6. QED BY <1>2, <1>3, <1>4, <1>5

-----------------------------------------------------------------------------
(* Buffering: the save buffer and the windows.                             *)

LEMMA InitBuffering == Init => Buffering
  BY DEF Init, VTInit, Buffering, Flipped, Moved, Setting, Releaser, InFlipAway, Ctx,
     SetmodeLabel

LEMMA SetmodeBuffering ==
  ASSUME IInv, Handshake, Bracketing, Buffering, NEW c \in Ctx, Setmode(c) PROVE Buffering'
  <1>1. UNCHANGED <<flip_mode, bgVars, bufkind, map, appVars>>
    BY DEF Setmode, SetmodeEnter, SetmodeProgram, SetmodeFail, SetmodeEnd, Paint, bufVars,
       modeVars
  <1>2. QED
    BY <1>1, SetmodeAt DEF Buffering, Flipped, Moved, Setting, Off, Releaser, InFlipAway,
       Ctx, SetmodeLabel, IInv, Placed, bgVars, appVars, TypeOK

LEMMA ReleaseBuffering ==
  ASSUME IInv, Handshake, Bracketing, Buffering, NEW c \in Ctx, Release(c)
  PROVE  Buffering'
  <1>1. /\ c \in Releaser /\ top = c
        /\ Off("acquire") /\ (c = "main" => Off("release") /\ Off("fatal"))
    BY ReleaseAt
  <1> USE DEF IInv, At, Goto, Return, Placed, Handshake, Bracketing, Buffering, Delicate,
              Flipped, Moved, Setting, Returning, Off, Releaser, Releasing, Granting,
              Granted, InFlipAway, Ctx, TypeOK, SetmodeLabel, ExitLabel, modeVars, bgVars,
              appVars, bufVars
  <1>3. CASE DeferRelease(c)
    BY <1>1, <1>3 DEF DeferRelease
  <1>4. CASE RefuseRelease(c)
    BY <1>1, <1>4 DEF RefuseRelease
  <1>5. CASE BeginRelease(c)
    BY <1>1, <1>5 DEF BeginRelease
  <1>6. CASE FlipAway(c)
    BY <1>1, <1>6 DEF FlipAway
  <1>7. CASE FlipAwaySave(c)
    BY <1>1, <1>7 DEF FlipAwaySave, CallSetmode, SaveState
  <1>8. CASE FlipAwayDone(c)
    BY <1>1, <1>8 DEF FlipAwayDone, AwayMap
  <1>9. CASE GrantRelease(c)
    BY <1>1, <1>9 DEF GrantRelease
  <1>10. CASE AllowAcquire(c)
    BY <1>1, <1>10 DEF AllowAcquire
  <1>11. CASE Suspend(c)
    BY <1>1, <1>11 DEF Suspend
  <1>12. CASE Wake(c)
    BY <1>1, <1>12 DEF Wake
  <1>13. QED BY <1>3, <1>4, <1>5, <1>6, <1>7, <1>8, <1>9, <1>10, <1>11, <1>12
         DEF Release

LEMMA AcquireBuffering ==
  ASSUME IInv, Handshake, Bracketing, Buffering, NEW c \in Ctx, Acquire(c)
  PROVE  Buffering'
  <1>1. c = "acquire" /\ top = c /\ below[c] \in Ctx /\ ~Off(c)
    BY AcquireAt
  <1> USE DEF IInv, At, Goto, Return, Placed, Handshake, Bracketing, Buffering, Delicate,
              Flipped, Moved, Setting, Returning, Off, Releaser, Releasing, Granting,
              Granted, InFlipAway, Ctx, TypeOK, SetmodeLabel, ExitLabel, modeVars, bgVars,
              appVars, bufVars
  <1>3. CASE IgnoreAcquire(c)
    BY <1>1, <1>3 DEF IgnoreAcquire
  <1>4. CASE BeginAcquire(c)
    BY <1>1, <1>4 DEF BeginAcquire
  <1>5. CASE FlipBack(c)
    BY <1>1, <1>5 DEF FlipBack, CallSetmode
  <1>6. CASE FlipBackRestore(c)
    BY <1>1, <1>6 DEF FlipBackRestore, RestoreState
  <1>7. CASE AckAcquire(c)
    BY <1>1, <1>7 DEF AckAcquire
  <1>8. CASE EndAcquire(c)
    BY <1>1, <1>8 DEF EndAcquire
  <1>9. QED BY <1>3, <1>4, <1>5, <1>6, <1>7, <1>8 DEF Acquire

LEMMA TerminateBuffering ==
  ASSUME IInv, Buffering, NEW c \in Ctx, Terminate(c), Alive' PROVE Buffering'
  BY TerminateAt DEF RestoreText, IInv, At, Goto, CallSetmode, Placed, Buffering,
     Flipped, Moved, Setting, Off, Releaser, InFlipAway, Ctx, TypeOK, SetmodeLabel,
     modeVars, bgVars, appVars, bufVars

LEMMA CallBuffering ==
  ASSUME Careful, IInv, Handshake, Bracketing, Buffering, Choosing, Call PROVE Buffering'
  <1>1. /\ top = "main"
        /\ pc["main"] \in {"idle", "rib_wait", "rib_set", "vf_done", "vf_restore"}
        /\ Off("release") /\ Off("acquire") /\ Off("fatal")
    BY CallAt
  <1> USE DEF IInv, At, Goto, CallSetmode, Placed, Bracketing, Buffering, Delicate,
              Flipped, Moved, Setting, Off, Releaser, InFlipAway, Ctx, TypeOK, SetmodeLabel,
              ExitLabel, ctlVars, modeVars, lockVars, bgVars, appVars, bufVars, Running,
              Bracketed, Unflipped
  <1>3. CASE vga_lockvc
    BY <1>1, <1>3 DEF vga_lockvc
  <1>4. CASE vga_unlockvc
    <2>1. CASE Goto("main", "rel")
      BY <1>1, <1>4, <2>1 DEF vga_unlockvc
    <2>2. CASE UNCHANGED ctlVars
      BY <1>1, <1>4, <2>2 DEF vga_unlockvc
    <2>3. QED BY <1>4, <2>1, <2>2 DEF vga_unlockvc
  <1>5. CASE vga_setmode
    BY <1>1, <1>5 DEF vga_setmode
  <1>6. CASE vga_runinbackground
    BY <1>1, <1>6 DEF vga_runinbackground
  <1>7. CASE RunInBackgroundWait
    BY <1>1, <1>7 DEF RunInBackgroundWait
  <1>8. CASE RunInBackgroundSet
    BY <1>1, <1>8 DEF RunInBackgroundSet
  <1>9. CASE vga_flip
    BY <1>1, <1>9 DEF vga_flip, SaveState, Choosing
  <1>10. CASE FlipDone
    BY <1>1, <1>10 DEF FlipDone
  <1>11. CASE FlipRestore
    BY <1>1, <1>11 DEF FlipRestore, RestoreState
  <1>12. CASE Draw
    BY <1>1, <1>12 DEF Draw, Paint
  <1>13. CASE Exit
    BY <1>1, <1>13 DEF Exit
  <1>14. QED BY <1>3, <1>4, <1>5, <1>6, <1>7, <1>8, <1>9, <1>10, <1>11, <1>12,
                <1>13 DEF Call

LEMMA OutsideBuffering ==
  ASSUME Patient, Alive, IInv, Handshake, Bracketing, Buffering,
         ReleaseSignal \/ AcquireSignal \/ FatalSignal \/ User
  PROVE Buffering'
  <1>1. UNCHANGED <<modeVars, bgVars, appVars, bufVars, map, ret>>
    BY DEF ReleaseSignal, AcquireSignal, FatalSignal, User, progVars, ctlVars,
       Interrupt
  <1> USE DEF IInv, Interrupt, Placed, Handshake, Bracketing, Buffering, Flipped, Moved,
              Setting, Returning, Off, Releaser, Releasing, Granting, InFlipAway, Ctx,
              TypeOK, VTTypeOK, SetmodeLabel, modeVars, bgVars, appVars, bufVars
  <1>2. CASE ReleaseSignal
    BY <1>1, <1>2 DEF ReleaseSignal
  <1>3. CASE AcquireSignal
    BY <1>1, <1>3 DEF AcquireSignal
  <1>4. CASE FatalSignal
    BY <1>1, <1>4 DEF FatalSignal
  <1>5. CASE User
    BY <1>1, <1>5 DEF User, ctlVars
  <1>6. QED BY <1>2, <1>3, <1>4, <1>5

-----------------------------------------------------------------------------
(* Arguments: the modes vga_setmode is called for.                         *)

LEMMA InitArguments == Init => Arguments
  BY DEF Init, Arguments, Setting, Ctx, SetmodeLabel

LEMMA SetmodeArguments ==
  ASSUME IInv, Buffering, Arguments, NEW c \in Ctx, Setmode(c) PROVE Arguments'
  <1>1. UNCHANGED flip_mode
    BY DEF Setmode, SetmodeEnter, SetmodeProgram, SetmodeFail, SetmodeEnd, modeVars
  <1> USE <1>1, SetmodeAt DEF Arguments, Setting, Ctx, SetmodeLabel, IInv, TypeOK, At,
          Goto, CallSetmode
  <1>2. CASE SetmodeEnter(c)
    BY <1>2 DEF SetmodeEnter
  <1>3. CASE SetmodeProgram(c)
    BY <1>3 DEF SetmodeProgram
  <1>4. CASE SetmodeFail(c)
    BY <1>4 DEF SetmodeFail, Buffering, Flipped
  <1>5. CASE SetmodeEnd(c)
    BY <1>5 DEF SetmodeEnd
  <1>6. QED BY <1>2, <1>3, <1>4, <1>5 DEF Setmode

LEMMA ReleaseArguments ==
  ASSUME IInv, Handshake, Bracketing, Buffering, Arguments, NEW c \in Ctx,
         Release(c)
  PROVE  Arguments'
  <1>1. /\ c \in Releaser /\ top = c
        /\ Off("acquire") /\ (c = "main" => Off("release") /\ Off("fatal"))
    BY ReleaseAt
  <1> USE DEF IInv, At, Goto, Return, CallSetmode, Placed, Bracketing,
              Buffering, Delicate, Flipped, Moved, Setting, Off, Releaser,
              Granting, InFlipAway, GrantingUnlocked, Ctx, TypeOK, SetmodeLabel,
              ExitLabel, modeVars, ctlVars, Arguments
  <1>2. CASE DeferRelease(c)
    BY <1>1, <1>2 DEF DeferRelease
  <1>3. CASE RefuseRelease(c)
    BY <1>1, <1>3 DEF RefuseRelease
  <1>4. CASE BeginRelease(c)
    BY <1>1, <1>4 DEF BeginRelease
  <1>5. CASE FlipAway(c)
    BY <1>1, <1>5 DEF FlipAway
  <1>6. CASE FlipAwaySave(c)
    BY <1>1, <1>6 DEF FlipAwaySave
  <1>7. CASE FlipAwayDone(c)
    BY <1>1, <1>7 DEF FlipAwayDone
  <1>8. CASE GrantRelease(c)
    BY <1>1, <1>8 DEF GrantRelease
  <1>9. CASE AllowAcquire(c)
    BY <1>1, <1>9 DEF AllowAcquire
  <1>10. CASE Suspend(c)
    BY <1>1, <1>10 DEF Suspend
  <1>11. CASE Wake(c)
    BY <1>1, <1>11 DEF Wake
  <1>12. QED BY <1>2, <1>3, <1>4, <1>5, <1>6, <1>7, <1>8, <1>9, <1>10, <1>11 DEF
              Release

LEMMA AcquireArguments ==
  ASSUME IInv, Handshake, Bracketing, Buffering, Arguments, NEW c \in Ctx,
         Acquire(c)
  PROVE  Arguments'
  <1>1. c = "acquire" /\ top = c /\ below[c] \in Ctx /\ ~Off(c)
    BY AcquireAt
  <1> USE DEF IInv, At, Goto, Return, CallSetmode, Placed, Bracketing,
              Buffering, Delicate, Flipped, Moved, Setting, Off, Releaser,
              Granting, InFlipAway, GrantingUnlocked, Ctx, TypeOK, SetmodeLabel,
              ExitLabel, modeVars, ctlVars, Arguments
  <1>2. CASE IgnoreAcquire(c)
    BY <1>1, <1>2 DEF IgnoreAcquire
  <1>3. CASE BeginAcquire(c)
    BY <1>1, <1>3 DEF BeginAcquire
  <1>4. CASE FlipBack(c)
    BY <1>1, <1>4 DEF FlipBack
  <1>5. CASE FlipBackRestore(c)
    BY <1>1, <1>5 DEF FlipBackRestore
  <1>6. CASE AckAcquire(c)
    BY <1>1, <1>6 DEF AckAcquire
  <1>7. CASE EndAcquire(c)
    BY <1>1, <1>7 DEF EndAcquire
  <1>8. QED BY <1>2, <1>3, <1>4, <1>5, <1>6, <1>7 DEF Acquire

LEMMA TerminateArguments ==
  ASSUME IInv, Arguments, NEW c \in Ctx, Terminate(c), Alive' PROVE Arguments'
  BY TerminateAt DEF RestoreText, IInv, At, Goto, CallSetmode, Arguments, Setting, Ctx,
     TypeOK, SetmodeLabel, modeVars

LEMMA CallArguments ==
  ASSUME IInv, Handshake, Bracketing, Buffering, Arguments, Call
  PROVE  Arguments'
  <1>1. /\ top = "main"
        /\ pc["main"] \in {"idle", "rib_wait", "rib_set", "vf_done", "vf_restore"}
        /\ Off("release") /\ Off("acquire") /\ Off("fatal")
    BY CallAt
  <1> USE DEF IInv, At, Goto, Return, CallSetmode, Placed, Bracketing,
              Buffering, Delicate, Flipped, Moved, Setting, Off, Releaser,
              Granting, InFlipAway, GrantingUnlocked, Ctx, TypeOK, SetmodeLabel,
              ExitLabel, modeVars, ctlVars, Arguments
  <1>2. CASE vga_lockvc
    BY <1>1, <1>2 DEF vga_lockvc
  <1>3. CASE vga_unlockvc
    BY <1>1, <1>3 DEF vga_unlockvc
  <1>4. CASE vga_setmode
    BY <1>1, <1>4 DEF vga_setmode
  <1>5. CASE vga_runinbackground
    BY <1>1, <1>5 DEF vga_runinbackground
  <1>6. CASE RunInBackgroundWait
    BY <1>1, <1>6 DEF RunInBackgroundWait
  <1>7. CASE RunInBackgroundSet
    BY <1>1, <1>7 DEF RunInBackgroundSet
  <1>8. CASE vga_flip
    BY <1>1, <1>8 DEF vga_flip
  <1>9. CASE FlipDone
    BY <1>1, <1>9 DEF FlipDone
  <1>10. CASE FlipRestore
    BY <1>1, <1>10 DEF FlipRestore
  <1>11. CASE Draw
    BY <1>1, <1>11 DEF Draw
  <1>12. CASE Exit
    BY <1>1, <1>12 DEF Exit
  <1>13. QED BY <1>2, <1>3, <1>4, <1>5, <1>6, <1>7, <1>8, <1>9, <1>10, <1>11,
              <1>12 DEF Call

LEMMA OutsideArguments ==
  ASSUME IInv, Arguments, ReleaseSignal \/ AcquireSignal \/ FatalSignal \/ User
  PROVE  Arguments'
  <1>1. UNCHANGED <<modeVars, arg, ret>>
    BY DEF ReleaseSignal, AcquireSignal, FatalSignal, User, progVars, ctlVars,
       Interrupt
  <1>2. pc' = pc \/ \E h \in Ctx, l \in {"rel", "acq", "rt"} : pc' = [pc EXCEPT ![h] = l]
    BY DEF ReleaseSignal, AcquireSignal, FatalSignal, User, Interrupt, ctlVars, Ctx
  <1>3. QED BY <1>1, <1>2 DEF Arguments, Setting, Ctx, SetmodeLabel, IInv, TypeOK, modeVars

-----------------------------------------------------------------------------
(* Choosing: CM and the modes asked for.                                   *)

LEMMA InitChoosing == Init => Choosing
  BY VTSwitchAssumption DEF Init, VTInit, Choosing, Moved, Setting, Off, Releaser, Ctx, SetmodeLabel, ExitLabel

(* While main is at work in its own vga_setmode, or about to exit, nothing *)
(* of its screen is in a save buffer.                                      *)
LEMMA MainShown ==
  ASSUME IInv, Handshake, Bracketing, Buffering, top = "main", ~app_flip,
         \/ Setting("main") /\ ret["main"] \in {"idle", "rt_end"}
         \/ pc["main"] \in ExitLabel
  PROVE  ~app_bg /\ fg # "other" /\ ~Moved /\ bufkind = "none" /\ ScreenMode = CM
  <1>1. Off("release") /\ Off("acquire")
    BY MainAlone DEF IInv, Off
  <1>2. ~app_bg
    BY <1>1 DEF Bracketing, Delicate, Setting, Releaser, Granting, Granted, InFlipAway,
       Off, SetmodeLabel, ExitLabel
  <1>3. QED BY <1>2 DEF Bracketing, Buffering, Moved, Flipped, Setting, ScreenMode,
               SetmodeLabel, ExitLabel


LEMMA SetmodeChoosing ==
  ASSUME IInv, Handshake, Bracketing, Buffering, Arguments, Choosing, NEW c \in
         Ctx, Setmode(c)
  PROVE  Choosing'
  <1>1. /\ top = c /\ pc[c] \in SetmodeLabel /\ UNCHANGED <<top, below, ret>>
        /\ ret[c] \in {"idle", "fa_done", "fb_restore", "rt_end", "vf_done", "vf_restore"}
        /\ UNCHANGED <<flip_mode, bgVars, bufkind, map, appVars, fg, pend>>
        /\ c = "main" => Off("release") /\ Off("acquire") /\ Off("fatal")
    BY SetmodeAt, VTSwitchAssumption DEF Setmode, SetmodeEnter, SetmodeProgram, SetmodeFail,
       SetmodeEnd, Paint, bufVars, modeVars, vtVars
  <1> USE DEF IInv, At, Goto, Return, CallSetmode, Placed, Handshake, Releasing,
              Returning, Bracketing, Buffering, Delicate, Flipped, Moved,
              Setting, Off, Releaser, Granting, Granted, InFlipAway,
              GrantingUnlocked, Ctx, TypeOK, SetmodeLabel, ExitLabel, modeVars,
              bgVars, appVars, bufVars, vtVars, ctlVars, Arguments, Choosing,
              ScreenMode
  <1>2. CASE SetmodeEnter(c)
    BY <1>1, <1>2, MainShown, VTSwitchAssumption DEF SetmodeEnter
  <1>3. CASE SetmodeProgram(c)
    BY <1>1, <1>3 DEF SetmodeProgram
  <1>4. CASE SetmodeFail(c)
    BY <1>1, <1>4, MainShown, VTSwitchAssumption DEF SetmodeFail
  <1>5. CASE SetmodeEnd(c)
    BY <1>1, <1>5, MainShown, VTSwitchAssumption DEF SetmodeEnd
  <1>6. QED BY <1>2, <1>3, <1>4, <1>5 DEF Setmode

LEMMA ReleaseChoosing ==
  ASSUME IInv, Handshake, Bracketing, Buffering, Arguments, Choosing, NEW c \in
         Ctx, Release(c)
  PROVE  Choosing'
  <1>1. /\ c \in Releaser /\ top = c
        /\ Off("acquire") /\ (c = "main" => Off("release") /\ Off("fatal"))
    BY ReleaseAt
  <1> USE DEF IInv, At, Goto, Return, CallSetmode, Placed, Handshake, Releasing,
              Returning, Bracketing, Buffering, Delicate, Flipped, Moved,
              Setting, Off, Releaser, Granting, Granted, InFlipAway,
              GrantingUnlocked, Ctx, TypeOK, SetmodeLabel, ExitLabel, modeVars,
              bgVars, appVars, bufVars, vtVars, ctlVars, Arguments, Choosing,
              ScreenMode
  <1>2. CASE DeferRelease(c)
    BY <1>1, <1>2 DEF DeferRelease
  <1>3. CASE RefuseRelease(c)
    BY <1>1, <1>3 DEF RefuseRelease
  <1>4. CASE BeginRelease(c)
    BY <1>1, <1>4 DEF BeginRelease
  <1>5. CASE FlipAway(c)
    BY <1>1, <1>5 DEF FlipAway
  <1>6. CASE FlipAwaySave(c)
    BY <1>1, <1>6, VTSwitchAssumption DEF FlipAwaySave, SaveState
  <1>7. CASE FlipAwayDone(c)
    BY <1>1, <1>7 DEF FlipAwayDone
  <1>8. CASE GrantRelease(c)
    BY <1>1, <1>8 DEF GrantRelease, RelDisp
  <1>9. CASE AllowAcquire(c)
    BY <1>1, <1>9 DEF AllowAcquire
  <1>10. CASE Suspend(c)
    BY <1>1, <1>10 DEF Suspend
  <1>11. CASE Wake(c)
    BY <1>1, <1>11 DEF Wake
  <1>12. QED BY <1>2, <1>3, <1>4, <1>5, <1>6, <1>7, <1>8, <1>9, <1>10, <1>11 DEF
              Release

LEMMA AcquireChoosing ==
  ASSUME IInv, Handshake, Bracketing, Buffering, Arguments, Choosing, NEW c \in
         Ctx, Acquire(c)
  PROVE  Choosing'
  <1>1. c = "acquire" /\ top = c /\ below[c] \in Ctx /\ ~Off(c)
    BY AcquireAt
  <1> USE DEF IInv, At, Goto, Return, CallSetmode, Placed, Handshake, Releasing,
              Returning, Bracketing, Buffering, Delicate, Flipped, Moved,
              Setting, Off, Releaser, Granting, Granted, InFlipAway,
              GrantingUnlocked, Ctx, TypeOK, SetmodeLabel, ExitLabel, modeVars,
              bgVars, appVars, bufVars, vtVars, ctlVars, Arguments, Choosing,
              ScreenMode
  <1>2. CASE IgnoreAcquire(c)
    BY <1>1, <1>2 DEF IgnoreAcquire
  <1>3. CASE BeginAcquire(c)
    BY <1>1, <1>3 DEF BeginAcquire
  <1>4. CASE FlipBack(c)
    BY <1>1, <1>4 DEF FlipBack
  <1>5. CASE FlipBackRestore(c)
    BY <1>1, <1>5 DEF FlipBackRestore, RestoreState
  <1>6. CASE AckAcquire(c)
    BY <1>1, <1>6 DEF AckAcquire, RelDisp
  <1>7. CASE EndAcquire(c)
    BY <1>1, <1>7 DEF EndAcquire
  <1>8. QED BY <1>2, <1>3, <1>4, <1>5, <1>6, <1>7 DEF Acquire

LEMMA CallChoosing ==
  ASSUME Careful, IInv, Handshake, Bracketing, Buffering, Arguments, Choosing,
         Call
  PROVE  Choosing'
  <1>1. /\ top = "main"
        /\ pc["main"] \in {"idle", "rib_wait", "rib_set", "vf_done", "vf_restore"}
        /\ Off("release") /\ Off("acquire") /\ Off("fatal")
    BY CallAt
  <1> USE DEF IInv, At, Goto, Return, CallSetmode, Placed, Handshake, Releasing,
              Returning, Bracketing, Buffering, Delicate, Flipped, Moved,
              Setting, Off, Releaser, Granting, Granted, InFlipAway,
              GrantingUnlocked, Ctx, TypeOK, SetmodeLabel, ExitLabel, modeVars,
              bgVars, appVars, bufVars, vtVars, ctlVars, Arguments, Choosing,
              ScreenMode, Running, Bracketed, Unflipped
  <1>2. CASE vga_lockvc
    BY <1>1, <1>2 DEF vga_lockvc
  <1>3. CASE vga_unlockvc
    BY <1>1, <1>3 DEF vga_unlockvc
  <1>4. CASE vga_setmode
    BY <1>1, <1>4 DEF vga_setmode
  <1>5. CASE vga_runinbackground
    BY <1>1, <1>5 DEF vga_runinbackground
  <1>6. CASE RunInBackgroundWait
    BY <1>1, <1>6 DEF RunInBackgroundWait
  <1>7. CASE RunInBackgroundSet
    BY <1>1, <1>7 DEF RunInBackgroundSet
  <1>8. CASE vga_flip
    BY <1>1, <1>8 DEF vga_flip, SaveState
  <1>9. CASE FlipDone
    BY <1>1, <1>9 DEF FlipDone
  <1>10. CASE FlipRestore
    BY <1>1, <1>10 DEF FlipRestore, RestoreState
  <1>11. CASE Draw
    BY <1>1, <1>11 DEF Draw
  <1>12. CASE Exit
    BY <1>1, <1>12 DEF Exit
  <1>13. QED BY <1>2, <1>3, <1>4, <1>5, <1>6, <1>7, <1>8, <1>9, <1>10, <1>11,
              <1>12 DEF Call


LEMMA TerminateChoosing ==
  ASSUME IInv, Handshake, Bracketing, Buffering, Choosing, NEW c \in Ctx,
         Terminate(c), Alive'
  PROVE  Choosing'
  <1>1. c \in {"main", "fatal"} /\ top = c /\ pc[c] = "rt" /\ RestoreText(c)
    BY TerminateAt
  <1>2. c = "main" /\ ~app_flip => ScreenMode = CM
    BY <1>1, MainShown DEF ExitLabel
  <1>3. QED
    BY <1>1, <1>2 DEF RestoreText, InGraphics, IInv, At, Goto, CallSetmode, Choosing,
       ScreenMode, Moved, Setting, Off, Releaser, Ctx, TypeOK, SetmodeLabel, modeVars,
       appVars, bufVars, vtVars

LEMMA OutsideChoosing ==
  ASSUME Alive, IInv, Handshake, Choosing, ReleaseSignal \/ AcquireSignal \/
         FatalSignal \/ User
  PROVE  Choosing'
  <1>1. UNCHANGED <<modeVars, arg, ret, bufVars, appVars>>
    BY DEF ReleaseSignal, AcquireSignal, FatalSignal, User, progVars, ctlVars,
       Interrupt
  <1> USE DEF IInv, Interrupt, Placed, Handshake, Moved, Setting, Off, Releaser,
              Returning, Ctx, TypeOK, VTTypeOK, SetmodeLabel, modeVars, bufVars,
              appVars, vtVars, Arbitrating, Choosing, ScreenMode
  <1>2. CASE ReleaseSignal
    BY <1>1, <1>2 DEF ReleaseSignal
  <1>3. CASE AcquireSignal
    BY <1>1, <1>3 DEF AcquireSignal
  <1>4. CASE FatalSignal
    BY <1>1, <1>4 DEF FatalSignal
  <1>5. CASE User
    BY <1>1, <1>5 DEF User, RequestAway, SwitchBack, ctlVars
  <1>6. QED BY <1>2, <1>3, <1>4, <1>5


-----------------------------------------------------------------------------
(* Settled: the card.  Flipping: the flag flip.                            *)

LEMMA InitSettled == Init => Settled /\ Flipping
  BY DEF Init, VTInit, Settled, Flipping, Setting, Off, Ctx, SetmodeLabel

LEMMA SetmodeSettled ==
  ASSUME IInv, Handshake, Bracketing, Buffering, Arguments, Choosing, Settled,
         Flipping, NEW c \in Ctx, Setmode(c)
  PROVE  Settled'
  <1>1. /\ top = c /\ pc[c] \in SetmodeLabel /\ UNCHANGED <<top, below, ret>>
        /\ ret[c] \in {"idle", "fa_done", "fb_restore", "rt_end", "vf_done", "vf_restore"}
        /\ UNCHANGED <<flip_mode, flip, bgVars, bufkind, map, appVars, fg, pend>>
        /\ c = "main" => Off("release") /\ Off("acquire") /\ Off("fatal")
    BY SetmodeAt, VTSwitchAssumption DEF Setmode, SetmodeEnter, SetmodeProgram, SetmodeFail,
       SetmodeEnd, Paint, bufVars, modeVars, vtVars
  <1> USE DEF IInv, At, Goto, Return, CallSetmode, Placed, Handshake, Releasing,
              Returning, Bracketing, Buffering, Delicate, Flipped, Moved,
              Setting, Off, Releaser, Granting, Granted, InFlipAway,
              GrantingUnlocked, Ctx, TypeOK, SetmodeLabel, ExitLabel, modeVars,
              bgVars, appVars, bufVars, cardVars, vtVars, ctlVars, Arguments,
              Choosing, ScreenMode, Settled, FlipLabel, Flipping
  <1>2. CASE SetmodeEnter(c)
    BY <1>1, <1>2, MainShown, VTSwitchAssumption DEF SetmodeEnter
  <1>3. CASE SetmodeProgram(c)
    BY <1>1, <1>3, MainShown, VTSwitchAssumption DEF SetmodeProgram
  <1>4. CASE SetmodeFail(c)
    BY <1>1, <1>4, MainShown, VTSwitchAssumption DEF SetmodeFail
  <1>5. CASE SetmodeEnd(c)
    BY <1>1, <1>5, MainShown, VTSwitchAssumption DEF SetmodeEnd
  <1>6. QED BY <1>2, <1>3, <1>4, <1>5 DEF Setmode

LEMMA ReleaseSettled ==
  ASSUME IInv, Handshake, Bracketing, Buffering, Arguments, Choosing, Settled,
         Flipping, NEW c \in Ctx, Release(c)
  PROVE  Settled'
  <1>1. /\ c \in Releaser /\ top = c
        /\ Off("acquire") /\ (c = "main" => Off("release") /\ Off("fatal"))
    BY ReleaseAt
  <1> USE DEF IInv, At, Goto, Return, CallSetmode, Placed, Handshake, Releasing,
              Returning, Bracketing, Buffering, Delicate, Flipped, Moved,
              Setting, Off, Releaser, Granting, Granted, InFlipAway,
              GrantingUnlocked, Ctx, TypeOK, SetmodeLabel, ExitLabel, modeVars,
              bgVars, appVars, bufVars, cardVars, vtVars, ctlVars, Arguments,
              Choosing, ScreenMode, Settled, FlipLabel, Flipping
  <1>2. CASE DeferRelease(c)
    BY <1>1, <1>2 DEF DeferRelease
  <1>3. CASE RefuseRelease(c)
    BY <1>1, <1>3 DEF RefuseRelease, RelDisp
  <1>4. CASE BeginRelease(c)
    BY <1>1, <1>4 DEF BeginRelease
  <1>5. CASE FlipAway(c)
    BY <1>1, <1>5 DEF FlipAway
  <1>6. CASE FlipAwaySave(c)
    BY <1>1, <1>6 DEF FlipAwaySave, SaveState
  <1>7. CASE FlipAwayDone(c)
    BY <1>1, <1>7 DEF FlipAwayDone
  <1>8. CASE GrantRelease(c)
    BY <1>1, <1>8 DEF GrantRelease, RelDisp
  <1>9. CASE AllowAcquire(c)
    BY <1>1, <1>9 DEF AllowAcquire
  <1>10. CASE Suspend(c)
    BY <1>1, <1>10 DEF Suspend
  <1>11. CASE Wake(c)
    BY <1>1, <1>11 DEF Wake
  <1>12. QED BY <1>2, <1>3, <1>4, <1>5, <1>6, <1>7, <1>8, <1>9, <1>10, <1>11 DEF
              Release

LEMMA AcquireSettled ==
  ASSUME IInv, Handshake, Bracketing, Buffering, Arguments, Choosing, Settled,
         Flipping, NEW c \in Ctx, Acquire(c)
  PROVE  Settled'
  <1>1. c = "acquire" /\ top = c /\ below[c] \in Ctx /\ ~Off(c)
    BY AcquireAt
  <1> USE DEF IInv, At, Goto, Return, CallSetmode, Placed, Handshake, Releasing,
              Returning, Bracketing, Buffering, Delicate, Flipped, Moved,
              Setting, Off, Releaser, Granting, Granted, InFlipAway,
              GrantingUnlocked, Ctx, TypeOK, SetmodeLabel, ExitLabel, modeVars,
              bgVars, appVars, bufVars, cardVars, vtVars, ctlVars, Arguments,
              Choosing, ScreenMode, Settled, FlipLabel, Flipping
  <1>2. CASE IgnoreAcquire(c)
    BY <1>1, <1>2 DEF IgnoreAcquire
  <1>3. CASE BeginAcquire(c)
    BY <1>1, <1>3 DEF BeginAcquire
  <1>4. CASE FlipBack(c)
    BY <1>1, <1>4 DEF FlipBack
  <1>5. CASE FlipBackRestore(c)
    BY <1>1, <1>5 DEF FlipBackRestore, RestoreState
  <1>6. CASE AckAcquire(c)
    BY <1>1, <1>6 DEF AckAcquire, RelDisp
  <1>7. CASE EndAcquire(c)
    BY <1>1, <1>7 DEF EndAcquire
  <1>8. QED BY <1>2, <1>3, <1>4, <1>5, <1>6, <1>7 DEF Acquire

LEMMA CallSettled ==
  ASSUME Careful, IInv, Handshake, Bracketing, Buffering, Arguments, Choosing,
         Settled, Flipping, Call
  PROVE  Settled'
  <1>1. /\ top = "main"
        /\ pc["main"] \in {"idle", "rib_wait", "rib_set", "vf_done", "vf_restore"}
        /\ Off("release") /\ Off("acquire") /\ Off("fatal")
    BY CallAt
  <1> USE DEF IInv, At, Goto, Return, CallSetmode, Placed, Handshake, Releasing,
              Returning, Bracketing, Buffering, Delicate, Flipped, Moved,
              Setting, Off, Releaser, Granting, Granted, InFlipAway,
              GrantingUnlocked, Ctx, TypeOK, SetmodeLabel, ExitLabel, modeVars,
              bgVars, appVars, bufVars, cardVars, vtVars, ctlVars, Arguments,
              Choosing, ScreenMode, Settled, FlipLabel, Flipping, Running,
              Bracketed, Unflipped
  <1>2. CASE vga_lockvc
    BY <1>1, <1>2 DEF vga_lockvc
  <1>3. CASE vga_unlockvc
    BY <1>1, <1>3 DEF vga_unlockvc
  <1>4. CASE vga_setmode
    BY <1>1, <1>4 DEF vga_setmode
  <1>5. CASE vga_runinbackground
    BY <1>1, <1>5 DEF vga_runinbackground
  <1>6. CASE RunInBackgroundWait
    BY <1>1, <1>6 DEF RunInBackgroundWait
  <1>7. CASE RunInBackgroundSet
    BY <1>1, <1>7 DEF RunInBackgroundSet
  <1>8. CASE vga_flip
    BY <1>1, <1>8 DEF vga_flip, SaveState
  <1>9. CASE FlipDone
    BY <1>1, <1>9 DEF FlipDone
  <1>10. CASE FlipRestore
    BY <1>1, <1>10 DEF FlipRestore, RestoreState
  <1>11. CASE Draw
    BY <1>1, <1>11 DEF Draw, Paint
  <1>12. CASE Exit
    BY <1>1, <1>12 DEF Exit
  <1>13. QED BY <1>2, <1>3, <1>4, <1>5, <1>6, <1>7, <1>8, <1>9, <1>10, <1>11,
              <1>12 DEF Call

LEMMA TerminateSettled ==
  ASSUME IInv, Handshake, Bracketing, Buffering, Choosing, Settled, NEW c \in Ctx,
         Terminate(c), Alive'
  PROVE  Settled'
  BY TerminateAt DEF RestoreText, InGraphics, IInv, At, Goto, CallSetmode, Choosing,
     Settled, Setting, Off, Ctx, TypeOK, SetmodeLabel, modeVars, cardVars, vtVars

LEMMA OutsideSettled ==
  ASSUME Alive, IInv, Handshake, Settled, ReleaseSignal \/ AcquireSignal \/
         FatalSignal \/ User
  PROVE  Settled'
  <1>1. UNCHANGED <<modeVars, cardVars, arg, ret, kd>>
    BY DEF ReleaseSignal, AcquireSignal, FatalSignal, User, progVars, ctlVars,
       Interrupt, RequestAway, SwitchBack, vtVars
  <1> USE DEF IInv, Interrupt, Placed, Setting, Off, Ctx, TypeOK, SetmodeLabel,
              modeVars, cardVars, vtVars, Arbitrating, Settled
  <1>2. CASE ReleaseSignal
    BY <1>1, <1>2 DEF ReleaseSignal
  <1>3. CASE AcquireSignal
    BY <1>1, <1>3 DEF AcquireSignal
  <1>4. CASE FatalSignal
    BY <1>1, <1>4 DEF FatalSignal
  <1>5. CASE User
    BY <1>1, <1>5 DEF User, RequestAway, SwitchBack, ctlVars
  <1>6. QED BY <1>2, <1>3, <1>4, <1>5

LEMMA SetmodeFlipping ==
  ASSUME IInv, Flipping, NEW c \in Ctx, Setmode(c) PROVE Flipping'
  <1>1. UNCHANGED flip
    BY DEF Setmode, SetmodeEnter, SetmodeProgram, SetmodeFail, SetmodeEnd, modeVars
  <1>2. QED
    BY <1>1, SetmodeAt DEF Flipping, FlipLabel, Setting, Off, Ctx, SetmodeLabel, IInv,
       Placed, TypeOK

LEMMA ReleaseFlipping ==
  ASSUME IInv, Handshake, Bracketing, Flipping, NEW c \in Ctx, Release(c)
  PROVE  Flipping'
  <1>1. /\ c \in Releaser /\ top = c
        /\ Off("acquire") /\ (c = "main" => Off("release") /\ Off("fatal"))
    BY ReleaseAt
  <1> USE DEF IInv, At, Goto, Return, CallSetmode, Placed, Handshake, Releasing,
              Returning, Bracketing, Delicate, Flipped, Setting, Off, Releaser,
              Granting, InFlipAway, GrantingUnlocked, Ctx, TypeOK, SetmodeLabel,
              modeVars, ctlVars, FlipLabel, Flipping
  <1>2. CASE DeferRelease(c)
    BY <1>1, <1>2 DEF DeferRelease
  <1>3. CASE RefuseRelease(c)
    BY <1>1, <1>3 DEF RefuseRelease
  <1>4. CASE BeginRelease(c)
    BY <1>1, <1>4 DEF BeginRelease
  <1>5. CASE FlipAway(c)
    BY <1>1, <1>5 DEF FlipAway
  <1>6. CASE FlipAwaySave(c)
    BY <1>1, <1>6 DEF FlipAwaySave
  <1>7. CASE FlipAwayDone(c)
    BY <1>1, <1>7 DEF FlipAwayDone
  <1>8. CASE GrantRelease(c)
    BY <1>1, <1>8 DEF GrantRelease
  <1>9. CASE AllowAcquire(c)
    BY <1>1, <1>9 DEF AllowAcquire
  <1>10. CASE Suspend(c)
    BY <1>1, <1>10 DEF Suspend
  <1>11. CASE Wake(c)
    BY <1>1, <1>11 DEF Wake
  <1>12. QED BY <1>2, <1>3, <1>4, <1>5, <1>6, <1>7, <1>8, <1>9, <1>10, <1>11 DEF
              Release

LEMMA AcquireFlipping ==
  ASSUME IInv, Handshake, Bracketing, Flipping, NEW c \in Ctx, Acquire(c)
  PROVE  Flipping'
  <1>1. c = "acquire" /\ top = c /\ below[c] \in Ctx /\ ~Off(c)
    BY AcquireAt
  <1> USE DEF IInv, At, Goto, Return, CallSetmode, Placed, Handshake, Releasing,
              Returning, Bracketing, Delicate, Flipped, Setting, Off, Releaser,
              Granting, InFlipAway, GrantingUnlocked, Ctx, TypeOK, SetmodeLabel,
              modeVars, ctlVars, FlipLabel, Flipping
  <1>2. CASE IgnoreAcquire(c)
    BY <1>1, <1>2 DEF IgnoreAcquire
  <1>3. CASE BeginAcquire(c)
    BY <1>1, <1>3 DEF BeginAcquire
  <1>4. CASE FlipBack(c)
    <2>1. CASE flip_mode = TEXT
      <3>1. pc[c] = "fb" /\ pc' = [pc EXCEPT ![c] = "ack"] /\ UNCHANGED <<flip, ret>>
        BY <1>4, <2>1 DEF FlipBack
      <3>2. QED BY <1>1, <3>1
    <2>2. CASE flip_mode # TEXT
      <3>1. CallSetmode(c, flip_mode, "fb_restore")
        BY <1>4, <2>2 DEF FlipBack
      <3>2. Setting("acquire")' /\ ret'["acquire"] \in FlipLabel
        BY <1>1, <3>1
      <3>3. QED BY <3>2
    <2>3. QED BY <2>1, <2>2
  <1>5. CASE FlipBackRestore(c)
    BY <1>1, <1>5 DEF FlipBackRestore
  <1>6. CASE AckAcquire(c)
    BY <1>1, <1>6 DEF AckAcquire
  <1>7. CASE EndAcquire(c)
    BY <1>1, <1>7 DEF EndAcquire
  <1>8. QED BY <1>2, <1>3, <1>4, <1>5, <1>6, <1>7 DEF Acquire

LEMMA CallFlipping ==
  ASSUME Careful, IInv, Handshake, Bracketing, Flipping, Call
  PROVE  Flipping'
  <1>1. /\ top = "main"
        /\ pc["main"] \in {"idle", "rib_wait", "rib_set", "vf_done", "vf_restore"}
        /\ Off("release") /\ Off("acquire") /\ Off("fatal")
    BY CallAt
  <1> USE DEF IInv, At, Goto, Return, CallSetmode, Placed, Handshake, Releasing,
              Returning, Bracketing, Delicate, Flipped, Setting, Off, Releaser,
              Granting, InFlipAway, GrantingUnlocked, Ctx, TypeOK, SetmodeLabel,
              modeVars, ctlVars, FlipLabel, Flipping, Running, Bracketed,
              Unflipped
  <1>2. CASE vga_lockvc
    BY <1>1, <1>2 DEF vga_lockvc
  <1>3. CASE vga_unlockvc
    BY <1>1, <1>3 DEF vga_unlockvc
  <1>4. CASE vga_setmode
    BY <1>1, <1>4 DEF vga_setmode
  <1>5. CASE vga_runinbackground
    BY <1>1, <1>5 DEF vga_runinbackground
  <1>6. CASE RunInBackgroundWait
    BY <1>1, <1>6 DEF RunInBackgroundWait
  <1>7. CASE RunInBackgroundSet
    BY <1>1, <1>7 DEF RunInBackgroundSet
  <1>8. CASE vga_flip
    BY <1>1, <1>8 DEF vga_flip
  <1>9. CASE FlipDone
    BY <1>1, <1>9 DEF FlipDone
  <1>10. CASE FlipRestore
    BY <1>1, <1>10 DEF FlipRestore
  <1>11. CASE Draw
    BY <1>1, <1>11 DEF Draw
  <1>12. CASE Exit
    BY <1>1, <1>12 DEF Exit
  <1>13. QED BY <1>2, <1>3, <1>4, <1>5, <1>6, <1>7, <1>8, <1>9, <1>10, <1>11,
              <1>12 DEF Call

LEMMA TerminateFlipping ==
  ASSUME IInv, Flipping, NEW c \in Ctx, Terminate(c), Alive' PROVE Flipping'
  BY TerminateAt DEF RestoreText, IInv, At, Goto, CallSetmode, Flipping, FlipLabel,
     Setting, Off, Ctx, TypeOK, SetmodeLabel, modeVars

LEMMA OutsideFlipping ==
  ASSUME IInv, Flipping, ReleaseSignal \/ AcquireSignal \/ FatalSignal \/ User
  PROVE  Flipping'
  <1>1. UNCHANGED <<modeVars, ret>>
    BY DEF ReleaseSignal, AcquireSignal, FatalSignal, User, progVars, ctlVars,
       Interrupt, RequestAway, SwitchBack, vtVars
  <1> USE DEF IInv, Interrupt, Placed, Setting, Off, Ctx, TypeOK, SetmodeLabel,
              modeVars, Flipping, FlipLabel
  <1>2. CASE ReleaseSignal
    BY <1>1, <1>2 DEF ReleaseSignal
  <1>3. CASE AcquireSignal
    BY <1>1, <1>3 DEF AcquireSignal
  <1>4. CASE FatalSignal
    BY <1>1, <1>4 DEF FatalSignal
  <1>5. CASE User
    BY <1>1, <1>5 DEF User, RequestAway, SwitchBack, ctlVars
  <1>6. QED BY <1>2, <1>3, <1>4, <1>5


-----------------------------------------------------------------------------
(* Dying: text mode on the way out.                                        *)

LEMMA InitDying == Init => Dying
  BY DEF Init, VTInit, Dying, Off, Ctx

(* What the order of the contexts says: none is above the one at work, and *)
(* an acquire over a fatal signal is right above it or above a release     *)
(* that is.                                                                *)
LEMMA AboveNone ==
  ASSUME Stacked, NEW h \in Handler, ~Off(h) PROVE below[h] # top
  BY DEF Stacked, Chain, Handler, Off

LEMMA AboveFatal ==
  ASSUME Stacked, top = "acquire", ~Off("fatal"), below["acquire"] # "fatal"
  PROVE  ~Off("release") /\ below["release"] = "fatal"
  BY DEF Stacked, Chain, Handler, Off

LEMMA SetmodeDying ==
  ASSUME IInv, Handshake, Bracketing, Buffering, Arguments, Choosing, Dying, NEW
         c \in Ctx, Setmode(c)
  PROVE  Dying'
  <1>1. /\ top = c /\ pc[c] \in SetmodeLabel /\ UNCHANGED <<top, below, ret>>
        /\ ret[c] \in {"idle", "fa_done", "fb_restore", "rt_end", "vf_done", "vf_restore"}
        /\ UNCHANGED <<flip_mode, fg, pend, newvt>>
        /\ c = "main" => Off("release") /\ Off("acquire") /\ Off("fatal")
    BY SetmodeAt DEF Setmode, SetmodeEnter, SetmodeProgram, SetmodeFail,
       SetmodeEnd, modeVars, vtVars
  <1> USE DEF IInv, At, Goto, Return, CallSetmode, Placed, Handshake, Releasing,
              Returning, Bracketing, Buffering, Moved, Flipped, Setting, Off,
              Releaser, Granting, InFlipAway, Ctx, TypeOK, SetmodeLabel,
              ExitLabel, modeVars, vtVars, Dying, Arguments, Choosing
  <1>2. CASE SetmodeEnter(c)
    BY <1>1, <1>2, AboveNone, AboveFatal DEF SetmodeEnter, Handler
  <1>3. CASE SetmodeProgram(c)
    BY <1>1, <1>3 DEF SetmodeProgram
  <1>4. CASE SetmodeFail(c)
    BY <1>1, <1>4, AboveNone, AboveFatal, VTSwitchAssumption DEF SetmodeFail, Handler
  <1>5. CASE SetmodeEnd(c)
    BY <1>1, <1>5 DEF SetmodeEnd
  <1>6. QED BY <1>2, <1>3, <1>4, <1>5 DEF Setmode

LEMMA ReleaseDying ==
  ASSUME IInv, Handshake, Bracketing, Buffering, Arguments, Choosing, Dying, NEW
         c \in Ctx, Release(c)
  PROVE  Dying'
  <1>1. /\ c \in Releaser /\ top = c
        /\ Off("acquire") /\ (c = "main" => Off("release") /\ Off("fatal"))
    BY ReleaseAt
  <1> USE DEF IInv, At, Goto, Return, CallSetmode, Placed, Handshake, Releasing,
              Returning, Bracketing, Buffering, Moved, Flipped, Setting, Off,
              Releaser, Granting, InFlipAway, Ctx, TypeOK, SetmodeLabel,
              ExitLabel, modeVars, vtVars, Dying, Arguments, Choosing
  <1>2. CASE DeferRelease(c)
    BY <1>1, <1>2 DEF DeferRelease
  <1>3. CASE RefuseRelease(c)
    BY <1>1, <1>3 DEF RefuseRelease, RelDisp
  <1>4. CASE BeginRelease(c)
    BY <1>1, <1>4 DEF BeginRelease
  <1>5. CASE FlipAway(c)
    BY <1>1, <1>5 DEF FlipAway
  <1>6. CASE FlipAwaySave(c)
    BY <1>1, <1>6 DEF FlipAwaySave
  <1>7. CASE FlipAwayDone(c)
    BY <1>1, <1>7 DEF FlipAwayDone
  <1>8. CASE GrantRelease(c)
    BY <1>1, <1>8 DEF GrantRelease, RelDisp
  <1>9. CASE AllowAcquire(c)
    BY <1>1, <1>9 DEF AllowAcquire
  <1>10. CASE Suspend(c)
    BY <1>1, <1>10 DEF Suspend
  <1>11. CASE Wake(c)
    BY <1>1, <1>11 DEF Wake
  <1>12. QED BY <1>2, <1>3, <1>4, <1>5, <1>6, <1>7, <1>8, <1>9, <1>10, <1>11 DEF
              Release

LEMMA AcquireDying ==
  ASSUME IInv, Handshake, Bracketing, Buffering, Arguments, Choosing, Dying, NEW
         c \in Ctx, Acquire(c)
  PROVE  Dying'
  <1>1. c = "acquire" /\ top = c /\ below[c] \in Ctx /\ ~Off(c)
    BY AcquireAt
  <1> USE DEF IInv, At, Goto, Return, CallSetmode, Placed, Handshake, Releasing,
              Returning, Bracketing, Buffering, Moved, Flipped, Setting, Off,
              Releaser, Granting, InFlipAway, Ctx, TypeOK, SetmodeLabel,
              ExitLabel, modeVars, vtVars, Dying, Arguments, Choosing
  <1>2. CASE IgnoreAcquire(c)
    BY <1>1, <1>2 DEF IgnoreAcquire
  <1>3. CASE BeginAcquire(c)
    BY <1>1, <1>3 DEF BeginAcquire
  <1>4. CASE FlipBack(c)
    BY <1>1, <1>4 DEF FlipBack
  <1>5. CASE FlipBackRestore(c)
    BY <1>1, <1>5 DEF FlipBackRestore
  <1>6. CASE AckAcquire(c)
    BY <1>1, <1>6 DEF AckAcquire, RelDisp
  <1>7. CASE EndAcquire(c)
    BY <1>1, <1>7 DEF EndAcquire
  <1>8. QED BY <1>2, <1>3, <1>4, <1>5, <1>6, <1>7 DEF Acquire

LEMMA CallDying ==
  ASSUME IInv, Dying, Call PROVE Dying'
  <1>1. Off("fatal") /\ Off("fatal")'
    BY CallAt, CallControl DEF IInv, TypeOK, Ctx, Off
  <1>2. UNCHANGED below /\ below["acquire"] # "fatal"
    BY <1>1 DEF Dying, Call, vga_lockvc, vga_unlockvc, vga_setmode, vga_runinbackground,
       RunInBackgroundWait, RunInBackgroundSet, vga_flip, FlipDone, FlipRestore, Draw,
       Exit, ctlVars, Goto, CallSetmode
  <1>3. QED BY <1>1, <1>2 DEF Dying, Off

LEMMA TerminateDying ==
  ASSUME IInv, Dying, NEW c \in Ctx, Terminate(c), Alive' PROVE Dying'
  BY TerminateAt, AboveNone DEF RestoreText, Handler, InGraphics, IInv, At, Goto, CallSetmode, Dying, Off, Ctx,
     TypeOK, SetmodeLabel, modeVars, vtVars

LEMMA OutsideDying ==
  ASSUME Patient, Alive, IInv, Handshake, Dying, ReleaseSignal \/ AcquireSignal
         \/ FatalSignal \/ User
  PROVE  Dying'
  <1>1. UNCHANGED <<modeVars, ret>>
    BY DEF ReleaseSignal, AcquireSignal, FatalSignal, User, progVars, ctlVars,
       Interrupt, RequestAway, SwitchBack, vtVars
  <1> USE DEF IInv, Interrupt, Placed, Setting, Off, Ctx, TypeOK, SetmodeLabel,
              ReleaseLabel, AcquireLabel, ExitLabel, modeVars, vtVars,
              Arbitrating, Handshake, Releaser, Releasing, Returning,
              HandshakeDone, Dying
  <1>2. CASE ReleaseSignal
    BY <1>1, <1>2 DEF ReleaseSignal
  <1>3. CASE AcquireSignal
    <2>1. /\ AcqSig \in pend /\ pend' = pend \ {AcqSig} /\ UNCHANGED newvt
          /\ pc' = [pc EXCEPT !["acquire"] = "acq"] /\ top' = "acquire"
          /\ below' = [below EXCEPT !["acquire"] = top]
      BY <1>3 DEF AcquireSignal
    <2>2. ~newvt /\ pend' = {}
      BY <2>1 DEF RelSig, AcqSig, VTTypeOK
    <2>3. below["acquire"] # "fatal"
      BY <2>1
    <2>4. top = "fatal" => ~Off("fatal")
      BY DEF Stacked, Chain, Handler
    <2>5. top' \in {"acquire", "fatal"} /\ pc'["fatal"] = pc["fatal"]
          /\ pc'["release"] = pc["release"] /\ below'["release"] = below["release"]
          /\ below'["acquire"] = top /\ ~newvt'
      BY <2>1, <2>2
    <2>6. QED BY <1>1, <2>2, <2>3, <2>4, <2>5
  <1>4. CASE FatalSignal
    BY <1>1, <1>4 DEF FatalSignal
  <1>5. CASE User
    BY <1>1, <1>5 DEF User, RequestAway, SwitchBack, ctlVars
  <1>6. QED BY <1>2, <1>3, <1>4, <1>5

-----------------------------------------------------------------------------
(* Dead: how the card is left.                                             *)

(* CM is TEXT when restoretextmode has come to its end.                    *)
LEMMA EndsInText ==
  ASSUME CarefulInv, Alive, NEW c \in Ctx, RestoreTextEnd(c), below["acquire"] # "fatal"
  PROVE  c \in {"main", "fatal"} /\ CM = TEXT
  <1>1. c \in {"main", "fatal"} /\ top = c /\ pc[c] = "rt_end"
    BY DEF CarefulInv, IInv, RestoreTextEnd, At, Placed, Ctx, SetmodeLabel, ReleaseLabel,
       AcquireLabel, ExitLabel
  <1>2. CASE c = "main"
    <2>1. Off("fatal")
      BY <1>1, <1>2, MainAlone DEF CarefulInv, IInv, Off
    <2>2. ~app_flip => ScreenMode = CM
      BY <1>1, <1>2, MainShown DEF CarefulInv, ExitLabel
    <2>3. QED BY <1>1, <1>2, <2>1, <2>2 DEF CarefulInv, Choosing
  <1>3. CASE c = "fatal"
    BY <1>1, <1>3 DEF CarefulInv, Dying
  <1>4. QED BY <1>1, <1>2, <1>3

(* The step that kills leaves the card in text mode, but for the windows.  *)
LEMMA DeathStep ==
  ASSUME CarefulInv, [Next]_vars, Alive, ~Alive'
  PROVE  DeadOnTop' /\ DeadIsTextOutsideWindows'
  <1> USE DEF CarefulInv, IInv, TypeOK, Ctx, Alive
  <1>1. PICK c \in Ctx : RestoreTextEnd(c)
    <2>1. CASE Library
      <3>1. PICK c \in Ctx : Step(c)
        BY <2>1 DEF Library
      <3>2. CASE Setmode(c)
        BY <3>2, SetmodeAt DEF SetmodeLabel
      <3>3. CASE Release(c)
        BY <3>3 DEF Release, DeferRelease, RefuseRelease, BeginRelease, FlipAway,
           FlipAwaySave, FlipAwayDone, GrantRelease, AllowAcquire, Suspend, Wake, Goto,
           Return, CallSetmode
      <3>4. CASE Acquire(c)
        BY <3>4 DEF Acquire, IgnoreAcquire, BeginAcquire, FlipBack, FlipBackRestore,
           AckAcquire, EndAcquire, Goto, Return, CallSetmode
      <3>5. CASE Terminate(c)
        BY <3>5 DEF Terminate, RestoreText, Goto, CallSetmode
      <3>6. QED BY <3>1, <3>2, <3>3, <3>4, <3>5 DEF Step
    <2>2. CASE Call
      BY <2>2 DEF Call, vga_lockvc, vga_unlockvc, vga_setmode, vga_runinbackground,
         RunInBackgroundWait, RunInBackgroundSet, vga_flip, FlipDone, FlipRestore, Draw,
         Exit, Goto, CallSetmode, ctlVars
    <2>3. CASE ReleaseSignal \/ AcquireSignal \/ FatalSignal \/ User
      BY <2>3 DEF ReleaseSignal, AcquireSignal, FatalSignal, User, Interrupt, ctlVars
    <2>4. CASE UNCHANGED vars
      BY <2>4 DEF vars, ctlVars
    <2>5. QED BY <2>1, <2>2, <2>3, <2>4 DEF Next
  <1>2. /\ top = c /\ pc[c] = "rt_end"
        /\ pc' = [pc EXCEPT ![c] = "dead"] /\ UNCHANGED <<top, below, arg, hw>>
        /\ screenon' = TRUE /\ kd' = "text" /\ vtmode' = "auto"
    BY <1>1 DEF RestoreTextEnd, At, Goto
  <1>3. DeadOnTop'
    BY <1>2 DEF DeadOnTop
  <1>4. ~DiedInWindow' => hw = TEXT
    <2> SUFFICES ASSUME ~DiedInWindow' PROVE hw = TEXT
      OBVIOUS
    <2>1. CM = TEXT
      BY <1>1, <1>2, EndsInText DEF DiedInWindow
    <2>2. \A d \in Ctx : ~(pc[d] = "sm_prog" /\ arg[d] = TEXT)
      BY <1>2 DEF DiedInWindow
    <2>3. QED BY <2>1, <2>2 DEF Settled
  <1>5. QED BY <1>2, <1>3, <1>4 DEF DeadIsTextOutsideWindows

(* The dead leave everything as it is, and the user the card.              *)
LEMMA Inert ==
  ASSUME CarefulInv, [Next]_vars, ~Alive
  PROVE  UNCHANGED <<ctlVars, progVars, kd, vtmode>>
  <1> USE DEF CarefulInv, IInv, TypeOK, Ctx, Alive, DeadOnTop
  <1>1. ~Library
    <2> SUFFICES ASSUME NEW c \in Ctx, Step(c) PROVE FALSE
      BY DEF Library
    <2>1. top = c
      BY DEF Step, Setmode, SetmodeEnter, SetmodeProgram, SetmodeFail, SetmodeEnd,
         Release, DeferRelease, RefuseRelease, BeginRelease, FlipAway, FlipAwaySave,
         FlipAwayDone, GrantRelease, AllowAcquire, Suspend, Wake, Acquire,
         IgnoreAcquire, BeginAcquire, FlipBack, FlipBackRestore, AckAcquire,
         EndAcquire, Terminate, RestoreText, RestoreTextEnd, At
    <2>2. QED BY <2>1, LibraryControl
  <1>2. ~Call
    BY CallAt
  <1>3. ~(ReleaseSignal \/ AcquireSignal \/ FatalSignal)
    BY DEF ReleaseSignal, AcquireSignal, FatalSignal, Interrupt
  <1>4. QED BY <1>1, <1>2, <1>3 DEF Next, User, RequestAway, SwitchBack, progVars, vars,
               vtVars

LEMMA DeadStep ==
  ASSUME CarefulInv, [Next]_vars, ~Alive
  PROVE  DeadOnTop' /\ DeadIsTextOutsideWindows'
  BY Inert DEF CarefulInv, Alive, DeadOnTop, DeadIsTextOutsideWindows, DiedInWindow,
     ctlVars, progVars, cardVars

-----------------------------------------------------------------------------
(* CarefulInv is inductive.                                                *)

Parts == /\ Handshake /\ Bracketing /\ Buffering /\ Arguments
         /\ Choosing /\ Settled /\ Flipping /\ Dying

LEMMA AliveStep ==
  ASSUME Careful, Patient, CarefulInv, [Next]_vars, Alive' PROVE Parts'
  <1>1. IInv /\ Alive /\ Handshake /\ Bracketing /\ Buffering /\ Arguments /\ Choosing
        /\ Settled /\ Flipping /\ Dying
    BY AliveBefore DEF CarefulInv
  <1>2. Handshake'
    BY <1>1, HandshakeStep DEF PatientInv
  <1>3. CASE \E c \in Ctx : Setmode(c)
    BY <1>1, <1>2, <1>3, SetmodeBracketing, SetmodeBuffering, SetmodeArguments,
       SetmodeChoosing, SetmodeSettled, SetmodeFlipping, SetmodeDying DEF Parts
  <1>4. CASE \E c \in Ctx : Release(c)
    BY <1>1, <1>2, <1>4, ReleaseBracketing, ReleaseBuffering, ReleaseArguments,
       ReleaseChoosing, ReleaseSettled, ReleaseFlipping, ReleaseDying DEF Parts
  <1>5. CASE \E c \in Ctx : Acquire(c)
    BY <1>1, <1>2, <1>5, AcquireBracketing, AcquireBuffering, AcquireArguments,
       AcquireChoosing, AcquireSettled, AcquireFlipping, AcquireDying DEF Parts
  <1>6. CASE \E c \in Ctx : Terminate(c)
    BY <1>1, <1>2, <1>6, TerminateBracketing, TerminateBuffering, TerminateArguments,
       TerminateChoosing, TerminateSettled, TerminateFlipping, TerminateDying DEF Parts
  <1>7. CASE Call
    BY <1>1, <1>2, <1>7, CallBracketing, CallBuffering, CallArguments, CallChoosing,
       CallSettled, CallFlipping, CallDying DEF Parts
  <1>8. CASE ReleaseSignal \/ AcquireSignal \/ FatalSignal \/ User
    BY <1>1, <1>2, <1>8, OutsideBracketing, OutsideBuffering, OutsideArguments,
       OutsideChoosing, OutsideSettled, OutsideFlipping, OutsideDying DEF Parts
  <1>9. CASE UNCHANGED vars
    <2>1. UNCHANGED <<top, below, pc, arg, ret, CM, flip_mode, flip, lock_count,
                      runinbackground, oktowrite, screenon, hw, bufkind, map, app_bg,
                      app_flip, fg, newvt, kd, pend>>
      BY <1>9 DEF vars, ctlVars, modeVars, lockVars, bgVars, cardVars, bufVars, appVars,
         vtVars
    <2>2. Bracketing' /\ Buffering' /\ Arguments'
      BY <1>1, <2>1 DEF Bracketing, Delicate, Flipped, Setting, Returning, Off, Releaser,
         Granting, Granted, InFlipAway, Buffering, Moved, Arguments
    <2>3. Choosing' /\ Settled'
      BY <1>1, <2>1 DEF Choosing, ScreenMode, Moved, Setting, Off, Releaser, Settled
    <2>4. Flipping' /\ Dying'
      BY <1>1, <2>1 DEF Flipping, Setting, Off, Dying
    <2>5. QED BY <1>2, <2>2, <2>3, <2>4 DEF Parts
  <1>10. QED BY <1>3, <1>4, <1>5, <1>6, <1>7, <1>8, <1>9 DEF Next, Library, Step

(***************************************************************************)
(* For a careful program and a patient user CarefulInv holds at first and  *)
(* is kept by every step of the program, of the library's handlers, of a   *)
(* signal and of the user, up to the program's death and after it.         *)
(***************************************************************************)
THEOREM CarefulInductive ==
  ASSUME Careful, Patient PROVE Spec => []CarefulInv
  <1>1. Init => CarefulInv
    <2> SUFFICES ASSUME Init PROVE CarefulInv
      OBVIOUS
    <2>1. Alive
      BY DEF Init, Alive, Ctx
    <2>2. QED
      BY <2>1, InitIInv, InitHandshake, InitBracketing, InitBuffering, InitArguments,
         InitChoosing, InitSettled, InitDying
      DEF CarefulInv, DeadOnTop, DeadIsTextOutsideWindows
  <1>2. CarefulInv /\ IInv' /\ [Next]_vars => CarefulInv'
    <2> SUFFICES ASSUME CarefulInv, IInv', [Next]_vars PROVE CarefulInv'
      OBVIOUS
    <2>1. CASE Alive'
      BY <2>1, AliveStep DEF CarefulInv, Parts, DeadOnTop, DeadIsTextOutsideWindows
    <2>2. CASE ~Alive'
      BY <2>2, DeathStep, DeadStep DEF CarefulInv
    <2>3. QED BY <2>1, <2>2
  <1>3. QED BY <1>1, <1>2, Inductive, PTL DEF Spec

-----------------------------------------------------------------------------
(* What follows from it.                                                   *)

(***************************************************************************)
(* Without background running no instruction of the program is executed    *)
(* while another console is visible: it is at VT_WAITACTIVE at the end of  *)
(* releasevt_signal (vga.c:1522).                                          *)
(***************************************************************************)
THEOREM Hidden ==
  ASSUME Careful, Patient PROVE Spec => []SuspendedWhenHidden
  <1>1. CarefulInv => SuspendedWhenHidden
    <2> SUFFICES ASSUME CarefulInv, fg = "other", ~runinbackground, Alive, Running
                 PROVE  FALSE
      BY DEF SuspendedWhenHidden
    <2>1. Off("release")
      BY MainAlone DEF CarefulInv, IInv, Running, At, Off
    <2>2. QED BY <2>1 DEF CarefulInv, Bracketing, Releaser, Granting, Granted, InFlipAway,
                   Running, At, Off, SetmodeLabel
  <1>2. QED BY <1>1, CarefulInductive, PTL

(***************************************************************************)
(* A program at work in front sees its own mode on the card, the output    *)
(* on, its windows on video memory and no save buffer but vga_flip's: the  *)
(* switches, mode sets, flips and failed mode sets before, in any number   *)
(* and order, have left nothing behind.                                    *)
(***************************************************************************)
THEOREM Shown ==
  ASSUME Careful, Patient PROVE Spec => []ShownInFront
  <1>1. CarefulInv => ShownInFront
    <2> SUFFICES ASSUME CarefulInv, Running, VTActive, ~app_bg
                 PROVE  /\ hw = CM /\ screenon /\ map = "video"
                        /\ kd = "graphics" <=> CM # TEXT
                        /\ bufkind # "none" <=> app_flip
                        /\ oktowrite
      BY DEF ShownInFront
    <2>1. Off("release") /\ Off("acquire") /\ Off("fatal") /\ pc["main"] = "idle"
      BY MainAlone DEF CarefulInv, IInv, Running, At, Off
    <2>2. Alive
      BY <2>1 DEF Alive, Off
    <2>3. map = "video" /\ oktowrite /\ (bufkind # "none" <=> app_flip)
      BY <2>1, <2>2 DEF CarefulInv, IInv, TypeOK, Bracketing, Buffering, Moved, Flipped,
         Setting, SetmodeLabel
    <2>4. \A c \in Ctx : pc[c] \notin SetmodeLabel \cup {"fb_restore", "vf_restore"}
      BY <2>1 DEF Ctx, Off, SetmodeLabel
    <2>5. hw = CM /\ screenon /\ (kd = "graphics" <=> CM # TEXT)
      BY <2>1, <2>2, <2>4 DEF CarefulInv, Settled, Setting, Off, SetmodeLabel
    <2>6. QED BY <2>3, <2>5
  <1>2. QED BY <1>1, CarefulInductive, PTL

(***************************************************************************)
(* A program that runs in the background with a graphics screen writes     *)
(* into the shared save buffer, never to the card of the other console.    *)
(***************************************************************************)
THEOREM Unscribbled ==
  ASSUME Careful, Patient PROVE Spec => []NoScribble
  <1>1. CarefulInv => NoScribble
    <2> SUFFICES ASSUME CarefulInv, Running, fg = "other", ScreenMode # TEXT
                 PROVE  map = "buffer" /\ bufkind = "file"
      BY DEF NoScribble
    <2>1. Off("release") /\ Off("acquire") /\ Off("fatal") /\ pc["main"] = "idle"
      BY MainAlone DEF CarefulInv, IInv, Running, At, Off
    <2>2. Alive
      BY <2>1 DEF Alive, Off
    <2>3. app_bg /\ ~Flipped /\ CM = TEXT
      BY <2>2 DEF CarefulInv, Bracketing, Delicate, Choosing
    <2>4. \A c \in Releaser : ~InFlipAway(c) /\ ~Granted(c) /\ pc[c] # "reldisp"
      BY <2>1 DEF Releaser, InFlipAway, Granted, Off, SetmodeLabel
    <2>5. runinbackground
      BY <2>2, <2>3, <2>4 DEF CarefulInv, Bracketing, Granting
    <2>6. bufkind # "none"
      BY <2>3 DEF ScreenMode
    <2>7. Moved
      BY <2>2, <2>3, <2>6 DEF CarefulInv, Buffering
    <2>8. QED BY <2>1, <2>2, <2>4, <2>5, <2>6, <2>7 DEF CarefulInv, Buffering, Off
  <1>2. QED BY <1>1, CarefulInductive, PTL

(***************************************************************************)
(* When another console is visible the card is in text mode and shown,     *)
(* unless the release came while the program or a fatal signal was inside  *)
(* vga_setmode(TEXT).                                                      *)
(***************************************************************************)
THEOREM Released ==
  ASSUME Careful, Patient PROVE Spec => []ReleasedIsText
  <1>1. CarefulInv => ReleasedIsText
    <2> SUFFICES ASSUME CarefulInv, Alive, fg = "other",
                        \A c \in {"main", "fatal"} :
                          ~(pc[c] \in SetmodeLabel /\ arg[c] = TEXT)
                 PROVE  hw = TEXT /\ kd = "text" /\ screenon
      BY DEF ReleasedIsText
    <2>1. ~newvt /\ Off("acquire") /\ CM = TEXT
      BY DEF CarefulInv, Handshake, Returning, Choosing
    <2>2. pc["release"] \notin SetmodeLabel
      BY <2>1 DEF CarefulInv, IInv, Placed, Handshake, Releaser, Releasing, Granting,
         InFlipAway
    <2>3. \A c \in Ctx : ~(pc[c] \in SetmodeLabel /\ arg[c] = TEXT)
      BY <2>1, <2>2 DEF Ctx, Off, SetmodeLabel
    <2>4. QED BY <2>1, <2>3 DEF CarefulInv, Settled, Setting, SetmodeLabel
  <1>2. QED BY <1>1, CarefulInductive, PTL

(***************************************************************************)
(* alloc_graph_buf finds no buffer in use, and free_graph_buf frees the    *)
(* buffer the way it was allocated, however background running was         *)
(* switched on and off between.                                            *)
(***************************************************************************)
THEOREM Matched ==
  ASSUME Careful, Patient PROVE Spec => []BufferMatched
  <1>1. CarefulInv => BufferMatched
    <2> SUFFICES ASSUME CarefulInv PROVE BufferMatched
      OBVIOUS
    <2>1. top \in Ctx /\ (pc[top] # "dead" => Alive)
      BY DEF CarefulInv, IInv, TypeOK, DeadOnTop
    <2>2. ASSUME pc[top] = "fa_save" PROVE bufkind = "none"
      <3>1. top \in Releaser /\ Alive
        BY <2>1, <2>2 DEF CarefulInv, IInv, Placed, Ctx, Releaser, AcquireLabel, ExitLabel,
           SetmodeLabel
      <3>2. app_bg /\ ~Moved
        BY <2>2, <3>1 DEF CarefulInv, Bracketing, Granting, InFlipAway, Moved
      <3>3. ~Flipped
        BY <3>1, <3>2 DEF CarefulInv, Bracketing, Delicate
      <3>4. QED BY <3>1, <3>2, <3>3 DEF CarefulInv, Buffering
    <2>3. ASSUME pc[top] = "vf_restore" PROVE bufkind # "none"
      <3>1. top = "main" /\ Alive
        BY <2>1, <2>3 DEF CarefulInv, IInv, Placed, Ctx, ReleaseLabel, AcquireLabel,
           ExitLabel, SetmodeLabel
      <3>2. QED BY <2>3, <3>1 DEF CarefulInv, Buffering, Flipped
    <2>4. ASSUME pc[top] = "fb_restore" PROVE bufkind # "none"
      <3>1. top = "acquire" /\ Alive
        BY <2>1, <2>4 DEF CarefulInv, IInv, Placed, Ctx, ReleaseLabel, AcquireLabel,
           ExitLabel, SetmodeLabel
      <3>2. Returning /\ ~newvt /\ app_bg /\ flip_mode # TEXT
        BY <2>4, <3>1 DEF CarefulInv, Handshake, Bracketing, Buffering, Returning, Off
      <3>3. Moved
        BY <2>4, <3>1, <3>2 DEF CarefulInv, Handshake, Moved, Releaser, Releasing,
           Granting, InFlipAway
      <3>4. QED BY <3>1, <3>3 DEF CarefulInv, Buffering
    <2>5. bufkind # "none" /\ Alive =>
            bufkind = IF runinbackground THEN "file" ELSE "heap"
      BY DEF CarefulInv, Buffering
    <2>6. QED BY <2>1, <2>2, <2>3, <2>4, <2>5 DEF BufferMatched
  <1>2. QED BY <1>1, CarefulInductive, PTL

(***************************************************************************)
(* Whatever moment of a switch, a mode set or a flip a fatal signal picks, *)
(* the card is left in text mode and the console in KD_TEXT and VT_AUTO,   *)
(* but for the two windows of DiedInWindow.                                *)
(***************************************************************************)
THEOREM DiesInText ==
  ASSUME Careful, Patient PROVE Spec => []DeadIsTextOutsideWindows
  <1>1. CarefulInv => DeadIsTextOutsideWindows
    BY DEF CarefulInv
  <1>2. QED BY <1>1, CarefulInductive, PTL

-----------------------------------------------------------------------------
(* VTSwitch implements Screen.                                             *)

VImage == IF ScreenMode = TEXT \/ InCall THEN Undefined ELSE ScreenImage

(* A step that leaves the program's screen as it is.                       *)
Same ==
  /\ ScreenMode' = ScreenMode
  /\ InCall' <=> InCall
  /\ ~InCall /\ ScreenMode # TEXT => ScreenImage' = ScreenImage

LEMMA SameStutters ==
  ASSUME Same, Off("fatal"), Off("fatal")' PROVE UNCHANGED Virtual!vars
  BY DEF Same, Virtual!vars, Off, InCall

(* The windows point at video memory unless a switch away has moved them.  *)
LEMMA OnVideo ==
  ASSUME CarefulInv, Alive,
         \/ ~app_bg
         \/ \E c \in Releaser : InFlipAway(c)
         \/ pc["acquire"] \notin {"off", "acq", "fb"}
  PROVE  map = "video"
  BY DEF CarefulInv, IInv, TypeOK, Buffering, Moved

(* While a switch is at work on a graphics screen the save buffer has it.  *)
LEMMA Saved ==
  ASSUME CarefulInv, Alive, NEW c \in {"main", "release", "acquire"}, Setting(c),
         c = "main" => ret["main"] = "fa_done"
  PROVE  bufkind # "none"
  <1>1. CASE c \in Releaser
    <2>1. InFlipAway(c) /\ pc[c] \notin {"fa", "fa_save"}
      BY <1>1 DEF InFlipAway, Setting, SetmodeLabel, CarefulInv, IInv, Placed, Releaser
    <2>2. Granting(c) /\ Releasing(c)
      BY <2>1 DEF Granting, Releasing
    <2>3. \A d \in Releaser : pc[d] \notin {"fa", "fa_save"}
      <3>1. c = "main" => Off("release")
        BY <2>2 DEF CarefulInv, Handshake
      <3>2. c = "release" => ~Releasing("main")
        BY <1>1 DEF CarefulInv, Handshake, Setting, Off, SetmodeLabel
      <3>3. QED BY <1>1, <2>1, <3>1, <3>2 DEF Releaser, Off, Releasing, Granting, InFlipAway
    <2>4. newvt /\ Off("acquire")
      BY <1>1, <2>2 DEF CarefulInv, Handshake, Returning
    <2>5. Moved
      BY <1>1, <2>1, <2>2, <2>3, <2>4 DEF CarefulInv, Bracketing, Buffering, Moved, Off
    <2>6. QED BY <2>5 DEF CarefulInv, Buffering
  <1>2. CASE c = "acquire"
    <2>1. Returning /\ ~newvt
      BY <1>2 DEF CarefulInv, Handshake, Returning, Setting, Off, SetmodeLabel
    <2>2. Moved
      BY <1>2, <2>1 DEF CarefulInv, Handshake, Bracketing, Buffering, Moved, Releasing,
         Granting, InFlipAway, Setting, SetmodeLabel
    <2>3. QED BY <2>2 DEF CarefulInv, Buffering
  <1>3. QED BY <1>1, <1>2 DEF Releaser

(* So it does until flipback has restored it.                              *)
LEMMA AcquireRestores ==
  ASSUME CarefulInv, Alive, pc["acquire"] = "fb_restore"
  PROVE  Moved /\ bufkind # "none"
  <1>1. Returning /\ ~newvt
    BY DEF CarefulInv, Handshake, Returning, Off
  <1>2. Moved
    BY <1>1 DEF CarefulInv, Handshake, Bracketing, Buffering, Moved, Releasing, Granting,
       InFlipAway
  <1>3. QED BY <1>2 DEF CarefulInv, Buffering

-----------------------------------------------------------------------------
LEMMA ReleaseSame ==
  ASSUME CarefulInv, Alive, NEW c \in Ctx, Release(c) PROVE Same
  <1>1. /\ c \in Releaser /\ top = c
        /\ Off("acquire") /\ (c = "main" => Off("release") /\ Off("fatal"))
    BY ReleaseAt DEF CarefulInv
  <1>2. ~InFlipAway(c) \/ map = "video"
    BY <1>1, OnVideo
  <1> USE DEF CarefulInv, IInv, TypeOK, At, Goto, Return, Ctx, Releaser, Same, InCall,
              ScreenMode, ScreenImage, SetmodeLabel, ExitLabel, modeVars, cardVars,
              bufVars
  <1>3. CASE DeferRelease(c)
    BY <1>1, <1>3 DEF DeferRelease
  <1>4. CASE RefuseRelease(c)
    BY <1>1, <1>4 DEF RefuseRelease
  <1>5. CASE BeginRelease(c)
    BY <1>1, <1>5 DEF BeginRelease
  <1>6. CASE FlipAway(c) \/ FlipAwaySave(c)
    <2>1. InFlipAway(c) /\ Granting(c) /\ pc[c] \in {"fa", "fa_save"}
      BY <1>6 DEF FlipAway, FlipAwaySave, InFlipAway, Granting
    <2>2. app_bg /\ ~Flipped /\ ~Moved
      BY <1>1, <2>1 DEF Bracketing, Delicate, Moved
    <2>3. bufkind = "none"
      BY <2>2 DEF Buffering
    <2>4. pc[c] = "fa_save" => CM = flip_mode
      BY <1>1 DEF Choosing
    <2>5. CASE FlipAway(c)
      BY <1>1, <2>3, <2>5 DEF FlipAway
    <2>6. CASE FlipAwaySave(c)
      <3>1. /\ graph_buf' = vram /\ bufkind' # "none"
            /\ UNCHANGED <<CM, flip_mode>> /\ CallSetmode(c, TEXT, "fa_done")
        BY <1>2, <2>1, <2>6 DEF FlipAwaySave, SaveState
      <3>2. pc[c] = "fa_save"
        BY <2>6 DEF FlipAwaySave
      <3>3. InCall' <=> InCall
        BY <1>1, <3>1, <3>2 DEF CallSetmode
      <3>4. QED BY <2>3, <2>4, <3>1, <3>2, <3>3
    <2>7. QED BY <1>6, <2>5, <2>6
  <1>7. CASE FlipAwayDone(c)
    BY <1>1, <1>7 DEF FlipAwayDone
  <1>8. CASE GrantRelease(c)
    BY <1>1, <1>8 DEF GrantRelease
  <1>9. CASE AllowAcquire(c)
    BY <1>1, <1>9 DEF AllowAcquire
  <1>10. CASE Suspend(c)
    BY <1>1, <1>10 DEF Suspend
  <1>11. CASE Wake(c)
    BY <1>1, <1>11 DEF Wake
  <1>12. QED BY <1>3, <1>4, <1>5, <1>6, <1>7, <1>8, <1>9, <1>10, <1>11 DEF Release

(* Only the end of flipback is seen, and only by a mode set that is bound  *)
(* to fail: it finds CM at the mode it asked for, not at the fallback.     *)
LEMMA AcquireSame ==
  ASSUME CarefulInv, Alive, Off("fatal"), NEW c \in Ctx, Acquire(c)
  PROVE  Same \/ Virtual!Choose
  <1>1. c = "acquire" /\ top = c /\ below[c] \in Ctx /\ ~Off(c)
    BY AcquireAt DEF CarefulInv
  <1> USE DEF CarefulInv, IInv, TypeOK, At, Goto, Return, Ctx, Same, InCall,
              ScreenMode, ScreenImage, SetmodeLabel, ExitLabel, modeVars, cardVars,
              bufVars
  <1>2. CASE IgnoreAcquire(c)
    BY <1>1, <1>2 DEF IgnoreAcquire
  <1>3. CASE BeginAcquire(c)
    BY <1>1, <1>3 DEF BeginAcquire
  <1>4. CASE FlipBack(c)
    BY <1>1, <1>4 DEF FlipBack, CallSetmode
  <1>5. CASE FlipBackRestore(c)
    <2>1. /\ pc["acquire"] = "fb_restore" /\ Goto(c, "ack") /\ UNCHANGED <<CM, flip_mode>>
          /\ RestoreState
      BY <1>1, <1>5 DEF FlipBackRestore
    <2>2. map = "video" /\ bufkind # "none"
      BY <1>1, <2>1, OnVideo, AcquireRestores
    <2>3. vram' = graph_buf /\ bufkind' = "none"
      BY <2>1, <2>2 DEF RestoreState
    <2>4. CASE CM = flip_mode
      BY <1>1, <2>1, <2>2, <2>3, <2>4
    <2>5. CASE CM # flip_mode
      <3>1. Setting("main") /\ ret["main"] = "idle"
        BY <1>1, <2>1, <2>2, <2>5, AcquireRestores DEF Choosing
      <3>2. InCall /\ InCall'
        BY <1>1, <2>1, <3>1 DEF Setting
      <3>3. ScreenMode' \in Mode
        BY <2>1, <2>3
      <3>4. QED BY <3>2, <3>3 DEF Virtual!Choose
    <2>6. QED BY <2>4, <2>5
  <1>6. CASE AckAcquire(c)
    BY <1>1, <1>6 DEF AckAcquire
  <1>7. CASE EndAcquire(c)
    BY <1>1, <1>7 DEF EndAcquire
  <1>8. QED BY <1>2, <1>3, <1>4, <1>5, <1>6, <1>7 DEF Acquire

(* vga_setmode called by a switch or by vga_flip is not seen; called by    *)
(* the program it moves to its mode, or by way of the fallback to text.    *)
LEMMA SetmodeScreen ==
  ASSUME CarefulInv, Alive, Off("fatal"), Off("fatal")', NEW c \in Ctx, Setmode(c)
  PROVE  Same \/ Virtual!Choose \/ Virtual!End
  <1>1. /\ top = c /\ pc[c] \in SetmodeLabel /\ UNCHANGED <<top, below, ret>>
        /\ pc' = [pc EXCEPT ![c] = pc'[c]]
        /\ pc'[c] \in SetmodeLabel \cup {ret[c]}
        /\ c = "main" => Off("release") /\ Off("acquire") /\ Off("fatal")
    BY SetmodeAt DEF CarefulInv
  <1>2. /\ UNCHANGED <<flip_mode, bufkind, map>>
        /\ CM' \in Mode
        /\ UNCHANGED graph_buf \/ map = "buffer"
    BY VTSwitchAssumption
    DEF Setmode, SetmodeEnter, SetmodeProgram, SetmodeFail, SetmodeEnd, Paint, bufVars,
        modeVars, CarefulInv, IInv, TypeOK, Mode
  <1>3. c # "fatal"
    BY <1>1 DEF Off, SetmodeLabel
  <1>4. CASE c # "main" \/ ret["main"] \notin {"idle", "rt_end"}
    <2>1. bufkind # "none" /\ map = "video"
      <3>1. CASE c = "main" /\ ret["main"] \in {"vf_done", "vf_restore"}
        <4>1. Delicate /\ Flipped
          BY <1>1, <3>1 DEF CarefulInv, Bracketing, Delicate, Flipped, Setting
        <4>2. ~app_bg
          BY <4>1 DEF CarefulInv, Bracketing
        <4>3. bufkind # "none"
          BY <4>1 DEF CarefulInv, Buffering
        <4>4. QED BY <4>2, <4>3, OnVideo
      <3>2. CASE c \in Releaser /\ (c = "main" => ret["main"] = "fa_done")
        <4>1. InFlipAway(c)
          BY <1>1, <3>2 DEF CarefulInv, IInv, Placed, InFlipAway, Releaser
        <4>2. QED BY <1>1, <3>2, <4>1, Saved, OnVideo DEF Setting, Releaser
      <3>3. CASE c = "acquire"
        BY <1>1, <3>3, Saved, OnVideo DEF Setting, SetmodeLabel
      <3>4. QED BY <1>1, <1>3, <1>4, <3>1, <3>2, <3>3 DEF CarefulInv, IInv, Placed, Ctx,
                    Releaser
    <2>2. InCall' <=> InCall
      BY <1>1, <1>4 DEF InCall, CarefulInv, IInv, TypeOK, Placed, Ctx, SetmodeLabel,
         ExitLabel
    <2>3. QED BY <1>2, <2>1, <2>2 DEF Same, ScreenMode, ScreenImage
  <1>5. CASE c = "main" /\ ret["main"] \in {"idle", "rt_end"}
    <2>1. InCall
      BY <1>1, <1>5 DEF InCall
    <2>2. ScreenMode' \in Mode
      BY <1>2 DEF ScreenMode, CarefulInv, IInv, TypeOK
    <2>3. CASE pc'["main"] \in SetmodeLabel \/ ret["main"] = "rt_end"
      <3>1. InCall'
        BY <1>1, <1>5, <2>3 DEF InCall, ExitLabel, CarefulInv, IInv, TypeOK, Ctx
      <3>2. QED BY <2>1, <2>2, <3>1 DEF Virtual!Choose
    <2>4. CASE pc'["main"] \notin SetmodeLabel /\ ret["main"] = "idle"
      <3>1. pc["main"] = "sm_end" /\ SetmodeEnd("main") /\ pc'["main"] = "idle"
        BY <1>1, <1>5, <2>4 DEF Setmode, SetmodeEnter, SetmodeProgram, SetmodeFail,
           SetmodeEnd, At, Goto, CallSetmode, SetmodeLabel, CarefulInv, IInv, TypeOK
      <3>2. ~InCall'
        BY <3>1 DEF InCall, SetmodeLabel, ExitLabel
      <3>3. ~app_flip
        BY <1>1, <1>5, <3>1 DEF CarefulInv, Bracketing, ExitLabel
      <3>4. /\ ~app_bg /\ bufkind = "none" /\ ScreenMode = CM
        BY <1>1, <1>5, <3>3, MainShown DEF CarefulInv, Setting
      <3>5. CM = arg["main"] /\ UNCHANGED CM
        BY <1>1, <1>5, <3>1, <3>4 DEF CarefulInv, Choosing, Arguments, SetmodeEnd,
           modeVars, Ctx
      <3>6. ~flip
        BY <1>1, <1>5, <3>1 DEF CarefulInv, Flipping, FlipLabel, Setting, Ctx, Off,
           SetmodeLabel
      <3>7. map = "video"
        BY <3>4, OnVideo
      <3>8. /\ ScreenMode' = CM
            /\ CM # TEXT => ScreenImage' = Blank
        BY <1>2, <3>1, <3>4, <3>5, <3>6, <3>7 DEF SetmodeEnd, Paint, ScreenMode,
           ScreenImage
      <3>9. QED BY <2>1, <3>2, <3>4, <3>8 DEF Virtual!End
    <2>5. QED BY <2>3, <2>4, <1>5
  <1>6. QED BY <1>4, <1>5

(* The calls of the program: a mode set and an exit begin here.            *)
LEMMA CallScreen ==
  ASSUME Careful, CarefulInv, Alive, Call
  PROVE  Same \/ Virtual!Begin \/ Virtual!Draw
  <1>1. /\ top = "main"
        /\ pc["main"] \in {"idle", "rib_wait", "rib_set", "vf_done", "vf_restore"}
        /\ Off("release") /\ Off("acquire") /\ Off("fatal")
    BY CallAt DEF CarefulInv
  <1>2. ~InCall
    BY <1>1 DEF InCall, SetmodeLabel, ExitLabel
  <1> USE DEF CarefulInv, IInv, TypeOK, At, Goto, CallSetmode, Ctx, Same, InCall, Running,
              ScreenMode, ScreenImage, SetmodeLabel, ExitLabel, ctlVars, modeVars,
              cardVars, bufVars
  <1>3. CASE vga_lockvc
    BY <1>1, <1>3 DEF vga_lockvc
  <1>4. CASE vga_unlockvc
    BY <1>1, <1>4 DEF vga_unlockvc
  <1>5. CASE vga_setmode \/ Exit
    <2>1. InCall' /\ UNCHANGED ScreenMode
      BY <1>1, <1>5 DEF vga_setmode, Exit
    <2>2. QED BY <1>2, <2>1 DEF Virtual!Begin
  <1>6. CASE vga_runinbackground
    BY <1>1, <1>6 DEF vga_runinbackground
  <1>7. CASE RunInBackgroundWait
    BY <1>1, <1>7 DEF RunInBackgroundWait
  <1>8. CASE RunInBackgroundSet
    BY <1>1, <1>8 DEF RunInBackgroundSet
  <1>9. CASE vga_flip
    <2>1. CASE ~app_flip
      <3>1. /\ SaveState /\ flip_mode' = CM /\ UNCHANGED CM
            /\ CallSetmode("main", TEXT, "vf_done") /\ ~app_bg
        BY <1>9, <2>1 DEF vga_flip, Bracketed
      <3>2. map = "video"
        BY <3>1, OnVideo
      <3>3. bufkind = "none"
        BY <1>9, <2>1, <3>1 DEF Buffering, Moved, Flipped, Setting, vga_flip
      <3>4. QED BY <1>1, <3>1, <3>2, <3>3 DEF SaveState
    <2>2. CASE app_flip
      BY <1>1, <1>9, <2>2 DEF vga_flip
    <2>3. QED BY <2>1, <2>2
  <1>10. CASE FlipDone
    BY <1>1, <1>10 DEF FlipDone
  <1>11. CASE FlipRestore
    <2>1. /\ pc["main"] = "vf_restore" /\ CM = flip_mode
          /\ RestoreState /\ UNCHANGED <<CM, flip_mode>> /\ Goto("main", "idle")
      BY <1>1, <1>11 DEF FlipRestore, Choosing
    <2>2. Flipped /\ ~app_bg
      BY <2>1 DEF Flipped, Bracketing, Delicate
    <2>3. map = "video" /\ bufkind # "none"
      BY <2>2, OnVideo DEF Buffering
    <2>4. QED BY <1>1, <2>1, <2>3 DEF RestoreState
  <1>12. CASE Draw
    <2>1. /\ pc["main"] = "idle" /\ ~app_flip /\ ScreenMode # TEXT
          /\ UNCHANGED <<pc, ret, CM, flip_mode, bufkind>>
          /\ \E img \in Image : Paint(img)
      BY <1>12 DEF Draw
    <2>2. ScreenImage' \in Image
      <3>1. CASE bufkind = "none"
        <4>1. ~Moved
          BY <3>1 DEF Buffering
        <4>2. map = "video"
          BY <4>1 DEF Buffering
        <4>3. QED BY <2>1, <3>1, <4>2 DEF Paint
      <3>2. CASE bufkind # "none"
        <4>1. Moved
          BY <2>1, <3>2 DEF Buffering, Flipped, Setting
        <4>2. \A c \in Releaser : ~InFlipAway(c) /\ ~Granted(c) /\ pc[c] # "reldisp"
          BY <1>1, <2>1 DEF Releaser, InFlipAway, Granted, Off
        <4>3. runinbackground
          BY <4>1, <4>2 DEF Bracketing, Moved, Granting
        <4>4. map = "buffer"
          BY <1>1, <4>1, <4>2, <4>3 DEF Buffering, Off
        <4>5. QED BY <2>1, <3>2, <4>4 DEF Paint
      <3>3. QED BY <3>1, <3>2
    <2>3. ~InCall' /\ UNCHANGED ScreenMode
      BY <2>1
    <2>4. QED BY <1>2, <2>1, <2>2, <2>3 DEF Virtual!Draw
  <1>13. QED BY <1>3, <1>4, <1>5, <1>6, <1>7, <1>8, <1>9, <1>10, <1>11, <1>12 DEF Call

LEMMA TerminateSame ==
  ASSUME CarefulInv, Off("fatal"), NEW c \in Ctx, Terminate(c) PROVE Same
  <1>1. c = "main"
    BY DEF CarefulInv, IInv, Terminate, RestoreText, RestoreTextEnd, At, Placed, Ctx, Off,
       SetmodeLabel, ReleaseLabel, AcquireLabel
  <1>2. InCall /\ InCall'
    BY <1>1 DEF Terminate, RestoreText, RestoreTextEnd, At, Goto, CallSetmode, InCall,
       ExitLabel, SetmodeLabel, CarefulInv, IInv, TypeOK, Ctx
  <1>3. QED BY <1>2 DEF Same, Terminate, RestoreText, RestoreTextEnd, ScreenMode, modeVars,
               bufVars

(* The handler of a fatal signal does not return.                          *)
LEMMA FatalStays ==
  ASSUME CarefulInv, [Next]_vars, Off("fatal")' PROVE Off("fatal")
  <1> USE DEF CarefulInv, IInv, TypeOK, Ctx, Off
  <1>1. CASE Library
    <2>1. PICK c \in Ctx : Step(c)
      BY <1>1 DEF Library
    <2>2. CASE c = "fatal"
      <3>1. ~Release(c) /\ ~Acquire(c)
        BY <2>2 DEF Placed, ExitLabel, SetmodeLabel, At, Release, DeferRelease,
           RefuseRelease, BeginRelease, FlipAway, FlipAwaySave, FlipAwayDone,
           GrantRelease, AllowAcquire, Suspend, Wake, Acquire, IgnoreAcquire,
           BeginAcquire, FlipBack, FlipBackRestore, AckAcquire, EndAcquire
      <3>2. ~Setmode(c)
        BY <2>2, SetmodeAt DEF Placed, SetmodeLabel
      <3>3. ~Terminate(c)
        BY <2>2 DEF Terminate, RestoreText, RestoreTextEnd, Goto, CallSetmode
      <3>4. QED BY <2>1, <3>1, <3>2, <3>3 DEF Step
    <2>3. CASE c # "fatal"
      BY <2>1, <2>3, LibraryControl
    <2>4. QED BY <2>2, <2>3
  <1>2. CASE Call
    BY <1>2, CallControl
  <1>3. CASE ReleaseSignal \/ AcquireSignal \/ FatalSignal \/ User
    BY <1>3 DEF ReleaseSignal, AcquireSignal, FatalSignal, User, Interrupt, ctlVars
  <1>4. CASE UNCHANGED vars
    BY <1>4 DEF vars, ctlVars
  <1>5. QED BY <1>1, <1>2, <1>3, <1>4 DEF Next

(* Every step of VTSwitch is a step of Screen or leaves it as it is.       *)
LEMMA ScreenStep ==
  ASSUME Careful, CarefulInv, [Next]_vars PROVE [Virtual!Next]_(Virtual!vars)
  <1>1. CASE ~Off("fatal")'
    BY <1>1 DEF Virtual!Next, Virtual!Killed, Off
  <1>2. CASE Off("fatal")'
    <2>1. Off("fatal")
      BY <1>2, FatalStays
    <2>2. Same \/ Virtual!Live
      <3>1. CASE ~Alive
        BY <3>1, Inert DEF Same, ScreenMode, ScreenImage, InCall, ctlVars, progVars,
           modeVars, cardVars, bufVars
      <3>2. CASE Alive /\ Library
        <4>1. PICK c \in Ctx : Step(c)
          BY <3>2 DEF Library
        <4>2. QED BY <1>2, <2>1, <3>2, <4>1, SetmodeScreen, ReleaseSame, AcquireSame,
                     TerminateSame DEF Step, Virtual!Live
      <3>3. CASE Alive /\ Call
        BY <3>3, CallScreen DEF Virtual!Live
      <3>4. CASE ReleaseSignal \/ AcquireSignal \/ FatalSignal \/ User
        <4>1. /\ UNCHANGED <<progVars, ret>>
              /\ UNCHANGED pc \/ \E h \in Handler, l \in Label : pc' = [pc EXCEPT ![h] = l]
          BY <3>4 DEF ReleaseSignal, AcquireSignal, FatalSignal, User, Interrupt, ctlVars,
             Handler, Label, ReleaseLabel, AcquireLabel, ExitLabel
        <4>2. QED BY <4>1 DEF Same, ScreenMode, ScreenImage, InCall, progVars, modeVars,
                     cardVars, bufVars, CarefulInv, IInv, TypeOK, Handler, Ctx
      <3>5. CASE UNCHANGED vars
        BY <3>5 DEF Same, ScreenMode, ScreenImage, InCall, vars, ctlVars, modeVars,
           cardVars, bufVars
      <3>6. QED BY <3>1, <3>2, <3>3, <3>4, <3>5 DEF Next
    <2>3. QED BY <1>2, <2>1, <2>2, SameStutters DEF Virtual!Next, Off
  <1>3. QED BY <1>1, <1>2

(***************************************************************************)
(* "Transparent virtual console switching" (doc/man7/svgalib.7): what a    *)
(* careful program draws stays on its screen, in the card or in the save   *)
(* buffer, through any number of switches by a patient user, of calls of   *)
(* vga_flip and of changes of background running, for any set of modes and *)
(* images; its screen changes as that of Screen does, where there are no   *)
(* switches.                                                               *)
(***************************************************************************)
THEOREM TransparentSwitching ==
  ASSUME Careful, Patient PROVE Spec => Transparent
  <1>1. Init => Virtual!Init
    BY DEF Init, Virtual!Init, ScreenMode, InCall, Ctx, SetmodeLabel, ExitLabel
  <1>2. CarefulInv /\ [Next]_vars => [Virtual!Next]_(Virtual!vars)
    BY ScreenStep
  <1>3. QED BY <1>1, <1>2, CarefulInductive, PTL DEF Spec, Transparent, Virtual!Spec

=============================================================================
