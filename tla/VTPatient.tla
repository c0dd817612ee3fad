----------------------------- MODULE VTPatient -----------------------------
(***************************************************************************)
(* The inductive invariant of VTSwitch for a patient user and, from        *)
(* Bracketing on, a careful program.  Its parts are about a program that   *)
(* lives; IInv, which needs neither, comes first.                          *)
(***************************************************************************)
EXTENDS VTSwitch

(* A release runs in its handler, or in main from vga_unlockvc.            *)
Releaser == {"main", "release"}

Setting(c) == pc[c] \in SetmodeLabel
Releasing(c) == pc[c] = "rel" \/ Granting(c)
Granted(c) == pc[c] \in {"rel_allow", "rel_suspend", "rel_wait"}
Returning == AcqSig \in pend \/ ~Off("acquire")

(***************************************************************************)
(* A request to leave is a signal on its way, a release at work or one put *)
(* off, and one of them; a return is a signal or a handler, and never at   *)
(* the same time.  So no request meets a forbid flag.                      *)
(***************************************************************************)
Handshake ==
  /\ newvt <=> \/ RelSig \in pend \/ release_flag
               \/ \E c \in Releaser : Releasing(c)
  /\ RelSig \in pend => ~release_flag
  /\ RelSig \in pend \/ release_flag => \A c \in Releaser : ~Releasing(c)
  /\ Releasing("main") => Off("release")
  /\ newvt => fg = "ours" /\ ~Returning
  /\ Returning => fg = "ours"
  /\ AcqSig \in pend => Off("acquire")
  /\ ~Off("acquire") => top \in {"acquire", "fatal"}
  /\ forbidvtrelease => pc["acquire"] \notin {"off", "acq"}
  /\ forbidvtacquire => \E c \in Releaser : Granting(c) \/ pc[c] = "rel_allow"
  /\ \A c \in Releaser : pc[c] \in {"rel_allow", "rel_suspend"} =>
       fg = "other" /\ top \in {c, "fatal"}

(* vga_flip has saved the screen and not yet restored it.                  *)
Flipped ==
  \/ app_flip
  \/ pc["main"] = "vf_restore"
  \/ Setting("main") /\ ret["main"] = "vf_restore"

(* The stages of the program's calls a switch would upset.                 *)
Delicate ==
  \/ Flipped
  \/ pc["main"] \in {"rib_wait", "rib_set"}
  \/ runinbackground /\ \/ Setting("main") /\ ret["main"] \in {"idle", "rt_end"}
                        \/ pc["main"] \in ExitLabel

(***************************************************************************)
(* They are under vga_lockvc and in front.  The program knows itself in    *)
(* the background from the first step of a release to the last of an       *)
(* acquire, and stays suspended all the while unless it runs there.        *)
(***************************************************************************)
Bracketing ==
  /\ Delicate => lock_count > 0 /\ ~app_bg
  /\ pc["main"] = "rib_set" => fg = "ours"
  /\ \/ pc["main"] = "vf_done"
     \/ Setting("main") /\ ret["main"] = "vf_done"
     => app_flip
  /\ app_flip => \/ pc["main"] \in {"idle", "vf_done"} \cup ExitLabel
                 \/ Setting("main") /\ ret["main"] = "vf_done"
  /\ app_bg <=> \/ fg = "other" \/ Returning
                \/ \E c \in Releaser : Granting(c)
  /\ ~oktowrite => app_bg
  /\ app_bg /\ ~runinbackground =>
       \E c \in Releaser : Granting(c) \/ Granted(c)

(* A switch has saved the program's screen and not yet restored it.        *)
Moved ==
  /\ app_bg /\ flip_mode # TEXT
  /\ \A c \in Releaser : pc[c] \notin {"fa", "fa_save"}
  /\ pc["acquire"] \notin {"ack", "acq_end"}

(***************************************************************************)
(* There is a save buffer when the screen was saved, of the kind that free *)
(* _graph_buf will expect, and the windows point at it from the end of     *)
(* flipaway to the beginning of flipback.                                  *)
(***************************************************************************)
Buffering ==
  /\ bufkind # "none" <=> Flipped \/ Moved
  /\ bufkind # "none" => bufkind = IF runinbackground THEN "file" ELSE "heap"
  /\ \A c \in Releaser : InFlipAway(c) /\ pc[c] # "fa" => flip_mode # TEXT
  /\ Setting("acquire") \/ pc["acquire"] = "fb_restore" => flip_mode # TEXT
  /\ Flipped => flip_mode \notin BadMode \cup {TEXT}
  /\ map = "buffer" <=> /\ runinbackground /\ Moved
                        /\ \A c \in Releaser : ~InFlipAway(c)
                        /\ pc["acquire"] \in {"off", "acq", "fb"}

(* The modes vga_setmode is called for.                                    *)
Arguments ==
  /\ \A c \in Ctx : Setting(c) /\ ret[c] \in {"fa_done", "vf_done", "rt_end"} =>
       arg[c] = TEXT
  /\ Setting("main") /\ ret["main"] = "vf_restore" => arg["main"] = flip_mode
  /\ Setting("acquire") =>
       arg["acquire"] \in IF flip_mode \in BadMode THEN {flip_mode, TEXT} ELSE {flip_mode}
  /\ \A c \in Ctx : pc[c] = "sm_end" => arg[c] \notin BadMode

(***************************************************************************)
(* CM against the argument of a vga_setmode at work.  That of main may be  *)
(* interrupted by a switch: then it is the mode of the program's screen    *)
(* that keeps the argument, unless the card rejects it.                    *)
(***************************************************************************)
Choosing ==
  /\ \A c \in {"release", "acquire"} :
       top = c /\ pc[c] \in {"sm_prog", "sm_end"} => CM = arg[c]
  /\ \A c \in Releaser : top = c /\ pc[c] = "fa_save" => CM = flip_mode
  /\ top = "acquire" /\ pc["acquire"] = "fb_restore" /\ flip_mode \notin BadMode =>
       CM = flip_mode
  /\ Off("fatal") /\ pc["main"] \in {"sm_prog", "sm_end"} =>
       IF ret["main"] \in {"idle", "rt_end"}
         THEN arg["main"] \notin BadMode => ScreenMode = arg["main"]
         ELSE CM = arg["main"]
  /\ Off("fatal") /\ pc["main"] = "vf_restore" => CM = flip_mode
  /\ Off("fatal") /\ pc["main"] = "rt_end" =>
       (IF app_flip THEN CM ELSE ScreenMode) = TEXT
  /\ app_flip /\ ~Setting("main") => CM = TEXT
  /\ Off("fatal") /\ (CM \in BadMode \/ (Moved /\ flip_mode \in BadMode)) =>
       Setting("main") /\ ret["main"] = "idle"
  /\ fg = "other" => CM = TEXT
  /\ \A c \in Releaser : pc[c] \in {"fa_done", "reldisp"} => CM = TEXT

(* The card against CM, as far as no vga_setmode is changing it.           *)
Settled ==
  /\ CM = TEXT /\ (\A c \in Ctx : ~(pc[c] = "sm_prog" /\ arg[c] = TEXT)) =>
       hw = TEXT
  /\ CM = TEXT /\ (\A c \in Ctx : ~(Setting(c) /\ arg[c] = TEXT)) =>
       kd = "text" /\ screenon
  /\ \A c \in {"release", "acquire"} :
       top = c /\ pc[c] = "sm_end" => hw = arg[c]
  /\ /\ Off("fatal") /\ ~Setting("release") /\ ~Setting("acquire")
     /\ pc["main"] \notin {"sm_enter", "sm_prog"}
     => hw = CM
  /\ Off("fatal") /\ CM # TEXT /\ ~(pc["main"] = "sm_enter" /\ arg["main"] = TEXT) =>
       kd = "graphics"
  /\ /\ Off("fatal")
     /\ \A c \in Ctx : pc[c] \notin SetmodeLabel \cup {"fb_restore", "vf_restore"}
     => screenon

(* flip is set only inside a flip.                                         *)
FlipLabel == {"fa_done", "fb_restore", "vf_done", "vf_restore"}
Flipping ==
  flip /\ Off("fatal") =>
    \E c \in Ctx : pc[c] \in FlipLabel \/ (Setting(c) /\ ret[c] \in FlipLabel)

(***************************************************************************)
(* Once restoretextmode has seen to CM in the handler of a fatal signal,   *)
(* it stays TEXT, but for an acquire right above that handler; and such an *)
(* acquire is the last handler to come.                                    *)
(***************************************************************************)
Dying ==
  /\ below["acquire"] = "fatal" =>
       ~Off("fatal") /\ pend = {} /\ ~newvt /\ top \in {"acquire", "fatal"}
  /\ pc["fatal"] \in {"sm_prog", "sm_end", "rt_end"} /\ below["acquire"] # "fatal" =>
       /\ CM = TEXT
       /\ /\ ~Off("release") /\ below["release"] = "fatal"
          /\ pc["release"] \notin {"rel", "fa"}
          => flip_mode = TEXT

(* Nothing runs on a dead process.                                         *)
DeadOnTop == ~Alive => pc[top] = "dead"

CarefulInv ==
  /\ IInv
  /\ Alive => /\ Handshake /\ Bracketing /\ Buffering /\ Arguments
              /\ Choosing /\ Settled /\ Flipping /\ Dying
  /\ DeadOnTop
  /\ DeadIsTextOutsideWindows

=============================================================================
