------------------------------ MODULE VTKernel ------------------------------
(***************************************************************************)
(* The part of the Linux console driver that svgalib talks to.  It is      *)
(* external code: it is modelled from the ioctls and signals that          *)
(* src/src/vga.c and src/src/vga_console.c use (VT_SETMODE, VT_RELDISP,    *)
(* VT_WAITACTIVE, KDSETMODE, and the signals of takevtcontrol).            *)
(*                                                                         *)
(* Two virtual consoles are enough: the one svgalib runs on and "other".   *)
(* A console in VT_PROCESS mode is asked for before it is left (relsig)    *)
(* and told when it is visible again (acqsig).                             *)
(***************************************************************************)

VARIABLES
  fg,      \* the visible console: "ours" or "other"
  newvt,   \* a switch away from ours was requested and is not answered
  vtmode,  \* who arbitrates switches: "process" (svgalib) or "auto"
  kd,      \* the KDSETMODE state of our console
  pend     \* the signals sent to the program and not yet delivered

vtVars == <<fg, newvt, vtmode, kd, pend>>

RelSig == "SIGUSR1"
AcqSig == "SIGUSR2"

VTTypeOK ==
  /\ fg \in {"ours", "other"}
  /\ newvt \in BOOLEAN
  /\ vtmode \in {"process", "auto"}
  /\ kd \in {"text", "graphics"}
  /\ pend \subseteq {RelSig, AcqSig}

VTInit ==
  /\ fg = "ours"
  /\ newvt = FALSE
  /\ vtmode = "process"
  /\ kd = "text"
  /\ pend = {}

(***************************************************************************)
(* A user, or VT_ACTIVATE, asks for the other console.  Every such request *)
(* sends relsig, also while an earlier one is unanswered.                  *)
(***************************************************************************)
RequestAway ==
  /\ fg = "ours"
  /\ \/ /\ vtmode = "process"
        /\ newvt' = TRUE
        /\ pend' = pend \cup {RelSig}
        /\ UNCHANGED fg
     \/ /\ vtmode = "auto"
        /\ kd = "text"
        /\ fg' = "other"
        /\ UNCHANGED <<newvt, pend>>
  /\ UNCHANGED <<vtmode, kd>>

(* The other console is a text console: it lets go at once. *)
SwitchBack ==
  /\ fg = "other"
  /\ fg' = "ours"
  /\ pend' = IF vtmode = "process" THEN pend \cup {AcqSig} ELSE pend
  /\ UNCHANGED <<newvt, vtmode, kd>>

(***************************************************************************)
(* ioctl(VT_RELDISP, arg).  A pending request is refused by "no" and       *)
(* completed by anything else, VT_ACKACQ included; with no pending request *)
(* the call changes nothing.                                               *)
(***************************************************************************)
RelDisp(answer) ==
  /\ newvt' = FALSE
  /\ fg' = IF newvt /\ answer # "no" THEN "other" ELSE fg
  /\ UNCHANGED <<vtmode, kd, pend>>

=============================================================================
