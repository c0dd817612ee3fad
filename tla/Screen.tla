------------------------------- MODULE Screen -------------------------------
(***************************************************************************)
(* What svgalib promises a program: a screen of its own.  The program sets *)
(* a mode, which gives it a blank screen, and draws on it; nothing else    *)
(* ever changes what it drew.  Virtual console switches, the text screen   *)
(* and the save buffer do not appear here: "transparent virtual console    *)
(* switching" (doc/man7/svgalib.7) means that the detailed specification   *)
(* VTSwitch implements this one.                                           *)
(***************************************************************************)

CONSTANTS
  Mode,      \* the modes, TEXT among them
  TEXT,
  Image,     \* what a program can have on its screen
  Blank,     \* the image a mode set leaves
  Undefined  \* no defined contents: text mode, or a mode set in progress

VARIABLES
  mode, image,
  busy,      \* the program is inside vga_setmode, or exiting
  killed     \* a fatal signal has come: the screen is not the program's now

vars == <<mode, image, busy, killed>>

TypeOK ==
  /\ mode \in Mode
  /\ image \in Image \cup {Undefined}
  /\ {busy, killed} \subseteq BOOLEAN

Init ==
  /\ mode = TEXT
  /\ image = Undefined
  /\ busy = FALSE
  /\ killed = FALSE

(* A mode set begins: the contents are gone. *)
Begin ==
  /\ ~busy
  /\ busy' = TRUE
  /\ image' = Undefined
  /\ UNCHANGED mode

(* The library moves to the mode, or by way of it to another one. *)
Choose ==
  /\ busy
  /\ mode' \in Mode
  /\ UNCHANGED <<image, busy>>

(* It ends with a cleared screen, or with the text screen. *)
End ==
  /\ busy
  /\ busy' = FALSE
  /\ image' = IF mode = TEXT THEN Undefined ELSE Blank
  /\ UNCHANGED mode

Draw ==
  /\ ~busy
  /\ mode # TEXT
  /\ image' \in Image
  /\ UNCHANGED <<mode, busy>>

Live == Begin \/ Choose \/ End \/ Draw

(* The signal, and anything after it. *)
Killed == killed'

Next == (~killed' /\ Live) \/ Killed

Spec == Init /\ [][Next]_vars

=============================================================================
