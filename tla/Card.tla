-------------------------------- MODULE Card --------------------------------
(***************************************************************************)
(* A chipset driver between vga.c and the card's registers: mode sets and  *)
(* the calls that select a page, a display start, a line's width or linear *)
(* memory, in any order, and console switches, which take the card back to *)
(* text and return. The registers the standard VGA does not know are in    *)
(* the hands of the driver's saveregs, setregs and setmode alone: a bit    *)
(* that one of its functions writes and these forget stays in text mode,   *)
(* or is missing after a switch.                                           *)
(*                                                                         *)
(* Numbers are sets of bits. What the program asked for is kept in asked.  *)
(***************************************************************************)
EXTENDS Registers

CONSTANTS
  Drivers,     \* the drivers by name, as Registers describes them
  Modes,       \* the modes of the drivers
  Fast,        \* those whose clock is fast, or that need what others do not
  LineWidth,   \* the width of their lines
  Patterns,    \* sets of bits the program's numbers are made of
  Wary         \* the program avoids what is known to fail

ASSUME CardAssumption ==
  /\ {"TEXT", "VGA", "text", "0", "1", "linear", "junk"} \cap Modes = {}
  /\ Fast \subseteq Modes
  /\ LineWidth \in [Modes -> SUBSET Nat] /\ Patterns \subseteq SUBSET Nat
  /\ \A d \in DOMAIN Drivers :
       Drivers[d].range \in [{"start", "width", "page"} -> SUBSET Nat]

TEXT == "TEXT"
VGA == "VGA"       \* a mode of the standard VGA, set through the driver
None == {-1}

VARIABLES
  driver,
  hw,          \* the registers: "0" and "1", a mode's value, or the text's
  CM,
  lib,         \* readpage, display start, logical width, linear: as noted
  saved,       \* the mode and the notes savestate keeps, NULL in front
  asked

vars == <<driver, hw, CM, lib, saved, asked>>

NULL == [mode |-> TEXT]
D == Drivers[driver]
SVGA(mode) == mode \in Modes
Awake == saved = NULL

Extended(d) ==
  d.saveregs \cup d.setregs \cup d.mode.units \cup d.mode.fast \cup d.mode.zero
    \cup Targets(d.mode.width) \cup d.vga \cup d.linear \cup Targets(d.setpage)
    \cup Targets(d.setdisplaystart) \cup Targets(d.setlogicalwidth)

Notes == [page |-> None, start |-> {}, width |-> {}, linear |-> FALSE]

Init ==
  /\ driver \in DOMAIN Drivers
  /\ hw = [u \in Extended(D) |-> "text"]
  /\ CM = TEXT /\ lib = Notes /\ saved = NULL /\ asked = Notes

-----------------------------------------------------------------------------
(* The driver's functions on the registers.                                *)

Bit(b) == IF b THEN "1" ELSE "0"

Placed(h, placement, number) ==
  LET targets == Targets(placement)
      ones == Ones(placement, number)
  IN  [u \in DOMAIN h |-> IF u \in targets THEN Bit(u \in ones) ELSE h[u]]

(* setregs(text_regs): what was saved at the start, or never.              *)
setregs(h) ==
  [u \in DOMAIN h |-> IF u \notin D.setregs THEN h[u]
                      ELSE IF u \in D.saveregs THEN "text" ELSE "junk"]

(* A line is as wide as its mode says and the driver allows.               *)
WidthOf(m) == IF SVGA(m) THEN LineWidth[m] \cap D.range["width"] ELSE {}

(* setmode of a mode of the driver: its setregs and __svgalib_setregs      *)
(* write what was made ready.                                              *)
Ready(h, m) ==
  LET ones == Ones(D.mode.width, WidthOf(m))
      places == Targets(D.mode.width)
  IN  [u \in DOMAIN h |->
         IF u \in places THEN Bit(u \in ones)
         ELSE IF u \in D.mode.zero \/ Start(u) THEN "0"
         ELSE IF u \in D.mode.units \/ IsStd(u) THEN m
         ELSE IF u \in D.mode.fast /\ m \in Fast THEN m
         ELSE IF D.mode.inherits /\ u \in D.saveregs \ D.mode.raw THEN h[u] ELSE "junk"]

setmode(h, m) ==
  LET ready == Ready(h, m)
  IN  [u \in DOMAIN h |-> IF u \in D.setregs \/ IsStd(u) THEN ready[u] ELSE h[u]]

(* A standard mode: the VGA's registers, and what the driver clears first. *)
setmodeVGA(h) ==
  [u \in DOMAIN h |-> IF u \in D.vga \/ Start(u) THEN "0"
                      ELSE IF IsStd(u) THEN VGA ELSE h[u]]

linear(h) == [u \in DOMAIN h |-> IF u \in D.linear THEN "linear" ELSE h[u]]

setpage(h, p) == Placed(h, D.setpage, p)

-----------------------------------------------------------------------------
(* vga_setmode.                                                            *)

(* Out of a mode of the driver: the first page, and the text's registers.  *)
FaultyPage0(h) == h
Page0(h) == IF SVGA(CM) /\ lib.page # {} THEN setpage(h, {}) ELSE h
FaultyLeave(h) == Page0(h)     \* the text's extended registers not set
Leave(h) == IF SVGA(CM) THEN setregs(Page0(h)) ELSE h

ToText ==
  LET h == setregs(setmodeVGA(Page0(hw)))
  IN  [u \in DOMAIN h |-> IF IsStd(u) THEN "text" ELSE h[u]]

ToGraphics(m) ==
  IF SVGA(m) THEN setmode(Leave(hw), m) ELSE setmodeVGA(Leave(hw))

Fresh(m) == [Notes EXCEPT !.width = WidthOf(m)]

(* In front a mode of the driver ends on its first page. That the program  *)
(* wants linear memory is not forgotten with the mode it was wanted in; a  *)
(* wary one sets no other then.                                            *)
vga_setmode(m) ==
  /\ Awake
  /\ Wary /\ lib.linear => ~SVGA(m)
  /\ CM' = m
  /\ hw' = IF m = TEXT THEN ToText
           ELSE IF SVGA(m) THEN setpage(ToGraphics(m), {}) ELSE ToGraphics(m)
  /\ lib' = [Fresh(m) EXCEPT !.linear = lib.linear]
  /\ asked' = Fresh(m)
  /\ UNCHANGED <<driver, saved>>

-----------------------------------------------------------------------------
(* The calls that select.                                                  *)

(* What of a pattern of bits the program uses of a call's range.           *)
Allowed(d, call) == IF Wary THEN d.range[call] \ d.lost[call] ELSE d.range[call]
Usable(call) == Allowed(D, call)

vga_setpage(pattern) ==
  LET p == pattern \cap Usable("page") IN
  /\ Awake /\ SVGA(CM)
  /\ hw' = IF p = lib.page THEN hw ELSE setpage(hw, p)
  /\ lib' = [lib EXCEPT !.page = p] /\ asked' = [asked EXCEPT !.page = p]
  /\ UNCHANGED <<driver, CM, saved>>

vga_setdisplaystart(pattern) ==
  LET a == pattern \cap Usable("start") IN
  /\ Awake /\ SVGA(CM)
  /\ hw' = Placed(hw, D.setdisplaystart, a)
  /\ lib' = [lib EXCEPT !.start = a] /\ asked' = [asked EXCEPT !.start = a]
  /\ UNCHANGED <<driver, CM, saved>>

vga_setlogicalwidth(pattern) ==
  LET w == pattern \cap Usable("width") IN
  /\ Awake /\ SVGA(CM) /\ w # {}
  /\ hw' = Placed(hw, D.setlogicalwidth, w)
  /\ lib' = [lib EXCEPT !.width = w] /\ asked' = [asked EXCEPT !.width = w]
  /\ UNCHANGED <<driver, CM, saved>>

vga_setlinearaddressing ==
  /\ Awake /\ SVGA(CM) /\ D.linear # {}
  /\ hw' = linear(hw)
  /\ lib' = [lib EXCEPT !.linear = TRUE] /\ asked' = [asked EXCEPT !.linear = TRUE]
  /\ UNCHANGED <<driver, CM, saved>>

-----------------------------------------------------------------------------
(* Another console and back.                                               *)

(* savestate copies the pages, the last one last, and vga_setmode(TEXT).   *)
(* Nothing asks for what lib holds until the console is back.              *)
Last == Usable("page")
flipaway ==
  /\ Awake /\ CM # TEXT
  /\ saved' = [mode |-> CM, lib |-> lib]
  /\ CM' = TEXT
  /\ hw' = ToText
  /\ UNCHANGED <<driver, lib, asked>>

(* vga_setmode, then restorestate in its order: linear addressing, the     *)
(* memory copied back, in pages without it, the width, the page, the start.*)
Banked == SVGA(saved.mode) /\ ~saved.lib.linear
Linear(h) == IF saved.lib.linear /\ SVGA(saved.mode) THEN linear(h) ELSE h
Copied(h) == IF Banked THEN setpage(h, Last) ELSE h
Width(h) ==
  IF saved.lib.width # WidthOf(saved.mode)
  THEN Placed(h, D.setlogicalwidth, saved.lib.width) ELSE h
PageAgain ==
  IF saved.lib.page = None /\ Banked THEN Last ELSE saved.lib.page
Page(h) == IF PageAgain # None THEN setpage(h, PageAgain) ELSE h
FaultyStartAgain(h) == h
StartAgain(h) ==
  IF saved.lib.start # {} THEN Placed(h, D.setdisplaystart, saved.lib.start) ELSE h

flipback ==
  /\ ~Awake
  /\ saved' = NULL
  /\ CM' = saved.mode
  /\ hw' = StartAgain(Page(Width(Copied(Linear(ToGraphics(saved.mode))))))
  /\ lib' = [saved.lib EXCEPT !.page = PageAgain]
  /\ UNCHANGED <<driver, asked>>

Next ==
  \/ \E m \in Modes \cup {TEXT, VGA} : vga_setmode(m)
  \/ \E p \in Patterns : vga_setpage(p)
  \/ \E p \in Patterns : vga_setdisplaystart(p)
  \/ \E p \in Patterns : vga_setlogicalwidth(p)
  \/ vga_setlinearaddressing
  \/ flipaway
  \/ flipback

Spec == Init /\ [][Next]_vars

-----------------------------------------------------------------------------
(* Properties.                                                             *)

(* In text mode, the program's own or another console's, every register a  *)
(* driver ever touches holds what it held before the first mode set: no    *)
(* mode, page, start, width or window is left over (vga_setmode, "restore  *)
(* old extended regs"). A start or page of 0 is as good as the text's.     *)
Selects == Targets(D.setpage) \cup Targets(D.setdisplaystart)
AsText(u) == hw[u] = "text" \/ (hw[u] = "0" /\ u \in Selects)
TextWhole == CM = TEXT => \A u \in DOMAIN hw : AsText(u)

(* A mode does not depend on what was set before: apart from the numbers   *)
(* the calls select, the registers are those of that mode set out of a     *)
(* fresh text, after any other modes, calls and console switches, and none *)
(* of them but the raw is set from a value nothing has saved or computed.  *)
Selected(d) ==
  {p[2] : p \in {q \in d.setpage \cup d.setdisplaystart \cup d.setlogicalwidth
                    \cup d.mode.width : q[1] # -1}} \cup d.linear
Fixed(d) == Extended(d) \ (Selected(d) \cup d.mode.raw)
Whole(m) == setpage(setmode([u \in DOMAIN hw |-> "text"], m), {})
ModeWhole ==
  SVGA(CM) => \A u \in Fixed(D) : hw[u] = Whole(CM)[u] /\ hw[u] # "junk"

(* In a mode of the driver the registers hold the page, the start, the     *)
(* width and the window the program asked for last, every bit of them,     *)
(* also after the console was away: what a mode set or a switch does not   *)
(* set again is not lost, and what one call writes another does not spoil. *)
Shows(h, placement, number) ==
  /\ number \subseteq {p[1] : p \in placement}
  /\ \A p \in placement : p[1] >= 0 => (h[p[2]] = "1" <=> p[1] \in number)
SelectionsHold ==
  SVGA(CM) =>
    /\ asked.page # None => Shows(hw, D.setpage, asked.page)
    /\ Shows(hw, D.setdisplaystart, asked.start)
    /\ Shows(hw, D.mode.width, asked.width)
    /\ \A u \in D.linear : (hw[u] = "linear") = asked.linear
=============================================================================
