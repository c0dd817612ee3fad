----------------------------- MODULE CardProofs -----------------------------
(***************************************************************************)
(* Text mode finds every register of the card as it was, a mode does not   *)
(* depend on what was set before, and the registers hold what the program  *)
(* asked for: proof that CardInvariant!IInv is inductive, for any drivers, *)
(* modes and numbers, if each driver Restores and is Steady and Selectable.*)
(*                                                                         *)
(* The argument for the text: setregs(text_regs) brings back what both     *)
(* saveregs and setregs know, and __svgalib_setregs the VGA's own. What is *)
(* loose is written by page and start calls only; a start never puts a 1   *)
(* there and a page is set to 0 when its mode is left. For a mode: it      *)
(* takes over only registers that hold the text's value whenever it is     *)
(* set. For the selections: every call places a whole number, no other     *)
(* call touches it, and restorestate repeats the calls.                    *)
(***************************************************************************)
EXTENDS CardInvariant, TLAPS

(* A placement gives its targets 0 or 1 and leaves the rest alone.         *)
LEMMA PlacedAt ==
  ASSUME NEW h, NEW placement, NEW number, NEW u \in DOMAIN h
  PROVE  /\ DOMAIN Placed(h, placement, number) = DOMAIN h
         /\ u \notin Targets(placement) => Placed(h, placement, number)[u] = h[u]
         /\ (/\ u \in Targets(placement)
             /\ \A p \in placement : p[2] = u => p[1] # -2 /\ p[1] \notin number)
            => Placed(h, placement, number)[u] = "0"
<1>1. ASSUME \A p \in placement : p[2] = u => p[1] # -2 /\ p[1] \notin number
      PROVE  u \notin Ones(placement, number)
  BY <1>1 DEF Ones
<1> QED  BY <1>1 DEF Placed, Bit

(* No function of a driver changes what registers there are.               *)
LEMMA SameRegisters ==
  ASSUME NEW h
  PROVE  /\ DOMAIN setregs(h) = DOMAIN h /\ DOMAIN setmodeVGA(h) = DOMAIN h
         /\ DOMAIN linear(h) = DOMAIN h
         /\ \A m : DOMAIN setmode(h, m) = DOMAIN h
         /\ \A p : DOMAIN setpage(h, p) = DOMAIN h
         /\ \A pl, n : DOMAIN Placed(h, pl, n) = DOMAIN h
BY DEF setregs, setmodeVGA, linear, setmode, setpage, Placed

LEMMA SameInMode ==
  /\ DOMAIN Page0(hw) = DOMAIN hw /\ DOMAIN Leave(hw) = DOMAIN hw
  /\ \A m : DOMAIN ToGraphics(m) = DOMAIN hw
<1>1. DOMAIN Page0(hw) = DOMAIN hw
  BY SameRegisters DEF Page0
<1>2. DOMAIN Leave(hw) = DOMAIN hw
  BY <1>1, SameRegisters DEF Leave
<1>3. \A m : DOMAIN ToGraphics(m) = DOMAIN hw
  BY <1>2, SameRegisters DEF ToGraphics
<1> QED  BY <1>1, <1>2, <1>3

-----------------------------------------------------------------------------
(* Types and notes.                                                        *)

(* While the driver is the same, all that speaks of it is.                 *)
LEMMA SameDriver ==
  ASSUME UNCHANGED driver
  PROVE  /\ D' = D /\ Selects' = Selects
         /\ Usable("page")' = Usable("page") /\ Usable("start")' = Usable("start")
         /\ Usable("width")' = Usable("width")
         /\ \A m : WidthOf(m)' = WidthOf(m)
BY DEF D, Selects, Usable, WidthOf, SVGA

LEMMA NumbersTyped ==
  ASSUME TypeOK
  PROVE  /\ Usable("page") \in SUBSET Nat /\ Usable("start") \in SUBSET Nat
         /\ Usable("width") \in SUBSET Nat
         /\ \A m : WidthOf(m) \in SUBSET Nat
         /\ \A p \in Patterns : p \in SUBSET Nat
<1>1. D.range \in [{"start", "width", "page"} -> SUBSET Nat]
  BY CardAssumption DEF TypeOK, D
<1>2. /\ D.range["page"] \in SUBSET Nat /\ D.range["start"] \in SUBSET Nat
      /\ D.range["width"] \in SUBSET Nat
  BY <1>1
<1>3. \A m : WidthOf(m) \in SUBSET Nat
  BY <1>2, CardAssumption DEF WidthOf, SVGA
<1> QED  BY <1>2, <1>3, CardAssumption DEF Usable, Allowed

LEMMA InitBase == Init => TypeOK /\ Noted /\ Awake
<1> SUFFICES ASSUME Init PROVE TypeOK /\ Noted /\ Awake
  OBVIOUS
<1>1. TypeOK /\ Awake
  BY DEF Init, TypeOK, Notes, Notices, Awake
<1>2. ~SVGA(Mode)
  BY <1>1, CardAssumption DEF Init, Mode, SVGA, TEXT
<1>3. WidthOf(Mode) = {}
  BY <1>2 DEF WidthOf
<1> QED  BY <1>1, <1>2, <1>3 DEF Init, Noted, Notes

LEMMA SetmodeBase ==
  ASSUME TypeOK, Noted, NEW m \in Modes \cup {TEXT, VGA}, vga_setmode(m)
  PROVE  TypeOK' /\ Noted' /\ Awake' /\ Mode' = m
<1>1. /\ driver' = driver /\ saved' = saved /\ Awake /\ CM' = m
      /\ lib' = [Fresh(m) EXCEPT !.linear = lib.linear] /\ asked' = Fresh(m)
  BY DEF vga_setmode
<1>2. D' = D /\ Usable("page")' = Usable("page") /\ Usable("start")' = Usable("start")
      /\ Usable("width")' = Usable("width") /\ WidthOf(m)' = WidthOf(m)
  BY <1>1, SameDriver
<1>3. /\ Fresh(m) \in Notices /\ Fresh(m).page = None /\ Fresh(m).start = {}
      /\ Fresh(m).width = WidthOf(m)
  <2>1. WidthOf(m) \in SUBSET Nat
    BY NumbersTyped
  <2>2. Notes \in Notices /\ Notes.page = None /\ Notes.start = {}
    BY DEF Notes, Notices
  <2> QED  BY <2>1, <2>2 DEF Fresh, Notices
<1>4. lib.linear \in BOOLEAN
  BY DEF TypeOK, Notices
<1>5. /\ lib' \in Notices /\ asked' \in Notices /\ lib'.page = None /\ lib'.start = {}
      /\ lib'.width = WidthOf(m) /\ lib'.linear = lib.linear
  BY <1>1, <1>3, <1>4 DEF Notices
<1>6. DOMAIN hw' = DOMAIN hw
  <2>1. m = TEXT => DOMAIN ToText = DOMAIN hw
    BY SameInMode, SameRegisters DEF ToText
  <2>2. DOMAIN ToGraphics(m) = DOMAIN hw
    BY SameInMode
  <2>3. DOMAIN setpage(ToGraphics(m), {}) = DOMAIN ToGraphics(m)
    BY SameRegisters
  <2> QED  BY <2>1, <2>2, <2>3 DEF vga_setmode
<1>7. TypeOK'
  BY <1>1, <1>2, <1>5, <1>6 DEF TypeOK
<1>8. Awake' /\ Mode' = m
  BY <1>1 DEF Awake, Mode
<1>9. ~SVGA(m) => WidthOf(m) = {}
  BY DEF WidthOf
<1>10. WidthOf(Mode)' = WidthOf(m) /\ (SVGA(m)' <=> SVGA(m))
  BY <1>2, <1>8 DEF WidthOf, SVGA
<1>11. Noted'
  BY <1>2, <1>5, <1>8, <1>9, <1>10 DEF Noted, SVGA
<1> QED  BY <1>7, <1>8, <1>11

LEMMA CallBase ==
  ASSUME TypeOK, Noted,
         \/ \E p \in Patterns : \/ vga_setpage(p) \/ vga_setdisplaystart(p)
                                \/ vga_setlogicalwidth(p)
         \/ vga_setlinearaddressing
  PROVE  TypeOK' /\ Noted' /\ Awake' /\ Mode' = CM /\ SVGA(CM)
<1>1. UNCHANGED <<driver, CM, saved>> /\ Awake /\ SVGA(CM)
  BY DEF vga_setpage, vga_setdisplaystart, vga_setlogicalwidth, vga_setlinearaddressing
<1>2. D' = D /\ Usable("page")' = Usable("page") /\ Usable("start")' = Usable("start")
      /\ Usable("width")' = Usable("width") /\ WidthOf(CM)' = WidthOf(CM)
  <2>1. \A m : WidthOf(m)' = WidthOf(m)
    BY <1>1, SameDriver
  <2>2. WidthOf(CM)' = WidthOf(CM)
    BY <1>1 DEF WidthOf, SVGA, D
  <2> QED  BY <1>1, <2>2, SameDriver
<1>3. Awake' /\ Mode' = CM /\ Mode = CM
  BY <1>1 DEF Awake, Mode
<1>4. lib \in Notices /\ asked \in Notices
  BY DEF TypeOK
<1>5. ASSUME DOMAIN hw' = DOMAIN hw, lib' \in Notices, asked' \in Notices
      PROVE  TypeOK'
  BY <1>1, <1>2, <1>5 DEF TypeOK
<1>6. CASE \E p \in Patterns : vga_setpage(p)
  <2>1. PICK pattern \in Patterns : vga_setpage(pattern)
    BY <1>6
  <2> DEFINE p == pattern \cap Usable("page")
  <2>2. /\ lib' = [lib EXCEPT !.page = p] /\ asked' = [asked EXCEPT !.page = p]
        /\ p \in SUBSET Nat /\ p \subseteq Usable("page") /\ DOMAIN hw' = DOMAIN hw
    BY <2>1, NumbersTyped, SameRegisters DEF vga_setpage
  <2> HIDE DEF p
  <2>3. lib' \in Notices /\ asked' \in Notices
    BY <1>4, <2>2 DEF Notices
  <2>4. /\ lib'.page = p /\ lib'.start = lib.start /\ lib'.width = lib.width
        /\ lib'.linear = lib.linear
    BY <1>4, <2>2 DEF Notices
  <2> QED  BY <1>1, <1>2, <1>3, <1>5, <2>2, <2>3, <2>4 DEF Noted
<1>7. CASE \E p \in Patterns : vga_setdisplaystart(p)
  <2>1. PICK pattern \in Patterns : vga_setdisplaystart(pattern)
    BY <1>7
  <2> DEFINE a == pattern \cap Usable("start")
  <2>2. /\ lib' = [lib EXCEPT !.start = a] /\ asked' = [asked EXCEPT !.start = a]
        /\ a \in SUBSET Nat /\ a \subseteq Usable("start") /\ DOMAIN hw' = DOMAIN hw
    BY <2>1, NumbersTyped, SameRegisters DEF vga_setdisplaystart
  <2> HIDE DEF a
  <2>3. lib' \in Notices /\ asked' \in Notices
    BY <1>4, <2>2 DEF Notices
  <2>4. /\ lib'.page = lib.page /\ lib'.start = a /\ lib'.width = lib.width
        /\ lib'.linear = lib.linear
    BY <1>4, <2>2 DEF Notices
  <2> QED  BY <1>1, <1>2, <1>3, <1>5, <2>2, <2>3, <2>4 DEF Noted
<1>8. CASE \E p \in Patterns : vga_setlogicalwidth(p)
  <2>1. PICK pattern \in Patterns : vga_setlogicalwidth(pattern)
    BY <1>8
  <2> DEFINE w == pattern \cap Usable("width")
  <2>0. /\ lib' = [lib EXCEPT !.width = w] /\ asked' = [asked EXCEPT !.width = w]
         /\ w # {} /\ hw' = Placed(hw, D.setlogicalwidth, w)
    BY <2>1 DEF vga_setlogicalwidth
  <2>2. w \in SUBSET Nat /\ w \subseteq Usable("width")
    BY NumbersTyped
  <2>5. DOMAIN hw' = DOMAIN hw
    BY <2>0 DEF Placed
  <2> HIDE DEF w
  <2>3. lib' \in Notices /\ asked' \in Notices
    BY <1>4, <2>0, <2>2 DEF Notices
  <2>4. /\ lib'.page = lib.page /\ lib'.start = lib.start /\ lib'.width = w
        /\ lib'.linear = lib.linear
    BY <1>4, <2>0 DEF Notices
  <2>6. lib'.width # {} /\ lib'.width \subseteq Usable("width")'
    BY <1>2, <2>0, <2>2, <2>4
  <2> QED  BY <1>1, <1>2, <1>3, <1>5, <2>3, <2>4, <2>5, <2>6 DEF Noted
<1>9. CASE vga_setlinearaddressing
  <2>1. /\ lib' = [lib EXCEPT !.linear = TRUE] /\ asked' = [asked EXCEPT !.linear = TRUE]
        /\ DOMAIN hw' = DOMAIN hw /\ D.linear # {}
    BY <1>9, SameRegisters DEF vga_setlinearaddressing
  <2>2. lib' \in Notices /\ asked' \in Notices
    BY <1>4, <2>1 DEF Notices
  <2>3. /\ lib'.page = lib.page /\ lib'.start = lib.start /\ lib'.width = lib.width
    BY <1>4, <2>1 DEF Notices
  <2> QED  BY <1>1, <1>2, <1>3, <1>5, <2>1, <2>2, <2>3 DEF Noted
<1> QED  BY <1>6, <1>7, <1>8, <1>9, <1>1, <1>3

LEMMA AwayBase ==
  ASSUME TypeOK, Noted, flipaway
  PROVE  TypeOK' /\ Noted' /\ ~Awake' /\ Mode' = CM /\ Mode = CM
<1>1. /\ driver' = driver /\ lib' = lib /\ asked' = asked /\ CM' = TEXT
      /\ saved' = [mode |-> CM, lib |-> lib] /\ hw' = ToText /\ Awake
      /\ CM \in Modes \cup {VGA}
  BY DEF flipaway, TypeOK
<1>2. D' = D /\ Usable("page")' = Usable("page") /\ Usable("start")' = Usable("start")
      /\ Usable("width")' = Usable("width") /\ WidthOf(CM)' = WidthOf(CM)'
  BY <1>1, SameDriver
<1>3. saved'.mode = CM /\ saved'.lib = lib
  BY <1>1
<1>4. ~Awake' /\ Mode' = CM /\ Mode = CM
  BY <1>1, <1>3, CardAssumption DEF Awake, NULL, Mode, TEXT, VGA
<1>5. DOMAIN hw' = DOMAIN hw
  BY <1>1, SameInMode, SameRegisters DEF ToText
<1>6. TypeOK'
  BY <1>1, <1>2, <1>5 DEF TypeOK
<1>7. WidthOf(Mode)' = WidthOf(Mode)
  BY <1>1, <1>4 DEF WidthOf, SVGA, D
<1> QED  BY <1>1, <1>2, <1>3, <1>4, <1>6, <1>7 DEF Noted, SVGA

LEMMA BackBase ==
  ASSUME TypeOK, Noted, flipback
  PROVE  /\ TypeOK' /\ Noted' /\ Awake' /\ Mode' = saved.mode /\ Mode = saved.mode
         /\ CM' = saved.mode /\ CM = TEXT /\ saved.lib = lib /\ ~SVGA(CM)
         /\ saved.mode \in Modes \cup {VGA}
         /\ PageAgain # None => PageAgain \subseteq Usable("page") /\ SVGA(saved.mode)
         /\ lib' = [lib EXCEPT !.page = PageAgain]
<1>1. /\ driver' = driver /\ asked' = asked /\ CM' = saved.mode /\ saved' = NULL
      /\ hw' = StartAgain(Page(Width(Copied(Linear(ToGraphics(saved.mode))))))
      /\ lib' = [saved.lib EXCEPT !.page = PageAgain] /\ ~Awake
  BY DEF flipback
<1>2. D' = D /\ Usable("page")' = Usable("page") /\ Usable("start")' = Usable("start")
      /\ Usable("width")' = Usable("width") /\ \A m : WidthOf(m)' = WidthOf(m)
  BY <1>1, SameDriver
<1>3. saved.mode \in Modes \cup {VGA} /\ lib \in Notices /\ saved.lib = lib /\ CM = TEXT
  BY <1>1 DEF TypeOK, Awake, Noted
<1>4. Awake' /\ Mode' = saved.mode /\ Mode = saved.mode /\ ~SVGA(CM)
  BY <1>1, <1>3, CardAssumption DEF Awake, Mode, SVGA, TEXT
<1>5. PageAgain # None => PageAgain \subseteq Usable("page") /\ SVGA(saved.mode)
  BY <1>3, <1>4 DEF PageAgain, Last, Banked, Noted
<1>6. PageAgain = None \/ PageAgain \in SUBSET Nat
  BY <1>5, NumbersTyped
<1>7. lib' \in Notices
  BY <1>1, <1>3, <1>6 DEF Notices
<1>8. /\ lib'.page = PageAgain /\ lib'.start = lib.start /\ lib'.width = lib.width
      /\ lib'.linear = lib.linear
  BY <1>1, <1>3 DEF Notices
<1>9. DOMAIN hw' = DOMAIN hw
  <2> DEFINE g == ToGraphics(saved.mode)
  <2>1. DOMAIN g = DOMAIN hw
    BY SameInMode
  <2> HIDE DEF g
  <2>2. DOMAIN Linear(g) = DOMAIN hw
    BY <2>1, SameRegisters DEF Linear
  <2>3. DOMAIN Copied(Linear(g)) = DOMAIN hw
    BY <2>2, SameRegisters DEF Copied
  <2>4. DOMAIN Width(Copied(Linear(g))) = DOMAIN hw
    BY <2>3, SameRegisters DEF Width
  <2>5. DOMAIN Page(Width(Copied(Linear(g)))) = DOMAIN hw
    BY <2>4, SameRegisters DEF Page
  <2>6. DOMAIN StartAgain(Page(Width(Copied(Linear(g))))) = DOMAIN hw
    BY <2>5 DEF StartAgain, Placed
  <2> QED  BY <1>1, <2>6 DEF g
<1>10. TypeOK'
  BY <1>1, <1>2, <1>3, <1>7, <1>9 DEF TypeOK
<1>11. ~SVGA(saved.mode) => PageAgain = None
  BY <1>5
<1>12. WidthOf(Mode)' = WidthOf(Mode)
  BY <1>1, <1>4 DEF WidthOf, SVGA, D
<1>13. Noted'
  BY <1>2, <1>4, <1>5, <1>8, <1>11, <1>12 DEF Noted, SVGA
<1> QED  BY <1>1, <1>3, <1>4, <1>5, <1>10, <1>13

LEMMA StutterBase == ASSUME TypeOK, Noted, UNCHANGED vars PROVE TypeOK' /\ Noted'
<1>1. /\ driver' = driver /\ hw' = hw /\ CM' = CM /\ lib' = lib
      /\ saved' = saved /\ asked' = asked
  BY DEF vars
<1>2. D' = D /\ Usable("page")' = Usable("page") /\ Usable("start")' = Usable("start")
      /\ Usable("width")' = Usable("width")
  BY <1>1, SameDriver
<1>3. Awake' = Awake /\ Mode' = Mode /\ WidthOf(Mode)' = WidthOf(Mode)
  BY <1>1, <1>2 DEF Awake, Mode, WidthOf, SVGA
<1>4. TypeOK'
  BY <1>1, <1>2 DEF TypeOK
<1> QED  BY <1>1, <1>2, <1>3, <1>4 DEF Noted, SVGA

-----------------------------------------------------------------------------
(* The text.                                                               *)

(* What a driver that restores does to a loose register.                   *)
LEMMA LooseAt ==
  ASSUME Restores(D), NEW h, DOMAIN h = Extended(D), NEW u \in Loose(D)
  PROVE  /\ setregs(h)[u] = h[u] /\ setmodeVGA(h)[u] = h[u] /\ linear(h)[u] = h[u]
         /\ \A m : setmode(h, m)[u] = h[u]
         /\ \A w : Placed(h, D.setlogicalwidth, w)[u] = h[u]
<1>1. /\ u \in DOMAIN h /\ ~IsStd(u) /\ u \notin D.setregs
      /\ u \notin D.vga \cup D.linear \cup Targets(D.setlogicalwidth)
  BY DEF Restores, Loose
<1>2. ~Start(u)
  BY <1>1 DEF Start, IsStd, Bytes
<1>3. setregs(h)[u] = h[u] /\ setmodeVGA(h)[u] = h[u] /\ linear(h)[u] = h[u]
  BY <1>1, <1>2 DEF setregs, setmodeVGA, linear
<1>4. \A m : setmode(h, m)[u] = h[u]
  BY <1>1 DEF setmode
<1>5. \A w : Placed(h, D.setlogicalwidth, w)[u] = h[u]
  BY <1>1, PlacedAt
<1> QED  BY <1>3, <1>4, <1>5

(* Page 0 clears a loose register of the page, and no page any other.      *)
LEMMA PageAt ==
  ASSUME Restores(D), NEW h, DOMAIN h = Extended(D), NEW u \in Loose(D)
  PROVE  /\ u \in Targets(D.setpage) => setpage(h, {})[u] = "0" /\ u \in Selects
         /\ u \notin Targets(D.setpage) => \A p : setpage(h, p)[u] = h[u]
<1>1. u \in DOMAIN h /\ \A p \in D.setpage : p[2] = u => p[1] # -2
  BY DEF Restores, Loose
<1> QED  BY <1>1, PlacedAt DEF setpage, Selects

(* A start the program may ask for leaves a loose register as it is or 0.  *)
LEMMA StartAt ==
  ASSUME Restores(D), NEW h, DOMAIN h = Extended(D), NEW u \in Loose(D),
         NEW a, a \subseteq Usable("start")
  PROVE  LET v == Placed(h, D.setdisplaystart, a)[u]
         IN  v = h[u] \/ (v = "0" /\ u \in Selects /\ u \notin Targets(D.setpage))
<1>1. /\ u \in DOMAIN h /\ u \notin Targets(D.setpage) \cap Targets(D.setdisplaystart)
      /\ \A p \in D.setdisplaystart : p[2] = u => p[1] # -2 /\ p[1] \notin a
  BY DEF Restores, Loose, Usable
<1>2. CASE u \in Targets(D.setdisplaystart)
  BY <1>1, <1>2, PlacedAt DEF Selects
<1>3. CASE u \notin Targets(D.setdisplaystart)
  BY <1>1, <1>3, PlacedAt
<1> QED  BY <1>2, <1>3

(* The parts of vga_setmode on a loose register.                           *)

(* Where the page is forgotten, or 0, the register is as the text's.       *)
LEMMA Page0At ==
  ASSUME TypeOK, TextInv, NEW u \in Loose(D)
  PROVE  /\ DOMAIN Page0(hw) = DOMAIN hw
         /\ Page0(hw)[u] = "text" \/ (Page0(hw)[u] = "0" /\ u \in Selects)
<1>1. DOMAIN hw = Extended(D) /\ Restores(D)
      /\ (AsText(u) \/ (SVGA(CM) /\ lib.page # {} /\ u \in Targets(D.setpage)))
  BY DEF TextInv, TypeOK, LooseAsText
<1>2. DOMAIN Page0(hw) = DOMAIN hw
  BY SameInMode
<1>3. CASE SVGA(CM) /\ lib.page # {}
  <2>1. Page0(hw) = setpage(hw, {})
    BY <1>3 DEF Page0
  <2>2. CASE u \in Targets(D.setpage)
    BY <1>1, <1>2, <2>1, <2>2, PageAt
  <2>3. CASE u \notin Targets(D.setpage)
    BY <1>1, <1>2, <2>1, <2>3, PageAt DEF AsText
  <2> QED  BY <2>2, <2>3, <1>2
<1>4. CASE ~(SVGA(CM) /\ lib.page # {})
  BY <1>1, <1>2, <1>4 DEF Page0, AsText
<1> QED  BY <1>3, <1>4

(* vga_setmode(TEXT): the text's registers, and as good for the loose.     *)
LEMMA ToTextAt ==
  ASSUME TypeOK, TextInv
  PROVE  /\ DOMAIN ToText = DOMAIN hw
         /\ \A u \in DOMAIN hw : ToText[u] = "text" \/ (ToText[u] = "0" /\ u \in Selects)
<1> DEFINE h0 == Page0(hw)
           h1 == setmodeVGA(h0)
           h2 == setregs(h1)
<1>1. ToText = [u \in DOMAIN h2 |-> IF IsStd(u) THEN "text" ELSE h2[u]]
  BY DEF ToText
<1>2. DOMAIN hw = Extended(D) /\ Restores(D)
  BY DEF TextInv, TypeOK
<1>3. DOMAIN h0 = DOMAIN hw
  BY SameInMode
<1>4. DOMAIN h1 = DOMAIN hw /\ DOMAIN h2 = DOMAIN hw
  BY <1>3, SameRegisters
<1> HIDE DEF h0, h1, h2
<1>5. DOMAIN ToText = DOMAIN hw
  BY <1>1, <1>4
<1>6. ASSUME NEW u \in DOMAIN hw
      PROVE  ToText[u] = "text" \/ (ToText[u] = "0" /\ u \in Selects)
  <2>1. CASE IsStd(u)
    BY <1>1, <1>4, <2>1
  <2>2. CASE ~IsStd(u) /\ u \in D.saveregs \cap D.setregs
    <3>1. h2[u] = "text"
      BY <2>2, <1>4 DEF h2, setregs
    <3> QED  BY <1>1, <1>4, <2>2, <3>1
  <2>3. CASE u \in Loose(D)
    <3>1. h0[u] = "text" \/ (h0[u] = "0" /\ u \in Selects)
      BY <2>3, Page0At DEF h0
    <3>2. h1[u] = h0[u]
      BY <1>2, <1>3, <2>3, LooseAt DEF h1
    <3>3. h2[u] = h1[u]
      BY <1>2, <1>4, <2>3, LooseAt DEF h2
    <3> QED  BY <1>1, <1>4, <3>1, <3>2, <3>3
  <2> QED  BY <1>2, <2>1, <2>2, <2>3 DEF Loose
<1> QED  BY <1>5, <1>6

(* A mode leaves a loose register as page 0 of the one before left it.     *)
LEMMA ToGraphicsAt ==
  ASSUME TypeOK, TextInv, NEW m, NEW u \in Loose(D)
  PROVE  /\ DOMAIN ToGraphics(m) = DOMAIN hw
         /\ ToGraphics(m)[u] = "text" \/ (ToGraphics(m)[u] = "0" /\ u \in Selects)
<1>1. DOMAIN hw = Extended(D) /\ Restores(D)
  BY DEF TextInv, TypeOK
<1>2. DOMAIN Leave(hw) = DOMAIN hw /\ DOMAIN ToGraphics(m) = DOMAIN hw
  BY SameInMode
<1>3. Leave(hw)[u] = Page0(hw)[u]
  <2>1. CASE SVGA(CM)
    BY <2>1, <1>1, Page0At, LooseAt DEF Leave
  <2>2. CASE ~SVGA(CM)
    BY <2>2 DEF Leave, Page0
  <2> QED  BY <2>1, <2>2
<1>4. ToGraphics(m)[u] = Leave(hw)[u]
  BY <1>1, <1>2, LooseAt DEF ToGraphics
<1> QED  BY <1>2, <1>3, <1>4, Page0At

LEMMA InitText ==
  ASSUME \A d \in DOMAIN Drivers : Restores(Drivers[d])
  PROVE  Init => TextInv
<1> SUFFICES ASSUME Init PROVE TextInv
  OBVIOUS
<1>1. Restores(D)
  BY DEF Init, D
<1>2. \A u \in DOMAIN hw : AsText(u)
  BY DEF Init, AsText
<1>3. DOMAIN hw = Extended(D)
  BY DEF Init
<1> QED  BY <1>1, <1>2, <1>3 DEF TextInv, TextWhole, LooseAsText, Loose

LEMMA SetmodeText ==
  ASSUME TypeOK, Noted, TextInv, NEW m \in Modes \cup {TEXT, VGA}, vga_setmode(m)
  PROVE  TextInv'
<1> USE CardAssumption DEF TEXT, VGA
<1>1. driver' = driver /\ CM' = m
  BY DEF vga_setmode
<1>2. D' = D /\ Selects' = Selects
  BY <1>1, SameDriver
<1>3. DOMAIN hw = Extended(D) /\ Restores(D)
  BY DEF TextInv, TypeOK
<1>4. Restores(D)'
  BY <1>1, <1>3 DEF D, Restores, Allowed, Loose
<1>5. /\ DOMAIN hw' = DOMAIN hw
      /\ \A u \in Loose(D) : hw'[u] = "text" \/ (hw'[u] = "0" /\ u \in Selects)
      /\ m = TEXT => \A u \in DOMAIN hw :
                       hw'[u] = "text" \/ (hw'[u] = "0" /\ u \in Selects)
  <2>1. CASE m = TEXT
    <3>1. hw' = ToText
      BY <2>1 DEF vga_setmode
    <3> QED  BY <3>1, <1>3, ToTextAt DEF Loose
  <2>2. CASE m = VGA
    <3>1. hw' = ToGraphics(m)
      BY <2>2 DEF vga_setmode, SVGA
    <3>2. DOMAIN ToGraphics(m) = DOMAIN hw
      BY SameInMode
    <3> QED  BY <2>2, <3>1, <3>2, ToGraphicsAt
  <2>3. CASE m \in Modes
    <3>1. hw' = setpage(ToGraphics(m), {}) /\ m # TEXT
      BY <2>3 DEF vga_setmode, SVGA
    <3>2. DOMAIN ToGraphics(m) = DOMAIN hw
      BY SameInMode
    <3>3. DOMAIN hw' = DOMAIN hw
      BY <3>1, <3>2, SameRegisters
    <3>4. ASSUME NEW u \in Loose(D)
          PROVE  hw'[u] = "text" \/ (hw'[u] = "0" /\ u \in Selects)
      <4>1. ToGraphics(m)[u] = "text" \/ (ToGraphics(m)[u] = "0" /\ u \in Selects)
        BY ToGraphicsAt
      <4> QED  BY <1>3, <3>1, <3>2, <4>1, PageAt
    <3> QED  BY <3>1, <3>3, <3>4
  <2> QED  BY <2>1, <2>2, <2>3
<1>6. TextWhole' /\ LooseAsText'
  BY <1>1, <1>2, <1>5 DEF TextWhole, LooseAsText, AsText
<1> QED  BY <1>4, <1>6 DEF TextInv

(* A page other than 0 is remembered; 0 leaves nothing. Starts, widths and *)
(* linear memory leave loose registers as good.                            *)
LEMMA CallText ==
  ASSUME TypeOK, Noted, TextInv,
         \/ \E p \in Patterns : \/ vga_setpage(p) \/ vga_setdisplaystart(p)
                                \/ vga_setlogicalwidth(p)
         \/ vga_setlinearaddressing
  PROVE  TextInv'
<1>1. UNCHANGED <<driver, CM>> /\ SVGA(CM)
  BY DEF vga_setpage, vga_setdisplaystart, vga_setlogicalwidth, vga_setlinearaddressing
<1>2. D' = D /\ Selects' = Selects
  BY <1>1, SameDriver
<1>3. DOMAIN hw = Extended(D) /\ Restores(D) /\ lib \in Notices
  BY DEF TextInv, TypeOK
<1>4. Restores(D)'
  BY <1>1, <1>3 DEF D, Restores, Allowed, Loose
<1>5. TextWhole'
  BY <1>1, CardAssumption DEF TextWhole, SVGA, TEXT
<1>6. CASE \E p \in Patterns : vga_setpage(p)
  <2>1. PICK pattern \in Patterns : vga_setpage(pattern)
    BY <1>6
  <2> DEFINE p == pattern \cap Usable("page")
  <2>2. /\ hw' = IF p = lib.page THEN hw ELSE setpage(hw, p)
        /\ lib' = [lib EXCEPT !.page = p]
    BY <2>1 DEF vga_setpage
  <2> HIDE DEF p
  <2>3. lib'.page = p
    BY <1>3, <2>2 DEF Notices
  <2>4. ASSUME NEW u \in Loose(D), p = {} \/ u \notin Targets(D.setpage)
        PROVE  hw'[u] = "text" \/ (hw'[u] = "0" /\ u \in Selects)
    <3>1. CASE p = lib.page
      BY <2>2, <2>4, <3>1 DEF TextInv, LooseAsText, AsText
    <3>2. CASE p # lib.page /\ u \in Targets(D.setpage)
      BY <1>3, <2>2, <2>4, <3>2, PageAt
    <3>3. CASE p # lib.page /\ u \notin Targets(D.setpage)
      <4>1. hw'[u] = hw[u]
        BY <1>3, <2>2, <3>3, PageAt
      <4> QED  BY <3>3, <4>1 DEF TextInv, LooseAsText, AsText
    <3> QED  BY <3>1, <3>2, <3>3
  <2>5. LooseAsText'
    BY <1>1, <1>2, <2>3, <2>4 DEF LooseAsText, AsText, SVGA
  <2> QED  BY <1>4, <1>5, <2>5 DEF TextInv
<1>7. CASE \/ \E p \in Patterns : vga_setdisplaystart(p) \/ vga_setlogicalwidth(p)
           \/ vga_setlinearaddressing
  <2>1. /\ lib'.page = lib.page
        /\ \A u \in Loose(D) : hw'[u] = hw[u] \/ (hw'[u] = "0" /\ u \in Selects)
    <3>1. CASE vga_setlinearaddressing
      <4>1. hw' = linear(hw) /\ lib' = [lib EXCEPT !.linear = TRUE]
        BY <3>1 DEF vga_setlinearaddressing
      <4> QED  BY <1>3, <4>1, LooseAt DEF Notices
    <3>2. CASE \E p \in Patterns : vga_setlogicalwidth(p)
      <4>1. PICK w : hw' = Placed(hw, D.setlogicalwidth, w) /\ lib' = [lib EXCEPT !.width = w]
        BY <3>2 DEF vga_setlogicalwidth
      <4> QED  BY <1>3, <4>1, LooseAt DEF Notices
    <3>3. CASE \E p \in Patterns : vga_setdisplaystart(p)
      <4>1. PICK a \in SUBSET Usable("start") :
              hw' = Placed(hw, D.setdisplaystart, a) /\ lib' = [lib EXCEPT !.start = a]
        BY <3>3 DEF vga_setdisplaystart
      <4>2. ASSUME NEW u \in Loose(D)
            PROVE  hw'[u] = hw[u] \/ (hw'[u] = "0" /\ u \in Selects)
        BY <1>3, <4>1, StartAt
      <4> QED  BY <1>3, <4>1, <4>2 DEF Notices
    <3> QED  BY <1>7, <3>1, <3>2, <3>3
  <2>2. LooseAsText'
    BY <1>1, <1>2, <2>1 DEF TextInv, LooseAsText, AsText, SVGA
  <2> QED  BY <1>4, <1>5, <2>2 DEF TextInv
<1> QED  BY <1>6, <1>7

(* The switch away is vga_setmode(TEXT) with the notes kept.               *)
LEMMA AwayText ==
  ASSUME TypeOK, Noted, TextInv, flipaway
  PROVE  TextInv'
<1>1. driver' = driver /\ CM' = TEXT /\ hw' = ToText
  BY DEF flipaway
<1>2. D' = D /\ Selects' = Selects
  BY <1>1, SameDriver
<1>3. DOMAIN hw = Extended(D) /\ Restores(D)
  BY DEF TextInv, TypeOK
<1>4. /\ DOMAIN hw' = DOMAIN hw
      /\ \A u \in DOMAIN hw : hw'[u] = "text" \/ (hw'[u] = "0" /\ u \in Selects)
  BY <1>1, ToTextAt
<1>5. Restores(D)'
  BY <1>1, <1>3 DEF D, Restores, Allowed, Loose
<1>6. TextWhole' /\ LooseAsText'
  BY <1>1, <1>2, <1>3, <1>4 DEF TextWhole, LooseAsText, AsText, Loose
<1> QED  BY <1>5, <1>6 DEF TextInv

(* The switch back: the mode, then what restorestate selects again. What   *)
(* is left in a loose register is of a page that is remembered again.      *)
LEMMA BackText ==
  ASSUME TypeOK, Noted, TextInv, flipback
  PROVE  TextInv'
<1> DEFINE g0 == ToGraphics(saved.mode)
           g1 == Linear(g0)
           g2 == Copied(g1)
           g3 == Width(g2)
           g4 == Page(g3)
<1>1. driver' = driver /\ CM' = saved.mode /\ hw' = StartAgain(g4)
  BY DEF flipback
<1>2. D' = D /\ Selects' = Selects
  BY <1>1, SameDriver
<1>3. /\ DOMAIN hw = Extended(D) /\ Restores(D) /\ lib \in Notices
      /\ saved.mode \in Modes \cup {VGA} /\ saved.lib = lib
      /\ lib'.page = PageAgain /\ lib.start \subseteq Usable("start")
      /\ PageAgain # None => SVGA(saved.mode)
  BY BackBase DEF TextInv, TypeOK, Notices, Noted
<1>4. DOMAIN g0 = DOMAIN hw
  BY SameInMode
<1>5. DOMAIN g1 = DOMAIN hw
  BY <1>4, SameRegisters DEF Linear
<1>6. DOMAIN g2 = DOMAIN hw
  BY <1>5, SameRegisters DEF Copied
<1>7. DOMAIN g3 = DOMAIN hw
  BY <1>6 DEF Width, Placed
<1>8. DOMAIN g4 = DOMAIN hw
  BY <1>7, SameRegisters DEF Page
<1>9. ASSUME NEW u \in Loose(D)
      PROVE  /\ g1[u] = "text" \/ (g1[u] = "0" /\ u \in Selects)
             /\ g3[u] = g2[u]
             /\ hw'[u] = g4[u] \/ (hw'[u] = "0" /\ u \in Selects)
  <2>1. g0[u] = "text" \/ (g0[u] = "0" /\ u \in Selects)
    BY ToGraphicsAt
  <2>2. g1[u] = g0[u]
    BY <1>3, <1>4, LooseAt DEF Linear
  <2>3. g3[u] = g2[u]
    BY <1>3, <1>6, LooseAt DEF Width
  <2>4. hw'[u] = g4[u] \/ (hw'[u] = "0" /\ u \in Selects)
    BY <1>1, <1>3, <1>8, StartAt DEF StartAgain
  <2> QED  BY <2>1, <2>2, <2>3, <2>4
<1> HIDE DEF g0, g1, g2, g3, g4
<1>10. ASSUME NEW u \in Loose(D),
              ~(SVGA(saved.mode) /\ PageAgain # {} /\ u \in Targets(D.setpage))
       PROVE  g4[u] = "text" \/ (g4[u] = "0" /\ u \in Selects)
  <2>1. CASE u \notin Targets(D.setpage)
    <3>1. g2[u] = g1[u]
      BY <1>3, <1>5, <2>1, PageAt DEF g2, Copied
    <3>2. g4[u] = g3[u]
      BY <1>3, <1>7, <2>1, PageAt DEF g4, Page
    <3> QED  BY <3>1, <3>2, <1>9
  <2>2. CASE u \in Targets(D.setpage) /\ SVGA(saved.mode)
    <3>1. PageAgain = {} /\ PageAgain # None
      BY <1>10, <2>2 DEF None
    <3>2. g4 = setpage(g3, {})
      BY <3>1 DEF g4, Page
    <3> QED  BY <1>3, <1>7, <2>2, <3>2, PageAt
  <2>3. CASE ~SVGA(saved.mode)
    <3>1. ~Banked /\ PageAgain = None
      BY <1>3, <2>3 DEF Banked
    <3>2. g2 = g1 /\ g4 = g3
      BY <3>1 DEF g2, g4, Copied, Page
    <3> QED  BY <3>2, <1>9
  <2> QED  BY <2>1, <2>2, <2>3
<1>11. LooseAsText'
  BY <1>1, <1>2, <1>3, <1>9, <1>10 DEF LooseAsText, AsText, SVGA
<1>12. TextWhole'
  BY <1>1, <1>3, CardAssumption DEF TextWhole, TEXT, VGA
<1>13. Restores(D)'
  BY <1>1, <1>3 DEF D, Restores, Allowed, Loose
<1> QED  BY <1>11, <1>12, <1>13 DEF TextInv

LEMMA StutterText == ASSUME TextInv, UNCHANGED vars PROVE TextInv'
<1>1. driver' = driver /\ hw' = hw /\ CM' = CM /\ lib' = lib
  BY DEF vars
<1>2. D' = D /\ Selects' = Selects
  BY <1>1, SameDriver
<1>3. Restores(D)'
  BY <1>1 DEF D, Restores, Allowed, Loose, TextInv
<1> QED  BY <1>1, <1>2, <1>3 DEF TextInv, TextWhole, LooseAsText, AsText, SVGA

-----------------------------------------------------------------------------
(* A mode.                                                                 *)

(* What page, start and width calls write to a fixed register is 0.        *)
LEMMA FixedPlaced ==
  ASSUME TypeOK, NEW u \in Fixed(D), NEW h, DOMAIN h = Extended(D),
         NEW pl \in {D.setpage, D.setdisplaystart, D.setlogicalwidth, D.mode.width},
         NEW n, -1 \notin n
  PROVE  Placed(h, pl, n)[u] = IF u \in Targets(pl) THEN "0" ELSE h[u]
<1>1. u \in DOMAIN h /\ \A p \in pl : p[2] = u => p[1] = -1
  BY DEF Fixed, Selected
<1>2. \A p \in pl : p[2] = u => p[1] # -2 /\ p[1] \notin n
  BY <1>1
<1> QED  BY <1>1, <1>2, PlacedAt

LEMMA FixedLinear ==
  ASSUME NEW u \in Fixed(D), NEW h, DOMAIN h = Extended(D)
  PROVE  linear(h)[u] = h[u]
BY DEF linear, Fixed, Selected

(* A mode sets a fixed register the same whatever it was before, if what   *)
(* it takes over is the text's; and gives 0 to what is Zeroed.             *)
LEMMA SetmodeFixed ==
  ASSUME TypeOK, NEW u \in Fixed(D), NEW h, DOMAIN h = Extended(D),
         NEW g, DOMAIN g = Extended(D), NEW m \in Modes
  PROVE  /\ u \notin Targets(D.setpage) /\ (u \in Taken(D) => h[u] = g[u])
              => setmode(h, m)[u] = setmode(g, m)[u]
         /\ Reached(D, u) /\ Zeroed(D, u) => setmode(h, m)[u] = "0"
         /\ ~Reached(D, u) => setmode(h, m)[u] = h[u]
<1>1. u \in DOMAIN h /\ u \in DOMAIN g /\ u \notin D.mode.raw
  BY DEF Fixed
<1>2. setmode(h, m)[u] = IF Reached(D, u) THEN Ready(h, m)[u] ELSE h[u]
  BY <1>1 DEF setmode, Reached
<1>3. setmode(g, m)[u] = IF Reached(D, u) THEN Ready(g, m)[u] ELSE g[u]
  BY <1>1 DEF setmode, Reached
<1>4. Reached(D, u) /\ u \notin Targets(D.setpage) /\ (u \in Taken(D) => h[u] = g[u])
        => Ready(h, m)[u] = Ready(g, m)[u]
  BY <1>1 DEF Ready, Taken, Made
<1>5. ~Reached(D, u) /\ u \notin Targets(D.setpage) => u \in Taken(D)
  BY DEF Taken
<1>6. Zeroed(D, u) => Ready(h, m)[u] = "0"
  <2>1. u \in Targets(D.mode.width) => u \notin Ones(D.mode.width, WidthOf(m))
    <3>1. \A p \in D.mode.width : p[2] = u => p[1] = -1
      BY DEF Fixed, Selected
    <3>2. WidthOf(m) \in SUBSET Nat
      BY NumbersTyped
    <3> QED  BY <3>1, <3>2 DEF Ones
  <2> QED  BY <1>1, <2>1 DEF Zeroed, Ready, Bit
<1> QED  BY <1>2, <1>3, <1>4, <1>5, <1>6

LEMMA WholeAt ==
  ASSUME TypeOK, NEW u \in Fixed(D), NEW m \in Modes
  PROVE  /\ u \in Targets(D.setpage) => Whole(m)[u] = "0"
         /\ u \notin Targets(D.setpage) =>
              Whole(m)[u] = setmode([r \in DOMAIN hw |-> "text"], m)[u]
         /\ u \notin Targets(D.setpage) /\ Reached(D, u) /\ Zeroed(D, u) => Whole(m)[u] = "0"
         /\ u \in Taken(D) /\ ~Reached(D, u) => Whole(m)[u] = "text"
<1> DEFINE t == [r \in DOMAIN hw |-> "text"]
<1>1. DOMAIN hw = Extended(D) /\ DOMAIN t = Extended(D) /\ u \in Extended(D)
  BY DEF TypeOK, Fixed
<1>2. DOMAIN setmode(t, m) = Extended(D)
  BY <1>1, SameRegisters
<1>3. Whole(m)[u] = IF u \in Targets(D.setpage) THEN "0" ELSE setmode(t, m)[u]
  <2> DEFINE s == setmode(t, m)
  <2>1. Whole(m) = Placed(s, D.setpage, {})
    BY DEF Whole, setpage
  <2> HIDE DEF s
  <2> QED  BY <1>2, <2>1, FixedPlaced DEF s
<1>4. t[u] = "text"
  BY <1>1
<1> HIDE DEF t
<1>5. Reached(D, u) /\ Zeroed(D, u) => setmode(t, m)[u] = "0"
  BY <1>1, SetmodeFixed
<1>6. ~Reached(D, u) => setmode(t, m)[u] = "text"
  BY <1>1, <1>4, SetmodeFixed
<1>7. u \in Taken(D) => u \notin Targets(D.setpage)
  BY DEF Taken
<1> QED  BY <1>3, <1>5, <1>6, <1>7 DEF t

(* What a mode will take over is the text's on the way out of another.     *)
LEMMA TakenLeft ==
  ASSUME TypeOK, ModeInv, NEW u \in Taken(D)
  PROVE  /\ Page0(hw)[u] = hw[u] /\ Leave(hw)[u] = "text"
         /\ setmodeVGA(Leave(hw))[u] = "text" /\ ToText[u] = "text"
<1>1. /\ u \in Fixed(D) /\ u \notin Targets(D.setpage) /\ u \notin D.vga
      /\ u \in DOMAIN hw /\ ~IsStd(u) /\ (u \in D.setregs => u \in D.saveregs)
  BY DEF Taken, ModeInv, Steady, TypeOK, Fixed, Reached
<1>2. ~Start(u)
  BY <1>1 DEF Start, IsStd, Bytes
<1>3. DOMAIN Page0(hw) = DOMAIN hw /\ DOMAIN Leave(hw) = DOMAIN hw
  BY SameInMode
<1>4. Page0(hw)[u] = hw[u]
  BY <1>1, PlacedAt DEF Page0, setpage
<1>5. u \notin D.setregs => hw[u] = "text"
  <2>1. CASE SVGA(CM)
    BY <1>1, <2>1, WholeAt DEF ModeInv, SVGA, Reached
  <2>2. CASE ~SVGA(CM)
    BY <2>2 DEF ModeInv
  <2> QED  BY <2>1, <2>2
<1>6. Leave(hw)[u] = "text"
  <2>1. CASE SVGA(CM)
    BY <1>1, <1>3, <1>4, <1>5, <2>1 DEF Leave, setregs
  <2>2. CASE ~SVGA(CM)
    BY <1>4, <2>2 DEF Leave, ModeInv
  <2> QED  BY <2>1, <2>2
<1>7. setmodeVGA(Leave(hw))[u] = "text"
  BY <1>1, <1>2, <1>3, <1>6 DEF setmodeVGA
<1>8. ToText[u] = "text"
  <2> DEFINE h == setmodeVGA(Page0(hw))
  <2>1. DOMAIN h = DOMAIN hw /\ h[u] = hw[u]
    BY <1>1, <1>2, <1>3, <1>4 DEF setmodeVGA
  <2> HIDE DEF h
  <2>2. DOMAIN setregs(h) = DOMAIN hw /\ setregs(h)[u] = "text"
    BY <1>1, <1>5, <2>1 DEF setregs
  <2>3. ToText = [r \in DOMAIN setregs(h) |-> IF IsStd(r) THEN "text" ELSE setregs(h)[r]]
    BY DEF ToText, h
  <2> QED  BY <1>1, <2>2, <2>3
<1> QED  BY <1>4, <1>6, <1>7, <1>8

(* A mode of the driver set out of any other, but for the page.            *)
LEMMA ToGraphicsFixed ==
  ASSUME TypeOK, ModeInv, NEW m \in Modes, NEW u \in Fixed(D)
  PROVE  /\ u \notin Targets(D.setpage) => ToGraphics(m)[u] = Whole(m)[u]
         /\ u \in Targets(D.setpage) /\ D.linear # {} /\ Reached(D, u) => ToGraphics(m)[u] = "0"
         /\ ~Reached(D, u) => ToGraphics(m)[u] = Leave(hw)[u]
<1>1. ToGraphics(m) = setmode(Leave(hw), m)
  BY DEF ToGraphics, SVGA
<1>2. DOMAIN Leave(hw) = Extended(D) /\ DOMAIN hw = Extended(D)
  BY SameInMode DEF TypeOK
<1> DEFINE h == Leave(hw)
           t == [r \in DOMAIN hw |-> "text"]
<1>3. DOMAIN t = Extended(D) /\ (u \in Taken(D) => h[u] = t[u])
  BY <1>2, TakenLeft DEF Taken, Fixed
<1> HIDE DEF h, t
<1>4. u \notin Targets(D.setpage) => setmode(h, m)[u] = setmode(t, m)[u]
  BY <1>2, <1>3, SetmodeFixed DEF h
<1>5. u \notin Targets(D.setpage) => Whole(m)[u] = setmode(t, m)[u]
  BY WholeAt DEF t
<1>6. u \in Targets(D.setpage) /\ D.linear # {} /\ Reached(D, u) => setmode(h, m)[u] = "0"
  <2>1. u \in Targets(D.setpage) /\ D.linear # {} /\ Reached(D, u) => Zeroed(D, u)
    BY DEF ModeInv, Steady
  <2> QED  BY <1>2, <2>1, SetmodeFixed DEF h
<1>7. ~Reached(D, u) => setmode(h, m)[u] = h[u]
  BY <1>2, SetmodeFixed DEF h
<1> QED  BY <1>1, <1>4, <1>5, <1>6, <1>7 DEF h

LEMMA SteadySame == ASSUME Steady(D), UNCHANGED driver
                    PROVE  Steady(D)' /\ Fixed(D)' = Fixed(D) /\ Taken(D)' = Taken(D)
BY DEF D, Steady, Fixed, Taken, Selected, Extended, Reached, Zeroed, Made, WidthTargets,
       Allowed

LEMMA WholeSame ==
  ASSUME UNCHANGED driver, DOMAIN hw' = DOMAIN hw
  PROVE  \A m : Whole(m)' = Whole(m)
BY DEF Whole, setpage, setmode, Ready, WidthOf, SVGA, Placed, D

LEMMA InitMode ==
  ASSUME \A d \in DOMAIN Drivers : Steady(Drivers[d])
  PROVE  Init => ModeInv
<1> SUFFICES ASSUME Init PROVE ModeInv
  OBVIOUS
<1>1. Steady(D)
  BY DEF Init, D
<1>2. ~SVGA(CM) /\ ~SVGA(Mode)
  BY InitBase, CardAssumption DEF Init, Mode, SVGA, TEXT
<1>3. \A u \in Taken(D) : hw[u] = "text"
  BY DEF Init, Taken, Fixed
<1> QED  BY <1>1, <1>2, <1>3 DEF ModeInv

LEMMA SetmodeMode ==
  ASSUME TypeOK, Noted, ModeInv, NEW m \in Modes \cup {TEXT, VGA}, vga_setmode(m)
  PROVE  ModeInv'
<1>1. /\ driver' = driver /\ CM' = m /\ TypeOK' /\ Mode' = m
      /\ hw' = IF m = TEXT THEN ToText
               ELSE IF SVGA(m) THEN setpage(ToGraphics(m), {}) ELSE ToGraphics(m)
  BY SetmodeBase DEF vga_setmode
<1>2. Steady(D)' /\ Fixed(D)' = Fixed(D) /\ Taken(D)' = Taken(D) /\ D' = D
  BY <1>1, SteadySame, SameDriver DEF ModeInv
<1>3. DOMAIN hw' = Extended(D) /\ DOMAIN hw = Extended(D)
  BY <1>1, <1>2 DEF TypeOK
<1>4. CASE ~SVGA(m)
  <2>1. \A u \in Taken(D) : hw'[u] = "text"
    <3>1. CASE m = TEXT
      BY <1>1, <3>1, TakenLeft
    <3>2. CASE m # TEXT
      BY <1>1, <1>4, <3>2, TakenLeft DEF ToGraphics
    <3> QED  BY <3>1, <3>2
  <2> QED  BY <1>1, <1>2, <1>4, <2>1 DEF ModeInv, SVGA
<1>5. CASE SVGA(m)
  <2> DEFINE g == ToGraphics(m)
  <2>1. hw' = Placed(g, D.setpage, {}) /\ DOMAIN g = Extended(D) /\ m \in Modes
    BY <1>1, <1>3, <1>5, SameInMode, CardAssumption DEF setpage, SVGA, TEXT
  <2> HIDE DEF g
  <2>2. ASSUME NEW u \in Fixed(D)
        PROVE  /\ hw'[u] = Whole(m)[u]
               /\ u \in Targets(D.setpage) => hw'[u] = "0"
    <3>1. hw'[u] = IF u \in Targets(D.setpage) THEN "0" ELSE g[u]
      BY <2>1, FixedPlaced
    <3> QED  BY <2>1, <3>1, ToGraphicsFixed, WholeAt DEF g
  <2>3. \A u \in Fixed(D) : hw'[u] = Whole(CM)'[u]
    <3>1. Whole(CM)' = Whole(m)'
      BY <1>1 DEF Whole, setpage, setmode, Ready
    <3>2. Whole(m)' = Whole(m)
      BY <1>1, <1>3, WholeSame
    <3> QED  BY <2>2, <3>1, <3>2
  <2> QED  BY <1>1, <1>2, <1>5, <2>2, <2>3 DEF ModeInv, SVGA
<1> QED  BY <1>4, <1>5

LEMMA CallMode ==
  ASSUME TypeOK, Noted, ModeInv,
         \/ \E p \in Patterns : \/ vga_setpage(p) \/ vga_setdisplaystart(p)
                                \/ vga_setlogicalwidth(p)
         \/ vga_setlinearaddressing
  PROVE  ModeInv'
<1>1. /\ driver' = driver /\ CM' = CM /\ SVGA(CM) /\ Mode = CM /\ Mode' = CM
  BY CallBase DEF vga_setpage, vga_setdisplaystart, vga_setlogicalwidth,
                  vga_setlinearaddressing, Mode
<1>2. Steady(D)' /\ Fixed(D)' = Fixed(D) /\ Taken(D)' = Taken(D) /\ D' = D
  BY <1>1, SteadySame, SameDriver DEF ModeInv
<1>3. DOMAIN hw' = DOMAIN hw /\ DOMAIN hw = Extended(D)
  BY <1>2, CallBase DEF TypeOK
<1>4. ASSUME NEW u \in Fixed(D)
      PROVE  hw'[u] = hw[u] \/ (hw'[u] = "0" /\ Whole(CM)[u] = "0")
  <2>1. u \in Targets(D.setpage) => Whole(CM)[u] = "0"
    BY <1>1, WholeAt DEF SVGA
  <2>2. u \in Targets(D.setdisplaystart) \cup WidthTargets(D) => Whole(CM)[u] = "0"
    <3>1. u \notin Targets(D.setpage) /\ u \in Targets(D.setdisplaystart) \cup WidthTargets(D)
            => Reached(D, u) /\ Zeroed(D, u)
      BY DEF ModeInv, Steady
    <3> QED  BY <1>1, <2>1, <3>1, WholeAt DEF SVGA
  <2>3. ASSUME NEW n \in SUBSET Nat,
               NEW pl \in {D.setpage, D.setdisplaystart, D.setlogicalwidth}
        PROVE  Placed(hw, pl, n)[u] = IF u \in Targets(pl) THEN "0" ELSE hw[u]
    <3>1. -1 \notin n
      OBVIOUS
    <3> QED  BY <1>3, <3>1, FixedPlaced
  <2>4. CASE \E p \in Patterns : vga_setpage(p)
    <3>1. PICK p \in SUBSET Nat : hw' = hw \/ hw' = Placed(hw, D.setpage, p)
      <4>1. PICK q \in Patterns : vga_setpage(q)
        BY <2>4
      <4>2. q \cap Usable("page") \in SUBSET Nat
        BY NumbersTyped
      <4> QED  BY <4>1, <4>2 DEF vga_setpage, setpage
    <3> QED  BY <2>1, <2>3, <3>1
  <2>5. CASE \E p \in Patterns : vga_setdisplaystart(p)
    <3>1. PICK a \in SUBSET Nat : hw' = Placed(hw, D.setdisplaystart, a)
      <4>1. PICK q \in Patterns : vga_setdisplaystart(q)
        BY <2>5
      <4>2. q \cap Usable("start") \in SUBSET Nat
        BY NumbersTyped
      <4> QED  BY <4>1, <4>2 DEF vga_setdisplaystart
    <3> QED  BY <2>2, <2>3, <3>1
  <2>6. CASE \E p \in Patterns : vga_setlogicalwidth(p)
    <3>1. PICK w \in SUBSET Nat :
            hw' = Placed(hw, D.setlogicalwidth, w) /\ Usable("width") # {}
      <4>1. PICK q \in Patterns : vga_setlogicalwidth(q)
        BY <2>6
      <4>2. q \cap Usable("width") \in SUBSET Nat
        BY NumbersTyped
      <4> QED  BY <4>1, <4>2 DEF vga_setlogicalwidth
    <3>2. WidthTargets(D) = Targets(D.setlogicalwidth)
      BY <3>1 DEF WidthTargets, Usable
    <3> QED  BY <2>2, <2>3, <3>1, <3>2
  <2>7. CASE vga_setlinearaddressing
    <3>1. hw' = linear(hw)
      BY <2>7 DEF vga_setlinearaddressing
    <3> QED  BY <1>3, <3>1, FixedLinear
  <2> QED  BY <2>4, <2>5, <2>6, <2>7
<1>5. \A u \in Fixed(D) : hw'[u] = Whole(CM)'[u]
  <2>1. Whole(CM)' = Whole(CM)
    BY <1>1, <1>2, <1>3 DEF Whole, setpage, setmode, Ready, WidthOf, SVGA, Placed
  <2> QED  BY <1>1, <1>4, <2>1 DEF ModeInv
<1>6. \A u \in Fixed(D) \cap Targets(D.setpage) : Reached(D, u) \/ hw'[u] = "0"
  BY <1>1, <1>4 DEF ModeInv
<1> QED  BY <1>1, <1>2, <1>5, <1>6 DEF ModeInv, SVGA

LEMMA AwayMode ==
  ASSUME TypeOK, Noted, ModeInv, flipaway
  PROVE  ModeInv'
<1>1. driver' = driver /\ CM' = TEXT /\ hw' = ToText /\ Mode' = CM /\ Mode = CM
  BY AwayBase DEF flipaway
<1>2. Steady(D)' /\ Fixed(D)' = Fixed(D) /\ Taken(D)' = Taken(D) /\ D' = D
  BY <1>1, SteadySame, SameDriver DEF ModeInv
<1>3. ~SVGA(CM)'
  BY <1>1, CardAssumption DEF SVGA, TEXT
<1>4. \A u \in Taken(D) : hw'[u] = "text"
  BY <1>1, TakenLeft
<1>5. ASSUME SVGA(CM), NEW u \in Fixed(D) \cap Targets(D.setpage), ~Reached(D, u)
      PROVE  hw'[u] = "0"
  <2>1. hw[u] = "0" /\ DOMAIN hw = Extended(D) /\ u \in DOMAIN hw
    BY <1>1, <1>5 DEF ModeInv, TypeOK, Fixed
  <2>2. Page0(hw)[u] = "0" /\ DOMAIN Page0(hw) = DOMAIN hw
    <3>1. Placed(hw, D.setpage, {})[u] = "0"
      BY <2>1, FixedPlaced
    <3> QED  BY <2>1, <3>1, SameInMode DEF Page0, setpage
  <2> DEFINE h == setmodeVGA(Page0(hw))
  <2>3. DOMAIN h = DOMAIN hw /\ h[u] = "0"
    BY <1>5, <2>1, <2>2 DEF setmodeVGA, Reached
  <2> HIDE DEF h
  <2>4. DOMAIN setregs(h) = DOMAIN hw /\ setregs(h)[u] = "0"
    BY <1>5, <2>1, <2>3 DEF setregs, Reached
  <2>5. ToText = [r \in DOMAIN setregs(h) |-> IF IsStd(r) THEN "text" ELSE setregs(h)[r]]
    BY DEF ToText, h
  <2> QED  BY <1>1, <1>5, <2>1, <2>4, <2>5 DEF Reached
<1> QED  BY <1>1, <1>2, <1>3, <1>4, <1>5 DEF ModeInv, SVGA

LEMMA BackMode ==
  ASSUME TypeOK, Noted, ModeInv, flipback
  PROVE  ModeInv'
<1> DEFINE g0 == ToGraphics(saved.mode)
           g1 == Linear(g0)
           g2 == Copied(g1)
           g3 == Width(g2)
           g4 == Page(g3)
<1>1. driver' = driver /\ CM' = saved.mode /\ hw' = StartAgain(g4)
  BY DEF flipback
<1>2. Steady(D)' /\ Fixed(D)' = Fixed(D) /\ Taken(D)' = Taken(D) /\ D' = D
  BY <1>1, SteadySame, SameDriver DEF ModeInv
<1>3. /\ DOMAIN hw = Extended(D) /\ DOMAIN hw' = Extended(D)
      /\ Mode = saved.mode /\ Mode' = saved.mode /\ saved.lib = lib
      /\ CM = TEXT /\ ~SVGA(CM) /\ saved.mode \in Modes \cup {VGA}
      /\ PageAgain # None => PageAgain \subseteq Usable("page") /\ SVGA(saved.mode)
  BY <1>2, BackBase DEF TypeOK
<1>4. CASE ~SVGA(saved.mode)
  <2>1. PageAgain = None /\ ~Banked /\ lib.start = {} /\ lib.width = WidthOf(saved.mode)
    BY <1>3, <1>4 DEF Noted, Banked, WidthOf
  <2>2. hw' = g0
    BY <1>1, <1>3, <1>4, <2>1 DEF StartAgain, Page, Width, Copied, Linear
  <2>3. g0 = setmodeVGA(Leave(hw))
    BY <1>4 DEF ToGraphics
  <2> QED  BY <1>1, <1>2, <1>3, <1>4, <2>2, <2>3, TakenLeft DEF ModeInv, SVGA
<1>5. CASE SVGA(saved.mode)
  <2> DEFINE m == saved.mode
  <2>1. /\ DOMAIN g0 = Extended(D) /\ DOMAIN g1 = Extended(D) /\ DOMAIN g2 = Extended(D)
        /\ DOMAIN g3 = Extended(D) /\ DOMAIN g4 = Extended(D)
    <3>1. DOMAIN g0 = Extended(D)
      BY <1>3, SameInMode
    <3>2. DOMAIN g1 = Extended(D)
      BY <3>1, SameRegisters DEF Linear
    <3>3. DOMAIN g2 = Extended(D)
      BY <3>2, SameRegisters DEF Copied
    <3>4. DOMAIN g3 = Extended(D)
      BY <3>3 DEF Width, Placed
    <3>5. DOMAIN g4 = Extended(D)
      BY <3>4, SameRegisters DEF Page
    <3> QED  BY <3>1, <3>2, <3>3, <3>4, <3>5
  <2>2. /\ -1 \notin Last /\ -1 \notin lib.width /\ -1 \notin lib.start
        /\ PageAgain # None => -1 \notin PageAgain
    <3>1. Last \in SUBSET Nat /\ lib.width \in SUBSET Nat /\ lib.start \in SUBSET Nat
      BY NumbersTyped DEF Last, TypeOK, Notices
    <3> QED  BY <1>3, <3>1 DEF Last
  <2>3. m \in Modes
    BY <1>5 DEF SVGA
  <2> HIDE DEF g0, g1, g2, g3, g4
  <2>4. ASSUME NEW u \in Fixed(D)
        PROVE  /\ hw'[u] = Whole(m)[u]
               /\ u \in Targets(D.setpage) => hw'[u] = "0"
    <3>1. g1[u] = g0[u]
      BY <2>1, FixedLinear DEF g1, Linear
    <3>2. g2[u] = IF Banked /\ u \in Targets(D.setpage) THEN "0" ELSE g1[u]
      BY <2>1, <2>2, FixedPlaced DEF g2, Copied, setpage
    <3>3. g3[u] = g2[u] \/ (g3[u] = "0" /\ u \in WidthTargets(D))
      <4>1. CASE lib.width = WidthOf(m)
        BY <1>3, <4>1 DEF g3, Width
      <4>2. CASE lib.width # WidthOf(m)
        <5>1. Usable("width") # {}
          BY <1>3, <4>2 DEF Noted
        <5>2. WidthTargets(D) = Targets(D.setlogicalwidth)
          BY <5>1 DEF WidthTargets, Usable
        <5>3. g3 = Placed(g2, D.setlogicalwidth, lib.width)
          BY <1>3, <4>2 DEF g3, Width
        <5> QED  BY <2>1, <2>2, <5>2, <5>3, FixedPlaced
      <4> QED  BY <4>1, <4>2
    <3>4. g4[u] = IF PageAgain # None /\ u \in Targets(D.setpage) THEN "0" ELSE g3[u]
      BY <2>1, <2>2, FixedPlaced DEF g4, Page, setpage
    <3>5. hw'[u] = g4[u] \/ (hw'[u] = "0" /\ u \in Targets(D.setdisplaystart))
      BY <1>1, <1>3, <2>1, <2>2, FixedPlaced DEF StartAgain
    <3>6. CASE u \in Targets(D.setpage)
      <4>1. Banked \/ PageAgain # None \/ g0[u] = "0"
        <5>1. CASE lib.linear /\ Reached(D, u)
          BY <2>3, <3>6, <5>1, ToGraphicsFixed DEF g0, Noted
        <5>2. CASE ~Reached(D, u)
          <6>1. g0[u] = Leave(hw)[u]
            BY <2>3, <5>2, ToGraphicsFixed DEF g0
          <6>2. Leave(hw)[u] = hw[u]
            BY <1>3 DEF Leave, Page0
          <6> QED  BY <1>3, <1>5, <3>6, <5>2, <6>1, <6>2 DEF ModeInv
        <5>3. CASE ~lib.linear
          BY <1>3, <1>5, <5>3 DEF Banked
        <5> QED  BY <5>1, <5>2, <5>3
      <4>2. hw'[u] = "0"
        BY <3>1, <3>2, <3>3, <3>4, <3>5, <3>6, <4>1
      <4> QED  BY <2>3, <3>6, <4>2, WholeAt
    <3>7. CASE u \notin Targets(D.setpage)
      <4>1. g0[u] = Whole(m)[u]
        BY <2>3, <3>7, ToGraphicsFixed DEF g0
      <4>2. u \in Targets(D.setdisplaystart) \cup WidthTargets(D) => Whole(m)[u] = "0"
        <5>1. u \in Targets(D.setdisplaystart) \cup WidthTargets(D)
                => Reached(D, u) /\ Zeroed(D, u)
          BY <3>7 DEF ModeInv, Steady
        <5> QED  BY <2>3, <3>7, <5>1, WholeAt
      <4>3. hw'[u] = g0[u] \/ (hw'[u] = "0" /\ u \in Targets(D.setdisplaystart) \cup WidthTargets(D))
        BY <3>1, <3>2, <3>3, <3>4, <3>5, <3>7
      <4> QED  BY <3>7, <4>1, <4>2, <4>3
    <3> QED  BY <3>6, <3>7
  <2>5. Whole(CM)' = Whole(m)
    BY <1>1, <1>2, <1>3 DEF Whole, setpage, setmode, Ready, WidthOf, SVGA, Placed
  <2> QED  BY <1>1, <1>2, <1>3, <1>5, <2>4, <2>5 DEF ModeInv, SVGA
<1> QED  BY <1>4, <1>5

LEMMA StutterMode == ASSUME ModeInv, UNCHANGED vars PROVE ModeInv'
<1>1. driver' = driver /\ hw' = hw /\ CM' = CM /\ saved' = saved
  BY DEF vars
<1>2. Steady(D)' /\ Fixed(D)' = Fixed(D) /\ Taken(D)' = Taken(D) /\ D' = D
  BY <1>1, SteadySame, SameDriver DEF ModeInv
<1>3. Whole(CM)' = Whole(CM) /\ Mode' = Mode
  BY <1>1, <1>2 DEF Whole, setpage, setmode, Ready, WidthOf, SVGA, Placed, Mode, Awake
<1> QED  BY <1>1, <1>2, <1>3 DEF ModeInv, SVGA

(* A mode gives every register it sets something.                          *)
LEMMA NotJunk ==
  ASSUME TypeOK, ModeInv, NEW m \in Modes, NEW u \in Fixed(D)
  PROVE  Whole(m)[u] # "junk"
<1> DEFINE t == [r \in DOMAIN hw |-> "text"]
<1>1. /\ DOMAIN t = Extended(D) /\ u \in DOMAIN t /\ t[u] = "text" /\ m # "junk"
      /\ u \notin D.mode.raw
  BY CardAssumption DEF TypeOK, Fixed
<1>2. CASE u \in Targets(D.setpage)
  BY <1>2, WholeAt
<1>3. CASE u \notin Targets(D.setpage)
  <2>1. Whole(m)[u] = setmode(t, m)[u]
    BY <1>3, WholeAt
  <2> HIDE DEF t
  <2>2. Reached(D, u) => Ready(t, m)[u] # "junk"
    <3>1. Reached(D, u) => IsStd(u) \/ u \in Made(D) \cup Taken(D)
      BY <1>3 DEF ModeInv, Steady, Reached
    <3>2. u \in Made(D) \/ IsStd(u) => Ready(t, m)[u] # "junk"
      BY <1>1 DEF Ready, Made, Bit
    <3>3. u \in Taken(D) /\ Reached(D, u) => Ready(t, m)[u] # "junk"
      BY <1>1 DEF Ready, Taken, Bit
    <3> QED  BY <3>1, <3>2, <3>3
  <2>3. setmode(t, m)[u] = IF Reached(D, u) THEN Ready(t, m)[u] ELSE t[u]
    BY <1>1 DEF setmode, Reached
  <2> QED  BY <1>1, <2>1, <2>2, <2>3
<1> QED  BY <1>2, <1>3

-----------------------------------------------------------------------------
(* The selections.                                                         *)

(* A number that comes through is shown; one that is apart stays.          *)
LEMMA ShowsPlaced ==
  ASSUME NEW h, NEW pl, NEW used, NEW shown, Through(pl, used, shown),
         NEW n \in SUBSET used, \A p \in shown : p[2] \in DOMAIN h
  PROVE  Shows(Placed(h, pl, n), shown, n)
<1>1. n \subseteq {p[1] : p \in shown}
  BY DEF Through
<1>2. ASSUME NEW p \in shown, p[1] >= 0
      PROVE  Placed(h, pl, n)[p[2]] = "1" <=> p[1] \in n
  <2>1. p[2] \in Targets(pl) /\ (p[1] \in used => p \in pl)
    BY <1>2 DEF Through
  <2>2. \A q \in pl : q[2] = p[2] /\ (q[1] = -2 \/ q[1] \in used) => q[1] = p[1]
    BY <1>2 DEF Through
  <2>3. Placed(h, pl, n)[p[2]] = "1" <=> p[2] \in Ones(pl, n)
    BY <1>2, <2>1 DEF Placed, Bit
  <2>4. p[1] \in n => p[2] \in Ones(pl, n)
    BY <2>1 DEF Ones
  <2>5. p[2] \in Ones(pl, n) => p[1] \in n
    <3>1. p[2] \in Ones(pl, n) => \E q \in pl : q[2] = p[2] /\ (q[1] = -2 \/ q[1] \in n)
      BY DEF Ones
    <3>2. p[1] # -2
      BY <1>2
    <3> QED  BY <2>2, <3>1, <3>2
  <2> QED  BY <2>3, <2>4, <2>5
<1> QED  BY <1>1, <1>2 DEF Shows

LEMMA ShowsApart ==
  ASSUME NEW h, NEW pl, NEW used, NEW shown, NEW shownUsed, Apart(pl, used, shown, shownUsed),
         NEW n \in SUBSET used, NEW k \in SUBSET shownUsed,
         Shows(h, shown, k), \A p \in shown : p[2] \in DOMAIN h
  PROVE  Shows(Placed(h, pl, n), shown, k)
<1>1. ASSUME NEW p \in shown, p[1] >= 0
      PROVE  Placed(h, pl, n)[p[2]] = "1" <=> p[1] \in k
  <2>1. h[p[2]] = "1" <=> p[1] \in k
    BY <1>1 DEF Shows
  <2>2. CASE p[2] \notin Targets(pl)
    BY <1>1, <2>1, <2>2, PlacedAt
  <2>3. CASE p[2] \in Targets(pl)
    <3>1. \A q \in pl : q[2] = p[2] => p[1] \notin shownUsed /\ q[1] # -2 /\ q[1] \notin used
      BY <1>1 DEF Apart
    <3>2. Placed(h, pl, n)[p[2]] = "0"
      BY <1>1, <2>3, <3>1, PlacedAt
    <3>3. p[1] \notin k
      BY <2>3, <3>1 DEF Targets
    <3> QED  BY <3>2, <3>3
  <2> QED  BY <2>2, <2>3
<1> QED  BY <1>1 DEF Shows

(* What the registers show of a page, a start and a line's width.          *)
Standing(h, page, start, width) ==
  /\ DOMAIN h = Extended(D)
  /\ page # None => Shows(h, D.setpage, page)
  /\ Shows(h, D.setdisplaystart, start)
  /\ Shows(h, D.mode.width, width)
Numbers(page, start, width) ==
  /\ page # None => page \subseteq Usable("page")
  /\ start \subseteq Usable("start")
  /\ width \subseteq Lines(D) \cup Usable("width")

LEMMA Places ==
  /\ \A p \in D.setpage \cup D.setdisplaystart \cup D.mode.width : p[2] \in Extended(D)
  /\ \A p \in D.setpage : p[2] \in Targets(D.setpage)
  /\ \A p \in D.setdisplaystart : p[2] \in Targets(D.setdisplaystart)
  /\ \A p \in D.mode.width : p[2] \in Targets(D.mode.width)
BY DEF Extended, Targets

LEMMA PageStands ==
  ASSUME Selectable(D), NEW h, NEW page, NEW start, NEW width,
         Standing(h, page, start, width), Numbers(page, start, width),
         NEW p \in SUBSET Usable("page")
  PROVE  Standing(setpage(h, p), p, start, width)
<1>1. DOMAIN setpage(h, p) = Extended(D)
  BY SameRegisters DEF Standing
<1>2. /\ Through(D.setpage, Usable("page"), D.setpage)
      /\ Apart(D.setpage, Usable("page"), D.setdisplaystart, Usable("start"))
      /\ Apart(D.setpage, Usable("page"), D.mode.width, Lines(D) \cup Usable("width"))
  BY DEF Selectable, Usable
<1>3. Shows(setpage(h, p), D.setpage, p)
  BY <1>2, ShowsPlaced, Places DEF setpage, Standing
<1>4. Shows(setpage(h, p), D.setdisplaystart, start)
  BY <1>2, ShowsApart, Places DEF setpage, Standing, Numbers
<1>5. Shows(setpage(h, p), D.mode.width, width)
  BY <1>2, ShowsApart, Places DEF setpage, Standing, Numbers
<1> QED  BY <1>1, <1>3, <1>4, <1>5 DEF Standing

LEMMA StartStands ==
  ASSUME Selectable(D), NEW h, NEW page, NEW start, NEW width,
         Standing(h, page, start, width), Numbers(page, start, width),
         NEW a \in SUBSET Usable("start")
  PROVE  Standing(Placed(h, D.setdisplaystart, a), page, a, width)
<1> DEFINE g == Placed(h, D.setdisplaystart, a)
<1>1. DOMAIN g = Extended(D)
  BY SameRegisters DEF Standing
<1>2. /\ Through(D.setdisplaystart, Usable("start"), D.setdisplaystart)
      /\ Apart(D.setdisplaystart, Usable("start"), D.setpage, Usable("page"))
      /\ Apart(D.setdisplaystart, Usable("start"), D.mode.width, Lines(D) \cup Usable("width"))
  BY DEF Selectable, Usable
<1>3. Shows(g, D.setdisplaystart, a)
  BY <1>2, ShowsPlaced, Places DEF Standing
<1>4. page # None => Shows(g, D.setpage, page)
  BY <1>2, ShowsApart, Places DEF Standing, Numbers
<1>5. Shows(g, D.mode.width, width)
  BY <1>2, ShowsApart, Places DEF Standing, Numbers
<1> QED  BY <1>1, <1>3, <1>4, <1>5 DEF Standing

LEMMA WidthStands ==
  ASSUME Selectable(D), NEW h, NEW page, NEW start, NEW width,
         Standing(h, page, start, width), Numbers(page, start, width),
         NEW w \in SUBSET Usable("width"), w # {}
  PROVE  Standing(Placed(h, D.setlogicalwidth, w), page, start, w)
<1> DEFINE g == Placed(h, D.setlogicalwidth, w)
<1>1. DOMAIN g = Extended(D)
  BY DEF Standing, Placed
<1>2. /\ Through(D.setlogicalwidth, Usable("width"), D.mode.width)
      /\ Apart(D.setlogicalwidth, Usable("width"), D.setpage, Usable("page"))
      /\ Apart(D.setlogicalwidth, Usable("width"), D.setdisplaystart, Usable("start"))
  BY DEF Selectable, Usable
<1>3. Shows(g, D.mode.width, w)
  BY <1>2, ShowsPlaced, Places DEF Standing
<1>4. page # None => Shows(g, D.setpage, page)
  BY <1>2, ShowsApart, Places DEF Standing, Numbers
<1>5. Shows(g, D.setdisplaystart, start)
  BY <1>2, ShowsApart, Places DEF Standing, Numbers
<1> QED  BY <1>1, <1>3, <1>4, <1>5 DEF Standing

LEMMA LinearStands ==
  ASSUME Selectable(D), NEW h, NEW page, NEW start, NEW width,
         Standing(h, page, start, width)
  PROVE  Standing(linear(h), page, start, width)
<1>1. DOMAIN linear(h) = Extended(D)
  BY SameRegisters DEF Standing
<1>2. D.linear \cap (Targets(D.setpage) \cup Targets(D.setdisplaystart)
                       \cup Targets(D.mode.width)) = {}
  BY DEF Selectable
<1>3. \A p \in D.setpage \cup D.setdisplaystart \cup D.mode.width :
        linear(h)[p[2]] = h[p[2]]
  <2> SUFFICES ASSUME NEW p \in D.setpage \cup D.setdisplaystart \cup D.mode.width
               PROVE  linear(h)[p[2]] = h[p[2]]
    OBVIOUS
  <2>1. p[2] \in DOMAIN h /\ p[2] \notin D.linear
    BY <1>2, Places DEF Standing
  <2> QED  BY <2>1 DEF linear
<1> QED  BY <1>1, <1>3 DEF Standing, Shows

(* No call but the one for it changes whether a window is there.           *)
LEMMA WindowKept ==
  ASSUME Selectable(D), NEW u \in D.linear, NEW h, DOMAIN h = Extended(D), NEW n
  PROVE  /\ setpage(h, n)[u] = h[u]
         /\ Placed(h, D.setdisplaystart, n)[u] = h[u]
         /\ Usable("width") # {} => Placed(h, D.setlogicalwidth, n)[u] = h[u]
<1>1. /\ u \in DOMAIN h /\ u \notin Targets(D.setpage) /\ u \notin Targets(D.setdisplaystart)
      /\ Usable("width") # {} => u \notin Targets(D.setlogicalwidth)
  BY DEF Selectable, WidthTargets, Usable, Extended
<1> QED  BY <1>1, PlacedAt DEF setpage

LEMMA NoWindow ==
  ASSUME NEW u \in D.linear, NEW h, DOMAIN h = Extended(D), h[u] # "linear"
  PROVE  /\ setregs(h)[u] # "linear" /\ setmodeVGA(h)[u] # "linear"
         /\ \A m \in Modes : setmode(h, m)[u] # "linear"
         /\ \A pl, n : Placed(h, pl, n)[u] # "linear"
         /\ \A n : setpage(h, n)[u] # "linear"
<1>1. u \in DOMAIN h
  BY DEF Extended
<1>2. setregs(h)[u] # "linear" /\ setmodeVGA(h)[u] # "linear"
  BY <1>1 DEF setregs, setmodeVGA, VGA
<1>3. \A m \in Modes : setmode(h, m)[u] # "linear"
  <2> SUFFICES ASSUME NEW m \in Modes PROVE setmode(h, m)[u] # "linear"
    OBVIOUS
  <2>1. m # "linear"
    BY CardAssumption
  <2>2. Ready(h, m)[u] # "linear"
    BY <1>1, <2>1 DEF Ready, Bit
  <2> QED  BY <1>1, <2>2 DEF setmode
<1>4. \A pl, n : Placed(h, pl, n)[u] # "linear"
  BY <1>1 DEF Placed, Bit
<1> QED  BY <1>2, <1>3, <1>4 DEF setpage

(* Out of a mode, the start's bits that a mode does not set are clear.     *)
NoStart(h, p) == h[p[2]] # "1"

LEMMA LeaveNoStart ==
  ASSUME TypeOK, Noted, SelectInv, NEW p \in D.setdisplaystart, p[1] >= 0, ~IsStd(p[2])
  PROVE  /\ NoStart(Leave(hw), p)
         /\ ~Reached(D, p[2]) => NoStart(Page0(hw), p)
<1> DEFINE u == p[2]
<1>1. u \in DOMAIN hw /\ DOMAIN hw = Extended(D)
  BY Places DEF TypeOK
<1>2. DOMAIN Page0(hw) = DOMAIN hw
  BY SameInMode
<1> HIDE DEF u
<1>3. ~Reached(D, u) \/ ~SVGA(CM) => hw[u] # "1"
  <2>1. CASE ~SVGA(CM)
    BY <2>1 DEF SelectInv, u
  <2>2. CASE SVGA(CM) /\ ~Reached(D, u)
    <3>1. p[1] \notin Usable("start")
      BY <2>2 DEF SelectInv, Selectable, Usable, u
    <3>2. p[1] \notin lib.start
      BY <3>1 DEF Noted
    <3> QED  BY <2>2, <3>2 DEF SelectInv, Shows, u
  <2> QED  BY <2>1, <2>2
<1>4. ~Reached(D, u) => Page0(hw)[u] # "1"
  <2> SUFFICES ASSUME ~Reached(D, u) PROVE Page0(hw)[u] # "1"
    OBVIOUS
  <2>1. setpage(hw, {})[u] # "1"
    <3>1. Apart(D.setpage, Usable("page"), D.setdisplaystart, Usable("start"))
      BY DEF SelectInv, Selectable, Usable
    <3>2. \A q \in D.setpage : q[2] = u => q[1] # -2
      BY <3>1 DEF Apart, u
    <3>3. setpage(hw, {})[u] = "0" \/ setpage(hw, {})[u] = hw[u]
      BY <1>1, <3>2, PlacedAt DEF setpage
    <3> QED  BY <1>3, <3>3
  <2> QED  BY <1>3, <2>1 DEF Page0
<1>5. Leave(hw)[u] # "1"
  <2>1. CASE ~SVGA(CM)
    BY <1>3, <2>1 DEF Leave, Page0
  <2>2. CASE SVGA(CM) /\ u \in D.setregs
    BY <1>1, <1>2, <2>2 DEF Leave, setregs
  <2>3. CASE SVGA(CM) /\ u \notin D.setregs
    <3>1. ~Reached(D, u)
      BY <2>3 DEF Reached, u
    <3> QED  BY <1>1, <1>2, <1>4, <2>3, <3>1 DEF Leave, setregs
  <2> QED  BY <2>1, <2>2, <2>3
<1> QED  BY <1>4, <1>5 DEF NoStart, u

LEMMA OutNoStart ==
  ASSUME TypeOK, Noted, SelectInv, NEW p \in D.setdisplaystart, p[1] >= 0
  PROVE  NoStart(ToText, p) /\ NoStart(setmodeVGA(Leave(hw)), p)
<1> DEFINE u == p[2]
           h == setmodeVGA(Page0(hw))
<1>1. u \in DOMAIN hw /\ DOMAIN Page0(hw) = DOMAIN hw /\ DOMAIN Leave(hw) = DOMAIN hw
  BY Places, SameInMode DEF TypeOK
<1>2. DOMAIN h = DOMAIN hw
  BY <1>1, SameRegisters
<1>3. setmodeVGA(Leave(hw))[u] # "1"
  <2>1. CASE IsStd(u)
    BY <1>1, <2>1 DEF setmodeVGA, VGA
  <2>2. CASE ~IsStd(u)
    BY <1>1, <2>2, LeaveNoStart DEF setmodeVGA, NoStart
  <2> QED  BY <2>1, <2>2
<1>4. ~Reached(D, u) => h[u] # "1"
  BY <1>1, LeaveNoStart DEF setmodeVGA, NoStart, Reached
<1> HIDE DEF h
<1>5. ToText = [r \in DOMAIN setregs(h) |-> IF IsStd(r) THEN "text" ELSE setregs(h)[r]]
  BY DEF ToText, h
<1>6. DOMAIN setregs(h) = DOMAIN hw /\ (~IsStd(u) => setregs(h)[u] # "1")
  BY <1>1, <1>2, <1>4 DEF setregs, Reached
<1> QED  BY <1>1, <1>3, <1>5, <1>6 DEF NoStart

(* A mode of the driver stands with its own width and a start of 0.        *)
LEMMA ModeStands ==
  ASSUME TypeOK, Noted, SelectInv, NEW m \in Modes
  PROVE  /\ Standing(ToGraphics(m), None, {}, WidthOf(m))
         /\ Numbers(None, {}, WidthOf(m))
<1> DEFINE h == Leave(hw)
<1>1. ToGraphics(m) = setmode(h, m) /\ DOMAIN h = Extended(D)
  BY SameInMode DEF ToGraphics, SVGA, TypeOK
<1>2. DOMAIN setmode(h, m) = Extended(D)
  BY <1>1, SameRegisters
<1>3. /\ Through(D.mode.width, Lines(D), D.mode.width)
      /\ Apart(D.mode.width, Lines(D), D.setdisplaystart, {})
      /\ \A p \in D.mode.width : p[1] >= 0 => Reached(D, p[2])
  BY DEF SelectInv, Selectable
<1>4. WidthOf(m) \subseteq Lines(D)
  BY DEF WidthOf, SVGA, Lines
<1>5. Shows(setmode(h, m), D.mode.width, WidthOf(m))
  <2>1. Shows(Placed(h, D.mode.width, WidthOf(m)), D.mode.width, WidthOf(m))
    BY <1>1, <1>3, <1>4, ShowsPlaced, Places
  <2>2. ASSUME NEW p \in D.mode.width, p[1] >= 0
        PROVE  setmode(h, m)[p[2]] = Placed(h, D.mode.width, WidthOf(m))[p[2]]
    <3>1. /\ p[2] \in Targets(D.mode.width) /\ p[2] \in DOMAIN h
          /\ IsStd(p[2]) \/ p[2] \in D.setregs
      BY <1>1, <1>3, <2>2, Places DEF Reached
    <3> HIDE DEF h
    <3> QED  BY <3>1 DEF setmode, Ready, Placed
  <2> QED  BY <2>1, <2>2 DEF Shows
<1>6. ASSUME NEW p \in D.setdisplaystart, p[1] >= 0
      PROVE  setmode(h, m)[p[2]] # "1"
  <2> DEFINE u == p[2]
  <2>1. u \in DOMAIN h /\ m # "1"
    BY <1>1, Places, CardAssumption
  <2>2. ~IsStd(u) => h[u] # "1"
    BY <1>6, LeaveNoStart DEF NoStart
  <2>3. u \in Targets(D.mode.width) => u \notin Ones(D.mode.width, WidthOf(m))
    <3>1. \A q \in D.mode.width : q[2] = u => q[1] # -2 /\ q[1] \notin Lines(D)
      BY <1>3, <1>6 DEF Apart
    <3> QED  BY <1>4, <3>1 DEF Ones
  <2> HIDE DEF h, u
  <2>4. Reached(D, u) => Ready(h, m)[u] # "1"
    BY <2>1, <2>2, <2>3 DEF Ready, Bit, Reached
  <2>5. setmode(h, m)[u] = IF Reached(D, u) THEN Ready(h, m)[u] ELSE h[u]
    BY <2>1 DEF setmode, Reached
  <2>6. setmode(h, m)[u] # "1"
    BY <2>2, <2>4, <2>5 DEF Reached
  <2> QED  BY <2>6 DEF u
<1> HIDE DEF h
<1>7. Shows(setmode(h, m), D.setdisplaystart, {})
  BY <1>6 DEF Shows
<1> QED  BY <1>1, <1>2, <1>4, <1>5, <1>7 DEF Standing, Numbers

(* No mode set opens a window.                                             *)
LEMMA TextNoWindow ==
  ASSUME TypeOK, NEW u \in D.linear, hw[u] # "linear"
  PROVE  /\ Leave(hw)[u] # "linear" /\ DOMAIN Leave(hw) = Extended(D)
         /\ ToText[u] # "linear" /\ setmodeVGA(Leave(hw))[u] # "linear"
<1>1. DOMAIN hw = Extended(D)
  BY DEF TypeOK
<1>2. DOMAIN Page0(hw) = Extended(D) /\ DOMAIN Leave(hw) = Extended(D)
  BY <1>1, SameInMode
<1>3. Page0(hw)[u] # "linear"
  BY <1>1, NoWindow DEF Page0
<1>4. Leave(hw)[u] # "linear"
  BY <1>2, <1>3, NoWindow DEF Leave
<1>5. setmodeVGA(Leave(hw))[u] # "linear"
  BY <1>2, <1>4, NoWindow
<1>6. ToText[u] # "linear"
  <2> DEFINE h == setmodeVGA(Page0(hw))
  <2>1. DOMAIN h = Extended(D) /\ h[u] # "linear"
    BY <1>2, <1>3, NoWindow, SameRegisters
  <2> HIDE DEF h
  <2>2. DOMAIN setregs(h) = Extended(D) /\ setregs(h)[u] # "linear"
    BY <2>1, NoWindow, SameRegisters
  <2>3. ToText = [r \in DOMAIN setregs(h) |-> IF IsStd(r) THEN "text" ELSE setregs(h)[r]]
    BY DEF ToText, h
  <2>4. u \in Extended(D)
    BY DEF Extended
  <2> QED  BY <2>2, <2>3, <2>4
<1> QED  BY <1>2, <1>4, <1>5, <1>6

LEMMA ModeNoWindow ==
  ASSUME TypeOK, NEW u \in D.linear, hw[u] # "linear", NEW m \in Modes
  PROVE  ToGraphics(m)[u] # "linear"
BY TextNoWindow, NoWindow DEF ToGraphics, SVGA

(* The invariant, in terms of what stands.                                 *)
Windows == \A u \in D.linear : hw[u] = "linear" <=> lib.linear

LEMMA SelectSame ==
  ASSUME UNCHANGED driver, Selectable(D)
  PROVE  /\ Selectable(D)' /\ D' = D /\ Lines(D)' = Lines(D)
         /\ \A h, page, start, width :
              Standing(h, page, start, width)' = Standing(h, page, start, width)
<1>1. D' = D
  BY DEF D
<1>2. Selectable(D)' /\ Lines(D)' = Lines(D)
  BY <1>1 DEF Selectable, Allowed, WidthTargets, Through, Apart, Lines, Reached
<1>3. \A h, page, start, width :
        Standing(h, page, start, width)' = Standing(h, page, start, width)
  BY <1>1 DEF Standing, Shows
<1> QED  BY <1>1, <1>2, <1>3

LEMMA StandsInMode ==
  ASSUME TypeOK, Noted, SelectInv, SVGA(CM)
  PROVE  /\ Standing(hw, lib.page, lib.start, lib.width)
         /\ Numbers(lib.page, lib.start, lib.width)
         /\ Windows
<1>1. Standing(hw, lib.page, lib.start, lib.width)
  BY DEF SelectInv, Standing, TypeOK
<1>2. Awake /\ Mode = CM
  BY CardAssumption DEF Noted, SVGA, TEXT, Mode
<1>3. WidthOf(CM) \subseteq Lines(D)
  BY DEF WidthOf, Lines, SVGA
<1>4. Numbers(lib.page, lib.start, lib.width)
  BY <1>2, <1>3 DEF Noted, Numbers
<1> QED  BY <1>1, <1>4 DEF SelectInv, Windows

LEMMA SelectNext ==
  ASSUME UNCHANGED driver, SelectInv, Agreed', Windows',
         SVGA(CM)', Standing(hw', lib'.page, lib'.start, lib'.width)
  PROVE  SelectInv'
<1>1. Selectable(D)' /\ D' = D
  BY SelectSame DEF SelectInv
<1> QED  BY <1>1 DEF SelectInv, Windows, Standing, Shows

LEMMA InitSelect ==
  ASSUME \A d \in DOMAIN Drivers : Selectable(Drivers[d])
  PROVE  Init => SelectInv
<1> SUFFICES ASSUME Init PROVE SelectInv
  OBVIOUS
<1>1. Selectable(D)
  BY DEF Init, D
<1>2. ~SVGA(CM) /\ ~SVGA(Mode)
  BY InitBase, CardAssumption DEF Init, Mode, SVGA, TEXT
<1>3. \A u \in Extended(D) : hw[u] = "text"
  BY DEF Init
<1>4. \A p \in D.setdisplaystart : hw[p[2]] # "1"
  BY <1>3, Places
<1>5. \A u \in D.linear : hw[u] # "linear"
  BY <1>3 DEF Extended
<1> QED  BY <1>1, <1>2, <1>4, <1>5 DEF SelectInv, Agreed

LEMMA SetmodeSelect ==
  ASSUME Wary, TypeOK, Noted, SelectInv,
         NEW m \in Modes \cup {TEXT, VGA}, vga_setmode(m)
  PROVE  SelectInv'
<1>1. /\ driver' = driver /\ CM' = m /\ Mode' = m /\ asked' = Fresh(m)
      /\ lib' = [Fresh(m) EXCEPT !.linear = lib.linear]
      /\ lib.linear => ~SVGA(m)
      /\ hw' = IF m = TEXT THEN ToText
               ELSE IF SVGA(m) THEN setpage(ToGraphics(m), {}) ELSE ToGraphics(m)
  BY SetmodeBase DEF vga_setmode
<1>2. Selectable(D)' /\ D' = D
  BY <1>1, SelectSame DEF SelectInv
<1>3. /\ lib'.page = None /\ lib'.start = {} /\ lib'.width = WidthOf(m)
      /\ lib'.linear = lib.linear
      /\ asked'.page = None /\ asked'.start = {} /\ asked'.width = WidthOf(m)
      /\ asked'.linear = FALSE
  BY <1>1 DEF Fresh, Notes
<1>4. CASE ~SVGA(m)
  <2>1. hw' = ToText \/ hw' = setmodeVGA(Leave(hw))
    BY <1>1, <1>4 DEF ToGraphics
  <2>2. \A p \in D.setdisplaystart : p[1] >= 0 => hw'[p[2]] # "1"
    BY <2>1, OutNoStart DEF NoStart
  <2>3. ~lib.linear => \A u \in D.linear : hw'[u] # "linear"
    BY <2>1, TextNoWindow DEF SelectInv
  <2>4. ~SVGA(CM)' /\ Agreed'
    BY <1>1, <1>4 DEF Agreed, SVGA
  <2> QED  BY <1>2, <1>3, <2>2, <2>3, <2>4 DEF SelectInv
<1>5. CASE SVGA(m)
  <2>1. m \in Modes /\ m # TEXT
    BY <1>5, CardAssumption DEF SVGA, TEXT
  <2> DEFINE g == ToGraphics(m)
  <2>2. Standing(g, None, {}, WidthOf(m)) /\ Numbers(None, {}, WidthOf(m))
    BY <2>1, ModeStands
  <2>3. hw' = setpage(g, {})
    BY <1>1, <1>5, <2>1
  <2> HIDE DEF g
  <2>4. Standing(hw', {}, {}, WidthOf(m))
    BY <2>2, <2>3, PageStands DEF SelectInv
  <2>5. Standing(hw', lib'.page, lib'.start, lib'.width)
    BY <1>3, <2>4 DEF Standing
  <2>6. Agreed'
    <3>1. lib.linear = FALSE
      BY <1>1, <1>5 DEF TypeOK, Notices
    <3> QED  BY <1>1, <1>3, <3>1 DEF Agreed
  <2>7. Windows'
    <3> SUFFICES ASSUME NEW u \in D.linear PROVE hw'[u] # "linear"
      BY <1>1, <1>2, <1>3, <1>5 DEF Windows
    <3>1. hw[u] # "linear"
      BY <1>1, <1>5 DEF SelectInv
    <3>2. g[u] # "linear"
      BY <2>1, <3>1, ModeNoWindow DEF g
    <3> QED  BY <2>2, <2>3, <3>2, NoWindow DEF Standing
  <2>8. SVGA(CM)'
    BY <1>1, <1>5 DEF SVGA
  <2> QED  BY <1>1, <2>5, <2>6, <2>7, <2>8, SelectNext
<1> QED  BY <1>4, <1>5

LEMMA CallSelect ==
  ASSUME TypeOK, Noted, SelectInv,
         \/ \E p \in Patterns : \/ vga_setpage(p) \/ vga_setdisplaystart(p)
                                \/ vga_setlogicalwidth(p)
         \/ vga_setlinearaddressing
  PROVE  SelectInv'
<1>1. /\ driver' = driver /\ CM' = CM /\ SVGA(CM) /\ Mode = CM /\ Mode' = CM
  BY CallBase DEF vga_setpage, vga_setdisplaystart, vga_setlogicalwidth,
                  vga_setlinearaddressing, Mode
<1>2. D' = D /\ SVGA(CM)'
  BY <1>1, SameDriver DEF SVGA
<1>3. /\ Standing(hw, lib.page, lib.start, lib.width)
      /\ Numbers(lib.page, lib.start, lib.width)
      /\ Windows /\ DOMAIN hw = Extended(D) /\ Selectable(D)
  BY <1>1, StandsInMode DEF TypeOK, SelectInv
<1>4. /\ lib \in Notices /\ asked \in Notices
      /\ asked.page \in {None, lib.page} /\ asked.start = lib.start
      /\ asked.width = lib.width /\ asked.linear = lib.linear
  BY <1>1 DEF TypeOK, SelectInv, Agreed
<1>5. CASE \E p \in Patterns : vga_setpage(p)
  <2>1. PICK p \in SUBSET Usable("page") :
          /\ hw' = IF p = lib.page THEN hw ELSE setpage(hw, p)
          /\ lib' = [lib EXCEPT !.page = p] /\ asked' = [asked EXCEPT !.page = p]
    <3>1. PICK q \in Patterns : vga_setpage(q)
      BY <1>5
    <3> QED  BY <3>1 DEF vga_setpage
  <2>2. /\ lib'.page = p /\ lib'.start = lib.start /\ lib'.width = lib.width
        /\ lib'.linear = lib.linear
        /\ asked'.page = p /\ asked'.start = asked.start /\ asked'.width = asked.width
        /\ asked'.linear = asked.linear
    BY <1>4, <2>1 DEF Notices
  <2>3. Standing(hw', p, lib.start, lib.width)
    BY <1>3, <2>1, PageStands
  <2>4. Windows'
    BY <1>2, <1>3, <2>1, <2>2, WindowKept DEF Windows
  <2>5. Agreed'
    BY <1>4, <2>2 DEF Agreed
  <2> QED  BY <1>1, <1>2, <2>2, <2>3, <2>4, <2>5, SelectNext
<1>6. CASE \E p \in Patterns : vga_setdisplaystart(p)
  <2>1. PICK a \in SUBSET Usable("start") :
          /\ hw' = Placed(hw, D.setdisplaystart, a)
          /\ lib' = [lib EXCEPT !.start = a] /\ asked' = [asked EXCEPT !.start = a]
    <3>1. PICK q \in Patterns : vga_setdisplaystart(q)
      BY <1>6
    <3> QED  BY <3>1 DEF vga_setdisplaystart
  <2>2. /\ lib'.page = lib.page /\ lib'.start = a /\ lib'.width = lib.width
        /\ lib'.linear = lib.linear
        /\ asked'.page = asked.page /\ asked'.start = a /\ asked'.width = asked.width
        /\ asked'.linear = asked.linear
    BY <1>4, <2>1 DEF Notices
  <2>3. Standing(hw', lib.page, a, lib.width)
    BY <1>3, <2>1, StartStands
  <2>4. Windows'
    BY <1>2, <1>3, <2>1, <2>2, WindowKept DEF Windows
  <2>5. Agreed'
    BY <1>4, <2>2 DEF Agreed
  <2> QED  BY <1>1, <1>2, <2>2, <2>3, <2>4, <2>5, SelectNext
<1>7. CASE \E p \in Patterns : vga_setlogicalwidth(p)
  <2>1. PICK w \in SUBSET Usable("width") :
          /\ w # {} /\ hw' = Placed(hw, D.setlogicalwidth, w)
          /\ lib' = [lib EXCEPT !.width = w] /\ asked' = [asked EXCEPT !.width = w]
    <3>1. PICK q \in Patterns : vga_setlogicalwidth(q)
      BY <1>7
    <3> QED  BY <3>1 DEF vga_setlogicalwidth
  <2>2. /\ lib'.page = lib.page /\ lib'.start = lib.start /\ lib'.width = w
        /\ lib'.linear = lib.linear
        /\ asked'.page = asked.page /\ asked'.start = asked.start /\ asked'.width = w
        /\ asked'.linear = asked.linear
    BY <1>4, <2>1 DEF Notices
  <2>3. Standing(hw', lib.page, lib.start, w)
    BY <1>3, <2>1, WidthStands
  <2>4. Windows'
    <3>1. Usable("width") # {}
      BY <2>1
    <3> QED  BY <1>2, <1>3, <2>1, <2>2, <3>1, WindowKept DEF Windows
  <2>5. Agreed'
    BY <1>4, <2>2 DEF Agreed
  <2> QED  BY <1>1, <1>2, <2>2, <2>3, <2>4, <2>5, SelectNext
<1>8. CASE vga_setlinearaddressing
  <2>1. /\ hw' = linear(hw) /\ lib' = [lib EXCEPT !.linear = TRUE]
        /\ asked' = [asked EXCEPT !.linear = TRUE]
    BY <1>8 DEF vga_setlinearaddressing
  <2>2. /\ lib'.page = lib.page /\ lib'.start = lib.start /\ lib'.width = lib.width
        /\ lib'.linear = TRUE
        /\ asked'.page = asked.page /\ asked'.start = asked.start
        /\ asked'.width = asked.width /\ asked'.linear = TRUE
    BY <1>4, <2>1 DEF Notices
  <2>3. Standing(hw', lib.page, lib.start, lib.width)
    BY <1>3, <2>1, LinearStands
  <2>4. Windows'
    <3>1. \A u \in D.linear : u \in DOMAIN hw
      BY <1>3 DEF Extended
    <3> QED  BY <1>2, <2>1, <2>2, <3>1 DEF Windows, linear
  <2>5. Agreed'
    BY <1>4, <2>2 DEF Agreed
  <2> QED  BY <1>1, <1>2, <2>2, <2>3, <2>4, <2>5, SelectNext
<1> QED  BY <1>5, <1>6, <1>7, <1>8

LEMMA AwaySelect ==
  ASSUME TypeOK, Noted, SelectInv, flipaway
  PROVE  SelectInv'
<1>1. /\ driver' = driver /\ CM' = TEXT /\ hw' = ToText /\ Mode' = CM /\ Mode = CM
      /\ lib' = lib /\ asked' = asked
  BY AwayBase DEF flipaway
<1>2. Selectable(D)' /\ D' = D
  BY <1>1, SelectSame DEF SelectInv
<1>3. ~SVGA(CM)'
  BY <1>1, CardAssumption DEF SVGA, TEXT
<1>4. \A p \in D.setdisplaystart : p[1] >= 0 => hw'[p[2]] # "1"
  BY <1>1, OutNoStart DEF NoStart
<1>5. ~lib.linear => \A u \in D.linear : hw'[u] # "linear"
  BY <1>1, TextNoWindow DEF SelectInv
<1>6. Agreed'
  BY <1>1 DEF SelectInv, Agreed, SVGA
<1> QED  BY <1>1, <1>2, <1>3, <1>4, <1>5, <1>6 DEF SelectInv

(* restorestate repeats the calls, on a mode that stands.                  *)
LEMMA BackSelect ==
  ASSUME TypeOK, Noted, SelectInv, flipback
  PROVE  SelectInv'
<1> DEFINE g0 == ToGraphics(saved.mode)
           g1 == Linear(g0)
           g2 == Copied(g1)
           g3 == Width(g2)
           g4 == Page(g3)
<1>1. /\ driver' = driver /\ CM' = saved.mode /\ hw' = StartAgain(g4) /\ asked' = asked
  BY DEF flipback
<1>2. Selectable(D)' /\ D' = D /\ Selectable(D)
  BY <1>1, SelectSame DEF SelectInv
<1>3. /\ DOMAIN hw = Extended(D)
      /\ Mode = saved.mode /\ Mode' = saved.mode /\ saved.lib = lib
      /\ CM = TEXT /\ ~SVGA(CM) /\ saved.mode \in Modes \cup {VGA}
      /\ PageAgain # None => PageAgain \subseteq Usable("page") /\ SVGA(saved.mode)
      /\ lib'.page = PageAgain /\ lib'.start = lib.start /\ lib'.width = lib.width
      /\ lib'.linear = lib.linear
  BY BackBase DEF TypeOK, Notices
<1>4. CASE ~SVGA(saved.mode)
  <2>1. PageAgain = None /\ ~Banked /\ lib.start = {} /\ lib.width = WidthOf(saved.mode)
    BY <1>3, <1>4 DEF Noted, Banked, WidthOf
  <2>2. hw' = g0
    BY <1>1, <1>3, <1>4, <2>1 DEF StartAgain, Page, Width, Copied, Linear
  <2>3. g0 = setmodeVGA(Leave(hw))
    BY <1>4 DEF ToGraphics
  <2>4. \A p \in D.setdisplaystart : p[1] >= 0 => hw'[p[2]] # "1"
    BY <2>2, <2>3, OutNoStart DEF NoStart
  <2>5. ~lib.linear => \A u \in D.linear : hw'[u] # "linear"
    BY <2>2, <2>3, TextNoWindow DEF SelectInv
  <2>6. ~SVGA(CM)' /\ Agreed'
    BY <1>1, <1>3, <1>4 DEF Agreed, SVGA
  <2> QED  BY <1>2, <1>3, <2>4, <2>5, <2>6 DEF SelectInv
<1>5. CASE SVGA(saved.mode)
  <2> DEFINE m == saved.mode
             W == WidthOf(m)
  <2>1. m \in Modes /\ Last \subseteq Usable("page")
    BY <1>5 DEF SVGA, Last
  <2>2. Standing(g0, None, {}, W) /\ Numbers(None, {}, W)
    BY <2>1, ModeStands
  <2> HIDE DEF g0, g1, g2, g3, g4, W
  <2>3. Standing(g1, None, {}, W)
    BY <1>2, <2>2, LinearStands DEF g1, Linear
  <2>4. Standing(g2, None, {}, W)
    <3>1. Standing(setpage(g1, Last), Last, {}, W)
      BY <1>2, <2>1, <2>2, <2>3, PageStands
    <3>2. Standing(setpage(g1, Last), None, {}, W)
      BY <3>1 DEF Standing
    <3> QED  BY <2>3, <3>2 DEF g2, Copied
  <2>5. Standing(g3, None, {}, lib.width) /\ Numbers(None, {}, lib.width)
    <3>1. CASE lib.width = W
      BY <1>3, <2>2, <2>4, <3>1 DEF g3, Width, W
    <3>2. CASE lib.width # W
      <4>1. lib.width # {} /\ lib.width \subseteq Usable("width")
        BY <1>3, <3>2 DEF Noted, W
      <4>2. g3 = Placed(g2, D.setlogicalwidth, lib.width)
        BY <1>3, <3>2 DEF g3, Width, W
      <4> QED  BY <1>2, <2>2, <2>4, <4>1, <4>2, WidthStands DEF Numbers
    <3> QED  BY <3>1, <3>2
  <2>6. Standing(g4, PageAgain, {}, lib.width) /\ Numbers(PageAgain, {}, lib.width)
    <3>1. CASE PageAgain = None
      BY <2>5, <3>1 DEF g4, Page
    <3>2. CASE PageAgain # None
      BY <1>2, <1>3, <2>5, <3>2, PageStands DEF g4, Page, Numbers
    <3> QED  BY <3>1, <3>2
  <2>7. Standing(hw', PageAgain, lib.start, lib.width)
    <3>1. CASE lib.start = {}
      BY <1>1, <1>3, <2>6, <3>1 DEF StartAgain
    <3>2. CASE lib.start # {}
      <4>1. hw' = Placed(g4, D.setdisplaystart, lib.start)
        BY <1>1, <1>3, <3>2 DEF StartAgain
      <4>2. lib.start \subseteq Usable("start")
        BY DEF Noted
      <4> QED  BY <1>2, <2>6, <4>1, <4>2, StartStands
    <3> QED  BY <3>1, <3>2
  <2>8. Windows'
    <3> SUFFICES ASSUME NEW u \in D.linear PROVE hw'[u] = "linear" <=> lib.linear
      BY <1>2, <1>3 DEF Windows
    <3>1. u \in Extended(D)
      BY DEF Extended
    <3>2. g1[u] = "linear" <=> lib.linear
      <4>1. CASE lib.linear
        BY <1>3, <1>5, <2>2, <3>1, <4>1 DEF g1, Linear, linear, Standing
      <4>2. CASE ~lib.linear
        <5>1. hw[u] # "linear"
          BY <4>2 DEF SelectInv
        <5> QED  BY <1>3, <2>1, <4>2, <5>1, ModeNoWindow DEF g0, g1, Linear
      <4> QED  BY <4>1, <4>2
    <3>3. g2[u] = g1[u]
      BY <1>2, <2>3, WindowKept DEF g2, Copied, Standing
    <3>4. g3[u] = g2[u]
      <4>1. lib.width # W => Usable("width") # {}
        BY <1>3 DEF Noted, W
      <4> QED  BY <1>2, <1>3, <2>4, <4>1, WindowKept DEF g3, Width, Standing, W
    <3>5. g4[u] = g3[u]
      BY <1>2, <2>5, WindowKept DEF g4, Page, Standing
    <3>6. hw'[u] = g4[u]
      BY <1>1, <1>2, <2>6, WindowKept DEF StartAgain, Standing
    <3> QED  BY <3>2, <3>3, <3>4, <3>5, <3>6
  <2>9. Agreed'
    <3>1. /\ asked.page \in {None, lib.page} /\ asked.start = lib.start
          /\ asked.width = lib.width /\ asked.linear = lib.linear
      BY <1>3, <1>5 DEF SelectInv, Agreed
    <3>2. lib.page # None => PageAgain = lib.page
      BY <1>3 DEF PageAgain
    <3> QED  BY <1>1, <1>3, <3>1, <3>2 DEF Agreed
  <2>10. SVGA(CM)'
    BY <1>1, <1>5 DEF SVGA
  <2> QED  BY <1>1, <1>3, <2>7, <2>8, <2>9, <2>10, SelectNext
<1> QED  BY <1>4, <1>5

LEMMA StutterSelect == ASSUME SelectInv, UNCHANGED vars PROVE SelectInv'
<1>1. /\ driver' = driver /\ hw' = hw /\ CM' = CM /\ lib' = lib
      /\ saved' = saved /\ asked' = asked
  BY DEF vars
<1>2. Selectable(D)' /\ D' = D
  BY <1>1, SelectSame DEF SelectInv
<1>3. Agreed'
  BY <1>1 DEF SelectInv, Agreed, Mode, Awake, SVGA
<1> QED  BY <1>1, <1>2, <1>3 DEF SelectInv, SVGA, Shows

-----------------------------------------------------------------------------
(* The theorems. Each property needs no more of the drivers than its own   *)
(* part of the invariant does.                                             *)

(* A step is a mode set, a call, one of the two switches or none of them.  *)
LEMMA Steps ==
  ASSUME [Next]_vars
  PROVE  \/ \E m \in Modes \cup {TEXT, VGA} : vga_setmode(m)
         \/ \/ \E p \in Patterns : \/ vga_setpage(p) \/ vga_setdisplaystart(p)
                                   \/ vga_setlogicalwidth(p)
            \/ vga_setlinearaddressing
         \/ flipaway
         \/ flipback
         \/ UNCHANGED vars
BY DEF Next

(* Types, and what the library notes, for any drivers at all.              *)
LEMMA StepBase ==
  ASSUME TypeOK, Noted, [Next]_vars PROVE TypeOK' /\ Noted'
BY Steps, SetmodeBase, CallBase, AwayBase, BackBase, StutterBase

LEMMA StepText ==
  ASSUME TypeOK, Noted, TextInv, [Next]_vars PROVE TextInv'
BY Steps, SetmodeText, CallText, AwayText, BackText, StutterText

LEMMA StepMode ==
  ASSUME TypeOK, Noted, ModeInv, [Next]_vars PROVE ModeInv'
BY Steps, SetmodeMode, CallMode, AwayMode, BackMode, StutterMode

LEMMA StepSelect ==
  ASSUME Wary, TypeOK, Noted, SelectInv, [Next]_vars PROVE SelectInv'
BY Steps, SetmodeSelect, CallSelect, AwaySelect, BackSelect, StutterSelect

(* Under any drivers that restore, whatever their modes, the numbers the   *)
(* program uses and the order of mode sets, calls and console switches:    *)
(* in text mode all registers are the text's (vga_setmode, "restore old    *)
(* extended regs").                                                        *)
THEOREM TextRestored ==
  ASSUME \A d \in DOMAIN Drivers : Restores(Drivers[d])
  PROVE  Spec => []TextWhole
<1> DEFINE Inv == TypeOK /\ Noted /\ TextInv
<1>1. Init => Inv
  BY InitBase, InitText
<1>2. Inv /\ [Next]_vars => Inv'
  BY StepBase, StepText
<1>3. Inv => TextWhole
  BY DEF TextInv
<1> QED  BY <1>1, <1>2, <1>3, PTL DEF Spec

(* Under any steady drivers a mode's registers are those of the mode set   *)
(* out of a fresh text, and none is set from nothing, whatever came before *)
(* (vga_setmode and restorestate, which set a mode over another's traces). *)
THEOREM ModeRestored ==
  ASSUME \A d \in DOMAIN Drivers : Steady(Drivers[d])
  PROVE  Spec => []ModeWhole
<1> DEFINE Inv == TypeOK /\ Noted /\ ModeInv
<1>1. Init => Inv
  BY InitBase, InitMode
<1>2. Inv /\ [Next]_vars => Inv'
  BY StepBase, StepMode
<1>3. Inv => ModeWhole
  <2> SUFFICES ASSUME Inv, SVGA(CM), NEW u \in Fixed(D)
               PROVE  hw[u] = Whole(CM)[u] /\ hw[u] # "junk"
    BY DEF ModeWhole
  <2>1. hw[u] = Whole(CM)[u]
    BY DEF ModeInv
  <2>2. Whole(CM)[u] # "junk"
    BY NotJunk DEF SVGA
  <2> QED  BY <2>1, <2>2
<1> QED  BY <1>1, <1>2, <1>3, PTL DEF Spec

(* Under any drivers whose numbers come through whole and apart, for a     *)
(* program that avoids what is known to fail: the registers hold the page, *)
(* the start, the width and the window it asked for last, after calls in   *)
(* any order and also after restorestate.                                  *)
THEOREM SelectionsRestored ==
  ASSUME Wary, \A d \in DOMAIN Drivers : Selectable(Drivers[d])
  PROVE  Spec => []SelectionsHold
<1> DEFINE Inv == TypeOK /\ Noted /\ SelectInv
<1>1. Init => Inv
  BY InitBase, InitSelect
<1>2. Inv /\ [Next]_vars => Inv'
  BY StepBase, StepSelect
<1>3. Inv => SelectionsHold
  <2> SUFFICES ASSUME Inv, SVGA(CM)
               PROVE  /\ asked.page # None => Shows(hw, D.setpage, asked.page)
                      /\ Shows(hw, D.setdisplaystart, asked.start)
                      /\ Shows(hw, D.mode.width, asked.width)
                      /\ \A u \in D.linear : (hw[u] = "linear") = asked.linear
    BY DEF SelectionsHold
  <2>1. Mode = CM
    BY CardAssumption DEF Noted, SVGA, TEXT, Mode
  <2>2. /\ asked.page \in {None, lib.page} /\ asked.start = lib.start
        /\ asked.width = lib.width /\ asked.linear = lib.linear
    BY <2>1 DEF SelectInv, Agreed
  <2>3. \A u \in D.linear : (hw[u] = "linear") = asked.linear
    <3> SUFFICES ASSUME NEW u \in D.linear PROVE (hw[u] = "linear") = asked.linear
      OBVIOUS
    <3>1. lib.linear \in BOOLEAN
      BY DEF TypeOK, Notices
    <3>2. CASE lib.linear = TRUE
      BY <2>2, <3>2 DEF SelectInv
    <3>3. CASE lib.linear = FALSE
      BY <2>2, <3>3 DEF SelectInv
    <3> QED  BY <3>1, <3>2, <3>3
  <2> QED  BY <2>2, <2>3 DEF SelectInv
<1> QED  BY <1>1, <1>2, <1>3, PTL DEF Spec

(* The invariant of the whole, which a run evaluates for each of the 30    *)
(* drivers: with it the run finds that each of them restores, is steady    *)
(* and selectable, as the three theorems ask.                              *)
THEOREM CardInductive ==
  ASSUME Wary,
         \A d \in DOMAIN Drivers :
           Restores(Drivers[d]) /\ Steady(Drivers[d]) /\ Selectable(Drivers[d])
  PROVE  Spec => []IInv
<1>1. Init => IInv
  BY InitBase, InitText, InitMode, InitSelect DEF IInv
<1>2. IInv /\ [Next]_vars => IInv'
  BY StepBase, StepText, StepMode, StepSelect DEF IInv
<1> QED  BY <1>1, <1>2, PTL DEF Spec
=============================================================================
