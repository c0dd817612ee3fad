--------------------------- MODULE CardInvariant ---------------------------
(***************************************************************************)
(* Why the properties of Card hold: what a driver has to see to, and the   *)
(* inductive invariant, part by part, that holds of any such driver.       *)
(***************************************************************************)
EXTENDS Card

Notices ==
  [page : {None} \cup SUBSET Nat, start : SUBSET Nat, width : SUBSET Nat,
   linear : BOOLEAN]
TypeOK ==
  /\ driver \in DOMAIN Drivers /\ DOMAIN hw = Extended(D)
  /\ CM \in Modes \cup {TEXT, VGA}
  /\ {lib, asked} \subseteq Notices
  /\ saved \in {NULL} \cup [mode : Modes \cup {VGA}, lib : Notices]

(* What the library notes: numbers the program may use, and a line's width *)
(* of its own or the mode's. Out of the modes of the driver there is none. *)
Mode == IF Awake THEN CM ELSE saved.mode
Noted ==
  /\ ~Awake => saved.lib = lib /\ CM = TEXT
  /\ ~SVGA(Mode) => lib.page = None /\ lib.start = {} /\ lib.width = {}
  /\ lib.page # None => lib.page \subseteq Usable("page")
  /\ lib.start \subseteq Usable("start")
  /\ \/ lib.width = WidthOf(Mode)
     \/ lib.width # {} /\ lib.width \subseteq Usable("width")
  /\ lib.linear => D.linear # {}

-----------------------------------------------------------------------------
(* TextWhole.                                                              *)

(* The registers that no setregs brings back, and what a driver has to see *)
(* to for those: that nothing but a page or a start of 0 is left in them.  *)
Loose(d) == {u \in Extended(d) : ~IsStd(u) /\ u \notin d.saveregs \cap d.setregs}
Restores(d) ==
  \A u \in Loose(d) :
    /\ u \notin d.setregs \cup d.vga \cup d.linear \cup Targets(d.setlogicalwidth)
    /\ u \notin Targets(d.setpage) \cap Targets(d.setdisplaystart)
    /\ \A p \in d.setpage \cup d.setdisplaystart : p[2] = u => p[1] # -2
    /\ \A p \in d.setdisplaystart : p[2] = u => p[1] \notin Allowed(d, "start")

(* The registers of the page hold something else only while the library    *)
(* remembers a page.                                                       *)
LooseAsText ==
  \A u \in Loose(D) :
    AsText(u) \/ (SVGA(CM) /\ lib.page # {} /\ u \in Targets(D.setpage))
TextInv == Restores(D) /\ TextWhole /\ LooseAsText

-----------------------------------------------------------------------------
(* ModeWhole.                                                              *)

(* The registers a mode takes over as it finds them are left to the        *)
(* text; what calls and console switches clear, a mode has cleared; and a  *)
(* mode gives every register it sets something.                            *)
Reached(d, u) == IsStd(u) \/ u \in d.setregs
Made(d) == d.mode.units \cup d.mode.zero \cup Targets(d.mode.width)
Zeroed(d, u) == Start(u) \/ u \in d.mode.zero \cup Targets(d.mode.width)
Taken(d) ==
  {u \in Fixed(d) \ Targets(d.setpage) :
     Reached(d, u) => ~IsStd(u) /\ d.mode.inherits /\ u \in d.saveregs \ Made(d)}
WidthTargets(d) == IF Allowed(d, "width") = {} THEN {} ELSE Targets(d.setlogicalwidth)
Steady(d) ==
  /\ Taken(d) \cap d.vga = {}
  /\ \A u \in Fixed(d) \cap Targets(d.setpage) :
       d.linear = {} \/ (Reached(d, u) => Zeroed(d, u))
  /\ \A u \in Fixed(d) \ Targets(d.setpage) :
       /\ u \in Targets(d.setdisplaystart) \cup WidthTargets(d) =>
            Reached(d, u) /\ Zeroed(d, u)
       /\ u \in d.setregs => IsStd(u) \/ u \in Made(d) \cup Taken(d)
ModeInv ==
  /\ Steady(D)
  /\ SVGA(CM) => \A u \in Fixed(D) : hw[u] = Whole(CM)[u]
  /\ ~SVGA(CM) => \A u \in Taken(D) : hw[u] = "text"
  /\ SVGA(Mode) => \A u \in Fixed(D) \cap Targets(D.setpage) : Reached(D, u) \/ hw[u] = "0"

-----------------------------------------------------------------------------
(* SelectionsHold.                                                         *)

(* A call's numbers come through whole, into registers that no other       *)
(* call writes but with 0 where they are not used; a mode sets the line's  *)
(* width and clears the start, but where it does not reach and no start is *)
(* used; and the calls and what the library notes agree.                   *)
Through(placement, used, shown) ==      \* shown shows the used numbers placed
  /\ used \subseteq {p[1] : p \in shown}
  /\ \A p \in shown : p[1] >= 0 =>
       /\ p[2] \in Targets(placement)
       /\ p[1] \in used => p \in placement
       /\ \A q \in placement :
            q[2] = p[2] /\ (q[1] = -2 \/ q[1] \in used) => q[1] = p[1]
Apart(placement, used, shown, shownUsed) ==
  \A q \in placement, p \in shown :
    q[2] = p[2] /\ p[1] >= 0 => p[1] \notin shownUsed /\ q[1] # -2 /\ q[1] \notin used
Lines(d) == UNION {LineWidth[m] \cap d.range["width"] : m \in Modes}
Selectable(d) ==
  LET pages == Allowed(d, "page")
      starts == Allowed(d, "start")
      widths == Allowed(d, "width")
  IN  /\ Through(d.setpage, pages, d.setpage)
      /\ Through(d.setdisplaystart, starts, d.setdisplaystart)
      /\ Through(d.mode.width, Lines(d), d.mode.width)
      /\ Apart(d.setpage, pages, d.setdisplaystart, starts)
      /\ Apart(d.setpage, pages, d.mode.width, Lines(d) \cup widths)
      /\ Apart(d.setdisplaystart, starts, d.setpage, pages)
      /\ Apart(d.setdisplaystart, starts, d.mode.width, Lines(d) \cup widths)
      /\ Apart(d.mode.width, Lines(d), d.setdisplaystart, {})
      /\ widths # {} => /\ Through(d.setlogicalwidth, widths, d.mode.width)
                        /\ Apart(d.setlogicalwidth, widths, d.setpage, pages)
                        /\ Apart(d.setlogicalwidth, widths, d.setdisplaystart, starts)
      /\ d.linear \cap (Targets(d.setpage) \cup Targets(d.setdisplaystart)
                          \cup WidthTargets(d) \cup Targets(d.mode.width)) = {}
      /\ \A p \in d.setdisplaystart : p[1] \in starts => Reached(d, p[2])
      /\ \A p \in d.mode.width : p[1] >= 0 => Reached(d, p[2])

Agreed ==
  SVGA(Mode) => /\ asked.page \in {None, lib.page} /\ asked.start = lib.start
                /\ asked.width = lib.width /\ asked.linear = lib.linear
SelectInv ==
  /\ Selectable(D) /\ Agreed
  /\ ~SVGA(CM) => \A p \in D.setdisplaystart : p[1] >= 0 => hw[p[2]] # "1"
  /\ SVGA(CM) => /\ lib.page # None => Shows(hw, D.setpage, lib.page)
                 /\ Shows(hw, D.setdisplaystart, lib.start)
                 /\ Shows(hw, D.mode.width, lib.width)
                 /\ lib.linear => \A u \in D.linear : hw[u] = "linear"
  /\ ~lib.linear => \A u \in D.linear : hw[u] # "linear"

IInv == TypeOK /\ Noted /\ TextInv /\ ModeInv /\ SelectInv
=============================================================================
