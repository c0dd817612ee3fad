----------------------------- MODULE Registers -----------------------------
(***************************************************************************)
(* The registers of a card as the chipset drivers (src/src/drivers) see    *)
(* them, and how a number is laid out in them.                             *)
(*                                                                         *)
(* A unit is <<kind, number, bit>>: a bit of a register, or a register or  *)
(* a field that no function takes apart, named by its lowest bit. Kinds    *)
(* are CR, SR, GR, AR (display controller, sequencer, graphics and         *)
(* attribute controller), and what a driver has besides.                   *)
(***************************************************************************)
EXTENDS Integers

Bits(kind, n, B) == {kind} \X {n} \X B
Bytes(kind, S) == {kind} \X S \X (0..7)
Words(kind, S) == {kind} \X S \X (0..31)
Regs(kind, S) == {kind} \X S \X {0}

(* A placement tells which bit of a number goes to which unit: bits k to   *)
(* k + count - 1 of the number to bits b and up of the register. Units     *)
(* that Clear names get 0 and those of Set 1, whatever the number. Where   *)
(* several bits come together they are ORed.                               *)
Place(kind, n, b, k, count) ==
  {<<k + j, <<kind, n, b + j>>>> : j \in 0..(count - 1)}
Clear(units) == {-1} \X units
Set(units) == {-2} \X units

Targets(placement) == {p[2] : p \in placement}
Ones(placement, number) ==
  {p[2] : p \in {q \in placement : q[1] = -2 \/ q[1] \in number}}

(* The VGA's own places: the start in CR0C and CR0D and, of the bits below *)
(* them, two in AR13 with the other two cleared; the width in CR13, in     *)
(* units of 8 bytes or, where the memory is addressed by more, of 16.      *)
StartFrom(k) == Place("CR", 13, 0, k, 8) \cup Place("CR", 12, 0, k + 8, 8)
Panning == Place("AR", 19, 1, 0, 2) \cup Clear(Bits("AR", 19, {0, 3}))
Pitch == Place("CR", 19, 0, 3, 8)
Pitch16 == Place("CR", 19, 0, 4, 8)

(* What a driver does to its card, one field for each of its functions.    *)
(* saveregs and setregs are the units they read and write. mode is a mode  *)
(* of the driver made ready: it starts from what saveregs reads when it    *)
(* inherits, gives the units their mode's value, zero 0 and the line's     *)
(* width its place; the units fast in some modes only, where the clock is  *)
(* fast or no programmable one, the pixels deep, or the lines interlaced;  *)
(* raw are written as malloc left them. vga is what a standard mode clears *)
(* before it is set, and linear what linear addressing changes. range is   *)
(* what getmodeinfo announces, as the bits of the numbers, and lost the    *)
(* bits of it that the functions do not bring through.                     *)
Table(units, zero, width) ==   \* a mode that is a table of all registers
  [units |-> units, fast |-> {}, raw |-> {}, zero |-> zero, width |-> width,
   inherits |-> FALSE]
Inherited(units, zero, width) ==
  [units |-> units, fast |-> {}, raw |-> {}, zero |-> zero, width |-> width,
   inherits |-> TRUE]
Intact == [start |-> {}, width |-> {}, page |-> {}]
UpTo(start, width, page) == [start |-> 0..start, width |-> 3..width, page |-> 0..page]

(* What the library itself saves and sets, in every mode: __svgalib_       *)
(* saveregs, __svgalib_setregs and __svgalib_setup_VGA_registers.          *)
IsStd(u) ==
  \/ u[1] = "CR" /\ u[2] \in 0..23
  \/ u[1] = "AR" /\ u[2] \in 0..20
  \/ u[1] = "GR" /\ u[2] \in 0..8
  \/ u[1] = "SR" /\ u[2] \in 0..4
  \/ u[1] = "MIS"
Start(u) == u \in Bytes("CR", {12, 13}) \cup Bytes("AR", {19})
=============================================================================
