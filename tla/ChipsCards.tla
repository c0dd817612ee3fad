----------------------------- MODULE ChipsCards -----------------------------
(***************************************************************************)
(* More drivers (src/src/drivers): the Chips and Technologies cards of     *)
(* chips.c, of both kinds, with a monitor and no panel, in modes of a byte *)
(* for a pixel. XR and FR are the chip's own indexed registers. Left out   *)
(* are the clock's dividers, which the one kind cannot read and of which   *)
(* the other saves the set that the text's clock selects.                  *)
(***************************************************************************)
EXTENDS Registers

(* What both kinds announce, whatever the memory.                          *)
CHIPS_getmodeinfo(page) == UpTo(19, 10, page)

-----------------------------------------------------------------------------
(* 65545 with 1 MB on PCI. Neither the page in XR10, which unlock clears,  *)
(* nor the start's high bits in XR0C are saved.                            *)

chips_parts == {2, 3, 4, 6, \h0B, \h0D, \h0F, \h1E, \h28, \h52, \h54, \h55}
chips_XRregs ==
  chips_parts
    \cup {7, \h17, \h19, \h1A, \h1B, \h1C, \h21, \h22, \h23, \h2C, \h2D, \h2F, \h33, \h40}
    \cup {\h50, \h51, \h56, \h57, \h58, \h5A, \h64, \h65, \h66, \h67, \h68, \h6F}
chips_saveregs == Bytes("XR", chips_parts) \cup Regs("XR", chips_XRregs \ chips_parts)
chips_setregs == chips_saveregs
chips_linewidth ==     \* bit 11 twice
  Pitch \cup Place("XR", \h1E, 0, 3, 8)
    \cup Place("XR", \h0D, 0, 11, 1) \cup Place("XR", \h0D, 1, 11, 1)
chips_initializemode ==
  Inherited(Regs("XR", {7, \h17, \h40}) \cup Bits("XR", 2, {0}) \cup Bits("XR", 3, {1, 3, 6})
              \cup Bits("XR", 4, {2}) \cup Bits("XR", \h0B, 0..2) \cup Bits("XR", \h28, {4})
              \cup Bits("XR", \h52, {0}) \cup Bits("XR", \h54, {2, 3})
              \cup Bits("XR", \h55, {6, 7}),
            Bits("XR", 2, 2..4) \cup Bits("XR", 6, {2, 3}) \cup Bits("XR", \h0F, {4})
              \cup Bits("XR", \h0D, 2..7),
            chips_linewidth)
chips_setlinear == Bits("XR", \h0B, {4})
chips_setpage == Place("XR", \h10, 4, 0, 4) \cup Clear(Bits("XR", \h10, 0..3))
chips_setdisplaystart == StartFrom(2) \cup Place("XR", \h0C, 0, 18, 8)
chips_setlogicalwidth == chips_linewidth \cup Clear(Bits("XR", \h0D, 2..7))
chips ==
  [saveregs |-> chips_saveregs, setregs |-> chips_setregs,
   mode |-> chips_initializemode, vga |-> {}, linear |-> chips_setlinear,
   setpage |-> chips_setpage, setdisplaystart |-> chips_setdisplaystart,
   setlogicalwidth |-> chips_setlogicalwidth, range |-> CHIPS_getmodeinfo(3),
   lost |-> [Intact EXCEPT !.start = {0, 1, 18, 19}]]

-----------------------------------------------------------------------------
(* 65550 with 2 MB, of the HiQV kind. The page is saved, as the 0 that     *)
(* unlock puts there; CR40 with the start's high bits is not. Left out is  *)
(* bit 7 of that, which a start call only ever sets.                       *)

hiqv_saveregs ==
  Bytes("XR", {9, \h0A, \h0E, \h20, \h40, \h80, \h81}) \cup Regs("XR", {\hE2})
    \cup Bytes("CR", {\h41}) \cup Regs("CR", (\h30..\h33) \cup {\h38, \h3C})
    \cup Bytes("FR", {3, 8})
    \cup Regs("FR", (\h10..\h12) \cup (\h20..\h27) \cup (\h30..\h37) \cup {\h40, \h48, \h73})
hiqv_setregs == hiqv_saveregs \ Bits("FR", 3, {4, 5})
hiqv_initializemode ==
  Inherited(Bits("XR", 9, {0}) \cup Bits("XR", \h0A, {0}) \cup Bits("XR", \h40, {0, 1})
              \cup Bits("XR", \h80, {4}) \cup Bits("XR", \h81, 0..2)
              \cup Regs("XR", {\hE2}) \cup Regs("CR", \h30..\h33)
              \cup Bits("FR", 3, {2, 3}) \cup Bits("FR", 8, {6, 7}),
            Bytes("XR", {\h0E, \h20}) \cup Bits("CR", \h41, 4..7),
            Pitch \cup Place("CR", \h41, 0, 11, 4))
hiqv_setlinear == Bits("XR", \h0A, {1})
hiqv_setpage == Place("XR", \h0E, 0, 0, 7) \cup Clear(Bits("XR", \h0E, {7}))
hiqv_setdisplaystart == StartFrom(2) \cup Place("CR", \h40, 0, 18, 4)
hiqv_setlogicalwidth ==
  Pitch \cup Place("CR", \h41, 0, 11, 4) \cup Clear(Bits("CR", \h41, 4..7))
hiqv ==
  [saveregs |-> hiqv_saveregs, setregs |-> hiqv_setregs,
   mode |-> hiqv_initializemode, vga |-> {}, linear |-> hiqv_setlinear,
   setpage |-> hiqv_setpage, setdisplaystart |-> hiqv_setdisplaystart,
   setlogicalwidth |-> hiqv_setlogicalwidth, range |-> CHIPS_getmodeinfo(4),
   lost |-> [Intact EXCEPT !.start = {0, 1, 18, 19}]]
=============================================================================
