----------------------------- MODULE TableCards -----------------------------
(***************************************************************************)
(* The drivers whose modes are tables of registers (src/src/drivers,       *)
(* src/src/regs): what their functions save, set and select, in the terms  *)
(* of Registers, in modes of one byte or more for a pixel. Bits that only  *)
(* unlock the extended registers are left out, and so are the registers of *)
(* a separate RAMDAC. Where the tables hold a line's width in units of 16  *)
(* bytes, some or all, setlogicalwidth still takes it in units of 8: no    *)
(* width given to it is what it says.                                      *)
(***************************************************************************)
EXTENDS Registers

-----------------------------------------------------------------------------
(* Acer Labs ALI2301 (ali.c). The bits of the start above CR0C go to CR20, *)
(* which is neither saved nor set by a mode.                               *)

ali_saveregs ==
  Bytes("IO", {\h3D6, \h3D7}) \cup Regs("IO", {\h3C6})
    \cup Regs("CR", {\h19, \h1A, \h28, \h2A}) \cup Regs("GR", {\h0B, \h0C})
ali_setregs == ali_saveregs
ali_setpage == Place("IO", \h3D6, 0, 0, 8) \cup Place("IO", \h3D7, 0, 0, 8)
ali_setdisplaystart == StartFrom(3) \cup Place("CR", \h20, 0, 19, 3)
ali_setlogicalwidth == Pitch
ali_getmodeinfo == UpTo(19, 11, 3)
ali ==
  [saveregs |-> ali_saveregs, setregs |-> ali_setregs,
   mode |-> Table(ali_setregs, {}, Pitch16),
   vga |-> {}, linear |-> {},
   setpage |-> ali_setpage, setdisplaystart |-> ali_setdisplaystart,
   setlogicalwidth |-> ali_setlogicalwidth, range |-> ali_getmodeinfo,
   lost |-> [start |-> {0, 1, 2, 19}, width |-> 3..11, page |-> {}]]

-----------------------------------------------------------------------------
(* Tseng ET3000 (et3000.c).                                                *)

et3000_saveregs ==
  Bytes("CR", {\h23}) \cup Regs("CR", {\h24, \h25}) \cup Regs("SR", {6, 7})
    \cup Bytes("IO", {\h3CD}) \cup Regs("AR", {\h16})
et3000_setregs == et3000_saveregs
et3000_setpage ==
  Place("IO", \h3CD, 0, 0, 3) \cup Place("IO", \h3CD, 3, 0, 3)
    \cup Set(Bits("IO", \h3CD, {6})) \cup Clear(Bits("IO", \h3CD, {7}))
et3000_setdisplaystart ==
  StartFrom(2) \cup Panning \cup Place("CR", \h23, 1, 18, 1)
et3000_setlogicalwidth == Pitch
et3000_getmodeinfo == UpTo(18, 11, 2)
et3000 ==
  [saveregs |-> et3000_saveregs, setregs |-> et3000_setregs,
   mode |-> Table(et3000_setregs,
                 Bits("CR", \h23, {1}) \cup Bits("IO", \h3CD, {7}), Pitch16),
   vga |-> {}, linear |-> {},
   setpage |-> et3000_setpage, setdisplaystart |-> et3000_setdisplaystart,
   setlogicalwidth |-> et3000_setlogicalwidth, range |-> et3000_getmodeinfo,
   lost |-> [Intact EXCEPT !.width = 3..11]]

-----------------------------------------------------------------------------
(* Tseng ET4000 (et4000.c), without a W32's windows and hi-color RAMDAC.   *)
(* Bit 11 of a width is ORed into bit 6 of CR3F, which nothing clears.     *)

et4000_saveregs ==
  Regs("CR", (\h30..\h32) \cup {\h35}) \cup Bytes("CR", {\h33, \h34, \h36, \h37, \h3F})
    \cup Regs("SR", {7}) \cup Regs("IO", {\h3C3}) \cup Bytes("IO", {\h3CD})
    \cup Regs("AR", {\h16})
et4000_setregs ==
  (et4000_saveregs \ Bytes("CR", {\h36, \h37}))
    \cup Bits("CR", \h36, 0..7 \ {6}) \cup Bits("CR", \h37, {2, 6})
et4000_setmode == Bits("CR", \h34, {1})     \* before a standard mode
et4000_setpage == Place("IO", \h3CD, 0, 0, 4) \cup Place("IO", \h3CD, 4, 0, 4)
et4000_setdisplaystart ==
  StartFrom(2) \cup Panning \cup Place("CR", \h33, 0, 18, 2)
et4000_setlogicalwidth == Pitch \cup Clear(Bits("CR", \h3F, {7}))
et4000_getmodeinfo == UpTo(19, 11, 3)
et4000 ==
  [saveregs |-> et4000_saveregs, setregs |-> et4000_setregs,
   mode |-> Table(et4000_setregs, Bits("CR", \h33, {0, 1}),
                 Pitch \cup Place("CR", \h3F, 7, 11, 1)),
   vga |-> et4000_setmode, linear |-> {},
   setpage |-> et4000_setpage, setdisplaystart |-> et4000_setdisplaystart,
   setlogicalwidth |-> et4000_setlogicalwidth, range |-> et4000_getmodeinfo,
   lost |-> [Intact EXCEPT !.width = {11}]]

-----------------------------------------------------------------------------
(* Genoa 6400 (gvga6400.c). What the shift of the start is depends on an   *)
(* uninitialized local (gvga6400.c:144): no bit of it is to be relied on.  *)

gvga6400_saveregs ==
  Bytes("SR", {6}) \cup Regs("SR", {7, 8, \h10}) \cup Regs("GR", {9})
    \cup Regs("CR", {\h2F})
gvga6400_setregs == gvga6400_saveregs
gvga6400_setpage ==
  Place("SR", 6, 0, 0, 3) \cup Place("SR", 6, 3, 0, 3)
    \cup Set(Bits("SR", 6, {6})) \cup Clear(Bits("SR", 6, {7}))
gvga6400_setdisplaystart == StartFrom(0)
gvga6400_setlogicalwidth == Pitch
gvga6400_getmodeinfo == UpTo(15, 10, 2)
gvga6400 ==
  [saveregs |-> gvga6400_saveregs, setregs |-> gvga6400_setregs,
   mode |-> Table(gvga6400_setregs, Bits("SR", 6, {7}), Pitch16),
   vga |-> {}, linear |-> {},
   setpage |-> gvga6400_setpage, setdisplaystart |-> gvga6400_setdisplaystart,
   setlogicalwidth |-> gvga6400_setlogicalwidth, range |-> gvga6400_getmodeinfo,
   lost |-> [Intact EXCEPT !.start = 0..15, !.width = 3..10]]

-----------------------------------------------------------------------------
(* Oak OTI-067 (oak.c). The registers behind port 3DE are OTI. Bit 19 of a *)
(* start has no place on this chip.                                        *)

oak_saveregs ==
  Regs("OTI", {\h0D, \h0E, \h12, \h15, \h16}) \cup Bytes("OTI", {\h11, \h14})
oak_setregs == oak_saveregs
oak_setpage == Place("OTI", \h11, 0, 0, 4) \cup Place("OTI", \h11, 4, 0, 4)
oak_setdisplaystart ==
  StartFrom(2) \cup Panning \cup Place("OTI", \h14, 3, 18, 1)
oak_setlogicalwidth == Pitch
oak_getmodeinfo == UpTo(19, 10, 2)
oak ==
  [saveregs |-> oak_saveregs, setregs |-> oak_setregs,
   mode |-> Table(oak_setregs, Bits("OTI", \h14, {3}), Pitch16),
   vga |-> {}, linear |-> {},
   setpage |-> oak_setpage, setdisplaystart |-> oak_setdisplaystart,
   setlogicalwidth |-> oak_setlogicalwidth, range |-> oak_getmodeinfo,
   lost |-> [Intact EXCEPT !.start = {19}, !.width = 3..10]]

-----------------------------------------------------------------------------
(* Paradise WD90C (paradise.c). Of the start only bits 16 and 17 are set.  *)
(* What setregs writes to AR20 is the byte after the mode's table, which   *)
(* is one short (paradise.c:219): some value, but always the same.         *)

paradise_saveregs ==
  Regs("SR", {3, 6, 7, \h10, \h12, \h14, \h15}) \cup Bytes("SR", {\h11})
    \cup Bytes("GR", 9..\h0B) \cup Regs("GR", \h0C..\h0F)
    \cup Regs("CR", {\h18, \h30, \h32, \h34, \h3E} \cup (\h29..\h2E))
    \cup Bytes("CR", {\h2F}) \cup Regs("AR", {\h20})
paradise_setregs == paradise_saveregs
paradise_setpage ==
  Place("GR", 9, 4, 0, 4) \cup Place("GR", \h0A, 4, 0, 4)
    \cup Clear(Bits("GR", 9, 0..3) \cup Bits("GR", \h0A, 0..3))
    \cup Set(Bits("SR", \h11, {7}) \cup Bits("GR", \h0B, {7}))
paradise_setdisplaystart == Place("CR", \h2F, 3, 16, 2)
paradise_setlogicalwidth == Pitch
paradise_getmodeinfo == UpTo(17, 10, 2)
paradise ==
  [saveregs |-> paradise_saveregs, setregs |-> paradise_setregs,
   mode |-> Table(paradise_setregs,
                 Bits("CR", \h2F, {3, 4}) \cup Bits("GR", 9, 0..3)
                   \cup Bits("GR", \h0A, 0..3), Pitch),
   vga |-> {}, linear |-> {},
   setpage |-> paradise_setpage, setdisplaystart |-> paradise_setdisplaystart,
   setlogicalwidth |-> paradise_setlogicalwidth, range |-> paradise_getmodeinfo,
   lost |-> [Intact EXCEPT !.start = 0..15]]

-----------------------------------------------------------------------------
(* Trident 8900 with 1 MB (tvga8900.c; SR0C and CR1F of the text are saved *)
(* in vga.c). SR0D and SR0E are two registers each, the old ones behind a  *)
(* switch in SR0B. A page goes to the new SR0E with one bit inverted.      *)

tvga8900_saveregs ==
  Regs("CR", \h18..\h1D) \cup Bytes("CR", {\h1E, \h1F})
    \cup Regs("SRold", {\h0D}) \cup Bytes("SRold", {\h0E})
    \cup Regs("SR", {\h0C, \h0D}) \cup Bytes("SR", {\h0E})
tvga8900_setregs ==
  tvga8900_saveregs \ (Bits("CR", \h1F, {0, 1}) \cup Bits("SRold", \h0E, {3}))
tvga8900_setpage == Place("SR", \h0E, 0, 0, 8)
tvga8900_setdisplaystart ==
  StartFrom(3) \cup Place("AR", 19, 0, 0, 3) \cup Clear(Bits("AR", 19, {3}))
    \cup Place("CR", \h1E, 5, 19, 1) \cup Set(Bits("CR", \h1E, {7}))
    \cup Place("SRold", \h0E, 0, 20, 1)
tvga8900_setlogicalwidth == Pitch
tvga8900_getmodeinfo == UpTo(19, 10, 3)
tvga8900 ==
  [saveregs |-> tvga8900_saveregs, setregs |-> tvga8900_setregs,
   mode |-> Table(tvga8900_setregs,
                 Bits("CR", \h1E, {5}) \cup Bits("SRold", \h0E, {0}), Pitch16),
   vga |-> {}, linear |-> {},
   setpage |-> tvga8900_setpage, setdisplaystart |-> tvga8900_setdisplaystart,
   setlogicalwidth |-> tvga8900_setlogicalwidth, range |-> tvga8900_getmodeinfo,
   lost |-> [Intact EXCEPT !.width = 3..10]]
=============================================================================
