----------------------------- MODULE TimedCards -----------------------------
(***************************************************************************)
(* Drivers that compute a mode's registers from its timing (src/src/       *)
(* drivers), in the terms of Registers: what their functions save, set and *)
(* select, in modes of one byte or more for a pixel and of fewer than 1024 *)
(* lines. Most start from what saveregs reads. Bits that only unlock or    *)
(* strobe are left out, and so are the registers of a RAMDAC of its own    *)
(* beyond one unit. A register the driver reaches by a port or a memory    *)
(* address is of the kind IO.                                              *)
(***************************************************************************)
EXTENDS Registers

-----------------------------------------------------------------------------
(* ARK 2000PV with 2 MB (ark.c). setlogicalwidth shifts bit 11 out.        *)

ark_saveregs ==
  Bytes("SR", {\h10, \h11, \h12, \h15, \h16, \h18})
    \cup Regs("SR", {\h13, \h14, \h19, \h1C, \h1D})
    \cup Bytes("CR", {\h40, \h41, \h44, \h46}) \cup Regs("CR", {\h42, \h50})
    \cup Regs("IO", {\h3C6}) \cup Regs("DAC", {0})
ark_setregs == ark_saveregs \ (Regs("SR", {\h19}) \cup Regs("CR", {\h50}))
ark_initializemode ==
  [Inherited(Bits("SR", \h10, 0..4) \cup Bits("SR", \h11, 0..3)
               \cup Bits("SR", \h18, 0..7 \ {6}) \cup Regs("SR", {\h13, \h14})
               \cup Bits("CR", \h41, 4..7) \cup Bits("CR", \h44, {0, 2, 4, 5})
               \cup Bits("CR", \h46, {2}) \cup Regs("IO", {\h3C6}) \cup Regs("DAC", {0}),
             Bits("SR", \h12, {0, 1}) \cup Bytes("SR", {\h15, \h16})
               \cup Bytes("CR", {\h40}),
             Pitch \cup Place("CR", \h41, 3, 11, 1))
     EXCEPT !.fast = Bits("SR", \h11, {6, 7}) \cup Regs("CR", {\h42})]
ark_setpage == Place("SR", \h15, 0, 0, 8) \cup Place("SR", \h16, 0, 0, 8)
ark_setdisplaystart ==
  StartFrom(2) \cup Panning \cup Place("CR", \h40, 0, 18, 3)
    \cup Clear(Bits("CR", \h40, 3..7))
ark_setlogicalwidth == Pitch \cup Clear(Bits("CR", \h41, {3}))
ark_linear == Bits("SR", \h12, {0, 1}) \cup Regs("SR", {\h13, \h14})
ark_getmodeinfo == UpTo(20, 11, 4)
ark ==
  [saveregs |-> ark_saveregs, setregs |-> ark_setregs,
   mode |-> ark_initializemode, vga |-> {}, linear |-> ark_linear,
   setpage |-> ark_setpage, setdisplaystart |-> ark_setdisplaystart,
   setlogicalwidth |-> ark_setlogicalwidth, range |-> ark_getmodeinfo,
   lost |-> [Intact EXCEPT !.width = {11}]]

-----------------------------------------------------------------------------
(* Alliance AT3D with 4 MB (apm.c). The page is not restored but set to 0, *)
(* and setlogicalwidth is empty.                                           *)

apm_saveregs ==
  Regs("CR", {\h19, \h1A, \h1B, \h1D, \h1E}) \cup Bytes("CR", {\h1C})
    \cup Regs("SR", {\h1B, \h1C})
    \cup Regs("IO", {\h80, \hE8, \hEC, \hF0, \hF4, \h140, \h144, \h148, \h14C})
    \cup Bits("IO", \hC0, 4..7)
apm_setregs ==
  Regs("CR", {\h19, \h1A, \h1B, \h1D, \h1E}) \cup Bytes("CR", {\h1C})
    \cup Regs("SR", {\h1B, \h1C}) \cup Regs("IO", {\h80, \hE8, \hEC})
apm_initializemode ==
  Inherited(Regs("CR", {\h1A, \h1B, \h1E}) \cup Regs("SR", {\h1B, \h1C})
              \cup Regs("IO", {\h80, \hE8, \hEC}),
            Bits("CR", \h1C, 0..3),
            Pitch \cup Place("CR", \h1C, 4, 11, 4))
apm_setpage == Place("IO", \hC0, 4, 0, 12)
apm_setdisplaystart == StartFrom(0) \cup Place("CR", \h1C, 0, 16, 4)
apm_setlogicalwidth == {}
apm_getmodeinfo == UpTo(21, 11, 5)
apm ==
  [saveregs |-> apm_saveregs, setregs |-> apm_setregs,
   mode |-> apm_initializemode, vga |-> {}, linear |-> {},
   setpage |-> apm_setpage, setdisplaystart |-> apm_setdisplaystart,
   setlogicalwidth |-> apm_setlogicalwidth, range |-> apm_getmodeinfo,
   lost |-> [start |-> {20, 21}, width |-> 3..11, page |-> {}]]

-----------------------------------------------------------------------------
(* MX86250 with 2 MB (mx.c). The page's register is neither saved nor set. *)

mx_saveregs ==
  Bytes("CR", {\h21, \h23, \h66}) \cup Regs("CR", {\h22, \h24, \h25} \cup (\h33..\h3C))
    \cup Regs("CR", \h60..\h6C \ {\h66}) \cup Regs("SR", {\h11, \h18, \h19, \h1D})
mx_setregs == mx_saveregs
mx_initializemode ==
  Inherited(Regs("CR", {\h22, \h24, \h25} \cup (\h33..\h3B))
              \cup Bits("CR", \h23, 0..5) \cup Regs("SR", {\h11, \h18, \h19, \h1D}),
            Bits("CR", \h66, {0}) \cup Bytes("CR", {\h21}),
            Pitch \cup Place("CR", \h23, 6, 11, 2))
mx_setpage == Place("CR", \h2E, 0, 0, 8)
mx_setdisplaystart == StartFrom(2) \cup Place("CR", \h21, 0, 18, 8)
mx_setlogicalwidth == Pitch \cup Place("CR", \h23, 6, 11, 2)
mx_getmodeinfo == UpTo(20, 11, 4)
mx ==
  [saveregs |-> mx_saveregs, setregs |-> mx_setregs,
   mode |-> mx_initializemode, vga |-> {}, linear |-> {},
   setpage |-> mx_setpage, setdisplaystart |-> mx_setdisplaystart,
   setlogicalwidth |-> mx_setlogicalwidth, range |-> mx_getmodeinfo,
   lost |-> [Intact EXCEPT !.start = {0, 1}]]

-----------------------------------------------------------------------------
(* 3Dfx Banshee with 16 MB (banshee.c). A line's width is what IO E8 says. *)

banshee_saveregs ==
  Regs("CR", {\h1A, \h1B}) \cup Words("IO", {\h28, \h2C, \h4C, \h5C, \hE4, \hE8})
    \cup Regs("IO", {\h40, \h44, \h50, \h60, \h64, \h68, \h6C, \h98})
banshee_setregs == banshee_saveregs
banshee_initializemode ==
  Inherited(Regs("CR", {\h1A, \h1B}) \cup Regs("IO", {\h40, \h98})
              \cup Bits("IO", \h4C, {0}) \cup Words("IO", {\h28})
              \cup Bits("IO", \h2C, 20..31)
              \cup Bits("IO", \h5C, (0..15) \cup {18, 19, 20, 26, 27}),
            Bits("IO", \h2C, 0..19) \cup Words("IO", {\hE4}),
            Place("IO", \hE8, 0, 0, 32))
banshee_setmode ==    \* before a standard mode
  Regs("CR", {\h1A, \h1B}) \cup Bits("IO", \h28, {0, 2, 6, 9, 12})
    \cup Bits("IO", \h2C, {20}) \cup Bits("IO", \h5C, {0})
banshee_setpage ==
  Place("IO", \h2C, 1, 0, 9) \cup Place("IO", \h2C, 11, 0, 9)
    \cup Clear(Bits("IO", \h2C, {0, 10}))
banshee_setdisplaystart == StartFrom(2) \cup Place("IO", \hE4, 0, 0, 32)
banshee_setlogicalwidth == Pitch \cup Place("IO", \hE8, 0, 0, 32)
banshee_getmodeinfo == UpTo(23, 11, 7)
banshee ==
  [saveregs |-> banshee_saveregs, setregs |-> banshee_setregs,
   mode |-> banshee_initializemode, vga |-> banshee_setmode, linear |-> {},
   setpage |-> banshee_setpage, setdisplaystart |-> banshee_setdisplaystart,
   setlogicalwidth |-> banshee_setlogicalwidth, range |-> banshee_getmodeinfo,
   lost |-> Intact]
=============================================================================
