------------------------------ MODULE PciCards ------------------------------
(***************************************************************************)
(* More drivers that compute a mode's registers from its timing, of cards  *)
(* on the PCI bus and after (src/src/drivers), as in TimedCards. Left out  *)
(* are a hardware cursor's registers and those that a mode writes without  *)
(* anything having been put in their place.                                *)
(***************************************************************************)
EXTENDS Registers

-----------------------------------------------------------------------------
(* nVidia Riva TNT with 16 MB (nv3.c). Bit 7 of the page is masked off.    *)

nv3_IO == Regs("IO", {\h200, \h508, \h50C, \h600})   \* config, PLLs, general
nv3_saveregs ==
  Bytes("CR", {\h19, \h1D, \h1E, \h2D})
    \cup Regs("CR", {\h18, \h1A, \h1B, \h1C, \h20, \h25, \h28, \h39}) \cup nv3_IO
nv3_setregs == nv3_saveregs \ Regs("CR", {\h18})
nv3_initializemode ==
  [Inherited(Regs("CR", {\h1A, \h1B, \h1C, \h25, \h28, \h39})
               \cup Bits("CR", \h2D, 0..4) \cup nv3_IO,
             Bits("CR", \h19, 0..4) \cup Bits("CR", \h2D, 5..7),
             Pitch \cup Place("CR", \h19, 5, 11, 3))
     EXCEPT !.fast = Regs("CR", {\h20})]
nv3_setmode ==    \* before a standard mode
  Bytes("CR", {\h19, \h1D, \h1E, \h2D}) \cup Regs("CR", {\h1A, \h1B, \h1C, \h25, \h28})
    \cup Regs("IO", {\h50C, \h600})
nv3_setpage ==
  Place("CR", \h1D, 1, 0, 7) \cup Place("CR", \h1E, 1, 0, 7)
    \cup Clear(Bits("CR", \h1D, {0}) \cup Bits("CR", \h1E, {0}))
nv3_setdisplaystart ==
  StartFrom(2) \cup Panning \cup Place("CR", \h19, 0, 18, 5)
    \cup Place("CR", \h2D, 5, 23, 2)
nv3_setlogicalwidth == Pitch \cup Place("CR", \h19, 5, 11, 3)
nv3_getmodeinfo == UpTo(23, 11, 7)
nv3 ==
  [saveregs |-> nv3_saveregs, setregs |-> nv3_setregs,
   mode |-> nv3_initializemode, vga |-> nv3_setmode, linear |-> {},
   setpage |-> nv3_setpage, setdisplaystart |-> nv3_setdisplaystart,
   setlogicalwidth |-> nv3_setlogicalwidth, range |-> nv3_getmodeinfo,
   lost |-> [Intact EXCEPT !.page = {7}]]

-----------------------------------------------------------------------------
(* VIA Unichrome with 64 MB (unichrome.c), which has no pages. CR23 is     *)
(* saved but not set again.                                                *)

unichrome_saveregs ==
  Regs("SR", \h10..\h4F) \cup Bytes("CR", {\h23, \h33, \h35, \h36})
    \cup Regs("CR", \h18..\hBF \ {\h23, \h33, \h35, \h36})
unichrome_setregs ==
  Regs("SR", (\h14..\h1F) \cup (\h22..\h2B) \cup {\h2E} \cup (\h44..\h47))
    \cup Bytes("CR", {\h33, \h35, \h36})
    \cup Regs("CR", {\h32, \h34} \cup ((\h50..\hB7) \ (\h6A..\h6C)))
unichrome_initializemode ==
  Inherited(Regs("SR", {\h15, \h16, \h17, \h18, \h1A, \h1C, \h1D, \h46, \h47})
              \cup Bytes("CR", {\h33}) \cup Bits("CR", \h36, {3})
              \cup Bits("CR", \h35, 0..3),
            Regs("CR", {\h34}),
            Pitch \cup Place("CR", \h35, 5, 11, 3))
unichrome_setpage == {}
unichrome_setdisplaystart == StartFrom(2) \cup Place("CR", \h23, 0, 18, 8)
unichrome_setlogicalwidth == Pitch \cup Place("CR", \h35, 5, 11, 3)
unichrome_getmodeinfo == [UpTo(25, 11, 0) EXCEPT !.page = {}]
unichrome ==
  [saveregs |-> unichrome_saveregs, setregs |-> unichrome_setregs,
   mode |-> unichrome_initializemode, vga |-> {}, linear |-> {},
   setpage |-> unichrome_setpage, setdisplaystart |-> unichrome_setdisplaystart,
   setlogicalwidth |-> unichrome_setlogicalwidth, range |-> unichrome_getmodeinfo,
   lost |-> [Intact EXCEPT !.start = {0, 1} \cup (18..25)]]

-----------------------------------------------------------------------------
(* SiS 6326 with 4 MB (sis.c), without linear addressing. The page is      *)
(* neither saved nor set.                                                  *)

sis_saveregs == Bytes("SR", {6, 7, 9, \h0A, \h0C, \h13, \h27})
                  \cup Regs("SR", (6..\h3F) \ {6, 7, 9, \h0A, \h0C, \h13, \h27})
sis_setregs == sis_saveregs
sis_initializemode ==
  Inherited(Bytes("SR", {6}) \cup Bits("SR", 7, {7}) \cup Bits("SR", 9, 0..3)
              \cup Bits("SR", \h0A, 0..3) \cup Bits("SR", \h0C, {5})
              \cup Bits("SR", \h13, {6}) \cup Regs("SR", {8, \h0B, \h2A, \h2B}),
            Bits("SR", \h27, 0..3) \cup Regs("SR", {\h1C, \h1F}),
            Pitch \cup Place("SR", \h0A, 4, 11, 4))
sis_setmode == Bits("SR", 6, 1..4)     \* before a standard mode
sis_setpage == Place("IO", \h3CB, 0, 0, 8) \cup Place("IO", \h3CD, 0, 0, 8)
sis_setdisplaystart == StartFrom(2) \cup Place("SR", \h27, 0, 18, 4)
sis_setlogicalwidth == Pitch \cup Place("SR", \h0A, 4, 11, 4)
sis_getmodeinfo == UpTo(21, 13, 5)
sis ==
  [saveregs |-> sis_saveregs, setregs |-> sis_setregs,
   mode |-> sis_initializemode, vga |-> sis_setmode, linear |-> {},
   setpage |-> sis_setpage, setdisplaystart |-> sis_setdisplaystart,
   setlogicalwidth |-> sis_setlogicalwidth, range |-> sis_getmodeinfo,
   lost |-> [Intact EXCEPT !.start = {0, 1}]]

-----------------------------------------------------------------------------
(* S3 Trio64 with 4 MB (s3.c), without linear addressing. setlogicalwidth  *)
(* puts bits of the width into CR51 that are not its (s3.c:1290).          *)

s3_own == Regs("CR", {\h32, \h33, \h34, \h3A, \h3B, \h3C, \h43, \h44, \h54, \h59,
                      \h5A, \h5E, \h60, \h61, \h62})
            \cup Regs("DAC", {0})
s3_setregs ==
  s3_own \cup Bytes("CR", {\h31, \h35, \h50, \h51, \h55, \h5D})
    \cup Regs("CR", {\h42, \h45, \h58, \h66, \h67, \h6A, \h6D})
s3_saveregs ==
  s3_setregs \cup Regs("CR", {\h30} \cup (\h36..\h39) \cup (\h46..\h4F))
    \cup Regs("SR", {8, 9, \h0A, \h0D, \h15, \h18} \cup (\h10..\h13))
s3_initializemode ==
  Inherited(s3_own \cup Bits("CR", \h31, 0..7 \ {4, 5})
              \cup Bits("CR", \h50, {0} \cup (4..7))
              \cup Bits("CR", \h55, 0..7 \ {3}) \cup Bits("CR", \h5D, 0..6),
            Bits("CR", \h31, {4, 5}) \cup Bytes("CR", {\h35})
              \cup Bits("CR", \h51, 0..3),
            Pitch \cup Place("CR", \h51, 4, 11, 2))
s3_setmode == Regs("CR", {\h34})     \* before a standard mode
s3_setpage == Place("CR", \h35, 0, 0, 4) \cup Place("CR", \h51, 2, 4, 2)
s3_setdisplaystart ==
  StartFrom(2) \cup Panning \cup Place("CR", \h31, 4, 18, 2)
    \cup Place("CR", \h51, 0, 20, 2)
s3_setlogicalwidth ==
  Pitch \cup Place("CR", \h51, 4, 8, 2) \cup Clear(Bits("CR", \h51, 0..7 \ {4, 5}))
s3_getmodeinfo == UpTo(21, 12, 5)
s3 ==
  [saveregs |-> s3_saveregs, setregs |-> s3_setregs,
   mode |-> s3_initializemode, vga |-> s3_setmode, linear |-> {},
   setpage |-> s3_setpage, setdisplaystart |-> s3_setdisplaystart,
   setlogicalwidth |-> s3_setlogicalwidth, range |-> s3_getmodeinfo,
   lost |-> [Intact EXCEPT !.width = 3..12]]

-----------------------------------------------------------------------------
(* NeoMagic NM2160 with 2 MB (neo.c). A mode sets fewer registers than the *)
(* text does.                                                              *)

neo_own == Regs("GR", {\h0A, \h16} \cup (\h28..\h2A) \cup (\h32..\h36))
neo_parts == Bytes("GR", {\h0E, \h0F, \h10, \h11, \h15, \h20, \h25, \h30, \h90})
neo_saveregs ==
  neo_own \cup neo_parts
    \cup Regs("CR", {\h25, \h2F} \cup (\h40..\h59) \cup (\h60..\h69) \cup (\h70..\h85))
neo_setregs == neo_saveregs
neo_initializemode ==
  Inherited(neo_own \cup Bits("GR", \h0E, 3..7) \cup Bits("GR", \h10, 4..7)
              \cup Bits("GR", \h11, 2..7) \cup Bits("GR", \h20, {0, 1, 5})
              \cup Bits("GR", \h25, {0, 1, 2, 6, 7}) \cup Bits("GR", \h30, {4})
              \cup Bits("GR", \h90, (0..3) \cup {7}),
            Bits("GR", \h0E, 0..2) \cup Bits("GR", \h11, 0..1) \cup Bytes("GR", {\h15}),
            Pitch \cup Place("GR", \h0F, 0, 11, 8))
neo_setpage ==
  Place("GR", \h15, 2, 0, 6)
    \cup Clear(Bits("GR", \h15, {0, 1}) \cup Bits("GR", \h11, {0, 1}))
neo_setdisplaystart == StartFrom(2) \cup Place("GR", \h0E, 0, 18, 3)
neo_setlogicalwidth == Pitch \cup Place("GR", \h0F, 0, 11, 8)
neo_getmodeinfo == UpTo(20, 10, 4)
neo ==
  [saveregs |-> neo_saveregs, setregs |-> neo_setregs,
   mode |-> neo_initializemode, vga |-> {}, linear |-> {},
   setpage |-> neo_setpage, setdisplaystart |-> neo_setdisplaystart,
   setlogicalwidth |-> neo_setlogicalwidth, range |-> neo_getmodeinfo,
   lost |-> [Intact EXCEPT !.start = {0, 1}]]

-----------------------------------------------------------------------------
(* Intel i740 with 8 MB (i740.c) and i810 with 4 MB (i810.c). CR0C is      *)
(* always 0. The page's register is neither saved nor set.                 *)

intel_start ==
  Place("CR", \h0D, 0, 2, 8) \cup Clear(Bytes("CR", {\h0C}))
    \cup Place("CR", \h40, 0, 18, 6) \cup Set(Bits("CR", \h40, {7}))
    \cup Clear(Bits("CR", \h40, {6})) \cup Place("CR", \h42, 0, 24, 8)
intel_width == Pitch \cup Place("CR", \h41, 0, 11, 8)
intel_CR == Regs("CR", (\h30..\h33) \cup {\h35, \h39, \h70})
intel_selects == Bytes("CR", {\h40, \h41, \h42})
intel_lost == [Intact EXCEPT !.start = {0, 1} \cup (10..17)]

i740_own ==
  (intel_CR \cup Regs("XR", {9, \h0A, \h40, \hC8, \hC9, \hCA, \hCB, \hCE} \cup (\h80..\h82))
     \cup Regs("IO", {\h6000}))
i740_saveregs == i740_own \cup intel_selects
i740_setregs == i740_saveregs
i740_initializemode == Table(i740_own, Bytes("CR", {\h40, \h42}), intel_width)
i740_setpage == Place("XR", \h0E, 0, 0, 8)
i740_getmodeinfo == UpTo(22, 12, 6)
i740 ==
  [saveregs |-> i740_saveregs, setregs |-> i740_setregs,
   mode |-> i740_initializemode, vga |-> {}, linear |-> {},
   setpage |-> i740_setpage, setdisplaystart |-> intel_start,
   setlogicalwidth |-> intel_width, range |-> i740_getmodeinfo,
   lost |-> intel_lost]

i810_own ==
  intel_CR \cup Regs("CR", {\h80}) \cup Regs("GR", {\h10})
    \cup Regs("IO", {\h6008, \h600A, \h6012} \cup (\h70008..\h7000B))
i810_saveregs == i810_own \cup intel_selects
i810_setregs == i810_saveregs
i810_initializemode ==
  Table(i810_own \cup Bits("CR", \h40, {7}),
        Bits("CR", \h40, 0..6) \cup Bytes("CR", {\h42}), intel_width)
i810_setpage == Place("GR", \h11, 0, 0, 8)
i810_getmodeinfo == UpTo(21, 12, 5)
i810 ==
  [saveregs |-> i810_saveregs, setregs |-> i810_setregs,
   mode |-> i810_initializemode, vga |-> {}, linear |-> {},
   setpage |-> i810_setpage, setdisplaystart |-> intel_start,
   setlogicalwidth |-> intel_width, range |-> i810_getmodeinfo,
   lost |-> intel_lost]

-----------------------------------------------------------------------------
(* S3 Savage4 with 8 MB (savage.c). setlogicalwidth leaves the bits above  *)
(* CR13. The page's register is neither saved nor set.                     *)

savage_own ==
  Regs("CR", (\h31..\h34) \cup {\h36, \h3A, \h3B, \h3C, \h40, \h42, \h43, \h45, \h50}
               \cup {\h53, \h5D, \h5E, \h6F, \h86, \h88} \cup (\h65..\h68))
    \cup Regs("SR", {\h12, \h13, \h15, \h18, \h1B, \h29})
savage_saveregs == savage_own \cup Bytes("CR", {\h51, \h58, \h69})
savage_FaultySetregs == savage_saveregs \ Bytes("CR", {\h69})
savage_setregs == savage_saveregs
savage_initializemode ==
  Inherited(savage_own \cup Bytes("CR", {\h58}),
            Bits("CR", \h51, 0..7 \ {4, 5}) \cup Bytes("CR", {\h69}),
            Pitch \cup Place("CR", \h51, 4, 11, 2))
savage_setmode == Regs("CR", {\h34})     \* before a standard mode
savage_setpage == Place("CR", \h6A, 0, 0, 8)
savage_setdisplaystart == StartFrom(2) \cup Place("CR", \h69, 0, 18, 8)
savage_setlogicalwidth == Pitch
savage_linear == Bits("CR", \h58, {0, 1, 4})
savage_getmodeinfo == UpTo(22, 11, 6)
savage ==
  [saveregs |-> savage_saveregs, setregs |-> savage_setregs,
   mode |-> savage_initializemode, vga |-> savage_setmode, linear |-> savage_linear,
   setpage |-> savage_setpage, setdisplaystart |-> savage_setdisplaystart,
   setlogicalwidth |-> savage_setlogicalwidth, range |-> savage_getmodeinfo,
   lost |-> [Intact EXCEPT !.start = {0, 1}, !.width = 3..11]]

-----------------------------------------------------------------------------
(* Trident Blade3D with 8 MB (trident.c). As there.                        *)

trident_own ==
  Regs("CR", {\h21, \h25, \h2A, \h2B, \h2F, \h36, \h38, \h39, \h3A, \h55, \h56, \h57, \h62})
    \cup Regs("SR", {\h0D, \h12, \h18, \h19, \h20, \h37, \h57})
    \cup Regs("GR", {\h2F}) \cup Regs("DAC", {0})
trident_saveregs ==
  trident_own \cup Bytes("CR", {\h1E, \h27, \h29}) \cup Bytes("GR", {\h0F})
trident_setregs == trident_saveregs
trident_initializemode ==
  Inherited(trident_own \cup Bits("CR", \h1E, 0..7 \ {5}) \cup Bits("CR", \h27, 3..7)
              \cup Bytes("GR", {\h0F}),
            Bits("CR", \h1E, {5}) \cup Bits("CR", \h27, 0..2),
            Pitch \cup Place("CR", \h29, 4, 11, 2))
trident_setpage == Place("IO", \h3D8, 0, 0, 8) \cup Place("IO", \h3D9, 0, 0, 8)
trident_setdisplaystart ==
  StartFrom(2) \cup Place("CR", \h1E, 5, 18, 1) \cup Place("CR", \h27, 0, 19, 3)
trident_setlogicalwidth == Pitch
trident_linear == Bits("GR", \h0F, {2}) \cup Regs("CR", {\h21})
trident_getmodeinfo == UpTo(22, 11, 6)
trident ==
  [saveregs |-> trident_saveregs, setregs |-> trident_setregs,
   mode |-> trident_initializemode, vga |-> {}, linear |-> trident_linear,
   setpage |-> trident_setpage, setdisplaystart |-> trident_setdisplaystart,
   setlogicalwidth |-> trident_setlogicalwidth, range |-> trident_getmodeinfo,
   lost |-> [Intact EXCEPT !.start = {0, 1, 22}, !.width = 3..11]]

-----------------------------------------------------------------------------
(* Matrox G400 with 16 MB (g400.c). EXT are the registers behind 3DE.      *)

g400_own == Regs("EXT", {1, 2, 3, 5}) \cup Regs("DAC", 0..\h4F)
              \cup Regs("PCI", {\h40, \h50, \h54}) \cup Regs("IO", {\h1E54})
g400_saveregs ==
  g400_own \cup Bytes("EXT", {0, 4}) \cup Regs("EXT", 6..8) \cup Regs("DAC", \h50..\hAF)
g400_setregs == g400_own \cup Bytes("EXT", {0, 4})
g400_initializemode ==
  Table(g400_own \cup Bits("EXT", 0, {7}),
        Bits("EXT", 0, (0..3) \cup {6}) \cup Bytes("EXT", {4}),
        Pitch16 \cup Place("EXT", 0, 4, 12, 2))
g400_setpage == Place("EXT", 4, 0, 0, 8)
g400_setdisplaystart ==
  StartFrom(3) \cup Place("EXT", 0, 0, 19, 4) \cup Place("EXT", 0, 6, 23, 1)
g400_setlogicalwidth == Pitch16 \cup Place("EXT", 0, 4, 12, 2)
g400_getmodeinfo == UpTo(23, 12, 7)
g400 ==
  [saveregs |-> g400_saveregs, setregs |-> g400_setregs,
   mode |-> g400_initializemode, vga |-> {}, linear |-> {},
   setpage |-> g400_setpage, setdisplaystart |-> g400_setdisplaystart,
   setlogicalwidth |-> g400_setlogicalwidth, range |-> g400_getmodeinfo,
   lost |-> [Intact EXCEPT !.start = {0, 1, 2}, !.width = {3}]]

-----------------------------------------------------------------------------
(* Cirrus Logic GD5434 with 4 MB (cirrus.c), in modes of up to 3 bytes for *)
(* a pixel.                                                                *)

cirrus_own == Regs("CR", {\h19, \h1A}) \cup Regs("GR", {\h0B})
                \cup Regs("SR", {\h0E, \h1E}) \cup Regs("DAC", {0})
cirrus_saveregs ==
  cirrus_own \cup Bytes("CR", {\h1B, \h1D}) \cup Bytes("GR", {9}) \cup Regs("GR", {\h0A})
    \cup Bytes("SR", {7, \h0F, \h16}) \cup Regs("SR", {\h1F})
cirrus_setregs == cirrus_saveregs
cirrus_initializemode ==
  Inherited(cirrus_own \cup Bytes("SR", {7}) \cup Bits("CR", \h1B, {1, 5, 6, 7})
              \cup Bits("SR", \h0F, {5}) \cup Bits("SR", \h16, 0..3),
            Bytes("GR", {9}) \cup Regs("GR", {\h0A}) \cup Bits("CR", \h1B, {0, 2, 3})
              \cup Bits("CR", \h1D, {7}),
            Pitch \cup Place("CR", \h1B, 4, 11, 1))
cirrus_setpage_2M == Place("GR", 9, 2, 0, 6) \cup Clear(Bits("GR", 9, {0, 1}))
cirrus_setdisplaystart ==
  StartFrom(2) \cup Place("AR", 19, 0, 0, 2) \cup Clear(Bits("AR", 19, {2, 3}))
    \cup Place("CR", \h1B, 0, 18, 1) \cup Place("CR", \h1B, 2, 19, 2)
    \cup Place("CR", \h1D, 7, 21, 1)
cirrus_setlogicalwidth == Pitch \cup Place("CR", \h1B, 4, 11, 1)
cirrus_setlinear == Bits("SR", 7, 4..7)
cirrus_getmodeinfo == UpTo(21, 11, 5)
cirrus ==
  [saveregs |-> cirrus_saveregs, setregs |-> cirrus_setregs,
   mode |-> cirrus_initializemode, vga |-> {}, linear |-> cirrus_setlinear,
   setpage |-> cirrus_setpage_2M, setdisplaystart |-> cirrus_setdisplaystart,
   setlogicalwidth |-> cirrus_setlogicalwidth, range |-> cirrus_getmodeinfo,
   lost |-> Intact]
=============================================================================
