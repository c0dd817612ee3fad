----------------------------- MODULE MappedCards -----------------------------
(***************************************************************************)
(* More drivers (src/src/drivers), of cards that keep most of their        *)
(* registers in a window of memory or of ports of their own, and that name *)
(* them by words rather than by an index: REG is such a window, whose      *)
(* registers go by the names or the numbers the driver gives them. What a  *)
(* mode writes without having put anything there is in raw.                *)
(***************************************************************************)
EXTENDS Registers

-----------------------------------------------------------------------------
(* Matrox Millennium with 4 MB, interleaved (millennium.c). A line is      *)
(* rounded up to 128 bytes. saveregs selects page 0 before it reads EXT 4. *)

millennium_regs ==     \* what MGA3026Save and MGA3026Restore go through
  Bytes("EXT", {0, 4}) \cup Regs("EXT", {1, 2, 3, 5})
    \cup Regs("PCI", {\h40}) \cup Regs("REG", {\h1E54})
    \cup Regs("CLK", 0..5) \cup Regs("DAC", 0..20)
millennium_saveregs == millennium_regs
millennium_setregs == millennium_regs
MGA3026Init ==
  Table((millennium_regs \ Bytes("EXT", {0, 4})) \cup Bits("EXT", 0, {7}),
        Bits("EXT", 0, (0..3) \cup {6}) \cup Bytes("EXT", {4}),
        Pitch16 \cup Place("EXT", 0, 4, 12, 2))
millennium_setpage == Place("EXT", 4, 0, 0, 8)
millennium_setdisplaystart == StartFrom(3) \cup Place("EXT", 0, 0, 19, 4)
millennium_setlogicalwidth == Pitch16 \cup Place("EXT", 0, 4, 12, 2)
millennium_getmodeinfo == UpTo(21, 11, 5)
millennium ==
  [saveregs |-> millennium_saveregs, setregs |-> millennium_setregs,
   mode |-> MGA3026Init, vga |-> {}, linear |-> {},
   setpage |-> millennium_setpage, setdisplaystart |-> millennium_setdisplaystart,
   setlogicalwidth |-> millennium_setlogicalwidth, range |-> millennium_getmodeinfo,
   lost |-> [Intact EXCEPT !.start = {0, 1, 2}, !.width = 3..6]]

-----------------------------------------------------------------------------
(* Cirrus Logic GD5464 with 4 MB (laguna.c). Bit 5 of EA is set in modes   *)
(* of 24 and 32 bits only. The start's high bits are taken from the bits   *)
(* just above CR0C, shifted once too often, and both calls write to CR1D   *)
(* what they read from CR1B: bits 1 and 5 of that are set in every mode.   *)

laguna_saveregs ==
  Regs("CR", {\h19, \h1A, \h1E}) \cup Bytes("CR", {\h1B, \h1D}) \cup Bytes("GR", {9})
    \cup Regs("GR", {\h0A, \h0B}) \cup Regs("SR", {7, \h0E, \h1E})
    \cup Regs("REG", {\h8C, \hB0, \hC0, \hE0, \hE2, \hE4, \hE6, \hE8})
    \cup Words("REG", {\h3FC, \h402, \h407, \hEA})
laguna_setregs == laguna_saveregs
laguna_initializemode ==
  [Inherited(Regs("CR", {\h19, \h1A, \h1E}) \cup Bits("CR", \h1B, {1, 5})
               \cup Regs("GR", {\h0B}) \cup Regs("SR", {7, \h0E, \h1E})
               \cup Regs("REG", {\h8C, \hC0}) \cup Bits("REG", \h3FC, {28})
               \cup Bits("REG", \h402, 11..14) \cup Bits("REG", \hEA, 0..4),
             Bits("CR", \h1B, {0, 2, 3, 6, 7}) \cup Bits("CR", \h1D, 1..7)
               \cup Bytes("GR", {9}) \cup Regs("REG", {\hB0, \hE4, \hE6})
               \cup Bits("REG", \h407, {6, 7}) \cup Bits("REG", \hEA, {6, 14, 15}),
             Pitch \cup Place("CR", \h1B, 4, 11, 1) \cup Place("CR", \h1D, 0, 12, 1))
     EXCEPT !.fast = Bits("REG", \hEA, {5}),
            !.raw = Regs("GR", {\h0A}) \cup Regs("REG", {\hE0, \hE2, \hE8})]
laguna_setmode == Regs("SR", {7}) \cup Regs("REG", {\hE6})   \* before a standard mode
laguna_setpage == Place("GR", 9, 2, 0, 6) \cup Clear(Bits("GR", 9, {0, 1}))
laguna_setdisplaystart ==
  StartFrom(2)
    \cup Place("CR", \h1B, 0, 10, 1) \cup Place("CR", \h1B, 2, 11, 2)
    \cup Place("CR", \h1D, 0, 10, 1) \cup Place("CR", \h1D, 2, 11, 1)
    \cup Place("CR", \h1D, 3, 13, 2)
    \cup Set(Bits("CR", \h1D, {1, 5})) \cup Clear(Bits("CR", \h1D, {6, 7}))
laguna_setlogicalwidth ==     \* of a start without the bits that CR1B keeps
  Pitch \cup Place("CR", \h1B, 4, 11, 1)
    \cup Place("CR", \h1D, 0, 12, 1) \cup Place("CR", \h1D, 4, 11, 1)
    \cup Set(Bits("CR", \h1D, {1, 5})) \cup Clear(Bits("CR", \h1D, {2, 3, 6, 7}))
laguna_getmodeinfo == UpTo(21, 11, 5)
laguna ==
  [saveregs |-> laguna_saveregs, setregs |-> laguna_setregs,
   mode |-> laguna_initializemode, vga |-> laguna_setmode, linear |-> {},
   setpage |-> laguna_setpage, setdisplaystart |-> laguna_setdisplaystart,
   setlogicalwidth |-> laguna_setlogicalwidth, range |-> laguna_getmodeinfo,
   lost |-> [Intact EXCEPT !.start = {0, 1} \cup (10..14) \cup (18..21), !.width = {11}]]

-----------------------------------------------------------------------------
(* Tseng ET6000 with 1 MB (et6000.c), without linear memory. With more,    *)
(* setpage would OR bits 4 and 5 of the page into the reading bank.        *)
(* setlogicalwidth shifts the width's high bits out of the byte. Left out  *)
(* are CR35, whose place in regs saveregs gives to PCI 57, and the bits of *)
(* 57 and 58 that setregs only ever sets.                                  *)

et6000_saveregs ==
  Regs("CR", {\h18, \h34}) \cup Bytes("CR", {\h33, \h3F}) \cup Bits("CR", \h34, {1})
    \cup Regs("AR", {\h16, \h17}) \cup Bytes("IO", {\h3CD})
    \cup Regs("PCI", {\h40, \h42, \h58, \h59})
et6000_setregs == et6000_saveregs
et6000_initializemode ==
  Table(Regs("CR", {\h18}) \cup Bits("CR", \h34, {1}) \cup Regs("AR", {\h16})
          \cup Regs("PCI", {\h40, \h42, \h58, \h59}) \cup Bits("CR", \h3F, 0..4),
        Regs("CR", {\h34}) \cup Bytes("CR", {\h33}) \cup Bits("CR", \h3F, {5})
          \cup Regs("AR", {\h17}) \cup Bytes("IO", {\h3CD}),
        Pitch \cup Place("CR", \h3F, 7, 11, 1) \cup Place("CR", \h3F, 6, 12, 1))
et6000_setmode == Bits("CR", \h34, {1})     \* before a standard mode
et6000_setpage ==
  Place("IO", \h3CD, 0, 0, 4) \cup Place("IO", \h3CD, 4, 0, 4)
    \cup Clear(Bits("IO", \h3CB, {0, 1, 4, 5}))
et6000_setdisplaystart ==
  StartFrom(2) \cup Place("CR", \h33, 0, 18, 2) \cup Clear(Bits("CR", \h33, {2, 3}))
et6000_setlogicalwidth == Pitch \cup Clear(Bits("CR", \h3F, {6, 7}))
et6000_getmodeinfo == UpTo(19, 11, 3)
et6000 ==
  [saveregs |-> et6000_saveregs, setregs |-> et6000_setregs,
   mode |-> et6000_initializemode, vga |-> et6000_setmode, linear |-> {},
   setpage |-> et6000_setpage, setdisplaystart |-> et6000_setdisplaystart,
   setlogicalwidth |-> et6000_setlogicalwidth, range |-> et6000_getmodeinfo,
   lost |-> [Intact EXCEPT !.start = {0, 1}, !.width = {11}]]

-----------------------------------------------------------------------------
(* ATI Mach64 from the VT-B on with 8 MB, its own DAC and clock, of which  *)
(* the BIOS gives number 3 to the driver (rage.c), in modes of a byte for  *)
(* a pixel. The two windows of 32 KB are the halves of a page.             *)

rage_whole ==
  Regs("REG", {"H_TOTAL_DISP", "H_SYNC_STRT_WID", "V_TOTAL_DISP", "V_SYNC_STRT_WID"}
                \cup {"OVR_CLR", "CLOCK_CNTL", "MEM_INFO", "GEN_TEST_CNTL"}
                \cup {"DSP_CONFIG", "DSP_ON_OFF", "DAC"})
rage_cursor ==
  Regs("REG", {"CUR_CLR0", "CUR_CLR1", "CUR_OFFSET", "CUR_HORZ_VERT_POSN", "CUR_HORZ_VERT_OFF"})
rage_parts ==
  Words("REG", {"OFF_PITCH", "GEN_CNTL", "BUS_CNTL", "CONFIG_CNTL", "DAC_CNTL"}
                 \cup {"INT_CNTL", "MEM_VGA_WP_SEL", "MEM_VGA_RP_SEL"})
rage_dac == Regs("REG", {"DAC_READ", "DAC_WRITE"})
rage_saveregs ==
  rage_whole \cup rage_cursor \cup rage_parts \cup rage_dac \cup Bytes("PLL", 6..11)
rage_setregs ==
  rage_whole \cup rage_cursor \cup rage_parts \cup rage_dac \cup Bytes("PLL", {6, 10, 11})
rage_initializemode ==
  [Inherited((rage_whole \ Regs("REG", {"OVR_CLR", "MEM_INFO", "GEN_TEST_CNTL"}))
               \cup Bits("REG", "GEN_CNTL", {0, 1, 24, 25, 27, 30} \cup (8..11))
               \cup Bits("REG", "BUS_CNTL", {4, 23}) \cup Bits("REG", "CONFIG_CNTL", {1, 2})
               \cup Bits("REG", "DAC_CNTL", {8}) \cup Bytes("PLL", {10})
               \cup Bits("PLL", 6, {6, 7}) \cup Bits("PLL", 11, {7}),
             Regs("REG", {"OVR_CLR", "GEN_TEST_CNTL"}) \cup Bits("REG", "OFF_PITCH", 0..21)
               \cup Bits("REG", "GEN_CNTL", (2..7) \cup (16..23) \cup {26, 29, 31})
               \cup Bits("REG", "BUS_CNTL", {22}) \cup Bits("PLL", 6, 0..5)
               \cup Bits("REG", "INT_CNTL", {1, 3, 7, 9, 16, 18, 20, 22, 24, 26}),
             Place("REG", "OFF_PITCH", 22, 3, 10))
     EXCEPT !.raw = rage_cursor \cup rage_dac
                      \cup Words("REG", {"MEM_VGA_WP_SEL", "MEM_VGA_RP_SEL"})]
Halves(n, k) ==      \* page*2 | (page*2+1)<<16, of k bits
  Place("REG", n, 1, 0, k) \cup Place("REG", n, 17, 0, k)
    \cup Clear(Bits("REG", n, 0..31 \ ((1..k) \cup (16..(16 + k)))))
    \cup Set(Bits("REG", n, {16}))
rage_setpage == Halves("MEM_VGA_WP_SEL", 7) \cup Halves("MEM_VGA_RP_SEL", 7)
rage_setdisplaystart == Place("REG", "OFF_PITCH", 0, 3, 20)
rage_setlogicalwidth == Place("REG", "OFF_PITCH", 22, 3, 10)
rage_getmodeinfo == UpTo(22, 11, 6)
rage ==
  [saveregs |-> rage_saveregs, setregs |-> rage_setregs,
   mode |-> rage_initializemode, vga |-> {}, linear |-> {},
   setpage |-> rage_setpage, setdisplaystart |-> rage_setdisplaystart,
   setlogicalwidth |-> rage_setlogicalwidth, range |-> rage_getmodeinfo,
   lost |-> [Intact EXCEPT !.start = {0, 1, 2}]]

-----------------------------------------------------------------------------
(* ATI Rage 128 with 16 MB (r128.c), in modes of a byte for a pixel.       *)

r128_zero ==      \* what R128InitCommonRegisters sets to 0
  Regs("REG", {"OVR_CLR", "OVR_WID_LEFT_RIGHT", "OVR_WID_TOP_BOTTOM", "OV0_SCALE_CNTL"}
                \cup {"MPP_TB_CONFIG", "MPP_GP_CONFIG", "SUBPIC_CNTL", "VIPH_CONTROL"}
                \cup {"I2C_CNTL_1", "GEN_INT_CNTL", "CAP0_TRIG_CNTL", "CAP1_TRIG_CNTL"})
    \cup Words("REG", {"MEM_VGA_WP_SEL", "MEM_VGA_RP_SEL"})
R128SaveCommonRegisters ==
  r128_zero \cup Words("REG", {"CONFIG_CNTL"}) \cup Regs("REG", {"BUS_CNTL", "BUS_CNTL1"})
R128SaveCrtcRegisters ==
  Regs("REG", {"CRTC_GEN_CNTL", "CRTC_EXT_CNTL", "DAC_CNTL", "CRTC_OFFSET_CNTL"}
                \cup {"H_TOTAL_DISP", "H_SYNC_STRT_WID", "V_TOTAL_DISP", "V_SYNC_STRT_WID"})
    \cup Words("REG", {"CRTC_OFFSET", "CRTC_PITCH"})
R128SavePLLRegisters == Regs("PLL", {"PPLL_REF_DIV", "PPLL_DIV_3", "HTOTAL_CNTL"})
R128SaveDDARegisters == Regs("REG", {"DDA_CONFIG", "DDA_ON_OFF"})
R128SavePalette == Regs("REG", {"PALETTE"})
r128_raw == Regs("REG", {"DP_DATATYPE", "CLOCK_CNTL_INDEX"})
r128_saveregs ==
  R128SaveCommonRegisters \cup R128SaveCrtcRegisters \cup R128SavePLLRegisters
    \cup R128SaveDDARegisters \cup R128SavePalette \cup r128_raw
    \cup Regs("REG", {"MEM_CNTL", "GEN_RESET_CNTL", "AMCGPIO_EN_REG", "AMCGPIO_MASK"}
                      \cup {"VGA_DDA_CONFIG", "VGA_DDA_ON_OFF"})
r128_setregs ==   \* R128RestoreMode
  r128_saveregs
    \ Regs("REG", {"MEM_CNTL", "GEN_RESET_CNTL", "VGA_DDA_CONFIG", "VGA_DDA_ON_OFF"})
R128InitCrtcRegisters ==
  (R128SaveCrtcRegisters \ (Regs("REG", {"CRTC_OFFSET_CNTL"})
                              \cup Words("REG", {"CRTC_OFFSET", "CRTC_PITCH"})))
    \cup Bits("REG", "CONFIG_CNTL", {8})
R128Init ==
  [Inherited(Regs("REG", {"BUS_CNTL"}) \cup R128InitCrtcRegisters \cup R128SavePLLRegisters
               \cup R128SaveDDARegisters \cup R128SavePalette,
             r128_zero \cup Words("REG", {"CRTC_OFFSET"})
               \cup Bits("REG", "CRTC_PITCH", 9..31),
             Pitch \cup Place("REG", "CRTC_PITCH", 0, 3, 9))
     EXCEPT !.raw = r128_raw]
r128_setpage == Halves("MEM_VGA_WP_SEL", 8) \cup Halves("MEM_VGA_RP_SEL", 8)
r128_setdisplaystart == Place("REG", "CRTC_OFFSET", 0, 0, 32)
r128_setlogicalwidth == Pitch \cup Place("REG", "CRTC_PITCH", 0, 3, 29)
r128_getmodeinfo == UpTo(23, 11, 7)
r128 ==
  [saveregs |-> r128_saveregs, setregs |-> r128_setregs,
   mode |-> R128Init, vga |-> {}, linear |-> {},
   setpage |-> r128_setpage, setdisplaystart |-> r128_setdisplaystart,
   setlogicalwidth |-> r128_setlogicalwidth, range |-> r128_getmodeinfo,
   lost |-> Intact]

-----------------------------------------------------------------------------
(* 3Dlabs Permedia 2 with 8 MB (pm2.c), which has no pages. Its registers  *)
(* are numbered as saveregs keeps them; 6, the memory's, is not set again. *)
(* The standard registers are left alone, and the palette a mode writes is *)
(* one of those nothing was put in.                                        *)

pm2_saveregs ==
  Regs("REG", (0..27 \ {10, 16, 18, 19, 23}) \cup {768}) \cup Words("REG", {10, 16, 18, 19})
pm2_setregs == pm2_saveregs \ Regs("REG", {6})
pm2_initializemode ==
  [Inherited(Regs("REG", (2..5) \cup (7..9) \cup (11..15) \cup {17, 24, 25, 27} \cup (20..22)),
             Regs("REG", {0, 1}) \cup Words("REG", {16}) \cup Bits("REG", 10, 9..31)
               \cup Bits("REG", 18, {0, 1}) \cup Bits("REG", 19, {1, 5}),
             Place("REG", 10, 0, 3, 9))
     EXCEPT !.raw = Regs("REG", {26, 768})]
pm2_setdisplaystart == Place("REG", 16, 0, 3, 29)
pm2_setlogicalwidth == Place("REG", 10, 0, 3, 29)
pm2_getmodeinfo == [UpTo(22, 11, 6) EXCEPT !.page = {}]
pm2 ==
  [saveregs |-> pm2_saveregs, setregs |-> pm2_setregs,
   mode |-> pm2_initializemode, vga |-> {}, linear |-> {},
   setpage |-> {}, setdisplaystart |-> pm2_setdisplaystart,
   setlogicalwidth |-> pm2_setlogicalwidth, range |-> pm2_getmodeinfo,
   lost |-> [Intact EXCEPT !.start = {0, 1, 2}]]
=============================================================================
