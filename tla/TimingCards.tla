---------------------------- MODULE TimingCards ----------------------------
(***************************************************************************)
(* What the chipset drivers (src/src/drivers) tell the timing module of    *)
(* the card they found, the depths they refuse, and where and how their    *)
(* registers keep the counts of a timing.                                  *)
(***************************************************************************)
EXTENDS Synths

--------------------------------------------------------------------------
(* CardSpecs: the memory in kB, the highest pixel clock in kHz for one to  *)
(* four bytes to a pixel, the longest line in pixels, and the flags. Most  *)
(* cards make any clock, and take clock and counts as they are; the others *)
(* say what fraction they map them to, and above which clock they take two *)
(* pixels at a time at one byte to a pixel.                                *)
Programmable == <<>>
Never == 1000000
Same == [bytes \in 1..4 |-> <<1, 1>>]

Specs(memory, max, limit, flags) ==
  [videoMemory |-> memory, maxPixelClock |-> max, maxHorizontalCrtc |-> limit,
   flags |-> flags, clocks |-> Programmable, mapClock |-> Same,
   mapHorizontalCrtc |-> Same, mapHalvesAbove |-> Never]

Divides == {"divide interlaced"}

apm_init(sr20) ==
  Specs(sr20 * 64 - 34, <<175500, 144000, 75000, 94500>>, 4088, Divides)
et6000_init(megabytes) ==
  Specs(1024 * megabytes, [b \in 1..4 |-> 160000], 2040, Divides)
mx_init(cr57) ==
  Specs(1024 * 2 ^ ((cr57 \div 8) % 4), [b \in 1..4 |-> 160000], 4088, Divides)
laguna_init(banks, size) ==
  Specs(512 * 2 ^ banks * (size + 1), <<250000, 170000, 170000, 135100>>, 4088,
        Divides)
savage_init(config) ==
  Specs(1024 * <<2, 4, 8, 12, 16, 32, 64, 2>>[config + 1],
        <<250000, 250000, 220000, 220000>>, 4088, Divides)
trident_init(spr) ==
  LET sizes == <<1024, 512, 6144, 1024, 4096, 1024, 10240, 2048, 12288, 1024,
                 14336, 1024, 16384, 1024, 32768, 4096>>
  IN  Specs(sizes[spr + 1], <<230000, 230000, 115000, 115000>>, 2040, Divides)
sis_init(sr, old) ==
  IF old THEN Specs(IF sr % 4 = 3 THEN 4096 ELSE 1024 * 2 ^ (sr % 4),
                    <<135000, 135000, 135000, 0>>, 8160, Divides)
  ELSE Specs(1024 * ((sr % 64) + 1), <<250000, 250000, 0, 250000>>, 8160, Divides)
i810_init(kilobytes) ==
  Specs(kilobytes, <<203000, 163000, 128000, 86000>>, 4088, Divides)
i740_init(rows) ==
  Specs(1024 * rows, <<203000, 163000, 128000, 86000>>, 4088, {})
nv3_init(boot) ==
  Specs(IF boot % 4 = 0 THEN 32768 ELSE 2048 * 2 ^ (boot % 4),
        <<350000, 350000, 0, 350000>>, 4080, {})
g400_init(kilobytes) ==
  Specs(kilobytes, [b \in 1..4 |-> 250000], 4095, Divides)
mil_init(kilobytes) ==
  Specs(kilobytes, [b \in 1..4 |-> 220000], 4080, Divides)
banshee_init(chips, size) ==
  Specs(4096 * (chips + 1) * (size + 1), [b \in 1..4 |-> 270000], 4088, {})
unichrome_init ==
  Specs(16384, <<270000, 270000, 0, 270000>>, 2040, {"no interlace"})
pm2_init(banks) ==
  Specs(2048 * (banks + 1), <<230000, 230000, 150000, 110000>>, 4080, Divides)
rendition_init(kilobytes) ==
  Specs(kilobytes, <<170000, 170000, 0, 170000>>, 4088, Divides)
r128_init(kilobytes) ==
  Specs(kilobytes, [b \in 1..4 |-> 250000], 4080, Divides)
rage_init(size) ==
  Specs(IF size < 8 THEN 512 * (size + 1)
        ELSE IF size < 12 THEN 1024 * (size - 3) ELSE 2048 * (size - 7),
        [b \in 1..4 |-> 230000], 4088, {})

(* A 5434: its memory, the limits of its DAC and of nine tenths of what    *)
(* its memory delivers, and its fixed clocks.                              *)
cirrus_memory(sr0f) ==
  512 * (IF (sr0f \div 16) % 2 = 1 THEN 2 ELSE 1)
      * (IF (sr0f \div 8) % 4 = 3 THEN 2 ELSE 1)
      * (IF sr0f \div 128 = 1 THEN 2 ELSE 1)
DRAMbandwidthLimit(memory, mclk) ==
  (((14318 * mclk) \div 16) * 20 * (IF memory >= 1024 THEN 2 ELSE 1)
                                 * (IF memory >= 2048 THEN 2 ELSE 1)) \div 11
cirrus_init(sr0f, mclk) ==
  LET memory == cirrus_memory(sr0f)
      dac == <<108300, 86000, IF memory >= 1024 THEN 28666 ELSE 0,
               IF memory >= 2048 THEN 86000 ELSE 0>>
      max == [b \in 1..4 |-> Least({dac[b], DRAMbandwidthLimit(memory, mclk) \div b})]
  IN  [Specs(memory, max, 2040, Divides \cup {"divide 1024"})
         EXCEPT !.clocks = cirrus_fixed_clocks, !.mapClock[3] = <<3, 1>>,
                !.mapHalvesAbove = 86000]

(* A mode its memory holds and that has a timing is available but for what  *)
(* a driver refuses by itself: here, depths.                               *)
apm_modeavailable == {}
et6000_modeavailable == {}
mx_modeavailable == {}
laguna_modeavailable == {}
trident_modeavailable == {}
i810_modeavailable == {}
i740_modeavailable == {}
cirrus_modeavailable == {}
g400_modeavailable == {}
r128_modeavailable == {}
rage_modeavailable == {}
sis_modeavailable(old) == IF old THEN {32} ELSE {24}
savage_modeavailable == {24}
nv3_modeavailable == {24}
mil_modeavailable == {24}
pm2_modeavailable == {24}
rendition_modeavailable == {24}
banshee_modeavailable == {15}
unichrome_modeavailable == {15}

--------------------------------------------------------------------------
(* A count of a timing in a register: in units of that many pixels or      *)
(* lines, less a constant, in so many bits. An end may be kept as its low  *)
(* bits only; others are distances, after another count or before it. A    *)
(* few counts are never used (skips), are even or odd when interlaced, at  *)
(* most what their bits hold, or take their highest bit from another       *)
(* count. off is what rounding may cost, in units.                         *)
Count(bits, less, unit) ==
  [kind |-> "count", from |-> "", bits |-> bits, less |-> less, unit |-> unit,
   skips |-> {}, interlaced |-> "any", most |-> Never, top |-> "", off |-> 0..0]
LowBits(from, bits, less, unit) ==
  [Count(bits, less, unit) EXCEPT !.kind = "low", !.from = from]
Longer(from, bits, unit) ==
  [Count(bits, 0, unit) EXCEPT !.kind = "longer", !.from = from]
After(from, bits, less, unit, off) ==
  [Count(bits, less, unit) EXCEPT !.kind = "after", !.from = from, !.off = off]
Before(from, bits, less, unit, off) ==
  [Count(bits, less, unit) EXCEPT !.kind = "before", !.from = from, !.off = off]

Horizontal == {"HDisplay", "HSyncStart", "HSyncEnd", "HTotal"}
Vertical == {"VDisplay", "VSyncStart", "VSyncEnd", "VTotal"}

(* The VGA's, and with h and v bits for the counts that are kept whole.    *)
Wide(h, v) ==
  [HTotal |-> Count(h, 5, 8), HDisplay |-> Count(h, 1, 8),
   HSyncStart |-> Count(h, 0, 8), HSyncEnd |-> LowBits("HSyncStart", 5, 0, 8),
   VTotal |-> Count(v, 2, 1), VDisplay |-> Count(v, 1, 1),
   VSyncStart |-> Count(v, 0, 1), VSyncEnd |-> LowBits("VSyncStart", 4, 0, 1)]
VGA == Wide(8, 10)

(* The distance between two lines, in units of bytes, a multiple of whole  *)
(* of them.                                                                *)
Pitch(bits, unit) == [bits |-> bits, unit |-> unit, whole |-> 1]

(* What else a driver does in its initializemode: it sets its interlace    *)
(* bit, doubles the pitch then, takes the counts the timing module halved  *)
(* or the ones before, asks its synthesizer for a multiple of the clock    *)
(* that the card divides again, and above a clock takes two pixels at once.*)
Layout(counts, pitch) ==
  [counts |-> counts, pitch |-> pitch, interlaces |-> TRUE,
   doublesPitch |-> FALSE, whole |-> FALSE, times |-> 1, halvesAbove |-> Never]
Progressive(layout) == [layout EXCEPT !.interlaces = FALSE]

apm_initializemode(bytes) == Progressive(Layout(Wide(9, 11), Pitch(12, 8)))
et6000_initializemode(bytes) ==
  [Layout(Wide(9, 11), Pitch(10, 8)) EXCEPT !.times = <<1, 1, 3, 4>>[bytes]]
mx_initializemode(bytes) ==
  Layout([Wide(9, 11) EXCEPT !.HSyncEnd.bits = 6, !.VSyncEnd.bits = 5], Pitch(10, 8))
laguna_initializemode(bytes) == Layout(Wide(9, 11), Pitch(10, 8))
savage_initializemode(bytes) ==
  Layout([Wide(9, 11) EXCEPT !.HSyncEnd = Longer("HSyncStart", 5, 8)], Pitch(10, 8))
trident_initializemode(bytes) ==
  [Layout(Wide(8, 11), Pitch(10, 8))
     EXCEPT !.times = IF bytes = 4 THEN 2 ELSE 1,
            !.halvesAbove = IF bytes = 1 THEN 90000 ELSE Never]
sis_initializemode(bytes) ==
  [Layout(Wide(8, 11), Pitch(12, 8)) EXCEPT !.doublesPitch = TRUE]
sis_300_initializemode(bytes) ==
  [Layout([Wide(10, 11) EXCEPT !.HSyncStart.bits = 8, !.HSyncEnd.bits = 6,
                               !.VSyncEnd.bits = 5], Pitch(12, 8))
     EXCEPT !.doublesPitch = TRUE]
i810_initializemode(bytes) ==
  Layout([Wide(8, 12) EXCEPT !.HTotal.bits = 12], Pitch(16, 8))
i740_initializemode(bytes) ==
  Layout([Wide(8, 12) EXCEPT !.HTotal.bits = 12], Pitch(16, 8))
cirrus_initializemode(bytes) == Layout(VGA, Pitch(9, IF bytes = 4 THEN 16 ELSE 8))

nv3_CalculateCRTC(bytes) ==
  Layout([Wide(9, 12) EXCEPT !.VSyncStart.less = 1, !.VSyncEnd.less = 1,
                             !.VTotal.interlaced = "odd", !.VTotal.off = -1..0],
         Pitch(11, 8))

(* Both Matrox drivers step over two lengths of a line.                    *)
MGA(modulus, lengths, whole) ==
  [Layout([Wide(9, 12) EXCEPT
             !.HTotal.skips = {n \in 0..1023 : (n - 1) % modulus \in lengths},
             !.HTotal.off = -1..0, !.HSyncStart.less = 1, !.HSyncEnd.less = 1,
             !.VSyncStart.less = 1, !.VSyncEnd.less = 1,
             !.VTotal.interlaced = "even", !.VTotal.off = 0..1],
          [Pitch(10, 16) EXCEPT !.whole = whole]) EXCEPT !.doublesPitch = TRUE]
g400_initializemode(bytes) == MGA(16, {4, 14}, 1)
MGA3026Init(bytes) == MGA(8, {4, 6}, 8)

(* Bit 10 of the start of the vertical sync is that of another count.      *)
banshee_initializemode(bytes) ==
  [Layout([Wide(9, 11) EXCEPT !.HSyncEnd.bits = 6, !.VSyncStart.top = "VTotal"],
          Pitch(14, 1)) EXCEPT !.halvesAbove = 135000]
unichrome_initializemode(bytes) ==
  Progressive(Layout([Wide(9, 11) EXCEPT !.HDisplay.bits = 8,
                        !.VSyncStart.top = "VDisplay"], Pitch(11, 8)))

(* Permedia 2: distances from the end of the picture, in units of 32 or    *)
(* 64 bits.                                                                *)
pm2_initializemode(wide, bytes) ==
  LET unit == (4 \div bytes) * (IF bytes > 1 \/ wide THEN 2 ELSE 1) IN
  Progressive(Layout(
    [HTotal |-> Count(16, 1, unit),
     HDisplay |-> Before("HTotal", 16, 0, unit, -1..0),
     HSyncStart |-> After("HDisplay", 16, 1, unit, -1..1),
     HSyncEnd |-> After("HDisplay", 16, 0, unit, -1..1),
     VTotal |-> Count(16, 1, 1), VDisplay |-> Before("VTotal", 16, 0, 1, 0..0),
     VSyncStart |-> After("VDisplay", 16, 0, 1, 0..0),
     VSyncEnd |-> After("VDisplay", 16, 0, 1, 0..0)], Pitch(16, 8)))

(* Rendition: the picture, then front porch, sync and back porch; counts   *)
(* are never halved. The pitch is the last 128 bytes or fewer of a line.   *)
rendition_initializemode(bytes) ==
  [Progressive(Layout(
     [HDisplay |-> Count(8, 1, 8), HSyncStart |-> After("HDisplay", 3, 1, 8, 0..1),
      HSyncEnd |-> After("HSyncStart", 5, 1, 8, 0..2),
      HTotal |-> After("HSyncEnd", 6, 1, 8, 0..3),
      VDisplay |-> Count(11, 1, 1), VSyncStart |-> After("VDisplay", 6, 1, 1, 0..0),
      VSyncEnd |-> After("VSyncStart", 3, 1, 1, 0..0),
      VTotal |-> After("VSyncEnd", 6, 1, 1, 0..0)], Pitch(16, 1)))
   EXCEPT !.whole = TRUE]

(* ATI: widths of the syncs, at most what their bits hold.                 *)
R128InitCrtcRegisters(radeon, bytes) ==
  Layout([HTotal |-> Count(10, 1, 8), HDisplay |-> Count(9, 1, 8),
          HSyncStart |-> Count(13, 8, 1),
          HSyncEnd |-> [After("HSyncStart", 6, 0, 8, 0..0) EXCEPT !.most = 63],
          VTotal |-> Count(16, 1, 1), VDisplay |-> Count(16, 1, 1),
          VSyncStart |-> Count(12, 1, 1),
          VSyncEnd |-> [After("VSyncStart", 5, 0, 1, 0..0)
                          EXCEPT !.most = IF radeon THEN Never ELSE 31]],
         Pitch(16, 8 * bytes))
rage_initializemode(bytes) ==
  Layout([HTotal |-> Count(9, 1, 8), HDisplay |-> Count(9, 1, 8),
          HSyncStart |-> Count(9, 1, 8),
          HSyncEnd |-> [After("HSyncStart", 5, 0, 8, 0..1) EXCEPT !.most = 31],
          VTotal |-> Count(11, 1, 1), VDisplay |-> Count(11, 1, 1),
          VSyncStart |-> Count(11, 1, 1),
          VSyncEnd |-> After("VSyncStart", 5, 0, 1, 0..0)], Pitch(10, 8 * bytes))

(* The clock a driver's synthesizer makes when asked for one.              *)
Synthesized(name, clock) ==
  CASE name = "apm" -> apm_clock(clock)
    [] name = "et6000" -> et6000_clock(clock)
    [] name = "mx" -> mx_clock(clock)
    [] name = "laguna" -> laguna_clock(clock)
    [] name = "savage" -> savage_clock(clock)
    [] name = "trident" -> trident_clock(clock)
    [] name = "sis" -> sis_clock(clock)
    [] name = "sis_300" -> sis_300_clock(clock)
    [] name = "i810" -> i810_clock(clock)
    [] name = "i740" -> i740_clock(clock)
    [] name = "cirrus" -> cirrus_clock(clock)
    [] name = "nv3" -> nv3_clock(clock)
    [] name = "nv3_two_stage" -> nv3_two_stage_clock(clock)
    [] name = "g400" -> MGACalcClock(clock)
    [] name = "g450" -> G450_clock(clock)
    [] name = "millennium" -> MGATi3026CalcClock(clock)
    [] name = "banshee" -> banshee_clock(clock)
    [] name = "unichrome" -> unichrome_clock(clock)
    [] name = "pm2" -> pm2_clock(clock)
    [] name = "pm2v" -> pm2v_clock(clock)
    [] name = "rendition" -> V2200CalcClock(clock)
    [] name = "r128" -> R128InitPLLRegisters(clock)
    [] name = "radeon" -> RADEONInitPLLRegisters(clock)
    [] name = "rage" -> rage_clock(clock)

--------------------------------------------------------------------------
(* The cards of the runs.                                                  *)
Card(specs, refuses, layout(_)) ==
  [specs |-> specs, refuses |-> refuses,
   layout |-> [bytes \in 1..4 |-> layout(bytes)]]

Cards ==
  [apm |-> Card(apm_init(64), apm_modeavailable, apm_initializemode),
   et6000 |-> Card(et6000_init(4), et6000_modeavailable, et6000_initializemode),
   mx |-> Card(mx_init(16), mx_modeavailable, mx_initializemode),
   laguna |-> Card(laguna_init(2, 1), laguna_modeavailable, laguna_initializemode),
   savage |-> Card(savage_init(2), savage_modeavailable, savage_initializemode),
   trident |-> Card(trident_init(4), trident_modeavailable, trident_initializemode),
   sis |-> Card(sis_init(3, TRUE), sis_modeavailable(TRUE), sis_initializemode),
   sis_300 |-> Card(sis_init(7, FALSE), sis_modeavailable(FALSE),
                    sis_300_initializemode),
   i810 |-> Card(i810_init(4096), i810_modeavailable, i810_initializemode),
   i740 |-> Card(i740_init(8), i740_modeavailable, i740_initializemode),
   cirrus |-> Card(cirrus_init(152, 28), cirrus_modeavailable, cirrus_initializemode),
   nv3 |-> Card(nv3_init(0), nv3_modeavailable, nv3_CalculateCRTC),
   nv3_two_stage |-> Card(nv3_init(0), nv3_modeavailable, nv3_CalculateCRTC),
   g400 |-> Card(g400_init(16384), g400_modeavailable, g400_initializemode),
   g450 |-> Card(g400_init(32768), g400_modeavailable, g400_initializemode),
   millennium |-> Card(mil_init(8192), mil_modeavailable, MGA3026Init),
   banshee |-> Card(banshee_init(1, 1), banshee_modeavailable,
                    banshee_initializemode),
   unichrome |-> Card(unichrome_init, unichrome_modeavailable,
                      unichrome_initializemode),
   pm2 |-> Card(pm2_init(3), pm2_modeavailable,
                LAMBDA bytes : pm2_initializemode(FALSE, bytes)),
   pm2v |-> Card(pm2_init(1), pm2_modeavailable,
                 LAMBDA bytes : pm2_initializemode(TRUE, bytes)),
   rendition |-> Card(rendition_init(4096), rendition_modeavailable,
                      rendition_initializemode),
   r128 |-> Card(r128_init(16384), r128_modeavailable,
                 LAMBDA bytes : R128InitCrtcRegisters(FALSE, bytes)),
   radeon |-> Card(r128_init(32768), r128_modeavailable,
                   LAMBDA bytes : R128InitCrtcRegisters(TRUE, bytes)),
   rage |-> Card(rage_init(15), rage_modeavailable, rage_initializemode)]
=============================================================================
