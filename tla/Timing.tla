------------------------------ MODULE Timing ------------------------------
(***************************************************************************)
(* From a mode to the registers of the display controller: the tables of   *)
(* timings and the choice among them (src/src/timing.c), the VGA's         *)
(* registers (src/src/vgaregs.c) and what the chipset drivers make of them *)
(* (src/src/drivers, see TimingCards).                                     *)
(*                                                                         *)
(* What the card then sends to the monitor is decoded from the registers   *)
(* and compared with the timing that was chosen. Frequencies of clocks are *)
(* in kHz, of the monitor in Hz; sync polarities are left out.             *)
(***************************************************************************)
EXTENDS TimingCards

CONSTANTS
  Drivers,      \* the chipset drivers checked
  Monitors,     \* the monitors checked
  Modes,        \* modes <<width, height, depth>> the program asks for, 15 for
                \* 5-5-5 in 16 bits
  Modelines,    \* timings it adds, from the configuration file or by a call
  Guesses,      \* calls <<x, y, clue>> of vga_guesstiming
  Deltas,       \* what vga_changetiming adds to each field
  UserMax,      \* bound: timings added
  ChangeMax,    \* bound: calls of vga_changetiming
  Wary          \* the program keeps away from the calls known to fail

T(clock, hd, hs, he, ht, vd, vs, ve, vt, flags) ==
  [pixelClock |-> clock,
   HDisplay |-> hd, HSyncStart |-> hs, HSyncEnd |-> he, HTotal |-> ht,
   VDisplay |-> vd, VSyncStart |-> vs, VSyncEnd |-> ve, VTotal |-> vt,
   flags |-> flags]

Interlaced == {"interlaced"}
Doublescan == {"doublescan"}

(* struct MonitorModeTiming; a line is no shorter than its picture.        *)
MonitorModeTiming ==
  {t \in [pixelClock : Nat,
          HDisplay : Nat, HSyncStart : Nat, HSyncEnd : Nat, HTotal : Nat,
          VDisplay : Nat, VSyncStart : Nat, VSyncEnd : Nat, VTotal : Nat,
          flags : SUBSET (Interlaced \cup Doublescan)] :
     0 < t.HDisplay /\ t.HDisplay <= t.HTotal /\ 0 < t.VDisplay}

NULL == T(0, 0, 0, 0, 0, 0, 0, 0, 0, {})

standard_timings == <<
  T(12588, 320, 336, 384, 400, 200, 204, 206, 225, Doublescan),
  T(13333, 320, 336, 384, 400, 200, 204, 206, 225, Doublescan),
  T(12588, 320, 336, 384, 400, 240, 245, 247, 263, Doublescan),
  T(15000, 320, 336, 384, 400, 240, 244, 246, 261, Doublescan),
  T(12588, 320, 336, 384, 400, 400, 408, 412, 450, {}),
  T(13333, 320, 336, 384, 400, 400, 408, 412, 450, {}),
  T(12588, 320, 336, 384, 400, 480, 490, 494, 526, {}),
  T(15000, 320, 336, 384, 400, 480, 488, 492, 522, {}),
  T(18000, 400, 416, 448, 512, 300, 301, 302, 312, Doublescan),
  T(20000, 400, 416, 480, 528, 300, 301, 303, 314, Doublescan),
  T(25000, 400, 424, 488, 520, 300, 319, 322, 333, Doublescan),
  T(18000, 400, 416, 448, 512, 600, 602, 604, 624, {}),
  T(20000, 400, 416, 480, 528, 600, 602, 606, 628, {}),
  T(25000, 400, 424, 488, 520, 600, 639, 644, 666, {}),
  T(19600, 512, 522, 598, 646, 384, 418, 426, 454, {}),
  T(25175, 512, 522, 598, 646, 384, 418, 426, 454, {}),
  T(19600, 512, 522, 598, 646, 480, 500, 510, 550, {}),
  T(25175, 512, 522, 598, 646, 480, 500, 510, 550, {}),
  T(25175, 640, 664, 760, 800, 400, 409, 411, 450, {}),
  T(25175, 640, 664, 760, 800, 480, 491, 493, 525, {}),
  T(31500, 640, 664, 704, 832, 480, 489, 491, 520, {}),
  T(36000, 800, 824, 896, 1024, 600, 601, 603, 625, {}),
  T(40000, 800, 840, 968, 1056, 600, 601, 605, 628, {}),
  T(50000, 800, 856, 976, 1040, 600, 637, 643, 666, {}),
  T(66000, 960, 984, 1112, 1248, 720, 723, 729, 756, {}),
  T(40000, 960, 984, 1192, 1216, 720, 728, 784, 817, Interlaced),
  T(44900, 1024, 1048, 1208, 1264, 768, 776, 784, 817, Interlaced),
  T(55000, 1024, 1048, 1208, 1264, 768, 776, 784, 817, Interlaced),
  T(65000, 1024, 1032, 1176, 1344, 768, 771, 777, 806, {}),
  T(75000, 1024, 1048, 1184, 1328, 768, 771, 777, 806, {}),
  T(85000, 1152, 1214, 1326, 1600, 864, 870, 885, 895, {}),
  T(80000, 1280, 1296, 1512, 1568, 1024, 1025, 1037, 1165, Interlaced),
  T(85000, 1024, 1032, 1152, 1360, 768, 784, 787, 823, {}),
  T(110000, 1280, 1328, 1512, 1712, 1024, 1025, 1028, 1054, {}),
  T(135000, 1280, 1312, 1456, 1712, 1024, 1027, 1030, 1064, {}),
  T(162000, 1600, 1668, 1860, 2168, 1200, 1201, 1204, 1250, {}),
  T(188500, 1600, 1792, 1856, 2208, 1200, 1202, 1205, 1256, {}),
  T(198000, 1600, 1616, 1776, 2112, 1200, 1201, 1204, 1250, {}),
  T(32400, 720, 744, 808, 920, 540, 541, 543, 563, {}),
  T(36000, 720, 760, 872, 952, 540, 541, 545, 565, {}),
  T(45000, 720, 768, 880, 936, 540, 552, 558, 599, {}),
  T(44900, 1072, 1096, 1208, 1264, 600, 602, 604, 625, {}),
  T(55000, 1072, 1096, 1208, 1264, 600, 602, 604, 625, {}),
  T(65000, 1072, 1088, 1184, 1344, 600, 603, 607, 625, {}),
  T(75000, 1072, 1096, 1200, 1328, 768, 603, 607, 625, {}),
  T(85000, 1072, 1088, 1160, 1360, 768, 603, 607, 625, {}) >>

(* RefreshRange of the monitor: the default one but for a horizontal limit *)
(* of 60 kHz, and one that takes every timing of the tables.               *)
Ranges == [plain |-> [hmin |-> 31500, hmax |-> 60000, vmin |-> 50, vmax |-> 70],
           wide |-> [hmin |-> 31500, hmax |-> 95000, vmin |-> 43, vmax |-> 100]]

(* The timings a program adds and the sizes it guesses for are pictures.   *)
ASSUME TimingsAssumption ==
  /\ Modelines \subseteq MonitorModeTiming
  /\ \A g \in Guesses : g[1] \in Nat \ {0} /\ g[2] \in Nat \ {0} /\ g[3] \in Nat
  /\ Monitors \subseteq DOMAIN Ranges

VARIABLES
  driver,   \* the card's driver
  monitor,  \* the monitor
  user,     \* user_timings, the list as a sequence
  current,  \* current_timing, NULL when there is none
  CM,       \* current mode: one of Modes or TEXT
  shown,    \* what the registers hold in graphics, and the timing they came from
  flip_mode,\* the mode to come back to while another console is shown, else NONE
  changes   \* calls of vga_changetiming so far

vars == <<driver, monitor, user, current, CM, shown, flip_mode, changes>>

TEXT == <<0, 0, 0>>
NONE == <<-1, -1, -1>>
Nothing == [timing |-> NULL]

(* Bytes to a pixel, and the layout of the registers then. card stands for *)
(* the card of the driver (see Installed).                                 *)
Bytes(m) == (m[3] + 7) \div 8
LayoutOf(card, m) == card.layout[Bytes(m)]

--------------------------------------------------------------------------
(* The choice of a timing.                                                 *)

(* Frequencies of lines (Hz) and of frames (hundredths of Hz).             *)
LineRate(clock, htotal) == (clock * 1000) \div htotal
FrameRate(lines, vtotal, flags) ==
  LET v == (lines * 100 * (IF "interlaced" \in flags THEN 2 ELSE 1))
             \div vtotal
  IN  IF "doublescan" \in flags THEN v \div 2 ELSE v

FaultyWithin(t) ==
  LET h == LineRate(t.pixelClock, t.HTotal)
      r == Ranges[monitor]
  IN  h * 100 > r.hmin * 99 /\ h * 100 < r.hmax * 101

timing_within_monitor_spec(t) ==
  LET h == LineRate(t.pixelClock, t.HTotal)
      v == FrameRate(h, t.VTotal, t.flags)
      r == Ranges[monitor]
  IN  /\ h * 100 > r.hmin * 99 /\ h * 100 < r.hmax * 101
      /\ v > r.vmin * 99 /\ v < r.vmax * 101

FaultyClamped(t) == t

(* The list gets a copy whose vertical sync follows the picture.           *)
Clamped(t) ==
  LET start == IF t.VSyncStart < t.VDisplay + 1 THEN t.VDisplay + 1
               ELSE t.VSyncStart
      end == IF t.VSyncEnd < start + 1 THEN start + 1 ELSE t.VSyncEnd
  IN  [t EXCEPT !.VSyncStart = start, !.VSyncEnd = end]

addusertiming(t) == user' = <<Clamped(t)>> \o user

Close(clock, wanted) ==
  LET diff == IF clock < wanted THEN wanted - clock ELSE clock - wanted
  IN  (diff * 1000) \div wanted < 10

(* The clock the card will run at: the first of its fixed ones that is     *)
(* near enough, 0 when none is.                                            *)
findclock(card, wanted) ==
  IF card.specs.clocks = Programmable THEN wanted
  ELSE LET clocks == card.specs.clocks
           near == {i \in DOMAIN clocks : Close(clocks[i], wanted)}
       IN  IF near = {} THEN 0
           ELSE clocks[CHOOSE i \in near : \A j \in near : i <= j]

(* What the driver makes of a clock and of a horizontal count.             *)
Of(ratio, n) == (n * ratio[1]) \div ratio[2]
mapClock(card, m, clock) == Of(card.specs.mapClock[Bytes(m)], clock)
Halves(card, m, clock) == Bytes(m) = 1 /\ clock > card.specs.mapHalvesAbove
mapHorizontalCrtc(card, m, clock, h) ==
  IF Halves(card, m, clock) THEN h \div 2
  ELSE Of(card.specs.mapHorizontalCrtc[Bytes(m)], h)

Resolution(m) == <<m[1], m[2]>>

Usable(card, t, m) ==
  /\ <<t.HDisplay, t.VDisplay>> = Resolution(m)
  /\ "interlaced" \in t.flags => "no interlace" \notin card.specs.flags
  /\ timing_within_monitor_spec(t)
  /\ t.pixelClock <= card.specs.maxPixelClock[Bytes(m)]
  /\ mapHorizontalCrtc(card, m, t.pixelClock, t.HTotal)
       <= card.specs.maxHorizontalCrtc
  /\ findclock(card, mapClock(card, m, t.pixelClock)) # 0

FaultySearch(card, timings, m) ==
  LET best[i \in 0..Len(timings)] ==
        IF i = 0 THEN NULL
        ELSE LET b == best[i - 1] IN
             IF Usable(card, timings[i], m) /\ timings[i].pixelClock >= b.pixelClock
             THEN timings[i] ELSE b
  IN  best[Len(timings)]

search_mode(card, timings, m) ==
  LET best[i \in 0..Len(timings)] ==
        IF i = 0 THEN NULL
        ELSE LET b == best[i - 1] IN
             IF Usable(card, timings[i], m) /\ timings[i].pixelClock > b.pixelClock
             THEN timings[i] ELSE b
  IN  best[Len(timings)]

(* The timing a mode gets, NULL when it has none. force is the timing      *)
(* vga_changetiming insists on; the limits of the card are not asked then. *)
Forced(force, m) ==
  /\ force # NULL
  /\ timing_within_monitor_spec(force)
  /\ <<force.HDisplay, force.VDisplay>> = Resolution(m)

getmodetiming(card, force, m) ==
  IF m[3] = 16 /\ "no 5-6-5" \in card.specs.flags THEN NULL
  ELSE IF Forced(force, m) THEN force
  ELSE LET t == search_mode(card, user, m) IN
       IF t # NULL THEN t ELSE search_mode(card, standard_timings, m)

(* The driver's modeavailable: a mode its memory holds, of a depth it      *)
(* takes; the ET6000 then declines two kinds of timings it was given.      *)
LineBytes(m) == m[1] * Bytes(m)
Possible(card, m) ==
  /\ card.specs.videoMemory * 1024 >= m[2] * LineBytes(m)
  /\ m[3] \notin card.refuses
et6000_declines(t, m) ==
  /\ driver = "et6000"
  /\ "interlaced" \in t.flags \/ ("doublescan" \in t.flags /\ Bytes(m) = 1)

(* current_timing is set whoever asks.                                     *)
FaultyMade(t) == IF t \in {standard_timings[i] : i \in DOMAIN standard_timings}
                 THEN t ELSE current
Made(t) == t

--------------------------------------------------------------------------
(* The registers.                                                          *)

(* Vertical counts are halved for interlaced modes, and from 1024 lines.   *)
Doubled(t) == IF "doublescan" \in t.flags THEN 2 ELSE 1
HalvesLines(card, t) ==
  \/ "interlaced" \in t.flags /\ "divide interlaced" \in card.specs.flags
  \/ t.VTotal * Doubled(t) >= 1024 /\ "divide 1024" \in card.specs.flags
Lines(card, t, v) ==
  IF HalvesLines(card, t) THEN (v * Doubled(t)) \div 2 ELSE v * Doubled(t)

(* Horizontal counts are mapped by the clock that will be programmed, or   *)
(* halved by the driver itself.                                            *)
HalvesColumns(card, t, m) ==
  \/ Halves(card, m, findclock(card, mapClock(card, m, t.pixelClock)))
  \/ t.pixelClock > LayoutOf(card, m).halvesAbove
Columns(card, t, m, h) ==
  IF LayoutOf(card, m).whole THEN h
  ELSE IF HalvesColumns(card, t, m) THEN h \div 2
  ELSE Of(card.specs.mapHorizontalCrtc[Bytes(m)], h)

Counts(card, t, m) ==
  [f \in Horizontal \cup Vertical |->
     IF f \in Horizontal THEN Columns(card, t, m, t[f])
     ELSE IF LayoutOf(card, m).whole THEN t[f] * Doubled(t)
     ELSE Lines(card, t, t[f])]

(* One count in its register.                                              *)
Units(field, counts, f) ==
  LET n == CASE field.kind = "after" -> counts[f] - counts[field.from]
             [] field.kind = "before" -> counts[field.from] - counts[f]
             [] OTHER -> counts[f]
      units == n \div field.unit
  IN  IF units \in field.skips THEN units + 1 ELSE units

FaultyHigh(n, bits) == IF bits > 10 THEN n % 2 ^ 10 ELSE n % 2 ^ bits
Field(n, bits) == n % 2 ^ bits

Register(fields, counts, interlaced, f) ==
  LET field == fields[f]
      units == Units(field, counts, f)
      n == units - field.less
      width == units - counts[field.from] \div field.unit
  IN  IF field.kind = "longer"
      THEN Field(units, field.bits) + (IF width > 32 THEN 32 ELSE 0)
      ELSE IF field.most # Never
      THEN IF n < 1 THEN 1 ELSE IF n > field.most THEN field.most ELSE n
      ELSE IF field.top # ""
      THEN Field(n, field.bits - 1) +
           LET other == Units(fields[field.top], counts, field.top)
                          - fields[field.top].less
           IN  Field(other, field.bits) - Field(other, field.bits - 1)
      ELSE IF interlaced /\ field.interlaced = "even" THEN Field(n - (n % 2), field.bits)
      ELSE IF interlaced /\ field.interlaced = "odd"
      THEN Field(n - (n % 2) + 1, field.bits)
      ELSE Field(n, field.bits)

PitchRegister(pitch, bytes, twice) ==
  LET units == bytes \div pitch.unit
      whole == -((-units) \div pitch.whole) * pitch.whole
  IN  Field(whole * twice, pitch.bits)

(* The clock a driver makes of one it found. Only timings of Modes reach   *)
(* the registers: those of the table, those added, and those guessed.      *)
Timings == Modelines \cup {standard_timings[i] : i \in DOMAIN standard_timings}
ClocksOf(m) ==
  {t.pixelClock : t \in {r \in Timings : <<r.HDisplay, r.VDisplay>> = Resolution(m)}}
    \cup {(t.pixelClock * g[1]) \div t.HDisplay :
             t \in Timings, g \in {c \in Guesses : <<c[1], c[2]>> = Resolution(m)}}
Asked(card) ==
  UNION {{c * LayoutOf(card, m).times :
            c \in {k \in ClocksOf(m) : k <= card.specs.maxPixelClock[Bytes(m)]}} :
           m \in {k \in Modes : k[3] \notin card.refuses}}
VCLK(d, card) ==
  [c \in IF card.specs.clocks = Programmable THEN Asked(card)
         ELSE {card.specs.clocks[i] : i \in DOMAIN card.specs.clocks}
     |-> Synthesized(d, c)]

(* The pixel clock that makes, divided again where it was multiplied.      *)
PixelClock(card, t, m) ==
  LET asked == findclock(card, mapClock(card, m, t.pixelClock))
      ratio == card.specs.mapClock[Bytes(m)]
      times == LayoutOf(card, m).times
      made == card.made[asked * times] \div times
  IN  Of(<<ratio[2], ratio[1]>>, made)

(* The cards, with the clocks they can be asked for.                       *)
Fit(d, card) ==
  [specs |-> card.specs, refuses |-> card.refuses, layout |-> card.layout,
   made |-> VCLK(d, card)]
Installed == [d \in Drivers |-> Fit(d, Cards[d])]
ThisCard == Installed[driver]

Registers(card, t, m) ==
  LET layout == LayoutOf(card, m)
      interlaced == "interlaced" \in t.flags
      counts == Counts(card, t, m)
  IN [counts |-> [f \in DOMAIN counts |->
                    Register(layout.counts, counts, interlaced, f)],
      pitch |-> PitchRegister(layout.pitch, LineBytes(m),
                  IF layout.doublesPitch /\ interlaced THEN 2 ELSE 1),
      doublescan |-> "doublescan" \in t.flags,
      interlaced |-> interlaced /\ layout.interlaces,
      columns |-> IF HalvesColumns(card, t, m) THEN <<1, 2>>
                  ELSE card.specs.mapHorizontalCrtc[Bytes(m)],
      twice |-> /\ "divide 1024" \in card.specs.flags
                /\ t.VTotal * Doubled(t) >= 1024 /\ ~interlaced,
      clock |-> PixelClock(card, t, m)]

--------------------------------------------------------------------------
(* The calls of the program.                                               *)

Init ==
  /\ driver \in Drivers /\ monitor \in Monitors
  /\ user = <<>> /\ current = NULL
  /\ CM = TEXT /\ shown = Nothing /\ flip_mode = NONE /\ changes = 0

(* vga_setmode: asks vga_hasmode, which makes the choice once, and has the *)
(* driver make it again.                                                   *)
setmode(card, force, m) ==
  LET t == getmodetiming(card, force, m) IN
  IF m = TEXT THEN CM' = TEXT /\ shown' = Nothing /\ UNCHANGED current
  ELSE IF ~Possible(card, m) \/ t = NULL THEN UNCHANGED <<CM, shown, current>>
  ELSE /\ current' = Made(t)
       /\ IF et6000_declines(t, m) THEN UNCHANGED <<CM, shown>>
          ELSE /\ CM' = m
               /\ shown' = [timing |-> t, forced |-> Forced(force, m),
                            regs |-> Registers(card, t, m)]

Awake == flip_mode = NONE

(* What the wary program knows of its card: timings the card's limits let  *)
(* pass, though a count is wider than its register, the driver finds no    *)
(* dividers for the clock, or sends an interlaced timing line by line; and *)
(* what single drivers do not manage.                                      *)
TooWide(card, t, m) ==
  \E f \in Horizontal :
    LET field == LayoutOf(card, m).counts[f] IN
    /\ field.kind = "count"
    /\ Units(field, Counts(card, t, m), f) - field.less >= 2 ^ field.bits
Distant(card, t, m) ==
  \/ PixelClock(card, t, m) = 0
  \/ driver = "i740" /\ t.pixelClock % 1000 # 0
  \/ driver = "millennium" /\ t.pixelClock < 30000
  \/ driver = "radeon" /\ t.pixelClock < 16667
Single(card, t, m) ==
  \/ et6000_declines(t, m)
  \/ driver = "unichrome" /\ Lines(card, t, t.VSyncStart) >= 1024
  \/ driver = "millennium" /\ LineBytes(m) % 128 # 0
  \/ /\ driver = "rendition"
     /\ \/ t.HSyncStart - t.HDisplay >= 72
        \/ (t.VSyncEnd - t.VSyncStart) * Doubled(t) > 8
        \/ (t.VSyncStart - t.VDisplay) * Doubled(t) > 64
Sound(card, t, m) ==
  /\ ~TooWide(card, t, m) /\ ~Distant(card, t, m) /\ ~Single(card, t, m)
  /\ "interlaced" \in t.flags => LayoutOf(card, m).interlaces

Accepts(card, t, m) ==
  Wary /\ Possible(card, m) /\ t # NULL => Sound(card, t, m)
Accepted(card, t) ==
  \A m \in Modes : Usable(card, t, m) => Accepts(card, t, m)

vga_setmode(m) ==
  /\ Awake
  /\ m # TEXT => Accepts(ThisCard, getmodetiming(ThisCard, NULL, m), m)
  /\ setmode(ThisCard, NULL, m)
  /\ UNCHANGED <<driver, monitor, user, flip_mode, changes>>

(* The question makes the choice too, and leaves it in current_timing.     *)
vga_hasmode(m) ==
  /\ Awake /\ (Wary => CM = TEXT)
  /\ LET t == getmodetiming(ThisCard, NULL, m) IN
     current' = IF Possible(ThisCard, m) /\ t # NULL THEN Made(t) ELSE current
  /\ UNCHANGED <<driver, monitor, user, CM, shown, flip_mode, changes>>

vga_addtiming(t) ==
  /\ Awake /\ Len(user) < UserMax /\ Accepted(ThisCard, Clamped(t))
  /\ addusertiming(t)
  /\ UNCHANGED <<driver, monitor, current, CM, shown, flip_mode, changes>>

Sum(t, d) ==
  [t EXCEPT !.HSyncStart = @ + d.HSyncStart, !.HSyncEnd = @ + d.HSyncEnd,
            !.HTotal = @ + d.HTotal, !.VSyncStart = @ + d.VSyncStart,
            !.VSyncEnd = @ + d.VSyncEnd, !.VTotal = @ + d.VTotal]

(* Called while a mode is shown.                                           *)
vga_changetiming(d) ==
  /\ Awake /\ CM # TEXT /\ changes < ChangeMax
  /\ Accepts(ThisCard, Sum(current, d), CM)
  /\ changes' = changes + 1
  /\ setmode(ThisCard, Sum(current, d), CM)
  /\ UNCHANGED <<driver, monitor, user, flip_mode>>

(* A larger or a smaller timing near <<x, y>>; of the user's only those of *)
(* the usual shape.                                                        *)
Shape(t) == (1000 * t.VDisplay) \div t.HDisplay
Candidates == user \o standard_timings
Considered(i) == i <= Len(user) => Shape(user[i]) \in 735..765

Nearer(t, b, x, y, up) ==
  /\ timing_within_monitor_spec(t) /\ t.pixelClock >= b.pixelClock
  /\ IF up THEN /\ t.HDisplay \in x..b.HDisplay /\ t.VDisplay \in y..b.VDisplay
     ELSE /\ t.HDisplay \in b.HDisplay..x /\ t.VDisplay \in b.VDisplay..y

find_timing(x, y, up) ==
  LET start == IF up THEN [NULL EXCEPT !.HDisplay = 4096, !.VDisplay = 4096]
               ELSE NULL
      best[i \in 0..Len(Candidates)] ==
        IF i = 0 THEN start
        ELSE LET b == best[i - 1] IN
             IF Considered(i) /\ Nearer(Candidates[i], b, x, y, up)
             THEN Candidates[i] ELSE b
  IN  best[Len(Candidates)]

(* That timing with every count scaled by h or by v.                       *)
Scaled(t, x, y, vn, vd) ==
  LET h(n) == (n * x) \div t.HDisplay
      v(n) == (n * vn) \div vd
  IN  [t EXCEPT !.pixelClock = h(@), !.HDisplay = x, !.VDisplay = y,
         !.HSyncStart = h(@), !.HSyncEnd = h(@), !.HTotal = h(@),
         !.VSyncStart = v(@), !.VSyncEnd = v(@), !.VTotal = v(@)]

vga_guesstiming(x, y, clue) ==
  LET nx == IF clue >= 256 /\ clue < 258 THEN (y * 4) \div 3 ELSE x
      ny == IF clue >= 258 THEN (x * 3) \div 4 ELSE y
      b == find_timing(nx, ny, clue % 2 = 0)
  IN  /\ Awake /\ Len(user) < UserMax
      /\ clue < 256 => (1000 * y) \div x \in 735..765
      /\ b.pixelClock # 0
      /\ LET t == IF clue < 258 THEN Scaled(b, x, y, nx, b.HDisplay)
                  ELSE Scaled(b, x, y, y, b.VDisplay)
         IN  Accepted(ThisCard, Clamped(t)) /\ addusertiming(t)
      /\ UNCHANGED <<driver, monitor, current, CM, shown, flip_mode, changes>>

FaultyFlipaway ==
  /\ Awake /\ flip_mode' = CM
  /\ UNCHANGED <<driver, monitor, user, current, CM, shown, changes>>

(* Another console and back (see VTSwitch).                                *)
flipaway ==
  /\ Awake
  /\ flip_mode' = CM /\ setmode(ThisCard, NULL, TEXT)
  /\ UNCHANGED <<driver, monitor, user, changes>>

flipback ==
  /\ ~Awake /\ flip_mode' = NONE
  /\ setmode(ThisCard, NULL, flip_mode)
  /\ UNCHANGED <<driver, monitor, user, changes>>

Next ==
  \/ \E m \in Modes \cup {TEXT} : vga_setmode(m)
  \/ \E m \in Modes : vga_hasmode(m)
  \/ \E t \in Modelines : vga_addtiming(t)
  \/ \E g \in Guesses : vga_guesstiming(g[1], g[2], g[3])
  \/ \E d \in Deltas : vga_changetiming(d)
  \/ flipaway
  \/ flipback

Spec == Init /\ [][Next]_vars

--------------------------------------------------------------------------
(* What the card makes of the registers, in pixels and lines of a frame.   *)

LineUnit(card, regs) ==
  IF \/ regs.twice
     \/ regs.interlaced /\ "divide interlaced" \in card.specs.flags
  THEN 2 ELSE 1

Following(start, low, modulus) == start + ((low - start) % modulus)
Decoded(fields, counts) ==
  LET count[f \in Horizontal \cup Vertical] ==
        LET field == fields[f]
            r == counts[f]
            n == (r + field.less) * field.unit
            low == 2 ^ field.bits * field.unit
        IN  CASE field.kind = "count" -> n
              [] field.kind = "low" ->
                   Following(count[field.from], n, low)
              [] field.kind = "longer" ->
                   Following(count[field.from], n, low) + (n \div low) * low
              [] field.kind = "after" -> count[field.from] + n
              [] field.kind = "before" -> count[field.from] - n
  IN  count

Frame(card, regs) ==
  [f \in Horizontal \cup Vertical |->
     LET n == Decoded(LayoutOf(card, CM).counts, regs.counts)[f]
     IN  IF f \in Horizontal THEN Of(<<regs.columns[2], regs.columns[1]>>, n)
         ELSE n * LineUnit(card, regs)]

InGraphics == shown # Nothing

(* The fields of the registers hold what their bits can, and the screen is *)
(* in graphics exactly in a graphics mode (vga_setmode, and the registers  *)
(* of vgaregs.c).                                                          *)
TypeOK ==
  /\ driver \in Drivers /\ monitor \in Monitors
  /\ Len(user) <= UserMax /\ changes \in 0..ChangeMax
  /\ CM \in Modes \cup {TEXT}
  /\ flip_mode \in Modes \cup {TEXT, NONE} /\ (~Awake => CM = TEXT)
  /\ InGraphics <=> CM # TEXT
  /\ InGraphics =>
       LET layout == LayoutOf(ThisCard, CM) IN
       /\ \A f \in Horizontal \cup Vertical :
            shown.regs.counts[f] \in 0 .. 2 ^ (layout.counts[f].bits + 1) - 1
       /\ shown.regs.pitch \in 0 .. 2 ^ layout.pitch.bits - 1
       /\ shown.regs.clock \in Nat \ {0}

(* In every timing the user's list gets, and in every one shown that no    *)
(* vga_changetiming altered, the picture comes first, then the sync, and   *)
(* both fit into the total: whatever was scaled and rounded on the way.    *)
Ordered(t) ==
  /\ t.HDisplay <= t.HSyncStart /\ t.HSyncStart < t.HSyncEnd
  /\ t.HSyncEnd <= t.HTotal
  /\ t.VDisplay < t.VSyncStart /\ t.VSyncStart < t.VSyncEnd
  /\ t.VSyncEnd <= t.VTotal

WellFormed ==
  /\ \A i \in DOMAIN user : Ordered(user[i])
  /\ InGraphics /\ ~shown.forced => Ordered(shown.timing)

(* What the registers make the card send is the timing that was chosen,    *)
(* interlaced or not, with its counts rounded to the card's units, and a   *)
(* line begins in memory as many bytes after the one above as the mode     *)
(* says: no bit of a count is lost between the VGA's registers and the     *)
(* driver's.                                                               *)
Sends(card, layout, t, regs) ==
  LET fields == layout.counts
      wanted(f) == IF f \in Horizontal THEN Of(regs.columns, t[f])
                   ELSE (t[f] * Doubled(t)) \div LineUnit(card, regs)
  IN  /\ \A f \in Horizontal \cup Vertical :
           (wanted(f) - Decoded(fields, regs.counts)[f]) \div fields[f].unit
             \in fields[f].off
      /\ regs.interlaced <=> "interlaced" \in t.flags
      /\ regs.pitch * layout.pitch.unit = LineBytes(CM) *
           (IF layout.doublesPitch /\ regs.interlaced THEN 2 ELSE 1)

Programmed ==
  InGraphics => Sends(ThisCard, LayoutOf(ThisCard, CM), shown.timing, shown.regs)

(* "We know a close enough clock is available" (timing.c:310): the clock   *)
(* the synthesizer makes is within a hundredth of the one asked for.       *)
ClockClose ==
  InGraphics =>
    100 * Diff(shown.regs.clock, shown.timing.pixelClock)
      <= shown.timing.pixelClock

(* The frequencies the card really sends, with the clock it found and the  *)
(* counts its registers hold, are those of the monitor's range, to four    *)
(* hundredths: one for the monitor's allowance, one for the clock's and    *)
(* two for the cells. A timing a program forces is no exception.           *)
InMonitor ==
  InGraphics => ClockClose /\
    LET r == Ranges[monitor]
        frame == Frame(ThisCard, shown.regs)
        h == LineRate(shown.regs.clock, frame.HTotal)
        v == FrameRate(h, frame.VTotal,
                       IF shown.regs.interlaced THEN Interlaced ELSE {})
    IN  /\ h * 100 \in r.hmin * 96 .. r.hmax * 104
        /\ v \in r.vmin * 96 .. r.vmax * 104

(* A mode that is set without force shows the timing of the highest clock  *)
(* among those the card and the monitor take, the first of them when there *)
(* are several, the user's before the table's.                             *)
FirstOf(card, timings, m) ==
  LET usable == {i \in DOMAIN timings : Usable(card, timings[i], m)}
      clock(i) == timings[i].pixelClock
  IN  {timings[i] : i \in {k \in usable : \A j \in usable :
                 clock(j) < clock(k) \/ (clock(j) = clock(k) /\ k <= j)}}

Chosen ==
  [][shown' # shown /\ CM' # TEXT /\ ~shown'.forced =>
       LET mine == FirstOf(ThisCard, user, CM') IN
       {shown'.timing} = IF mine # {} THEN mine
                         ELSE FirstOf(ThisCard, standard_timings, CM')]_vars

(* In graphics, vga_getcurrenttiming reports the timing that is shown, and *)
(* vga_changetiming changes that one: after every mode set, every change,  *)
(* every refused one and every return from another console.                *)
CurrentTrue == InGraphics => current = shown.timing
==========================================================================
