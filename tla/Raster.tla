------------------------------ MODULE Raster ------------------------------
(***************************************************************************)
(* The drawing functions (src/src/vgadraw.c, vgapix.c, vgaclear.c) on the  *)
(* three kinds of video memory they know: the four planes of the 16 color  *)
(* modes, behind the registers of the VGA; the planes of Mode X; and       *)
(* packed pixels behind a window of BankSize bytes (64 K), a pixel of      *)
(* which may lie across two pages.                                         *)
(*                                                                         *)
(* The video memory is a function of cells: the pixel's bit of a byte (16  *)
(* colors), the byte of a plane (Mode X), or the byte of a packed pixel.   *)
(* A color is the set of the planes in which its bit is set; the k-th byte *)
(* of a packed pixel is its color and k, and black is zero in every byte.  *)
(*                                                                         *)
(* Beside it stands canvas, the picture the calls describe; what a call    *)
(* does, it does without interruption.                                     *)
(***************************************************************************)
EXTENDS Integers, Sequences, FiniteSets

CONSTANTS
  Modes,        \* the kinds of mode checked
  Width, Height,
  Rows,         \* bound: the rows drawn in
  Bits,         \* pixels of a byte in the 16 color modes (8)
  Planes,       \* planes of the 16 color modes (0..3)
  PlaneBank,    \* bytes of the window in the 16 color modes (65536)
  PackedBank,   \* the same in the modes with packed pixels (65536)
  CallMax,      \* bound: calls of the program
  Wary          \* the program keeps away from the calls known to fail

Kinds == {"16 colors", "Mode X", "256 colors", "64K colors", "16M colors",
          "16M colors misordered"}
Packed == Kinds \ {"16 colors", "Mode X"}

ASSUME RasterAssumption ==
  /\ Modes \subseteq Kinds
  /\ {Width, Height, Bits, PlaneBank, PackedBank, CallMax} \subseteq Nat \ {0}
  /\ Width % Bits = 0 /\ Width % 4 = 0
  /\ Width <= PlaneBank * Bits /\ 3 * Width <= PackedBank
  /\ PackedBank % 2 = 0
  /\ Rows \subseteq 0..(Height - 1) /\ Wary \in BOOLEAN

Colors == SUBSET Planes
Black == {}

VARIABLES
  mode,
  mem,          \* the cells of the video memory
  page,         \* the page in the window
  regs,         \* the VGA's registers
  latch,        \* the byte of every plane read last
  COL,          \* the drawing color of the modes with packed pixels, Mode X
  canvas,       \* the picture the calls describe
  answer,       \* what was read back last, and what it should be
  calls

vars == <<mode, mem, page, regs, latch, COL, canvas, answer, calls>>

(* CI.bytesperpixel, CI.xbytes, and the memory the picture takes.          *)
bytes_of ==
  [m \in Kinds |-> IF m \notin Packed THEN 0
                   ELSE IF m = "256 colors" THEN 1
                   ELSE IF m = "64K colors" THEN 2 ELSE 3]
bank_of == [m \in Kinds |-> IF m = "16 colors" THEN PlaneBank ELSE PackedBank]
xbytes_of ==
  [m \in Kinds |-> IF m = "16 colors" THEN Width \div Bits
                   ELSE IF m = "Mode X" THEN Width \div 4 ELSE Width * bytes_of[m]]
pages_of ==
  [m \in Kinds |-> (Height * xbytes_of[m] + bank_of[m] - 1) \div bank_of[m]]
cells_of ==
  [m \in Kinds |->
     (0..(pages_of[m] * bank_of[m] - 1)) \X
     (IF m = "16 colors" THEN 0..(Bits - 1) ELSE IF m = "Mode X" THEN 0..3 ELSE {0})]

bytesperpixel == bytes_of[mode]
BankSize == bank_of[mode]
xbytes == xbytes_of[mode]
pages == pages_of[mode]
Cells == cells_of[mode]
Addresses == 0..(pages * BankSize - 1)
Pixels == (0..(Width - 1)) \X (0..(Height - 1))

PixelByte(c, k) == IF c = Black THEN <<c, 0>> ELSE <<c, k>>
Zero == IF mode \in Packed THEN PixelByte(Black, 0) ELSE Black

-----------------------------------------------------------------------------
(* The VGA.                                                                *)

(* set: Set/Reset, enabled or not; bits: Bit Mask; map: Map Mask; read:    *)
(* Read Map.                                                               *)
ResetRegs == [set |-> {}, enabled |-> TRUE, bits |-> 0..(Bits - 1),
              map |-> Planes, read |-> 0]

Byte(m, a) == [b \in 0..(Bits - 1) |-> m[<<a, b>>]]

(* What a write of zeros to the bytes A does in the 16 color modes.        *)
WriteZeros(m, A, r, l) ==
  [s \in DOMAIN m |->
     IF s[1] \notin A THEN m[s]
     ELSE {p \in Planes :
             IF p \notin r.map THEN p \in m[s]
             ELSE IF s[2] \in r.bits THEN r.enabled /\ p \in r.set
             ELSE p \in l[s[2]]}]

(* The cells the monitor shows at a pixel.                                 *)
shown_at ==
  [m \in Kinds, p \in Pixels |->
     IF m = "16 colors"
     THEN {<<p[2] * xbytes_of[m] + (p[1] \div Bits), Bits - 1 - (p[1] % Bits)>>}
     ELSE IF m = "Mode X"
     THEN {<<p[2] * xbytes_of[m] + (p[1] \div 4), p[1] % 4>>}
     ELSE {<<p[2] * xbytes_of[m] + p[1] * bytes_of[m] + k, 0>> :
             k \in 0..(bytes_of[m] - 1)}]

(* The byte of a color that belongs in the k-th byte of a pixel.           *)
Order(k) == IF mode = "16M colors misordered" THEN bytesperpixel - 1 - k ELSE k

Shows(x, y, c) ==
  LET first == y * xbytes + x * bytesperpixel
  IN  \A s \in shown_at[mode, <<x, y>>] :
        mem[s] = IF mode \in Packed THEN PixelByte(c, Order(s[1] - first)) ELSE c

-----------------------------------------------------------------------------
(* The bytes of the window.                                                *)

(* Beyond the window there is no video memory.                             *)
Nowhere == -1
Through(pg, off) == IF off < BankSize THEN pg * BankSize + off ELSE Nowhere

(* The page and the bytes vga_drawpixel and vga_getpixel reach: a pixel of *)
(* three bytes may begin in the last two of the window.                    *)
FaultyPixelBytes(offset) ==
  LET pg == offset \div BankSize
      off == offset % BankSize
  IN  [k \in 0..(bytesperpixel - 1) |-> Through(pg, (off + k) % BankSize)]
PixelBytes(offset) ==
  LET pg == offset \div BankSize
      off == offset % BankSize
      inside == IF bytesperpixel = 3 /\ off >= BankSize - 2
                THEN BankSize - off ELSE bytesperpixel
  IN  [k \in 0..(bytesperpixel - 1) |->
         IF k < inside THEN Through(pg, off + k)
         ELSE Through(pg + 1, k - inside)]

(* SegmentedCopy: where the k-th byte of a run of bytes goes.              *)
FaultySegmented(offset, length) ==
  LET segment == offset \div BankSize
      free == (segment + 1) * BankSize - offset
  IN  [k \in 0..(length - 1) |->
         IF k <= free THEN Through(segment, (offset % BankSize) + k)
         ELSE Through(segment + 1, k - free)]
Segmented(offset, length) ==
  LET segment == offset \div BankSize
      free == (segment + 1) * BankSize - offset
  IN  [k \in 0..(length - 1) |->
         IF free < length /\ k >= free THEN Through(segment + 1, k - free)
         ELSE Through(segment, (offset % BankSize) + k)]

(* A run of bytes as pairs of address and index; the index of an address.  *)
Placed(bytes) == {<<bytes[k], k>> : k \in DOMAIN bytes}
IndexOf(placed, a) == (CHOOSE p \in placed : p[1] = a)[2]

FaultyLastPage(bytes) ==
  1 + (CHOOSE a \in {bytes[k] : k \in DOMAIN bytes} :
         \A k \in DOMAIN bytes : bytes[k] <= a) \div BankSize
LastPage(bytes) ==
  (CHOOSE a \in {bytes[k] : k \in DOMAIN bytes} :
     \A k \in DOMAIN bytes : bytes[k] <= a) \div BankSize

(* RGB_swapped_memcpy: which byte of the source goes to the k-th of the    *)
(* destination; a rest that makes no pixel is left.                        *)
Swapped(k) == (3 * (k \div 3) + 2) - (k % 3)

(* The source of the k-th byte of a run with red and blue exchanged, a     *)
(* pixel across the pages being written byte by byte.                      *)
FaultySwappedRun(k, free, length) ==
  LET rest == IF free < length THEN free % 3 ELSE 0
  IN  IF k \in (free - rest)..(free - rest + 2) /\ rest # 0 THEN k ELSE Swapped(k)
SwappedRun(k, free, length) ==
  LET rest == IF free < length THEN free % 3 ELSE 0
      across == free - rest                \* the first byte of the pixel across
      next == IF rest = 0 THEN free ELSE across + 3
  IN  IF free >= length \/ k < across THEN Swapped(k)
      ELSE IF k < next THEN across + 2 - (k - across)
      ELSE next + Swapped(k - next)

-----------------------------------------------------------------------------
(* The calls of the program.                                               *)

TypeOK ==
  /\ mode \in Modes /\ DOMAIN mem = Cells
  /\ page \in 0..pages        \* a run read at the end may look one page on
  /\ regs.set \subseteq Planes /\ regs.bits \subseteq 0..(Bits - 1)
  /\ regs.map \subseteq (0..3) /\ regs.read \in 0..3
  /\ regs.enabled \in BOOLEAN
  /\ COL \in Colors /\ canvas \in [Pixels -> Colors]
  /\ calls \in 0..CallMax

Init ==
  /\ mode \in Modes
  /\ mem = [s \in Cells |-> Zero]
  /\ page = 0 /\ regs = ResetRegs
  /\ latch = [b \in 0..(Bits - 1) |-> Black]
  /\ COL = Planes
  /\ canvas = [p \in Pixels |-> Black]
  /\ answer = [got |-> <<>>, due |-> <<>>]
  /\ calls = 0

Call == calls < CallMax /\ calls' = calls + 1 /\ UNCHANGED mode
Unasked == answer' = [got |-> <<>>, due |-> <<>>]

(* The program knows that red and blue are exchanged by the segments only. *)
Misordered == mode = "16M colors misordered"

vga_setcolor(c) ==
  /\ Call
  /\ IF mode = "16 colors" THEN regs' = [regs EXCEPT !.set = c] /\ UNCHANGED COL
     ELSE COL' = c /\ UNCHANGED regs
  /\ Unasked
  /\ UNCHANGED <<mem, page, latch, canvas>>

Color == IF mode = "16 colors" THEN regs.set ELSE COL

(* Mode X writes to the plane of the pixel; with 16 colors a read fills    *)
(* the latches and a write of anything puts Set/Reset where the Bit Mask   *)
(* lets it; the packed modes write the bytes.                              *)
DrawPixelPlanar(x, y) ==
  LET a == y * xbytes + (x \div Bits)
      r == [regs EXCEPT !.bits = {Bits - 1 - (x % Bits)}]
  IN  /\ page' = a \div BankSize /\ regs' = r /\ latch' = Byte(mem, a)
      /\ mem' = WriteZeros(mem, {a}, r, latch')

DrawPixelModeX(x, y) ==
  /\ mem' = [mem EXCEPT ![<<y * xbytes + (x \div 4), x % 4>>] = COL]
  /\ regs' = [regs EXCEPT !.map = {x % 4}]
  /\ UNCHANGED <<page, latch>>

DrawPixelPacked(x, y) ==
  LET bytes == PixelBytes(y * xbytes + x * bytesperpixel)
      placed == Placed(bytes)
      written == {p[1] : p \in placed}
  IN  /\ mem' = [s \in Cells |->
                   IF s[1] \notin written THEN mem[s]
                   ELSE PixelByte(COL, IndexOf(placed, s[1]))]
      /\ page' = LastPage(bytes)
      /\ UNCHANGED <<regs, latch>>

vga_drawpixel(x, y) ==
  /\ Call /\ (Wary => ~Misordered)
  /\ \/ mode = "16 colors" /\ DrawPixelPlanar(x, y)
     \/ mode = "Mode X" /\ DrawPixelModeX(x, y)
     \/ mode \in Packed /\ DrawPixelPacked(x, y)
  /\ canvas' = [canvas EXCEPT ![<<x, y>>] = Color]
  /\ Unasked /\ UNCHANGED COL

(* A run of pixels in the 16 color modes: k-th byte, and in it the bits of *)
(* the colors, shifted into place one by one and, in a last byte that is   *)
(* not full, once more.  length is in pixels, x any.                       *)
soffs(x) == x % Bits
eoffs(x, length) == (x + length) % Bits
ByteCount(x, length) == (soffs(x) + length + Bits - 1) \div Bits
mask(e) == 0..(Bits - 1 - e)

PlaneByte(colors, x, k) ==
  LET length == Len(colors)
      first == IF k = 0 THEN 0 ELSE k * Bits - soffs(x)
      full == first + Bits - (IF k = 0 THEN soffs(x) ELSE 0)
      last == IF full > length THEN length ELSE full
      shift == IF k = ByteCount(x, length) - 1 /\ eoffs(x, length) # 0
               THEN Bits - eoffs(x, length) ELSE 0
  IN  [b \in 0..(Bits - 1) |->
         UNION {colors[j + 1] : j \in {j \in first..(last - 1) :
                                         last - 1 - j + shift = b}}]

(* What the ends of the run keep of the bytes they share.                  *)
FaultyKept(x, length, k, b) ==
  \/ k = 0 /\ soffs(x) # 0 /\ b \notin mask(soffs(x))
  \/ /\ k = ByteCount(x, length) - 1 /\ k # 0
     /\ eoffs(x, length) # 0 /\ b \in mask(eoffs(x, length))
Kept(x, length, k, b) ==
  \/ k = 0 /\ soffs(x) # 0 /\ b \notin mask(soffs(x))
  \/ /\ k = ByteCount(x, length) - 1
     /\ eoffs(x, length) # 0 /\ b \in mask(eoffs(x, length))

DrawSegmentPlanar(colors, x, y) ==
  LET length == Len(colors)
      bytes == Segmented((y * Width + x) \div Bits, ByteCount(x, length))
      plane == [k \in DOMAIN bytes |-> PlaneByte(colors, x, k)]
      placed == Placed(bytes)
      written == {p[1] : p \in placed}
  IN  /\ mem' = [s \in Cells |->
                   IF s[1] \notin written THEN mem[s]
                   ELSE LET k == IndexOf(placed, s[1])
                        IN  plane[k][s[2]] \cup
                            (IF Kept(x, length, k, s[2]) THEN mem[s] ELSE {})]
      /\ page' = LastPage(bytes)
      /\ regs' = [regs EXCEPT !.enabled = TRUE, !.bits = 0..(Bits - 1),
                              !.map = Planes, !.read = 3]
      \* what is latched is not written while every bit is masked in
      /\ latch' = [b \in 0..(Bits - 1) |-> Black]

(* The first pixel of the run in a plane of Mode X, and its address.       *)
FaultyFirstInPlane(x, y, plane) ==
  LET pixel == ((4 - (x % 4)) + plane) % 4
  IN  [pixel |-> pixel, at |-> (y * Width + x) \div 4]
FirstInPlane(x, y, plane) ==
  LET pixel == ((4 - (x % 4)) + plane) % 4
  IN  [pixel |-> pixel,
       at |-> ((y * Width + x) \div 4) + (IF (x % 4) + pixel > 3 THEN 1 ELSE 0)]

(* The pixel of a run of length pixels that Mode X puts into a cell.       *)
PixelOfCell(x, y, length, s) ==
  LET f == FirstInPlane(x, y, s[2])
  IN  {i \in 0..(length - 1) : s[1] >= f.at /\ i = f.pixel + 4 * (s[1] - f.at)}

DrawSegmentModeX(colors, x, y) ==
  /\ mem' = [s \in Cells |->
               IF PixelOfCell(x, y, Len(colors), s) = {} THEN mem[s]
               ELSE colors[1 + CHOOSE i \in PixelOfCell(x, y, Len(colors), s) : TRUE]]
  /\ regs' = [regs EXCEPT !.map = {3}]
  /\ UNCHANGED <<page, latch>>

(* The bytes of the run's colors, in the order of the program.             *)
SourceByte(colors, k) ==
  PixelByte(colors[1 + (k \div bytesperpixel)], k % bytesperpixel)

DrawSegmentPacked(colors, x, y) ==
  LET offset == y * xbytes + x * bytesperpixel
      length == Len(colors) * bytesperpixel
      bytes == Segmented(offset, length)
      free == BankSize - (offset % BankSize)
      Source(k) == IF Misordered THEN SwappedRun(k, free, length) ELSE k
      placed == Placed(bytes)
      written == {p[1] : p \in placed}
  IN  /\ mem' = [s \in Cells |->
                   IF s[1] \notin written THEN mem[s]
                   ELSE SourceByte(colors, Source(IndexOf(placed, s[1])))]
      /\ page' = LastPage(bytes)
      /\ UNCHANGED <<regs, latch>>

vga_drawscansegment(colors, x, y) ==
  /\ Call
  /\ \/ mode = "16 colors" /\ DrawSegmentPlanar(colors, x, y)
     \/ mode = "Mode X" /\ DrawSegmentModeX(colors, x, y)
     \/ mode \in Packed /\ DrawSegmentPacked(colors, x, y)
  /\ canvas' = [p \in Pixels |->
                  IF p[2] = y /\ p[1] - x \in 0..(Len(colors) - 1)
                  THEN colors[1 + p[1] - x] ELSE canvas[p]]
  /\ Unasked /\ UNCHANGED COL

(* vga_clear: with 16 colors it writes zeros where the Bit Mask, which it  *)
(* does not set, lets it (the write to "all bits" goes to another register *)
(* of that number); otherwise it clears all of the pages.                  *)
FaultyClearedPages == pages - 1
ClearedPages == pages

vga_clear ==
  /\ Call /\ (Wary => regs.bits = 0..(Bits - 1))
  /\ LET cleared == 0..(ClearedPages * BankSize - 1)
     IN  \/ /\ mode = "16 colors"
            /\ mem' = WriteZeros(mem, cleared, [regs EXCEPT !.set = {}], latch)
            /\ regs' = [regs EXCEPT !.set = Planes]
            /\ page' = ClearedPages - 1 /\ UNCHANGED COL
         \/ /\ mode = "Mode X"
            /\ mem' = [s \in Cells |-> Black]
            /\ regs' = [regs EXCEPT !.map = 0..3]
            /\ COL' = Planes /\ UNCHANGED page
         \/ /\ mode \in Packed
            /\ mem' = [s \in Cells |-> IF s[1] \in cleared THEN Zero ELSE mem[s]]
            /\ page' = ClearedPages - 1
            /\ COL' = Planes /\ UNCHANGED regs
  /\ canvas' = [p \in Pixels |-> Black]
  /\ Unasked /\ UNCHANGED latch

-----------------------------------------------------------------------------
(* Reading back.                                                           *)

(* The color whose bytes are read.                                         *)
OfBytes(bytes) ==
  [k \in DOMAIN bytes |-> mem[<<bytes[k], 0>>]]
BytesOf(c) == [k \in 0..(bytesperpixel - 1) |-> PixelByte(c, k)]

vga_getpixel(x, y) ==
  /\ Call /\ (Wary => ~Misordered /\ mode # "Mode X")
  /\ \/ /\ mode = "16 colors"
        /\ LET a == y * xbytes + (x \div Bits)
           IN  /\ answer' = [got |-> mem[<<a, Bits - 1 - (x % Bits)>>],
                             due |-> canvas[<<x, y>>]]
               /\ page' = a \div BankSize /\ latch' = Byte(mem, a)
               /\ regs' = [regs EXCEPT !.read = 3]
     \/ /\ mode = "Mode X"       \* selects the plane to write
        /\ answer' = [got |-> mem[<<y * xbytes + (x \div 4), regs.read>>],
                      due |-> canvas[<<x, y>>]]
        /\ regs' = [regs EXCEPT !.map = {x % 4}]
        /\ UNCHANGED <<page, latch>>
     \/ /\ mode \in Packed
        /\ LET bytes == PixelBytes(y * xbytes + x * bytesperpixel)
           IN  /\ answer' = [got |-> OfBytes(bytes), due |-> BytesOf(canvas[<<x, y>>])]
               /\ page' = LastPage(bytes)
        /\ UNCHANGED <<regs, latch>>
  /\ UNCHANGED <<mem, COL, canvas>>

(* How many bytes of a plane vga_getscansegment reads (C's division).      *)
Truncated(a) == IF a < 0 THEN 0 ELSE a \div Bits
FaultyReadCount(x, length) ==
  Truncated(length - (Bits - soffs(x))) + 1
ReadCount(x, length) ==
  (IF soffs(x) # 0 THEN Truncated(length - (Bits - soffs(x))) + 1
                   ELSE length \div Bits)
  + (IF eoffs(x, length) # 0 THEN 1 ELSE 0)

Unread == {-1}       \* what a byte of the buffer holds that was not read

GetSegmentPlanar(x, y, length) ==
  LET bytes == Segmented((y * Width + x) \div Bits, ReadCount(x, length))
      Bit(i) == Bits - 1 - ((soffs(x) + i) % Bits)
      Got(i) == LET k == (soffs(x) + i) \div Bits
                IN  IF k \in DOMAIN bytes THEN mem[<<bytes[k], Bit(i)>>] ELSE Unread
      end == bytes[ReadCount(x, length) - 1]
  IN  /\ answer' = [got |-> [i \in 0..(length - 1) |-> Got(i)],
                    due |-> [i \in 0..(length - 1) |-> canvas[<<x + i, y>>]]]
      /\ page' = LastPage(bytes)
      /\ regs' = [regs EXCEPT !.enabled = TRUE, !.read = 3]
      /\ latch' = IF end \in Addresses THEN Byte(mem, end) ELSE latch

GetSegmentModeX(x, y, length) ==
  LET Cell(i) == CHOOSE s \in Cells : i \in PixelOfCell(x, y, length, s)
  IN  /\ answer' = [got |-> [i \in 0..(length - 1) |-> mem[Cell(i)]],
                    due |-> [i \in 0..(length - 1) |-> canvas[<<x + i, y>>]]]
      /\ regs' = [regs EXCEPT !.read = 3]
      /\ UNCHANGED <<page, latch>>

GetSegmentPacked(x, y, length) ==
  LET bytes == Segmented(y * xbytes + x * bytesperpixel, length * bytesperpixel)
      colors == [i \in 1..length |-> canvas[<<x + i - 1, y>>]]
  IN  /\ answer' = [got |-> OfBytes(bytes),
                    due |-> [k \in DOMAIN bytes |-> SourceByte(colors, k)]]
      /\ page' = LastPage(bytes)
      /\ UNCHANGED <<regs, latch>>

vga_getscansegment(x, y, length) ==
  /\ Call /\ (Wary => ~Misordered)
  /\ \/ mode = "16 colors" /\ GetSegmentPlanar(x, y, length)
     \/ mode = "Mode X" /\ GetSegmentModeX(x, y, length)
     \/ mode \in Packed /\ GetSegmentPacked(x, y, length)
  /\ UNCHANGED <<mem, COL, canvas>>

-----------------------------------------------------------------------------
(* The colors of the runs drawn.                                           *)
Run(length, c) == [i \in 1..length |-> IF i % 2 = 1 THEN c ELSE {0}]

Next ==
  \/ \E c \in {{0}, Black} : vga_setcolor(c)
  \/ \E x \in 0..(Width - 1), y \in Rows :
       \/ vga_drawpixel(x, y) \/ vga_getpixel(x, y)
       \/ \E length \in 1..(Width - x) :
            \/ \E c \in {Planes, Black} : vga_drawscansegment(Run(length, c), x, y)
            \/ vga_getscansegment(x, y, length)
  \/ vga_clear

Spec == Init /\ [][Next]_vars

-----------------------------------------------------------------------------
(* Properties.                                                             *)

(* After any calls the monitor shows the picture they describe: no pixel   *)
(* lost at a page's end, none beside the run touched, and none left over   *)
(* from an earlier call's registers.                                       *)
Painted == \A p \in Pixels : Shows(p[1], p[2], canvas[p])

(* What is read back of a pixel or a run is what was drawn.                *)
ReadBack == answer.got = answer.due

(* The memory holds what the calls drew, and reading it gives it back.     *)
CanvasKept == Painted /\ ReadBack

=============================================================================
