---------------------------- MODULE Framebuffer ----------------------------
(***************************************************************************)
(* The framebuffer primitives of vgagl (src/gl/driver.c) for pixels of one *)
(* to four bytes, in memory that is addressed at once (driver8 to driver32)*)
(* and in video memory behind a window of Segment bytes (driver8p to       *)
(* driver32p).                                                             *)
(*                                                                         *)
(* A memory, m, and a pixmap, b, are functions of bytes; g is the context: *)
(* its type and the size of its pixels, lines and picture.  A byte says    *)
(* which color it is of and which byte of it; 0, in every byte, is the     *)
(* color that a mask leaves out.                                           *)
(***************************************************************************)
EXTENDS Integers, FiniteSets

CONSTANT Segment       \* bytes of the window (65536)

ASSUME FramebufferAssumption == Segment \in Nat \ {0} /\ Segment % 12 = 4

Zero0 == 0
Junk == -1             \* what nobody wrote

(* The k-th byte of a color.  From Shifted on, colors stand a byte higher: *)
(* MODEFLAG_32BPP_SHIFT8.                                                  *)
Shifted == 1000
Part(c, k) ==
  IF c >= Shifted THEN IF k = 0 \/ c = Shifted THEN Zero0 ELSE 4 * (c - Shifted) + k - 1
  ELSE IF c = 0 THEN Zero0 ELSE 4 * c + k

(* ASSIGNVPOFFSET8 to 32.                                                  *)
Vp(g, x, y) == y * g.bytewidth + x * g.bytes

(* A byte of the window; beyond it there is no video memory.               *)
Beyond == -1
Reach(page, off) == IF off < Segment THEN page * Segment + off ELSE Beyond

-----------------------------------------------------------------------------
(* Where the bytes of boxes, lines and pixels go.                          *)

(* The loop of the paged boxes: the page and the offset of each row of     *)
(* length bytes, and whether the page ends within it.                      *)
FaultyRowIn(page, vp, length) ==
  IF vp > Segment THEN [page |-> page + 1, vp |-> vp % Segment, broken |-> FALSE]
  ELSE [page |-> page, vp |-> vp, broken |-> vp < Segment /\ vp + length > Segment]
RowIn(page, vp, length) ==
  IF vp >= Segment THEN [page |-> page + 1, vp |-> vp % Segment, broken |-> FALSE]
  ELSE [page |-> page, vp |-> vp, broken |-> vp + length > Segment]

RowPages(g, vp, length, h) ==
  LET Row[i \in 0..(h - 1)] ==
        IF i = 0 THEN RowIn(vp \div Segment, vp % Segment, length)
        ELSE LET r == Row[i - 1]
             IN  IF r.broken
                 THEN RowIn(r.page + 1, (r.vp + g.bytewidth) % Segment, length)
                 ELSE RowIn(r.page, r.vp + g.bytewidth, length)
  IN  Row

(* The address of each byte of a box of h rows, and how many of its row    *)
(* come before the end of the page.                                        *)
BoxBytes(g, x, y, w, h) ==
  LET length == w * g.bytes
      vp == Vp(g, x, y)
      rows == RowPages(g, vp, length, h)
      Paged(i, j) ==
        LET r == rows[i]
            free == IF r.broken THEN Segment - r.vp ELSE length
        IN  [at |-> IF j < free THEN Reach(r.page, r.vp + j)
                    ELSE Reach(r.page + 1, j - free),
             free |-> free]
  IN  [p \in (0..(h - 1)) \X (0..(length - 1)) |->
         IF g.type = "paged" THEN Paged(p[1], p[2])
         ELSE [at |-> vp + p[1] * g.bytewidth + p[2], free |-> length]]

(* The same for a horizontal line, which has SETWRITEPAGED.                *)
LineBytes(g, x1, y, x2) ==
  LET length == (x2 - x1 + 1) * g.bytes
      vp == Vp(g, x1, y)
      chunksize == Segment - (vp % Segment)
      free == IF length <= chunksize THEN length ELSE chunksize
  IN  [p \in {0} \X (0..(length - 1)) |->
         [at |-> IF g.type # "paged" THEN vp + p[2]
                 ELSE IF p[2] < free THEN Reach(vp \div Segment, (vp % Segment) + p[2])
                 ELSE Reach((vp \div Segment) + 1, p[2] - free),
          free |-> IF g.type = "paged" THEN free ELSE length]]

(* And for a pixel: only one of three bytes is looked at byte by byte.     *)
PixelBytesOf(g, x, y) ==
  LET vp == Vp(g, x, y)
      off == vp % Segment
  IN  [p \in {0} \X (0..(g.bytes - 1)) |->
         [at |-> IF g.type # "paged" THEN vp + p[2]
                 ELSE IF g.bytes = 3 /\ off + p[2] >= Segment
                 THEN Reach((vp \div Segment) + 1, off + p[2] - Segment)
                 ELSE Reach(vp \div Segment, off + p[2]),
          free |-> g.bytes]]

(* The byte of the color that a fill puts into the j-th of a row: where    *)
(* the page ends within a pixel of three bytes, the m bytes before and the *)
(* o bytes after are written one by one.                                   *)
FillPart(g, j, free, length) ==
  LET m == free % 3
      o == (3 - m) % 3
  IN  IF g.bytes # 3 \/ free = length THEN j % g.bytes
      ELSE IF j < free - m THEN j % 3
      ELSE IF j < free THEN j - (free - m)
      ELSE IF j < free + o THEN m + (j - free)
      ELSE (j - free - o) % 3

(* m with the bytes of a box, a line or a pixel replaced.                  *)
Written(m, bytes, New(_)) ==
  LET placed == {<<bytes[p].at, New(p)>> : p \in DOMAIN bytes}
      written == {q[1] : q \in placed}
  IN  [a \in DOMAIN m |->
         IF a \in written THEN (CHOOSE q \in placed : q[1] = a)[2] ELSE m[a]]

ReadFrom(m, a) == IF a \in DOMAIN m THEN m[a] ELSE Junk

-----------------------------------------------------------------------------
(* The primitives.                                                         *)

Filled(g, m, bytes, c) ==
  LET length == Cardinality({p \in DOMAIN bytes : p[1] = 0})
      New(p) == Part(c, FillPart(g, p[2], bytes[p].free, length))
  IN  Written(m, bytes, New)

setpixel(g, m, x, y, c) == Filled(g, m, PixelBytesOf(g, x, y), c)
hline(g, m, x1, y, x2, c) == Filled(g, m, LineBytes(g, x1, y, x2), c)
fillbox(g, m, x, y, w, h, c) == Filled(g, m, BoxBytes(g, x, y, w, h), c)

getpixel(g, m, x, y) ==
  LET bytes == PixelBytesOf(g, x, y)
  IN  [k \in 0..(g.bytes - 1) |-> ReadFrom(m, bytes[<<0, k>>].at)]

(* bw is the width of the pixmap in pixels, start its first byte used.     *)
putbox(g, m, x, y, w, h, b, start, bw) ==
  LET New(p) == ReadFrom(b, start + p[1] * bw * g.bytes + p[2])
  IN  Written(m, BoxBytes(g, x, y, w, h), New)

getbox(g, m, x, y, w, h, b, start, bw) ==
  LET bytes == BoxBytes(g, x, y, w, h)
      read == [p \in DOMAIN bytes |->
                 [at |-> start + p[1] * bw * g.bytes + p[2]]]
      New(p) == ReadFrom(m, bytes[p].at)
  IN  Written(b, read, New)

(* putboxpart and getboxpart add the part's place in the pixmap; getboxpart*)
(* of two and of three bytes counts it in pixels.                          *)
putboxpart(g, m, x, y, w, h, ow, oh, b, xo, yo) ==
  putbox(g, m, x, y, w, h, b, (yo * ow + xo) * g.bytes, ow)

getboxpart(g, m, x, y, w, h, ow, oh, b, xo, yo) ==
  getbox(g, m, x, y, w, h, b,
         (yo * ow + xo) * (IF g.bytes \in {2, 3} THEN 1 ELSE g.bytes), ow)

(* Linear memory only, as is copybox.                                      *)
putboxmask(g, m, x, y, w, h, b) ==
  LET length == w * g.bytes
      all == BoxBytes(g, x, y, w, h)
      First(p) == p[1] * length + (p[2] - (p[2] % g.bytes))
      drawn == {p \in DOMAIN all :
                  \E k \in 0..(g.bytes - 1) : b[First(p) + k] # Zero0}
      New(p) == b[p[1] * length + p[2]]
  IN  Written(m, [p \in drawn |-> all[p]], New)

(* A copy forwards within a row: a byte may already have been replaced.    *)
CopyRow(m, svp, dvp, length) ==
  LET byte[j \in 0..(length - 1)] ==
        IF dvp <= svp + j /\ svp + j < dvp + j THEN byte[svp + j - dvp] ELSE m[svp + j]
  IN  [a \in DOMAIN m |-> IF a - dvp \in 0..(length - 1) THEN byte[a - dvp] ELSE m[a]]

(* The line buffer: all of the row is read before any of it is written.    *)
CopyRowBuffered(m, svp, dvp, length) ==
  [a \in DOMAIN m |-> IF a - dvp \in 0..(length - 1) THEN m[a - dvp + svp] ELSE m[a]]

FaultyCopybox(g, m, x1, y1, w, h, x2, y2) ==
  LET after[i \in 0..h] ==
        IF i = 0 THEN m
        ELSE CopyRow(after[i - 1], Vp(g, x1, y1 + i - 1), Vp(g, x2, y2 + i - 1),
                     w * g.bytes)
  IN  after[h]
copybox(g, m, x1, y1, w, h, x2, y2) ==
  LET length == w * g.bytes
      after[i \in 0..h] ==
        IF i = 0 THEN m
        ELSE IF y1 < y2 THEN        \* from bottom to top
          CopyRow(after[i - 1], Vp(g, x1, y1 + h - i), Vp(g, x2, y2 + h - i), length)
        ELSE IF y1 = y2 /\ x2 >= x1 THEN
          CopyRowBuffered(after[i - 1], Vp(g, x1, y1 + i - 1), Vp(g, x2, y2 + i - 1), length)
        ELSE CopyRow(after[i - 1], Vp(g, x1, y1 + i - 1), Vp(g, x2, y2 + i - 1), length)
  IN  after[h]

=============================================================================
