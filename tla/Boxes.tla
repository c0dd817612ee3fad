------------------------------- MODULE Boxes -------------------------------
(***************************************************************************)
(* What the drawing calls of vgagl (src/gl/grlib.c, line.c, cbitmap.c) do  *)
(* to the memory of a context: the clipping of boxes and what is left of   *)
(* the pixmap, masks emulated where the framebuffer has none, lines over   *)
(* the pages, and masks compiled into runs.                                *)
(***************************************************************************)
EXTENDS Framebuffer, Lines, Sequences, FiniteSetsExt

CONSTANTS
  SkipMax,      \* pixels a run of a compiled mask skips at most (254)
  CountMax      \* and draws at most (255)

ASSUME BoxesAssumption == {SkipMax, CountMax} \subseteq Nat \ {0}

(* No clipping window: __clip is 0.                                        *)
None == [x1 |-> 0, y1 |-> 0, x2 |-> -1, y2 |-> -1]
PixelsIn(g) == (0..(g.width - 1)) \X (0..(g.height - 1))

gl_setcontextvirtual(w, h, bytes, v) ==
  [type |-> "virtual", vbuf |-> v, bytes |-> bytes, width |-> w, height |-> h,
   bytewidth |-> w * bytes, flags |-> {}, flippage |-> 0, clip |-> None]

-----------------------------------------------------------------------------
(* Clipping.  A window c is [x1, y1, x2, y2].                              *)

Whole(g) == [x1 |-> 0, y1 |-> 0, x2 |-> g.width - 1, y2 |-> g.height - 1]
Inner(g) == [x1 |-> 1, y1 |-> 1, x2 |-> g.width - 2, y2 |-> g.height - 1]

InClip(g, x, y) ==
  g.clip = None \/ (/\ g.clip.x1 <= x /\ x <= g.clip.x2
                    /\ g.clip.y1 <= y /\ y <= g.clip.y2)
Window(g) == {p \in PixelsIn(g) : InClip(g, p[1], p[2])}

(* Without a clipping window the program keeps within the screen.          *)
Fits(g, x, y, w, h) ==
  g.clip = None => x >= 0 /\ y >= 0 /\ x + w <= g.width /\ y + h <= g.height

(* A box that is not clipped away, and what is left of it.                 *)
Seen(c, x, y, w, h) ==
  ~(x + w < c.x1 \/ x > c.x2) /\ ~(y + h < c.y1 \/ y > c.y2)

ADJUSTBITMAPBOX(c, x, y, w, h) ==
  LET nx == IF x < c.x1 THEN c.x1 ELSE x
      ny == IF y < c.y1 THEN c.y1 ELSE y
      nw == w + x - nx
      nh == h + y - ny
  IN  [x |-> nx, y |-> ny,
       w |-> IF nx + nw > c.x2 THEN c.x2 - nx + 1 ELSE nw,
       h |-> IF ny + nh > c.y2 THEN c.y2 - ny + 1 ELSE nh]

(* The box is cut; nothing is left of it.                                 *)
Cut(g, x, y, w, h) ==
  LET n == ADJUSTBITMAPBOX(g.clip, x, y, w, h)
  IN  n.w # w \/ n.h # h

Lost(g, x, y, w, h) ==
  LET n == ADJUSTBITMAPBOX(g.clip, x, y, w, h)
  IN  g.clip # None /\ (~Seen(g.clip, x, y, w, h) \/ n.w <= 0 \/ n.h <= 0)

Left(g, x, y, w, h) ==
  IF g.clip = None THEN [x |-> x, y |-> y, w |-> w, h |-> h]
  ELSE ADJUSTBITMAPBOX(g.clip, x, y, w, h)

-----------------------------------------------------------------------------
(* What the calls do to the memory m of the context g.                     *)

FillBox(g, m, x, y, w, h, c) ==
  LET n == Left(g, x, y, w, h)
  IN  IF Lost(g, x, y, w, h) THEN m ELSE fillbox(g, m, n.x, n.y, n.w, n.h, c)

(* A box that is not cut is the part of itself at 0, 0.                    *)
PutBox(g, m, x, y, w, h, b) ==
  LET n == Left(g, x, y, w, h)
  IN  IF Lost(g, x, y, w, h) THEN m
      ELSE putboxpart(g, m, n.x, n.y, n.w, n.h, w, h, b, n.x - x, n.y - y)

Empty(g, w, h) == [a \in 0..(w * h * g.bytes - 1) |-> Junk]

(* The pixmap after gl_getbox into a fresh one.                            *)
GetBox(g, m, x, y, w, h) ==
  LET n == Left(g, x, y, w, h)
  IN  IF Lost(g, x, y, w, h) THEN Empty(g, w, h)
      ELSE getboxpart(g, m, n.x, n.y, n.w, n.h, w, h, Empty(g, w, h), n.x - x, n.y - y)

(* A context that is only the box.                                         *)
emulate_putboxmask(g, m, x, y, w, h, b) ==
  LET box == gl_setcontextvirtual(w, h, g.bytes, "box")
  IN  PutBox(g, m, x, y, w, h,
             putboxmask(box, GetBox(g, m, x, y, w, h), 0, 0, w, h, b))

PutBoxMask(g, m, x, y, w, h, b) ==
  IF g.clip # None /\ ~Seen(g.clip, x, y, w, h) THEN m
  ELSE IF \/ g.type = "paged"
          \/ /\ g.clip # None
             /\ \/ x < g.clip.x1 \/ y < g.clip.y1
                \/ x + w > g.clip.x2 + 1 \/ y + h > g.clip.y2 + 1
  THEN emulate_putboxmask(g, m, x, y, w, h, b)
  ELSE putboxmask(g, m, x, y, w, h, b)

CopyBox(g, m, x1, y1, w, h, x2, y2) ==
  IF g.type = "paged"
  THEN putbox(g, m, x2, y2, w, h,
              getbox(g, m, x1, y1, w, h, Empty(g, w, h), 0, w), 0, w)
  ELSE copybox(g, m, x1, y1, w, h, x2, y2)

(* The line's walk over the bytes: a step that leaves the window on either *)
(* side turns the page, and no pixel is looked at byte by byte.            *)
LineWalkBytes(g, walk) ==
  LET Reached[i \in DOMAIN walk] ==
        IF i = 0
        THEN LET vp == Vp(g, walk[0].x, walk[0].y)
             IN  IF g.type = "paged" THEN [page |-> vp \div Segment, fp |-> vp % Segment]
                 ELSE [page |-> 0, fp |-> vp]
        ELSE LET r == Reached[i - 1]
                 fp == r.fp + (walk[i].x - walk[i - 1].x) * g.bytes
                            + (walk[i].y - walk[i - 1].y) * g.bytewidth
             IN  IF g.type = "paged"
                 THEN [page |-> r.page + (fp \div Segment), fp |-> fp % Segment]
                 ELSE [page |-> 0, fp |-> fp]
      At(i, k) == LET r == Reached[i]
                  IN  IF g.type = "paged" THEN Reach(r.page, r.fp + k) ELSE r.fp + k
  IN  [p \in (DOMAIN walk) \X (0..(g.bytes - 1)) |-> [at |-> At(p[1], p[2])]]

DrawLine(g, m, walk, c) ==
  LET New(p) == Part(c, p[2])
  IN  Written(m, LineWalkBytes(g, walk), New)

-----------------------------------------------------------------------------
(* Compiled masks: for each row, runs of pixels to skip and pixels to draw.*)

(* The pixels of the row from x on that are zero, or that are not, up to   *)
(* the most a byte can say.                                                *)
Zeros(w, row, x) ==
  Max({n \in 0..SkipMax : x + n <= w /\ \A i \in 0..(n - 1) : row[x + i] = 0})
Nonzeros(w, row, x) ==
  Max({n \in 0..CountMax : x + n <= w /\ \A i \in 0..(n - 1) : row[x + i] # 0})

(* The runs of a row, and the bytes they take with the end of the line; a  *)
(* row that ends with zeros has none for them.                             *)
gl_compileboxmask(w, row) ==
  LET Run[n \in 0..(2 * w)] ==
        IF n = 0 THEN [x |-> 0, runs |-> <<>>, length |-> 1]
        ELSE LET r == Run[n - 1]
                 skip == Zeros(w, row, r.x)
                 x == r.x + skip
                 count == Nonzeros(w, row, x)
             IN  IF r.x >= w THEN r
                 ELSE IF x >= w THEN [r EXCEPT !.x = x]
                 ELSE [x |-> x + count,
                       runs |-> Append(r.runs, [skip |-> skip, from |-> x, count |-> count]),
                       length |-> r.length + 2 + count]
  IN  Run[2 * w]

gl_compiledboxmasksize(w, row) ==
  LET Size[n \in 0..(2 * w)] ==
        IF n = 0 THEN [x |-> 0, size |-> 1]
        ELSE LET r == Size[n - 1]
                 x == r.x + Zeros(w, row, r.x)
                 count == Nonzeros(w, row, x)
             IN  IF r.x >= w THEN r
                 ELSE IF x >= w THEN [x |-> x, size |-> r.size + 1]
                 ELSE [x |-> x + count, size |-> r.size + 1 + count + 1]
  IN  Size[2 * w].size

(* The pixels of a run that are put at x: all of them, or what the window  *)
(* leaves of them.                                                         *)
RunPut(g, cut, nx, x, count) ==
  IF ~cut THEN 0..(count - 1)
  ELSE LET c == g.clip
       IN  IF x >= nx
           THEN IF x + count > c.x2 + 1
                THEN IF x <= c.x2 THEN 0..(c.x2 - x) ELSE {}
                ELSE 0..(count - 1)
           ELSE IF x + count <= c.x1 THEN {}
           ELSE IF x + count > c.x2 + 1
                THEN (c.x1 - x)..(c.x1 - x + c.x2 - c.x1)
                ELSE (c.x1 - x)..(count - 1)

(* The pixels of the mask that are put, as pairs of column and row.        *)
MaskPut(g, x, y, w, h, b) ==
  LET cut == g.clip # None /\ Cut(g, x, y, w, h)
      n == Left(g, x, y, w, h)
      Row(i) == [j \in 0..(w - 1) |-> b[<<j, i>>]]
      Runs(i) == gl_compileboxmask(w, Row(i)).runs
      \* where a run starts: what the runs before it skipped and drew
      StartOf[i \in 0..(h - 1), k \in 1..(2 * w)] ==
        IF k > Len(Runs(i)) THEN 0
        ELSE (IF k = 1 THEN 0 ELSE StartOf[i, k - 1] + Runs(i)[k - 1].count)
             + Runs(i)[k].skip
      rows == {i \in 0..(h - 1) : cut => n.y <= y + i /\ y + i < n.y + n.h}
      PutOf(i, k) ==
        {<<StartOf[i, k] + j, i, Runs(i)[k].from + j>> :
           j \in RunPut(g, cut, n.x, x + StartOf[i, k], Runs(i)[k].count)}
  IN  IF g.clip # None /\ ~Seen(g.clip, x, y, w, h) THEN {}
      ELSE UNION {UNION {PutOf(i, k) : k \in 1..Len(Runs(i))} : i \in rows}

PutCompiled(g, m, x, y, w, h, b) ==
  LET put == MaskPut(g, x, y, w, h, b)
      placed == {<<Vp(g, x + q[1], y + q[2]), Part(b[<<q[3], q[2]>>], 0)>> : q \in put}
  IN  [a \in DOMAIN m |->
         IF \E q \in placed : q[1] = a THEN (CHOOSE q \in placed : q[1] = a)[2] ELSE m[a]]

=============================================================================
