------------------------------- MODULE VGAGL -------------------------------
(***************************************************************************)
(* vgagl (src/gl): a context for the screen and one for a virtual screen   *)
(* in main memory, the drawing calls with their clipping, copies from one  *)
(* context to the other, and gl_copyscreen, which with page flipping or    *)
(* triple buffering fills one page of the video memory while the monitor   *)
(* shows another.                                                          *)
(*                                                                         *)
(* Beside the memories stands picture, what the calls describe.  A drawing *)
(* call is one step; gl_copyscreen copies chunk by chunk, and a retrace    *)
(* may come between two of them.                                           *)
(***************************************************************************)
EXTENDS Boxes

CONSTANTS
  Setups,       \* the modes, their video memory and what is drawn in them
  DrawMax,      \* bound: drawing calls, but for the frames
  Prudent       \* the program keeps away from the calls known to fail

Types == {"virtual", "paged", "linear"}
Capabilities == {"flip", "triple", "aligned", "shift8"}

(* bytes: of a pixel; vbytes: of a pixel of the virtual screen; aligned    *)
(* and shift8 come from the driver's startaddressrange and RGB_MISORDERED; *)
(* calls: bound, the drawing calls the program makes.  A window within the *)
(* screen (Inner) is not empty: every mode has more than two columns.      *)
ASSUME VGAGLAssumption ==
  /\ \A s \in Setups :
       /\ s.type \in Types \ {"virtual"} /\ s.flags \subseteq {"aligned", "shift8"}
       /\ s.bytes \in 1..4 /\ s.vbytes \in 1..4
       /\ s.bytewidth >= s.width * s.bytes /\ s.memory % Segment = 0
       /\ s.calls \in {"all", "lines", "copies", "frames"}
       /\ s.width \in Nat \ {0} /\ s.height \in Nat \ {0}
       /\ s.calls # "frames" => s.width > 2 /\ s.height > 1
  /\ DrawMax \in Nat \ {0} /\ Prudent \in BOOLEAN

VARIABLES
  setup,
  physicalscreen,  \* the contexts the program keeps
  virtualscreen,
  currentcontext,
  vbuf,            \* the memory of each context
  screenoffset,
  displaystart,    \* what the card will show from the next retrace on
  scanned,         \* what it shows
  copying,         \* gl_copyscreen: how far it has come
  picture,         \* what the calls describe, for each page of the screen
  buffer,          \* what was read last, and what it should be
  line,            \* the line drawn last
  finished,        \* the picture in the page that will be shown
  visible,         \* and in the page that is shown
  ahead,           \* pages filled since the last retrace
  draws

contexts == <<physicalscreen, virtualscreen, currentcontext>>
display == <<displaystart, scanned, finished, visible, ahead>>
glvars == <<setup, contexts, vbuf, screenoffset, display, copying, picture,
            buffer, line, draws>>

Idle == [soffset |-> -1, doffset |-> -1]
NoLine == [from |-> <<0, 0>>, to |-> <<0, 0>>, clip |-> None, walk |-> <<>>,
           found |-> "nothing"]
NothingRead == [got |-> <<>>, due |-> <<>>]

-----------------------------------------------------------------------------
(* Contexts.                                                               *)

(* What a mode's memory is enough for, counted in pixels.                  *)
Capable(s) ==
  LET maxpixels == s.memory \div s.bytes
      pages == maxpixels \div (s.width * s.height)
  IN  (IF pages >= 2 THEN {"flip capable"} ELSE {}) \cup
      (IF pages >= 3 THEN {"triple capable"} ELSE {})

gl_setcontextvga(s) ==
  [type |-> s.type, vbuf |-> "screen", bytes |-> s.bytes, width |-> s.width,
   height |-> s.height, bytewidth |-> s.bytewidth,
   flags |-> s.flags \cup Capable(s), flippage |-> 0, clip |-> None]

(* The lines of a virtual screen made from a mode are as long as the mode's.*)
gl_setcontextvgavirtual(s) ==
  [gl_setcontextvirtual(s.width, s.height, s.bytes, "virtual")
     EXCEPT !.bytewidth = s.bytewidth]

VirtualOf(s) ==
  IF s.vbytes = s.bytes THEN gl_setcontextvgavirtual(s)
  ELSE gl_setcontextvirtual(s.width, s.height, s.vbytes, "virtual")

Blank(g) == [p \in PixelsIn(g) |-> 0]
SizeOf(g) == g.bytewidth * g.height

GLInit ==
  \E s \in Setups :
    /\ setup = s
    /\ physicalscreen = gl_setcontextvga(s) /\ virtualscreen = VirtualOf(s)
    /\ currentcontext = VirtualOf(s)
    /\ vbuf = [screen |-> [a \in 0..(s.memory - 1) |-> Zero0],
               virtual |-> [a \in 0..(SizeOf(VirtualOf(s)) - 1) |-> Zero0]]
    /\ picture = [screen |-> [i \in 0..2 |-> Blank(gl_setcontextvga(s))],
                  virtual |-> Blank(VirtualOf(s))]
    /\ screenoffset = 0 /\ displaystart = 0 /\ scanned = 0 /\ copying = Idle
    /\ buffer = NothingRead /\ line = NoLine /\ draws = 0 /\ ahead = 0
    /\ finished = Blank(gl_setcontextvga(s)) /\ visible = finished

Flips(g) == g.flags \cap {"flip", "triple"} # {}

-----------------------------------------------------------------------------
(* The program.                                                            *)

On == currentcontext.vbuf
Memory == vbuf[On]
Current == IF On = "screen" THEN picture.screen[0] ELSE picture.virtual

(* Its own bound: it first fills a context with pixels that differ, and    *)
(* makes the other calls afterwards.                                       *)
Filling == copying = Idle /\ draws = 0
Ready(kinds) ==
  /\ copying = Idle /\ draws < DrawMax /\ setup.calls \in kinds
  /\ Current # Blank(currentcontext)
Counted == draws' = draws + 1

KeepDisplay == UNCHANGED <<screenoffset, display, copying>>
KeepAll == UNCHANGED <<setup, contexts, screenoffset, display, copying>>

gl_setcontext(gc) ==
  /\ Filling /\ currentcontext' = gc
  /\ UNCHANGED <<setup, physicalscreen, virtualscreen, vbuf, picture, buffer, line, draws>>
  /\ KeepDisplay

gl_setclippingwindow(c) ==
  /\ Filling /\ setup.calls \in {"all", "lines", "copies"}
  /\ currentcontext' = [currentcontext EXCEPT !.clip = c]
  /\ UNCHANGED <<setup, physicalscreen, virtualscreen, vbuf, picture, buffer, line, draws>>
  /\ KeepDisplay

gl_enableclipping == gl_setclippingwindow(Whole(currentcontext))
gl_disableclipping == gl_setclippingwindow(None)

(* The colors of a pixmap and of a mask, and the bytes of either.          *)
Pixmap(k) == [x \in 0..20, y \in 0..20 |-> 20 * k + 1 + x + 8 * y]
Transparent(x, y) == (y % 3 = 0 /\ x < 3) \/ (y % 3 = 1 /\ x % 3 = 1)
Mask == [x \in 0..20, y \in 0..20 |-> IF Transparent(x, y) THEN 0 ELSE Pixmap(3)[x, y]]
BytesOfPixmap(b, w, h, bytes) ==
  [i \in 0..(w * h * bytes - 1) |->
     LET p == i \div bytes IN Part(b[p % w, p \div w], i % bytes)]

(* What the calls describe of the box: the pixels of it in the window.     *)
Visible(x, y, w, h) ==
  {p \in Window(currentcontext) : p[1] - x \in 0..(w - 1) /\ p[2] - y \in 0..(h - 1)}
Paint(pic, new) == [p \in DOMAIN pic |-> IF p \in DOMAIN new THEN new[p] ELSE pic[p]]

(* The memory v becomes m, and its picture that with the pixels new.       *)
Changes(v, m, new) ==
  /\ vbuf' = [vbuf EXCEPT ![v] = m]
  /\ picture' = IF v = "screen" THEN [picture EXCEPT !.screen[0] = Paint(@, new)]
                ELSE [picture EXCEPT !.virtual = Paint(@, new)]
Draws(m, new) ==
  /\ Changes(On, m, new)
  /\ Counted /\ KeepAll /\ UNCHANGED <<buffer, line>>
Reads(got, due) ==
  /\ buffer' = [got |-> got, due |-> due]
  /\ Counted /\ KeepAll /\ UNCHANGED <<vbuf, picture, line>>

(* The pixels of several bytes that the clipped calls get wrong.           *)
CutWell(x, y, w, h) ==
  Prudent /\ currentcontext.clip # None /\ currentcontext.bytes \in {2, 3} =>
    \/ ~Seen(currentcontext.clip, x, y, w, h) \/ ~Cut(currentcontext, x, y, w, h)

fill(k) ==
  LET g == currentcontext
  IN  /\ Filling /\ g.clip = None
      /\ setup.calls \in {"frames", "lines"} => On = "virtual"
      /\ setup.calls # "frames" =>
           picture = [screen |-> [i \in 0..2 |-> Blank(physicalscreen)],
                      virtual |-> Blank(virtualscreen)]
      /\ Changes(On, PutBox(g, Memory, 0, 0, g.width, g.height,
                            BytesOfPixmap(Pixmap(k), g.width, g.height, g.bytes)),
                 [p \in PixelsIn(g) |-> Pixmap(k)[p]])
      /\ KeepAll /\ UNCHANGED <<buffer, line, draws>>

gl_setpixel(x, y, c) ==
  /\ Ready({"all"})
  /\ Draws(IF InClip(currentcontext, x, y)
           THEN setpixel(currentcontext, Memory, x, y, c) ELSE Memory,
           [p \in Visible(x, y, 1, 1) |-> c])

gl_getpixel(x, y) ==
  LET k == 0..(currentcontext.bytes - 1)
  IN  /\ Ready({"all"})
      /\ IF InClip(currentcontext, x, y)
         THEN Reads(getpixel(currentcontext, Memory, x, y),
                    [i \in k |-> Part(Current[<<x, y>>], i)])
         ELSE Reads([i \in k |-> -1], [i \in k |-> -1])

gl_hline(x1, y, x2, c) ==
  LET g == currentcontext
      l == IF g.clip # None /\ x1 < g.clip.x1 THEN g.clip.x1 ELSE x1
      r == IF g.clip # None /\ x2 > g.clip.x2 THEN g.clip.x2 ELSE x2
  IN  /\ Ready({"all"}) /\ Fits(g, x1, y, x2 - x1 + 1, 1)
      /\ Draws(IF (g.clip # None /\ ~(g.clip.y1 <= y /\ y <= g.clip.y2)) \/ l > r
               THEN Memory ELSE hline(g, Memory, l, y, r, c),
               [p \in Visible(x1, y, x2 - x1 + 1, 1) |-> c])

gl_fillbox(x, y, w, h, c) ==
  /\ Ready({"all"}) /\ Fits(currentcontext, x, y, w, h)
  /\ Draws(FillBox(currentcontext, Memory, x, y, w, h, c),
           [p \in Visible(x, y, w, h) |-> c])

gl_putbox(x, y, w, h, b) ==
  /\ Ready({"all"}) /\ Fits(currentcontext, x, y, w, h)
  /\ Draws(PutBox(currentcontext, Memory, x, y, w, h,
                  BytesOfPixmap(b, w, h, currentcontext.bytes)),
           [p \in Visible(x, y, w, h) |-> b[p[1] - x, p[2] - y]])

gl_putboxmask(x, y, w, h, b) ==
  /\ Ready({"all"}) /\ Fits(currentcontext, x, y, w, h) /\ CutWell(x, y, w, h)
  /\ Draws(PutBoxMask(currentcontext, Memory, x, y, w, h,
                      BytesOfPixmap(b, w, h, currentcontext.bytes)),
           [p \in {q \in Visible(x, y, w, h) : b[q[1] - x, q[2] - y] # 0} |->
              b[p[1] - x, p[2] - y]])

gl_putboxmaskcompiled(x, y, w, h, b) ==
  LET rows == [p \in (0..(w - 1)) \X (0..(h - 1)) |-> b[p]]
      Row(i) == [j \in 0..(w - 1) |-> b[j, i]]
  IN  /\ Ready({"all"}) /\ Fits(currentcontext, x, y, w, h)
      /\ currentcontext.bytes = 1 /\ currentcontext.type # "paged"
      /\ Changes(On, PutCompiled(currentcontext, Memory, x, y, w, h, rows),
                 [p \in {q \in Visible(x, y, w, h) : b[q[1] - x, q[2] - y] # 0} |->
                    b[p[1] - x, p[2] - y]])
      \* the program asked for the size it needs
      /\ buffer' = [got |-> \A i \in 0..(h - 1) :
                              gl_compileboxmask(w, Row(i)).length
                                <= gl_compiledboxmasksize(w, Row(i)),
                    due |-> TRUE]
      /\ Counted /\ KeepAll /\ UNCHANGED line

gl_getbox(x, y, w, h) ==
  LET g == currentcontext
      Pixel(i) == <<x + ((i \div g.bytes) % w), y + ((i \div g.bytes) \div w)>>
  IN  /\ Ready({"all"}) /\ Fits(g, x, y, w, h) /\ CutWell(x, y, w, h)
      /\ Reads(GetBox(g, Memory, x, y, w, h),
               [i \in 0..(w * h * g.bytes - 1) |->
                  IF Pixel(i) \in Window(g) THEN Part(Current[Pixel(i)], i % g.bytes)
                  ELSE Junk])

gl_copybox(x1, y1, w, h, x2, y2) ==
  /\ Ready({"all"}) /\ currentcontext.clip = None
  /\ Fits(currentcontext, x1, y1, w, h) /\ Fits(currentcontext, x2, y2, w, h)
  /\ Draws(CopyBox(currentcontext, Memory, x1, y1, w, h, x2, y2),
           [p \in Visible(x2, y2, w, h) |-> Current[<<p[1] - x2 + x1, p[2] - y2 + y1>>]])

(* A pixel of three bytes across two pages is more than gl_line looks at.  *)
Across(walk) ==
  /\ currentcontext.type = "paged" /\ currentcontext.bytes = 3
  /\ \E i \in DOMAIN walk :
       Vp(currentcontext, walk[i].x, walk[i].y) % Segment > Segment - 3

Traced(clip, p1, p2) ==
  LET l == IF clip = None THEN [p |-> p1, q |-> p2, found |-> "inside"]
           ELSE Clipped(clip, p1, p2)
  IN  [from |-> p1, to |-> p2, clip |-> clip, found |-> l.found,
       walk |-> IF l.found = "outside" THEN <<>> ELSE Walk(l.p, l.q)]

gl_line(p1, p2, c) ==
  LET l == Traced(currentcontext.clip, p1, p2)
  IN  /\ Ready({"all", "lines"})
      /\ l.clip = None => {p1, p2} \subseteq PixelsIn(currentcontext)
      /\ Prudent => ~Across(l.walk)
      /\ Changes(On, IF l.walk = <<>> THEN Memory
                     ELSE DrawLine(currentcontext, Memory, l.walk, c),
                 [p \in PixelsOf(l.walk) |-> c])
      /\ line' = l
      /\ Counted /\ KeepAll /\ UNCHANGED buffer

-----------------------------------------------------------------------------
(* From one context to another.                                            *)

gl_setscreenoffset(o) ==
  /\ Filling /\ setup.calls = "copies" /\ screenoffset' = o
  /\ UNCHANGED <<setup, contexts, vbuf, display, copying, picture, buffer, line, draws>>

memcpy4to3(b, n) == [i \in 0..(3 * n - 1) |-> b[4 * (i \div 3) + (i % 3)]]

(* gl_copyboxtocontext, and gl_copyboxfromcontext with the parts exchanged:*)
(* at once from memory that is addressed at once, without clipping, or by  *)
(* way of a pixmap, four bytes of a pixel becoming three.  start is the    *)
(* screen offset in rows of the destination.                               *)
CopyAcross(from, x1, y1, w, h, to, x2, y2) ==
  LET thinner == from.bytes = 4 /\ to.bytes = 3
      start == IF thinner /\ to.type # "paged" /\ to.clip = None THEN 0
               ELSE screenoffset \div to.bytewidth
      b == GetBox(from, vbuf[from.vbuf], x1, y1, w, h)
  IN  IF /\ from.type # "paged" /\ from.bytes = to.bytes
         /\ from.clip = None /\ to.clip = None
      THEN putbox(to, vbuf[to.vbuf], x2, y2 + start, w, h, vbuf[from.vbuf],
                  Vp(from, x1, y1), from.bytewidth \div from.bytes)
      ELSE PutBox(to, vbuf[to.vbuf], x2, y2 + start, w, h,
                  IF thinner THEN memcpy4to3(b, w * h) ELSE b)

(* What is known to fail: a part of the source that its clipping leaves out*)
(* of the pixmap, lines that are no whole number of pixels, and a screen   *)
(* offset that is not looked at.                                           *)
CopyWell(from, x1, y1, w, h, to) ==
  Prudent =>
    /\ from.clip = None \/ (Seen(from.clip, x1, y1, w, h) /\ ~Cut(from, x1, y1, w, h))
    /\ from.bytewidth % from.bytes = 0
    /\ from.bytes # to.bytes /\ to.type # "paged" /\ to.clip = None => screenoffset = 0

CopiesBox(from, x1, y1, w, h, to, x2, y2) ==
  LET rows == screenoffset \div to.bytewidth
  IN  /\ copying = Idle /\ draws < DrawMax /\ setup.calls = "copies"
      /\ from.bytes = to.bytes \/ (from.bytes = 4 /\ to.bytes = 3)
      /\ Fits([from EXCEPT !.clip = None], x1, y1, w, h) /\ CopyWell(from, x1, y1, w, h, to)
      /\ Fits(to, x2, y2 + rows, w, h)
      /\ LET pic == IF from.vbuf = "screen" THEN picture.screen[0] ELSE picture.virtual
             seen == {p \in PixelsIn(to) :
                        /\ InClip(to, p[1], p[2])
                        /\ p[1] - x2 \in 0..(w - 1) /\ p[2] - y2 - rows \in 0..(h - 1)}
         IN  /\ pic # Blank(from)
             /\ Changes(to.vbuf, CopyAcross(from, x1, y1, w, h, to, x2, y2),
                        [p \in seen |-> pic[<<p[1] - x2 + x1, p[2] - y2 - rows + y1>>]])
      /\ Counted /\ KeepAll /\ UNCHANGED <<buffer, line>>

Other == IF On = "screen" THEN virtualscreen ELSE physicalscreen

(* The context given may have been saved with a clipping window.           *)
gl_copyboxtocontext(x1, y1, w, h, x2, y2) ==
  \E c \in {None, Inner(Other)} :
    CopiesBox(currentcontext, x1, y1, w, h, [Other EXCEPT !.clip = c], x2, y2)

gl_copyboxfromcontext(x1, y1, w, h, x2, y2) ==
  \E c \in {None, Inner(Other)} :
    CopiesBox([Other EXCEPT !.clip = c], x1, y1, w, h, currentcontext, x2, y2)

-----------------------------------------------------------------------------
(* Page flipping.                                                          *)

(* The program enables it once: later it would go back to page 0.          *)
gl_enablepageflipping ==
  LET gc == physicalscreen
      flip == IF "flip capable" \in gc.flags THEN gc.flags \cup {"flip"} ELSE gc.flags
  IN  /\ Filling /\ setup.calls = "frames" /\ ~Flips(gc)
      /\ physicalscreen' =
           [gc EXCEPT !.flags = IF "triple capable" \in gc.flags
                                THEN (flip \ {"flip"}) \cup {"triple"} ELSE flip,
                      !.flippage = 0]
      /\ UNCHANGED <<setup, virtualscreen, currentcontext, vbuf, picture, buffer, line, draws>>
      /\ KeepDisplay

Pages(gc) == IF "triple" \in gc.flags THEN 3 ELSE IF "flip" \in gc.flags THEN 2 ELSE 1

FaultyNextPage(gc) ==
  IF Flips(gc) THEN (gc.flippage + 1) % 2 ELSE gc.flippage
NextPage(gc) ==
  IF "triple" \in gc.flags THEN (gc.flippage + 1) % 3
  ELSE IF "flip" \in gc.flags THEN 1 - gc.flippage ELSE gc.flippage

Aligned(o) == ((o + Segment - 1) \div Segment) * Segment

(* gl_copyscreen(physicalscreen), with the virtual screen as the current   *)
(* context.  The program does not fill the page that is shown: it waits    *)
(* for a retrace when every other page is filled.                          *)
BeginCopy ==
  LET gc == [physicalscreen EXCEPT !.flippage = NextPage(physicalscreen)]
      o == gc.bytewidth * currentcontext.height * gc.flippage
      start == IF ~Flips(gc) THEN screenoffset
               ELSE IF "aligned" \in gc.flags THEN Aligned(o) ELSE o
  IN  /\ Filling /\ setup.calls = "frames" /\ On = "virtual"
      /\ Flips(gc) => ahead < Pages(gc) - 1
      /\ physicalscreen' = gc
      /\ screenoffset' = start
      /\ copying' = [soffset |-> 0, doffset |-> start]
      /\ UNCHANGED <<setup, virtualscreen, currentcontext, vbuf, display, picture, buffer,
                     line, draws>>

(* __svgalib_driver_setwrite: how far it is to the end of the window.      *)
setwrite(gc, o) == IF gc.type = "paged" THEN Segment - (o % Segment) ELSE Segment
Least(a, b, c) == Min({a, b, c})

(* The bytes from doffset on become those of b; they are behind one window *)
(* or, one by one, behind two.                                             *)
Placed0(gc, m, doffset, b, single) ==
  LET n == Cardinality(DOMAIN b)
      At(i) == IF gc.type # "paged" \/ single THEN doffset + i
               ELSE Reach(doffset \div Segment, (doffset % Segment) + i)
      bytes == [p \in {0} \X (0..(n - 1)) |-> [at |-> At(p[2])]]
      New(p) == b[p[2]]
  IN  Written(m, bytes, New)

CopyLimit == IF currentcontext.bytes = 4 /\ physicalscreen.bytes = 3
             THEN 4 * currentcontext.width * currentcontext.height
             ELSE SizeOf(currentcontext)

FaultyCopyPixels(gc, dchunk, soffset, doffset) ==
  IF dchunk \in {1, 2} THEN 1
  ELSE Least(Segment \div 4, (dchunk + 2) \div 3, (CopyLimit - soffset) \div 4)
CopyPixels(gc, dchunk, soffset, doffset) ==
  IF dchunk \in {1, 2} THEN 1
  ELSE Least(Segment \div 4, dchunk \div 3, (CopyLimit - soffset) \div 4)

(* Four bytes of a pixel become three; the page may end within a pixel.    *)
Chunk4to3(gc, s, d) ==
  LET dchunk == setwrite(gc, d)
      count == CopyPixels(gc, dchunk, s, d)
      b == memcpy4to3([i \in 0..(4 * count - 1) |-> vbuf.virtual[s + i]], count)
  IN  /\ vbuf' = [vbuf EXCEPT !.screen = Placed0(gc, @, d, b, dchunk \in {1, 2})]
      /\ copying' = [soffset |-> s + 4 * count, doffset |-> d + 3 * count]

(* The same bytes, or each pixel a byte higher.                            *)
ChunkSame(gc, s, d) ==
  LET count == Least(Segment, setwrite(gc, d), CopyLimit - s)
      shift == "shift8" \in gc.flags /\ gc.bytes = 4
      b == IF shift
           THEN [i \in 0..(4 * (count \div 4) - 1) |->
                   IF i % 4 = 0 THEN Zero0 ELSE vbuf.virtual[s + i - 1]]
           ELSE [i \in 0..(count - 1) |-> vbuf.virtual[s + i]]
  IN  /\ vbuf' = [vbuf EXCEPT !.screen = Placed0(gc, @, d, b, FALSE)]
      /\ copying' = [soffset |-> s + count, doffset |-> d + count]

(* Lines with padding: a box at once.                                      *)
Padded(gc) == currentcontext.bytewidth \div 4 # gc.bytewidth \div 3

CopyChunk ==
  LET gc == physicalscreen
      s == copying.soffset
      d == copying.doffset
      v == currentcontext
  IN  /\ copying # Idle /\ s < CopyLimit
      /\ \/ /\ v.bytes = 4 /\ gc.bytes = 3 /\ Padded(gc)
            /\ vbuf' = [vbuf EXCEPT !.screen =
                          CopyAcross(v, 0, 0, v.width, v.height, gc, 0, 0)]
            /\ copying' = [soffset |-> CopyLimit, doffset |-> d]
         \/ v.bytes = 4 /\ gc.bytes = 3 /\ ~Padded(gc) /\ Chunk4to3(gc, s, d)
         \/ v.bytes = gc.bytes /\ ChunkSame(gc, s, d)
      /\ UNCHANGED <<setup, contexts, screenoffset, display, picture, buffer, line, draws>>

FaultyStartOf(gc) == gc.bytewidth * gc.height * gc.flippage
StartOf(gc) ==
  IF "aligned" \in gc.flags THEN screenoffset
  ELSE gc.height * gc.flippage * gc.bytewidth

EndCopy ==
  LET gc == physicalscreen
  IN  /\ copying # Idle /\ copying.soffset >= CopyLimit
      /\ copying' = Idle /\ screenoffset' = 0
      /\ displaystart' = IF Flips(gc) THEN StartOf(gc) ELSE displaystart
      /\ picture' = [picture EXCEPT !.screen[gc.flippage] = picture.virtual]
      /\ finished' = picture.virtual
      /\ visible' = IF Flips(gc) THEN visible ELSE picture.virtual
      /\ ahead' = IF Flips(gc) THEN ahead + 1 ELSE ahead
      /\ UNCHANGED <<setup, contexts, vbuf, scanned, buffer, line, draws>>

(* The card takes the start at a retrace only.                             *)
VerticalRetrace ==
  /\ scanned # displaystart \/ ahead # 0
  /\ scanned' = displaystart /\ visible' = finished /\ ahead' = 0
  /\ UNCHANGED <<setup, contexts, vbuf, screenoffset, displaystart, finished, copying,
                 picture, buffer, line, draws>>

-----------------------------------------------------------------------------
Frames == {1, 2}
Ink == 200

(* Boxes that may lie a pixel outside on either side.                      *)
BoxesDrawn == ((-1)..(setup.width - 1)) \X ((-1)..(setup.height - 1))
         \X (1..setup.width) \X (1..setup.height)
Points ==
  IF setup.calls = "lines"
  THEN {p \in ((-3)..(setup.width + 3)) \X ((-3)..(setup.height + 3)) :
          p \notin PixelsIn(currentcontext) => p[1] % 3 = 0 /\ p[2] % 3 = 0}
  ELSE PixelsIn(currentcontext)

Configures ==
  \/ \E gc \in {physicalscreen, virtualscreen} : gl_setcontext(gc)
  \/ gl_setclippingwindow(Inner(currentcontext))
  \/ gl_enableclipping \/ gl_disableclipping
  \/ gl_setscreenoffset(physicalscreen.bytewidth)
  \/ gl_enablepageflipping
  \/ \E k \in Frames : fill(k)

DrawsOne ==
  \/ \E x \in 0..(setup.width - 1), y \in 0..(setup.height - 1) :
       \/ gl_setpixel(x, y, Ink) \/ gl_getpixel(x, y)
       \/ \E x2 \in x..(setup.width - 1) : gl_hline(x, y, x2, Ink)
       \/ \E w \in 1..(setup.width - x), h \in 1..(setup.height - y) :
            \E x2 \in 0..(setup.width - w), y2 \in 0..(setup.height - h) :
              \/ gl_copybox(x, y, w, h, x2, y2)
              \/ gl_copyboxtocontext(x, y, w, h, x2, y2)
              \/ gl_copyboxfromcontext(x, y, w, h, x2, y2)
  \/ \E q \in BoxesDrawn :
       \/ gl_fillbox(q[1], q[2], q[3], q[4], Ink)
       \/ gl_putbox(q[1], q[2], q[3], q[4], Pixmap(3))
       \/ gl_putboxmask(q[1], q[2], q[3], q[4], Mask)
       \/ gl_putboxmaskcompiled(q[1], q[2], q[3], q[4], Mask)
       \/ gl_getbox(q[1], q[2], q[3], q[4])
  \/ \E p, q \in Points : gl_line(p, q, Ink)

GLNext ==
  \/ Configures
  \/ draws < DrawMax /\ DrawsOne
  \/ BeginCopy \/ CopyChunk \/ EndCopy \/ VerticalRetrace

GLSpec == GLInit /\ [][GLNext]_glvars

-----------------------------------------------------------------------------
(* Properties.                                                             *)

(* The byte at a of a memory with the picture pic.                         *)
ByteAt(g, pic, a) ==
  LET x == a % g.bytewidth
      p == <<x \div g.bytes, a \div g.bytewidth>>
      c == pic[p]
  IN  IF x >= g.width * g.bytes THEN Zero0
      ELSE Part(IF "shift8" \in g.flags THEN Shifted + c ELSE c, x % g.bytes)

PageStart(i) ==
  LET o == i * SizeOf(physicalscreen)
  IN  IF "aligned" \in physicalscreen.flags THEN Aligned(o) ELSE o
PageBytes(i) == PageStart(i)..(PageStart(i) + SizeOf(physicalscreen) - 1)

(* Each context holds the picture the calls describe and nothing else: no  *)
(* call lost a byte at a page's end, wrote beside its box, its window or   *)
(* its page, or read anything but what it was asked for.                   *)
ContextsKept ==
  /\ \A a \in DOMAIN vbuf.virtual :
       vbuf.virtual[a] = ByteAt(virtualscreen, picture.virtual, a)
  /\ \A a \in DOMAIN vbuf.screen :
       LET pages == {i \in 0..(Pages(physicalscreen) - 1) : a \in PageBytes(i)}
           filling == copying # Idle /\ physicalscreen.flippage \in pages
       IN  filling \/ IF pages = {} THEN vbuf.screen[a] = Zero0
                      ELSE \A i \in pages :
                             vbuf.screen[a] = ByteAt(physicalscreen, picture.screen[i],
                                                     a - PageStart(i))
  /\ buffer.got = buffer.due

(* With flipping the monitor shows whole frames only, the one finished     *)
(* last before the retrace: what gl_copyscreen fills is another page.      *)
Shown ==
  Flips(physicalscreen) =>
    \A a \in 0..(SizeOf(physicalscreen) - 1) :
      vbuf.screen[scanned + a] = ByteAt(physicalscreen, visible, a)

(* A line has one pixel for each step along its longer axis, each as near  *)
(* to the ideal line as can be and the same in both directions; of a       *)
(* clipped one no pixel is outside the window, and none further off than   *)
(* the moved ends' rounding explains: half a pixel of the walk, and one    *)
(* along each axis.                                                        *)
Exact(l) ==
  LET dx == l.to[1] - l.from[1]
      dy == l.to[2] - l.from[2]
      longer == IF Magnitude(dx) > Magnitude(dy) THEN Magnitude(dx) ELSE Magnitude(dy)
      Off(p) == Magnitude(dx * (p[2] - l.from[2]) - dy * (p[1] - l.from[1]))
      pixels == PixelsOf(l.walk)
      plain == l.clip = None
               \/ \A p \in {l.from, l.to} : gl_regioncode(l.clip, p) = {}
  IN  /\ l.found # "nothing"
      /\ l.clip # None => \A p \in pixels : gl_regioncode(l.clip, p) = {}
      /\ plain => /\ {l.from, l.to} \subseteq pixels
                  /\ Cardinality(pixels) = longer + 1
                  /\ \A p \in pixels : 2 * Off(p) <= longer
                  /\ pixels = PixelsOf(Walk(l.to, l.from))
      /\ \A p \in pixels : 2 * Off(p) <= longer + 2 * (Magnitude(dx) + Magnitude(dy))

LineTrue == line # NoLine => Exact(line)

=============================================================================
