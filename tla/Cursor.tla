------------------------------- MODULE Cursor -------------------------------
(***************************************************************************)
(* The mouse cursor (src/src/vgacursor.c), drawn by the library or by the  *)
(* card, and what a virtual console switch does to it.                     *)
(*                                                                         *)
(* The software cursor lives in the picture: shown, it keeps the pixels it *)
(* covers in buf.  The hardware cursor lives in registers and images of    *)
(* the card, which the switch loses and __svgalib_cursor_restore sets      *)
(* again.  The switch is a signal: it comes between any two steps of a     *)
(* call, unless the program holds the switch off with vga_lockvc.          *)
(*                                                                         *)
(* One line of the screen; what the program drew and what it asked for     *)
(* are kept in drawn and asked, which no code sees.                        *)
(***************************************************************************)
EXTENDS HwCursors, Sequences

CONSTANTS
  Width,        \* pixels of the line
  Size,         \* pixels of a cursor (32)
  Cur,          \* the numbers of cursors (0..15)
  Spots,        \* coordinates of a card's cursor
  Wary          \* the program locks the calls a switch may not interrupt,
                \* and keeps away from what is known to fail

(* The last part is a fact about the drivers' tables, and about nothing    *)
(* that an instance chooses.                                               *)
ASSUME CursorAssumption ==
  /\ Width \in Nat \ {0} /\ Size \in Nat \ {0} /\ Wary \in BOOLEAN
  /\ 0 \in Cur /\ Cur \subseteq Numbers
  /\ 0 \in Spots /\ Spots \subseteq Coordinates
  /\ \A card \in DOMAIN Cursors : Apt(Cursors[card], Numbers, Coordinates)

(* The pixels of an image's mask.                                          *)
Mask == [arrow |-> {0}, cross |-> 0..(Size - 1), garbled |-> {Size - 1}]
Images == {"arrow", "cross"}
Ink == {"blank", "red"}
Shades == Ink \cup DOMAIN Mask

VARIABLES
  chipset_cursor,   \* "software" or the driver of the card
  sw,               \* the picture, and the software cursor's statics
  cursor, cursors,  \* the selected cursor, and the images kept
  sx, sp, status,   \* what __svgalib_cursor_restore sets again
  hw,               \* the card's cursor: registers and images
  own,              \* the images as the driver itself keeps them
  todo,             \* the steps left of the call in progress
  locked,           \* the program holds the switch off
  drawn, asked

told == <<sx, sp, status>>
cursorVars == <<chipset_cursor, sw, cursor, cursors, told, hw, own, todo, locked, drawn, asked>>

Xs == 0..(Width - 1)
Line == [Xs -> Shades]
Clip(x) == {k \in 0..(Size - 1) : x + k < Width}
Square(x) == {x + k : k \in Clip(x)}

Spot == Spots \X Spots

Idle == todo = <<>>
Software == chipset_cursor = "software"
Hardware == Cursors[chipset_cursor]

CursorTypeOK ==
  /\ chipset_cursor \in {"software"} \cup DOMAIN Cursors
  /\ sw \in [screen : Line, buf : [0..(Size - 1) -> Shades],
             cur_x : Xs, cur_show : 0..1]
  /\ cursor \in Cur /\ sp \in Cur /\ status \in 0..3
  /\ cursors \in [Cur -> DOMAIN Mask \cup {NoImage}]
  /\ own \in [Cur -> Images \cup {NoImage}]
  /\ sx \in (IF Software THEN Xs ELSE Spot) /\ asked.x \in (IF Software THEN Xs ELSE Spot)
  /\ ~Software => /\ hw.regs \in [Units(Hardware) -> BOOLEAN]
                  /\ hw.mem \in [Slots(Hardware, Cur) -> Images \cup {NoImage}]
  /\ locked \in BOOLEAN
  /\ drawn \in [Xs -> Ink]
  /\ asked.show \in 0..1 /\ asked.sel \in Cur
  /\ asked.image \in [Cur -> Images \cup {NoImage}]

(* vga_initcursor, in a graphics mode. A card's cursor has then been given *)
(* its first image, been selected and placed: before that it is anyhow.    *)
NoImages == [c \in Cur |-> NoImage]
First == [NoImages EXCEPT ![0] = "arrow"]
CursorInit ==
  /\ chipset_cursor \in {"software"} \cup DOMAIN Cursors
  /\ cursor = 0 /\ sp = 0 /\ status = 0
  /\ sw = [screen |-> [x \in Xs |-> "blank"], buf |-> [k \in 0..(Size - 1) |-> "blank"],
           cur_x |-> 0, cur_show |-> 0]
  /\ IF Software
     THEN /\ cursors = NoImages /\ own = NoImages /\ sx = 0
          /\ hw = [regs |-> <<>>, mem |-> <<>>, colors |-> NoImage]
     ELSE /\ cursors = First /\ own = First /\ sx = <<0, 0>>
          /\ \E b \in BOOLEAN :
               LET h == Filled(Lost(Hardware, Cur, b), Hardware, First, 0)
               IN  hw = Enabled(Placed(Selected(h, Hardware, First, 0), Hardware, sx),
                                Hardware, 0)
  /\ asked = [show |-> 0, x |-> sx, sel |-> 0, image |-> cursors]
  /\ todo = <<>> /\ locked = FALSE
  /\ drawn = [x \in Xs |-> "blank"]

-----------------------------------------------------------------------------
(* software_cursor: its steps, on the picture and its statics.             *)

FaultyDrawCursor(s, p) ==
  [s EXCEPT !.screen = [x \in Xs \cup s.cur_x..(s.cur_x + Size - 1) |->
     IF x >= s.cur_x /\ x < s.cur_x + Size THEN p[x - s.cur_x] ELSE s.screen[x]]]
draw_cursor(s, p) ==
  [s EXCEPT !.screen = [x \in Xs |->
     IF x \in Square(s.cur_x) THEN p[x - s.cur_x] ELSE s.screen[x]]]

Pattern(s, image) ==
  [k \in 0..(Size - 1) |-> IF k \in Mask[image] THEN image ELSE s.buf[k]]

get_cursor(s) ==
  [s EXCEPT !.buf = [k \in 0..(Size - 1) |->
     IF k \in Clip(s.cur_x) THEN s.screen[s.cur_x + k] ELSE s.buf[k]]]

SoftwareStep(s, step, image) ==
  CASE step.op = "uncover" -> draw_cursor(s, s.buf)
    [] step.op = "hidden"  -> [s EXCEPT !.cur_show = 0]
    [] step.op = "save"    -> get_cursor(s)
    [] step.op = "draw"    -> draw_cursor(s, Pattern(s, image))
    [] step.op = "shown"   -> [s EXCEPT !.cur_show = 1]
    [] step.op = "place"   -> [s EXCEPT !.cur_x = step.arg]

Do(op) == [op |-> op, arg |-> 0]
With(op, x) == [op |-> op, arg |-> x]

HideSteps == <<Do("uncover"), Do("hidden")>>
FaultyShowSteps == <<Do("draw"), Do("save"), Do("shown")>>
ShowSteps == <<Do("save"), Do("draw"), Do("shown")>>
Hide(show) == IF show = 1 THEN HideSteps ELSE <<>>
Show(show) == IF show = 0 THEN ShowSteps ELSE <<>>

FaultyPosition(show, x) ==
  IF show = 1 THEN <<With("place", x)>> \o HideSteps \o ShowSteps
  ELSE <<With("place", x)>>
Position(show, x) ==
  IF show = 1 THEN HideSteps \o <<With("place", x)>> \o ShowSteps
  ELSE <<With("place", x)>>

SoftwareOps == {"uncover", "hidden", "save", "draw", "shown", "place"}

-----------------------------------------------------------------------------
(* The library's calls, as the steps they take.                            *)

ShowCall(show) ==
  IF Software
  THEN (IF show % 2 = 1 THEN Show(sw.cur_show) ELSE Hide(sw.cur_show))
       \o <<With("status", show % 2)>>
  ELSE (IF show < 2 THEN <<With("hwshow", show)>> ELSE <<>>)
       \o <<With("status", show)>>

FaultyPositionCall(x) ==
  (IF Software THEN Position(sw.cur_show, x) ELSE <<With("hwplace", x)>>)
  \o <<With("sx", x)>>
PositionCall(x) ==
  <<With("sx", x)>>
  \o (IF Software THEN Position(sw.cur_show, x) ELSE <<With("hwplace", x)>>)

SelectCall(c) ==
  <<With("sp", c), With(IF Software THEN "cursor" ELSE "hwsel", c)>>

(* A software cursor's image is kept; so is a hardware cursor's, first.    *)
ImageCall(c, image) ==
  <<With("keep", <<c, image>>)>>
  \o (IF Software THEN <<>> ELSE <<With("hwimage", <<c, image>>)>>)

(* A call: a wary program holds the switch off for it, unless it only      *)
(* places, selects or fills a hardware cursor.                             *)
Call(steps, shows) ==
  /\ Idle /\ ~locked
  /\ todo' = steps
  /\ locked' = (Wary /\ (Software \/ shows))
  /\ UNCHANGED <<chipset_cursor, sw, cursor, cursors, told, hw, own, drawn>>

(* A program shows a cursor once it has set its image.                     *)
vga_showcursor(show) ==
  /\ show # 0 => asked.image[asked.sel] # NoImage
  /\ Wary => Software \/ show < 2
  /\ Call(ShowCall(show), TRUE)
  /\ asked' = [asked EXCEPT !.show =
                 IF Software THEN show % 2 ELSE IF show < 2 THEN show ELSE @]

vga_setcursorposition(x) ==
  /\ Wary /\ ~Software => BitsOf(x[2]) \cap Hardware.lost = {}
  /\ Call(PositionCall(x), FALSE)
  /\ asked' = [asked EXCEPT !.x = x]

(* Some drivers read the image they select.                                *)
vga_selectcursor(c) ==
  /\ asked.show = 1 \/ ~Software => asked.image[c] # NoImage
  /\ Call(SelectCall(c), FALSE) /\ asked' = [asked EXCEPT !.sel = c]

(* A card shows another image, or other colors, only once its cursor is    *)
(* selected again; a card with one place shows any image it is given.      *)
vga_setcursorimage(c, image) ==
  /\ Wary /\ ~Software =>
       IF Hardware.images = "at both" THEN c = sp
       ELSE Hardware.colors = "image" \/ c # sp
  /\ Call(ImageCall(c, image), FALSE) /\ asked' = [asked EXCEPT !.image[c] = image]

(* One step of the call in progress.                                       *)
Step ==
  /\ ~Idle
  /\ LET step == Head(todo)
     IN  /\ sw' = IF step.op \in SoftwareOps
                  THEN SoftwareStep(sw, step, cursors[cursor]) ELSE sw
         /\ sx' = IF step.op = "sx" THEN step.arg ELSE sx
         /\ sp' = IF step.op = "sp" THEN step.arg ELSE sp
         /\ status' = IF step.op = "status" THEN step.arg ELSE status
         /\ cursor' = IF step.op = "cursor" THEN step.arg ELSE cursor
         /\ cursors' = IF step.op = "keep"
                       THEN [cursors EXCEPT ![step.arg[1]] = step.arg[2]] ELSE cursors
         /\ own' = IF step.op = "hwimage"
                   THEN [own EXCEPT ![step.arg[1]] = step.arg[2]] ELSE own
         /\ hw' = CASE step.op = "hwshow"  -> Enabled(hw, Hardware, step.arg)
                    [] step.op = "hwplace" -> Placed(hw, Hardware, step.arg)
                    [] step.op = "hwsel"   -> Selected(hw, Hardware, own, step.arg)
                    [] step.op = "hwimage" -> Filled(hw, Hardware, own', step.arg[1])
                    [] OTHER -> hw
  /\ todo' = Tail(todo)
  /\ locked' = (locked /\ Len(todo) > 1)
  /\ UNCHANGED <<chipset_cursor, drawn, asked>>

(* The program draws, not over a software cursor (vga_showcursor(3)); a    *)
(* card's is not in the picture, and drawing then left out.                *)
Draw(x, ink) ==
  /\ Idle
  /\ Software /\ asked.show = 0
  /\ sw' = [sw EXCEPT !.screen[x] = ink]
  /\ drawn' = [drawn EXCEPT ![x] = ink]
  /\ UNCHANGED <<chipset_cursor, cursor, cursors, told, hw, own, todo, locked, asked>>

-----------------------------------------------------------------------------
(* The switch away and back: the picture comes back with the cursor in it, *)
(* the card's cursor is lost; then __svgalib_cursor_restore.               *)

After(s, steps, image) ==
  LET f[k \in 0..Len(steps)] ==
        IF k = 0 THEN s ELSE SoftwareStep(f[k - 1], steps[k], image)
  IN  f[Len(steps)]

(* The software cursor's image is copied from where it was just freed.     *)
Kept(image) == IF image = NoImage THEN {NoImage} ELSE {image, "garbled"}

RestoreSoftware ==
  /\ cursor' = sp
  /\ cursors' \in [Cur -> UNION {Kept(cursors[c]) : c \in Cur}]
  /\ \A c \in Cur : cursors'[c] \in Kept(cursors[c])
  /\ sw' = LET s == After(sw, Position(sw.cur_show, sx), cursors[sp])
           IN  After(s, IF status % 2 = 1 THEN Show(s.cur_show) ELSE Hide(s.cur_show),
                     cursors'[sp])
  /\ UNCHANGED <<hw, own>>

(* What the driver keeps is in the program's memory, and stays.            *)
Refilled(h, kept, c) ==
  IF c \in Cur /\ cursors[c] # NoImage THEN Filled(h, Hardware, kept, c) ELSE h
AllFilled(h, kept) ==
  LET f[k \in 0..16] == IF k = 0 THEN h ELSE Refilled(f[k - 1], kept, k - 1)
  IN  f[16]

RestoreHardware ==
  /\ own' = [c \in Cur |-> IF cursors[c] = NoImage THEN own[c] ELSE cursors[c]]
  /\ \E b \in BOOLEAN :
       LET selected == Selected(Lost(Hardware, Cur, b), Hardware, own, sp)
           filled == AllFilled(Placed(selected, Hardware, sx), own')
       IN  hw' = Enabled(filled, Hardware, status % 2)
  /\ UNCHANGED <<sw, cursor, cursors>>

(* Without an image to show, the restore would read through NULL.          *)
Restorable ==
  Software /\ (status % 2 = 1 \/ sw.cur_show = 1) => cursors[sp] # NoImage

Switch ==
  /\ ~locked
  /\ Restorable
  /\ IF Software THEN RestoreSoftware ELSE RestoreHardware
  /\ status' = status % 2
  /\ UNCHANGED <<chipset_cursor, sx, sp, todo, locked, drawn, asked>>

CursorNext ==
  \/ \E show \in 0..3 : vga_showcursor(show)
  \/ \E x \in IF Software THEN Xs ELSE Spot : vga_setcursorposition(x)
  \/ \E c \in Cur : vga_selectcursor(c)
  \/ \E c \in Cur, image \in Images : vga_setcursorimage(c, image)
  \/ Step
  \/ \E x \in Xs, ink \in Ink : Draw(x, ink)
  \/ Switch

CursorSpec == CursorInit /\ [][CursorNext]_cursorVars

-----------------------------------------------------------------------------
(* Properties.                                                             *)

(* Between calls the picture is the program's, but for the square of a     *)
(* shown software cursor: the cursor leaves nothing behind, over moves, at *)
(* the right border, over drawing while it is hidden, over switches.       *)
PictureKept ==
  Idle => \A x \in Xs : sw.screen[x] = drawn[x]
                        \/ (Software /\ asked.show = 1 /\ x \in Square(asked.x))

(* What a shown software cursor keeps is what the program drew under it,   *)
(* so that hiding it gives the picture back.                               *)
SavedUnder ==
  Idle /\ sw.cur_show = 1 => \A k \in Clip(sw.cur_x) : sw.buf[k] = drawn[sw.cur_x + k]

(* Between calls the cursor is as the program asked, whatever switches     *)
(* came, also in the middle of a call that places, selects or fills a      *)
(* hardware cursor: the library notes what it asks before the card is told *)
(* (__svgalib_cursor_restore: transparent virtual console switching).      *)
AsAsked ==
  Idle =>
    IF Software
    THEN sw.cur_show = asked.show /\ sw.cur_x = asked.x /\ cursor = asked.sel
    ELSE /\ Shows(hw, Hardware) = asked.show
         /\ At(hw, Hardware, asked.x)
         /\ Pictures(hw, Hardware, asked.image[asked.sel])
=============================================================================
