------------------------------- MODULE Lines -------------------------------
(***************************************************************************)
(* gl_line (src/gl/line.c): the clipping of Cohen and Sutherland, then     *)
(* Bresenham's walk from one end to the other.  A point is a pair.         *)
(***************************************************************************)
EXTENDS Integers

Magnitude(n) == IF n < 0 THEN -n ELSE n

(* muldiv64: a float, which the conversion truncates toward zero.          *)
muldiv64(m1, m2, d) ==
  LET n == m1 * m2
      quotient == Magnitude(n) \div Magnitude(d)
  IN  IF (n < 0) = (d < 0) THEN quotient ELSE -quotient

(* The sides of the window c beyond which a point lies.                    *)
gl_regioncode(c, p) ==
  {s \in {"left", "right", "top", "bottom"} :
     \/ s = "left" /\ p[1] < c.x1
     \/ s = "right" /\ p[1] > c.x2
     \/ s = "top" /\ p[2] < c.y1
     \/ s = "bottom" /\ p[2] > c.y2}

(* An end outside moves along the line to one of the sides it is beyond.   *)
Moved(c, p, q) ==
  LET r == gl_regioncode(c, p)
      AtX(x) == <<x, p[2] + muldiv64(x - p[1], q[2] - p[2], q[1] - p[1])>>
      AtY(y) == <<p[1] + muldiv64(y - p[2], q[1] - p[1], q[2] - p[2]), y>>
  IN  IF "left" \in r THEN AtX(c.x1)
      ELSE IF "right" \in r THEN AtX(c.x2)
      ELSE IF "top" \in r THEN AtY(c.y1) ELSE AtY(c.y2)

(* A turn of the loop: found says how it ended, if it did.                 *)
Turned(c, t) ==
  LET r1 == gl_regioncode(c, t.p)
      r2 == gl_regioncode(c, t.q)
  IN  IF t.found # "nothing" THEN t
      ELSE IF r1 = {} /\ r2 = {} THEN [t EXCEPT !.found = "inside"]
      ELSE IF r1 \cap r2 # {} THEN [t EXCEPT !.found = "outside"]
      ELSE IF r1 = {} THEN [t EXCEPT !.p = Moved(c, t.q, t.p), !.q = t.p]
      ELSE [t EXCEPT !.p = Moved(c, t.p, t.q)]

(* The loop, in as many turns as it may need: one for each side of each    *)
(* end, and the last, which finds them inside.                             *)
Turns == 9
Clipped(c, p1, p2) ==
  LET Turn[i \in 0..Turns] ==
        IF i = 0 THEN [p |-> p1, q |-> p2, found |-> "nothing"]
        ELSE Turned(c, Turn[i - 1])
  IN  Turn[Turns]

(* The walk: steps along the longer axis, and along the other whenever d   *)
(* says so.  Halfway, it depends on the direction, so that a line and the  *)
(* same line backwards have the same pixels.                               *)
FaultySteps(along, d) == d >= 0
Steps(along, d) == IF along > 0 THEN d >= 0 ELSE d > 0

Slope(p1, p2) ==
  LET dx == p2[1] - p1[1]
      dy == p2[2] - p1[2]
      ax == 2 * Magnitude(dx)
      ay == 2 * Magnitude(dy)
  IN  [ax |-> ax, ay |-> ay, flat |-> ax > ay,
       sx |-> IF dx >= 0 THEN 1 ELSE -1, sy |-> IF dy >= 0 THEN 1 ELSE -1]

Onward(w, a) ==
  LET aside == Steps(IF w.flat THEN w.sx ELSE w.sy, a.d)
  IN  IF w.flat
      THEN [x |-> a.x + w.sx, y |-> IF aside THEN a.y + w.sy ELSE a.y,
            d |-> (IF aside THEN a.d - w.ax ELSE a.d) + w.ay]
      ELSE [x |-> IF aside THEN a.x + w.sx ELSE a.x, y |-> a.y + w.sy,
            d |-> (IF aside THEN a.d - w.ay ELSE a.d) + w.ax]

Outset(w, p) ==
  [x |-> p[1], y |-> p[2],
   d |-> IF w.flat THEN w.ay - (w.ax \div 2) ELSE w.ax - (w.ay \div 2)]

Walk(p1, p2) ==
  LET w == Slope(p1, p2)
      At[i \in 0..((IF w.flat THEN w.ax ELSE w.ay) \div 2)] ==
        IF i = 0 THEN Outset(w, p1) ELSE Onward(w, At[i - 1])
  IN  At

PixelsOf(walk) == {<<walk[i].x, walk[i].y>> : i \in DOMAIN walk}

=============================================================================
