----------------------------- MODULE HwCursors -----------------------------
(***************************************************************************)
(* The cursors of the cards (src/src/drivers): where a driver puts a       *)
(* cursor's image, and in which registers the card finds its place, its    *)
(* image and its colors.                                                   *)
(*                                                                         *)
(* memory is in kB, a slot the byte in it where the image of a cursor      *)
(* begins, and base what selecting it writes to the registers of address,  *)
(* which the card reads as that slot, with the bits of fixed set. images   *)
(* says when an image reaches the card: at once, when its cursor is        *)
(* selected, or at both, with the cursor selected by it. The colors go to  *)
(* registers of their own when the cursor is selected, unless they are a   *)
(* part of the image. offset is added to a position, which loses the bits  *)
(* of lost. The image's format and the hot spot, always 0, are left out.   *)
(***************************************************************************)
EXTENDS Registers

Numbers == 0..15   \* of the cursors
Coordinates == 0..2047   \* of a cursor, in the largest mode
BitsOf(n) == {k \in 0..27 : (n \div 2 ^ k) % 2 = 1}

(* The places of an image: from the memory's end down, or in the last 16   *)
(* places up.                                                              *)
Descending(memory, size) == [c \in Numbers |-> memory * 1024 - (c + 1) * size]
Ascending(memory) == [c \in Numbers |-> (memory - (16 - c)) * 1024]

CardCursor(slot, enable, x, y, address) ==
  [slot |-> slot, base |-> slot, enable |-> enable, x |-> x, y |-> y,
   address |-> address, fixed |-> {}, images |-> "at once",
   colors |-> "registers", offset |-> 0, lost |-> {}]

Word(kind, n, b, count) == Place(kind, n, b, 0, count)
LowHigh(kind, low, high, count) ==
  Place(kind, low, 0, 0, 8) \cup Place(kind, high, 0, 8, count - 8)

banshee_cursor ==
  [CardCursor(Descending(16384, 4096), Bits("IO", \h5C, {27}), Word("IO", \h64, 0, 16),
          Word("IO", \h64, 16, 16), Word("IO", \h60, 0, 28))
     EXCEPT !.offset = 64]

unichrome_cursor ==
  [CardCursor(Descending(16384, 4096), Bits("IO", \h5C, {27}), Word("IO", \h64, 0, 16),
          Word("IO", \h64, 16, 16), Word("IO", \h60, 0, 28))
     EXCEPT !.offset = 64]

(* Above 16 MB, in steps of 8 MB, below it.                                *)
g400_slot == [c \in Numbers |->
                LET i == Descending(32768, 4096)[c]
                    below(n) == i - n * 8192 * 1024
                IN  below(CHOOSE n \in 0..4 : /\ below(n) <= 16384 * 1024
                                              /\ n = 0 \/ below(n - 1) > 16384 * 1024)]
g400_cursor ==
  [CardCursor(g400_slot, Bits("DAC", 6, {0, 1}), LowHigh("MM", \h3C0C, \h3C0D, 12),
          LowHigh("MM", \h3C0E, \h3C0F, 12),
          Place("DAC", 4, 0, 10, 8) \cup Place("DAC", 5, 0, 18, 6))
     EXCEPT !.offset = 64]

i740_slot ==
  [c \in Numbers |->
     LET i == Descending(8192, 4096)[c] IN IF i > 4096 * 1024 THEN i - 4096 * 1024 ELSE i]
i740_cursor ==
  CardCursor(i740_slot, Bits("XR", \h80, {4}), LowHigh("XR", \hA4, \hA5, 11),
         LowHigh("XR", \hA6, \hA7, 11), Place("XR", \hA2, 0, 8, 8) \cup Place("XR", \hA3, 0, 16, 8))

(* The address is of the last page, wherever the aperture maps it.         *)
i810_cursor ==
  [CardCursor(Descending(4096, 256), Bits("XR", \h80, {4}), LowHigh("XR", \hA4, \hA5, 11),
          LowHigh("XR", \hA6, \hA7, 11), Word("XR", \hA0, 0, 28))
     EXCEPT !.base = [c \in Numbers |-> 4096 * 1023 + (15 - c) * 256]]

laguna_cursor ==
  CardCursor(Ascending(4096), Bits("MM", \hE6, {0}), Word("MM", \hE0, 0, 16),
         Word("MM", \hE2, 0, 16), Place("MM", \hE8, 0, 8, 16))

(* One place for all.                                                      *)
mx_cursor ==
  [CardCursor([c \in Numbers |-> 4096 * 1024 - 256], Bits("CR", \h66, {0}),
          LowHigh("CR", \h60, \h61, 16), LowHigh("CR", \h63, \h64, 16), {})
     EXCEPT !.images = "at both"]

(* Riva 128: addresses count from the memory's end down, in 2 kB.          *)
nv3_cursor ==
  [CardCursor([c \in Numbers |-> 2047 - (4096 \div 2 - (c + 1))], Bits("CR", \h31, {0}),
          Word("MM", \h300, 0, 16), Word("MM", \h300, 16, 16),
          Place("CR", \h31, 3, 0, 5) \cup Clear(Bytes("CR", {\h30})))
     EXCEPT !.base = [c \in Numbers |-> (-(4096 \div 2 - (c + 1)) - 1) % 32],
            !.colors = "image"]

(* The image is in the DAC, which keeps one.                               *)
pm2v_cursor ==
  [CardCursor([c \in Numbers |-> 0], Bits("IND", 5, {0}), LowHigh("IND", 7, 8, 16),
          LowHigh("IND", 9, 10, 16), {})
     EXCEPT !.images = "selected", !.offset = 64]

r128_cursor ==
  CardCursor(Descending(16384, 4096), Bits("MM", \h50, {16}), Word("MM", \h264, 16, 16),
         Word("MM", \h264, 0, 16), Word("MM", \h260, 0, 28))

rage_cursor ==
  CardCursor(Descending(4096, 4096), Bits("IO", \hD0, {7}), Word("IO", \h6C, 0, 16),
         Word("IO", \h6C, 16, 16), Place("IO", \h68, 0, 3, 28))

savage_cursor ==
  CardCursor(Ascending(8192), Bits("CR", \h45, {0}), LowHigh("CR", \h47, \h46, 16),
         LowHigh("CR", \h49, \h48, 16),
         Place("CR", \h4D, 0, 10, 8) \cup Place("CR", \h4C, 0, 18, 8))

(* Lines count in twos; the number of a cursor is a part of its address.   *)
sis_cursor ==
  [CardCursor(Ascending(8192), Bits("XR", 6, {6}), LowHigh("XR", \h1A, \h1B, 16),
          Place("XR", \h1D, 0, 1, 8) \cup Place("XR", \h1E, 0, 9, 3),
          Place("XR", \h1E, 4, 10, 4) \cup Place("XR", \h38, 4, 18, 4)
            \cup Place("XR", \h3E, 2, 22, 1))
     EXCEPT !.fixed = 14..17, !.lost = {0}]

sis_300_cursor ==
  CardCursor(Ascending(32768), Bits("MM", \h8500, {30}), Word("MM", \h850C, 0, 28),
         Word("MM", \h8510, 0, 28), Place("MM", \h8500, 0, 10, 17))

trident_cursor ==
  CardCursor(Descending(4096, 1024), Bits("CR", \h50, {7}), LowHigh("CR", \h40, \h41, 16),
         LowHigh("CR", \h42, \h43, 16),
         Place("CR", \h44, 0, 10, 8) \cup Place("CR", \h45, 0, 18, 8))

Cursors ==
  [banshee |-> banshee_cursor, g400 |-> g400_cursor, i740 |-> i740_cursor,
   i810 |-> i810_cursor, laguna |-> laguna_cursor, mx |-> mx_cursor,
   nv3 |-> nv3_cursor, pm2v |-> pm2v_cursor, r128 |-> r128_cursor,
   rage |-> rage_cursor, savage |-> savage_cursor, sis |-> sis_cursor,
   sis_300 |-> sis_300_cursor, trident |-> trident_cursor,
   unichrome |-> unichrome_cursor]

-----------------------------------------------------------------------------
(* A card's cursor: its registers, the images in its places, the colors it *)
(* shows, and what the driver itself keeps of the images. An image stands  *)
(* for its colors too.                                                     *)

NoImage == "none"
Units(d) ==
  d.enable \cup Targets(d.x) \cup Targets(d.y) \cup Targets(d.address)
Slots(d, C) == {d.slot[c] : c \in C}
Lost(d, C, b) ==   \* on another console: anything
  [regs |-> [u \in Units(d) |-> b], mem |-> [s \in Slots(d, C) |-> NoImage],
   colors |-> NoImage]

Written(h, placement, n) ==
  LET targets == Targets(placement)
      ones == Ones(placement, BitsOf(n))
  IN  [h EXCEPT !.regs = [u \in DOMAIN @ |-> IF u \in targets THEN u \in ones ELSE @[u]]]
Enabled(h, d, show) ==
  [h EXCEPT !.regs = [u \in DOMAIN @ |-> IF u \in d.enable THEN show = 1 ELSE @[u]]]
Placed(h, d, p) ==
  Written(Written(h, d.x, p[1] + d.offset), d.y, p[2] + d.offset)
Selected(h, d, own, c) ==
  LET s == Written(h, d.address, d.base[c]) IN
  [s EXCEPT !.colors = own[c],
            !.mem[d.slot[c]] = IF d.images = "at once" THEN @ ELSE own[c]]

(* An image, of which the driver has kept what it needs.                   *)
Filled(h, d, own, c) ==
  CASE d.images = "at once" -> [h EXCEPT !.mem[d.slot[c]] = own[c]]
    [] d.images = "selected" -> h
    [] d.images = "at both" -> Selected(h, d, own, c)

(* What the card shows.                                                    *)
Number(h, placement) ==
  {p[1] : p \in {q \in placement : q[1] >= 0 /\ h.regs[q[2]]}}
Shows(h, d) == IF \A u \in d.enable : h.regs[u] THEN 1 ELSE 0
At(h, d, p) ==
  /\ Number(h, d.x) = BitsOf(p[1] + d.offset)
  /\ Number(h, d.y) = BitsOf(p[2] + d.offset)
Pictures(h, d, image) ==
  /\ \E s \in DOMAIN h.mem :
       /\ d.address = {} \/ BitsOf(s) = Number(h, d.address) \cup d.fixed
       /\ h.mem[s] = image
  /\ d.colors = "image" \/ h.colors = image

(* What a driver gets right, or no cursor is where and what was asked for: *)
(* no bit of a register has two uses, what it writes for a cursor's image  *)
(* is what the card reads as the place of that image, images that reach    *)
(* the card at once have places of their own; and the coordinates of S     *)
(* fit into the registers.                                                 *)
Carries(placement) == {p[1] : p \in placement}
Unmixed(placement) ==
  \A p, q \in placement : p[2] = q[2] => p[1] = q[1]
Apart(A, B) == A \cap B = {}

Apt(d, C, S) ==
  /\ d.images \in {"at once", "selected", "at both"}
  /\ d.images = "selected" => d.colors # "image"
  /\ d.enable # {}
  /\ Apart(d.enable, Targets(d.x) \cup Targets(d.y) \cup Targets(d.address))
  /\ Apart(Targets(d.x), Targets(d.y)) /\ Apart(Targets(d.x), Targets(d.address))
  /\ Apart(Targets(d.y), Targets(d.address))
  /\ Unmixed(d.x) /\ Unmixed(d.y) /\ Unmixed(d.address)
  /\ d.address = {} \/
       \A c \in C : BitsOf(d.slot[c]) = (BitsOf(d.base[c]) \cap Carries(d.address)) \cup d.fixed
  /\ d.images = "at once" => \A c, e \in C : d.slot[c] = d.slot[e] => c = e
  /\ \A s \in S : BitsOf(s + d.offset) \subseteq Carries(d.x)
  /\ \A s \in S : Apart(BitsOf(s), d.lost) => BitsOf(s + d.offset) \subseteq Carries(d.y)
  /\ Apart(BitsOf(0), d.lost)
=============================================================================
