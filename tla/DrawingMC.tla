----------------------------- MODULE DrawingMC -----------------------------
(* Modes for vgagl: lines that end in the middle of a page, pixels of two  *)
(* and four bytes, pixels of three bytes across two pages, lines with      *)
(* padding, and memory for one, two and three pages.                       *)
(* For the accelerator, 3 pixels by 2: a box, and copies onto the pixels   *)
(* next to them and on the line above.                                     *)
EXTENDS Drawing

Setup(type, bytes, vbytes, width, height, bytewidth, memory, flags, kind) ==
  [type |-> type, bytes |-> bytes, vbytes |-> vbytes, width |-> width,
   height |-> height, bytewidth |-> bytewidth, memory |-> memory,
   flags |-> flags, calls |-> kind]

MCSetups ==
  {Setup("paged", 1, 1, 5, 3, 6, 32, {}, "all"),
   Setup("paged", 2, 2, 4, 3, 10, 32, {}, "all"),
   Setup("paged", 3, 3, 4, 3, 12, 48, {}, "all"),
   Setup("paged", 4, 4, 3, 3, 12, 48, {}, "all"),
   Setup("linear", 1, 1, 7, 6, 7, 48, {}, "lines"),
   Setup("paged", 2, 2, 3, 3, 10, 32, {}, "copies"),
   Setup("paged", 3, 4, 3, 3, 12, 48, {}, "copies"),
   Setup("linear", 3, 4, 3, 3, 12, 48, {}, "copies"),
   Setup("linear", 3, 4, 2, 2, 6, 48, {}, "frames"),
   Setup("paged", 1, 1, 6, 2, 6, 32, {}, "frames"),
   Setup("paged", 3, 4, 4, 2, 12, 48, {}, "frames"),
   Setup("paged", 3, 4, 3, 2, 12, 48, {}, "frames"),
   Setup("paged", 4, 4, 2, 2, 8, 48, {"shift8"}, "frames"),
   Setup("paged", 1, 1, 6, 2, 6, 48, {"aligned"}, "frames")}

MCShapes == {<<1, 2, 2>>}
MCMoves == {<<0, 1, 2, 1>>, <<3, 1, 2, 1>>}
=============================================================================
