----------------------------- MODULE TimingMC -----------------------------
(* Values for Timing: resolutions, timings and calls that reach the limits *)
(* of the registers and of the cards.                                      *)
EXTENDS Timing

MCModes ==
  {<<400, 300, 8>>, <<640, 400, 32>>, <<1024, 768, 16>>,
   <<1280, 1024, 24>>, <<1920, 1080, 16>>, <<1920, 1200, 8>>,
   <<576, 432, 15>>}

MCModelines ==
  {T(193250, 1920, 2056, 2256, 2592, 1200, 1203, 1209, 1245, {}),
   T(74250, 1920, 2008, 2052, 2200, 1080, 1084, 1094, 1125, Interlaced),
   T(65000, 1024, 1048, 1184, 1344, 768, 768, 768, 806, {}),
   T(65000, 1024, 1032, 1176, 1360, 768, 771, 777, 806, {})}

MCGuesses == {<<576, 432, 257>>, <<640, 400, 258>>}

Delta(hs, he, ht, vs, ve, vt) ==
  [HSyncStart |-> hs, HSyncEnd |-> he, HTotal |-> ht,
   VSyncStart |-> vs, VSyncEnd |-> ve, VTotal |-> vt]

(* The keys of demos/svidtune.c: shift and widen, by a cell or a line.     *)
MCDeltas == {Delta(4, 4, 8, 0, 0, 0), Delta(0, 0, 0, 1, 1, 2)}
===========================================================================
