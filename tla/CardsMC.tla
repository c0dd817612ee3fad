------------------------------ MODULE CardsMC ------------------------------
(***************************************************************************)
(* The drivers as a model of Card, with two modes of theirs.               *)
(***************************************************************************)
EXTENDS CardInvariant, TableCards, TimedCards, PciCards, MappedCards, ChipsCards

MCDrivers ==
  [ali |-> ali, et3000 |-> et3000, et4000 |-> et4000, gvga6400 |-> gvga6400,
   oak |-> oak, paradise |-> paradise, tvga8900 |-> tvga8900,
   apm |-> apm, ark |-> ark, banshee |-> banshee, mx |-> mx,
   chips |-> chips, cirrus |-> cirrus, et6000 |-> et6000, g400 |-> g400,
   hiqv |-> hiqv, i740 |-> i740, i810 |-> i810,
   laguna |-> laguna, millennium |-> millennium, neo |-> neo,
   nv3 |-> nv3, pm2 |-> pm2, r128 |-> r128, rage |-> rage, s3 |-> s3,
   savage |-> savage, sis |-> sis, trident |-> trident, unichrome |-> unichrome]

MCModes == {"m1", "m2"}
MCFast == {"m2"}
MCLineWidth == [m \in MCModes |-> IF m = "m1" THEN {7, 9} ELSE {10, 11}]
Evens == {2 * i : i \in 0..15}
Odds == {2 * i + 1 : i \in 0..15}
MCPatterns == {{}, Evens, Odds}
=============================================================================
