------------------------------- MODULE Synth -------------------------------
(***************************************************************************)
(* The dividers the chipset drivers (src/src/drivers) give their clock     *)
(* synthesizers for a pixel clock, and the clock that comes of them. All   *)
(* frequencies are in kHz, cut to a whole one; the drivers that calculate  *)
(* in floating point agree to that. 0 stands for no dividers at all.       *)
(***************************************************************************)
EXTENDS Integers, Sequences

Ref == 14318

(* The element a search in that order comes to first.                      *)
FirstBy(S, order(_)) ==
  LET orders == {order(c) : c \in S}
      least == CHOOSE k \in orders : \A l \in orders : k <= l
  IN  CHOOSE c \in S : order(c) = least
Diff(a, b) == IF a < b THEN b - a ELSE a - b

(* A synthesizer's own clock, half a percent around the wanted one.        *)
Near(vco, wanted) ==
  200 * vco >= 199 * wanted /\ 200 * vco <= 201 * wanted

(* apm.c: (n+1)/(m+1) divided by 2^l; the first that fits is taken. When   *)
(* none does, twice the clock is tried and the sequencer halves it.        *)
apm_fout(clock) ==
  LET vco(c) == ((c[3] + 1) * Ref) \div (c[1] + 1)
      fits == {c \in (1..5) \X (0..3) \X (8..127) :
                 vco(c) \in 125000..265000 /\ Near(vco(c), clock * 2 ^ c[2])}
      first == FirstBy(fits, LAMBDA c : (c[1] * 4 + 3 - c[2]) * 128 + c[3])
  IN  IF fits = {} THEN 0 ELSE vco(first) \div 2 ^ first[2]

apm_clock(clock) ==
  IF apm_fout(clock) # 0 THEN apm_fout(clock) ELSE apm_fout(2 * clock) \div 2

(* et6000.c: m/n1 divided by 2^n2.                                         *)
et6000_clock(clock) ==
  LET vco(c) == (c[3] * Ref) \div c[1]
      fits == {c \in (4..33) \X (0..3) \X (42..115) :
                 vco(c) \in 48000..230000 /\ Near(vco(c), clock * 2 ^ c[2])}
      first == FirstBy(fits, LAMBDA c : (c[1] * 4 + c[2]) * 128 + c[3])
  IN  IF fits = {} THEN 0 ELSE vco(first) \div 2 ^ first[2]

(* mx.c: the same as apm.c from twice the reference.                       *)
mx_clock(clock) ==
  LET vco(c) == ((c[3] + 1) * 57273) \div (2 * (c[1] + 1))
      fits == {c \in (1..30) \X (0..2) \X (6..127) :
                 vco(c) \in 32000..162000 /\ Near(vco(c), clock * 2 ^ c[2])}
      first == FirstBy(fits, LAMBDA c : (c[1] * 4 + 2 - c[2]) * 128 + c[3])
  IN  IF fits = {} THEN 0 ELSE vco(first) \div 2 ^ first[2]

(* laguna.c: n/m with n cut down, best of the m; doubled below 40 MHz.     *)
laguna_clock(clock) ==
  LET p == IF clock < 40000 THEN 2 ELSE 1
      n(m) == (clock * p * m) \div Ref
      off(m) == Diff(clock * p, (n(m) * Ref) \div m)
      fits == {m \in 6..29 : n(m) \in 32..127}
      best == FirstBy(fits, LAMBDA m : off(m) * 32 + m)
  IN  IF fits = {} THEN 0
      ELSE IF off(best) = 0 \/ (clock * p) \div off(best) > 100
           THEN (n(best) * Ref) \div (best * p) ELSE 0

(* savage.c, with the limits of a Savage 4: m/n1 divided by 2^n2.          *)
savage_clock(clock) ==
  LET m(c) == (2 * clock * c[2] * 2 ^ c[1] + Ref) \div (2 * Ref)
      vco(c) == (m(c) * Ref) \div c[2]
      fits == {c \in (0..4) \X (3..129) :
                 m(c) \in 3..129 /\ vco(c) \in 180000..360000}
      off(c) == Diff(clock, vco(c) \div 2 ^ c[1])
      best == FirstBy(fits, LAMBDA c : (off(c) * 8 + c[1]) * 256 + c[2])
  IN  vco(best) \div 2 ^ best[1]

(* trident.c, TGUISetClock of the newer chips: the best within 750 kHz.    *)
trident_clock(clock) ==
  LET k == IF clock < 50000 THEN {2} ELSE IF clock < 100000 THEN 1..2 ELSE 0..2
      fout(c) == ((c[2] + 8) * Ref) \div ((c[3] + 2) * 2 ^ c[1])
      fits == {c \in k \X (64..255) \X (1..63) : Diff(fout(c), clock) < 750}
      best == FirstBy(fits, LAMBDA c : ((Diff(fout(c), clock) * 4 + c[1]) * 256
                                        + c[2]) * 64 + c[3])
  IN  IF fits = {} THEN 0 ELSE fout(best)

(* sis.c, sisCalcClock of the 6202 to 6225: M/N times vld, divided by P,   *)
(* M one of the three around the exact one. 715909 is 50 times the         *)
(* reference in kHz.                                                       *)
sis_clock(clock) ==
  LET m(c) == (clock * c[3] * c[2] * 50) \div (715909 * c[1])
      fout50(c) == (715909 * c[1] * c[4]) \div (c[2] * c[3])
      fits == {c \in (1..2) \X (2..32) \X (1..4) \X (2..128) :
                 /\ c[4] \in m(c) - 1 .. m(c) + 1
                 /\ fout50(c) * c[3] > 715909 /\ fout50(c) * c[3] <= 6750000}
      off(c) == Diff(fout50(c), clock * 50)
      best == FirstBy(fits, LAMBDA c : off(c))
  IN  IF fits = {} THEN 0 ELSE fout50(best) \div 50

(* sis.c, compute_vclk of the 300: n/dn, then y quarters. Below 18.75 MHz  *)
(* it returns without any dividers, and the caller does not look.          *)
sis_300_clock(clock) ==
  LET k == CHOOSE i \in 0..3 : clock <= 31250 * 2 ^ i
                               /\ \A j \in 0..i - 1 : clock > 31250 * 2 ^ j
      y == IF clock >= 18250 * 2 ^ k THEN 8 ELSE 12
      vco == (clock * y) \div 2 ^ k
      f(c) == (Ref * c[2]) \div c[1]
      fits == {c \in (2..32) \X (1..128) : Diff(vco, f(c)) < 2500}
      best == FirstBy(fits,
                LAMBDA c : (Diff(vco, f(c)) * 64 + c[1]) * 128 + c[2])
  IN  IF clock < 18750 \/ clock > 250000 THEN 0
      ELSE (f(best) * 2 ^ k) \div y

(* i810.c, I810CalcVCLK: n goes up until the clock is less than 100 kHz    *)
(* short, or has passed 30.                                                *)
i810_clock(clock) ==
  LET p == IF clock * 4 >= 600000 THEN 1
           ELSE CHOOSE i \in 2..5 : /\ i = 5 \/ 2 ^ i * clock * 2 >= 600000
                                    /\ 2 ^ (i - 1) * clock * 2 < 600000
      m(n) == LET x == (clock * 2 ^ p * n) \div 96000 IN IF x < 3 THEN 3 ELSE x
      fout(n) == ((m(n) * 96000) \div n) \div 2 ^ p
      close == {n \in 3..31 : clock - fout(n) < 100}
  IN  IF close # {} THEN fout(FirstBy(close, LAMBDA n : n)) ELSE fout(31)

(* cirrus.c: numerator and denominator from a table, the number of the     *)
(* fixed clock its index.                                                  *)
cirrus_fixed_clocks ==
  <<12599, 18000, 19600, 25227, 28325, 31500, 36025, 37747, 39992, 41164, 45076,
    49867, 64983, 72163, 75000, 80013, 85226, 89998, 95019, 100226, 108035>>
fixed_clock_numerator ==
  <<44, 39, 40, 74, 91, 66, 78, 58, 81, 69, 85, 101, 118, 126, 110, 95, 125, 88,
    73, 70, 83>>
fixed_clock_denominator ==
  <<51, 62, 58, 43, 47, 31, 62, 23, 58, 48, 54, 58, 52, 50, 42, 34, 42, 28, 22,
    20, 22>>

cirrus_clock(fixed) ==
  LET i == CHOOSE j \in DOMAIN cirrus_fixed_clocks : cirrus_fixed_clocks[j] = fixed
      d == fixed_clock_denominator[i]
  IN  (Ref * fixed_clock_numerator[i]) \div ((d \div 2) * (1 + (d % 2)))
=============================================================================
