------------------------------- MODULE Synths -------------------------------
(***************************************************************************)
(* More of the clock synthesizers (see Synth): those whose search goes     *)
(* over every divider and takes the nearest clock. Where the code tries    *)
(* every feedback divider, only the ones next to the exact quotient can be *)
(* the nearest, and only those are compared here.                          *)
(***************************************************************************)
EXTENDS Synth

(* nv3.c, CalcVClock with the reference and limits of a TNT: n/m divided   *)
(* by 2^p.                                                                 *)
nv3_clock(clock) ==
  LET n(c) == (clock * 2 ^ c[1] * c[2] + Ref \div 2) \div Ref
      out(c) == ((Ref * n(c)) \div c[2]) \div 2 ^ c[1]
      fits == {c \in (0..4) \X (8..14) :
                 /\ clock * 2 ^ c[1] >= 128000 \/ c[1] = 4
                 /\ clock * 2 ^ c[1] <= 350000 /\ n(c) < 256}
      best == FirstBy(fits, LAMBDA c : (Diff(out(c), clock) * 8 + c[1]) * 16 + c[2])
  IN  IF fits = {} THEN 0 ELSE out(best)

(* nv3.c, CalcVClock2Stage: a first stage that multiplies by four.         *)
nv3_two_stage_clock(clock) ==
  LET n(c) == (clock * 2 ^ c[1] * c[2]) \div (4 * Ref)
      out(c) == ((4 * Ref * n(c)) \div c[2]) \div 2 ^ c[1]
      fits == {c \in (0..6) \X (1..13) :
                 clock * 2 ^ c[1] \in 400000..1000000 /\ n(c) \in 5..255}
      best == FirstBy(fits, LAMBDA c : (Diff(out(c), clock) * 8 + c[1]) * 16 + c[2])
  IN  IF fits = {} THEN 0 ELSE out(best)

(* g400.c, MGACalcClock of a G400: the voltage controlled oscillator is    *)
(* doubled up to at least 50 MHz. The error is cut to a whole kHz.         *)
MGACalcClock(clock) ==
  LET p == CHOOSE i \in {1, 2, 4, 8} : /\ clock * i >= 50000 \/ i = 8
                                       /\ i > 1 => clock * (i \div 2) < 50000
      err(c) == Diff(54101 * (c[2] + 1), 2 * (c[1] + 1) * clock * p)
                  \div (2 * (c[1] + 1))
      near == {c \in (1..31) \X (7..127) : err(c) < 4000}
      best == FirstBy(near, LAMBDA c : (err(c) * 32 + c[1]) * 128 + c[2])
  IN  (54101 * (best[2] + 1)) \div (2 * (best[1] + 1) * p)

(* mga_g450pll.c: every feedback divider for the five post dividers and    *)
(* ten input dividers, in thousandths away from the clock; within five of  *)
(* them the smaller input divider is better. The first of the list whose   *)
(* neighbours lock is taken: here, the first with a feedback divider the   *)
(* code tries at all.                                                      *)
G450ApplyPFactor(f, p) == IF p = 64 THEN f ELSE f \div 2 ^ (p + 1)
G450RemovePFactor(f, p) == IF p = 64 THEN f ELSE f * 2 ^ (p + 1)

G450FindPLLParams(clock) ==
  LET vco(p) == G450RemovePFactor(clock, p)
      first == IF clock > 650000 THEN 64
               ELSE IF \E p \in 0..3 : vco(p) <= 1300000
               THEN CHOOSE p \in 0..3 : /\ vco(p) <= 1300000
                                        /\ p = 3 \/ vco(p + 1) > 1300000
               ELSE 0
      n(c) == (vco(c[1]) * (c[2] + 1) + 27000) \div 54000 - 2
  IN  {<<c[1], c[2], n(c)>> : c \in {d \in ((0..first) \cup {64}) \X (0..9) :
                                       vco(d[1]) >= 256000}}

G450_clock(clock) ==
  LET out(c) == G450ApplyPFactor(
                  (54000 * (c[3] + 2) + (c[2] + 1) \div 2) \div (c[2] + 1), c[1])
      delta(c) == (Diff(out(c), clock) * 1000) \div clock
      locks == {c \in G450FindPLLParams(clock) : c[3] \in 3..122}
      tried(c) == IF c[1] = 64 THEN 4 ELSE 3 - c[1]
      best == FirstBy(locks,
                LAMBDA c : (IF delta(c) <= 5 THEN c[2] ELSE delta(c) * 16) * 8
                             + tried(c))
  IN  IF locks = {} THEN 0 ELSE out(best)

(* millennium.c, MGATi3026CalcClock: the least fraction of a feedback      *)
(* divider that is cut down. Frequencies in 10 Hz.                         *)
MGATi3026CalcClock(clock) ==
  LET p == CHOOSE i \in 0..3 : /\ clock * 2 ^ i >= 110000 \/ i = 3
                               /\ i > 0 => clock * 2 ^ (i - 1) < 110000
      vco == clock * 2 ^ p
      ref8 == 11454544
      m(n) == (n * vco * 100) \div ref8
      fits == {n \in 3..25 : n * vco * 100 >= 3 * ref8 /\ n * vco * 100 <= 64 * ref8}
      best == FirstBy(fits,
                LAMBDA n : ((((n * vco * 100) % ref8) \div 10) * 32) + n)
  IN  IF fits = {} THEN 0 ELSE ((ref8 * m(best)) \div best) \div (100 * 2 ^ p)

(* banshee.c, CalcPLL: (n+2)/(m+2) divided by 2^k.                        *)
banshee_clock(clock) ==
  LET out(c) == (1431818 * (c[1] + 2)) \div (100 * (c[2] + 2) * 2 ^ c[3])
      tried == {<<(clock * (c[2] + 2) * 2 ^ c[3]) \div Ref - 2 + c[1], c[2], c[3]>> :
                  c \in (-1..1) \X (1..56) \X (0..3)}
      near == {c \in tried : c[1] \in 1..255 /\ Diff(out(c), clock) < 500}
      best == FirstBy(near,
                LAMBDA c : ((Diff(out(c), clock) * 256 + c[1]) * 64 + c[2]) * 4 + c[3])
  IN  IF near = {} THEN 0 ELSE out(best)

Least(S) == CHOOSE x \in S : \A y \in S : x <= y

(* unichrome.c, CalcPLL: n goes up, m is the one that fits, cut to four    *)
(* bits, and leaves what it can of its factors of two to the post divider. *)
unichrome_clock(clock) ==
  LET whole(n) == (Ref * n + clock \div 2) \div clock
      cut(n) == Least({k \in 0..8 : whole(n) \div 2 ^ k <= 16})
      rest(n) == whole(n) \div 2 ^ cut(n)
      more(n) == Least({j \in 0..4 :
                   ~ /\ cut(n) + j < 4 /\ rest(n) >= 2 ^ j
                     /\ (rest(n) \div 2 ^ j) % 2 = 0
                     /\ (Ref * n) \div (rest(n) \div 2 ^ j) < 160000})
      m(n) == rest(n) \div 2 ^ more(n)
      k(n) == cut(n) + more(n)
      out(n) == ((Ref * n) \div m(n)) \div 2 ^ k(n)
      fits == {n \in 19..120 : k(n) <= 3 /\ m(n) \in 3..16}
      best == FirstBy(fits, LAMBDA n : Diff(out(n), clock) * 128 + n)
  IN  IF fits = {} THEN 0 ELSE out(best)

(* i740.c, I740CalcVCLK, from a clock cut to a whole MHz: n goes up until  *)
(* it is within a thousandth, or has passed 30 with one within five.       *)
i740_clock(clock) ==
  LET f == clock \div 1000
      p == CHOOSE i \in 0..5 : f * 2 ^ i <= 450 /\ f * 2 ^ (i + 1) > 450
      vco == f * 2 ^ p
      m(n) == LET x == (6 * vco * n + 800) \div 1600 IN IF x < 3 THEN 3 ELSE x
      within(n, err) == Diff(800 * m(n), 3 * vco * n) * 1000 < err * 800 * m(n)
      last == Least({n \in 3..250 : \/ within(n, 1)
                                    \/ n > 30 /\ \E i \in 3..n : within(i, 5)})
      best == CHOOSE n \in 3..last : /\ within(n, 5)
                                     /\ \A i \in n + 1..last : ~within(i, 5)
  IN  (m(best) * 800000) \div (3 * best * 2 ^ p)

(* pm2.c, PM2DAC_CalculateMNPCForClock: the best with an oscillator within *)
(* 110 and 250 MHz, n before m before p.                                   *)
pm2_clock(clock) ==
  LET vco(c) == (Ref * c[2]) \div c[1]
      out(c) == vco(c) \div 2 ^ c[3]
      tried == {<<c[1], (clock * c[1] * 2 ^ c[3]) \div Ref + c[2], c[3]>> :
                  c \in (2..14) \X (-1..1) \X (0..4)}
      fits == {c \in tried : /\ c[2] \in 2..255 /\ vco(c) \in 110000..250000
                             /\ Diff(out(c), clock) < 2000}
      best == FirstBy(fits,
                LAMBDA c : ((Diff(out(c), clock) * 16 + c[1]) * 256 + c[2]) * 8 + c[3])
  IN  IF fits = {} THEN 0 ELSE out(best)

(* pm2.c, PM2VDAC_CalculateClock: without a post divider, from twice the   *)
(* clock below 28636 kHz, which another register then halves.              *)
pm2v_clock(clock) ==
  LET p == IF clock > 28635 THEN 1 ELSE 2
      out(c) == (Ref * c[1]) \div c[2]
      tried == {<<(clock * p * c[2]) \div Ref + c[1], c[2]>> :
                  c \in (-1..1) \X (1..255)}
      fits == {c \in tried : c[1] \in 1..255 /\ Diff(out(c), clock * p) < 1000}
      best == FirstBy(fits,
                LAMBDA c : (Diff(out(c), clock * p) * 256 + c[1]) * 256 + c[2])
  IN  IF fits = {} THEN 0 ELSE out(best) \div p

(* rendition.c, V2200CalcClock: an oscillator of 125 to 250 MHz from a     *)
(* reference divided to 1 to 3 MHz.                                        *)
V2200CalcClock(clock) ==
  LET vco(c) == (1431818 * c[3]) \div (100 * c[2])
      out(c) == vco(c) \div c[1]
      tried == {<<c[1], c[2], (clock * c[1] * c[2]) \div Ref + c[3]>> :
                  c \in (1..15) \X (5..14) \X (-1..1)}
      fits == {c \in tried : /\ c[3] \in 1..255 /\ vco(c) \in 125000..250000
                             /\ Diff(out(c), clock) < 2000}
      best == FirstBy(fits,
                LAMBDA c : ((Diff(out(c), clock) * 16 + c[1]) * 16 + c[2]) * 256 + c[3])
  IN  IF fits = {} THEN 0 ELSE out(best)

(* r128.c: the first post divider that brings the clock, in units of 10    *)
(* kHz, into the range of the oscillator; the feedback divider is rounded. *)
R128Div(n, d) == (n + d \div 2) \div d

R128Post(pll, divs, freq) ==
  LET fits == {i \in DOMAIN divs : freq * divs[i] \in pll.min..pll.max}
  IN  IF fits = {} THEN 1 ELSE divs[Least(fits)]

R128Out(pll, divs, clock) ==
  LET most == clock \div 10
      freq == IF most > pll.max THEN pll.max
              ELSE IF most * 12 < pll.min THEN pll.min \div 12 ELSE most
      post == R128Post(pll, divs, freq)
      feedback == R128Div(pll.div * freq * post, pll.ref)
  IN  (10 * pll.ref * feedback) \div (pll.div * post)

Rage128 == [ref |-> 2950, div |-> 65, min |-> 12500, max |-> 25000]
Radeon == [ref |-> 2700, div |-> 12, min |-> 20000, max |-> 35000]

R128InitPLLRegisters(clock) == R128Out(Rage128, <<1, 2, 4, 8, 3, 6, 12>>, clock)
RADEONInitPLLRegisters(clock) == R128Out(Radeon, <<1, 2, 4, 8, 3, 16, 6, 12>>, clock)

(* rage.c, comp_lmn of a 264GT with a reference divider of 36: the first   *)
(* post divider whose clock is within half a percent.                      *)
rage_clock(clock) ==
  LET post == <<1, 2, 4, 8, 3, 6, 12>>
      vco(n) == (n * 28636) \div 36
      fits == {c \in (1..7) \X (2..255) : Near(vco(c[2]), clock * post[c[1]])}
      first == FirstBy(fits, LAMBDA c : c[1] * 256 + c[2])
  IN  IF fits = {} THEN 0 ELSE vco(first[2]) \div post[first[1]]

=============================================================================
