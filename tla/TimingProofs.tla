--------------------------- MODULE TimingProofs ---------------------------
(***************************************************************************)
(* The choice of a timing, for every card, monitor, list and call: what    *)
(* the search through a list finds, that the mode shown has the timing of  *)
(* the highest clock, that it is one of the monitor's, and that            *)
(* current_timing stays the timing shown.                                  *)
(*                                                                         *)
(* The searches are functions defined by recursion on the place in the     *)
(* list. That such a function exists, and what it is at every place, is    *)
(* proved by induction: a set of numbers that holds 0 and the successor of *)
(* each of its members is Nat.                                             *)
(***************************************************************************)
EXTENDS Timing, WellFoundedInduction, TLAPS

--------------------------------------------------------------------------
(* Induction, for a set.                                                   *)
LEMMA Climb ==
  ASSUME NEW S, S \subseteq Nat, 0 \in S, \A n \in S : n + 1 \in S
  PROVE  S = Nat
<1>1. SUFFICES ASSUME Nat \ S # {} PROVE FALSE
  OBVIOUS
<1> DEFINE R == OpToRel(<, Nat)
<1>2. \A x, y \in Nat : y < x => <<y, x>> \in R
  BY Zenon DEF OpToRel
<1>3. IsWellFoundedOn(R, Nat)
  BY NatLessThanWellFounded, Zenon
<1> HIDE DEF R
<1>4. PICK x \in Nat \ S : \A y \in Nat \ S : ~ (<<y, x>> \in R)
  BY <1>1, <1>3, WFMin, Zenon
<1>5. x # 0 /\ x - 1 \in Nat /\ x - 1 < x
  BY <1>4
<1>6. x - 1 \in S
  BY <1>2, <1>4, <1>5
<1> QED BY <1>4, <1>5, <1>6

(* One turn of the loop of search_mode, b the best so far.                 *)
Better(card, m, b, t) ==
  IF Usable(card, t, m) /\ t.pixelClock > b.pixelClock THEN t ELSE b

(* search_mode walks the list once.                                        *)
LEMMA SearchUnfolds ==
  ASSUME NEW card, NEW m, NEW timings, Len(timings) \in Nat
  PROVE  \E best :
           /\ search_mode(card, timings, m) = best[Len(timings)]
           /\ best[0] = NULL
           /\ \A i \in 1..Len(timings) :
                best[i] = Better(card, m, best[i - 1], timings[i])
<1> DEFINE n == Len(timings)
           Def(g, k) == [i \in 0..k |->
                           IF i = 0 THEN NULL
                           ELSE LET b == g[i - 1] IN
                                IF /\ Usable(card, timings[i], m)
                                   /\ timings[i].pixelClock > b.pixelClock
                                THEN timings[i] ELSE b]
           S == {k \in Nat : \E g : g = Def(g, k)}
           best == CHOOSE g : g = Def(g, n)
<1>1. 0 \in S
  <2> DEFINE g == [i \in 0..0 |-> NULL]
  <2>1. g = Def(g, 0)
    OBVIOUS
  <2> QED BY <2>1
<1>2. ASSUME NEW k \in S PROVE k + 1 \in S
  <2>1. PICK g : g = Def(g, k)
    OBVIOUS
  <2>2. k \in Nat
    OBVIOUS
  <2> DEFINE Step(b, i) == IF /\ Usable(card, timings[i], m)
                              /\ timings[i].pixelClock > b.pixelClock
                           THEN timings[i] ELSE b
             h == [i \in 0..(k + 1) |->
                     IF i = k + 1 THEN Step(g[k], k + 1) ELSE g[i]]
  <2> HIDE DEF Step
  <2>3. ASSUME NEW i \in 0..(k + 1)
        PROVE  h[i] = IF i = 0 THEN NULL ELSE Step(h[i - 1], i)
    <3>1. CASE i = k + 1
      BY <2>2, <3>1
    <3>2. CASE i # k + 1
      <4>1. i \in 0..k /\ h[i] = g[i] /\ (i # 0 => h[i - 1] = g[i - 1])
        BY <2>2, <3>2
      <4>2. g[i] = IF i = 0 THEN NULL ELSE Step(g[i - 1], i)
        BY <2>1, <4>1, Zenon DEF Step
      <4> QED BY <4>1, <4>2
    <3> QED BY <3>1, <3>2
  <2>4. h = [i \in 0..(k + 1) |-> IF i = 0 THEN NULL ELSE Step(h[i - 1], i)]
    BY <2>3
  <2> HIDE DEF h
  <2>5. h = Def(h, k + 1)
    BY <2>4, Zenon DEF Step
  <2>6. \E f : f = Def(f, k + 1)
    BY <2>5, Zenon
  <2> QED BY <2>2, <2>6
<1> HIDE DEF S
<1>3. S = Nat
  <2>1. S \subseteq Nat
    BY DEF S
  <2> QED BY <1>1, <1>2, <2>1, Climb
<1>4. \E g : g = Def(g, n)
  BY <1>3 DEF S
<1>5. best = Def(best, n)
  BY <1>4, Zenon
<1>6. search_mode(card, timings, m) = best[n]
  BY DEF search_mode
<1> HIDE DEF best
<1>7. best[0] = NULL
  BY <1>5
<1>8. ASSUME NEW i \in 1..n
      PROVE  best[i] = Better(card, m, best[i - 1], timings[i])
  <2>1. i \in 0..n /\ i # 0
    OBVIOUS
  <2>2. best[i] = Def(best, n)[i]
    BY <1>5, Zenon
  <2> QED BY <2>1, <2>2, Zenon DEF Better
<1> QED BY <1>6, <1>7, <1>8

(* The table holds timings.                                                *)
LEMMA StandardTimings == standard_timings \in Seq(MonitorModeTiming)
BY DEF standard_timings, T, MonitorModeTiming, Interlaced, Doublescan

(* A monitor takes no line rate of 0.                                      *)
LEMMA UsableClock ==
  ASSUME NEW card, NEW m, NEW t \in MonitorModeTiming, monitor \in Monitors,
         Usable(card, t, m)
  PROVE  t.pixelClock > 0
<1>1. t.pixelClock \in Nat /\ t.HTotal \in Nat /\ t.HTotal > 0
  BY DEF MonitorModeTiming
<1>2. timing_within_monitor_spec(t)
  BY DEF Usable
<1>3. Ranges[monitor].hmin = 31500
  BY TimingsAssumption DEF Ranges
<1>4. LineRate(t.pixelClock, t.HTotal) * 100 > 31500 * 99
  BY <1>2, <1>3 DEF timing_within_monitor_spec
<1>5. ASSUME t.pixelClock = 0 PROVE FALSE
  <2>1. LineRate(t.pixelClock, t.HTotal) = 0 \div t.HTotal
    BY <1>1, <1>5 DEF LineRate
  <2>2. 0 \div t.HTotal = 0
    BY <1>1
  <2> QED BY <1>4, <2>1, <2>2
<1> QED BY <1>1, <1>5

(* t is what the first n of the list hold for the mode: NULL when none of  *)
(* them can be used, else the first of those of the highest clock.         *)
Finds(card, m, timings, n, t) ==
  \/ /\ t = NULL
     /\ \A j \in 1..n : ~Usable(card, timings[j], m)
  \/ \E k \in 1..n :
       /\ t = timings[k] /\ Usable(card, t, m)
       /\ \A j \in 1..n :
            Usable(card, timings[j], m) =>
              \/ timings[j].pixelClock < t.pixelClock
              \/ timings[j].pixelClock = t.pixelClock /\ k <= j

LEMMA BetterFinds ==
  ASSUME NEW card, NEW m, NEW timings \in Seq(MonitorModeTiming),
         monitor \in Monitors,
         NEW n \in Nat, n + 1 \in 1..Len(timings),
         NEW b, Finds(card, m, timings, n, b)
  PROVE  Finds(card, m, timings, n + 1, Better(card, m, b, timings[n + 1]))
<1> DEFINE t == timings[n + 1]
<1>1. t \in MonitorModeTiming /\ t.pixelClock \in Nat
  BY DEF MonitorModeTiming
<1>2. \A j \in 1..n : timings[j] \in MonitorModeTiming /\ timings[j].pixelClock \in Nat
  <2>1. \A j \in 1..n : j \in 1..Len(timings)
    OBVIOUS
  <2>2. \A j \in 1..Len(timings) : timings[j] \in MonitorModeTiming
    OBVIOUS
  <2> QED BY <2>1, <2>2 DEF MonitorModeTiming
<1>3. b.pixelClock \in Nat /\ (b = NULL => b.pixelClock = 0)
  BY <1>2 DEF Finds, NULL, T
<1>4. Usable(card, t, m) => t.pixelClock > 0
  BY <1>1, UsableClock
<1>5. \A j \in 1..(n + 1) : j \in 1..n \/ j = n + 1
  OBVIOUS
<1>6. n + 1 \in 1..(n + 1) /\ \A j \in 1..n : j \in 1..(n + 1) /\ j < n + 1
  OBVIOUS
<1> HIDE DEF t
<1>7. timings[n + 1] = t
  BY DEF t
<1>8. CASE Usable(card, t, m) /\ t.pixelClock > b.pixelClock
  <2>1. Better(card, m, b, timings[n + 1]) = t
    BY <1>7, <1>8 DEF Better
  <2>2. ASSUME NEW j \in 1..n, Usable(card, timings[j], m)
        PROVE  timings[j].pixelClock < t.pixelClock
    BY <1>1, <1>2, <1>3, <1>8, <2>2 DEF Finds
  <2> QED BY <1>1, <1>5, <1>6, <1>7, <1>8, <2>1, <2>2 DEF Finds
<1>9. CASE ~(Usable(card, t, m) /\ t.pixelClock > b.pixelClock)
  <2>1. Better(card, m, b, timings[n + 1]) = b
    BY <1>7, <1>9 DEF Better
  <2>2. CASE b = NULL /\ \A j \in 1..n : ~Usable(card, timings[j], m)
    <3>1. ~Usable(card, t, m)
      BY <1>3, <1>4, <1>9, <2>2
    <3> QED BY <1>5, <1>7, <2>1, <2>2, <3>1 DEF Finds
  <2>3. ASSUME NEW k \in 1..n, b = timings[k], Usable(card, b, m),
               \A j \in 1..n :
                 Usable(card, timings[j], m) =>
                   \/ timings[j].pixelClock < b.pixelClock
                   \/ timings[j].pixelClock = b.pixelClock /\ k <= j
        PROVE  Finds(card, m, timings, n + 1, b)
    <3>1. Usable(card, t, m) =>
            \/ t.pixelClock < b.pixelClock
            \/ t.pixelClock = b.pixelClock /\ k <= n + 1
      BY <1>1, <1>3, <1>6, <1>9
    <3>2. \A j \in 1..(n + 1) :
            Usable(card, timings[j], m) =>
              \/ timings[j].pixelClock < b.pixelClock
              \/ timings[j].pixelClock = b.pixelClock /\ k <= j
      BY <1>5, <1>7, <2>3, <3>1
    <3>3. k \in 1..(n + 1)
      BY <1>6
    <3> QED BY <2>3, <3>2, <3>3 DEF Finds
  <2> QED BY <2>1, <2>2, <2>3 DEF Finds
<1> QED BY <1>8, <1>9

(* What the whole search finds, by induction on the place in the list.     *)
LEMMA SearchFinds ==
  ASSUME NEW card, NEW m, NEW timings \in Seq(MonitorModeTiming),
         monitor \in Monitors
  PROVE  Finds(card, m, timings, Len(timings), search_mode(card, timings, m))
<1>1. Len(timings) \in Nat
  OBVIOUS
<1>2. PICK best :
        /\ search_mode(card, timings, m) = best[Len(timings)]
        /\ best[0] = NULL
        /\ \A i \in 1..Len(timings) :
             best[i] = Better(card, m, best[i - 1], timings[i])
  BY <1>1, SearchUnfolds
<1> DEFINE S == {n \in Nat : n <= Len(timings) =>
                               Finds(card, m, timings, n, best[n])}
<1>3. 0 \in S
  BY <1>2 DEF Finds
<1>4. ASSUME NEW n \in S PROVE n + 1 \in S
  <2>1. n \in Nat
    OBVIOUS
  <2>2. CASE n + 1 <= Len(timings)
    <3>1. n + 1 \in 1..Len(timings) /\ n <= Len(timings)
      BY <1>1, <2>1, <2>2
    <3>2. Finds(card, m, timings, n, best[n])
      BY <3>1
    <3>3. best[n + 1] = Better(card, m, best[n], timings[n + 1])
      <4>1. best[n + 1] = Better(card, m, best[(n + 1) - 1], timings[n + 1])
        BY <1>2, <3>1
      <4>2. (n + 1) - 1 = n
        BY <2>1
      <4> QED BY <4>1, <4>2
    <3>4. Finds(card, m, timings, n + 1, best[n + 1])
      BY <2>1, <3>1, <3>2, <3>3, BetterFinds
    <3> QED BY <2>1, <3>4
  <2>3. CASE ~(n + 1 <= Len(timings))
    BY <2>1, <2>3
  <2> QED BY <2>2, <2>3
<1>5. S \subseteq Nat
  OBVIOUS
<1>6. S = Nat
  <2> HIDE DEF S
  <2> QED BY <1>3, <1>4, <1>5, Climb
<1> QED BY <1>1, <1>2, <1>6

(* The search and FirstOf, its description by sets, agree.                 *)
LEMMA FirstFound ==
  ASSUME NEW card, NEW m, NEW timings \in Seq(MonitorModeTiming),
         monitor \in Monitors
  PROVE  FirstOf(card, timings, m) =
           IF search_mode(card, timings, m) = NULL THEN {}
           ELSE {search_mode(card, timings, m)}
<1> DEFINE t == search_mode(card, timings, m)
           usable == {i \in DOMAIN timings : Usable(card, timings[i], m)}
           First(k) == \A j \in usable :
             \/ timings[j].pixelClock < timings[k].pixelClock
             \/ timings[j].pixelClock = timings[k].pixelClock /\ k <= j
<1>1. Finds(card, m, timings, Len(timings), t)
  BY SearchFinds
<1>2. DOMAIN timings = 1..Len(timings)
  OBVIOUS
<1>3. FirstOf(card, timings, m) = {timings[i] : i \in {k \in usable : First(k)}}
  BY DEF FirstOf
<1> HIDE DEF t
<1>4. CASE t = NULL /\ \A j \in 1..Len(timings) : ~Usable(card, timings[j], m)
  <2>1. usable = {}
    BY <1>2, <1>4
  <2> QED BY <1>3, <1>4, <2>1 DEF t
<1>5. ASSUME NEW k \in 1..Len(timings), t = timings[k], Usable(card, t, m),
             \A j \in 1..Len(timings) :
               Usable(card, timings[j], m) =>
                 \/ timings[j].pixelClock < t.pixelClock
                 \/ timings[j].pixelClock = t.pixelClock /\ k <= j
      PROVE  FirstOf(card, timings, m) = {t} /\ t # NULL
  <2>1. k \in usable /\ First(k)
    BY <1>2, <1>5
  <2>2. \A i \in usable : timings[i].pixelClock \in Nat /\ i \in Nat
    <3>1. \A i \in 1..Len(timings) :
            timings[i] \in MonitorModeTiming /\ i \in Nat
      OBVIOUS
    <3>2. \A i \in 1..Len(timings) : timings[i].pixelClock \in Nat /\ i \in Nat
      BY <3>1 DEF MonitorModeTiming
    <3>3. \A i \in usable : i \in 1..Len(timings)
      BY <1>2
    <3> QED BY <3>2, <3>3, Zenon
  <2>3. ASSUME NEW i \in usable, First(i) PROVE i = k
    BY <2>1, <2>2, <2>3
  <2>4. {timings[i] : i \in {j \in usable : First(j)}} = {timings[k]}
    <3> HIDE DEF usable, First
    <3> QED BY <2>1, <2>3
  <2>5. t # NULL
    <3>1. t \in MonitorModeTiming
      BY <1>5
    <3>2. t.pixelClock > 0
      BY <1>5, <3>1, UsableClock
    <3> QED BY <3>2 DEF NULL, T
  <2> QED BY <1>3, <1>5, <2>4, <2>5
<1> QED BY <1>1, <1>4, <1>5 DEF Finds, t

--------------------------------------------------------------------------
(* What setting a mode comes to, t the timing chosen for it.               *)
Outcome(card, force, m, t) ==
  \/ CM' = CM /\ shown' = shown /\ current' = current
  \/ m = TEXT /\ CM' = TEXT /\ shown' = Nothing /\ current' = current
  \/ /\ m # TEXT /\ Possible(card, m) /\ t # NULL /\ current' = t
     /\ \/ et6000_declines(t, m) /\ CM' = CM /\ shown' = shown
        \/ /\ CM' = m /\ shown' # Nothing
           /\ shown'.timing = t /\ shown'.forced = Forced(force, m)

LEMMA ModeSet ==
  ASSUME NEW card, NEW force, NEW m, setmode(card, force, m)
  PROVE  Outcome(card, force, m, getmodetiming(card, force, m))
<1> DEFINE t == getmodetiming(card, force, m)
           new == [timing |-> t, forced |-> Forced(force, m),
                   regs |-> Registers(card, t, m)]
<1>1. new # Nothing /\ new.timing = t /\ new.forced = Forced(force, m)
  <2>1. "forced" \in DOMAIN new
    OBVIOUS
  <2>2. "forced" \notin DOMAIN Nothing
    BY DEF Nothing
  <2> QED BY <2>1, <2>2
<1> HIDE DEF new
<1>2. new = [timing |-> t, forced |-> Forced(force, m),
             regs |-> Registers(card, t, m)]
  BY DEF new
<1> HIDE DEF t
<1>3. CASE m = TEXT
  BY <1>3 DEF setmode, Outcome
<1>4. CASE m # TEXT /\ (~Possible(card, m) \/ t = NULL)
  BY <1>4 DEF setmode, Outcome, t
<1>5. CASE m # TEXT /\ Possible(card, m) /\ t # NULL
  <2>1. /\ current' = t
        /\ IF et6000_declines(t, m) THEN UNCHANGED <<CM, shown>>
           ELSE CM' = m /\ shown' = new
    BY <1>2, <1>5, Zenon DEF setmode, t, Made
  <2> QED BY <1>1, <1>5, <2>1 DEF t, Outcome
<1> QED BY <1>3, <1>4, <1>5, Zenon

(* The user's list comes before the table.                                 *)
LEMMA Unforced ==
  ASSUME NEW card, NEW force, NEW m, ~Forced(force, m),
         getmodetiming(card, force, m) # NULL
  PROVE  getmodetiming(card, force, m) =
           IF search_mode(card, user, m) # NULL THEN search_mode(card, user, m)
           ELSE search_mode(card, standard_timings, m)
BY Zenon DEF getmodetiming

LEMMA ForcedTiming ==
  ASSUME NEW card, NEW force, NEW m, Forced(force, m),
         getmodetiming(card, force, m) # NULL
  PROVE  getmodetiming(card, force, m) = force
BY Zenon DEF getmodetiming

LEMMA NotForced == \A m : ~Forced(NULL, m)
BY DEF Forced

(* The mode set shows the timing of the highest clock.                     *)
LEMMA StepChosen ==
  ASSUME NEW force, NEW m, monitor \in Monitors,
         user \in Seq(MonitorModeTiming),
         setmode(ThisCard, force, m), shown' # shown, CM' # TEXT,
         ~shown'.forced
  PROVE  LET mine == FirstOf(ThisCard, user, CM') IN
         {shown'.timing} = IF mine # {} THEN mine
                           ELSE FirstOf(ThisCard, standard_timings, CM')
<1> DEFINE t == getmodetiming(ThisCard, force, m)
<1>1. /\ CM' = m /\ t # NULL /\ shown'.timing = t
      /\ shown'.forced = Forced(force, m)
  <2>1. Outcome(ThisCard, force, m, t)
    BY ModeSet, Zenon
  <2> HIDE DEF t
  <2> QED BY <2>1 DEF Outcome
<1>2. ~Forced(force, m)
  BY <1>1, Zenon
<1>3. t = IF search_mode(ThisCard, user, m) # NULL
          THEN search_mode(ThisCard, user, m)
          ELSE search_mode(ThisCard, standard_timings, m)
  BY <1>1, <1>2, Unforced, Zenon
<1>4. FirstOf(ThisCard, user, m) =
        IF search_mode(ThisCard, user, m) = NULL THEN {}
        ELSE {search_mode(ThisCard, user, m)}
  BY FirstFound, Zenon
<1>5. FirstOf(ThisCard, standard_timings, m) =
        IF search_mode(ThisCard, standard_timings, m) = NULL THEN {}
        ELSE {search_mode(ThisCard, standard_timings, m)}
  BY FirstFound, StandardTimings, Zenon
<1> HIDE DEF t
<1> QED BY <1>1, <1>3, <1>4, <1>5

--------------------------------------------------------------------------
(* find_timing returns one of the candidates or what it starts from.       *)
LEMMA FindUnfolds ==
  ASSUME NEW x, NEW y, NEW up, Len(Candidates) \in Nat
  PROVE  \E best :
           /\ find_timing(x, y, up) = best[Len(Candidates)]
           /\ best[0] = IF up THEN [NULL EXCEPT !.HDisplay = 4096,
                                                !.VDisplay = 4096]
                        ELSE NULL
           /\ \A i \in 1..Len(Candidates) :
                best[i] \in {best[i - 1], Candidates[i]}
<1> DEFINE n == Len(Candidates)
           start == IF up THEN [NULL EXCEPT !.HDisplay = 4096,
                                            !.VDisplay = 4096]
                    ELSE NULL
           Def(g, k) == [i \in 0..k |->
                           IF i = 0 THEN start
                           ELSE LET b == g[i - 1] IN
                                IF /\ Considered(i)
                                   /\ Nearer(Candidates[i], b, x, y, up)
                                THEN Candidates[i] ELSE b]
           S == {k \in Nat : \E g : g = Def(g, k)}
           best == CHOOSE g : g = Def(g, n)
<1> HIDE DEF start
<1>1. 0 \in S
  <2> DEFINE g == [i \in 0..0 |-> start]
  <2>1. g = Def(g, 0)
    OBVIOUS
  <2> QED BY <2>1
<1>2. ASSUME NEW k \in S PROVE k + 1 \in S
  <2>1. PICK g : g = Def(g, k)
    OBVIOUS
  <2>2. k \in Nat
    OBVIOUS
  <2> DEFINE Step(b, i) == IF /\ Considered(i)
                              /\ Nearer(Candidates[i], b, x, y, up)
                           THEN Candidates[i] ELSE b
             h == [i \in 0..(k + 1) |->
                     IF i = k + 1 THEN Step(g[k], k + 1) ELSE g[i]]
  <2> HIDE DEF Step
  <2>3. ASSUME NEW i \in 0..(k + 1)
        PROVE  h[i] = IF i = 0 THEN start ELSE Step(h[i - 1], i)
    <3>1. CASE i = k + 1
      BY <2>2, <3>1
    <3>2. CASE i # k + 1
      <4>1. i \in 0..k /\ h[i] = g[i] /\ (i # 0 => h[i - 1] = g[i - 1])
        BY <2>2, <3>2
      <4>2. g[i] = IF i = 0 THEN start ELSE Step(g[i - 1], i)
        BY <2>1, <4>1, Zenon DEF Step
      <4> QED BY <4>1, <4>2
    <3> QED BY <3>1, <3>2
  <2>4. h = [i \in 0..(k + 1) |-> IF i = 0 THEN start ELSE Step(h[i - 1], i)]
    BY <2>3
  <2> HIDE DEF h
  <2>5. h = Def(h, k + 1)
    BY <2>4, Zenon DEF Step
  <2>6. \E f : f = Def(f, k + 1)
    BY <2>5, Zenon
  <2> QED BY <2>2, <2>6
<1> HIDE DEF S
<1>3. S = Nat
  <2>1. S \subseteq Nat
    BY DEF S
  <2> QED BY <1>1, <1>2, <2>1, Climb
<1>4. \E g : g = Def(g, n)
  BY <1>3 DEF S
<1>5. best = Def(best, n)
  BY <1>4, Zenon
<1>6. find_timing(x, y, up) = best[n]
  BY DEF find_timing, start
<1> HIDE DEF best
<1>7. best[0] = start
  BY <1>5
<1>8. ASSUME NEW i \in 1..n
      PROVE  best[i] \in {best[i - 1], Candidates[i]}
  <2>1. i \in 0..n /\ i # 0
    OBVIOUS
  <2>2. best[i] = Def(best, n)[i]
    BY <1>5, Zenon
  <2> QED BY <2>1, <2>2, Zenon
<1> QED BY <1>6, <1>7, <1>8 DEF start

LEMMA FoundProper ==
  ASSUME NEW x, NEW y, NEW up, user \in Seq(MonitorModeTiming),
         find_timing(x, y, up).pixelClock # 0
  PROVE  find_timing(x, y, up) \in MonitorModeTiming
<1>1. Candidates \in Seq(MonitorModeTiming)
  BY StandardTimings DEF Candidates
<1>2. Len(Candidates) \in Nat
        /\ \A i \in 1..Len(Candidates) : Candidates[i] \in MonitorModeTiming
  BY <1>1
<1>3. PICK best :
        /\ find_timing(x, y, up) = best[Len(Candidates)]
        /\ best[0] = IF up THEN [NULL EXCEPT !.HDisplay = 4096,
                                             !.VDisplay = 4096]
                     ELSE NULL
        /\ \A i \in 1..Len(Candidates) :
             best[i] \in {best[i - 1], Candidates[i]}
  BY <1>2, FindUnfolds
<1> DEFINE Ok(t) == t.pixelClock = 0 \/ t \in MonitorModeTiming
           S == {n \in Nat : n <= Len(Candidates) => Ok(best[n])}
<1>4. 0 \in S
  <2>1. best[0].pixelClock = 0
    BY <1>3 DEF NULL, T
  <2> QED BY <2>1
<1>5. ASSUME NEW n \in S PROVE n + 1 \in S
  <2>1. n \in Nat
    OBVIOUS
  <2>2. CASE n + 1 <= Len(Candidates)
    <3>1. n + 1 \in 1..Len(Candidates) /\ n <= Len(Candidates)
            /\ (n + 1) - 1 = n
      BY <1>2, <2>1, <2>2
    <3>2. best[n + 1] \in {best[n], Candidates[n + 1]}
      BY <1>3, <3>1
    <3>3. Ok(best[n + 1])
      BY <1>2, <3>1, <3>2
    <3> QED BY <2>1, <3>3
  <2>3. CASE ~(n + 1 <= Len(Candidates))
    BY <2>1, <2>3
  <2> QED BY <2>2, <2>3
<1>6. S = Nat
  <2>1. S \subseteq Nat
    OBVIOUS
  <2> HIDE DEF S
  <2> QED BY <1>4, <1>5, <2>1, Climb
<1> QED BY <1>2, <1>3, <1>6

(* Its fields but the syncs' are those of the picture.                     *)
LEMMA ResyncedProper ==
  ASSUME NEW t \in MonitorModeTiming, NEW a \in Nat, NEW b \in Nat
  PROVE  [t EXCEPT !.VSyncStart = a, !.VSyncEnd = b] \in MonitorModeTiming
BY DEF MonitorModeTiming

LEMMA ClampedProper ==
  ASSUME NEW t \in MonitorModeTiming
  PROVE  Clamped(t) \in MonitorModeTiming
<1> DEFINE start == IF t.VSyncStart < t.VDisplay + 1 THEN t.VDisplay + 1
                    ELSE t.VSyncStart
           end == IF t.VSyncEnd < start + 1 THEN start + 1 ELSE t.VSyncEnd
<1>1. t.VSyncStart \in Nat /\ t.VDisplay \in Nat /\ t.VSyncEnd \in Nat
  BY DEF MonitorModeTiming
<1>2. start \in Nat
  BY <1>1
<1>3. end \in Nat
  <2> HIDE DEF start
  <2> QED BY <1>1, <1>2
<1>4. Clamped(t) = [t EXCEPT !.VSyncStart = start, !.VSyncEnd = end]
  BY Zenon DEF Clamped
<1> HIDE DEF start, end
<1> QED BY <1>2, <1>3, <1>4, ResyncedProper

(* Scaling by x / d.                                                       *)
LEMMA Share ==
  ASSUME NEW n \in Nat, NEW x \in Nat, NEW d \in Nat, d > 0
  PROVE  /\ (n * x) \div d \in Nat
         /\ n >= d => (n * x) \div d >= x
<1>1. n * x \in Nat
  OBVIOUS
<1> DEFINE q == (n * x) \div d
           r == (n * x) % d
<1>2. q \in Int /\ r \in Nat /\ r < d /\ n * x = d * q + r
  BY <1>1
<1> HIDE DEF q, r
<1>3. q >= 0
  <2>1. ASSUME q <= -1 PROVE FALSE
    <3>1. d * q <= d * (-1)
      BY <1>2, <2>1
    <3> QED BY <1>1, <1>2, <3>1
  <2> QED BY <1>2, <2>1
<1>4. ASSUME n >= d PROVE q >= x
  <2>1. ASSUME q <= x - 1 PROVE FALSE
    <3>1. d * q <= d * (x - 1)
      BY <1>2, <2>1
    <3>2. d * (x - 1) = d * x - d
      OBVIOUS
    <3>3. d * x <= n * x
      BY <1>4
    <3> QED BY <1>1, <1>2, <3>1, <3>2, <3>3
  <2> QED BY <1>2, <2>1
<1> QED BY <1>2, <1>3, <1>4 DEF q

LEMMA ScaledProper ==
  ASSUME NEW t \in MonitorModeTiming, NEW x \in Nat \ {0},
         NEW y \in Nat \ {0}, NEW vn \in Nat, NEW vd \in Nat \ {0}
  PROVE  Scaled(t, x, y, vn, vd) \in MonitorModeTiming
<1> DEFINE h(n) == (n * x) \div t.HDisplay
           v(n) == (n * vn) \div vd
<1>1. /\ t.HDisplay \in Nat /\ t.HDisplay > 0 /\ t.HDisplay <= t.HTotal
      /\ t.HTotal \in Nat /\ t.pixelClock \in Nat /\ t.flags \in SUBSET (Interlaced \cup Doublescan)
      /\ t.HSyncStart \in Nat /\ t.HSyncEnd \in Nat
      /\ t.VSyncStart \in Nat /\ t.VSyncEnd \in Nat /\ t.VTotal \in Nat
  BY DEF MonitorModeTiming
<1>2. \A n \in Nat : h(n) \in Nat /\ v(n) \in Nat
  BY <1>1, Share
<1>3. h(t.HTotal) >= x
  BY <1>1, Share
<1> HIDE DEF h, v
<1>4. PICK c \in Nat, hs \in Nat, he \in Nat, ht \in Nat,
           vs \in Nat, ve \in Nat, vt \in Nat :
        /\ c = h(t.pixelClock) /\ hs = h(t.HSyncStart) /\ he = h(t.HSyncEnd)
        /\ ht = h(t.HTotal) /\ vs = v(t.VSyncStart) /\ ve = v(t.VSyncEnd)
        /\ vt = v(t.VTotal)
  BY <1>1, <1>2
<1> DEFINE s == [t EXCEPT !.pixelClock = c, !.HDisplay = x, !.VDisplay = y,
                          !.HSyncStart = hs, !.HSyncEnd = he, !.HTotal = ht,
                          !.VSyncStart = vs, !.VSyncEnd = ve, !.VTotal = vt]
<1>5. Scaled(t, x, y, vn, vd) = s
  BY <1>4 DEF Scaled, h, v, MonitorModeTiming
<1>6. s \in MonitorModeTiming
  <2> DEFINE R == [pixelClock : Nat,
                   HDisplay : Nat, HSyncStart : Nat, HSyncEnd : Nat,
                   HTotal : Nat, VDisplay : Nat, VSyncStart : Nat,
                   VSyncEnd : Nat, VTotal : Nat,
                   flags : SUBSET (Interlaced \cup Doublescan)]
  <2>1. t \in R
    BY DEF MonitorModeTiming
  <2>2. s.HDisplay = x /\ s.HTotal = ht /\ s.VDisplay = y
    BY <2>1
  <2>3. s \in R
    BY <2>1
  <2>4. 0 < s.HDisplay /\ s.HDisplay <= s.HTotal /\ 0 < s.VDisplay
    BY <1>3, <1>4, <2>2
  <2> HIDE DEF s
  <2> QED BY <2>3, <2>4 DEF MonitorModeTiming
<1> QED BY <1>5, <1>6

--------------------------------------------------------------------------
(* The driver and the monitor stay, and with them every judgement.         *)
LEMMA SameJudgement ==
  ASSUME driver' = driver, monitor' = monitor, NEW card, NEW t, NEW m
  PROVE  /\ ThisCard' = ThisCard
         /\ Usable(card, t, m)' <=> Usable(card, t, m)
         /\ Accepts(card, t, m)' <=> Accepts(card, t, m)
<1>1. ThisCard' = ThisCard
  BY DEF ThisCard
<1>2. timing_within_monitor_spec(t)' <=> timing_within_monitor_spec(t)
  BY DEF timing_within_monitor_spec
<1>3. Usable(card, t, m)' <=> Usable(card, t, m)
  BY <1>2, Zenon DEF Usable
<1>4. et6000_declines(t, m)' <=> et6000_declines(t, m)
  BY DEF et6000_declines
<1>5. Single(card, t, m)' <=> Single(card, t, m)
  BY <1>4 DEF Single
<1>6. Distant(card, t, m)' <=> Distant(card, t, m)
  BY DEF Distant
<1>7. Accepts(card, t, m)' <=> Accepts(card, t, m)
  BY <1>5, <1>6 DEF Accepts, Sound
<1> QED BY <1>1, <1>3, <1>7

LEMMA SameSearch ==
  ASSUME monitor' = monitor, NEW card, NEW timings, NEW m
  PROVE  search_mode(card, timings, m)' = search_mode(card, timings, m)
<1>1. \A t : timing_within_monitor_spec(t)' <=> timing_within_monitor_spec(t)
  BY DEF timing_within_monitor_spec
<1>2. \A t : Usable(card, t, m)' <=> Usable(card, t, m)
  BY <1>1, Zenon DEF Usable
<1> QED BY <1>2 DEF search_mode

--------------------------------------------------------------------------
(* The inductive invariant of CurrentTrue. Besides current itself, it says *)
(* that the modes the program may come back to were set with a timing its  *)
(* driver takes: refused, a second choice would be left in current alone.  *)
Typed ==
  /\ monitor \in Monitors
  /\ user \in Seq(MonitorModeTiming)
  /\ CM \in Modes \cup {TEXT} /\ flip_mode \in Modes \cup {TEXT, NONE}

(* Text has no timing, and a console that is away shows text.              *)
Faithful ==
  /\ InGraphics <=> CM # TEXT
  /\ ~Awake => CM = TEXT
  /\ CurrentTrue

(* Every timing of the list is one the driver takes where it can be used.  *)
Trusted == \A i \in DOMAIN user : Accepted(ThisCard, user[i])

(* A timing of the list will be chosen for the mode, or a sound one of the *)
(* table; the list only grows, so this stays.                              *)
Settled(m) ==
  \/ search_mode(ThisCard, user, m) # NULL
  \/ Accepts(ThisCard, search_mode(ThisCard, standard_timings, m), m)

Remembered ==
  /\ CM # TEXT => Settled(CM)
  /\ ~Awake /\ flip_mode # TEXT => Settled(flip_mode)

Inv == Typed /\ Faithful /\ Trusted /\ Remembered

(* What is chosen for a settled mode is sound.                             *)
LEMMA UserSound ==
  ASSUME Typed, Trusted, NEW m \in Modes,
         search_mode(ThisCard, user, m) # NULL
  PROVE  Accepts(ThisCard, search_mode(ThisCard, user, m), m)
<1>1. Finds(ThisCard, m, user, Len(user), search_mode(ThisCard, user, m))
  BY SearchFinds, Zenon DEF Typed
<1>2. PICK k \in 1..Len(user) :
        /\ search_mode(ThisCard, user, m) = user[k]
        /\ Usable(ThisCard, user[k], m)
  BY <1>1, Zenon DEF Finds
<1>3. k \in DOMAIN user
  BY DEF Typed
<1> QED BY <1>2, <1>3, Zenon DEF Trusted, Accepted

LEMMA SettledSound ==
  ASSUME Typed, Trusted, NEW m \in Modes, Settled(m), NEW force,
         Forced(force, m) => Accepts(ThisCard, force, m),
         getmodetiming(ThisCard, force, m) # NULL
  PROVE  Accepts(ThisCard, getmodetiming(ThisCard, force, m), m)
<1>1. CASE Forced(force, m)
  BY <1>1, ForcedTiming
<1>2. CASE ~Forced(force, m)
  BY <1>2, Unforced, UserSound DEF Settled
<1> QED BY <1>1, <1>2

LEMMA SoundSettles ==
  ASSUME NEW m, getmodetiming(ThisCard, NULL, m) # NULL,
         Accepts(ThisCard, getmodetiming(ThisCard, NULL, m), m)
  PROVE  Settled(m)
BY Unforced, NotForced DEF Settled

LEMMA SettledStays ==
  ASSUME driver' = driver, monitor' = monitor, user' = user, NEW m
  PROVE  Settled(m)' <=> Settled(m)
<1>1. ThisCard' = ThisCard
  BY SameJudgement
<1>2. PICK c, u, s : c = ThisCard /\ u = user /\ s = search_mode(c, standard_timings, m)
  OBVIOUS
<1>3. search_mode(c, u, m)' = search_mode(c, u, m)
  BY SameSearch
<1>4. search_mode(c, standard_timings, m)' = s
  BY <1>2, SameSearch
<1>5. Accepts(c, s, m)' <=> Accepts(c, s, m)
  BY SameJudgement
<1>6. search_mode(ThisCard, user, m)' = search_mode(ThisCard, user, m)
  BY <1>1, <1>2, <1>3
<1>7. Accepts(ThisCard, search_mode(ThisCard, standard_timings, m), m)'
        <=> Accepts(ThisCard, search_mode(ThisCard, standard_timings, m), m)
  BY <1>1, <1>2, <1>4, <1>5
<1> QED BY <1>6, <1>7 DEF Settled

LEMMA TrustedStays ==
  ASSUME driver' = driver, monitor' = monitor, user' = user, Trusted
  PROVE  Trusted'
<1>1. ThisCard' = ThisCard
  BY SameJudgement
<1>2. PICK c, u : c = ThisCard /\ u = user
  OBVIOUS
<1>3. ASSUME NEW t PROVE Accepted(c, t)' <=> Accepted(c, t)
  <2>1. \A m : (Usable(c, t, m)' <=> Usable(c, t, m))
               /\ (Accepts(c, t, m)' <=> Accepts(c, t, m))
    BY SameJudgement
  <2> QED BY <2>1 DEF Accepted
<1>4. \A i \in DOMAIN u : Accepted(c, u[i])
  BY <1>2 DEF Trusted
<1>5. \A i \in DOMAIN u : Accepted(c, u[i])'
  BY <1>3, <1>4
<1> QED BY <1>1, <1>2, <1>5 DEF Trusted

(* Another timing in the list disturbs none of this.                       *)
LEMMA ListGrows ==
  ASSUME Inv, NEW t \in MonitorModeTiming, addusertiming(t),
         Accepted(ThisCard, Clamped(t)),
         UNCHANGED <<driver, monitor, current, CM, shown, flip_mode>>
  PROVE  Inv'
<1> DEFINE new == Clamped(t)
<1>1. user' = <<new>> \o user /\ new \in MonitorModeTiming
        /\ user \in Seq(MonitorModeTiming)
  BY ClampedProper DEF Inv, Typed, addusertiming
<1> HIDE DEF new
<1>2. /\ user' \in Seq(MonitorModeTiming) /\ Len(user') = Len(user) + 1
      /\ user'[1] = new
      /\ \A i \in 1..Len(user) : user'[i + 1] = user[i]
  BY <1>1
<1>3. \A i \in 1..Len(user') :
        \/ user'[i] = new
        \/ \E j \in 1..Len(user) : user'[i] = user[j]
  <2> TAKE i \in 1..Len(user')
  <2>1. CASE i = 1
    BY <1>2, <2>1
  <2>2. CASE i # 1
    <3>1. i - 1 \in 1..Len(user) /\ (i - 1) + 1 = i
      BY <1>1, <1>2, <2>2
    <3> QED BY <1>2, <3>1
  <2> QED BY <2>1, <2>2
<1>4. Typed'
  BY <1>2 DEF Inv, Typed
<1>5. Faithful'
  BY DEF Inv, Faithful, InGraphics, Awake, CurrentTrue
<1>6. PICK c, u : c = ThisCard /\ u = user'
  OBVIOUS
<1>7. ThisCard' = c
  BY <1>6, SameJudgement
<1>8. Trusted'
  <2>1. ASSUME NEW i \in 1..Len(u) PROVE Accepted(c, u[i])
    <3>1. Accepted(c, new) /\ \A j \in 1..Len(user) : Accepted(c, user[j])
      BY <1>1, <1>6 DEF Inv, Trusted, new
    <3> QED BY <1>3, <1>6, <2>1, <3>1
  <2>2. ASSUME NEW s PROVE Accepted(c, s)' <=> Accepted(c, s)
    <3>1. \A m : (Usable(c, s, m)' <=> Usable(c, s, m))
                 /\ (Accepts(c, s, m)' <=> Accepts(c, s, m))
      BY SameJudgement
    <3> QED BY <3>1 DEF Accepted
  <2>3. \A i \in 1..Len(u) : Accepted(c, u[i])'
    BY <2>1, <2>2
  <2>4. DOMAIN u = 1..Len(u)
    BY <1>2, <1>6
  <2> QED BY <1>6, <1>7, <2>3, <2>4 DEF Trusted
<1>9. ASSUME NEW m, Settled(m) PROVE Settled(m)'
  <2>1. CASE search_mode(c, user, m) # NULL
    <3>1. Finds(c, m, user, Len(user), search_mode(c, user, m))
      BY <1>1, SearchFinds DEF Inv, Typed
    <3>2. PICK k \in 1..Len(user) : Usable(c, user[k], m)
      BY <2>1, <3>1 DEF Finds
    <3>3. Usable(c, u[k + 1], m) /\ k + 1 \in 1..Len(u)
      BY <1>1, <1>2, <1>6, <3>2
    <3>4. Finds(c, m, u, Len(u), search_mode(c, u, m))
      BY <1>2, <1>6, SearchFinds DEF Inv, Typed
    <3>5. search_mode(c, u, m) # NULL
      <4>1. PICK j \in 1..Len(u) :
              search_mode(c, u, m) = u[j] /\ Usable(c, u[j], m)
        BY <3>3, <3>4 DEF Finds
      <4>2. u[j] \in MonitorModeTiming
        BY <1>2, <1>6
      <4>3. u[j].pixelClock > 0
        BY <4>1, <4>2, UsableClock DEF Inv, Typed
      <4> QED BY <4>1, <4>3 DEF NULL, T
    <3>6. search_mode(c, u, m)' = search_mode(c, u, m)
      BY SameSearch
    <3> QED BY <1>6, <1>7, <3>5, <3>6 DEF Settled
  <2>2. CASE ~(search_mode(c, user, m) # NULL)
    <3>1. PICK s : s = search_mode(c, standard_timings, m)
      OBVIOUS
    <3>2. Accepts(c, s, m)
      BY <1>6, <1>9, <2>2, <3>1 DEF Settled
    <3>3. Accepts(c, s, m)' /\ search_mode(c, standard_timings, m)' = s
      BY <3>1, <3>2, SameJudgement, SameSearch
    <3> QED BY <1>7, <3>3 DEF Settled
  <2> QED BY <2>1, <2>2
<1>10. Remembered'
  <2>1. PICK m, f : m = CM /\ f = flip_mode
    OBVIOUS
  <2>2. (m # TEXT => Settled(m)) /\ (f # NONE /\ f # TEXT => Settled(f))
    BY <2>1 DEF Inv, Remembered, Awake
  <2>3. (m # TEXT => Settled(m)') /\ (f # NONE /\ f # TEXT => Settled(f)')
    BY <1>9, <2>2
  <2> QED BY <2>1, <2>3 DEF Remembered, Awake
<1> QED BY <1>4, <1>5, <1>8, <1>10 DEF Inv

--------------------------------------------------------------------------
(* Setting a mode whose timing is sound, or while text is shown.           *)
LEMMA ModeKeeps ==
  ASSUME Wary, Typed, Faithful, Trusted,
         CM # TEXT => Settled(CM),
         NEW force, NEW m \in Modes \cup {TEXT},
         setmode(ThisCard, force, m),
         \/ m = TEXT
         \/ getmodetiming(ThisCard, force, m) = NULL
         \/ /\ Accepts(ThisCard, getmodetiming(ThisCard, force, m), m)
            /\ Settled(m),
         UNCHANGED <<driver, monitor, user>>
  PROVE  /\ CM' \in Modes \cup {TEXT}
         /\ InGraphics' <=> CM' # TEXT
         /\ CurrentTrue'
         /\ CM' = CM \/ CM' = m
         /\ CM' # TEXT => Settled(CM)'
<1> DEFINE t == getmodetiming(ThisCard, force, m)
<1>1. Outcome(ThisCard, force, m, t)
  BY ModeSet, Zenon
<1>2. m # TEXT /\ t # NULL /\ Possible(ThisCard, m) => ~et6000_declines(t, m)
  BY Zenon DEF Accepts, Sound, Single
<1>3. m # TEXT /\ t # NULL => Settled(m)
  OBVIOUS
<1> HIDE DEF t
<1>4. PICK c : c = CM
  OBVIOUS
<1>5. (c # TEXT => Settled(c)') /\ (m # TEXT /\ t # NULL => Settled(m)')
  BY <1>3, <1>4, SettledStays
<1>6. /\ CM' = CM /\ shown' = shown /\ current' = current
      \/ /\ CM' = TEXT /\ shown' = Nothing /\ m = TEXT
      \/ /\ m # TEXT /\ t # NULL /\ CM' = m /\ shown' # Nothing
         /\ shown'.timing = t /\ current' = t
  BY <1>1, <1>2 DEF Outcome
<1>7. CASE CM' = CM /\ shown' = shown /\ current' = current
  BY <1>4, <1>5, <1>7 DEF Typed, Faithful, InGraphics, CurrentTrue
<1>8. CASE CM' = TEXT /\ shown' = Nothing /\ m = TEXT
  BY <1>8 DEF InGraphics, CurrentTrue
<1>9. CASE /\ m # TEXT /\ t # NULL /\ CM' = m /\ shown' # Nothing
           /\ shown'.timing = t /\ current' = t
  BY <1>5, <1>9 DEF InGraphics, CurrentTrue
<1> QED BY <1>6, <1>7, <1>8, <1>9

LEMMA InitInv == Init => Inv
BY TimingsAssumption
   DEF Init, Inv, Typed, Faithful, Trusted, Remembered, InGraphics, Awake,
       CurrentTrue

LEMMA StutterInv == Inv /\ UNCHANGED vars => Inv'
<1> SUFFICES ASSUME Inv, UNCHANGED vars PROVE Inv'
  OBVIOUS
<1>1. Trusted'
  BY TrustedStays DEF Inv, vars
<1>2. PICK c, f : c = CM /\ f = flip_mode
  OBVIOUS
<1>3. (Settled(c) => Settled(c)') /\ (Settled(f) => Settled(f)')
  BY SettledStays DEF vars
<1>4. Remembered'
  BY <1>2, <1>3 DEF Inv, Remembered, Awake, vars
<1> QED BY <1>1, <1>4
        DEF Inv, Typed, Faithful, InGraphics, Awake, CurrentTrue, vars

LEMMA SetInv ==
  ASSUME Wary, Inv, NEW m \in Modes \cup {TEXT}, vga_setmode(m)
  PROVE  Inv'
<1>1. /\ flip_mode = NONE /\ flip_mode' = flip_mode
      /\ UNCHANGED <<driver, monitor, user>>
      /\ setmode(ThisCard, NULL, m)
  BY DEF vga_setmode, Awake
<1>2. \/ m = TEXT
      \/ getmodetiming(ThisCard, NULL, m) = NULL
      \/ Accepts(ThisCard, getmodetiming(ThisCard, NULL, m), m) /\ Settled(m)
  BY SoundSettles DEF vga_setmode
<1>3. /\ CM' \in Modes \cup {TEXT} /\ (InGraphics' <=> CM' # TEXT)
      /\ CurrentTrue' /\ (CM' # TEXT => Settled(CM)')
  BY <1>1, <1>2, ModeKeeps DEF Inv, Remembered
<1>4. Trusted'
  BY <1>1, TrustedStays DEF Inv
<1> QED BY <1>1, <1>3, <1>4
        DEF Inv, Typed, Faithful, Remembered, Awake

LEMMA ChangeInv ==
  ASSUME Wary, Inv, NEW d, vga_changetiming(d)
  PROVE  Inv'
<1>1. /\ flip_mode = NONE /\ flip_mode' = flip_mode
      /\ UNCHANGED <<driver, monitor, user>>
      /\ CM # TEXT /\ CM \in Modes
  BY DEF vga_changetiming, Awake, Inv, Typed
<1>2. PICK m, s : m = CM /\ s = Sum(current, d)
  OBVIOUS
<1>3. setmode(ThisCard, s, m) /\ Accepts(ThisCard, s, m)
  BY <1>2 DEF vga_changetiming
<1>4. Settled(m) /\ m \in Modes
  BY <1>1, <1>2 DEF Inv, Remembered
<1>5. getmodetiming(ThisCard, s, m) # NULL
        => Accepts(ThisCard, getmodetiming(ThisCard, s, m), m)
  BY <1>3, <1>4, SettledSound DEF Inv
<1>6. /\ CM' \in Modes \cup {TEXT} /\ (InGraphics' <=> CM' # TEXT)
      /\ CurrentTrue' /\ (CM' # TEXT => Settled(CM)')
  BY <1>1, <1>3, <1>4, <1>5, ModeKeeps DEF Inv, Remembered
<1>7. Trusted'
  BY <1>1, TrustedStays DEF Inv
<1> QED BY <1>1, <1>6, <1>7
        DEF Inv, Typed, Faithful, Remembered, Awake

LEMMA HasmodeInv ==
  ASSUME Wary, Inv, NEW m, vga_hasmode(m)
  PROVE  Inv'
<1>1. /\ UNCHANGED <<driver, monitor, user, CM, shown, flip_mode>>
      /\ flip_mode = NONE /\ CM = TEXT
  BY DEF vga_hasmode, Awake
<1>2. Trusted'
  BY <1>1, TrustedStays DEF Inv
<1> QED BY <1>1, <1>2
        DEF Inv, Typed, Faithful, Remembered, InGraphics, Awake, CurrentTrue

LEMMA AwayInv == ASSUME Wary, Inv, flipaway PROVE Inv'
<1>1. /\ flip_mode = NONE /\ flip_mode' = CM
      /\ UNCHANGED <<driver, monitor, user>>
      /\ setmode(ThisCard, NULL, TEXT)
  BY DEF flipaway, Awake
<1>2. CM' = TEXT /\ shown' = Nothing
  BY <1>1 DEF setmode
<1>3. Trusted'
  BY <1>1, TrustedStays DEF Inv
<1>4. PICK c : c = CM
  OBVIOUS
<1>5. c # TEXT => Settled(c)'
  BY <1>1, <1>4, SettledStays DEF Inv, Remembered
<1>6. Remembered'
  BY <1>1, <1>2, <1>4, <1>5 DEF Remembered
<1> QED BY <1>1, <1>2, <1>3, <1>6
        DEF Inv, Typed, Faithful, InGraphics, Awake, CurrentTrue

LEMMA BackInv == ASSUME Wary, Inv, flipback PROVE Inv'
<1>1. /\ flip_mode # NONE /\ flip_mode' = NONE /\ CM = TEXT
      /\ UNCHANGED <<driver, monitor, user>>
  BY DEF flipback, Awake, Inv, Faithful
<1>2. PICK m : m = flip_mode
  OBVIOUS
<1>3. m \in Modes \cup {TEXT} /\ setmode(ThisCard, NULL, m)
  BY <1>1, <1>2 DEF flipback, Inv, Typed
<1>4. m # TEXT => Settled(m) /\ m \in Modes
  BY <1>1, <1>2, <1>3 DEF Inv, Remembered, Awake
<1>5. m # TEXT /\ getmodetiming(ThisCard, NULL, m) # NULL
        => Accepts(ThisCard, getmodetiming(ThisCard, NULL, m), m)
  BY <1>4, NotForced, SettledSound DEF Inv
<1>6. /\ CM' \in Modes \cup {TEXT} /\ (InGraphics' <=> CM' # TEXT)
      /\ CurrentTrue' /\ (CM' # TEXT => Settled(CM)')
  BY <1>1, <1>3, <1>4, <1>5, ModeKeeps DEF Inv
<1>7. Trusted'
  BY <1>1, TrustedStays DEF Inv
<1> QED BY <1>1, <1>6, <1>7
        DEF Inv, Typed, Faithful, Remembered, Awake

LEMMA Guessed ==
  ASSUME user \in Seq(MonitorModeTiming),
         NEW g \in Guesses, vga_guesstiming(g[1], g[2], g[3])
  PROVE  \E t \in MonitorModeTiming :
           /\ Accepted(ThisCard, Clamped(t)) /\ addusertiming(t)
           /\ UNCHANGED <<driver, monitor, current, CM, shown, flip_mode>>
<1> DEFINE x == g[1]
           y == g[2]
           clue == g[3]
           nx == IF clue >= 256 /\ clue < 258 THEN (y * 4) \div 3 ELSE x
           ny == IF clue >= 258 THEN (x * 3) \div 4 ELSE y
           b == find_timing(nx, ny, clue % 2 = 0)
           t == IF clue < 258 THEN Scaled(b, x, y, nx, b.HDisplay)
                ELSE Scaled(b, x, y, y, b.VDisplay)
<1>1. x \in Nat \ {0} /\ y \in Nat \ {0} /\ clue \in Nat
  BY TimingsAssumption
<1>2. nx \in Nat
  BY <1>1
<1>3. /\ b.pixelClock # 0
      /\ Accepted(ThisCard, Clamped(t)) /\ addusertiming(t)
      /\ UNCHANGED <<driver, monitor, current, CM, shown, flip_mode>>
  BY DEF vga_guesstiming
<1>4. b \in MonitorModeTiming
  BY <1>3, FoundProper
<1>5. b.HDisplay \in Nat \ {0} /\ b.VDisplay \in Nat \ {0}
  <2> HIDE DEF b
  <2> QED BY <1>4 DEF MonitorModeTiming
<1>6. t \in MonitorModeTiming
  <2> HIDE DEF b, nx, x, y
  <2> QED BY <1>1, <1>2, <1>4, <1>5, ScaledProper
<1> HIDE DEF t
<1> QED BY <1>3, <1>6

LEMMA GuessInv ==
  ASSUME Inv, NEW g \in Guesses, vga_guesstiming(g[1], g[2], g[3])
  PROVE  Inv'
BY Guessed, ListGrows DEF Inv, Typed

(* The invariant, one action each.                                         *)
LEMMA NextInv == ASSUME Wary, Inv, Next PROVE Inv'
<1>1. ASSUME NEW m \in Modes \cup {TEXT}, vga_setmode(m) PROVE Inv'
  BY <1>1, SetInv
<1>2. ASSUME NEW m \in Modes, vga_hasmode(m) PROVE Inv'
  BY <1>2, HasmodeInv
<1>3. ASSUME NEW t \in Modelines, vga_addtiming(t) PROVE Inv'
  BY <1>3, ListGrows, TimingsAssumption DEF vga_addtiming
<1>4. ASSUME NEW g \in Guesses, vga_guesstiming(g[1], g[2], g[3]) PROVE Inv'
  BY <1>4, GuessInv
<1>5. ASSUME NEW d \in Deltas, vga_changetiming(d) PROVE Inv'
  BY <1>5, ChangeInv
<1>6. ASSUME flipaway PROVE Inv'
  BY <1>6, AwayInv
<1>7. ASSUME flipback PROVE Inv'
  BY <1>7, BackInv
<1> QED BY <1>1, <1>2, <1>3, <1>4, <1>5, <1>6, <1>7 DEF Next

(* In graphics, vga_getcurrenttiming reports the timing that is shown, and *)
(* vga_changetiming starts from it, for every program that keeps away from *)
(* the calls known to fail (CurrentTrue).                                  *)
THEOREM Reported == ASSUME Wary PROVE Spec => []CurrentTrue
<1>1. Inv /\ [Next]_vars => Inv'
  BY NextInv, StutterInv
<1>2. Inv => CurrentTrue
  BY DEF Inv, Faithful
<1> QED BY <1>1, <1>2, InitInv, PTL DEF Spec
(* The list is of timings.                                                 *)
Listed == monitor \in Monitors /\ user \in Seq(MonitorModeTiming)

LEMMA ListedStep == Listed /\ [Next]_vars => Listed'
<1> SUFFICES ASSUME Listed, [Next]_vars PROVE Listed'
  OBVIOUS
<1>1. ASSUME NEW t \in MonitorModeTiming, addusertiming(t), monitor' = monitor
      PROVE  Listed'
  <2>1. Clamped(t) \in MonitorModeTiming
    BY ClampedProper
  <2> QED BY <1>1, <2>1 DEF Listed, addusertiming
<1>2. ASSUME NEW t \in Modelines, vga_addtiming(t) PROVE Listed'
  BY <1>1, <1>2, TimingsAssumption DEF vga_addtiming
<1>3. ASSUME NEW g \in Guesses, vga_guesstiming(g[1], g[2], g[3])
      PROVE  Listed'
  BY <1>1, <1>3, Guessed DEF Listed
<1>4. ASSUME user' = user, monitor' = monitor PROVE Listed'
  BY <1>4 DEF Listed
<1>5. ASSUME NEW m \in Modes \cup {TEXT}, vga_setmode(m) PROVE Listed'
  BY <1>4, <1>5 DEF vga_setmode
<1>6. ASSUME NEW m \in Modes, vga_hasmode(m) PROVE Listed'
  BY <1>4, <1>6 DEF vga_hasmode
<1>7. ASSUME NEW d \in Deltas, vga_changetiming(d) PROVE Listed'
  BY <1>4, <1>7 DEF vga_changetiming
<1>8. ASSUME flipaway \/ flipback PROVE Listed'
  BY <1>4, <1>8 DEF flipaway, flipback
<1>9. CASE UNCHANGED vars
  BY <1>4, <1>9 DEF vars
<1> QED BY <1>2, <1>3, <1>5, <1>6, <1>7, <1>8, <1>9 DEF Next

LEMMA NextChosen ==
  ASSUME Listed, Next, shown' # shown, CM' # TEXT, ~shown'.forced
  PROVE  LET mine == FirstOf(ThisCard, user, CM') IN
         {shown'.timing} = IF mine # {} THEN mine
                           ELSE FirstOf(ThisCard, standard_timings, CM')
<1>1. ASSUME NEW m \in Modes \cup {TEXT}, vga_setmode(m)
      PROVE  setmode(ThisCard, NULL, m)
  BY <1>1 DEF vga_setmode
<1>2. ASSUME NEW d \in Deltas, vga_changetiming(d)
      PROVE  setmode(ThisCard, Sum(current, d), CM)
  BY <1>2 DEF vga_changetiming
<1>3. ASSUME flipaway PROVE setmode(ThisCard, NULL, TEXT)
  BY <1>3 DEF flipaway
<1>4. ASSUME flipback PROVE setmode(ThisCard, NULL, flip_mode)
  BY <1>4 DEF flipback
<1>5. ASSUME NEW m, vga_hasmode(m) PROVE shown' = shown
  BY <1>5 DEF vga_hasmode
<1>6. ASSUME NEW t, vga_addtiming(t) PROVE shown' = shown
  BY <1>6 DEF vga_addtiming
<1>7. ASSUME NEW g \in Guesses, vga_guesstiming(g[1], g[2], g[3])
      PROVE  shown' = shown
  BY <1>7, Guessed DEF Listed
<1>8. \E force, m : setmode(ThisCard, force, m)
  BY <1>1, <1>2, <1>3, <1>4, <1>5, <1>6, <1>7, Zenon DEF Next
<1>9. PICK force, m : setmode(ThisCard, force, m)
  BY <1>8
<1> QED BY <1>9, StepChosen, Zenon DEF Listed

(* A mode set without force shows the first of the timings of the highest  *)
(* clock the card and the monitor take, the user's before the table's,     *)
(* whatever list, card and monitor (Chosen).                               *)
THEOREM HighestClock == Spec => Chosen
<1>1. Init => Listed
  BY TimingsAssumption DEF Init, Listed
<1>2. Listed /\ [Next]_vars =>
        [shown' # shown /\ CM' # TEXT /\ ~shown'.forced =>
           LET mine == FirstOf(ThisCard, user, CM') IN
           {shown'.timing} = IF mine # {} THEN mine
                             ELSE FirstOf(ThisCard, standard_timings, CM')]_vars
  BY NextChosen, Zenon
<1> QED BY <1>1, <1>2, ListedStep, PTL DEF Spec, Chosen
--------------------------------------------------------------------------
(* The timing shown lies in the monitor's range and has the size of the    *)
(* mode, forced or found, and stays so.                                    *)
Suits(t, m) ==
  /\ timing_within_monitor_spec(t)
  /\ <<t.HDisplay, t.VDisplay>> = Resolution(m)
Suitable == InGraphics => Suits(shown.timing, CM)

LEMMA ChosenSuits ==
  ASSUME Listed, NEW card, NEW force, NEW m,
         getmodetiming(card, force, m) # NULL
  PROVE  Suits(getmodetiming(card, force, m), m)
<1>1. ASSUME NEW timings \in Seq(MonitorModeTiming),
             search_mode(card, timings, m) # NULL
      PROVE  Suits(search_mode(card, timings, m), m)
  <2>1. Finds(card, m, timings, Len(timings), search_mode(card, timings, m))
    BY SearchFinds DEF Listed
  <2>2. Usable(card, search_mode(card, timings, m), m)
    BY <1>1, <2>1 DEF Finds
  <2> QED BY <2>2 DEF Usable, Suits
<1>2. CASE Forced(force, m)
  <2>1. getmodetiming(card, force, m) = force
    BY <1>2, ForcedTiming
  <2> QED BY <1>2, <2>1 DEF Forced, Suits
<1>3. CASE ~Forced(force, m)
  BY <1>1, <1>3, Unforced, StandardTimings DEF Listed
<1> QED BY <1>2, <1>3

LEMMA SuitableStep == Listed /\ Suitable /\ [Next]_vars => Suitable'
<1> SUFFICES ASSUME Listed, Suitable, [Next]_vars PROVE Suitable'
  OBVIOUS
<1>1. ASSUME monitor' = monitor, NEW t, NEW m
      PROVE  Suits(t, m)' <=> Suits(t, m)
  BY <1>1 DEF Suits, timing_within_monitor_spec
<1>2. ASSUME UNCHANGED <<monitor, CM, shown>> PROVE Suitable'
  <2>1. PICK t, m : t = shown.timing /\ m = CM
    OBVIOUS
  <2> QED BY <1>1, <1>2, <2>1 DEF Suitable, InGraphics
<1>3. ASSUME monitor' = monitor, NEW force, NEW m,
             setmode(ThisCard, force, m)
      PROVE  Suitable'
  <2>1. PICK t : t = getmodetiming(ThisCard, force, m)
    OBVIOUS
  <2>2. Outcome(ThisCard, force, m, t)
    BY <1>3, <2>1, ModeSet
  <2>3. t # NULL => Suits(t, m)'
    BY <1>1, <1>3, <2>1, ChosenSuits
  <2>4. \/ UNCHANGED <<CM, shown>>
        \/ shown' = Nothing
        \/ CM' = m /\ shown'.timing = t /\ t # NULL
    BY <2>2 DEF Outcome
  <2>5. CASE CM' = m /\ shown'.timing = t /\ t # NULL
    BY <2>3, <2>5 DEF Suitable
  <2>6. CASE shown' = Nothing
    BY <2>6 DEF Suitable, InGraphics
  <2> QED BY <1>2, <1>3, <2>4, <2>5, <2>6
<1>4. ASSUME NEW m \in Modes \cup {TEXT}, vga_setmode(m) PROVE Suitable'
  BY <1>3, <1>4 DEF vga_setmode
<1>5. ASSUME NEW m \in Modes, vga_hasmode(m) PROVE Suitable'
  BY <1>2, <1>5 DEF vga_hasmode
<1>6. ASSUME NEW t \in Modelines, vga_addtiming(t) PROVE Suitable'
  BY <1>2, <1>6 DEF vga_addtiming
<1>7. ASSUME NEW g \in Guesses, vga_guesstiming(g[1], g[2], g[3])
      PROVE  Suitable'
  BY <1>2, <1>7 DEF vga_guesstiming
<1>8. ASSUME NEW d \in Deltas, vga_changetiming(d) PROVE Suitable'
  BY <1>3, <1>8 DEF vga_changetiming
<1>9. ASSUME flipaway PROVE Suitable'
  BY <1>3, <1>9 DEF flipaway
<1>10. ASSUME flipback PROVE Suitable'
  BY <1>3, <1>10 DEF flipback
<1>11. CASE UNCHANGED vars
  BY <1>2, <1>11 DEF vars
<1> QED BY <1>4, <1>5, <1>6, <1>7, <1>8, <1>9, <1>10, <1>11 DEF Next

(* No call and no order of calls shows a timing that leaves the monitor's  *)
(* range or draws another size than the mode's (timing_within_monitor_spec *)
(* in getmodetiming).                                                      *)
THEOREM WithinMonitor == Spec => []Suitable
<1>1. Init => Listed /\ Suitable
  BY TimingsAssumption DEF Init, Listed, Suitable, InGraphics
<1> QED BY <1>1, ListedStep, SuitableStep, PTL DEF Spec
==========================================================================
