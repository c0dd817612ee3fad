---------------------------- MODULE DrawingProofs ----------------------------
(***************************************************************************)
(* The accelerator of a gentle program, for any boxes, bitmaps, queue and  *)
(* number of calls, and signals at any step: the engine works behind       *)
(* nobody's back, no lock is lost or kept, and no wait is for an engine    *)
(* that waits for the program.                                             *)
(*                                                                         *)
(* todo is a program of its own, which a signal may lengthen at any step.  *)
(* The invariant follows it to its end: from what is known of the lock,    *)
(* the blitter and the console now (Matches), its steps are allowed one    *)
(* after the other (Leads) and end in a state of rest or in death          *)
(* (Resting).                                                              *)
(*                                                                         *)
(* Then the lines of vgagl, for any two points and any window: the walk is *)
(* half a pixel off the line at most after each step (Near), and clipping, *)
(* turn by turn (Stage), moves its ends off the line by no more than one   *)
(* truncated division can.                                                 *)
(***************************************************************************)
EXTENDS Drawing, SequenceTheorems, FiniteSetTheorems, TLAPS

-----------------------------------------------------------------------------
(* Sequences of steps.                                                     *)
IsSeq(s) == \E S : s \in Seq(S)

LEMMA SeqOne ==
  ASSUME NEW x
  PROVE  IsSeq(<<x>>) /\ Len(<<x>>) = 1 /\ <<x>>[1] = x
<1>1. <<x>> \in Seq({x})
  OBVIOUS
<1>2. IsSeq(<<x>>)
  BY <1>1, Zenon DEF IsSeq
<1> QED BY <1>2

LEMMA SeqJoin ==
  ASSUME NEW s, IsSeq(s), NEW t, IsSeq(t)
  PROVE  /\ IsSeq(s \o t) /\ Len(s) \in Nat /\ Len(t) \in Nat
         /\ Len(s \o t) = Len(s) + Len(t)
         /\ \A i \in 1..(Len(s) + Len(t)) :
              (s \o t)[i] = IF i <= Len(s) THEN s[i] ELSE t[i - Len(s)]
<1>1. PICK A, B : s \in Seq(A) /\ t \in Seq(B)
  BY DEF IsSeq
<1> DEFINE S == A \cup B
<1>2. s \in Seq(S) /\ t \in Seq(S)
  BY <1>1
<1> HIDE DEF S
<1>3. /\ s \o t \in Seq(S)
      /\ Len(s \o t) = Len(s) + Len(t)
      /\ \A i \in 1..(Len(s) + Len(t)) :
           (s \o t)[i] = IF i <= Len(s) THEN s[i] ELSE t[i - Len(s)]
  BY <1>2, ConcatProperties
<1>4. IsSeq(s \o t)
  BY <1>3, Zenon DEF IsSeq
<1> QED BY <1>2, <1>3, <1>4

LEMMA SeqTail ==
  ASSUME NEW s, IsSeq(s), s # <<>>
  PROVE  /\ Len(s) \in Nat \ {0} /\ Head(s) = s[1]
         /\ IsSeq(Tail(s)) /\ Len(Tail(s)) = Len(s) - 1
         /\ \A i \in 1..(Len(s) - 1) : Tail(s)[i] = s[i + 1]
<1>1. PICK S : s \in Seq(S)
  BY DEF IsSeq
<1>2. Tail(s) \in Seq(S)
  BY <1>1
<1>3. IsSeq(Tail(s))
  BY <1>2, Zenon DEF IsSeq
<1> QED BY <1>1, <1>3

-----------------------------------------------------------------------------
(* What is known before each step of todo: the program dead or not, the    *)
(* console's locks, CRITICAL (busy), the background mode (behind), that    *)
(* the engine has finished (done) or waits for data (hungry), whether the  *)
(* blit in the registers is a bitmap, and the console away or not.         *)
State == [dead : BOOLEAN, locks : Nat, busy : BOOLEAN, behind : BOOLEAN,
          done : BOOLEAN, bitmap : BOOLEAN, hungry : BOOLEAN, away : BOOLEAN]

Sound(D, O, v) ==
  \/ v.dead
  \/ /\ IF D = "mach32" THEN v.busy \/ v.done ELSE ~v.busy
     /\ v.busy /\ v.locks = 0 => O = 0
     /\ v.away => v.done
     /\ v.hungry => v.locks > 0 /\ D # "mach32"

(* The steps a driver may take from there.                                 *)
Allowed(D, O, x, v) ==
  \/ v.dead
  \/ /\ v.hungry => x[1] = "feed"
     /\ v.away <=> x[1] = "back"
     /\ x[1] \in {"finish", "settle", "block", "unblock"} => D # "mach32"
     /\ x[1] \in {"critical", "seize", "extended", "standard", "sync", "leave"} =>
          D = "mach32"
     /\ x[1] \in {"put", "start", "feed", "extended", "standard"} =>
          (D = "mach32" => v.busy)
     /\ x[1] = "note" /\ "background" \in DOMAIN x[2] => x[2].background \in BOOLEAN
     /\ x[1] = "critical" => v.locks >= O
     /\ x[1] = "unlock" /\ D = "mach32" /\ v.locks <= 1 => ~v.busy
     /\ x[1] = "away" => v.done \/ D = "mach32"
     /\ x[1] = "die" => v.done

Less(n) == IF n > 0 THEN n - 1 ELSE 0

(* What a step makes of it. That the engine is done may be forgotten.      *)
LocksAfter(x, v) ==
  IF x[1] = "lock" \/ (x[1] = "critical" /\ ~v.busy) THEN v.locks + 1
  ELSE IF \/ x[1] = "unlock" \/ (x[1] = "sync" /\ v.busy)
          \/ x[1] = "leave" /\ ~v.behind
  THEN Less(v.locks) ELSE v.locks

Makes(D, x, v, u) ==
  /\ u.dead <=> x[1] = "die"
  /\ u.locks = LocksAfter(x, v)
  /\ u.busy <=> \/ x[1] \in {"critical", "seize"}
                \/ v.busy /\ x[1] \notin {"wait", "sync"} /\ (x[1] = "leave" => v.behind)
  /\ u.behind <=> IF x[1] = "note" /\ "background" \in DOMAIN x[2]
                  THEN x[2].background ELSE v.behind
  /\ u.done => \/ x[1] \in {"wait", "away"} \/ (x[1] = "sync" /\ v.busy)
               \/ x[1] = "leave" /\ ~v.behind
               \/ v.done /\ x[1] \notin {"put", "start", "feed", "extended", "standard"}
  /\ u.bitmap <=> IF D # "mach32" /\ x[1] = "put" /\ "blit" \in DOMAIN x[2]
                  THEN x[2].blit.kind = "bitmap" ELSE v.bitmap
  /\ u.hungry <=> \/ x[1] = "start" /\ D # "mach32" /\ v.bitmap
                  \/ x[1] # "feed" /\ v.hungry
  /\ u.away <=> \/ x[1] = "away"
                \/ x[1] # "back" /\ v.away

Follows(D, O, x, v, u) ==
  /\ v \in State /\ Sound(D, O, v) /\ Allowed(D, O, x, v)
  /\ u \in State /\ Sound(D, O, u)
  /\ IF v.dead THEN u.dead ELSE Makes(D, x, v, u)

(* The steps s lead from v to u.                                           *)
Leads(D, O, s, v, u) ==
  /\ IsSeq(s)
  /\ \E w : /\ w[0] = v /\ w[Len(s)] = u
            /\ \A i \in 1..Len(s) : Follows(D, O, s[i], w[i - 1], w[i])

LEMMA LeadsEmpty ==
  ASSUME NEW D, NEW O, NEW v PROVE Leads(D, O, <<>>, v, v)
<1> DEFINE w == [i \in {0} |-> v]
<1>1. w[0] = v /\ w[Len(<<>>)] = v /\ \A i \in 1..Len(<<>>) : FALSE
  OBVIOUS
<1>2. <<>> \in Seq({})
  OBVIOUS
<1>3. IsSeq(<<>>)
  BY <1>2, Zenon DEF IsSeq
<1> HIDE DEF w
<1> QED BY <1>1, <1>3 DEF Leads

LEMMA LeadsNowhere ==
  ASSUME NEW D, NEW O, NEW v, NEW u, Leads(D, O, <<>>, v, u) PROVE v = u
BY DEF Leads

LEMMA LeadsOne ==
  ASSUME NEW D, NEW O, NEW x, NEW v, NEW u, Follows(D, O, x, v, u)
  PROVE  Leads(D, O, <<x>>, v, u)
<1> DEFINE w == [i \in {0, 1} |-> IF i = 0 THEN v ELSE u]
<1>1. w[0] = v /\ w[1] = u
  OBVIOUS
<1>2. IsSeq(<<x>>) /\ Len(<<x>>) = 1 /\ <<x>>[1] = x
  BY SeqOne
<1> HIDE DEF w
<1>3. \A i \in 1..Len(<<x>>) : Follows(D, O, <<x>>[i], w[i - 1], w[i])
  BY <1>1, <1>2
<1> QED BY <1>1, <1>2, <1>3 DEF Leads

LEMMA LeadsOn ==
  ASSUME NEW D, NEW O, NEW s, NEW v, NEW u, Leads(D, O, s, v, u), s # <<>>
  PROVE  \E w : Follows(D, O, Head(s), v, w) /\ Leads(D, O, Tail(s), w, u)
<1>1. PICK w : /\ w[0] = v /\ w[Len(s)] = u
               /\ \A i \in 1..Len(s) : Follows(D, O, s[i], w[i - 1], w[i])
  BY DEF Leads
<1>2. IsSeq(s)
  BY DEF Leads
<1> DEFINE z == [i \in 0..(Len(s) - 1) |-> w[i + 1]]
<1>3. /\ Len(s) \in Nat \ {0} /\ Head(s) = s[1]
      /\ IsSeq(Tail(s)) /\ Len(Tail(s)) = Len(s) - 1
      /\ \A i \in 1..(Len(s) - 1) : Tail(s)[i] = s[i + 1]
  BY <1>2, SeqTail
<1>4. z[0] = w[1] /\ z[Len(s) - 1] = u
  BY <1>1, <1>3
<1>5. ASSUME NEW i \in 1..(Len(s) - 1)
      PROVE  Follows(D, O, Tail(s)[i], z[i - 1], z[i])
  <2>1. z[i] = w[i + 1] /\ z[i - 1] = w[i] /\ i + 1 \in 1..Len(s) /\ (i + 1) - 1 = i
    BY <1>3
  <2>2. Tail(s)[i] = s[i + 1]
    BY <1>3
  <2> HIDE DEF z
  <2>3. Follows(D, O, s[i + 1], w[(i + 1) - 1], w[i + 1])
    BY <1>1, <2>1, Zenon
  <2> QED BY <2>1, <2>2, <2>3
<1> HIDE DEF z
<1>6. Leads(D, O, Tail(s), w[1], u)
  BY <1>3, <1>4, <1>5 DEF Leads
<1>7. 1 \in 1..Len(s) /\ 1 - 1 = 0
  BY <1>3
<1>8. Follows(D, O, s[1], w[1 - 1], w[1])
  BY <1>1, <1>7, Zenon
<1>9. Follows(D, O, Head(s), v, w[1])
  BY <1>1, <1>3, <1>7, <1>8
<1> QED BY <1>6, <1>9

LEMMA LeadsJoin ==
  ASSUME NEW D, NEW O, NEW s, NEW t, NEW v, NEW w, NEW u,
         Leads(D, O, s, v, w), Leads(D, O, t, w, u)
  PROVE  Leads(D, O, s \o t, v, u)
<1>1. IsSeq(s) /\ IsSeq(t)
  BY DEF Leads
<1>2. PICK a : /\ a[0] = v /\ a[Len(s)] = w
               /\ \A i \in 1..Len(s) : Follows(D, O, s[i], a[i - 1], a[i])
  BY DEF Leads
<1>3. PICK b : /\ b[0] = w /\ b[Len(t)] = u
               /\ \A i \in 1..Len(t) : Follows(D, O, t[i], b[i - 1], b[i])
  BY DEF Leads
<1> DEFINE n == Len(s)  m == Len(t)
           z == [i \in 0..(n + m) |-> IF i <= n THEN a[i] ELSE b[i - n]]
<1>4. /\ IsSeq(s \o t) /\ n \in Nat /\ m \in Nat /\ Len(s \o t) = n + m
      /\ \A i \in 1..(n + m) : (s \o t)[i] = IF i <= n THEN s[i] ELSE t[i - n]
  BY <1>1, SeqJoin
<1>5. /\ \A i \in 0..n : z[i] = a[i]
      /\ \A i \in 0..m : z[i + n] = b[i]
  BY <1>2, <1>3, <1>4
<1>6. ASSUME NEW i \in 1..(n + m)
      PROVE  Follows(D, O, (s \o t)[i], z[i - 1], z[i])
  <2>1. CASE i <= n
    <3>1. i \in 1..n /\ i \in 0..n /\ i - 1 \in 0..n
      BY <1>4, <2>1
    <3>2. z[i] = a[i] /\ z[i - 1] = a[i - 1] /\ (s \o t)[i] = s[i]
      BY <1>4, <1>5, <2>1, <3>1
    <3> QED BY <1>2, <3>1, <3>2
  <2>2. CASE ~(i <= n)
    <3> DEFINE j == i - n
    <3>1. j \in 1..m /\ j \in 0..m /\ j - 1 \in 0..m /\ j + n = i /\ (j - 1) + n = i - 1
      BY <1>4, <2>2
    <3>2. (s \o t)[i] = t[j]
      BY <1>4, <2>2
    <3> HIDE DEF j, z
    <3>3. z[i] = b[j] /\ z[i - 1] = b[j - 1]
      BY <1>5, <3>1
    <3> QED BY <1>3, <3>1, <3>2, <3>3
  <2> QED BY <2>1, <2>2
<1>7. z[0] = v /\ z[n + m] = u
  <2>1. 0 \in 0..n /\ m \in 0..m /\ m + n = n + m
    BY <1>4
  <2> HIDE DEF z
  <2> QED BY <1>2, <1>3, <1>5, <2>1
<1> HIDE DEF z
<1> QED BY <1>4, <1>6, <1>7 DEF Leads
-----------------------------------------------------------------------------
(* What is known agrees with the state; the rest of todo leads to rest.    *)
Matches(v) ==
  /\ v \in State /\ Sound(driver, own, v) /\ ~v.dead
  /\ v.locks = lock_count /\ v.busy = CRITICAL
  /\ driver = "mach32" => v.behind = soft.background
  /\ v.done => Finished
  /\ driver # "mach32" => /\ v.bitmap = (chip.blit.kind = "bitmap")
                          /\ engine = "hungry" => v.hungry
  /\ v.away = (front = "other")

Resting(O, u) ==
  \/ u.dead
  \/ ~u.hungry /\ ~u.away /\ u.locks = O + (IF u.busy THEN 1 ELSE 0)

(* A bitmap's data are followed by the end of the signals' block, and no   *)
(* other begins.                                                           *)
Fed(s) ==
  \A i \in 1..Len(s) : s[i][1] = "feed" =>
    /\ \E j \in (i + 1)..Len(s) : s[j][1] = "unblock"
    /\ \A j \in (i + 1)..Len(s) : s[j][1] # "block"

Base ==
  /\ driver \in AllDrivers /\ own \in {0, 1} /\ IsSeq(todo)
  /\ front \in {"ours", "other", "dead"}
  /\ "background" \in DOMAIN soft /\ soft.background \in BOOLEAN
  /\ driver # "mach32" => "blit" \in DOMAIN chip /\ queue = <<>> /\ Fed(todo)
  /\ front = "dead" => Finished

Course ==
  front # "dead" =>
    \E v, u : Matches(v) /\ Leads(driver, own, todo, v, u) /\ Resting(own, u)

AccelInv == Base /\ Course

-----------------------------------------------------------------------------
(* The steps that are done as they are.                                    *)
LEMMA StillSound ==
  ASSUME UNCHANGED <<driver, own>>, NEW v PROVE Sound(driver, own, v) => Sound(driver, own, v)'
BY DEF Sound

LEMMA PutMatches ==
  ASSUME Base, DoPut, NEW v, NEW w, Matches(v), Follows(driver, own, Head(todo), v, w)
  PROVE  Matches(w)'
<1> DEFINE x == Head(todo)
<1>1. /\ x[1] = "put" /\ UNCHANGED <<driver, own, lock_count, CRITICAL, soft, front, engine>>
      /\ driver # "mach32" => chip' = Updated(chip, x[2])
  BY DEF DoPut, Doing, Operand
<1>2. driver # "mach32" =>
        chip'.blit = IF "blit" \in DOMAIN x[2] THEN x[2].blit ELSE chip.blit
  BY <1>1 DEF Updated, Base
<1>3. Follows(driver, own, x, v, w)
  OBVIOUS
<1> HIDE DEF x
<1>4. Sound(driver, own, w)'
  BY <1>1, <1>3, StillSound DEF Follows
<1> QED BY <1>1, <1>2, <1>3, <1>4 DEF Matches, Follows, Makes, LocksAfter, State

LEMMA StartMatches ==
  ASSUME Base, DoStart, NEW v, NEW w, Matches(v), Follows(driver, own, Head(todo), v, w)
  PROVE  Matches(w)'
<1> DEFINE x == Head(todo)
<1>1. /\ x[1] = "start" /\ UNCHANGED <<driver, own, lock_count, CRITICAL, soft, front, chip>>
      /\ driver # "mach32" => engine' = Started(chip.blit)
  BY DEF DoStart, Doing
<1>3. Follows(driver, own, x, v, w)
  OBVIOUS
<1> HIDE DEF x
<1>4. Sound(driver, own, w)'
  BY <1>1, <1>3, StillSound DEF Follows
<1> QED BY <1>1, <1>3, <1>4 DEF Matches, Follows, Makes, LocksAfter, State, Started

LEMMA FeedMatches ==
  ASSUME Base, DoFeed, NEW v, NEW w, Matches(v), Follows(driver, own, Head(todo), v, w)
  PROVE  Matches(w)'
<1> DEFINE x == Head(todo)
<1>1. /\ x[1] = "feed" /\ UNCHANGED <<driver, own, lock_count, CRITICAL, soft, front, chip>>
      /\ engine' = "running"
  BY DEF DoFeed, Doing
<1>3. Follows(driver, own, x, v, w)
  OBVIOUS
<1> HIDE DEF x
<1>4. Sound(driver, own, w)'
  BY <1>1, <1>3, StillSound DEF Follows
<1> QED BY <1>1, <1>3, <1>4 DEF Matches, Follows, Makes, LocksAfter, State

LEMMA NoteMatches ==
  ASSUME Base, DoNote, NEW v, NEW w, Matches(v), Follows(driver, own, Head(todo), v, w)
  PROVE  Matches(w)'
<1> DEFINE x == Head(todo)
<1>1. /\ x[1] = "note" /\ soft' = Updated(soft, x[2])
      /\ UNCHANGED <<driver, own, lock_count, CRITICAL, front, chip, engine, queue>>
  BY DEF DoNote, Doing, Operand
<1>2. soft'.background =
        IF "background" \in DOMAIN x[2] THEN x[2].background ELSE soft.background
  BY <1>1 DEF Updated, Base
<1>3. Follows(driver, own, x, v, w)
  OBVIOUS
<1> HIDE DEF x
<1>4. Sound(driver, own, w)'
  BY <1>1, <1>3, StillSound DEF Follows
<1>5. Finished' = Finished
  BY <1>1 DEF Finished
<1> QED BY <1>1, <1>2, <1>3, <1>4, <1>5
        DEF Matches, Follows, Allowed, Makes, LocksAfter, State

LEMMA WaitMatches ==
  ASSUME Base, DoWait, NEW v, NEW w, Matches(v), Follows(driver, own, Head(todo), v, w)
  PROVE  Matches(w)'
<1> DEFINE x == Head(todo)
<1>1. /\ x[1] = "wait" /\ UNCHANGED <<driver, own, lock_count, soft, front, chip>>
      /\ CRITICAL' = (CRITICAL /\ driver # "mach32")
      /\ driver # "mach32" => engine' = engine
  BY DEF DoWait, Doing
<1>2. Finished'
  BY DEF DoWait, Finished
<1>3. Follows(driver, own, x, v, w)
  OBVIOUS
<1> HIDE DEF x
<1>4. Sound(driver, own, w)'
  BY <1>1, <1>3, StillSound DEF Follows
<1>5. CRITICAL' = FALSE /\ w.busy = FALSE
  BY <1>1, <1>3 DEF Matches, Sound, Follows, Makes, State
<1> QED BY <1>1, <1>2, <1>3, <1>4, <1>5
        DEF Matches, Follows, Makes, LocksAfter, State

LEMMA LockMatches ==
  ASSUME Base, vga_lockvc, NEW v, NEW w, Matches(v), Follows(driver, own, Head(todo), v, w)
  PROVE  Matches(w)'
<1> DEFINE x == Head(todo)
<1>1. /\ x[1] = "lock" /\ lock_count' = lock_count + 1
      /\ UNCHANGED <<driver, own, CRITICAL, soft, front, chip, engine, queue>>
  BY DEF vga_lockvc, Doing
<1>3. Follows(driver, own, x, v, w)
  OBVIOUS
<1> HIDE DEF x
<1>4. Sound(driver, own, w)'
  BY <1>1, <1>3, StillSound DEF Follows
<1>5. Finished' = Finished
  BY <1>1 DEF Finished
<1> QED BY <1>1, <1>3, <1>4, <1>5 DEF Matches, Follows, Makes, LocksAfter, State

LEMMA AwayMatches ==
  ASSUME Base, Away, NEW v, NEW w, Matches(v), Follows(driver, own, Head(todo), v, w)
  PROVE  Matches(w)'
<1> DEFINE x == Head(todo)
<1>1. /\ x[1] = "away" /\ front' = "other" /\ (driver = "mach32" => Finished)
      /\ UNCHANGED <<driver, own, CRITICAL, lock_count, soft, chip, engine, queue>>
  BY DEF Away, Doing
<1>3. Follows(driver, own, x, v, w)
  OBVIOUS
<1> HIDE DEF x
<1>4. Sound(driver, own, w)'
  BY <1>1, <1>3, StillSound DEF Follows
<1>5. Finished' = Finished
  BY <1>1 DEF Finished
<1>6. Finished
  BY <1>1, <1>3 DEF Matches, Follows, Allowed
<1> QED BY <1>1, <1>3, <1>4, <1>5, <1>6 DEF Matches, Follows, Makes, LocksAfter, State

LEMMA BackMatches ==
  ASSUME Base, Back, NEW v, NEW w, Matches(v), Follows(driver, own, Head(todo), v, w)
  PROVE  Matches(w)'
<1> DEFINE x == Head(todo)
<1>1. /\ x[1] = "back" /\ front' = "ours"
      /\ \E c, rop : chip' = Updated(chip, Initialised(c, rop))
      /\ soft' = [soft EXCEPT !.background = @ /\ driver = "mach32"]
      /\ UNCHANGED <<driver, own, CRITICAL, lock_count, engine, queue>>
  BY DEF Back, Doing
<1>2. driver # "mach32" => chip'.blit = chip.blit
  <2>1. PICK c, rop : chip' = Updated(chip, Initialised(c, rop))
    BY <1>1
  <2>2. DOMAIN Initialised(c, rop) = {"fg", "bg", "mix", "alu", "balu"}
    BY DEF Initialised
  <2> QED BY <2>1, <2>2 DEF Updated, Base
<1>3. Follows(driver, own, x, v, w)
  OBVIOUS
<1>7. driver = "mach32" => soft'.background = soft.background
  BY <1>1 DEF Base
<1> HIDE DEF x
<1>4. Sound(driver, own, w)'
  BY <1>1, <1>3, StillSound DEF Follows
<1>5. Finished' = Finished
  BY <1>1 DEF Finished
<1> QED BY <1>1, <1>2, <1>3, <1>4, <1>5, <1>7
        DEF Matches, Follows, Makes, LocksAfter, State

-----------------------------------------------------------------------------
(* The steps that put others in their place.                               *)
LEMMA Step ==
  ASSUME NEW D, NEW O, NEW x, NEW v \in State, ~v.dead, Sound(D, O, v), Allowed(D, O, x, v),
         NEW u \in State, Sound(D, O, u), Makes(D, x, v, u)
  PROVE  Leads(D, O, <<x>>, v, u)
BY LeadsOne DEF Follows

(* But for the lock and the engine, all is as it was.                      *)
Alike(v, u) ==
  /\ v \in State /\ u \in State
  /\ u.dead = v.dead /\ u.behind = v.behind /\ u.bitmap = v.bitmap
  /\ u.hungry = v.hungry /\ u.away = v.away

LEMMA WaitLeads ==
  ASSUME NEW D, NEW O, NEW v, ~v.dead, ~v.hungry, ~v.away, NEW u, Alike(v, u),
         u.locks = v.locks, ~u.busy, Sound(D, O, v), Sound(D, O, u)
  PROVE  Leads(D, O, WAITUNTILFINISHED, v, u)
<1> DEFINE x == <<"wait">>
<1>1. x[1] = "wait"
  OBVIOUS
<1> HIDE DEF x
<1>2. Allowed(D, O, x, v)
  BY <1>1 DEF Allowed
<1>3. Makes(D, x, v, u)
  BY <1>1 DEF Makes, LocksAfter, State, Alike
<1>4. Leads(D, O, <<x>>, v, u)
  BY <1>2, <1>3, Step DEF Alike
<1> QED BY <1>4 DEF x, WAITUNTILFINISHED

LEMMA UnlockLeads ==
  ASSUME NEW D, NEW O, NEW v, ~v.dead, ~v.hungry, ~v.away, NEW u, Alike(v, u),
         u.locks = Less(v.locks), u.busy = v.busy, u.done => v.done,
         D = "mach32" /\ v.locks <= 1 => ~v.busy, Sound(D, O, v), Sound(D, O, u)
  PROVE  Leads(D, O, Unlock, v, u)
<1> DEFINE x == <<"unlock">>
<1>1. x[1] = "unlock"
  OBVIOUS
<1> HIDE DEF x
<1>2. Allowed(D, O, x, v)
  BY <1>1 DEF Allowed
<1>3. Makes(D, x, v, u)
  BY <1>1 DEF Makes, LocksAfter, State, Alike
<1>4. Leads(D, O, <<x>>, v, u)
  BY <1>2, <1>3, Step DEF Alike
<1> QED BY <1>4 DEF x, Unlock

LEMMA LockLeads ==
  ASSUME NEW D, NEW O, NEW v, ~v.dead, ~v.hungry, ~v.away, NEW u, Alike(v, u),
         u.locks = v.locks + 1, u.busy = v.busy, u.done => v.done,
         Sound(D, O, v), Sound(D, O, u)
  PROVE  Leads(D, O, Lock, v, u)
<1> DEFINE x == <<"lock">>
<1>1. x[1] = "lock"
  OBVIOUS
<1> HIDE DEF x
<1>2. Allowed(D, O, x, v)
  BY <1>1 DEF Allowed
<1>3. Makes(D, x, v, u)
  BY <1>1 DEF Makes, LocksAfter, State, Alike
<1>4. Leads(D, O, <<x>>, v, u)
  BY <1>2, <1>3, Step DEF Alike
<1> QED BY <1>4 DEF x, Lock

LEMMA ReleaseLeads ==
  ASSUME NEW D, NEW O, NEW v, ~v.dead, ~v.hungry, ~v.away, NEW u, Alike(v, u),
         u.locks = Less(v.locks), ~u.busy, Sound(D, O, v), Sound(D, O, u)
  PROVE  Leads(D, O, WAITUNTILFINISHED \o Unlock, v, u)
<1> DEFINE w == [v EXCEPT !.done = TRUE, !.busy = FALSE]
<1>1. /\ w \in State /\ Alike(v, w) /\ Alike(w, u) /\ ~w.dead /\ ~w.hungry /\ ~w.away
      /\ ~w.busy /\ w.done /\ w.locks = v.locks
  BY DEF State, Alike
<1> HIDE DEF w
<1>2. Sound(D, O, w)
  BY <1>1 DEF Sound
<1>3. Leads(D, O, WAITUNTILFINISHED, v, w)
  BY <1>1, <1>2, WaitLeads
<1>4. u.busy = w.busy
  BY <1>1 DEF Alike, State
<1>5. Leads(D, O, Unlock, w, u)
  BY <1>1, <1>2, <1>4, UnlockLeads
<1> QED BY <1>3, <1>5, LeadsJoin

(* The steps now before the program lead where those before did.           *)
Lasting(w) ==
  \E v : /\ Matches(v)'
         /\ \A u : Leads(driver, own, Tail(todo), w, u) => Leads(driver, own, todo', v, u)

LEMMA Simply ==
  ASSUME NEW w, Matches(w)', todo' = Tail(todo) PROVE Lasting(w)
BY DEF Lasting

LEMMA Inserted ==
  ASSUME NEW s, Instead(s), NEW v, Matches(v)', NEW w, Leads(driver, own, s, v, w)
  PROVE  Lasting(w)
<1>1. ASSUME NEW u, Leads(driver, own, Tail(todo), w, u)
      PROVE  Leads(driver, own, todo', v, u)
  <2>1. Leads(driver, own, s \o Tail(todo), v, u)
    BY <1>1, LeadsJoin
  <2> QED BY <2>1 DEF Instead
<1> QED BY <1>1 DEF Lasting

LEMMA LockedMatches ==
  ASSUME NEW v, NEW w, Matches(v), Alike(v, w), w.locks = lock_count', w.busy = CRITICAL',
         w.done => v.done, Sound(driver, own, w),
         UNCHANGED <<driver, own, soft, front, chip, engine, queue>>
  PROVE  Matches(w)'
<1>1. Sound(driver, own, w)'
  BY StillSound
<1>2. Finished' = Finished
  BY DEF Finished
<1> QED BY <1>1, <1>2 DEF Matches, Alike

LEMMA AlikeMatches ==
  ASSUME NEW v, NEW w, Matches(v), Alike(v, w), w.locks = v.locks, w.busy = v.busy,
         w.done => v.done, Sound(driver, own, w),
         UNCHANGED <<driver, own, lock_count, CRITICAL, soft, front, chip, engine, queue>>
  PROVE  Matches(w)'
<1>1. w.locks = lock_count' /\ w.busy = CRITICAL'
  BY DEF Matches
<1> QED BY <1>1, LockedMatches

LEMMA BranchKept ==
  ASSUME Base, DoBranch, NEW v, NEW w, Matches(v), Follows(driver, own, Head(todo), v, w)
  PROVE  Lasting(w)
<1> DEFINE x == Head(todo)
<1>1. Follows(driver, own, x, v, w) /\ ~v.dead
  BY DEF Matches
<1>2. UNCHANGED <<driver, own, lock_count, CRITICAL, soft, front, chip, engine, queue>>
  BY DEF DoBranch
<1>3. v \in State /\ w \in State /\ Sound(driver, own, v) /\ Sound(driver, own, w)
  BY <1>1 DEF Follows
<1>4. Alike(v, v) /\ (v.done => v.done) /\ v.locks = v.locks /\ v.busy = v.busy
  BY <1>3 DEF Alike
<1>5. Matches(v)'
  BY <1>2, <1>3, <1>4, AlikeMatches
<1>6. Instead(<<>>) /\ Matches(w)' => Lasting(w)
  BY Inserted, LeadsEmpty
<1>7. CASE Doing("finish") /\ Instead(IF soft.background THEN WAITUNTILFINISHED ELSE <<>>)
  <2>1. x[1] = "finish"
    BY <1>7 DEF Doing
  <2> HIDE DEF x
  <2>2. /\ Alike(v, w) /\ w.locks = v.locks /\ w.busy = v.busy /\ (w.done => v.done)
        /\ ~v.hungry /\ ~v.away /\ ~w.busy
    BY <1>1, <1>3, <2>1 DEF Follows, Makes, Allowed, Alike, LocksAfter, State, Sound
  <2>3. Matches(w)'
    BY <1>2, <1>3, <2>2, AlikeMatches
  <2>4. Leads(driver, own, WAITUNTILFINISHED, v, w)
    BY <1>1, <1>3, <2>2, WaitLeads
  <2> QED BY <1>5, <1>6, <1>7, <2>3, <2>4, Inserted
<1>8. CASE Doing("settle") /\ Instead(IF soft.background THEN <<>> ELSE WAITUNTILFINISHED)
  <2>1. x[1] = "settle"
    BY <1>8 DEF Doing
  <2> HIDE DEF x
  <2>2. /\ Alike(v, w) /\ w.locks = v.locks /\ w.busy = v.busy /\ (w.done => v.done)
        /\ ~v.hungry /\ ~v.away /\ ~w.busy
    BY <1>1, <1>3, <2>1 DEF Follows, Makes, Allowed, Alike, LocksAfter, State, Sound
  <2>3. Matches(w)'
    BY <1>2, <1>3, <2>2, AlikeMatches
  <2>4. Leads(driver, own, WAITUNTILFINISHED, v, w)
    BY <1>1, <1>3, <2>2, WaitLeads
  <2> QED BY <1>5, <1>6, <1>8, <2>3, <2>4, Inserted
<1>9. CASE Doing("sync") /\ Instead(IF CRITICAL THEN WAITUNTILFINISHED \o Unlock ELSE <<>>)
  <2>1. x[1] = "sync"
    BY <1>9 DEF Doing
  <2> HIDE DEF x
  <2>2. Alike(v, w) /\ ~v.hungry /\ ~v.away
    BY <1>1, <1>3, <2>1 DEF Follows, Makes, Allowed, Alike, State
  <2>3. CASE CRITICAL
    <3>1. w.locks = Less(v.locks) /\ ~w.busy
      BY <1>1, <2>1, <2>3 DEF Follows, Makes, LocksAfter, Matches
    <3>2. Leads(driver, own, WAITUNTILFINISHED \o Unlock, v, w)
      BY <1>1, <1>3, <2>2, <3>1, ReleaseLeads
    <3> QED BY <1>5, <1>9, <2>3, <3>2, Inserted
  <2>4. CASE ~CRITICAL
    <3>1. w.locks = v.locks /\ w.busy = v.busy /\ (w.done => v.done)
      BY <1>1, <1>3, <2>1, <2>4 DEF Follows, Makes, LocksAfter, Matches, State
    <3>2. Matches(w)'
      BY <1>2, <1>3, <2>2, <3>1, AlikeMatches
    <3> QED BY <1>6, <1>9, <2>4, <3>2
  <2> QED BY <2>3, <2>4
<1>10. CASE /\ Doing("leave")
            /\ Instead(IF soft.background THEN <<>> ELSE WAITUNTILFINISHED \o Unlock)
  <2>1. x[1] = "leave"
    BY <1>10 DEF Doing
  <2> HIDE DEF x
  <2>2. Alike(v, w) /\ ~v.hungry /\ ~v.away /\ v.behind = soft.background
    BY <1>1, <1>3, <2>1 DEF Follows, Makes, Allowed, Alike, State, Matches
  <2>3. CASE ~soft.background
    <3>1. w.locks = Less(v.locks) /\ ~w.busy
      BY <1>1, <2>1, <2>2, <2>3 DEF Follows, Makes, LocksAfter, Matches
    <3>2. Leads(driver, own, WAITUNTILFINISHED \o Unlock, v, w)
      BY <1>1, <1>3, <2>2, <3>1, ReleaseLeads
    <3> QED BY <1>5, <1>10, <2>3, <3>2, Inserted
  <2>4. CASE soft.background
    <3>1. w.locks = v.locks /\ w.busy = v.busy /\ (w.done => v.done)
      BY <1>1, <1>3, <2>1, <2>2, <2>4 DEF Follows, Makes, LocksAfter, Matches, State
    <3>2. Matches(w)'
      BY <1>2, <1>3, <2>2, <3>1, AlikeMatches
    <3> QED BY <1>6, <1>10, <2>4, <3>2
  <2> QED BY <2>3, <2>4
<1>11. CASE (Doing("block") \/ Doing("unblock")) /\ Done
  <2>1. x[1] \in {"block", "unblock"}
    BY <1>11 DEF Doing
  <2> HIDE DEF x
  <2>2. /\ Alike(v, w) /\ w.locks = v.locks /\ w.busy = v.busy /\ (w.done => v.done)
    BY <1>1, <1>3, <2>1 DEF Follows, Makes, Allowed, Alike, LocksAfter, State, Sound
  <2>3. Matches(w)'
    BY <1>2, <1>3, <2>2, AlikeMatches
  <2> QED BY <1>11, <2>3, Simply DEF Done
<1> QED BY <1>7, <1>8, <1>9, <1>10, <1>11 DEF DoBranch

LEMMA PutLeads ==
  ASSUME NEW D, NEW O, NEW r, NEW v, ~v.dead, ~v.hungry, ~v.away, NEW u, Alike(v, u),
         D = "mach32" \/ "blit" \notin DOMAIN r, D = "mach32" => v.busy,
         u.locks = v.locks, u.busy = v.busy, ~u.done, Sound(D, O, v), Sound(D, O, u)
  PROVE  Leads(D, O, Put(r), v, u)
<1> DEFINE x == <<"put", r>>
<1>1. x[1] = "put" /\ x[2] = r
  OBVIOUS
<1> HIDE DEF x
<1>2. Allowed(D, O, x, v)
  BY <1>1 DEF Allowed
<1>3. Makes(D, x, v, u)
  BY <1>1 DEF Makes, LocksAfter, State, Alike
<1>4. Leads(D, O, <<x>>, v, u)
  BY <1>2, <1>3, Step DEF Alike
<1> QED BY <1>4 DEF x, Put

LEMMA CriticalKept ==
  ASSUME Base, DoCritical, NEW v, NEW w, Matches(v), Follows(driver, own, Head(todo), v, w)
  PROVE  Lasting(w)
<1> DEFINE x == Head(todo)
<1>1. Follows(driver, own, x, v, w) /\ ~v.dead
  BY DEF Matches
<1>2. /\ UNCHANGED <<driver, own, lock_count, soft, front, chip, engine, queue>>
      /\ CRITICAL' = TRUE
  BY DEF DoCritical
<1>3. v \in State /\ w \in State /\ Sound(driver, own, v) /\ Sound(driver, own, w)
  BY <1>1 DEF Follows
<1>4. CASE Doing("critical") /\ Instead(IF CRITICAL THEN <<>> ELSE Lock)
  <2>1. x[1] = "critical"
    BY <1>4 DEF Doing
  <2> HIDE DEF x
  <2>2. /\ Alike(v, w) /\ w.busy = TRUE /\ (w.done => v.done)
        /\ ~v.hungry /\ ~v.away /\ v.locks >= own
    BY <1>1, <1>3, <2>1 DEF Follows, Makes, Allowed, Alike, State
  <2>3. CASE CRITICAL
    <3>1. w.locks = v.locks
      BY <1>1, <2>1, <2>3 DEF Follows, Makes, LocksAfter, Matches
    <3>2. Matches(w)'
      BY <1>2, <1>3, <2>2, <3>1, LockedMatches DEF Matches
    <3> QED BY <1>4, <2>3, <3>2, Inserted, LeadsEmpty
  <2>4. CASE ~CRITICAL
    <3> DEFINE z == [v EXCEPT !.busy = TRUE]
    <3>1. /\ Alike(v, z) /\ Alike(z, w) /\ z.locks = v.locks /\ z.busy = TRUE
          /\ z.done = v.done
      BY <1>3, <2>2 DEF Alike, State
    <3> HIDE DEF z
    <3>2. w.locks = v.locks + 1
      BY <1>1, <2>1, <2>4 DEF Follows, Makes, LocksAfter, Matches
    <3>3. driver = "mach32"
      BY <1>1, <2>1 DEF Follows, Allowed
    <3>4. v.away => v.done
      BY <1>1, <1>3 DEF Sound
    <3>5. v.hungry => v.locks > 0 /\ driver # "mach32"
      BY <1>1, <1>3 DEF Sound
    <3>6. Sound(driver, own, z)
      BY <2>2, <3>1, <3>3, <3>4, <3>5 DEF Sound, Base, Alike
    <3>7. Matches(z)'
      BY <1>2, <3>1, <3>6, LockedMatches DEF Matches
    <3>8. Leads(driver, own, Lock, z, w)
      BY <1>1, <1>3, <2>2, <3>1, <3>2, <3>6, LockLeads DEF Alike
    <3> QED BY <1>4, <2>4, <3>7, <3>8, Inserted
  <2> QED BY <2>3, <2>4
<1>5. CASE Doing("seize") /\ Done
  <2>1. x[1] = "seize"
    BY <1>5 DEF Doing
  <2> HIDE DEF x
  <2>2. /\ Alike(v, w) /\ w.busy = TRUE /\ (w.done => v.done) /\ w.locks = v.locks
    BY <1>1, <1>3, <2>1 DEF Follows, Makes, LocksAfter, Alike, State
  <2>3. Matches(w)'
    BY <1>2, <1>3, <2>2, LockedMatches DEF Matches
  <2> QED BY <1>5, <2>3, Simply DEF Done
<1> QED BY <1>4, <1>5 DEF DoCritical

LEMMA SetstateKept ==
  ASSUME Base, DoSetstate, NEW v, NEW w, Matches(v), Follows(driver, own, Head(todo), v, w)
  PROVE  Lasting(w)
<1> DEFINE x == Head(todo)
<1>1. Follows(driver, own, x, v, w) /\ ~v.dead
  BY DEF Matches
<1>2. UNCHANGED <<driver, own, lock_count, CRITICAL, soft, front, chip, engine, queue>>
  BY DEF DoSetstate
<1>3. v \in State /\ w \in State /\ Sound(driver, own, v) /\ Sound(driver, own, w)
  BY <1>1 DEF Follows
<1>4. PICK which \in {"extended", "standard"} :
        /\ Doing(which)
        /\ Instead(IF accelstate = which THEN <<>>
                   ELSE Put(IF which = "extended" THEN Restored ELSE [alu |-> 7, balu |-> 7]))
  BY DEF DoSetstate
<1>5. x[1] = which
  BY <1>4 DEF Doing
<1> HIDE DEF x
<1>6. /\ Alike(v, w) /\ w.locks = v.locks /\ w.busy = v.busy /\ ~w.done
      /\ ~v.hungry /\ ~v.away /\ v.busy /\ driver = "mach32"
  BY <1>1, <1>3, <1>4, <1>5 DEF Follows, Makes, Allowed, Alike, LocksAfter, State
<1>7. CASE accelstate = which
  <2>1. Matches(w)'
    BY <1>2, <1>3, <1>6, AlikeMatches
  <2> QED BY <1>4, <1>7, <2>1, Inserted, LeadsEmpty
<1>8. CASE accelstate # which
  <2>1. Matches(v)'
    BY <1>2, <1>3, AlikeMatches DEF Alike
  <2>2. \A r : Leads(driver, own, Put(r), v, w)
    BY <1>1, <1>3, <1>6, PutLeads
  <2> QED BY <1>4, <1>8, <2>1, <2>2, Inserted
<1> QED BY <1>7, <1>8

-----------------------------------------------------------------------------
(* A switch leads back to where it began.                                  *)
LEMMA LeadsTwo ==
  ASSUME NEW D, NEW O, NEW x, NEW y, NEW v, NEW w, NEW u,
         Leads(D, O, <<x>>, v, w), Leads(D, O, <<y>>, w, u)
  PROVE  Leads(D, O, <<x, y>>, v, u)
<1>1. Leads(D, O, <<x>> \o <<y>>, v, u)
  BY LeadsJoin
<1>2. <<x>> \in Seq({x, y}) /\ <<y>> \in Seq({x, y}) /\ <<x, y>> \in Seq({x, y})
  OBVIOUS
<1> DEFINE s == <<x>>  t == <<y>>  r == <<x, y>>
<1>3. Len(s) = 1 /\ s[1] = x /\ Len(t) = 1 /\ t[1] = y /\ Len(r) = 2 /\ r[1] = x /\ r[2] = y
  OBVIOUS
<1> HIDE DEF s, t, r
<1>4. /\ s \o t \in Seq({x, y}) /\ Len(s \o t) = 2
      /\ (s \o t)[1] = x /\ (s \o t)[2] = y
  BY <1>2, <1>3, ConcatProperties DEF s, t, r
<1>5. \A i \in 1..2 : i = 1 \/ i = 2
  OBVIOUS
<1>6. s \o t = r
  BY <1>2, <1>3, <1>4, <1>5, SeqEqual DEF s, t, r
<1> QED BY <1>1, <1>6 DEF s, t, r

LEMMA SyncLeads ==
  ASSUME NEW v, ~v.dead, ~v.hungry, ~v.away, Sound(driver, own, v), NEW u, Alike(v, u),
         Sound(driver, own, u),
         IF driver = "mach32" /\ v.busy THEN u.locks = Less(v.locks) /\ ~u.busy
         ELSE u.locks = v.locks /\ u.busy = v.busy,
         driver = "mach32" /\ ~v.busy => (u.done => v.done)
  PROVE  Leads(driver, own, Sync, v, u)
<1>1. CASE driver = "mach32"
  <2> DEFINE x == <<"sync">>
  <2>1. x[1] = "sync"
    OBVIOUS
  <2> HIDE DEF x
  <2>2. Allowed(driver, own, x, v)
    BY <1>1, <2>1 DEF Allowed
  <2>3. Makes(driver, x, v, u)
    BY <1>1, <2>1 DEF Makes, LocksAfter, State, Alike
  <2>4. Leads(driver, own, <<x>>, v, u)
    BY <2>2, <2>3, Step DEF Alike
  <2> QED BY <1>1, <2>4 DEF x, Sync, vga_accel, mach32_SYNC
<1>2. CASE driver # "mach32"
  <2> DEFINE a == [v EXCEPT !.locks = @ + 1, !.done = FALSE]
             b == [v EXCEPT !.locks = @ + 1, !.done = TRUE]
  <2>9. v \in State /\ v.locks \in Nat /\ v.locks + 1 \in Nat
    BY DEF Alike, State
  <2>10. /\ a \in State /\ a.locks = v.locks + 1 /\ a.busy = v.busy /\ ~a.done
         /\ a.dead = v.dead /\ a.behind = v.behind /\ a.bitmap = v.bitmap
         /\ a.hungry = v.hungry /\ a.away = v.away
    BY <2>9 DEF State
  <2>11. /\ b \in State /\ b.locks = v.locks + 1 /\ b.busy = v.busy /\ b.done
         /\ b.dead = v.dead /\ b.behind = v.behind /\ b.bitmap = v.bitmap
         /\ b.hungry = v.hungry /\ b.away = v.away
    BY <2>9 DEF State
  <2> HIDE DEF a, b
  <2>1. /\ Alike(v, a) /\ a.locks = v.locks + 1 /\ a.busy = v.busy /\ ~a.done
        /\ Alike(a, b) /\ b.locks = a.locks /\ b.busy = v.busy /\ b.done
        /\ v.locks \in Nat /\ b.locks = v.locks + 1
    BY <2>9, <2>10, <2>11 DEF Alike
  <2>7. Alike(b, u)
    BY <2>1 DEF Alike
  <2>8. Less(b.locks) = v.locks
    BY <2>1 DEF Less
  <2>2. ~v.busy /\ Sound(driver, own, a) /\ Sound(driver, own, b)
    BY <1>2, <2>1 DEF Sound, Alike, State
  <2>3. Leads(driver, own, Lock, v, a)
    BY <2>1, <2>2, LockLeads
  <2>4. Leads(driver, own, WAITUNTILFINISHED, a, b)
    BY <2>1, <2>2, WaitLeads DEF Alike
  <2>5. Leads(driver, own, Unlock, b, u)
    BY <1>2, <2>1, <2>2, <2>7, <2>8, UnlockLeads DEF Alike
  <2>6. Leads(driver, own, (Lock \o WAITUNTILFINISHED) \o Unlock, v, u)
    BY <2>3, <2>4, <2>5, LeadsJoin
  <2> QED BY <1>2, <2>6 DEF Sync, vga_accel
<1> QED BY <1>1, <1>2

LEMMA SwitchLeads ==
  ASSUME NEW v \in State, ~v.dead, ~v.hungry, ~v.away, Sound(driver, own, v),
         driver = "mach32" => ~v.busy
  PROVE  Leads(driver, own, Switch, v, v)
<1> DEFINE a == [v EXCEPT !.done = TRUE]
           b == [v EXCEPT !.done = TRUE, !.away = TRUE]
           x == <<"away">>
           y == <<"back">>
<1>1. /\ Alike(v, a) /\ a.locks = v.locks /\ a.busy = v.busy /\ a.done
      /\ b \in State /\ b.dead = v.dead /\ b.locks = v.locks /\ b.busy = v.busy
      /\ b.behind = v.behind /\ b.done /\ b.bitmap = v.bitmap /\ b.hungry = v.hungry
      /\ b.away = TRUE
  BY DEF Alike, State
<1>2. x[1] = "away" /\ y[1] = "back"
  OBVIOUS
<1> HIDE DEF a, b, x, y
<1>3. Sound(driver, own, a) /\ Sound(driver, own, b)
  BY <1>1 DEF Sound, Alike
<1>4. driver = "mach32" => v.done
  BY DEF Sound
<1>5. Leads(driver, own, Sync, v, a)
  BY <1>1, <1>3, <1>4, SyncLeads
<1>6. Leads(driver, own, <<x>>, a, b)
  <2>1. Allowed(driver, own, x, a)
    BY <1>1, <1>2 DEF Allowed, Alike
  <2>2. Makes(driver, x, a, b)
    BY <1>1, <1>2 DEF Makes, LocksAfter, Alike, State
  <2> QED BY <1>1, <1>3, <2>1, <2>2, Step DEF Alike
<1>7. Leads(driver, own, <<y>>, b, v)
  <2>1. Allowed(driver, own, y, b)
    BY <1>1, <1>2 DEF Allowed
  <2>2. Makes(driver, y, b, v)
    BY <1>1, <1>2 DEF Makes, LocksAfter, State
  <2> QED BY <1>1, <1>3, <2>1, <2>2, Step
<1>8. Leads(driver, own, <<x, y>>, a, v)
  BY <1>6, <1>7, LeadsTwo
<1>9. Leads(driver, own, Sync \o <<x, y>>, v, v)
  BY <1>5, <1>8, LeadsJoin
<1> QED BY <1>9 DEF Switch, idle_accel, x, y

LEMMA UnlockKept ==
  ASSUME Base, vga_unlockvc, NEW v, NEW w, Matches(v), Follows(driver, own, Head(todo), v, w)
  PROVE  Lasting(w)
<1> DEFINE x == Head(todo)
<1>1. Follows(driver, own, x, v, w) /\ ~v.dead
  BY DEF Matches
<1>2. /\ UNCHANGED <<driver, own, CRITICAL, soft, front, chip, engine, queue>>
      /\ lock_count' = Less(lock_count) /\ x[1] = "unlock"
  BY DEF vga_unlockvc, Less, Doing
<1> HIDE DEF x
<1>3. v \in State /\ w \in State /\ Sound(driver, own, v) /\ Sound(driver, own, w)
  BY <1>1 DEF Follows
<1>4. /\ Alike(v, w) /\ w.locks = Less(v.locks) /\ w.busy = v.busy /\ (w.done => v.done)
      /\ ~v.hungry /\ ~v.away /\ ~v.dead /\ (driver = "mach32" /\ v.locks <= 1 => ~v.busy)
  BY <1>1, <1>2, <1>3 DEF Follows, Makes, Allowed, Alike, LocksAfter, State
<1>5. Matches(w)'
  BY <1>2, <1>3, <1>4, LockedMatches DEF Matches
<1>6. CASE lock_count' = 0 /\ Instead(Switch)
  <2>1. v.locks <= 1
    BY <1>2, <1>3, <1>6 DEF Matches, Less, State
  <2>2. driver = "mach32" => ~w.busy
    BY <1>4, <2>1
  <2>3. Leads(driver, own, Switch, w, w)
    BY <1>3, <1>4, <2>2, SwitchLeads DEF Alike
  <2> QED BY <1>5, <1>6, <2>3, Inserted
<1>7. CASE Done
  BY <1>5, <1>7, Simply DEF Done
<1> QED BY <1>6, <1>7 DEF vga_unlockvc

-----------------------------------------------------------------------------
(* Where the data of a bitmap are.                                         *)
Plain(s) == IsSeq(s) /\ \A i \in 1..Len(s) : s[i][1] \notin {"feed", "block"}

LEMMA PlainOne ==
  ASSUME NEW x, x[1] \notin {"feed", "block"} PROVE Plain(<<x>>)
BY SeqOne DEF Plain

LEMMA PlainEmpty == Plain(<<>>)
<1>1. <<>> \in Seq({})
  OBVIOUS
<1>2. IsSeq(<<>>)
  BY <1>1, Zenon DEF IsSeq
<1> QED BY <1>2 DEF Plain

Without(s, names) == IsSeq(s) /\ \A i \in 1..Len(s) : s[i][1] \notin names

LEMMA WithoutJoin ==
  ASSUME NEW s, NEW t, NEW names, Without(s, names), Without(t, names)
  PROVE  Without(s \o t, names)
<1> DEFINE n == Len(s)  m == Len(t)
<1>1. /\ IsSeq(s \o t) /\ n \in Nat /\ m \in Nat /\ Len(s \o t) = n + m
      /\ \A i \in 1..(n + m) : (s \o t)[i] = IF i <= n THEN s[i] ELSE t[i - n]
  BY SeqJoin DEF Without
<1>2. ASSUME NEW i \in 1..(n + m) PROVE (s \o t)[i][1] \notin names
  <2>1. CASE i <= n
    BY <1>1, <2>1 DEF Without
  <2>2. CASE ~(i <= n)
    <3>1. i - n \in 1..m
      BY <1>1, <2>2
    <3> QED BY <1>1, <2>2, <3>1 DEF Without
  <2> QED BY <2>1, <2>2
<1> QED BY <1>1, <1>2 DEF Without

LEMMA PlainJoin ==
  ASSUME NEW s, NEW t, Plain(s), Plain(t) PROVE Plain(s \o t)
<1>1. \A r : Plain(r) <=> Without(r, {"feed", "block"})
  BY Zenon DEF Plain, Without
<1> QED BY <1>1, WithoutJoin

LEMMA PlainFed == ASSUME NEW s, Plain(s) PROVE Fed(s)
BY DEF Plain, Fed

LEMMA FedTail ==
  ASSUME NEW s, IsSeq(s), s # <<>>, Fed(s) PROVE Fed(Tail(s))
<1> DEFINE n == Len(s)  t == Tail(s)
<1>1. n \in Nat \ {0} /\ Len(t) = n - 1 /\ \A i \in 1..(n - 1) : t[i] = s[i + 1]
  BY SeqTail
<1> HIDE DEF n, t
<1>2. ASSUME NEW i \in 1..Len(t), t[i][1] = "feed"
      PROVE  /\ \E j \in (i + 1)..Len(t) : t[j][1] = "unblock"
             /\ \A j \in (i + 1)..Len(t) : t[j][1] # "block"
  <2>1. i + 1 \in 1..n /\ s[i + 1][1] = "feed"
    BY <1>1, <1>2
  <2>2. PICK j \in ((i + 1) + 1)..n : s[j][1] = "unblock"
    BY <2>1 DEF Fed, n
  <2>3. \A k \in ((i + 1) + 1)..n : s[k][1] # "block"
    BY <2>1 DEF Fed, n
  <2>4. j - 1 \in (i + 1)..Len(t) /\ t[j - 1] = s[(j - 1) + 1] /\ (j - 1) + 1 = j
    BY <1>1, <2>2
  <2>5. ASSUME NEW k \in (i + 1)..Len(t) PROVE t[k][1] # "block"
    <3>1. k + 1 \in ((i + 1) + 1)..n /\ t[k] = s[k + 1]
      BY <1>1
    <3> QED BY <2>3, <3>1
  <2> QED BY <2>2, <2>4, <2>5
<1> QED BY <1>2 DEF Fed, t

LEMMA UnfedBefore ==
  ASSUME NEW s, NEW t, Without(s, {"feed"}), IsSeq(t), Fed(t) PROVE Fed(s \o t)
<1> DEFINE n == Len(s)  m == Len(t)  r == s \o t
<1>1. /\ n \in Nat /\ m \in Nat /\ Len(r) = n + m
      /\ \A i \in 1..(n + m) : r[i] = IF i <= n THEN s[i] ELSE t[i - n]
  BY SeqJoin DEF Without
<1> HIDE DEF n, m, r
<1>2. ASSUME NEW i \in 1..Len(r), r[i][1] = "feed"
      PROVE  /\ \E j \in (i + 1)..Len(r) : r[j][1] = "unblock"
             /\ \A j \in (i + 1)..Len(r) : r[j][1] # "block"
  <2>1. ~(i <= n)
    BY <1>1, <1>2 DEF Without, n
  <2>2. i - n \in 1..m /\ t[i - n][1] = "feed"
    BY <1>1, <1>2, <2>1
  <2>3. PICK j \in ((i - n) + 1)..m : t[j][1] = "unblock"
    BY <2>2 DEF Fed, m
  <2>4. \A k \in ((i - n) + 1)..m : t[k][1] # "block"
    BY <2>2 DEF Fed, m
  <2>5. j + n \in (i + 1)..Len(r) /\ r[j + n] = t[(j + n) - n] /\ (j + n) - n = j
    BY <1>1, <2>1, <2>2, <2>3
  <2>6. ASSUME NEW k \in (i + 1)..Len(r) PROVE r[k][1] # "block"
    <3>1. k - n \in ((i - n) + 1)..m /\ r[k] = t[k - n]
      BY <1>1, <2>1
    <3> QED BY <2>4, <3>1
  <2> QED BY <2>3, <2>5, <2>6
<1> QED BY <1>2 DEF Fed, r

LEMMA FedBefore ==
  ASSUME NEW s, NEW t, Plain(s), IsSeq(t), Fed(t) PROVE Fed(s \o t)
<1>1. Without(s, {"feed"})
  BY DEF Plain, Without
<1> QED BY <1>1, UnfedBefore

LEMMA FedAfter ==
  ASSUME NEW s, NEW t, IsSeq(s), Fed(s), Plain(t) PROVE Fed(s \o t)
<1> DEFINE n == Len(s)  m == Len(t)  r == s \o t
<1>1. /\ n \in Nat /\ m \in Nat /\ Len(r) = n + m
      /\ \A i \in 1..(n + m) : r[i] = IF i <= n THEN s[i] ELSE t[i - n]
  BY SeqJoin DEF Plain
<1> HIDE DEF n, m, r
<1>2. ASSUME NEW i \in 1..Len(r), r[i][1] = "feed"
      PROVE  /\ \E j \in (i + 1)..Len(r) : r[j][1] = "unblock"
             /\ \A j \in (i + 1)..Len(r) : r[j][1] # "block"
  <2>1. \A k \in 1..(n + m) : ~(k <= n) => k - n \in 1..m
    BY <1>1
  <2>2. \A k \in 1..m : t[k][1] # "feed" /\ t[k][1] # "block"
    BY DEF Plain, m
  <2>3. i \in 1..n /\ s[i][1] = "feed"
    BY <1>1, <1>2, <2>1, <2>2
  <2>4. PICK j \in (i + 1)..n : s[j][1] = "unblock"
    BY <2>3 DEF Fed, n
  <2>5. j \in (i + 1)..Len(r) /\ r[j] = s[j]
    BY <1>1, <2>3, <2>4
  <2>6. ASSUME NEW k \in (i + 1)..Len(r) PROVE r[k][1] # "block"
    <3>1. CASE k <= n
      BY <1>1, <2>3, <3>1 DEF Fed, n
    <3>2. CASE ~(k <= n)
      BY <1>1, <2>1, <2>2, <3>2
    <3> QED BY <3>1, <3>2
  <2> QED BY <2>4, <2>5, <2>6
<1> QED BY <1>2 DEF Fed, r

(* The steps that are put before others are plain.                         *)
LEMMA PlainSteps ==
  /\ Plain(WAITUNTILFINISHED) /\ Plain(Lock) /\ Plain(Unlock)
  /\ Plain(WAITUNTILFINISHED \o Unlock)
  /\ \A r : Plain(Put(r)) /\ Plain(Note(r))
  /\ Plain(Sync) /\ Plain(Switch) /\ Plain(signal_handler)
<1>1. \A x : x[1] \notin {"feed", "block"} => Plain(<<x>>)
  BY PlainOne
<1>2. /\ <<"wait">>[1] = "wait" /\ <<"lock">>[1] = "lock" /\ <<"unlock">>[1] = "unlock"
      /\ <<"sync">>[1] = "sync" /\ <<"die">>[1] = "die"
      /\ \A r : <<"put", r>>[1] = "put" /\ <<"note", r>>[1] = "note"
  OBVIOUS
<1>3. Plain(WAITUNTILFINISHED) /\ Plain(Lock) /\ Plain(Unlock)
  BY <1>1, <1>2 DEF WAITUNTILFINISHED, Lock, Unlock
<1>4. \A r : Plain(Put(r)) /\ Plain(Note(r))
  BY <1>1, <1>2 DEF Put, Note
<1>5. Plain(mach32_SYNC) /\ Plain(<<<<"die">>>>)
  BY <1>1, <1>2 DEF mach32_SYNC
<1>6. Plain(Lock \o WAITUNTILFINISHED)
  BY <1>3, PlainJoin
<1>7. Plain((Lock \o WAITUNTILFINISHED) \o Unlock)
  BY <1>3, <1>6, PlainJoin
<1>8. Plain(Sync)
  BY <1>5, <1>7 DEF Sync, vga_accel
<1>9. Plain(<<<<"away">>, <<"back">>>>)
  <2> DEFINE s == <<<<"away">>, <<"back">>>>
  <2>1. s \in Seq({<<"away">>, <<"back">>}) /\ Len(s) = 2
        /\ s[1][1] = "away" /\ s[2][1] = "back"
    OBVIOUS
  <2>2. IsSeq(s)
    BY <2>1, Zenon DEF IsSeq
  <2> HIDE DEF s
  <2>3. \A i \in 1..2 : i = 1 \/ i = 2
    OBVIOUS
  <2>4. Plain(s)
    BY <2>1, <2>2, <2>3 DEF Plain
  <2> QED BY <2>4 DEF s
<1>10. Plain(Switch) /\ Plain(signal_handler)
  BY <1>5, <1>8, <1>9, PlainJoin DEF Switch, signal_handler, idle_accel
<1>11. Plain(WAITUNTILFINISHED \o Unlock)
  BY <1>3, PlainJoin
<1> QED BY <1>3, <1>4, <1>8, <1>10, <1>11

-----------------------------------------------------------------------------
(* Each step keeps what is known of the rest.                              *)
LEMMA ProceedTodo ==
  ASSUME Proceed
  PROVE  todo # <<>> /\ \/ todo' = <<>>
                        \/ todo' = Tail(todo)
                        \/ \E s : Plain(s) /\ todo' = s \o Tail(todo)
<1>1. CASE DoBranch
  BY <1>1, PlainSteps, PlainEmpty DEF DoBranch, Doing, Done, Instead
<1>2. CASE DoCritical
  BY <1>2, PlainSteps, PlainEmpty DEF DoCritical, Doing, Done, Instead
<1>3. CASE DoSetstate
  BY <1>3, PlainSteps, PlainEmpty DEF DoSetstate, Doing, Done, Instead
<1>4. CASE vga_unlockvc
  BY <1>4, PlainSteps DEF vga_unlockvc, Doing, Done, Instead
<1>5. CASE \/ DoPut \/ DoStart \/ DoFeed \/ DoNote \/ DoWait \/ vga_lockvc
           \/ Away \/ Back \/ Die
  BY <1>5 DEF DoPut, DoStart, DoFeed, DoNote, DoWait, vga_lockvc, Away, Back, Die,
              Doing, Done
<1> QED BY <1>1, <1>2, <1>3, <1>4, <1>5 DEF Proceed

LEMMA ProceedFed ==
  ASSUME Proceed, IsSeq(todo)
  PROVE  IsSeq(todo') /\ (Fed(todo) => Fed(todo'))
<1>1. todo # <<>> /\ \/ todo' = <<>>
                     \/ todo' = Tail(todo)
                     \/ \E s : Plain(s) /\ todo' = s \o Tail(todo)
  BY ProceedTodo
<1>2. IsSeq(Tail(todo)) /\ (Fed(todo) => Fed(Tail(todo)))
  BY <1>1, SeqTail, FedTail
<1>3. IsSeq(<<>>) /\ Fed(<<>>)
  BY PlainEmpty, PlainFed DEF Plain
<1>4. ASSUME NEW s, Plain(s), todo' = s \o Tail(todo)
      PROVE  IsSeq(todo') /\ (Fed(todo) => Fed(todo'))
  <2>1. IsSeq(s \o Tail(todo))
    BY <1>2, <1>4, SeqJoin DEF Plain
  <2>2. Fed(Tail(todo)) => Fed(s \o Tail(todo))
    BY <1>2, <1>4, FedBefore
  <2> QED BY <1>2, <1>4, <2>1, <2>2
<1> QED BY <1>1, <1>2, <1>3, <1>4

LEMMA ProceedBase ==
  ASSUME Base, Proceed, NEW v, NEW w, Matches(v), Follows(driver, own, Head(todo), v, w)
  PROVE  Base'
<1>1. UNCHANGED <<driver, own>>
  BY DEF Proceed, DoPut, DoStart, DoFeed, DoNote, DoWait, DoBranch, DoCritical, DoSetstate,
         vga_lockvc, vga_unlockvc, Away, Back, Die
<1>2. IsSeq(todo') /\ (Fed(todo) => Fed(todo'))
  BY ProceedFed DEF Base
<1>3. "background" \in DOMAIN soft' /\ soft'.background \in BOOLEAN
  <2>1. CASE DoNote
    <3> DEFINE x == Head(todo)
    <3>1. x[1] = "note" /\ soft' = Updated(soft, x[2])
      BY <2>1 DEF DoNote, Doing, Operand
    <3>2. "background" \in DOMAIN x[2] => x[2].background \in BOOLEAN
      BY <3>1 DEF Follows, Allowed, Matches
    <3> HIDE DEF x
    <3> QED BY <3>1, <3>2 DEF Updated, Base
  <2>2. CASE Back
    BY <2>2 DEF Back, Base
  <2>3. CASE ~DoNote /\ ~Back
    <3>1. soft' = soft
      BY <2>3 DEF Proceed, DoPut, DoStart, DoFeed, DoWait, DoBranch, DoCritical, DoSetstate,
                  vga_lockvc, vga_unlockvc, Away, Die
    <3> QED BY <3>1 DEF Base
  <2> QED BY <2>1, <2>2, <2>3
<1>4. driver # "mach32" => "blit" \in DOMAIN chip' /\ queue' = <<>>
  <2>1. SUFFICES ASSUME driver # "mach32" PROVE "blit" \in DOMAIN chip' /\ queue' = <<>>
    OBVIOUS
  <2>2. queue' = queue
    BY <2>1 DEF Proceed, DoPut, DoStart, DoFeed, DoNote, DoWait, DoBranch, DoCritical,
                DoSetstate, vga_lockvc, vga_unlockvc, Away, Back, Die, Base, Finished
  <2>3. chip' = chip \/ \E r : chip' = Updated(chip, r)
    BY <2>1 DEF Proceed, DoPut, DoStart, DoFeed, DoNote, DoWait, DoBranch, DoCritical,
                DoSetstate, vga_lockvc, vga_unlockvc, Away, Back, Die
  <2> QED BY <2>1, <2>2, <2>3 DEF Updated, Base
<1>5. front' = "dead" => Finished'
  <2>1. SUFFICES ASSUME front' = "dead" PROVE Finished'
    OBVIOUS
  <2>2. Die
    BY <2>1 DEF Proceed, DoPut, DoStart, DoFeed, DoNote, DoWait, DoBranch, DoCritical,
                DoSetstate, vga_lockvc, vga_unlockvc, Away, Back, Doing
  <2> DEFINE x == Head(todo)
  <2>3. x[1] = "die" /\ UNCHANGED <<engine, queue>>
    BY <2>2 DEF Die, Doing
  <2>4. v.done
    BY <2>3 DEF Follows, Allowed, Matches
  <2> HIDE DEF x
  <2> QED BY <2>3, <2>4 DEF Matches, Finished
<1>6. front' \in {"ours", "other", "dead"}
  BY DEF Proceed, DoPut, DoStart, DoFeed, DoNote, DoWait, DoBranch, DoCritical, DoSetstate,
         vga_lockvc, vga_unlockvc, Away, Back, Die, Base
<1> QED BY <1>1, <1>2, <1>3, <1>4, <1>5, <1>6 DEF Base

LEMMA ProceedKept ==
  ASSUME Base, Proceed, NEW v, NEW w, Matches(v), Follows(driver, own, Head(todo), v, w)
  PROVE  front' = "dead" \/ Lasting(w)
<1>1. CASE \/ DoPut \/ DoStart \/ DoFeed \/ DoNote \/ DoWait \/ vga_lockvc
           \/ Away \/ Back
  <2>1. Matches(w)'
    BY <1>1, PutMatches, StartMatches, FeedMatches, NoteMatches, WaitMatches, LockMatches,
       AwayMatches, BackMatches
  <2>2. todo' = Tail(todo)
    BY <1>1 DEF DoPut, DoStart, DoFeed, DoNote, DoWait, vga_lockvc, Away, Back, Done
  <2> QED BY <2>1, <2>2, Simply
<1>2. CASE DoBranch \/ DoCritical \/ DoSetstate \/ vga_unlockvc
  BY <1>2, BranchKept, CriticalKept, SetstateKept, UnlockKept
<1>3. CASE Die
  BY <1>3 DEF Die
<1> QED BY <1>1, <1>2, <1>3 DEF Proceed

LEMMA ProceedInv == ASSUME AccelInv, Proceed PROVE AccelInv'
<1>1. front # "dead" /\ todo # <<>> /\ UNCHANGED <<driver, own>>
  BY DEF Proceed, DoPut, DoStart, DoFeed, DoNote, DoWait, DoBranch, DoCritical, DoSetstate,
         vga_lockvc, vga_unlockvc, Away, Back, Die, Doing
<1>2. Base
  BY DEF AccelInv
<1>3. PICK v, u : Matches(v) /\ Leads(driver, own, todo, v, u) /\ Resting(own, u)
  BY <1>1 DEF AccelInv, Course
<1>4. PICK w : /\ Follows(driver, own, Head(todo), v, w)
               /\ Leads(driver, own, Tail(todo), w, u)
  BY <1>1, <1>3, LeadsOn
<1>5. Base'
  BY <1>2, <1>3, <1>4, ProceedBase
<1>6. front' = "dead" \/ Lasting(w)
  BY <1>2, <1>3, <1>4, ProceedKept
<1>7. CASE Lasting(w)
  <2>1. PICK z : Matches(z)' /\ Leads(driver, own, todo', z, u)
    BY <1>4, <1>7 DEF Lasting
  <2>2. Leads(driver', own', todo', z, u) /\ Resting(own', u)
    BY <1>1, <1>3, <2>1
  <2>3. Course'
    BY <2>1, <2>2 DEF Course
  <2> QED BY <1>5, <2>3 DEF AccelInv
<1>8. CASE front' = "dead"
  BY <1>5, <1>8 DEF AccelInv, Course
<1> QED BY <1>6, <1>7, <1>8

-----------------------------------------------------------------------------
(* The engine, and the signals.                                            *)
LEMMA SameInv ==
  ASSUME AccelInv, Finished => Finished', driver # "mach32" => (queue' = queue /\ chip' = chip),
         driver # "mach32" /\ engine' = "hungry" => engine = "hungry",
         UNCHANGED <<driver, own, todo, soft, lock_count, CRITICAL, front>>
  PROVE  AccelInv'
<1>1. Base'
  BY DEF AccelInv, Base
<1>2. ASSUME front # "dead" PROVE Course'
  <2>1. PICK v, u : Matches(v) /\ Leads(driver, own, todo, v, u) /\ Resting(own, u)
    BY <1>2 DEF AccelInv, Course
  <2>2. Sound(driver, own, v)'
    BY <2>1, StillSound DEF Matches
  <2>3. Matches(v)'
    BY <2>1, <2>2 DEF Matches
  <2>4. Leads(driver', own', todo', v, u) /\ Resting(own', u)
    BY <2>1
  <2> QED BY <2>3, <2>4 DEF Course
<1>3. front = "dead" => Course'
  BY DEF Course
<1> QED BY <1>1, <1>2, <1>3 DEF AccelInv

LEMMA EngineInv == ASSUME AccelInv, EngineRuns \/ QueueRuns PROVE AccelInv'
<1>1. ~Finished
  BY DEF EngineRuns, QueueRuns, Finished
<1>2. driver # "mach32" => queue = <<>>
  BY DEF AccelInv, Base
<1>3. CASE EngineRuns
  BY <1>1, <1>3, SameInv DEF EngineRuns
<1>4. CASE QueueRuns
  BY <1>1, <1>2, <1>4, SameInv DEF QueueRuns
<1> QED BY <1>3, <1>4

LEMMA LeadsDead ==
  ASSUME NEW D, NEW O, NEW s, IsSeq(s), NEW v \in State, v.dead
  PROVE  Leads(D, O, s, v, v)
<1> DEFINE w == [i \in 0..Len(s) |-> v]
<1>1. Len(s) \in Nat
  BY SeqJoin
<1>2. w[0] = v /\ w[Len(s)] = v
  BY <1>1
<1>3. Follows(D, O, s[1], v, v) /\ \A x : Follows(D, O, x, v, v)
  BY DEF Follows, Sound, Allowed
<1>4. \A i \in 1..Len(s) : w[i - 1] = v /\ w[i] = v
  BY <1>1
<1> HIDE DEF w
<1>5. \A i \in 1..Len(s) : Follows(D, O, s[i], w[i - 1], w[i])
  BY <1>3, <1>4
<1> QED BY <1>2, <1>5 DEF Leads

(* A handler's steps come before those of what it interrupts.              *)
LEMMA Interrupted ==
  ASSUME AccelInv, front = "ours", NEW s, Plain(s), todo' = s \o todo,
         NEW v, Matches(v), NEW w, Leads(driver, own, s, v, w),
         NEW u, Leads(driver, own, todo, w, u), Resting(own, u),
         UNCHANGED <<driver, own, chip, queue, engine, soft, lock_count, CRITICAL, front>>
  PROVE  AccelInv'
<1>1. IsSeq(todo) /\ IsSeq(s)
  BY DEF AccelInv, Base, Plain
<1>2. IsSeq(todo') /\ (Fed(todo) => Fed(todo'))
  BY <1>1, SeqJoin, FedBefore
<1>3. Base'
  BY <1>2 DEF AccelInv, Base
<1>4. Leads(driver, own, todo', v, u)
  BY LeadsJoin
<1>5. Sound(driver, own, v)'
  BY StillSound DEF Matches
<1>6. Finished' = Finished
  BY DEF Finished
<1>7. Matches(v)'
  BY <1>5, <1>6 DEF Matches
<1>8. Leads(driver', own', todo', v, u) /\ Resting(own', u)
  BY <1>4
<1>9. Course'
  BY <1>7, <1>8 DEF Course
<1> QED BY <1>3, <1>9 DEF AccelInv

LEMMA SwitchInv == ASSUME Gentle, AccelInv, SwitchRequested PROVE AccelInv'
<1>1. /\ front = "ours" /\ ~(CRITICAL /\ lock_count = own)
      /\ UNCHANGED <<driver, own, chip, queue, engine, soft, lock_count, CRITICAL, front>>
  BY DEF SwitchRequested
<1>2. CASE lock_count > 0 /\ UNCHANGED todo
  BY <1>1, <1>2, SameInv DEF Finished
<1>3. CASE ~(lock_count > 0) /\ todo' = Switch \o todo
  <2>1. PICK v, u : Matches(v) /\ Leads(driver, own, todo, v, u) /\ Resting(own, u)
    BY <1>1 DEF AccelInv, Course
  <2>2. v \in State /\ ~v.dead /\ v.locks = 0 /\ ~v.away /\ v.busy = CRITICAL
    BY <1>1, <1>3, <2>1 DEF Matches, State
  <2>3. ~v.hungry /\ Sound(driver, own, v)
    BY <2>1, <2>2 DEF Matches, Sound
  <2>4. driver = "mach32" => ~v.busy
    BY <1>1, <2>1, <2>2 DEF Matches, Sound
  <2>5. Leads(driver, own, Switch, v, v)
    BY <2>2, <2>3, <2>4, SwitchLeads
  <2> QED BY <1>1, <1>3, <2>1, <2>5, Interrupted, PlainSteps
<1> QED BY <1>2, <1>3 DEF SwitchRequested

(* A program that has not fed its bitmap is about to.                      *)
LEMMA HungryFeeds ==
  ASSUME AccelInv, NEW v, NEW u, Matches(v), Leads(driver, own, todo, v, u), Resting(own, u),
         v.hungry
  PROVE  /\ driver # "mach32" /\ todo # <<>> /\ Head(todo)[1] = "feed"
         /\ Len(todo) \in Nat \ {0} /\ Head(todo) = todo[1] /\ Fed(todo) /\ IsSeq(todo)
<1>1. ~v.dead /\ driver # "mach32"
  BY DEF Matches, Sound
<1>2. todo # <<>>
  BY <1>1, LeadsNowhere DEF Resting
<1>3. PICK w : Follows(driver, own, Head(todo), v, w)
  BY <1>2, LeadsOn
<1>4. /\ Len(todo) \in Nat \ {0} /\ Head(todo) = todo[1]
      /\ Fed(todo) /\ IsSeq(todo)
  BY <1>1, <1>2, SeqTail DEF AccelInv, Base
<1>5. Head(todo)[1] = "feed"
  BY <1>1, <1>3 DEF Follows, Allowed
<1> QED BY <1>1, <1>2, <1>4, <1>5

(* It has SIGINT blocked.                                                  *)
LEMMA HungryBlocked ==
  ASSUME AccelInv, NEW v, NEW u, Matches(v), Leads(driver, own, todo, v, u), Resting(own, u),
         v.hungry
  PROVE  Blocked("SIGINT")
<1>1. Len(todo) \in Nat \ {0} /\ Head(todo) = todo[1] /\ Fed(todo) /\ IsSeq(todo)
  BY HungryFeeds
<1>2. todo[1][1] = "feed"
  BY <1>1, HungryFeeds
<1>3. DOMAIN todo = 1..Len(todo)
  <2>1. PICK S : todo \in Seq(S)
    BY <1>1 DEF IsSeq
  <2> QED BY <2>1
<1>4. 1 \in 1..Len(todo)
  BY <1>1
<1>5. PICK j \in 2..Len(todo) : todo[j][1] = "unblock"
  BY <1>1, <1>2, <1>4 DEF Fed
<1>6. \A i \in 2..Len(todo) : todo[i][1] # "block"
  BY <1>1, <1>2, <1>4 DEF Fed
<1>7. j \in DOMAIN todo
  BY <1>1, <1>3
<1>8. \A i \in DOMAIN todo : i = 1 \/ i \in 2..Len(todo)
  BY <1>1, <1>3
<1>9. \A i \in DOMAIN todo : todo[i][1] # "block"
  BY <1>2, <1>6, <1>8
<1> QED BY <1>5, <1>7, <1>9 DEF Blocked

LEMMA HandlerLeads ==
  ASSUME NEW v \in State, ~v.dead, ~v.hungry, ~v.away, Sound(driver, own, v)
  PROVE  \E z \in State : z.dead /\ Leads(driver, own, signal_handler, v, z)
<1> DEFINE n == IF driver = "mach32" /\ v.busy THEN Less(v.locks) ELSE v.locks
           a == [v EXCEPT !.done = TRUE, !.busy = FALSE, !.locks = n]
           z == [v EXCEPT !.done = TRUE, !.busy = FALSE, !.locks = n, !.dead = TRUE]
           x == <<"die">>
<1>1. n \in Nat
  BY DEF Less, State
<1>2. driver # "mach32" => ~v.busy
  BY DEF Sound
<1>3. driver = "mach32" /\ ~v.busy => v.done
  BY DEF Sound
<1>4. IF driver = "mach32" /\ v.busy THEN n = Less(v.locks) ELSE n = v.locks
  OBVIOUS
<1> HIDE DEF n
<1>5. /\ a \in State /\ Alike(v, a) /\ a.locks = n /\ ~a.busy /\ a.done
      /\ z \in State /\ z.dead /\ z.locks = n /\ z.behind = v.behind /\ ~z.busy
      /\ z.bitmap = v.bitmap /\ z.hungry = v.hungry /\ z.away = v.away
  BY <1>1 DEF Alike, State
<1>6. x[1] = "die"
  OBVIOUS
<1> HIDE DEF a, z, x
<1>7. Sound(driver, own, a) /\ Sound(driver, own, z)
  BY <1>5 DEF Sound, Alike
<1>8. a.busy = v.busy \/ (driver = "mach32" /\ v.busy)
  BY <1>2, <1>5 DEF State
<1>9. Leads(driver, own, Sync, v, a)
  BY <1>3, <1>4, <1>5, <1>7, <1>8, SyncLeads
<1>10. Allowed(driver, own, x, a)
  BY <1>5, <1>6 DEF Allowed, Alike
<1>11. Makes(driver, x, a, z)
  BY <1>5, <1>6 DEF Makes, LocksAfter, Alike, State
<1>12. Leads(driver, own, <<x>>, a, z)
  BY <1>5, <1>7, <1>10, <1>11, Step DEF Alike
<1>13. Leads(driver, own, Sync \o <<x>>, v, z)
  BY <1>9, <1>12, LeadsJoin
<1> QED BY <1>5, <1>13 DEF signal_handler, idle_accel, x

LEMMA KilledInv ==
  ASSUME Gentle, AccelInv, NEW signal, Killed(signal) PROVE AccelInv'
<1>1. /\ front = "ours" /\ ~Blocked(signal)
      /\ signal = "SIGINT" \/ driver = "mach32" \/ ~Doing("feed")
      /\ todo' = signal_handler \o todo
      /\ UNCHANGED <<driver, own, chip, queue, engine, soft, lock_count, CRITICAL, front>>
  BY DEF Killed
<1>2. PICK v, u : Matches(v) /\ Leads(driver, own, todo, v, u) /\ Resting(own, u)
  BY <1>1 DEF AccelInv, Course
<1>3. ~v.hungry
  BY <1>1, <1>2, HungryFeeds, HungryBlocked DEF Doing
<1>4. v \in State /\ ~v.dead /\ ~v.away /\ Sound(driver, own, v)
  BY <1>1, <1>2 DEF Matches
<1>5. PICK z \in State : z.dead /\ Leads(driver, own, signal_handler, v, z)
  BY <1>3, <1>4, HandlerLeads
<1>6. IsSeq(todo)
  BY DEF AccelInv, Base
<1>7. Leads(driver, own, todo, z, z) /\ Resting(own, z)
  BY <1>5, <1>6, LeadsDead DEF Resting
<1> QED BY <1>1, <1>2, <1>5, <1>7, Interrupted, PlainSteps

-----------------------------------------------------------------------------
(* Within a call the console is locked, and the Mach32's driver is busy.   *)
(* The stage tells what the blitter's registers hold: a bitmap's blit, no  *)
(* bitmap's, any; or that it has begun a bitmap and waits for its data.    *)
Within(v, n, stage) ==
  /\ v \in State /\ ~v.dead /\ ~v.done /\ ~v.away /\ v.locks = n
  /\ v.busy <=> driver = "mach32"
  /\ v.hungry <=> stage = "hungry"
  /\ v.hungry => driver # "mach32"
  /\ stage = "plain" => ~v.bitmap
  /\ stage = "bitmap" => v.bitmap

Works(s, p, q) ==
  \A v : \A n \in Nat \ {0} :
    Within(v, n, p) => \E u : Within(u, n, q) /\ Leads(driver, own, s, v, u)

LEMMA WithinSound ==
  ASSUME NEW v, NEW n \in Nat \ {0}, NEW p, Within(v, n, p) PROVE Sound(driver, own, v)
BY DEF Within, Sound

LEMMA WorksEmpty == ASSUME NEW p PROVE Works(<<>>, p, p)
BY LeadsEmpty DEF Works

LEMMA WorksJoin ==
  ASSUME NEW s, NEW t, NEW p, NEW q, NEW r, Works(s, p, q), Works(t, q, r)
  PROVE  Works(s \o t, p, r)
<1>1. ASSUME NEW v, NEW n \in Nat \ {0}, Within(v, n, p)
      PROVE  \E u : Within(u, n, r) /\ Leads(driver, own, s \o t, v, u)
  <2>1. PICK w : Within(w, n, q) /\ Leads(driver, own, s, v, w)
    BY <1>1 DEF Works
  <2>2. PICK u : Within(u, n, r) /\ Leads(driver, own, t, w, u)
    BY <2>1 DEF Works
  <2>3. Leads(driver, own, s \o t, v, u)
    BY <2>1, <2>2, LeadsJoin
  <2> QED BY <2>2, <2>3
<1> QED BY <1>1 DEF Works

LEMMA WorksAny ==
  ASSUME NEW s, NEW p, NEW q \in {"any", "plain", "bitmap"}, Works(s, p, q)
  PROVE  Works(s, p, "any")
<1>1. \A u : \A n \in Nat \ {0} : Within(u, n, q) => Within(u, n, "any")
  BY DEF Within
<1> QED BY <1>1 DEF Works

(* One step within a call, after which behind, bitmap and hungry are b, m  *)
(* and h.                                                                  *)
LEMMA WorkStep ==
  ASSUME NEW x, NEW n \in Nat \ {0}, NEW p, NEW v, Within(v, n, p),
         NEW b \in BOOLEAN, NEW m \in BOOLEAN, NEW h \in BOOLEAN, NEW q,
         x[1] \in {"put", "start", "feed", "note", "wait", "finish", "settle", "block", "unblock"},
         Allowed(driver, own, x, v), x[1] = "wait" => driver # "mach32",
         b <=> IF x[1] = "note" /\ "background" \in DOMAIN x[2]
               THEN x[2].background ELSE v.behind,
         m <=> IF driver # "mach32" /\ x[1] = "put" /\ "blit" \in DOMAIN x[2]
               THEN x[2].blit.kind = "bitmap" ELSE v.bitmap,
         h <=> \/ x[1] = "start" /\ driver # "mach32" /\ v.bitmap
               \/ x[1] # "feed" /\ v.hungry,
         h <=> q = "hungry", q = "plain" => ~m, q = "bitmap" => m
  PROVE  \E u : Within(u, n, q) /\ Leads(driver, own, <<x>>, v, u)
<1> DEFINE k == v.busy
           u == [dead |-> FALSE, locks |-> n, busy |-> k, behind |-> b, done |-> FALSE,
                 bitmap |-> m, hungry |-> h, away |-> FALSE]
<1>1. k \in BOOLEAN
  BY DEF Within, State
<1> HIDE DEF k
<1>2. /\ u \in State /\ ~u.dead /\ u.locks = n /\ u.busy = k /\ u.behind = b /\ ~u.done
      /\ u.bitmap = m /\ u.hungry = h /\ ~u.away
  BY <1>1 DEF State
<1> HIDE DEF u
<1>3. v.hungry => driver # "mach32"
  BY DEF Within
<1>4. h => driver # "mach32"
  BY <1>3
<1>5. Within(u, n, q)
  BY <1>2, <1>4 DEF Within, k
<1>6. Sound(driver, own, v) /\ Sound(driver, own, u)
  BY <1>5, WithinSound
<1>7. u.locks = LocksAfter(x, v)
  BY <1>2 DEF LocksAfter, Within
<1>8. u.busy <=> \/ x[1] \in {"critical", "seize"}
                 \/ v.busy /\ x[1] \notin {"wait", "sync"} /\ (x[1] = "leave" => v.behind)
  BY <1>2 DEF k, Within
<1>9. (u.away <=> x[1] = "away" \/ (x[1] # "back" /\ v.away)) /\ (u.dead <=> x[1] = "die")
  BY <1>2 DEF Within
<1>10. Makes(driver, x, v, u)
  BY <1>2, <1>7, <1>8, <1>9 DEF Makes
<1>11. Leads(driver, own, <<x>>, v, u)
  BY <1>2, <1>6, <1>10, Step DEF Within
<1> QED BY <1>5, <1>11

LEMMA WorksPut ==
  ASSUME NEW r, NEW p, p # "hungry",
         NEW q, IF driver # "mach32" /\ "blit" \in DOMAIN r
                THEN q = IF r.blit.kind = "bitmap" THEN "bitmap" ELSE "plain"
                ELSE q = p
  PROVE  Works(Put(r), p, q)
<1>1. ASSUME NEW v, NEW n \in Nat \ {0}, Within(v, n, p)
      PROVE  \E u : Within(u, n, q) /\ Leads(driver, own, Put(r), v, u)
  <2> DEFINE x == <<"put", r>>
  <2>1. x[1] = "put" /\ x[2] = r
    OBVIOUS
  <2> HIDE DEF x
  <2>2. Allowed(driver, own, x, v)
    BY <1>1, <2>1 DEF Allowed, Within
  <2>3. v.behind \in BOOLEAN /\ v.bitmap \in BOOLEAN /\ ~v.hungry
    BY <1>1 DEF Within, State
  <2>4. PICK m \in BOOLEAN : m <=> IF driver # "mach32" /\ "blit" \in DOMAIN r
                                   THEN r.blit.kind = "bitmap" ELSE v.bitmap
    OBVIOUS
  <2>5. q # "hungry" /\ (q = "plain" => ~m) /\ (q = "bitmap" => m)
    BY <1>1, <2>4 DEF Within
  <2>6. PICK b \in BOOLEAN : b <=> v.behind
    BY <2>3
  <2>7. PICK h \in BOOLEAN : ~h
    OBVIOUS
  <2>8. \E u : Within(u, n, q) /\ Leads(driver, own, <<x>>, v, u)
    BY <1>1, <2>1, <2>2, <2>3, <2>4, <2>5, <2>6, <2>7, WorkStep
  <2> QED BY <2>8 DEF Put, x
<1> QED BY <1>1 DEF Works

LEMMA WorksNote ==
  ASSUME NEW r, NEW p, p # "hungry", "background" \in DOMAIN r => r.background \in BOOLEAN
  PROVE  Works(Note(r), p, p)
<1>1. ASSUME NEW v, NEW n \in Nat \ {0}, Within(v, n, p)
      PROVE  \E u : Within(u, n, p) /\ Leads(driver, own, Note(r), v, u)
  <2> DEFINE x == <<"note", r>>
  <2>1. x[1] = "note" /\ x[2] = r
    OBVIOUS
  <2> HIDE DEF x
  <2>2. Allowed(driver, own, x, v)
    BY <1>1, <2>1 DEF Allowed, Within
  <2>3. v.behind \in BOOLEAN /\ v.bitmap \in BOOLEAN /\ ~v.hungry
    BY <1>1 DEF Within, State
  <2>4. PICK b \in BOOLEAN : b <=> IF "background" \in DOMAIN r THEN r.background ELSE v.behind
    BY <2>3
  <2>5. (p = "plain" => ~v.bitmap) /\ (p = "bitmap" => v.bitmap)
    BY <1>1 DEF Within
  <2>6. PICK m \in BOOLEAN : m <=> v.bitmap
    BY <2>3
  <2>7. PICK h \in BOOLEAN : ~h
    OBVIOUS
  <2>8. \E u : Within(u, n, p) /\ Leads(driver, own, <<x>>, v, u)
    BY <1>1, <2>1, <2>2, <2>3, <2>4, <2>5, <2>6, <2>7, WorkStep
  <2> QED BY <2>8 DEF Note, x
<1> QED BY <1>1 DEF Works

(* Waits, and the block of the signals.                                    *)
LEMMA WorksIdly ==
  ASSUME NEW x, x[1] \in {"wait", "finish", "settle", "block", "unblock"}, driver # "mach32",
         NEW p, p # "hungry"
  PROVE  Works(<<x>>, p, p)
<1>1. ASSUME NEW v, NEW n \in Nat \ {0}, Within(v, n, p)
      PROVE  \E u : Within(u, n, p) /\ Leads(driver, own, <<x>>, v, u)
  <2>1. Allowed(driver, own, x, v)
    BY <1>1 DEF Allowed, Within
  <2>2. v.behind \in BOOLEAN /\ v.bitmap \in BOOLEAN /\ ~v.hungry
    BY <1>1 DEF Within, State
  <2>3. (p = "plain" => ~v.bitmap) /\ (p = "bitmap" => v.bitmap)
    BY <1>1 DEF Within
  <2>4. PICK b \in BOOLEAN, m \in BOOLEAN, h \in BOOLEAN :
          (b <=> v.behind) /\ (m <=> v.bitmap) /\ ~h
    BY <2>2
  <2> QED BY <1>1, <2>1, <2>2, <2>3, <2>4, WorkStep
<1> QED BY <1>1 DEF Works

LEMMA WorksStart ==
  ASSUME NEW p, NEW q,
         IF driver = "mach32" THEN p = "any" /\ q = "any"
         ELSE \/ p = "plain" /\ q = "plain"
              \/ p = "bitmap" /\ q = "hungry"
  PROVE  Works(Start, p, q)
<1>1. ASSUME NEW v, NEW n \in Nat \ {0}, Within(v, n, p)
      PROVE  \E u : Within(u, n, q) /\ Leads(driver, own, Start, v, u)
  <2> DEFINE x == <<"start">>
  <2>1. x[1] = "start"
    OBVIOUS
  <2> HIDE DEF x
  <2>2. Allowed(driver, own, x, v)
    BY <1>1, <2>1 DEF Allowed, Within
  <2>3. v.behind \in BOOLEAN /\ v.bitmap \in BOOLEAN /\ ~v.hungry
    BY <1>1 DEF Within, State
  <2>4. PICK h \in BOOLEAN : h <=> driver # "mach32" /\ v.bitmap
    OBVIOUS
  <2>5. (h <=> q = "hungry") /\ (q = "plain" => ~v.bitmap) /\ (q = "bitmap" => v.bitmap)
    BY <1>1, <2>4 DEF Within
  <2>6. \E u : Within(u, n, q) /\ Leads(driver, own, <<x>>, v, u)
    BY <1>1, <2>1, <2>2, <2>3, <2>4, <2>5, WorkStep
  <2> QED BY <2>6 DEF Start, x
<1> QED BY <1>1 DEF Works

LEMMA WorksFeed ==
  ASSUME NEW x, x[1] = "feed", NEW p, IF driver = "mach32" THEN p = "any" ELSE p = "hungry"
  PROVE  Works(<<x>>, p, "any")
<1>1. ASSUME NEW v, NEW n \in Nat \ {0}, Within(v, n, p)
      PROVE  \E u : Within(u, n, "any") /\ Leads(driver, own, <<x>>, v, u)
  <2>2. Allowed(driver, own, x, v)
    BY <1>1 DEF Allowed, Within
  <2>3. v.behind \in BOOLEAN /\ v.bitmap \in BOOLEAN
    BY <1>1 DEF Within, State
  <2>4. PICK b \in BOOLEAN, m \in BOOLEAN, h \in BOOLEAN :
          (b <=> v.behind) /\ (m <=> v.bitmap) /\ ~h
    BY <2>3
  <2> QED BY <1>1, <2>2, <2>3, <2>4, WorkStep
<1> QED BY <1>1 DEF Works

-----------------------------------------------------------------------------
(* The calls of the program.                                               *)
AtEase(v) ==
  /\ v \in State /\ ~v.dead /\ ~v.hungry /\ ~v.away /\ Sound(driver, own, v)
  /\ v.locks = own + (IF v.busy THEN 1 ELSE 0)
  /\ v.busy = CRITICAL

Returns(O, s, v) == \E u : Leads(driver, O, s, v, u) /\ Resting(O, u)

LEMMA CallInv ==
  ASSUME AccelInv, Ask, own' \in {0, 1}, driver # "mach32" => Fed(todo'),
         \A v : AtEase(v) => Sound(driver, own', v) /\ Returns(own', todo', v)
  PROVE  AccelInv'
<1>1. /\ front = "ours" /\ todo = <<>>
      /\ UNCHANGED <<driver, chip, queue, engine, soft, lock_count, CRITICAL, front>>
  BY DEF Ask
<1>2. PICK v, u : Matches(v) /\ Leads(driver, own, todo, v, u) /\ Resting(own, u)
  BY <1>1 DEF AccelInv, Course
<1>3. u = v
  BY <1>1, <1>2, LeadsNowhere
<1>4. AtEase(v)
  BY <1>2, <1>3 DEF Matches, Resting, AtEase
<1>5. PICK z : Leads(driver, own', todo', v, z) /\ Resting(own', z)
  BY <1>4 DEF Returns
<1>6. Sound(driver, own', v)
  BY <1>4
<1>7. Finished' = Finished
  BY <1>1 DEF Finished
<1>8. Sound(driver, own, v)'
  BY <1>1, <1>6
<1>9. Matches(v)'
  BY <1>1, <1>2, <1>7, <1>8 DEF Matches
<1>10. Leads(driver', own', todo', v, z) /\ Resting(own', z)
  BY <1>1, <1>5
<1>11. Course'
  BY <1>9, <1>10 DEF Course
<1>12. IsSeq(todo')
  BY <1>5 DEF Leads
<1>13. Base'
  BY <1>1, <1>12 DEF AccelInv, Base
<1> QED BY <1>11, <1>13 DEF AccelInv

(* Entering and leaving the drivers of the other chips.                    *)
LEMMA OtherReturns ==
  ASSUME driver # "mach32", own \in {0, 1}, NEW s, Works(s, "any", "any"),
         NEW v, AtEase(v)
  PROVE  Returns(own, vga_accel(s), v)
<1> DEFINE n == own + 1
           a == [v EXCEPT !.locks = n, !.done = FALSE]
<1>1. n \in Nat \ {0} /\ v.locks = own /\ ~v.busy /\ Less(n) = own
  BY DEF AtEase, Sound, Less
<1>2. /\ Alike(v, a) /\ a.locks = v.locks + 1 /\ a.busy = v.busy /\ ~a.done
      /\ a \in State /\ ~a.dead /\ ~a.hungry /\ ~a.away /\ a.locks = n
  BY <1>1 DEF Alike, State, AtEase
<1> HIDE DEF n, a
<1>3. Within(a, n, "any")
  BY <1>1, <1>2 DEF Within
<1>4. Sound(driver, own, a)
  BY <1>1, <1>3, WithinSound
<1>5. Leads(driver, own, Lock, v, a)
  BY <1>2, <1>4, LockLeads DEF AtEase
<1>6. PICK b : Within(b, n, "any") /\ Leads(driver, own, s, a, b)
  BY <1>1, <1>3 DEF Works
<1> DEFINE u == [b EXCEPT !.locks = own]
<1>7. /\ Alike(b, u) /\ u.locks = own /\ u.busy = b.busy /\ u.done = b.done
      /\ ~u.hungry /\ ~u.away /\ ~u.busy
  BY <1>6 DEF Alike, State, Within
<1> HIDE DEF u
<1>8. Sound(driver, own, b) /\ Sound(driver, own, u)
  BY <1>1, <1>6, <1>7, WithinSound DEF Sound
<1>9. u.locks = Less(b.locks)
  BY <1>1, <1>6, <1>7 DEF Within
<1>10. Leads(driver, own, Unlock, b, u)
  BY <1>6, <1>7, <1>8, <1>9, UnlockLeads DEF Within
<1>11. Leads(driver, own, (Lock \o s) \o Unlock, v, u)
  BY <1>5, <1>6, <1>10, LeadsJoin
<1>12. Resting(own, u)
  BY <1>7 DEF Resting
<1> QED BY <1>11, <1>12 DEF Returns, vga_accel

LEMMA EnterLeads ==
  ASSUME driver = "mach32", own \in {0, 1}, NEW v, AtEase(v)
  PROVE  \E u : Within(u, own + 1, "any") /\ Leads(driver, own, enter_accel, v, u)
<1> DEFINE n == own + 1
           u == [v EXCEPT !.locks = n, !.busy = TRUE, !.done = FALSE]
           x == <<"critical">>
           y == <<"extended">>
<1>1. n \in Nat \ {0} /\ (v.busy => v.locks = n) /\ (~v.busy => v.locks + 1 = n)
  BY DEF AtEase
<1>2. /\ u \in State /\ ~u.dead /\ ~u.done /\ ~u.away /\ u.locks = n /\ ~u.hungry
      /\ u.busy /\ Alike(v, u)
  BY <1>1 DEF Alike, State, AtEase
<1>3. x[1] = "critical" /\ y[1] = "extended"
  OBVIOUS
<1> HIDE DEF n, u, x, y
<1>4. Within(u, n, "any")
  BY <1>2 DEF Within
<1>5. Sound(driver, own, u)
  BY <1>1, <1>4, WithinSound
<1>6. Leads(driver, own, <<x>>, v, u)
  <2>1. v.locks >= own
    BY DEF AtEase
  <2>2. Allowed(driver, own, x, v)
    BY <1>3, <2>1 DEF Allowed, AtEase
  <2>3. Makes(driver, x, v, u)
    BY <1>1, <1>2, <1>3 DEF Makes, LocksAfter, Alike, State
  <2> QED BY <1>2, <1>5, <2>2, <2>3, Step DEF AtEase
<1>7. Leads(driver, own, <<y>>, u, u)
  <2>1. Allowed(driver, own, y, u)
    BY <1>2, <1>3 DEF Allowed
  <2>2. Makes(driver, y, u, u)
    BY <1>2, <1>3 DEF Makes, LocksAfter, State
  <2> QED BY <1>2, <1>5, <2>1, <2>2, Step
<1>8. Leads(driver, own, <<x, y>>, v, u)
  BY <1>6, <1>7, LeadsTwo
<1> QED BY <1>4, <1>8 DEF n, x, y, enter_accel

(* What a driver that draws in background does not give back it keeps.     *)
LEMMA LeaveReturns ==
  ASSUME driver = "mach32", own \in {0, 1}, NEW v, v \in State, ~v.dead, ~v.hungry, ~v.away,
         Sound(driver, own, v), v.locks = own + (IF v.busy THEN 1 ELSE 0),
         ~v.behind => v.busy \/ own = 0
  PROVE  Returns(own, Leave, v)
<1> DEFINE x == <<"leave">>
           n == Less(v.locks)
<1>1. x[1] = "leave"
  OBVIOUS
<1>2. n \in Nat
  BY DEF Less, State
<1> HIDE DEF x
<1>3. Allowed(driver, own, x, v)
  BY <1>1 DEF Allowed
<1>4. CASE v.behind
  <2> DEFINE u == [v EXCEPT !.done = FALSE]
  <2>1. CASE v.busy
    <3>1. Alike(v, u) /\ u.locks = v.locks /\ u.busy = v.busy /\ ~u.done
      BY DEF Alike, State
    <3> HIDE DEF u
    <3>2. Sound(driver, own, u)
      BY <2>1, <3>1 DEF Sound, Alike
    <3>3. Makes(driver, x, v, u)
      BY <1>1, <1>4, <3>1 DEF Makes, LocksAfter, Alike, State
    <3>4. Leads(driver, own, <<x>>, v, u)
      BY <1>3, <3>1, <3>2, <3>3, Step DEF Alike
    <3>5. Resting(own, u)
      BY <3>1 DEF Resting, Alike
    <3> QED BY <3>4, <3>5 DEF Returns, Leave, x
  <2>2. CASE ~v.busy
    <3>1. Makes(driver, x, v, v)
      BY <1>1, <1>4, <2>2 DEF Makes, LocksAfter, State
    <3>2. Leads(driver, own, <<x>>, v, v)
      BY <1>3, <3>1, Step
    <3>3. Resting(own, v)
      BY DEF Resting
    <3> QED BY <3>2, <3>3 DEF Returns, Leave, x
  <2> QED BY <2>1, <2>2
<1>5. CASE ~v.behind
  <2> DEFINE u == [v EXCEPT !.done = TRUE, !.busy = FALSE, !.locks = n]
  <2>1. Alike(v, u) /\ u.locks = n /\ ~u.busy /\ u.done
    BY <1>2 DEF Alike, State
  <2>2. n = own
    BY <1>5 DEF Less
  <2>3. u.locks = Less(v.locks)
    BY <2>1
  <2> HIDE DEF u, n
  <2>4. Sound(driver, own, u)
    BY <2>1 DEF Sound, Alike
  <2>5. Makes(driver, x, v, u)
    BY <1>1, <1>5, <2>1, <2>3 DEF Makes, LocksAfter, Alike, State
  <2>6. Leads(driver, own, <<x>>, v, u)
    BY <1>3, <2>1, <2>4, <2>5, Step DEF Alike
  <2>7. Resting(own, u)
    BY <2>1, <2>2 DEF Resting, Alike
  <2> QED BY <2>6, <2>7 DEF Returns, Leave, x
<1> QED BY <1>4, <1>5

LEMMA ReturnsAfter ==
  ASSUME NEW O, NEW s, NEW t, NEW v, NEW w, Leads(driver, O, s, v, w), Returns(O, t, w)
  PROVE  Returns(O, s \o t, v)
BY LeadsJoin DEF Returns

LEMMA MachReturns ==
  ASSUME driver = "mach32", own \in {0, 1}, NEW s, Works(s, "any", "any"), NEW v, AtEase(v)
  PROVE  Returns(own, mach32_accel(s), v)
<1>1. PICK a : Within(a, own + 1, "any") /\ Leads(driver, own, enter_accel, v, a)
  BY EnterLeads
<1>2. own + 1 \in Nat \ {0}
  OBVIOUS
<1>3. PICK b : Within(b, own + 1, "any") /\ Leads(driver, own, s, a, b)
  BY <1>1, <1>2 DEF Works
<1>4. Sound(driver, own, b)
  BY <1>2, <1>3, WithinSound
<1>5. /\ b \in State /\ ~b.dead /\ ~b.hungry /\ ~b.away /\ b.busy
      /\ b.locks = own + (IF b.busy THEN 1 ELSE 0)
  BY <1>3 DEF Within
<1>6. Returns(own, Leave, b)
  BY <1>4, <1>5, LeaveReturns
<1>7. Leads(driver, own, enter_accel \o s, v, b)
  BY <1>1, <1>3, LeadsJoin
<1>8. Returns(own, (enter_accel \o s) \o Leave, v)
  BY <1>6, <1>7, ReturnsAfter
<1> QED BY <1>8 DEF mach32_accel

LEMMA OtherInv ==
  ASSUME AccelInv, Ask, driver # "mach32", own' = own, NEW s, IsSeq(s), Fed(s),
         Works(s, "any", "any"), todo' = vga_accel(s)
  PROVE  AccelInv'
<1>1. own \in {0, 1}
  BY DEF AccelInv, Base
<1>2. Plain(Lock) /\ Plain(Unlock) /\ IsSeq(Lock) /\ IsSeq(Unlock)
  BY PlainSteps DEF Plain
<1>3. IsSeq(Lock \o s) /\ Fed(Lock \o s)
  BY <1>2, SeqJoin, FedBefore
<1>4. Fed((Lock \o s) \o Unlock)
  BY <1>2, <1>3, FedAfter
<1>5. Fed(todo')
  BY <1>4 DEF vga_accel
<1>6. \A v : AtEase(v) => Sound(driver, own', v) /\ Returns(own', todo', v)
  BY <1>1, OtherReturns DEF AtEase
<1> QED BY <1>1, <1>5, <1>6, CallInv

LEMMA MachInv ==
  ASSUME AccelInv, Ask, driver = "mach32", own' = own, NEW s, Works(s, "any", "any"),
         todo' = vga_accel(mach32_accel(s))
  PROVE  AccelInv'
<1>1. own \in {0, 1}
  BY DEF AccelInv, Base
<1>2. todo' = mach32_accel(s)
  BY DEF vga_accel
<1>3. \A v : AtEase(v) => Sound(driver, own', v) /\ Returns(own', todo', v)
  BY <1>1, <1>2, MachReturns DEF AtEase
<1> QED BY <1>1, <1>3, CallInv

(* The drivers' steps but for a bitmap's data.                             *)
Goes(s, p, q) == Plain(s) /\ Works(s, p, q)

LEMMA GoesJoin ==
  ASSUME NEW s, NEW t, NEW p, NEW q, NEW r, Goes(s, p, q), Goes(t, q, r)
  PROVE  Goes(s \o t, p, r)
BY PlainJoin, WorksJoin DEF Goes

LEMMA GoesAny == ASSUME NEW s, NEW p, Goes(s, p, "plain") PROVE Goes(s, p, "any")
BY WorksAny DEF Goes

LEMMA GoesEmpty == ASSUME NEW p PROVE Goes(<<>>, p, p)
BY PlainEmpty, WorksEmpty DEF Goes

(* Registers other than the blit's, and the driver's variables.            *)
LEMMA GoesPut ==
  ASSUME NEW r, NEW p, p # "hungry", driver = "mach32" \/ "blit" \notin DOMAIN r
  PROVE  Goes(Put(r), p, p)
BY PlainSteps, WorksPut DEF Goes

LEMMA GoesBlit ==
  ASSUME driver # "mach32", NEW b, b.kind # "bitmap" PROVE Goes(Put([blit |-> b]), "any", "plain")
<1> DEFINE r == [blit |-> b]
<1>1. "blit" \in DOMAIN r /\ r.blit.kind # "bitmap"
  OBVIOUS
<1> HIDE DEF r
<1>2. Works(Put(r), "any", "plain")
  BY <1>1, WorksPut
<1> QED BY <1>2, PlainSteps DEF Goes, r

LEMMA GoesNote ==
  ASSUME NEW r, NEW p, p # "hungry", "background" \in DOMAIN r => r.background \in BOOLEAN
  PROVE  Goes(Note(r), p, p)
BY PlainSteps, WorksNote DEF Goes

LEMMA GoesIdly ==
  ASSUME driver # "mach32", NEW p, p # "hungry"
  PROVE  /\ Goes(FINISHBACKGROUNDBLITS, p, p) /\ Goes(Settle, p, p)
         /\ Goes(WAITUNTILFINISHED, p, p)
<1>1. <<"finish">>[1] = "finish" /\ <<"settle">>[1] = "settle" /\ <<"wait">>[1] = "wait"
  OBVIOUS
<1>2. Plain(FINISHBACKGROUNDBLITS) /\ Plain(Settle) /\ Plain(WAITUNTILFINISHED)
  BY <1>1, PlainOne DEF FINISHBACKGROUNDBLITS, Settle, WAITUNTILFINISHED
<1>3. /\ Works(FINISHBACKGROUNDBLITS, p, p) /\ Works(Settle, p, p)
      /\ Works(WAITUNTILFINISHED, p, p)
  BY <1>1, WorksIdly DEF FINISHBACKGROUNDBLITS, Settle, WAITUNTILFINISHED
<1> QED BY <1>2, <1>3 DEF Goes

LEMMA GoesStart ==
  /\ driver = "mach32" => Goes(Start, "any", "any")
  /\ driver # "mach32" => Goes(Start, "plain", "plain")
<1>1. <<"start">>[1] = "start"
  OBVIOUS
<1>2. Plain(Start)
  BY <1>1, PlainOne DEF Start
<1> QED BY <1>2, WorksStart DEF Goes

LEMMA OtherGoes ==
  ASSUME AccelInv, Ask, driver # "mach32", own' = own, NEW s, Goes(s, "any", "any"),
         todo' = vga_accel(s)
  PROVE  AccelInv'
<1>1. IsSeq(s) /\ Fed(s) /\ Works(s, "any", "any")
  BY PlainFed DEF Goes, Plain
<1> QED BY <1>1, OtherInv

LEMMA MachGoes ==
  ASSUME AccelInv, Ask, driver = "mach32", own' = own, NEW s, Goes(s, "any", "any"),
         todo' = vga_accel(mach32_accel(s))
  PROVE  AccelInv'
<1>1. Works(s, "any", "any")
  BY DEF Goes
<1> QED BY <1>1, MachInv

(* Colors, operations and modes.                                           *)
LEMMA NoBlit ==
  \A c : /\ "blit" \notin DOMAIN [fg |-> c] /\ "blit" \notin DOMAIN [bg |-> c]
         /\ "background" \notin DOMAIN [fg |-> c] /\ "background" \notin DOMAIN [bg |-> c]
         /\ "background" \notin DOMAIN [balu |-> c]
OBVIOUS

LEMMA KeepGoes ==
  ASSUME driver = "mach32", NEW r, "background" \notin DOMAIN r
  PROVE  Goes(mach32_Keep(r), "any", "any")
BY GoesNote, GoesPut, GoesJoin DEF mach32_Keep

LEMMA ColorInv ==
  ASSUME AccelInv, NEW c, ACCEL_SETFGCOLOR(c) \/ ACCEL_SETBGCOLOR(c) PROVE AccelInv'
<1>1. Ask /\ own' = own /\ driver \in AllDrivers
  BY DEF ACCEL_SETFGCOLOR, ACCEL_SETBGCOLOR, Accelerated, Asks, AccelInv, Base
<1>2. CASE driver = "mach32"
  <2>1. Goes(mach32_Keep([fg |-> c]), "any", "any") /\ Goes(mach32_Keep([bg |-> c]), "any", "any")
    BY <1>2, NoBlit, KeepGoes
  <2>2. \/ todo' = vga_accel(mach32_accel(mach32_Keep([fg |-> c])))
        \/ todo' = vga_accel(mach32_accel(mach32_Keep([bg |-> c])))
    BY <1>2 DEF ACCEL_SETFGCOLOR, ACCEL_SETBGCOLOR
  <2> QED BY <1>1, <1>2, <2>1, <2>2, MachGoes
<1>3. CASE driver # "mach32"
  <2>1. /\ Goes(Put([fg |-> c]), "any", "any") /\ Goes(Put([bg |-> c]), "any", "any")
        /\ Goes(Note([fg |-> c]), "any", "any")
    BY NoBlit, GoesPut, GoesNote
  <2>2. Goes(FINISHBACKGROUNDBLITS \o Put([fg |-> c]), "any", "any")
    BY <1>3, <2>1, GoesIdly, GoesJoin
  <2>3. \/ todo' = vga_accel(Put([fg |-> c])) \/ todo' = vga_accel(Put([bg |-> c]))
        \/ todo' = vga_accel(Note([fg |-> c]))
        \/ todo' = vga_accel(FINISHBACKGROUNDBLITS \o Put([fg |-> c]))
    BY <1>1, <1>3
       DEF ACCEL_SETFGCOLOR, ACCEL_SETBGCOLOR, cirrusaccel_SetFGColor, AllDrivers
  <2> QED BY <1>1, <1>3, <2>1, <2>2, <2>3, OtherGoes
<1> QED BY <1>2, <1>3

LEMMA RasterOpInv ==
  ASSUME AccelInv, NEW r, ACCEL_SETRASTEROP(r) PROVE AccelInv'
<1>1. Ask /\ own' = own /\ driver \in AllDrivers
  BY DEF ACCEL_SETRASTEROP, Accelerated, Asks, AccelInv, Base
<1>2. CASE driver = "mach32"
  <2> DEFINE fn == mach32ropdefs[r]
             back == IF soft.balu # LeaveAlone THEN fn ELSE LeaveAlone
             a == [mix |-> fn, balu |-> back]
             b == [mix |-> fn, alu |-> fn, balu |-> back]
  <2>1. "background" \notin DOMAIN a
    OBVIOUS
  <2>2. todo' = vga_accel(mach32_accel(Note(a) \o Put(b)))
    BY <1>2 DEF ACCEL_SETRASTEROP, mach32_SETRASTEROP
  <2> HIDE DEF a, b
  <2>3. Goes(Note(a) \o Put(b), "any", "any")
    BY <1>2, <2>1, GoesNote, GoesPut, GoesJoin
  <2> QED BY <1>1, <1>2, <2>2, <2>3, MachGoes
<1>3. CASE driver # "mach32"
  <2> DEFINE a == [mix |-> ark_rop_map[r], alu |-> ark_rop_map[r], balu |-> ark_rop_map[r]]
             b == [mix |-> cirrus_rop_map[r], alu |-> cirrus_rop_map[r]]
  <2>1. "blit" \notin DOMAIN a /\ "blit" \notin DOMAIN b
    OBVIOUS
  <2>2. \/ todo' = vga_accel(Put(a))
        \/ todo' = vga_accel(FINISHBACKGROUNDBLITS \o Put(b))
    BY <1>1, <1>3
       DEF ACCEL_SETRASTEROP, arkaccel_SetRasterOp, cirrusaccel_SetRasterOp, AllDrivers
  <2> HIDE DEF a, b
  <2>3. Goes(Put(a), "any", "any") /\ Goes(Put(b), "any", "any")
    BY <2>1, GoesPut
  <2>4. Goes(FINISHBACKGROUNDBLITS \o Put(b), "any", "any")
    BY <1>3, <2>3, GoesIdly, GoesJoin
  <2> QED BY <1>1, <1>3, <2>2, <2>3, <2>4, OtherGoes
<1> QED BY <1>2, <1>3

LEMMA TransparencyInv ==
  ASSUME AccelInv, NEW on, ACCEL_SETTRANSPARENCY(on) PROVE AccelInv'
<1>1. Ask /\ own' = own /\ driver = "mach32"
  BY DEF ACCEL_SETTRANSPARENCY, Accelerated, Asks
<1> DEFINE a == mach32_Keep([balu |-> LeaveAlone])
           b == mach32_Keep([balu |-> soft.mix])
<1>2. Goes(a, "any", "any") /\ Goes(b, "any", "any") /\ Goes(<<>>, "any", "any")
  BY <1>1, NoBlit, KeepGoes, GoesEmpty
<1>3. \/ todo' = vga_accel(mach32_accel(a)) \/ todo' = vga_accel(mach32_accel(b))
      \/ todo' = vga_accel(mach32_accel(<<>>))
  BY DEF ACCEL_SETTRANSPARENCY, mach32_SETTRANSPARENCY
<1> HIDE DEF a, b
<1> QED BY <1>1, <1>2, <1>3, MachGoes

-----------------------------------------------------------------------------
(* Boxes filled and copied.                                                *)
LEMMA BlitGoes ==
  ASSUME driver # "mach32", NEW b, b.kind # "bitmap" PROVE Goes(arkaccel_Blit(b), "any", "any")
<1>1. Goes(FINISHBACKGROUNDBLITS, "any", "any") /\ Goes(Settle, "plain", "plain")
  BY GoesIdly
<1>2. Goes(FINISHBACKGROUNDBLITS \o Put([blit |-> b]), "any", "plain")
  BY <1>1, GoesBlit, GoesJoin
<1>3. Goes((FINISHBACKGROUNDBLITS \o Put([blit |-> b])) \o Start, "any", "plain")
  BY <1>2, GoesStart, GoesJoin
<1>4. Goes(((FINISHBACKGROUNDBLITS \o Put([blit |-> b])) \o Start) \o Settle, "any", "plain")
  BY <1>1, <1>3, GoesJoin
<1> QED BY <1>4, GoesAny DEF arkaccel_Blit

LEMMA CirrusFillGoes ==
  ASSUME driver # "mach32", NEW s PROVE Goes(cirrusaccel_FillBox(s), "any", "any")
<1> DEFINE b == Fill(s)
           f == Put([fg |-> soft.fg])
           g == Put([fg |-> "paper"])
           t == FINISHBACKGROUNDBLITS \o Put([blit |-> b])
<1>1. b.kind # "bitmap"
  BY DEF Fill
<1>2. Goes(f, "plain", "plain") /\ Goes(g, "plain", "plain")
  BY NoBlit, GoesPut
<1>3. cirrusaccel_FillBox(s) = (((t \o f) \o Start) \o WAITUNTILFINISHED) \o g
  BY DEF cirrusaccel_FillBox
<1> HIDE DEF b, f, g
<1>4. /\ Goes(FINISHBACKGROUNDBLITS, "any", "any")
      /\ Goes(WAITUNTILFINISHED, "plain", "plain")
  BY GoesIdly
<1>5. Goes(t, "any", "plain")
  BY <1>1, <1>4, GoesBlit, GoesJoin
<1> HIDE DEF t
<1>6. Goes(t \o f, "any", "plain")
  BY <1>2, <1>5, GoesJoin
<1>7. Goes((t \o f) \o Start, "any", "plain")
  BY <1>6, GoesStart, GoesJoin
<1>8. Goes(((t \o f) \o Start) \o WAITUNTILFINISHED, "any", "plain")
  BY <1>4, <1>7, GoesJoin
<1>9. Goes((((t \o f) \o Start) \o WAITUNTILFINISHED) \o g, "any", "plain")
  BY <1>2, <1>8, GoesJoin
<1> QED BY <1>3, <1>9, GoesAny

LEMMA MachBlitGoes ==
  ASSUME driver = "mach32", NEW b PROVE Goes(Put([blit |-> b]) \o Start, "any", "any")
BY GoesPut, GoesStart, GoesJoin

LEMMA BoxInv ==
  ASSUME AccelInv, NEW s, ACCEL_FILLBOX(s) \/ ACCEL_SCREENCOPY(s) PROVE AccelInv'
<1>1. Ask /\ own' = own /\ driver \in AllDrivers
  BY DEF ACCEL_FILLBOX, ACCEL_SCREENCOPY, Blits, Accelerated, AccelInv, Base
<1> DEFINE a == Fill(s)
           b == Copy(s, Backwards(s))
           c == Copy(s, mach32_Backwards(s))
<1>2. a.kind # "bitmap" /\ b.kind # "bitmap"
  BY DEF Fill, Copy
<1>3. \/ driver = "mach32" /\ todo' = vga_accel(mach32_accel(Put([blit |-> a]) \o Start))
      \/ driver = "mach32" /\ todo' = vga_accel(mach32_accel(Put([blit |-> c]) \o Start))
      \/ driver # "mach32" /\ todo' = vga_accel(arkaccel_Blit(a))
      \/ driver # "mach32" /\ todo' = vga_accel(arkaccel_Blit(b))
      \/ driver # "mach32" /\ todo' = vga_accel(cirrusaccel_FillBox(s))
  BY <1>1 DEF ACCEL_FILLBOX, ACCEL_SCREENCOPY, arkaccel_FillBox, arkaccel_ScreenCopy,
              cirrusaccel_mmio_FillBox, cirrusaccel_ScreenCopy, mach32_Blit, AllDrivers
<1> HIDE DEF a, b, c
<1>4. CASE driver = "mach32"
  <2>1. \A e : Goes(Put([blit |-> e]) \o Start, "any", "any")
    BY <1>4, MachBlitGoes
  <2> QED BY <1>1, <1>3, <1>4, <2>1, MachGoes
<1>5. CASE driver # "mach32"
  <2>1. /\ Goes(arkaccel_Blit(a), "any", "any") /\ Goes(arkaccel_Blit(b), "any", "any")
        /\ Goes(cirrusaccel_FillBox(s), "any", "any")
    BY <1>2, <1>5, BlitGoes, CirrusFillGoes
  <2> QED BY <1>1, <1>3, <1>5, <2>1, OtherGoes
<1> QED BY <1>4, <1>5

-----------------------------------------------------------------------------
(* Bitmaps, with the signals blocked before they are begun.                *)
LEMMA FeedSteps ==
  ASSUME driver # "mach32"
  PROVE  /\ IsSeq(<<<<"feed">>, <<"unblock">>>>) /\ Fed(<<<<"feed">>, <<"unblock">>>>)
         /\ Works(<<<<"feed">>, <<"unblock">>>>, "hungry", "any")
<1> DEFINE x == <<"feed">>
           y == <<"unblock">>
           s == <<x, y>>
<1>1. x[1] = "feed" /\ y[1] = "unblock"
  OBVIOUS
<1>2. s \in Seq({x, y}) /\ Len(s) = 2 /\ s[1] = x /\ s[2] = y
  OBVIOUS
<1>3. IsSeq(s)
  BY <1>2, Zenon DEF IsSeq
<1> HIDE DEF x, y, s
<1>4. Fed(s)
  <2>1. \A i \in 1..2 : s[i][1] = "feed" => i = 1
    BY <1>1, <1>2
  <2>2. 2 \in (1 + 1)..2 /\ \A j \in (1 + 1)..2 : j = 2
    OBVIOUS
  <2> QED BY <1>1, <1>2, <2>1, <2>2 DEF Fed
<1>5. ASSUME NEW v, NEW n \in Nat \ {0}, Within(v, n, "hungry")
      PROVE  \E u : Within(u, n, "any") /\ Leads(driver, own, <<x, y>>, v, u)
  <2>1. Works(<<x>>, "hungry", "any") /\ Works(<<y>>, "any", "any")
    BY <1>1, WorksFeed, WorksIdly
  <2>2. PICK w : Within(w, n, "any") /\ Leads(driver, own, <<x>>, v, w)
    BY <1>5, <2>1 DEF Works
  <2>3. PICK u : Within(u, n, "any") /\ Leads(driver, own, <<y>>, w, u)
    BY <2>1, <2>2 DEF Works
  <2> QED BY <2>2, <2>3, LeadsTwo
<1>6. Works(s, "hungry", "any")
  BY <1>5 DEF Works, s
<1> QED BY <1>3, <1>4, <1>6 DEF s, x, y

LEMMA ArkBitmap ==
  ASSUME driver # "mach32", NEW s, NEW bits
  PROVE  /\ IsSeq(arkaccel_PutBitmap(s, bits)) /\ Fed(arkaccel_PutBitmap(s, bits))
         /\ Works(arkaccel_PutBitmap(s, bits), "any", "any")
<1> DEFINE r == [blit |-> Bitmap(s, bits)]
           x == <<"block">>
           f == <<<<"feed">>, <<"unblock">>>>
           a == FINISHBACKGROUNDBLITS \o Put(r)
           b == (a \o <<x>>) \o Start
<1>1. "blit" \in DOMAIN r /\ r.blit.kind = "bitmap"
  BY DEF Bitmap, Fill
<1>2. x[1] = "block"
  OBVIOUS
<1>3. arkaccel_PutBitmap(s, bits) = (b \o f) \o WAITUNTILFINISHED
  BY DEF arkaccel_PutBitmap
<1> HIDE DEF r, x, f
<1>4. /\ Plain(FINISHBACKGROUNDBLITS) /\ Works(FINISHBACKGROUNDBLITS, "any", "any")
      /\ Plain(WAITUNTILFINISHED) /\ Works(WAITUNTILFINISHED, "any", "any")
  BY GoesIdly DEF Goes
<1>5. Plain(Put(r)) /\ Works(Put(r), "any", "bitmap")
  BY <1>1, PlainSteps, WorksPut
<1>6. Without(a, {"feed"}) /\ Works(a, "any", "bitmap")
  BY <1>4, <1>5, PlainJoin, WorksJoin DEF Plain, Without
<1>7. Without(<<x>>, {"feed"}) /\ Works(<<x>>, "bitmap", "bitmap")
  BY <1>2, WorksIdly, SeqOne DEF Without
<1> HIDE DEF a
<1>8. Without(Start, {"feed"}) /\ Works(Start, "bitmap", "hungry")
  BY GoesStart, WorksStart DEF Goes, Plain, Without
<1>9. Without(b, {"feed"}) /\ Works(b, "any", "hungry")
  BY <1>6, <1>7, <1>8, WithoutJoin, WorksJoin
<1> HIDE DEF b
<1>10. IsSeq(f) /\ Fed(f) /\ Works(f, "hungry", "any")
  BY FeedSteps DEF f
<1>11. IsSeq(b \o f) /\ Fed(b \o f) /\ Works(b \o f, "any", "any")
  BY <1>9, <1>10, SeqJoin, UnfedBefore, WorksJoin DEF Without
<1>12. /\ IsSeq((b \o f) \o WAITUNTILFINISHED) /\ Fed((b \o f) \o WAITUNTILFINISHED)
       /\ Works((b \o f) \o WAITUNTILFINISHED, "any", "any")
  BY <1>4, <1>11, SeqJoin, FedAfter, WorksJoin DEF Plain
<1> QED BY <1>3, <1>12

LEMMA MachBitmap ==
  ASSUME driver = "mach32", NEW b
  PROVE  Works(Put([blit |-> b]) \o Start \o <<<<"feed">>>>, "any", "any")
<1> DEFINE x == <<"feed">>
           t == Put([blit |-> b]) \o Start
<1>1. x[1] = "feed"
  OBVIOUS
<1> HIDE DEF x
<1>2. Works(t, "any", "any") /\ Works(<<x>>, "any", "any")
  BY <1>1, MachBlitGoes, WorksFeed DEF Goes
<1> HIDE DEF t
<1>3. Works(t \o <<x>>, "any", "any")
  BY <1>2, WorksJoin
<1> QED BY <1>3 DEF t, x

LEMMA BitmapInv ==
  ASSUME AccelInv, NEW s, NEW bits, ACCEL_PUTBITMAP(s, bits) PROVE AccelInv'
<1>1. Ask /\ own' = own /\ driver \in {"ark", "mach32"}
  BY DEF ACCEL_PUTBITMAP, Blits, Accelerated
<1>2. CASE driver = "mach32"
  <2> DEFINE t == Put([blit |-> Bitmap(s, bits)]) \o Start \o <<<<"feed">>>>
  <2>1. Works(t, "any", "any")
    BY <1>2, MachBitmap
  <2>2. todo' = vga_accel(mach32_accel(t))
    BY <1>2 DEF ACCEL_PUTBITMAP, mach32_PUTBITMAP
  <2> HIDE DEF t
  <2> QED BY <1>1, <1>2, <2>1, <2>2, MachInv
<1>3. CASE driver # "mach32"
  <2>1. driver = "ark"
    BY <1>1, <1>3
  <2>2. todo' = vga_accel(arkaccel_PutBitmap(s, bits))
    BY <2>1 DEF ACCEL_PUTBITMAP
  <2> QED BY <1>1, <1>3, <2>2, ArkBitmap, OtherInv
<1> QED BY <1>2, <1>3

-----------------------------------------------------------------------------
(* The background mode.                                                    *)
LEMMA MachModeReturns ==
  ASSUME driver = "mach32", own \in {0, 1}, NEW background \in BOOLEAN,
         ~background => own = 0 \/ CRITICAL, NEW v, AtEase(v)
  PROVE  Returns(own, Note([background |-> background]) \o Leave, v)
<1> DEFINE r == [background |-> background]
           x == <<"note", r>>
           u == [v EXCEPT !.behind = background]
<1>1. x[1] = "note" /\ x[2] = r /\ "background" \in DOMAIN r /\ r.background = background
  OBVIOUS
<1>2. /\ u \in State /\ u.dead = v.dead /\ u.locks = v.locks /\ u.busy = v.busy
      /\ u.done = v.done /\ u.bitmap = v.bitmap /\ u.hungry = v.hungry /\ u.away = v.away
      /\ u.behind = background
  BY DEF AtEase, State
<1> HIDE DEF u, x, r
<1>3. Sound(driver, own, u)
  BY <1>2 DEF Sound, AtEase
<1>4. Allowed(driver, own, x, v)
  BY <1>1 DEF Allowed, AtEase
<1>5. Makes(driver, x, v, u)
  BY <1>1, <1>2 DEF Makes, LocksAfter, AtEase, State
<1>6. Leads(driver, own, Note(r), v, u)
  <2>1. Leads(driver, own, <<x>>, v, u)
    BY <1>2, <1>3, <1>4, <1>5, Step DEF AtEase
  <2> QED BY <2>1 DEF Note, x
<1>7. u.locks = own + (IF u.busy THEN 1 ELSE 0)
  BY <1>2 DEF AtEase
<1>8. Returns(own, Leave, u)
  BY <1>2, <1>3, <1>7, LeaveReturns DEF AtEase
<1>9. Returns(own, Note(r) \o Leave, v)
  BY <1>6, <1>8, ReturnsAfter
<1> QED BY <1>9 DEF r

LEMMA ModeInv ==
  ASSUME Gentle, AccelInv, NEW background \in BOOLEAN, ACCEL_SETMODE(background)
  PROVE  AccelInv'
<1>1. Ask /\ own' = own /\ own \in {0, 1}
  BY DEF ACCEL_SETMODE, Accelerated, Asks, AccelInv, Base
<1> DEFINE note == Note([background |-> background])
<1>2. CASE driver = "mach32"
  <2>1. ~background => own = 0 \/ CRITICAL
    BY <1>2 DEF ACCEL_SETMODE
  <2>2. \A v : AtEase(v) => Returns(own, note \o Leave, v)
    BY <1>1, <1>2, <2>1, MachModeReturns
  <2>3. todo' = note \o Leave
    BY <1>2 DEF ACCEL_SETMODE, vga_accel
  <2> HIDE DEF note
  <2>4. \A v : AtEase(v) => Sound(driver, own', v) /\ Returns(own', todo', v)
    BY <1>1, <2>2, <2>3 DEF AtEase
  <2> QED BY <1>1, <1>2, <2>4, CallInv
<1>3. CASE driver # "mach32"
  <2>1. [background |-> background].background \in BOOLEAN
    OBVIOUS
  <2>2. Goes(note, "any", "any")
    BY <2>1, GoesNote
  <2>3. \/ todo' = vga_accel(<<>> \o note) \/ todo' = vga_accel(FINISHBACKGROUNDBLITS \o note)
    BY <1>3 DEF ACCEL_SETMODE
  <2> HIDE DEF note
  <2>4. /\ Goes(<<>> \o note, "any", "any")
        /\ Goes(FINISHBACKGROUNDBLITS \o note, "any", "any")
    BY <1>3, <2>2, GoesIdly, GoesEmpty, GoesJoin
  <2> QED BY <1>1, <1>3, <2>3, <2>4, OtherGoes
<1> QED BY <1>2, <1>3

(* Waiting for the engine.                                                 *)
LEMMA SyncReturns ==
  ASSUME own \in {0, 1}, NEW v, AtEase(v) PROVE Returns(own, Sync, v)
<1>1. CASE driver = "mach32" /\ v.busy
  <2> DEFINE u == [v EXCEPT !.busy = FALSE, !.done = TRUE, !.locks = own]
  <2>1. own \in Nat /\ v \in State
    BY DEF AtEase
  <2>2. Alike(v, u) /\ ~u.busy /\ u.done /\ u.locks = own
    BY <2>1 DEF Alike, State
  <2> HIDE DEF u
  <2>3. own = Less(v.locks)
    BY <1>1 DEF Less, AtEase
  <2>4. Sound(driver, own, u)
    BY <1>1, <2>2 DEF Sound, Alike, AtEase
  <2>5. Leads(driver, own, Sync, v, u)
    BY <1>1, <2>2, <2>3, <2>4, SyncLeads DEF AtEase
  <2> QED BY <2>2, <2>5 DEF Returns, Resting, Alike, AtEase
<1>2. CASE ~(driver = "mach32" /\ v.busy)
  <2>1. Alike(v, v)
    BY DEF Alike, AtEase
  <2>2. Leads(driver, own, Sync, v, v)
    BY <1>2, <2>1, SyncLeads DEF AtEase
  <2> QED BY <2>2 DEF Returns, Resting, AtEase
<1> QED BY <1>1, <1>2

LEMMA SyncInv == ASSUME AccelInv, ACCEL_SYNC PROVE AccelInv'
<1>1. Ask /\ own' = own /\ own \in {0, 1} /\ todo' = Sync
  BY DEF ACCEL_SYNC, Accelerated, Asks, AccelInv, Base
<1>2. Fed(todo')
  BY <1>1, PlainSteps, PlainFed
<1>3. \A v : AtEase(v) => Sound(driver, own', v) /\ Returns(own', todo', v)
  BY <1>1, SyncReturns DEF AtEase
<1> QED BY <1>1, <1>2, <1>3, CallInv

-----------------------------------------------------------------------------
(* The Mach32's old calls, made when it is not drawing in background.      *)
LEMMA OldReturns ==
  ASSUME driver = "mach32", own \in {0, 1}, ~CRITICAL, NEW s, Works(s, "any", "any"),
         NEW v, AtEase(v)
  PROVE  Returns(own, mach32_old(s), v)
<1> DEFINE x == <<"seize">>
           y == <<"standard">>
           n == own + 1
           a == [v EXCEPT !.busy = TRUE, !.done = FALSE]
           b == [v EXCEPT !.busy = TRUE, !.done = FALSE, !.locks = n]
<1>1. /\ x[1] = "seize" /\ y[1] = "standard" /\ n \in Nat \ {0} /\ Less(n) = own
      /\ ~v.busy /\ v.locks = own /\ v.locks + 1 = n
  BY DEF Less, AtEase
<1>2. /\ Alike(v, a) /\ a.busy = TRUE /\ ~a.done /\ a.locks = v.locks
      /\ a \in State /\ ~a.dead /\ ~a.hungry /\ ~a.away
  BY DEF Alike, State, AtEase
<1>3. /\ Alike(a, b) /\ b.busy = TRUE /\ ~b.done /\ b.locks = n
      /\ b \in State /\ ~b.dead /\ ~b.hungry /\ ~b.away
  BY <1>1 DEF Alike, State, AtEase
<1>4. mach32_old(s) =
        (((((<<x>> \o Lock) \o <<y>>) \o s) \o Start) \o WAITUNTILFINISHED) \o Unlock
  BY DEF mach32_old
<1> HIDE DEF x, y, n, a, b
<1>5. Within(b, n, "any")
  BY <1>3 DEF Within
<1>6. Sound(driver, own, a) /\ Sound(driver, own, b)
  BY <1>1, <1>2, <1>5, WithinSound DEF Sound
<1>7. Leads(driver, own, <<x>>, v, a)
  <2>1. Allowed(driver, own, x, v)
    BY <1>1 DEF Allowed, AtEase
  <2>2. Makes(driver, x, v, a)
    BY <1>1, <1>2 DEF Makes, LocksAfter, Alike, State
  <2> QED BY <1>2, <1>6, <2>1, <2>2, Step DEF AtEase
<1>8. Leads(driver, own, Lock, a, b)
  <2>1. b.locks = a.locks + 1 /\ b.busy = a.busy
    BY <1>1, <1>2, <1>3
  <2> QED BY <1>2, <1>3, <1>6, <2>1, LockLeads
<1>9. Leads(driver, own, <<y>>, b, b)
  <2>1. Allowed(driver, own, y, b)
    BY <1>1, <1>3 DEF Allowed
  <2>2. Makes(driver, y, b, b)
    BY <1>1, <1>3 DEF Makes, LocksAfter, State
  <2> QED BY <1>3, <1>6, <2>1, <2>2, Step
<1>10. Works(s \o Start, "any", "any") /\ Works(Start, "any", "any")
  BY WorksStart, WorksJoin
<1>11. PICK c : Within(c, n, "any") /\ Leads(driver, own, s, b, c)
  BY <1>1, <1>5 DEF Works
<1>12. PICK d : Within(d, n, "any") /\ Leads(driver, own, Start, c, d)
  BY <1>1, <1>10, <1>11 DEF Works
<1> DEFINE e == [d EXCEPT !.busy = FALSE, !.done = TRUE]
           u == [d EXCEPT !.busy = FALSE, !.done = TRUE, !.locks = own]
<1>13. d \in State /\ d.locks = n /\ ~d.dead /\ ~d.hungry /\ ~d.away /\ own \in Nat
  BY <1>12 DEF Within
<1>14. Alike(d, e) /\ ~e.busy /\ e.done /\ e.locks = n
  BY <1>13 DEF Alike, State
<1>15. Alike(d, u) /\ ~u.busy /\ u.done /\ u.locks = own
  BY <1>13 DEF Alike, State
<1> HIDE DEF e, u
<1>16. /\ Alike(d, e) /\ Alike(e, u) /\ Alike(d, u) /\ ~e.busy /\ e.done /\ e.locks = n
       /\ ~u.busy /\ u.done /\ u.locks = own /\ d.locks = n
       /\ ~d.dead /\ ~d.hungry /\ ~d.away
  BY <1>13, <1>14, <1>15 DEF Alike
<1>17. Sound(driver, own, d) /\ Sound(driver, own, e) /\ Sound(driver, own, u)
  BY <1>1, <1>12, <1>16, WithinSound DEF Sound, Alike
<1>18. Leads(driver, own, WAITUNTILFINISHED, d, e)
  BY <1>16, <1>17, WaitLeads
<1>19. Leads(driver, own, Unlock, e, u)
  <2>1. u.locks = Less(e.locks) /\ (u.busy = e.busy) /\ ~e.dead /\ ~e.hungry /\ ~e.away
    BY <1>1, <1>16 DEF Alike, State
  <2> QED BY <1>16, <1>17, <2>1, UnlockLeads
<1>20. Leads(driver, own, (<<x>> \o Lock) \o <<y>>, v, b)
  BY <1>7, <1>8, <1>9, LeadsJoin
<1>21. Leads(driver, own, (((<<x>> \o Lock) \o <<y>>) \o s) \o Start, v, d)
  BY <1>11, <1>12, <1>20, LeadsJoin
<1>22. Leads(driver, own, mach32_old(s), v, u)
  BY <1>4, <1>18, <1>19, <1>21, LeadsJoin
<1> QED BY <1>16, <1>22 DEF Returns, Resting, Alike

LEMMA OldInv ==
  ASSUME Gentle, AccelInv, NEW s, (\E c \in Inks : vga_fillblt(s, c)) \/ vga_bitblt(s)
  PROVE  AccelInv'
<1>1. Ask /\ own' = own /\ own \in {0, 1} /\ driver = "mach32" /\ ~CRITICAL
  BY DEF vga_fillblt, vga_bitblt, Old, AccelInv, Base
<1>2. PICK r : todo' = mach32_old(Put(r))
  BY DEF vga_fillblt, vga_bitblt, mach32_fillblt, mach32_bitblt
<1>3. Works(Put(r), "any", "any")
  BY <1>1, WorksPut
<1>4. \A v : AtEase(v) => Sound(driver, own', v) /\ Returns(own', todo', v)
  BY <1>1, <1>2, <1>3, OldReturns DEF AtEase
<1> QED BY <1>1, <1>4, CallInv

-----------------------------------------------------------------------------
(* The rest of the program, and the whole.                                 *)
LEMMA PlotInv == ASSUME AccelInv, NEW a, Plot(a) PROVE AccelInv'
<1>1. Ask /\ own' = own /\ own \in {0, 1} /\ todo' = <<>>
  BY DEF Plot, Ask, AccelInv, Base
<1>2. Fed(todo')
  BY <1>1, PlainEmpty, PlainFed
<1>3. \A v : AtEase(v) => Sound(driver, own', v) /\ Returns(own', todo', v)
  BY <1>1, LeadsEmpty DEF Returns, Resting, AtEase
<1> QED BY <1>1, <1>2, <1>3, CallInv

LEMMA ProgramLocksInv == ASSUME AccelInv, ProgramLocks PROVE AccelInv'
<1>1. Ask /\ own' \in {0, 1} /\ own \in {0, 1}
  BY DEF ProgramLocks, AccelInv, Base
<1>2. CASE own = 0 /\ own' = 1 /\ todo' = Lock
  <2>1. ASSUME NEW v, AtEase(v) PROVE Sound(driver, 1, v) /\ Returns(1, Lock, v)
    <3> DEFINE n == v.locks + 1
               u == [v EXCEPT !.locks = n]
    <3>1. v \in State /\ n \in Nat /\ v.locks = (IF v.busy THEN 1 ELSE 0)
      BY <1>2, <2>1 DEF AtEase, State
    <3>2. Sound(driver, 1, v)
      BY <1>2, <2>1, <3>1 DEF AtEase, Sound
    <3>3. Alike(v, u) /\ u.locks = n /\ u.busy = v.busy /\ u.done = v.done
      BY <3>1 DEF Alike, State
    <3> HIDE DEF u
    <3>4. Sound(driver, 1, u)
      BY <2>1, <3>1, <3>2, <3>3 DEF Sound, Alike, AtEase
    <3>5. Leads(driver, 1, Lock, v, u)
      BY <2>1, <3>2, <3>3, <3>4, LockLeads DEF AtEase
    <3>6. u.locks = 1 + (IF u.busy THEN 1 ELSE 0)
      BY <3>1, <3>3
    <3>7. Resting(1, u)
      BY <2>1, <3>3, <3>6 DEF Resting, Alike, AtEase
    <3> QED BY <3>2, <3>5, <3>7 DEF Returns
  <2>2. Fed(todo')
    BY <1>2, PlainSteps, PlainFed
  <2> QED BY <1>1, <1>2, <2>1, <2>2, CallInv
<1>3. CASE own = 1 /\ own' = 0 /\ todo' = Unlock
  <2>1. ASSUME NEW v, AtEase(v) PROVE Sound(driver, 0, v) /\ Returns(0, Unlock, v)
    <3> DEFINE n == IF v.busy THEN 1 ELSE 0
               u == [v EXCEPT !.locks = n]
    <3>1. v \in State /\ n \in Nat /\ v.locks = n + 1 /\ Less(v.locks) = n
      BY <1>3, <2>1 DEF AtEase, Less
    <3>2. Sound(driver, 0, v)
      BY <1>3, <2>1, <3>1 DEF AtEase, Sound
    <3>3. Alike(v, u) /\ u.locks = n /\ u.busy = v.busy /\ u.done = v.done
      BY <3>1 DEF Alike, State
    <3> HIDE DEF u
    <3>4. Sound(driver, 0, u)
      BY <2>1, <3>1, <3>2, <3>3 DEF Sound, Alike, AtEase
    <3>5. v.locks <= 1 => ~v.busy
      BY <3>1
    <3>6. Leads(driver, 0, Unlock, v, u)
      BY <2>1, <3>1, <3>2, <3>3, <3>4, <3>5, UnlockLeads DEF AtEase
    <3>7. Resting(0, u)
      BY <2>1, <3>3 DEF Resting, Alike, AtEase
    <3> QED BY <3>2, <3>6, <3>7 DEF Returns
  <2>2. Fed(todo')
    BY <1>3, PlainSteps, PlainFed
  <2> QED BY <1>1, <1>3, <2>1, <2>2, CallInv
<1> QED BY <1>2, <1>3 DEF ProgramLocks

LEMMA ProgramInv == ASSUME Gentle, AccelInv, Program PROVE AccelInv'
<1>1. CASE \E c \in Inks : ACCEL_SETFGCOLOR(c) \/ ACCEL_SETBGCOLOR(c)
  BY <1>1, ColorInv
<1>2. CASE \E r \in Rops : ACCEL_SETRASTEROP(r)
  BY <1>2, RasterOpInv
<1>3. CASE \E on \in BOOLEAN : ACCEL_SETTRANSPARENCY(on) \/ ACCEL_SETMODE(on)
  BY <1>3, TransparencyInv, ModeInv
<1>4. CASE \E s \in Shapes : \/ ACCEL_FILLBOX(s)
                             \/ \E c \in Inks : vga_fillblt(s, c)
                             \/ \E bits \in Stencils : ACCEL_PUTBITMAP(s, bits)
  BY <1>4, BoxInv, OldInv, BitmapInv
<1>5. CASE \E m \in Moves : ACCEL_SCREENCOPY(m) \/ vga_bitblt(m)
  BY <1>5, BoxInv, OldInv
<1>6. CASE ACCEL_SYNC \/ ProgramLocks
  BY <1>6, SyncInv, ProgramLocksInv
<1>7. CASE \E a \in Dots : Plot(a)
  BY <1>7, PlotInv
<1> QED BY <1>1, <1>2, <1>3, <1>4, <1>5, <1>6, <1>7 DEF Program

LEMMA AccelInitInv == ASSUME AccelInit PROVE AccelInv
<1> DEFINE v == [dead |-> FALSE, locks |-> own, busy |-> FALSE, behind |-> FALSE,
                 done |-> TRUE, bitmap |-> FALSE, hungry |-> FALSE, away |-> FALSE]
<1>1. /\ driver \in AllDrivers /\ own \in {0, 1} /\ lock_count = own /\ CRITICAL = FALSE
      /\ front = "ours" /\ queue = <<>> /\ engine = "idle" /\ todo = <<>>
      /\ "background" \in DOMAIN soft /\ soft.background = FALSE
  BY AccelAssumption DEF AccelInit
<1>2. "blit" \in DOMAIN chip /\ chip.blit.kind # "bitmap"
  <2> DEFINE i == Initialised("paper", "COPY")
             r == [fg |-> "ink", bg |-> "paper", blit |-> Fill(<<0, 1, 1>>)]
  <2>1. "blit" \in DOMAIN r /\ r.blit.kind = "fill"
    BY DEF Fill
  <2>2. chip = Updated(i, r)
    BY DEF AccelInit
  <2> HIDE DEF i, r
  <2> QED BY <2>1, <2>2 DEF Updated
<1>3. IsSeq(todo) /\ Fed(todo)
  BY <1>1, PlainEmpty, PlainFed DEF Plain
<1>4. Base
  BY <1>1, <1>2, <1>3 DEF Base
<1>5. /\ v \in State /\ ~v.dead /\ v.locks = own /\ ~v.busy /\ ~v.behind /\ v.done
      /\ ~v.bitmap /\ ~v.hungry /\ ~v.away
      /\ v.busy = FALSE /\ v.behind = FALSE /\ v.bitmap = FALSE /\ v.away = FALSE
  BY <1>1 DEF State
<1> HIDE DEF v
<1>6. Sound(driver, own, v)
  BY <1>5 DEF Sound
<1>7. Matches(v)
  BY <1>1, <1>2, <1>5, <1>6 DEF Matches, Finished
<1>8. Leads(driver, own, todo, v, v)
  BY <1>1, LeadsEmpty
<1>9. Resting(own, v)
  BY <1>1, <1>5 DEF Resting
<1> QED BY <1>4, <1>7, <1>8, <1>9 DEF AccelInv, Course

LEMMA AccelStep == ASSUME Gentle, AccelInv, [AccelNext]_accelvars PROVE AccelInv'
<1>1. CASE Program
  BY <1>1, ProgramInv
<1>2. CASE Proceed
  BY <1>2, ProceedInv
<1>3. CASE EngineRuns \/ QueueRuns
  BY <1>3, EngineInv
<1>4. CASE Signal
  BY <1>4, SwitchInv, KilledInv DEF Signal
<1>5. CASE UNCHANGED accelvars
  BY <1>5, SameInv DEF accelvars, Finished
<1> QED BY <1>1, <1>2, <1>3, <1>4, <1>5 DEF AccelNext

LEMMA AccelKept == ASSUME Gentle PROVE AccelSpec => []AccelInv
<1>1. AccelInit => AccelInv
  BY AccelInitInv
<1>2. AccelInv /\ [AccelNext]_accelvars => AccelInv'
  BY AccelStep
<1> QED BY <1>1, <1>2, PTL DEF AccelSpec

LEMMA InvGuarded == ASSUME AccelInv PROVE Guarded
<1>1. CASE front = "dead"
  BY <1>1 DEF AccelInv, Base, Guarded
<1>2. CASE front # "dead"
  <2>1. PICK v, u : Matches(v) /\ Leads(driver, own, todo, v, u) /\ Resting(own, u)
    BY <1>2 DEF AccelInv, Course
  <2>2. ASSUME front # "ours" PROVE Finished
    <3>1. front = "other"
      BY <1>2, <2>2 DEF AccelInv, Base
    <3> QED BY <2>1, <3>1 DEF Matches, Sound
  <2>3. ASSUME front = "ours", todo = <<>>
        PROVE  lock_count = own + (IF CRITICAL THEN 1 ELSE 0)
    <3>1. u = v
      BY <2>1, <2>3, LeadsNowhere
    <3> QED BY <2>1, <3>1 DEF Matches, Resting
  <2> QED BY <2>2, <2>3 DEF Guarded
<1> QED BY <1>1, <1>2

LEMMA InvMortal == ASSUME AccelInv PROVE Mortal
<1>1. SUFFICES ASSUME Doing("wait"), driver # "mach32", engine = "hungry" PROVE FALSE
  BY DEF Mortal
<1>2. front # "dead" /\ todo # <<>> /\ Head(todo)[1] = "wait"
  BY <1>1 DEF Doing
<1>3. PICK v, u : Matches(v) /\ Leads(driver, own, todo, v, u) /\ Resting(own, u)
  BY <1>2 DEF AccelInv, Course
<1>4. PICK w : Follows(driver, own, Head(todo), v, w)
  BY <1>2, <1>3, LeadsOn
<1>5. ~v.dead /\ v.hungry
  BY <1>1, <1>3 DEF Matches
<1> QED BY <1>2, <1>4, <1>5 DEF Follows, Allowed

-----------------------------------------------------------------------------
(* Numbers.                                                                *)
LEMMA Ascent ==
  ASSUME NEW S, S \subseteq Nat, 0 \in S, \A n \in S : n + 1 \in S
  PROVE  S = Nat
<1>1. SUFFICES ASSUME Nat \ S # {} PROVE FALSE
  OBVIOUS
<1> DEFINE R == OpToRel(<, Nat)
<1>2. \A x, y \in Nat : y < x => <<y, x>> \in R
  BY Zenon DEF OpToRel
<1>3. IsWellFoundedOn(R, Nat)
  BY NatLessThanWellFounded, Zenon
<1> HIDE DEF R
<1>4. PICK x \in Nat \ S : \A y \in Nat \ S : ~ (<<y, x>> \in R)
  BY <1>1, <1>3, WFMin, Zenon
<1>5. x # 0 /\ x - 1 \in Nat /\ x - 1 < x
  BY <1>4
<1>6. x - 1 \in S
  BY <1>2, <1>4, <1>5
<1> QED BY <1>4, <1>5, <1>6

LEMMA ProductInt == ASSUME NEW a \in Int, NEW b \in Int PROVE a * b \in Int
OBVIOUS

LEMMA ProductUp ==
  ASSUME NEW a \in Int, NEW b \in Int, NEW c \in Nat, a <= b
  PROVE  a * c <= b * c /\ c * a <= c * b
<1>1. (b - a) * c >= 0
  <2>1. b - a >= 0 /\ b - a \in Int
    OBVIOUS
  <2> QED BY <2>1
<1>2. (b - a) * c = b * c - a * c
  OBVIOUS
<1>3. a * c = c * a /\ b * c = c * b
  OBVIOUS
<1> QED BY <1>1, <1>2, <1>3, ProductInt

-----------------------------------------------------------------------------
(* The walk.  A line of n steps along its longer axis and m along the      *)
(* other has, at its i-th step, k of those: the nearest whole number, and  *)
(* halfway between two the one the direction says.                         *)
Near(s, n, m, i, k) ==
  LET e == 2 * (m * i) - 2 * (n * k)
  IN  IF s > 0 THEN -n <= e /\ e < n ELSE -n < e /\ e <= n

LEMMA NearBounds ==
  ASSUME NEW s \in {1, -1}, NEW n \in Nat \ {0}, NEW m \in Nat, m <= n,
         NEW i \in 0..n, NEW k \in Int, Near(s, n, m, i, k)
  PROVE  k \in 0..m
<1>1. m * i \in Nat /\ m * i <= m * n
  <2>1. m * i \in Int /\ m * n \in Int /\ m * 0 = 0
    OBVIOUS
  <2> QED BY <2>1, ProductUp
<1>2. n * k \in Int
  OBVIOUS
<1>3. CASE k < 0
  <2>1. n * k <= n * (-1)
    BY <1>3, ProductUp
  <2>2. n * (-1) = -n
    OBVIOUS
  <2> QED BY <1>1, <1>2, <2>1, <2>2 DEF Near
<1>4. CASE k > m
  <2>1. n * (m + 1) <= n * k
    BY <1>4, ProductUp
  <2>2. n * (m + 1) = m * n + n /\ m * n \in Int
    OBVIOUS
  <2> QED BY <1>1, <1>2, <2>1, <2>2 DEF Near
<1> QED BY <1>3, <1>4

LEMMA NearUnique ==
  ASSUME NEW s \in {1, -1}, NEW n \in Nat \ {0}, NEW m \in Nat, NEW i \in Nat,
         NEW j \in Int, NEW k \in Int, Near(s, n, m, i, j), Near(s, n, m, i, k)
  PROVE  j = k
<1>1. ASSUME NEW a \in Int, NEW b \in Int, a < b,
             Near(s, n, m, i, a), Near(s, n, m, i, b)
      PROVE  FALSE
  <2>1. n * (a + 1) <= n * b
    BY <1>1, ProductUp
  <2>2. n * (a + 1) = n * a + n /\ n * a \in Int /\ n * b \in Int /\ m * i \in Int
    OBVIOUS
  <2> QED BY <1>1, <2>1, <2>2 DEF Near
<1>2. ~(j < k) /\ ~(k < j)
  BY <1>1
<1> QED BY <1>2

(* From the other end the same number is the nearest.                      *)
LEMMA NearBack ==
  ASSUME NEW s \in {1, -1}, NEW n \in Nat, NEW m \in Nat, NEW i \in Int,
         NEW k \in Int
  PROVE  Near(s, n, m, i, k) <=> Near(-s, n, m, n - i, m - k)
<1>1. m * (n - i) = m * n - m * i /\ n * (m - k) = m * n - n * k
  OBVIOUS
<1>2. m * n \in Int /\ m * i \in Int /\ n * k \in Int
  OBVIOUS
<1>3. 2 * (m * (n - i)) - 2 * (n * (m - k)) = -(2 * (m * i) - 2 * (n * k))
  BY <1>1, <1>2
<1> QED BY <1>2, <1>3 DEF Near

LEMMA NearStep ==
  ASSUME NEW s \in {1, -1}, NEW n \in Nat \ {0}, NEW m \in Nat, m <= n,
         NEW i \in Nat, NEW k \in Int, Near(s, n, m, i, k),
         NEW d, d = 2 * (m * i) - 2 * (n * k) + 2 * m - n
  PROVE  /\ Steps(s, d) => Near(s, n, m, i + 1, k + 1)
         /\ ~Steps(s, d) => Near(s, n, m, i + 1, k)
<1>1. m * (i + 1) = m * i + m /\ n * (k + 1) = n * k + n
  OBVIOUS
<1>2. m * i \in Int /\ n * k \in Int
  OBVIOUS
<1> QED BY <1>1, <1>2 DEF Near, Steps

-----------------------------------------------------------------------------
Point == Int \X Int

Long(w) == IF w.flat THEN w.ax \div 2 ELSE w.ay \div 2
Short(w) == IF w.flat THEN w.ay \div 2 ELSE w.ax \div 2
Along(w) == IF w.flat THEN w.sx ELSE w.sy

LEMMA SlopeFacts ==
  ASSUME NEW p \in Point, NEW q \in Point
  PROVE  LET w == Slope(p, q)
             dx == q[1] - p[1]
             dy == q[2] - p[2]
         IN  /\ dx \in Int /\ dy \in Int
             /\ w.flat \in BOOLEAN /\ w.sx \in {1, -1} /\ w.sy \in {1, -1}
             /\ Long(w) \in Nat /\ Short(w) \in Nat /\ Short(w) <= Long(w)
             /\ w.flat => /\ Long(w) > Short(w)
                          /\ dx = w.sx * Long(w) /\ dy = w.sy * Short(w)
                          /\ w.ax = 2 * Long(w) /\ w.ay = 2 * Short(w)
                          /\ Long(w) = Magnitude(dx) /\ Short(w) = Magnitude(dy)
             /\ ~w.flat => /\ dx = w.sx * Short(w) /\ dy = w.sy * Long(w)
                           /\ w.ax = 2 * Short(w) /\ w.ay = 2 * Long(w)
                           /\ Long(w) = Magnitude(dy) /\ Short(w) = Magnitude(dx)
<1> DEFINE w == Slope(p, q)
           dx == q[1] - p[1]
           dy == q[2] - p[2]
<1>1. dx \in Int /\ dy \in Int
  BY DEF Point
<1>2. Magnitude(dx) \in Nat /\ Magnitude(dy) \in Nat
  BY <1>1 DEF Magnitude
<1>3. /\ w.ax = 2 * Magnitude(dx) /\ w.ay = 2 * Magnitude(dy)
      /\ w.sx = (IF dx >= 0 THEN 1 ELSE -1) /\ w.sy = (IF dy >= 0 THEN 1 ELSE -1)
  BY DEF Slope
<1>4. w.flat \in BOOLEAN /\ (w.flat <=> 2 * Magnitude(dx) > 2 * Magnitude(dy))
  <2>1. w.flat = (2 * Magnitude(dx) > 2 * Magnitude(dy))
    BY DEF Slope
  <2> DEFINE f == w.flat
             m == 2 * Magnitude(dx)
             n == 2 * Magnitude(dy)
  <2>2. m \in Int /\ n \in Int /\ f = (m > n)
    BY <1>2, <2>1
  <2> HIDE DEF f, m, n
  <2>3. f \in BOOLEAN
    BY <2>2
  <2>4. f <=> m > n
    BY <2>2, Zenon
  <2> QED BY <2>3, <2>4 DEF f, m, n
<1> HIDE DEF w, dx, dy
<1>5. /\ dx = w.sx * Magnitude(dx) /\ dy = w.sy * Magnitude(dy)
      /\ w.sx \in {1, -1} /\ w.sy \in {1, -1}
      /\ w.ax \div 2 = Magnitude(dx) /\ w.ay \div 2 = Magnitude(dy)
  BY <1>1, <1>2, <1>3 DEF Magnitude
<1>6. CASE w.flat
  <2>1. Long(w) = Magnitude(dx) /\ Short(w) = Magnitude(dy)
    BY <1>5, <1>6 DEF Long, Short
  <2> QED BY <1>1, <1>2, <1>3, <1>4, <1>5, <1>6, <2>1 DEF w, dx, dy
<1>7. CASE ~w.flat
  <2>1. Long(w) = Magnitude(dy) /\ Short(w) = Magnitude(dx)
    BY <1>5, <1>7 DEF Long, Short
  <2> QED BY <1>1, <1>2, <1>3, <1>4, <1>5, <1>7, <2>1 DEF w, dx, dy
<1> QED BY <1>4, <1>6, <1>7

LEMMA WalkUnfolds ==
  ASSUME NEW p, NEW q, Long(Slope(p, q)) \in Nat
  PROVE  LET w == Slope(p, q)
         IN  /\ DOMAIN Walk(p, q) = 0..Long(w)
             /\ Walk(p, q)[0] = Outset(w, p)
             /\ \A i \in 1..Long(w) : Walk(p, q)[i] = Onward(w, Walk(p, q)[i - 1])
<1> DEFINE w == Slope(p, q)
           n == Long(w)
           Def(g, k) == [i \in 0..k |-> IF i = 0 THEN Outset(w, p) ELSE Onward(w, g[i - 1])]
           S == {k \in Nat : \E g : g = Def(g, k)}
           At == CHOOSE g : g = Def(g, n)
<1>0. n = (IF w.flat THEN w.ax ELSE w.ay) \div 2
  BY DEF Long
<1>1. Walk(p, q) = At
  BY <1>0 DEF Walk
<1> HIDE DEF w
<1>2. 0 \in S
  <2> DEFINE g == [i \in 0..0 |-> Outset(w, p)]
  <2>1. g = Def(g, 0)
    OBVIOUS
  <2> QED BY <2>1
<1>3. ASSUME NEW k \in S PROVE k + 1 \in S
  <2>1. PICK g : g = Def(g, k)
    OBVIOUS
  <2>2. k \in Nat
    OBVIOUS
  <2> DEFINE h == [i \in 0..(k + 1) |-> IF i = k + 1 THEN Onward(w, g[k]) ELSE g[i]]
  <2>3. ASSUME NEW i \in 0..(k + 1)
        PROVE  h[i] = IF i = 0 THEN Outset(w, p) ELSE Onward(w, h[i - 1])
    <3>1. CASE i = k + 1
      BY <2>2, <3>1
    <3>2. CASE i # k + 1
      <4>1. i \in 0..k /\ h[i] = g[i] /\ (i # 0 => h[i - 1] = g[i - 1])
        BY <2>2, <3>2
      <4>2. g[i] = IF i = 0 THEN Outset(w, p) ELSE Onward(w, g[i - 1])
        BY <2>1, <4>1, Zenon
      <4> QED BY <4>1, <4>2
    <3> QED BY <3>1, <3>2
  <2>4. h = [i \in 0..(k + 1) |-> IF i = 0 THEN Outset(w, p) ELSE Onward(w, h[i - 1])]
    BY <2>3
  <2> HIDE DEF h
  <2>5. \E f : f = Def(f, k + 1)
    BY <2>4, Zenon
  <2> QED BY <2>2, <2>5
<1> HIDE DEF S
<1>4. S = Nat
  <2>1. S \subseteq Nat
    BY DEF S
  <2> QED BY <1>2, <1>3, <2>1, Ascent
<1>5. \E g : g = Def(g, n)
  BY <1>4 DEF S, w
<1>6. At = Def(At, n)
  BY <1>5, Zenon
<1> HIDE DEF At
<1>7. DOMAIN At = 0..n
  BY <1>6
<1>8. At[0] = Outset(w, p)
  <2>1. 0 \in 0..n
    BY DEF w
  <2> QED BY <1>6, <2>1
<1>9. ASSUME NEW i \in 1..n PROVE At[i] = Onward(w, At[i - 1])
  <2>1. i \in 0..n /\ i # 0
    BY DEF w
  <2>2. At[i] = Def(At, n)[i]
    BY <1>6, Zenon
  <2> QED BY <2>1, <2>2
<1> QED BY <1>1, <1>7, <1>8, <1>9 DEF w

(* What the walk is at its i-th step.                                      *)
Standing(w, p, i, k) ==
  [x |-> p[1] + w.sx * (IF w.flat THEN i ELSE k),
   y |-> p[2] + w.sy * (IF w.flat THEN k ELSE i),
   d |-> 2 * (Short(w) * i) - 2 * (Long(w) * k) + 2 * Short(w) - Long(w)]

LEMMA Sums ==
  ASSUME NEW u \in Int, NEW v \in Int, NEW m \in Int, NEW n \in Int,
         NEW d, d = 2 * u - 2 * v + 2 * m - n
  PROVE  /\ d - 2 * n + 2 * m = 2 * (u + m) - 2 * (v + n) + 2 * m - n
         /\ d + 2 * m = 2 * (u + m) - 2 * v + 2 * m - n
OBVIOUS

LEMMA Onwards ==
  ASSUME NEW w, w.flat \in BOOLEAN, w.sx \in {1, -1}, w.sy \in {1, -1},
         NEW n \in Nat, n = Long(w), NEW m \in Nat, m = Short(w),
         w.flat => w.ax = 2 * n /\ w.ay = 2 * m,
         ~w.flat => w.ax = 2 * m /\ w.ay = 2 * n,
         NEW p \in Point, NEW i \in Nat, NEW k \in Int, NEW a, a = Standing(w, p, i, k)
  PROVE  Onward(w, a) = IF Steps(Along(w), a.d) THEN Standing(w, p, i + 1, k + 1)
                        ELSE Standing(w, p, i + 1, k)
<1>1. m * (i + 1) = m * i + m /\ n * (k + 1) = n * k + n /\ m * i \in Int /\ n * k \in Int
  OBVIOUS
<1>2. p[1] \in Int /\ p[2] \in Int
  BY DEF Point
<1>3. /\ w.sx * (i + 1) = w.sx * i + w.sx /\ w.sy * (i + 1) = w.sy * i + w.sy
      /\ w.sx * (k + 1) = w.sx * k + w.sx /\ w.sy * (k + 1) = w.sy * k + w.sy
  OBVIOUS
<1>4. /\ w.sx * i \in Int /\ w.sy * i \in Int /\ w.sx * k \in Int /\ w.sy * k \in Int
      /\ w.sx \in Int /\ w.sy \in Int
  OBVIOUS
<1>5. CASE w.flat
  <2>1. /\ a.x = p[1] + w.sx * i /\ a.y = p[2] + w.sy * k
        /\ a.d = 2 * (m * i) - 2 * (n * k) + 2 * m - n
    BY <1>5 DEF Standing
  <2>2. Onward(w, a) =
          [x |-> a.x + w.sx, y |-> IF Steps(Along(w), a.d) THEN a.y + w.sy ELSE a.y,
           d |-> (IF Steps(Along(w), a.d) THEN a.d - 2 * n ELSE a.d) + 2 * m]
    BY <1>5 DEF Onward, Along
  <2>3. a.x + w.sx = p[1] + w.sx * (i + 1)
    BY <1>2, <1>3, <1>4, <2>1
  <2>4. a.y + w.sy = p[2] + w.sy * (k + 1)
    BY <1>2, <1>3, <1>4, <2>1
  <2>5. \A j \in Int :
          Standing(w, p, i + 1, j) =
            [x |-> p[1] + w.sx * (i + 1), y |-> p[2] + w.sy * j,
             d |-> 2 * (m * (i + 1)) - 2 * (n * j) + 2 * m - n]
    BY <1>5 DEF Standing
  <2>6. /\ a.d - 2 * n + 2 * m = 2 * (m * (i + 1)) - 2 * (n * (k + 1)) + 2 * m - n
        /\ a.d + 2 * m = 2 * (m * (i + 1)) - 2 * (n * k) + 2 * m - n
    <3> DEFINE u == m * i
               v == n * k
               d == a.d
    <3>1. u \in Int /\ v \in Int /\ n \in Int /\ m \in Int /\ d = 2 * u - 2 * v + 2 * m - n
      BY <1>1, <2>1
    <3> HIDE DEF u, v, d
    <3>2. /\ d - 2 * n + 2 * m = 2 * (u + m) - 2 * (v + n) + 2 * m - n
          /\ d + 2 * m = 2 * (u + m) - 2 * v + 2 * m - n
      BY <3>1, Sums
    <3>3. /\ a.d - 2 * n + 2 * m = 2 * (m * i + m) - 2 * (n * k + n) + 2 * m - n
          /\ a.d + 2 * m = 2 * (m * i + m) - 2 * (n * k) + 2 * m - n
      BY <3>2, Zenon DEF u, v, d
    <3> QED BY <1>1, <3>3, Zenon
  <2>7. CASE Steps(Along(w), a.d)
    BY <2>2, <2>3, <2>4, <2>5, <2>6, <2>7
  <2>8. CASE ~Steps(Along(w), a.d)
    BY <2>1, <2>2, <2>3, <2>5, <2>6, <2>8
  <2> QED BY <2>7, <2>8
<1>6. CASE ~w.flat
  <2>1. /\ a.x = p[1] + w.sx * k /\ a.y = p[2] + w.sy * i
        /\ a.d = 2 * (m * i) - 2 * (n * k) + 2 * m - n
    BY <1>6 DEF Standing
  <2>2. Onward(w, a) =
          [x |-> IF Steps(Along(w), a.d) THEN a.x + w.sx ELSE a.x, y |-> a.y + w.sy,
           d |-> (IF Steps(Along(w), a.d) THEN a.d - 2 * n ELSE a.d) + 2 * m]
    BY <1>6 DEF Onward, Along
  <2>3. a.y + w.sy = p[2] + w.sy * (i + 1)
    BY <1>2, <1>3, <1>4, <2>1
  <2>4. a.x + w.sx = p[1] + w.sx * (k + 1)
    BY <1>2, <1>3, <1>4, <2>1
  <2>5. \A j \in Int :
          Standing(w, p, i + 1, j) =
            [x |-> p[1] + w.sx * j, y |-> p[2] + w.sy * (i + 1),
             d |-> 2 * (m * (i + 1)) - 2 * (n * j) + 2 * m - n]
    BY <1>6 DEF Standing
  <2>6. /\ a.d - 2 * n + 2 * m = 2 * (m * (i + 1)) - 2 * (n * (k + 1)) + 2 * m - n
        /\ a.d + 2 * m = 2 * (m * (i + 1)) - 2 * (n * k) + 2 * m - n
    <3> DEFINE u == m * i
               v == n * k
               d == a.d
    <3>1. u \in Int /\ v \in Int /\ n \in Int /\ m \in Int /\ d = 2 * u - 2 * v + 2 * m - n
      BY <1>1, <2>1
    <3> HIDE DEF u, v, d
    <3>2. /\ d - 2 * n + 2 * m = 2 * (u + m) - 2 * (v + n) + 2 * m - n
          /\ d + 2 * m = 2 * (u + m) - 2 * v + 2 * m - n
      BY <3>1, Sums
    <3>3. /\ a.d - 2 * n + 2 * m = 2 * (m * i + m) - 2 * (n * k + n) + 2 * m - n
          /\ a.d + 2 * m = 2 * (m * i + m) - 2 * (n * k) + 2 * m - n
      BY <3>2, Zenon DEF u, v, d
    <3> QED BY <1>1, <3>3, Zenon
  <2>7. CASE Steps(Along(w), a.d)
    BY <2>2, <2>3, <2>4, <2>5, <2>6, <2>7
  <2>8. CASE ~Steps(Along(w), a.d)
    BY <2>1, <2>2, <2>3, <2>5, <2>6, <2>8
  <2> QED BY <2>7, <2>8
<1> QED BY <1>5, <1>6

(* Where the walk is, at each of its steps.                                *)
LEMMA WalkReaches ==
  ASSUME NEW p \in Point, NEW q \in Point, NEW w, w = Slope(p, q),
         NEW i \in 0..Long(w)
  PROVE  \E k \in 0..Short(w) :
           /\ Walk(p, q)[i] = Standing(w, p, i, k)
           /\ Long(w) # 0 => Near(Along(w), Long(w), Short(w), i, k)
<1> DEFINE n == Long(w)
           m == Short(w)
           Good(j) == \E k \in 0..m :
                        /\ Walk(p, q)[j] = Standing(w, p, j, k)
                        /\ n # 0 => Near(Along(w), n, m, j, k)
           S == {j \in Nat : j <= n => Good(j)}
<1>1. /\ w.flat \in BOOLEAN /\ w.sx \in {1, -1} /\ w.sy \in {1, -1}
      /\ n \in Nat /\ m \in Nat /\ m <= n
      /\ w.flat => w.ax = 2 * n /\ w.ay = 2 * m
      /\ ~w.flat => w.ax = 2 * m /\ w.ay = 2 * n
  BY SlopeFacts
<1>2. Along(w) \in {1, -1}
  BY <1>1 DEF Along
<1>3. /\ Walk(p, q)[0] = Outset(w, p)
      /\ \A j \in 1..n : Walk(p, q)[j] = Onward(w, Walk(p, q)[j - 1])
  BY <1>1, WalkUnfolds
<1> HIDE DEF n, m
<1>4. 0 \in S
  <2>1. m * 0 = 0 /\ n * 0 = 0 /\ w.sx * 0 = 0 /\ w.sy * 0 = 0
    BY <1>1
  <2>2. p[1] \in Int /\ p[2] \in Int
    BY DEF Point
  <2>3. Outset(w, p) = [x |-> p[1], y |-> p[2], d |-> 2 * m - n]
    <3>1. CASE w.flat
      <4>1. w.ay - (w.ax \div 2) = 2 * m - n
        BY <1>1, <3>1
      <4> QED BY <3>1, <4>1 DEF Outset
    <3>2. CASE ~w.flat
      <4>1. w.ax - (w.ay \div 2) = 2 * m - n
        BY <1>1, <3>2
      <4> QED BY <3>2, <4>1 DEF Outset
    <3> QED BY <3>1, <3>2
  <2>4. Standing(w, p, 0, 0) =
          [x |-> p[1] + 0, y |-> p[2] + 0, d |-> 2 * 0 - 2 * 0 + 2 * m - n]
    BY <2>1 DEF Standing, n, m
  <2>5. Standing(w, p, 0, 0) = [x |-> p[1], y |-> p[2], d |-> 2 * m - n]
    BY <1>1, <2>2, <2>4
  <2>6. n # 0 => Near(Along(w), n, m, 0, 0)
    BY <1>1, <1>2, <2>1 DEF Near
  <2>7. 0 \in 0..m
    BY <1>1
  <2> QED BY <1>3, <2>3, <2>5, <2>6, <2>7
<1>5. ASSUME NEW j \in S PROVE j + 1 \in S
  <2>1. j \in Nat
    OBVIOUS
  <2>2. SUFFICES ASSUME j + 1 <= n PROVE Good(j + 1)
    BY <2>1
  <2>3. PICK k \in 0..m : /\ Walk(p, q)[j] = Standing(w, p, j, k)
                          /\ n # 0 => Near(Along(w), n, m, j, k)
    BY <1>1, <2>1, <2>2
  <2> DEFINE a == Walk(p, q)[j]
  <2>4. /\ n \in Nat \ {0} /\ k \in Int /\ j + 1 \in 0..n /\ j + 1 \in 1..n
        /\ (j + 1) - 1 = j
    BY <1>1, <2>1, <2>2
  <2>5. a.d = 2 * (m * j) - 2 * (n * k) + 2 * m - n
    BY <2>3 DEF Standing, n, m
  <2>6. Walk(p, q)[j + 1] = Onward(w, a)
    BY <1>3, <2>4
  <2>7. Onward(w, a) = IF Steps(Along(w), a.d) THEN Standing(w, p, j + 1, k + 1)
                       ELSE Standing(w, p, j + 1, k)
    BY <1>1, <2>1, <2>3, <2>4, Onwards DEF n, m
  <2> HIDE DEF a
  <2>8. /\ Steps(Along(w), a.d) => Near(Along(w), n, m, j + 1, k + 1)
        /\ ~Steps(Along(w), a.d) => Near(Along(w), n, m, j + 1, k)
    BY <1>1, <1>2, <2>1, <2>3, <2>4, <2>5, NearStep
  <2>9. PICK l \in Int : Walk(p, q)[j + 1] = Standing(w, p, j + 1, l)
                         /\ Near(Along(w), n, m, j + 1, l)
    BY <2>4, <2>6, <2>7, <2>8
  <2>10. l \in 0..m
    BY <1>1, <1>2, <2>4, <2>9, NearBounds
  <2> QED BY <2>9, <2>10
<1> HIDE DEF S
<1>6. S = Nat
  <2>1. S \subseteq Nat
    BY DEF S
  <2> QED BY <1>4, <1>5, <2>1, Ascent
<1>7. i \in Nat /\ i <= n
  BY <1>1 DEF n
<1> QED BY <1>6, <1>7 DEF S, n, m

(* Averages, and what can be divided.                                      *)
LEMMA Divided ==
  ASSUME NEW n \in Nat \ {0}, NEW x \in Int, NEW y \in Int, n * x <= n * y
  PROVE  x <= y
<1>1. SUFFICES ASSUME x > y PROVE FALSE
  OBVIOUS
<1>2. n * (y + 1) <= n * x
  BY <1>1, ProductUp
<1>3. n * (y + 1) = n * y + n /\ n * y \in Int /\ n * x \in Int
  OBVIOUS
<1> QED BY <1>2, <1>3

LEMMA Weighted ==
  ASSUME NEW n \in Nat, NEW i \in 0..n, NEW a \in Int, NEW b \in Int,
         NEW lo \in Int, NEW hi \in Int, lo <= a, a <= hi, lo <= b, b <= hi
  PROVE  /\ (n - i) * a + i * b \in Int
         /\ n * lo <= (n - i) * a + i * b /\ (n - i) * a + i * b <= n * hi
<1>1. n - i \in Nat /\ i \in Nat
  OBVIOUS
<1>2. /\ (n - i) * lo <= (n - i) * a /\ (n - i) * a <= (n - i) * hi
      /\ i * lo <= i * b /\ i * b <= i * hi
  BY <1>1, ProductUp
<1>3. (n - i) * lo + i * lo = n * lo /\ (n - i) * hi + i * hi = n * hi
  OBVIOUS
<1>4. /\ (n - i) * lo \in Int /\ (n - i) * a \in Int /\ (n - i) * hi \in Int
      /\ i * lo \in Int /\ i * b \in Int /\ i * hi \in Int
      /\ n * lo \in Int /\ n * hi \in Int
  OBVIOUS
<1> QED BY <1>2, <1>3, <1>4

LEMMA ProductWithin ==
  ASSUME NEW x \in Int, NEW y \in Int, NEW a \in Nat, NEW b \in Nat,
         -a <= x, x <= a, -b <= y, y <= b
  PROVE  -(a * b) <= x * y /\ x * y <= a * b
<1>1. /\ (a - x) * (b + y) >= 0 /\ (a + x) * (b - y) >= 0
      /\ (a - x) * (b - y) >= 0 /\ (a + x) * (b + y) >= 0
  <2>1. /\ a - x \in Nat /\ a + x \in Nat /\ b - y \in Nat /\ b + y \in Nat
    OBVIOUS
  <2>2. \A u, v \in Nat : u * v >= 0
    OBVIOUS
  <2> QED BY <2>1, <2>2
<1>2. /\ (a - x) * (b + y) = a * b + a * y - x * b - x * y
      /\ (a + x) * (b - y) = a * b - a * y + x * b - x * y
      /\ (a - x) * (b - y) = a * b - a * y - x * b + x * y
      /\ (a + x) * (b + y) = a * b + a * y + x * b + x * y
  OBVIOUS
<1>3. a * b \in Int /\ a * y \in Int /\ x * b \in Int /\ x * y \in Int
  OBVIOUS
<1> QED BY <1>1, <1>2, <1>3

(* A point between two others, e / n of a step beside the line from the    *)
(* one to the other, is at most half a step further from a line than they. *)
Lies(n, m, i, k, t, u, l, a, b, z, r) ==
  /\ n \in Nat \ {0} /\ m \in Int /\ i \in 0..n /\ k \in Int
  /\ -n <= 2 * (n * k) - 2 * (m * i) /\ 2 * (n * k) - 2 * (m * i) <= n
  /\ t \in Int /\ u \in Int /\ l \in Nat /\ -l <= t /\ t <= l
  /\ a \in Int /\ b \in Int /\ b = a + t * m - u * n
  /\ z \in Nat /\ -z <= a /\ a <= z /\ -z <= b /\ b <= z
  /\ r = a + t * k - u * i

LEMMA Beside ==
  ASSUME NEW n, NEW m, NEW i, NEW k, NEW t, NEW u, NEW l, NEW a, NEW b, NEW z, NEW r,
         Lies(n, m, i, k, t, u, l, a, b, z, r)
  PROVE  r \in Int /\ -(2 * z + l) <= 2 * r /\ 2 * r <= 2 * z + l
<1> USE DEF Lies
<1> DEFINE e == n * k - m * i
           v == (n - i) * a + i * b
<1>1. n * k \in Int /\ m * i \in Int /\ t * k \in Int /\ u * i \in Int /\ e \in Int
  OBVIOUS
<1>2. r \in Int
  BY <1>1
<1>3. v \in Int /\ n * (-z) <= v /\ v <= n * z
  BY Weighted
<1>4. n * r = v + t * e
  <2>1. b = a + t * m - u * n
    OBVIOUS
  <2>2. v = (n - i) * a + i * (a + t * m - u * n)
    BY <2>1
  <2>3. n * (a + t * k - u * i) = (n - i) * a + i * (a + t * m - u * n) + t * (n * k - m * i)
    OBVIOUS
  <2> QED BY <2>2, <2>3
<1>5. -(l * n) <= t * (2 * e) /\ t * (2 * e) <= l * n
  <2>1. -n <= 2 * e /\ 2 * e <= n /\ 2 * e \in Int
    BY <1>1
  <2> QED BY <2>1, ProductWithin
<1>6. /\ t * (2 * e) = 2 * (t * e) /\ n * (2 * r) = 2 * (n * r)
      /\ n * (2 * z + l) = 2 * (n * z) + l * n
      /\ n * (-(2 * z + l)) = -(2 * (n * z)) - l * n
      /\ n * (-z) = -(n * z)
  BY <1>1, <1>2
<1>7. t * e \in Int /\ n * r \in Int /\ n * z \in Int /\ l * n \in Int
  BY <1>1, <1>2
<1> HIDE DEF e, v
<1>8. n * (-(2 * z + l)) <= n * (2 * r) /\ n * (2 * r) <= n * (2 * z + l)
  BY <1>3, <1>4, <1>5, <1>6, <1>7
<1>9. 2 * r \in Int /\ 2 * z + l \in Int /\ -(2 * z + l) \in Int
  BY <1>2
<1> QED BY <1>2, <1>8, <1>9, Divided

(* A pixel of the walk: after i steps along and k aside.                   *)
Spot(w, p, i, k) ==
  <<p[1] + w.sx * (IF w.flat THEN i ELSE k), p[2] + w.sy * (IF w.flat THEN k ELSE i)>>

LEMMA SpotsAt ==
  ASSUME NEW p \in Point, NEW q \in Point, NEW w, w = Slope(p, q),
         NEW i \in 0..Long(w)
  PROVE  \E k \in 0..Short(w) :
           /\ <<Walk(p, q)[i].x, Walk(p, q)[i].y>> = Spot(w, p, i, k)
           /\ Spot(w, p, i, k) \in PixelsOf(Walk(p, q))
           /\ Long(w) # 0 => Near(Along(w), Long(w), Short(w), i, k)
<1>1. PICK k \in 0..Short(w) : /\ Walk(p, q)[i] = Standing(w, p, i, k)
                               /\ Long(w) # 0 => Near(Along(w), Long(w), Short(w), i, k)
  BY WalkReaches
<1>2. <<Walk(p, q)[i].x, Walk(p, q)[i].y>> = Spot(w, p, i, k)
  BY <1>1 DEF Standing, Spot
<1>3. DOMAIN Walk(p, q) = 0..Long(w)
  <2>1. Long(w) \in Nat
    BY SlopeFacts
  <2> QED BY <2>1, WalkUnfolds
<1>4. Spot(w, p, i, k) \in PixelsOf(Walk(p, q))
  BY <1>2, <1>3 DEF PixelsOf
<1> QED BY <1>1, <1>2, <1>4

LEMMA PixelsAreSpots ==
  ASSUME NEW p \in Point, NEW q \in Point, NEW w, w = Slope(p, q),
         NEW r \in PixelsOf(Walk(p, q))
  PROVE  \E i \in 0..Long(w), k \in 0..Short(w) :
           /\ r = Spot(w, p, i, k)
           /\ Long(w) # 0 => Near(Along(w), Long(w), Short(w), i, k)
<1>1. Long(w) \in Nat
  BY SlopeFacts
<1>2. DOMAIN Walk(p, q) = 0..Long(w)
  BY <1>1, WalkUnfolds
<1>3. PICK i \in 0..Long(w) : r = <<Walk(p, q)[i].x, Walk(p, q)[i].y>>
  BY <1>2 DEF PixelsOf
<1> QED BY <1>3, SpotsAt

(* At a step the walk is in one place, and at the last it is at q.         *)
LEMMA OneSpot ==
  ASSUME NEW p \in Point, NEW q \in Point, NEW w, w = Slope(p, q),
         NEW i \in 0..Long(w), NEW k \in 0..Short(w),
         Long(w) # 0 => Near(Along(w), Long(w), Short(w), i, k)
  PROVE  Spot(w, p, i, k) \in PixelsOf(Walk(p, q))
<1>1. PICK l \in 0..Short(w) : /\ Spot(w, p, i, l) \in PixelsOf(Walk(p, q))
                               /\ Long(w) # 0 => Near(Along(w), Long(w), Short(w), i, l)
  BY SpotsAt
<1>2. /\ Long(w) \in Nat /\ Short(w) \in Nat /\ Short(w) <= Long(w)
      /\ Along(w) \in {1, -1}
  BY SlopeFacts DEF Along
<1>3. k = l
  <2>1. CASE Long(w) = 0
    BY <1>2, <2>1
  <2>2. CASE Long(w) # 0
    <3>1. /\ Long(w) \in Nat \ {0} /\ i \in Nat /\ k \in Int /\ l \in Int
      BY <1>2, <2>2
    <3> QED BY <1>1, <1>2, <2>2, <3>1, NearUnique
  <2> QED BY <2>1, <2>2
<1> QED BY <1>1, <1>3

LEMMA NearEnds ==
  ASSUME NEW s \in {1, -1}, NEW n \in Nat \ {0}, NEW m \in Nat
  PROVE  Near(s, n, m, 0, 0) /\ Near(s, n, m, n, m)
<1>1. m * 0 = 0 /\ n * 0 = 0 /\ m * n = n * m /\ n * m \in Int
  OBVIOUS
<1>2. 2 * (m * 0) - 2 * (n * 0) = 0 /\ 2 * (m * n) - 2 * (n * m) = 0
  BY <1>1
<1> QED BY <1>2 DEF Near

LEMMA EndSpots ==
  ASSUME NEW p \in Point, NEW q \in Point, NEW w, w = Slope(p, q)
  PROVE  Spot(w, p, 0, 0) = p /\ Spot(w, p, Long(w), Short(w)) = q
<1>1. p = <<p[1], p[2]>> /\ q = <<q[1], q[2]>> /\ p[1] \in Int /\ p[2] \in Int
      /\ q[1] \in Int /\ q[2] \in Int
  BY DEF Point
<1>2. w.sx \in {1, -1} /\ w.sy \in {1, -1} /\ w.flat \in BOOLEAN
  BY SlopeFacts
<1>3. w.sx * 0 = 0 /\ w.sy * 0 = 0
  BY <1>2
<1>4. Spot(w, p, 0, 0) = <<p[1] + w.sx * 0, p[2] + w.sy * 0>>
  BY <1>2 DEF Spot
<1>5. Spot(w, p, 0, 0) = p
  BY <1>1, <1>3, <1>4
<1>6. CASE w.flat
  <2>1. q[1] - p[1] = w.sx * Long(w) /\ q[2] - p[2] = w.sy * Short(w)
    BY <1>6, SlopeFacts
  <2>2. p[1] + w.sx * Long(w) = q[1] /\ p[2] + w.sy * Short(w) = q[2]
    BY <1>1, <2>1
  <2> QED BY <1>1, <1>5, <1>6, <2>2 DEF Spot
<1>7. CASE ~w.flat
  <2>1. q[1] - p[1] = w.sx * Short(w) /\ q[2] - p[2] = w.sy * Long(w)
    BY <1>7, SlopeFacts
  <2>2. p[1] + w.sx * Short(w) = q[1] /\ p[2] + w.sy * Long(w) = q[2]
    BY <1>1, <2>1
  <2> QED BY <1>1, <1>5, <1>7, <2>2 DEF Spot
<1> QED BY <1>2, <1>6, <1>7

(* Both ends are pixels.                                                   *)
LEMMA EndsDrawn ==
  ASSUME NEW p \in Point, NEW q \in Point
  PROVE  {p, q} \subseteq PixelsOf(Walk(p, q))
<1> DEFINE w == Slope(p, q)
<1>1. /\ Long(w) \in Nat /\ Short(w) \in Nat /\ Along(w) \in {1, -1}
      /\ Short(w) <= Long(w)
  BY SlopeFacts DEF Along
<1>2. Spot(w, p, 0, 0) = p /\ Spot(w, p, Long(w), Short(w)) = q
  BY EndSpots
<1>3. Long(w) # 0 => /\ Near(Along(w), Long(w), Short(w), 0, 0)
                     /\ Near(Along(w), Long(w), Short(w), Long(w), Short(w))
  BY <1>1, NearEnds
<1>4. /\ 0 \in 0..Long(w) /\ Long(w) \in 0..Long(w)
      /\ 0 \in 0..Short(w) /\ Short(w) \in 0..Short(w)
  BY <1>1
<1> HIDE DEF w
<1>5. Spot(w, p, 0, 0) \in PixelsOf(Walk(p, q))
  BY <1>3, <1>4, OneSpot DEF w
<1>6. Spot(w, p, Long(w), Short(w)) \in PixelsOf(Walk(p, q))
  BY <1>3, <1>4, OneSpot DEF w
<1> QED BY <1>2, <1>5, <1>6

(* One for each step along the longer axis, and the first.                 *)
LEMMA PixelsCounted ==
  ASSUME NEW p \in Point, NEW q \in Point
  PROVE  Cardinality(PixelsOf(Walk(p, q))) = Long(Slope(p, q)) + 1
<1> DEFINE w == Slope(p, q)
           n == Long(w)
           walk == Walk(p, q)
           f == [i \in 0..n |-> <<walk[i].x, walk[i].y>>]
           T == PixelsOf(walk)
<1>1. n \in Nat /\ w.sx \in {1, -1} /\ w.sy \in {1, -1} /\ w.flat \in BOOLEAN
  BY SlopeFacts
<1>2. DOMAIN walk = 0..n
  BY <1>1, WalkUnfolds
<1>3. T = {<<walk[i].x, walk[i].y>> : i \in 0..n}
  BY <1>2 DEF PixelsOf
<1>4. \A i \in 0..n : \E k \in Int : f[i] = Spot(w, p, i, k)
  BY SpotsAt
<1>5. ASSUME NEW i \in 0..n, NEW j \in 0..n, f[i] = f[j] PROVE i = j
  <2>1. PICK k, l \in Int : f[i] = Spot(w, p, i, k) /\ f[j] = Spot(w, p, j, l)
    BY <1>4
  <2>2. Spot(w, p, i, k) = Spot(w, p, j, l)
    BY <1>5, <2>1
  <2>3. p[1] \in Int /\ p[2] \in Int /\ i \in Int /\ j \in Int
    BY <1>1 DEF Point
  <2> HIDE DEF f, n, w
  <2>4. CASE w.flat
    <3>1. p[1] + w.sx * i = p[1] + w.sx * j
      BY <2>2, <2>4 DEF Spot
    <3> QED BY <1>1, <2>3, <3>1
  <2>5. CASE ~w.flat
    <3>1. p[2] + w.sy * i = p[2] + w.sy * j
      BY <2>2, <2>5 DEF Spot
    <3> QED BY <1>1, <2>3, <3>1
  <2> QED BY <1>1, <2>4, <2>5
<1>6. f \in [0..n -> T] /\ \A t \in T : \E i \in 0..n : f[i] = t
  BY <1>3
<1> HIDE DEF n, f, T
<1>7. f \in Surjection(0..n, T)
  BY <1>6 DEF Surjection
<1>8. f \in Injection(0..n, T)
  BY <1>5, <1>6 DEF Injection, IsInjective
<1>9. IsFiniteSet(0..n) /\ Cardinality(0..n) = n + 1
  BY <1>1, FS_Interval
<1>10. Cardinality(T) = Cardinality(0..n)
  BY <1>7, <1>8, <1>9, FS_Surjection
<1> QED BY <1>9, <1>10 DEF n, T

(* The same line backwards has the same pixels.                            *)
LEMMA SameBackwards ==
  ASSUME NEW p \in Point, NEW q \in Point
  PROVE  PixelsOf(Walk(p, q)) \subseteq PixelsOf(Walk(q, p))
<1> DEFINE w == Slope(p, q)
           v == Slope(q, p)
           n == Long(w)
           m == Short(w)
<1>1. /\ p[1] \in Int /\ p[2] \in Int /\ q[1] \in Int /\ q[2] \in Int
  BY DEF Point
<1>2. /\ v.ax = w.ax /\ v.ay = w.ay /\ v.flat = w.flat
      /\ q[1] # p[1] => v.sx = -w.sx
      /\ q[2] # p[2] => v.sy = -w.sy
  <2>1. /\ Magnitude(p[1] - q[1]) = Magnitude(q[1] - p[1])
        /\ Magnitude(p[2] - q[2]) = Magnitude(q[2] - p[2])
    BY <1>1 DEF Magnitude
  <2>2. v.ax = w.ax /\ v.ay = w.ay /\ v.flat = w.flat
    BY <2>1, Zenon DEF Slope
  <2>3. /\ w.sx = (IF q[1] - p[1] >= 0 THEN 1 ELSE -1)
        /\ w.sy = (IF q[2] - p[2] >= 0 THEN 1 ELSE -1)
        /\ v.sx = (IF p[1] - q[1] >= 0 THEN 1 ELSE -1)
        /\ v.sy = (IF p[2] - q[2] >= 0 THEN 1 ELSE -1)
    BY DEF Slope
  <2> HIDE DEF v, w
  <2> QED BY <1>1, <2>2, <2>3
<1>3. /\ n \in Nat /\ m \in Nat /\ m <= n /\ w.flat \in BOOLEAN
      /\ w.sx \in {1, -1} /\ w.sy \in {1, -1} /\ v.sx \in {1, -1} /\ v.sy \in {1, -1}
      /\ Along(w) \in {1, -1}
  BY SlopeFacts DEF Along
<1>4. Long(v) = n /\ Short(v) = m
  BY <1>2 DEF Long, Short
<1>5. /\ w.flat => q[1] - p[1] = w.sx * n /\ q[2] - p[2] = w.sy * m
      /\ ~w.flat => q[1] - p[1] = w.sx * m /\ q[2] - p[2] = w.sy * n
  BY SlopeFacts
<1> HIDE DEF n, m
<1>6. n # 0 => Along(v) = -Along(w)
  BY <1>1, <1>2, <1>3, <1>5 DEF Along
<1> SUFFICES ASSUME NEW r \in PixelsOf(Walk(p, q)) PROVE r \in PixelsOf(Walk(q, p))
  OBVIOUS
<1>7. PICK i \in 0..n, k \in 0..m : /\ r = Spot(w, p, i, k)
                                    /\ n # 0 => Near(Along(w), n, m, i, k)
  BY PixelsAreSpots DEF n, m
<1>8. n - i \in 0..n /\ m - k \in 0..m /\ i \in Int /\ k \in Int
  BY <1>3
<1>9. ASSUME n # 0 PROVE Near(Along(v), n, m, n - i, m - k)
  <2>1. Near(Along(w), n, m, i, k)
    BY <1>7, <1>9
  <2>2. Near(-Along(w), n, m, n - i, m - k)
    BY <1>3, <1>8, <2>1, NearBack
  <2> QED BY <1>6, <1>9, <2>2
<1> HIDE DEF v
<1>10. Spot(v, q, n - i, m - k) \in PixelsOf(Walk(q, p))
  BY <1>4, <1>8, <1>9, OneSpot DEF v
<1>11. /\ w.sx * (n - i) = w.sx * n - w.sx * i /\ w.sx * (m - k) = w.sx * m - w.sx * k
       /\ w.sy * (n - i) = w.sy * n - w.sy * i /\ w.sy * (m - k) = w.sy * m - w.sy * k
  BY <1>3, <1>8
<1>12. /\ q[1] + v.sx * (IF w.flat THEN n - i ELSE m - k)
             = p[1] + w.sx * (IF w.flat THEN i ELSE k)
  <2> DEFINE a == IF w.flat THEN n ELSE m
             b == IF w.flat THEN i ELSE k
  <2>1. a \in Nat /\ b \in 0..a /\ q[1] - p[1] = w.sx * a
    BY <1>3, <1>5, <1>8
  <2>2. (IF w.flat THEN n - i ELSE m - k) = a - b
    OBVIOUS
  <2> HIDE DEF a, b
  <2>3. CASE q[1] = p[1]
    <3>1. a = 0 /\ b = 0
      BY <1>1, <1>3, <2>1, <2>3
    <3> QED BY <1>1, <1>3, <2>2, <2>3, <3>1 DEF b
  <2>4. CASE q[1] # p[1]
    <3>1. q[1] + v.sx * (a - b) = p[1] + w.sx * b
      BY <1>1, <1>2, <1>3, <2>1, <2>4
    <3> QED BY <2>2, <3>1 DEF b
  <2> QED BY <2>3, <2>4
<1>13. /\ q[2] + v.sy * (IF w.flat THEN m - k ELSE n - i)
             = p[2] + w.sy * (IF w.flat THEN k ELSE i)
  <2> DEFINE a == IF w.flat THEN m ELSE n
             b == IF w.flat THEN k ELSE i
  <2>1. a \in Nat /\ b \in 0..a /\ q[2] - p[2] = w.sy * a
    BY <1>3, <1>5, <1>8
  <2>2. (IF w.flat THEN m - k ELSE n - i) = a - b
    OBVIOUS
  <2> HIDE DEF a, b
  <2>3. CASE q[2] = p[2]
    <3>1. a = 0 /\ b = 0
      BY <1>1, <1>3, <2>1, <2>3
    <3> QED BY <1>1, <1>3, <2>2, <2>3, <3>1 DEF b
  <2>4. CASE q[2] # p[2]
    <3>1. q[2] + v.sy * (a - b) = p[2] + w.sy * b
      BY <1>1, <1>2, <1>3, <2>1, <2>4
    <3> QED BY <2>2, <3>1 DEF b
  <2> QED BY <2>3, <2>4
<1>14. Spot(v, q, n - i, m - k) = Spot(w, p, i, k)
  BY <1>2, <1>12, <1>13 DEF Spot
<1>15. r = Spot(w, p, i, k)
  BY <1>7
<1> QED BY <1>10, <1>14, <1>15, Zenon

(* No pixel lies beyond the ends.                                          *)
Between(a, x, b) == (a <= x /\ x <= b) \/ (b <= x /\ x <= a)

LEMMA PixelsBetween ==
  ASSUME NEW p \in Point, NEW q \in Point, NEW r \in PixelsOf(Walk(p, q))
  PROVE  r \in Point /\ Between(p[1], r[1], q[1]) /\ Between(p[2], r[2], q[2])
<1> DEFINE w == Slope(p, q)
<1>1. PICK i \in 0..Long(w), k \in 0..Short(w) : r = Spot(w, p, i, k)
  BY PixelsAreSpots
<1>2. /\ Long(w) \in Nat /\ Short(w) \in Nat /\ w.sx \in {1, -1} /\ w.sy \in {1, -1}
      /\ w.flat \in BOOLEAN
      /\ w.flat => q[1] - p[1] = w.sx * Long(w) /\ q[2] - p[2] = w.sy * Short(w)
      /\ ~w.flat => q[1] - p[1] = w.sx * Short(w) /\ q[2] - p[2] = w.sy * Long(w)
      /\ p[1] \in Int /\ p[2] \in Int /\ q[1] \in Int /\ q[2] \in Int
  BY SlopeFacts DEF Point
<1> HIDE DEF w
<1>3. /\ r = <<r[1], r[2]>>
      /\ r[1] = p[1] + w.sx * (IF w.flat THEN i ELSE k)
      /\ r[2] = p[2] + w.sy * (IF w.flat THEN k ELSE i)
  BY <1>1 DEF Spot
<1>4. r[1] \in Int /\ Between(p[1], r[1], q[1])
  BY <1>2, <1>3 DEF Between
<1>5. r[2] \in Int /\ Between(p[2], r[2], q[2])
  BY <1>2, <1>3 DEF Between
<1> QED BY <1>3, <1>4, <1>5 DEF Point

(* A pixel is at most half a step further from a line than the ends are.   *)
LEMMA PixelsBeside ==
  ASSUME NEW p \in Point, NEW q \in Point, NEW r \in PixelsOf(Walk(p, q)),
         NEW a \in Int, NEW b \in Int, NEW c \in Int, NEW l \in Nat, NEW z \in Nat,
         -l <= a, a <= l, -l <= b, b <= l,
         -z <= a * p[2] - b * p[1] + c, a * p[2] - b * p[1] + c <= z,
         -z <= a * q[2] - b * q[1] + c, a * q[2] - b * q[1] + c <= z
  PROVE  LET e == a * r[2] - b * r[1] + c
         IN  e \in Int /\ -(2 * z + l) <= 2 * e /\ 2 * e <= 2 * z + l
<1> DEFINE w == Slope(p, q)
           n == Long(w)
           m == Short(w)
           e(x) == a * x[2] - b * x[1] + c
<1>1. PICK i \in 0..n, k \in 0..m : /\ r = Spot(w, p, i, k)
                                    /\ n # 0 => Near(Along(w), n, m, i, k)
  BY PixelsAreSpots
<1>2. /\ n \in Nat /\ m \in Nat /\ w.sx \in {1, -1} /\ w.sy \in {1, -1}
      /\ w.flat \in BOOLEAN /\ m <= n
      /\ p[1] \in Int /\ p[2] \in Int /\ q[1] \in Int /\ q[2] \in Int
  BY SlopeFacts DEF Point
<1>3. /\ w.flat => q[1] - p[1] = w.sx * n /\ q[2] - p[2] = w.sy * m
      /\ ~w.flat => q[1] - p[1] = w.sx * m /\ q[2] - p[2] = w.sy * n
  BY SlopeFacts
<1> HIDE DEF w, n, m
<1>10. r = Spot(w, p, i, k)
  BY <1>1
<1>4. /\ r[1] = p[1] + w.sx * (IF w.flat THEN i ELSE k)
      /\ r[2] = p[2] + w.sy * (IF w.flat THEN k ELSE i)
  BY <1>10 DEF Spot
<1>5. e(p) \in Int /\ e(q) \in Int /\ i \in Int /\ k \in Int /\ i \in 0..n
  BY <1>2
<1> DEFINE t == a * w.sy
           u == b * w.sx
<1>6. t \in Int /\ u \in Int /\ -l <= t /\ t <= l /\ -l <= u /\ u <= l
  BY <1>2
<1>7. n # 0 => /\ -n <= 2 * (n * k) - 2 * (m * i) /\ 2 * (n * k) - 2 * (m * i) <= n
               /\ n \in Nat \ {0}
  <2> SUFFICES ASSUME n # 0
               PROVE  /\ -n <= 2 * (n * k) - 2 * (m * i)
                      /\ 2 * (n * k) - 2 * (m * i) <= n
    BY <1>2
  <2> DEFINE f == n * k
             g == m * i
  <2>1. f \in Int /\ g \in Int
    BY <1>2, <1>5
  <2>2. IF Along(w) > 0 THEN -n <= 2 * g - 2 * f /\ 2 * g - 2 * f < n
        ELSE -n < 2 * g - 2 * f /\ 2 * g - 2 * f <= n
    BY <1>1 DEF Near
  <2> HIDE DEF f, g
  <2>3. -n <= 2 * f - 2 * g /\ 2 * f - 2 * g <= n
    BY <1>2, <2>1, <2>2
  <2> QED BY <2>3 DEF f, g
<1>8. CASE w.flat
  <2>1. r[1] = p[1] + w.sx * i /\ r[2] = p[2] + w.sy * k
    BY <1>4, <1>8
  <2>2. q[1] = p[1] + w.sx * n /\ q[2] = p[2] + w.sy * m
    BY <1>2, <1>3, <1>8
  <2>3. e(r) = e(p) + t * k - u * i
    <3>1. a * (p[2] + w.sy * k) - b * (p[1] + w.sx * i) + c
            = a * p[2] - b * p[1] + c + a * w.sy * k - b * w.sx * i
      BY <1>2, <1>5
    <3> QED BY <2>1, <3>1
  <2>4. e(q) = e(p) + t * m - u * n
    <3>1. a * (p[2] + w.sy * m) - b * (p[1] + w.sx * n) + c
            = a * p[2] - b * p[1] + c + a * w.sy * m - b * w.sx * n
      BY <1>2
    <3> QED BY <2>2, <3>1
  <2> HIDE DEF e, t, u
  <2>5. -z <= e(p) /\ e(p) <= z /\ -z <= e(q) /\ e(q) <= z
    BY DEF e
  <2>6. CASE n = 0
    <3>1. i = 0 /\ k = 0
      BY <1>2, <2>6
    <3>2. e(r) = e(p)
      BY <1>5, <1>6, <2>3, <3>1
    <3> QED BY <1>5, <2>5, <3>2 DEF e
  <2>7. CASE n # 0
    <3>1. Lies(n, m, i, k, t, u, l, e(p), e(q), z, e(r))
      BY <1>2, <1>5, <1>6, <1>7, <2>3, <2>4, <2>5, <2>7 DEF Lies
    <3> QED BY <3>1, Beside DEF e
  <2> QED BY <2>6, <2>7
<1>9. CASE ~w.flat
  <2>1. r[1] = p[1] + w.sx * k /\ r[2] = p[2] + w.sy * i
    BY <1>4, <1>9
  <2>2. q[1] = p[1] + w.sx * m /\ q[2] = p[2] + w.sy * n
    BY <1>2, <1>3, <1>9
  <2>3. -e(r) = -e(p) + u * k - t * i
    <3>1. a * (p[2] + w.sy * i) - b * (p[1] + w.sx * k) + c
            = a * p[2] - b * p[1] + c + a * w.sy * i - b * w.sx * k
      BY <1>2, <1>5
    <3>2. e(r) = e(p) + t * i - u * k
      BY <2>1, <3>1
    <3>3. t * i \in Int /\ u * k \in Int
      BY <1>5, <1>6
    <3> HIDE DEF e, t, u
    <3> QED BY <1>5, <3>2, <3>3
  <2>4. -e(q) = -e(p) + u * m - t * n
    <3>1. a * (p[2] + w.sy * n) - b * (p[1] + w.sx * m) + c
            = a * p[2] - b * p[1] + c + a * w.sy * n - b * w.sx * m
      BY <1>2
    <3>2. e(q) = e(p) + t * n - u * m
      BY <2>2, <3>1
    <3>3. t * n \in Int /\ u * m \in Int
      BY <1>2, <1>6
    <3> HIDE DEF e, t, u
    <3> QED BY <1>5, <3>2, <3>3
  <2>5. e(r) \in Int
    BY <1>2, <1>5, <2>1
  <2> HIDE DEF e, t, u
  <2>6. -z <= -e(p) /\ -e(p) <= z /\ -z <= -e(q) /\ -e(q) <= z
        /\ -e(p) \in Int /\ -e(q) \in Int
    BY <1>5 DEF e
  <2>7. CASE n = 0
    <3>1. i = 0 /\ k = 0
      BY <1>2, <2>7
    <3>2. e(r) = e(p)
      BY <1>5, <1>6, <2>3, <2>5, <3>1
    <3> QED BY <1>5, <2>6, <3>2 DEF e
  <2>8. CASE n # 0
    <3>0. Lies(n, m, i, k, u, t, l, -e(p), -e(q), z, -e(r))
      BY <1>2, <1>5, <1>6, <1>7, <2>3, <2>4, <2>6, <2>8 DEF Lies
    <3>1. -(2 * z + l) <= 2 * (-e(r)) /\ 2 * (-e(r)) <= 2 * z + l
      BY <3>0, Beside
    <3>2. -(2 * z + l) <= 2 * e(r) /\ 2 * e(r) <= 2 * z + l
      BY <2>5, <3>1
    <3> QED BY <2>5, <3>2 DEF e
  <2> QED BY <2>7, <2>8
<1> QED BY <1>2, <1>8, <1>9

-----------------------------------------------------------------------------
(* Clipping.                                                               *)
LEMMA Quotient ==
  ASSUME NEW g \in Nat, NEW n \in Nat \ {0}
  PROVE  g \div n \in Nat /\ n * (g \div n) <= g /\ g < n * (g \div n) + n
OBVIOUS

(* A quotient is rounded toward zero, whatever the signs.                  *)
Ratio(a, b, u, h, n) ==
  a \in {1, -1} /\ b \in {1, -1} /\ u \in Nat /\ h \in Nat /\ n \in Nat \ {0}

LEMMA Rounded ==
  ASSUME NEW a, NEW b, NEW u, NEW h, NEW n, Ratio(a, b, u, h, n)
  PROVE  muldiv64(a * u, b * h, a * n) = b * ((u * h) \div n)
<1> USE DEF Ratio
<1> DEFINE g == u * h
           q == g \div n
           N == (a * u) * (b * h)
<1>1. g \in Nat
  OBVIOUS
<1>2. N = a * b * g
  OBVIOUS
<1>3. q \in Nat /\ (g = 0 => q = 0)
  BY <1>1, Quotient
<1>4. Magnitude(N) = g /\ Magnitude(a * n) = n
  <2>1. (a = 1 \/ a = -1) /\ (b = 1 \/ b = -1)
    OBVIOUS
  <2> HIDE DEF g, N
  <2> QED BY <1>1, <1>2, <2>1 DEF Magnitude
<1>5. muldiv64(a * u, b * h, a * n) = IF (N < 0) = (a * n < 0) THEN q ELSE -q
  BY <1>4 DEF muldiv64
<1> HIDE DEF g, N, q
<1>6. CASE g = 0
  <2>1. q = 0 /\ -q = 0 /\ b * q = 0
    <3>1. q = 0
      BY <1>3, <1>6
    <3>2. -q = 0
      <4>1. q \in Int /\ q <= 0 /\ q >= 0
        BY <3>1
      <4> QED BY <4>1
    <3>3. b * q = 0
      BY <1>3, <3>1
    <3> QED BY <3>1, <3>2, <3>3
  <2> QED BY <1>5, <2>1 DEF q, g
<1>7. CASE g # 0
  <2>1. (N < 0 <=> a * b = -1) /\ (a * n < 0 <=> a = -1)
    BY <1>1, <1>2, <1>7
  <2>2. ((N < 0) = (a * n < 0)) <=> b = 1
    <3>1. CASE a = 1 /\ b = 1
      <4>1. ~(N < 0) /\ ~(a * n < 0)
        BY <2>1, <3>1
      <4> QED BY <3>1, <4>1
    <3>2. CASE a = 1 /\ b = -1
      <4>1. N < 0 /\ ~(a * n < 0)
        BY <2>1, <3>2
      <4> QED BY <3>2, <4>1
    <3>3. CASE a = -1 /\ b = 1
      <4>1. N < 0 /\ a * n < 0
        BY <2>1, <3>3
      <4> QED BY <3>3, <4>1
    <3>4. CASE a = -1 /\ b = -1
      <4>1. ~(N < 0) /\ a * n < 0
        BY <2>1, <3>4
      <4> QED BY <3>4, <4>1
    <3> QED BY <3>1, <3>2, <3>3, <3>4
  <2>3. muldiv64(a * u, b * h, a * n) = b * q
    BY <1>3, <1>5, <2>2
  <2> QED BY <2>3 DEF q, g
<1> QED BY <1>6, <1>7

(* An end that moves u of the n steps to the other, and of the h the other *)
(* way those that this makes, is off by less than d more on one side.      *)
Shares(n, u, h, d, e, a, b, lo, hi) ==
  /\ n \in Nat \ {0} /\ u \in 0..n /\ h \in Nat /\ d \in Nat /\ e \in Nat
  /\ a \in Int /\ b \in Int /\ b = a + d * h - e * n
  /\ lo \in Int /\ hi \in Int /\ lo <= a /\ a <= hi /\ lo <= b /\ b <= hi

LEMMA Shared ==
  ASSUME NEW n, NEW u, NEW h, NEW d, NEW e, NEW a, NEW b, NEW lo, NEW hi,
         Shares(n, u, h, d, e, a, b, lo, hi)
  PROVE  LET m == (u * h) \div n
             t == a + d * m - e * u
         IN  m \in 0..h /\ t \in Int /\ lo - d <= t /\ t <= hi
<1> DEFINE m == (u * h) \div n
           t == a + d * m - e * u
           v == (n - u) * a + u * b
           p == u * h - n * m
<1> USE DEF Shares
<1>1. u * h \in Nat
  OBVIOUS
<1>2. m \in Nat /\ n * m <= u * h /\ u * h < n * m + n
  BY <1>1, Quotient
<1> HIDE DEF m
<1>3. p \in Nat /\ p <= n
  <2>1. n * m \in Int
    BY <1>2
  <2> QED BY <1>1, <1>2, <2>1
<1>4. t \in Int
  BY <1>2
<1>5. n * t = v - d * p
  <2>1. v = (n - u) * a + u * (a + d * h - e * n)
    OBVIOUS
  <2>2. n * t = (n - u) * a + u * (a + d * h - e * n) - d * p
    <3>1. n * (a + d * m - e * u) = (n - u) * a + u * (a + d * h - e * n) - d * (u * h - n * m)
      BY <1>2
    <3> QED BY <3>1
  <2>3. v \in Int
    OBVIOUS
  <2> DEFINE c == a + d * h - e * n
  <2>4. c \in Int /\ v = (n - u) * a + u * c /\ n * t = (n - u) * a + u * c - d * p
    BY <2>1, <2>2
  <2> HIDE DEF t, v, p, c
  <2> QED BY <1>3, <1>4, <2>3, <2>4
<1>6. v \in Int /\ n * lo <= v /\ v <= n * hi
  BY Weighted
<1> HIDE DEF t, v, p
<1>7. d * p >= 0 /\ d * p <= d * n /\ d * p \in Int
  <2>1. d * 0 <= d * p /\ d * p <= d * n
    BY <1>3, ProductUp
  <2> QED BY <1>3, <2>1
<1>8. n * (lo - d) = n * lo - d * n /\ n * lo \in Int /\ d * n \in Int /\ n * hi \in Int
  OBVIOUS
<1>9. n * (lo - d) <= n * t /\ n * t <= n * hi
  BY <1>5, <1>6, <1>7, <1>8
<1>10. lo - d <= t /\ t <= hi
  BY <1>4, <1>9, Divided
<1>11. m <= h
  <2>1. u * h <= n * h
    BY ProductUp
  <2>2. n * m <= n * h
    BY <1>1, <1>2, <2>1
  <2> QED BY <1>2, <2>2, Divided
<1> QED BY <1>2, <1>4, <1>10, <1>11 DEF m, t

(* A window, and the sides of it beyond which a point lies.                *)
Pane(c) == /\ c.x1 \in Int /\ c.x2 \in Int /\ c.y1 \in Int /\ c.y2 \in Int
           /\ c.x1 <= c.x2 /\ c.y1 <= c.y2
InX(c, p) == c.x1 <= p[1] /\ p[1] <= c.x2
InY(c, p) == c.y1 <= p[2] /\ p[2] <= c.y2

LEMMA Sides ==
  ASSUME NEW c, Pane(c), NEW p \in Point
  PROVE  /\ p[1] \in Int /\ p[2] \in Int
         /\ "left" \in gl_regioncode(c, p) <=> p[1] < c.x1
         /\ "right" \in gl_regioncode(c, p) <=> p[1] > c.x2
         /\ "top" \in gl_regioncode(c, p) <=> p[2] < c.y1
         /\ "bottom" \in gl_regioncode(c, p) <=> p[2] > c.y2
         /\ gl_regioncode(c, p) = {} <=> InX(c, p) /\ InY(c, p)
<1>1. p[1] \in Int /\ p[2] \in Int
  BY DEF Point
<1>2. /\ "left" \in gl_regioncode(c, p) <=> p[1] < c.x1
      /\ "right" \in gl_regioncode(c, p) <=> p[1] > c.x2
      /\ "top" \in gl_regioncode(c, p) <=> p[2] < c.y1
      /\ "bottom" \in gl_regioncode(c, p) <=> p[2] > c.y2
      /\ gl_regioncode(c, p) \subseteq {"left", "right", "top", "bottom"}
  BY DEF gl_regioncode
<1>3. gl_regioncode(c, p) = {} <=> InX(c, p) /\ InY(c, p)
  <2>1. gl_regioncode(c, p) = {} <=>
          ~(p[1] < c.x1) /\ ~(p[1] > c.x2) /\ ~(p[2] < c.y1) /\ ~(p[2] > c.y2)
    BY <1>2
  <2> QED BY <1>1, <2>1 DEF Pane, InX, InY
<1> QED BY <1>1, <1>2, <1>3

Doomed(c, p, q) == gl_regioncode(c, p) \cap gl_regioncode(c, q) # {}

(* An end moves u of the steps and v of the others to the other end, into  *)
(* the window one way; the other way it stays, or is lost.                 *)
Gap(p, q, a, b, n, h) ==
  /\ p \in Point /\ q \in Point /\ a \in {1, -1} /\ b \in {1, -1} /\ n \in Nat /\ h \in Nat
  /\ q[1] = p[1] + a * n /\ q[2] = p[2] + b * h

LEMMA MovesIn ==
  ASSUME NEW c, Pane(c), NEW p, NEW q, gl_regioncode(c, p) # {}, ~Doomed(c, p, q),
         NEW a, NEW b, NEW n, NEW h, Gap(p, q, a, b, n, h)
  PROVE  \E u \in 0..n, v \in 0..h :
           LET r == Moved(c, p, q)
           IN  /\ r = <<p[1] + a * u, p[2] + b * v>>
               /\ \/ ~InX(c, p) /\ InX(c, r) /\ n # 0 /\ v = (u * h) \div n
                  \/ InX(c, p) /\ InY(c, r) /\ h # 0 /\ u = (v * n) \div h
<1> USE DEF Gap
<1>1. p[1] \in Int /\ p[2] \in Int /\ q[1] \in Int /\ q[2] \in Int
  BY DEF Point
<1>2. /\ ~(p[1] < c.x1 /\ q[1] < c.x1) /\ ~(p[1] > c.x2 /\ q[1] > c.x2)
      /\ ~(p[2] < c.y1 /\ q[2] < c.y1) /\ ~(p[2] > c.y2 /\ q[2] > c.y2)
  BY Sides DEF Doomed
<1>3. q[1] - p[1] = a * n /\ q[2] - p[2] = b * h
  BY <1>1
<1> DEFINE r == Moved(c, p, q)
           code == gl_regioncode(c, p)
<1>4. ASSUME NEW x \in {c.x1, c.x2}, NEW u \in 0..n, x = p[1] + a * u, n # 0,
             r = <<x, p[2] + muldiv64(x - p[1], q[2] - p[2], q[1] - p[1])>>, ~InX(c, p)
      PROVE  \E v \in 0..h : /\ r = <<p[1] + a * u, p[2] + b * v>>
                             /\ InX(c, r) /\ v = (u * h) \div n
  <2>1. x - p[1] = a * u
    BY <1>1, <1>4
  <2>2. muldiv64(a * u, b * h, a * n) = b * ((u * h) \div n)
    <3>1. Ratio(a, b, u, h, n)
      BY <1>4 DEF Ratio
    <3> QED BY <3>1, Rounded
  <2>3. r = <<p[1] + a * u, p[2] + b * ((u * h) \div n)>>
    BY <1>3, <1>4, <2>1, <2>2
  <2>4. (u * h) \div n \in 0..h
    <3>1. n \in Nat \ {0}
      BY <1>4
    <3>2. Shares(n, u, h, 0, 0, 0, 0, 0, 0)
      BY <3>1 DEF Shares
    <3> QED BY <3>2, Shared
  <2>5. InX(c, r)
    BY <1>4 DEF InX, Pane
  <2> QED BY <2>3, <2>4, <2>5
<1>5. ASSUME NEW y \in {c.y1, c.y2}, NEW v \in 0..h, y = p[2] + b * v, h # 0,
             r = <<p[1] + muldiv64(y - p[2], q[1] - p[1], q[2] - p[2]), y>>
      PROVE  \E u \in 0..n : /\ r = <<p[1] + a * u, p[2] + b * v>>
                             /\ InY(c, r) /\ u = (v * n) \div h
  <2>1. y - p[2] = b * v
    BY <1>1, <1>5
  <2>2. muldiv64(b * v, a * n, b * h) = a * ((v * n) \div h)
    <3>1. Ratio(b, a, v, n, h)
      BY <1>5 DEF Ratio
    <3> QED BY <3>1, Rounded
  <2>3. r = <<p[1] + a * ((v * n) \div h), p[2] + b * v>>
    BY <1>3, <1>5, <2>1, <2>2
  <2>4. (v * n) \div h \in 0..n
    <3>1. h \in Nat \ {0}
      BY <1>5
    <3>2. Shares(h, v, n, 0, 0, 0, 0, 0, 0)
      BY <3>1 DEF Shares
    <3> QED BY <3>2, Shared
  <2>5. InY(c, r)
    BY <1>5 DEF InY, Pane
  <2> QED BY <2>3, <2>4, <2>5
<1>6. r = IF p[1] < c.x1
          THEN <<c.x1, p[2] + muldiv64(c.x1 - p[1], q[2] - p[2], q[1] - p[1])>>
          ELSE IF p[1] > c.x2
          THEN <<c.x2, p[2] + muldiv64(c.x2 - p[1], q[2] - p[2], q[1] - p[1])>>
          ELSE IF p[2] < c.y1
          THEN <<p[1] + muldiv64(c.y1 - p[2], q[1] - p[1], q[2] - p[2]), c.y1>>
          ELSE <<p[1] + muldiv64(c.y2 - p[2], q[1] - p[1], q[2] - p[2]), c.y2>>
  BY Sides, Zenon DEF Moved
<1> HIDE DEF r
<1>7. CASE p[1] < c.x1
  <2>1. a = 1 /\ c.x1 - p[1] \in 0..n /\ n # 0 /\ ~InX(c, p)
    BY <1>1, <1>2, <1>7 DEF Pane, InX
  <2>2. c.x1 = p[1] + a * (c.x1 - p[1])
    BY <1>1, <2>1 DEF Pane
  <2>3. r = <<c.x1, p[2] + muldiv64(c.x1 - p[1], q[2] - p[2], q[1] - p[1])>>
    BY <1>6, <1>7
  <2>4. PICK v \in 0..h : /\ r = <<p[1] + a * (c.x1 - p[1]), p[2] + b * v>>
                          /\ InX(c, r) /\ v = ((c.x1 - p[1]) * h) \div n
    BY <1>4, <2>1, <2>2, <2>3
  <2> QED BY <2>1, <2>4 DEF r
<1>8. CASE p[1] > c.x2
  <2>1. a = -1 /\ p[1] - c.x2 \in 0..n /\ n # 0 /\ ~InX(c, p)
    BY <1>1, <1>2, <1>8 DEF Pane, InX
  <2>2. c.x2 = p[1] + a * (p[1] - c.x2)
    BY <1>1, <2>1 DEF Pane
  <2>3. r = <<c.x2, p[2] + muldiv64(c.x2 - p[1], q[2] - p[2], q[1] - p[1])>>
    BY <1>1, <1>6, <1>8 DEF Pane
  <2>4. PICK v \in 0..h : /\ r = <<p[1] + a * (p[1] - c.x2), p[2] + b * v>>
                          /\ InX(c, r) /\ v = ((p[1] - c.x2) * h) \div n
    BY <1>4, <2>1, <2>2, <2>3
  <2> QED BY <2>1, <2>4 DEF r
<1>9. CASE InX(c, p) /\ p[2] < c.y1
  <2>1. b = 1 /\ c.y1 - p[2] \in 0..h /\ h # 0 /\ ~(p[1] < c.x1) /\ ~(p[1] > c.x2)
    BY <1>1, <1>2, <1>9 DEF Pane, InX
  <2>2. c.y1 = p[2] + b * (c.y1 - p[2])
    BY <1>1, <2>1 DEF Pane
  <2>3. r = <<p[1] + muldiv64(c.y1 - p[2], q[1] - p[1], q[2] - p[2]), c.y1>>
    BY <1>6, <1>9, <2>1
  <2>4. PICK u \in 0..n : /\ r = <<p[1] + a * u, p[2] + b * (c.y1 - p[2])>>
                          /\ InY(c, r) /\ u = ((c.y1 - p[2]) * n) \div h
    BY <1>5, <2>1, <2>2, <2>3
  <2> QED BY <1>9, <2>1, <2>4 DEF r
<1>10. CASE InX(c, p) /\ p[2] > c.y2
  <2>1. b = -1 /\ p[2] - c.y2 \in 0..h /\ h # 0 /\ ~(p[1] < c.x1) /\ ~(p[1] > c.x2)
        /\ ~(p[2] < c.y1)
    BY <1>1, <1>2, <1>10 DEF Pane, InX
  <2>2. c.y2 = p[2] + b * (p[2] - c.y2)
    BY <1>1, <2>1 DEF Pane
  <2>3. r = <<p[1] + muldiv64(c.y2 - p[2], q[1] - p[1], q[2] - p[2]), c.y2>>
    BY <1>6, <1>10, <2>1
  <2>4. PICK u \in 0..n : /\ r = <<p[1] + a * u, p[2] + b * (p[2] - c.y2)>>
                          /\ InY(c, r) /\ u = ((p[2] - c.y2) * n) \div h
    BY <1>5, <2>1, <2>2, <2>3
  <2> QED BY <1>10, <2>1, <2>4 DEF r
<1>11. \/ p[1] < c.x1
       \/ p[1] > c.x2
       \/ InX(c, p) /\ p[2] < c.y1
       \/ InX(c, p) /\ p[2] > c.y2
  BY <1>1, Sides DEF Pane, InX, InY
<1> QED BY <1>7, <1>8, <1>9, <1>10, <1>11

(* The line l from p to q, d by e pixels, and how far a point is off it.   *)
Straight(l) ==
  /\ l.p \in Point /\ l.q \in Point /\ l.sx \in {1, -1} /\ l.sy \in {1, -1}
  /\ l.d \in Nat /\ l.e \in Nat
  /\ l.q[1] = l.p[1] + l.sx * l.d /\ l.q[2] = l.p[2] + l.sy * l.e
Tilt(l, r) == l.d * (l.sy * (r[2] - l.p[2])) - l.e * (l.sx * (r[1] - l.p[1]))
Strays(l, r, lo, hi) == lo <= Tilt(l, r) /\ Tilt(l, r) <= hi

(* q is from p where l.q is from l.p, or the other way if f is -1.         *)
Apart(l, f, p, q) ==
  /\ p \in Point /\ q \in Point
  /\ \E n, h \in Nat : q[1] = p[1] + f * l.sx * n /\ q[2] = p[2] + f * l.sy * h

LEMMA TiltInt ==
  ASSUME NEW l, Straight(l), NEW r \in Point PROVE Tilt(l, r) \in Int
<1>1. r[1] \in Int /\ r[2] \in Int /\ l.p[1] \in Int /\ l.p[2] \in Int
  BY DEF Point, Straight
<1>2. \A s \in {1, -1}, x \in Int : s * x \in Int
  OBVIOUS
<1> QED BY <1>1, <1>2 DEF Tilt, Straight

LEMMA TiltEnds ==
  ASSUME NEW l, Straight(l) PROVE Tilt(l, l.p) = 0 /\ Tilt(l, l.q) = 0
<1> DEFINE x == l.p[1]
           y == l.p[2]
           sx == l.sx
           sy == l.sy
           d == l.d
           e == l.e
<1>1. /\ x \in Int /\ y \in Int /\ sx \in {1, -1} /\ sy \in {1, -1} /\ d \in Nat /\ e \in Nat
      /\ l.q[1] = x + sx * d /\ l.q[2] = y + sy * e
  BY DEF Point, Straight
<1>2. /\ Tilt(l, l.p) = d * (sy * (y - y)) - e * (sx * (x - x))
      /\ Tilt(l, l.q) = d * (sy * (y + sy * e - y)) - e * (sx * (x + sx * d - x))
  BY <1>1 DEF Tilt
<1> HIDE DEF x, y, sx, sy, d, e
<1>3. d * (sy * (y - y)) - e * (sx * (x - x)) = 0
  BY <1>1
<1>4. sy * (y + sy * e - y) = e /\ sx * (x + sx * d - x) = d
  BY <1>1
<1>5. d * e - e * d = 0
  BY <1>1
<1> QED BY <1>2, <1>3, <1>4, <1>5 DEF x, y, sx, sy, d, e

LEMMA TiltMoves ==
  ASSUME NEW l, Straight(l), NEW f \in {1, -1}, NEW p \in Point, NEW u \in Nat, NEW v \in Nat,
         NEW r \in Point, r[1] = p[1] + f * l.sx * u, r[2] = p[2] + f * l.sy * v
  PROVE  /\ f = 1 => Tilt(l, r) = Tilt(l, p) + l.d * v - l.e * u
         /\ f = -1 => -Tilt(l, r) = -Tilt(l, p) + l.d * v - l.e * u
<1> DEFINE x == l.p[1]
           y == l.p[2]
           sx == l.sx
           sy == l.sy
           d == l.d
           e == l.e
           i == p[1]
           j == p[2]
<1>1. /\ x \in Int /\ y \in Int /\ sx \in {1, -1} /\ sy \in {1, -1} /\ d \in Nat /\ e \in Nat
      /\ i \in Int /\ j \in Int
  BY DEF Point, Straight
<1>2. /\ Tilt(l, p) = d * (sy * (j - y)) - e * (sx * (i - x))
      /\ Tilt(l, r) = d * (sy * (j + f * sy * v - y)) - e * (sx * (i + f * sx * u - x))
  <2>1. /\ Tilt(l, p) = d * (sy * (j - y)) - e * (sx * (i - x))
        /\ Tilt(l, r) = d * (sy * (r[2] - y)) - e * (sx * (r[1] - x))
    BY DEF Tilt
  <2>2. r[1] = i + f * sx * u /\ r[2] = j + f * sy * v
    OBVIOUS
  <2> DEFINE g == r[1]
             k == r[2]
  <2>3. /\ g = i + f * sx * u /\ k = j + f * sy * v
        /\ Tilt(l, r) = d * (sy * (k - y)) - e * (sx * (g - x))
    BY <2>1, <2>2
  <2> HIDE DEF x, y, sx, sy, d, e, i, j, g, k
  <2> QED BY <1>1, <2>1, <2>3
<1> HIDE DEF x, y, sx, sy, d, e, i, j
<1>3. /\ sy * (j + f * sy * v - y) = sy * (j - y) + f * v
      /\ sx * (i + f * sx * u - x) = sx * (i - x) + f * u
  BY <1>1
<1>4. /\ d * (sy * (j - y) + f * v) = d * (sy * (j - y)) + f * (d * v)
      /\ e * (sx * (i - x) + f * u) = e * (sx * (i - x)) + f * (e * u)
  <2>1. sy * (j - y) \in Int /\ sx * (i - x) \in Int
    BY <1>1
  <2> QED BY <1>1, <2>1
<1>5. /\ d * (sy * (j - y)) \in Int /\ e * (sx * (i - x)) \in Int /\ d * v \in Int /\ e * u \in Int
  <2>1. sy * (j - y) \in Int /\ sx * (i - x) \in Int
    BY <1>1
  <2> QED BY <1>1, <2>1
<1>6. Tilt(l, r) = Tilt(l, p) + f * (d * v) - f * (e * u)
  BY <1>2, <1>3, <1>4, <1>5
<1>7. Tilt(l, p) \in Int /\ Tilt(l, r) \in Int
  BY TiltInt
<1>8. /\ f = 1 => Tilt(l, r) = Tilt(l, p) + d * v - e * u
      /\ f = -1 => -Tilt(l, r) = -Tilt(l, p) + d * v - e * u
  BY <1>5, <1>6, <1>7
<1> QED BY <1>8 DEF d, e

(* What a move does to an end: nothing is lost but what rounding takes.    *)
LEMMA EndMoves ==
  ASSUME NEW c, Pane(c), NEW l, Straight(l), NEW f \in {1, -1}, NEW p, NEW q,
         Apart(l, f, p, q), gl_regioncode(c, p) # {}, ~Doomed(c, p, q),
         NEW lo \in Int, NEW hi \in Int, Strays(l, p, lo, hi), Strays(l, q, lo, hi)
  PROVE  LET r == Moved(c, p, q)
         IN  /\ Apart(l, f, r, q)
             /\ \/ ~InX(c, p) /\ InX(c, r)
                   /\ IF f = 1 THEN Strays(l, r, lo - l.d, hi) ELSE Strays(l, r, lo, hi + l.d)
                \/ InX(c, p) /\ InY(c, r) /\ (InX(c, r) \/ Doomed(c, r, q))
                   /\ IF f = 1 THEN Strays(l, r, lo, hi + l.e) ELSE Strays(l, r, lo - l.e, hi)
<1> DEFINE a == f * l.sx
           b == f * l.sy
           r == Moved(c, p, q)
           d == l.d
           e == l.e
<1>1. PICK n, h \in Nat : q[1] = p[1] + a * n /\ q[2] = p[2] + b * h
  BY DEF Apart
<1>2. /\ a \in {1, -1} /\ b \in {1, -1} /\ d \in Nat /\ e \in Nat /\ p \in Point /\ q \in Point
      /\ l.sx \in {1, -1} /\ l.sy \in {1, -1}
  BY DEF Straight, Apart
<1>3. PICK u \in 0..n, v \in 0..h :
        /\ r = <<p[1] + a * u, p[2] + b * v>>
        /\ \/ ~InX(c, p) /\ InX(c, r) /\ n # 0 /\ v = (u * h) \div n
           \/ InX(c, p) /\ InY(c, r) /\ h # 0 /\ u = (v * n) \div h
  <2>1. Gap(p, q, a, b, n, h)
    BY <1>1, <1>2 DEF Gap
  <2> HIDE DEF a, b
  <2> QED BY <2>1, MovesIn
<1>4. /\ p[1] \in Int /\ p[2] \in Int /\ q[1] \in Int /\ q[2] \in Int
      /\ u \in Nat /\ v \in Nat /\ n - u \in Nat /\ h - v \in Nat /\ n \in Nat /\ h \in Nat
      /\ u \in 0..n /\ v \in 0..h
  BY <1>2 DEF Point
<1> HIDE DEF r
<1>5. r \in Point /\ r[1] = p[1] + a * u /\ r[2] = p[2] + b * v
  <2>1. a * u \in Int /\ b * v \in Int
    BY <1>2, <1>4
  <2> HIDE DEF a, b
  <2> QED BY <1>3, <1>4, <2>1 DEF Point
<1>6. q[1] = r[1] + a * (n - u) /\ q[2] = r[2] + b * (h - v)
  <2> HIDE DEF a, b
  <2> QED BY <1>1, <1>2, <1>4, <1>5
<1>7. Apart(l, f, r, q)
  BY <1>2, <1>4, <1>5, <1>6 DEF Apart
<1> DEFINE s == Tilt(l, p)
           t == Tilt(l, q)
           z == Tilt(l, r)
<1>8. /\ s \in Int /\ t \in Int /\ z \in Int /\ lo <= s /\ s <= hi /\ lo <= t /\ t <= hi
      /\ -s \in Int /\ -t \in Int /\ -hi \in Int /\ -lo \in Int
      /\ -hi <= -s /\ -s <= -lo /\ -hi <= -t /\ -t <= -lo
  <2>1. s \in Int /\ t \in Int /\ z \in Int
    BY <1>2, <1>5, TiltInt
  <2>2. lo <= s /\ s <= hi /\ lo <= t /\ t <= hi
    BY DEF Strays
  <2> HIDE DEF s, t, z
  <2> QED BY <2>1, <2>2
<1>9. /\ f = 1 => t = s + d * h - e * n /\ z = s + d * v - e * u
      /\ f = -1 => -t = -s + d * h - e * n /\ -z = -s + d * v - e * u
  BY <1>1, <1>2, <1>4, <1>5, TiltMoves
<1> HIDE DEF s, t, z
<1>10. /\ d * h \in Int /\ e * n \in Int /\ d * v \in Int /\ e * u \in Int
  BY <1>2, <1>4
<1>11. CASE ~InX(c, p) /\ InX(c, r) /\ n # 0 /\ v = (u * h) \div n
  <2>1. CASE f = 1
    <3>1. Shares(n, u, h, d, e, s, t, lo, hi)
      BY <1>2, <1>4, <1>8, <1>9, <1>11, <2>1 DEF Shares
    <3>2. lo - d <= s + d * v - e * u /\ s + d * v - e * u <= hi
      BY <1>11, <3>1, Shared
    <3>3. lo - d <= z /\ z <= hi
      BY <1>9, <2>1, <3>2
    <3> QED BY <1>7, <1>11, <2>1, <3>3 DEF r, z, Strays
  <2>2. CASE f = -1
    <3>1. Shares(n, u, h, d, e, -s, -t, -hi, -lo)
      BY <1>2, <1>4, <1>8, <1>9, <1>11, <2>2 DEF Shares
    <3>2. -hi - d <= -s + d * v - e * u /\ -s + d * v - e * u <= -lo
      BY <1>11, <3>1, Shared
    <3>3. lo <= z /\ z <= hi + d
      BY <1>2, <1>8, <1>9, <2>2, <3>2
    <3> QED BY <1>7, <1>11, <2>2, <3>3 DEF r, z, Strays
  <2> QED BY <2>1, <2>2
<1>12. CASE InX(c, p) /\ InY(c, r) /\ h # 0 /\ u = (v * n) \div h
  <2>1. InX(c, r) \/ Doomed(c, r, q)
    <3>1. Between(p[1], r[1], q[1])
      <4> HIDE DEF a
      <4> QED BY <1>1, <1>2, <1>4, <1>5, <1>6 DEF Between
    <3>2. CASE r[1] < c.x1
      <4>1. q[1] < c.x1
        BY <1>4, <1>5, <1>12, <3>1, <3>2 DEF InX, Between, Pane, Point
      <4> QED BY <1>2, <1>5, <3>2, <4>1, Sides DEF Doomed
    <3>3. CASE r[1] > c.x2
      <4>1. q[1] > c.x2
        BY <1>4, <1>5, <1>12, <3>1, <3>3 DEF InX, Between, Pane, Point
      <4> QED BY <1>2, <1>5, <3>3, <4>1, Sides DEF Doomed
    <3>4. r[1] \in Int
      BY <1>5 DEF Point
    <3> QED BY <3>2, <3>3, <3>4 DEF InX, Pane
  <2>2. CASE f = 1
    <3>1. -t = -s + e * n - d * h /\ -z = -s + e * u - d * v
      BY <1>8, <1>9, <1>10, <2>2
    <3>2. Shares(h, v, n, e, d, -s, -t, -hi, -lo)
      BY <1>2, <1>4, <1>8, <1>12, <3>1 DEF Shares
    <3>3. -hi - e <= -s + e * u - d * v /\ -s + e * u - d * v <= -lo
      BY <1>12, <3>2, Shared
    <3>4. lo <= z /\ z <= hi + e
      BY <1>2, <1>8, <3>1, <3>3
    <3> QED BY <1>7, <1>12, <2>1, <2>2, <3>4 DEF r, z, Strays
  <2>3. CASE f = -1
    <3>1. t = s + e * n - d * h /\ z = s + e * u - d * v
      BY <1>8, <1>9, <1>10, <2>3
    <3>2. Shares(h, v, n, e, d, s, t, lo, hi)
      BY <1>2, <1>4, <1>8, <1>12, <3>1 DEF Shares
    <3>3. lo - e <= s + e * u - d * v /\ s + e * u - d * v <= hi
      BY <1>12, <3>2, Shared
    <3>4. lo - e <= z /\ z <= hi
      BY <3>1, <3>3
    <3> QED BY <1>7, <1>12, <2>1, <2>3, <3>4 DEF r, z, Strays
  <2> QED BY <2>2, <2>3
<1> QED BY <1>3, <1>11, <1>12

(* How far the loop has come after its i-th turn: first the one end moves, *)
(* twice at most, and then the other.                                      *)
In(c, p) == InX(c, p) /\ InY(c, p)
Begun(l, t, i) == i = 0 /\ t.p = l.p /\ t.q = l.q
OneWay(l, c, t, i) ==
  /\ i <= 1 /\ t.q = l.q /\ Apart(l, 1, t.p, t.q)
  /\ InX(c, t.p) /\ Strays(l, t.p, -l.d, 0)
OneEnd(l, c, t, i) ==
  /\ i <= 2 /\ t.q = l.q /\ Apart(l, 1, t.p, t.q)
  /\ In(c, t.p) /\ Strays(l, t.p, -l.d, l.e)
Third(l, c, t, i) ==
  /\ i <= 3 /\ Apart(l, -1, t.p, t.q)
  /\ In(c, t.q) /\ Strays(l, t.q, -l.d, l.e)
  /\ InX(c, t.p) /\ Strays(l, t.p, -l.d, l.d + l.e)
Fitting(l, c, t) ==
  /\ t.p \in Point /\ t.q \in Point /\ In(c, t.p) /\ In(c, t.q)
  /\ Strays(l, t.p, -(l.d + l.e), l.d + l.e) /\ Strays(l, t.q, -(l.d + l.e), l.d + l.e)
Missed(c, t, i) == i <= 5 /\ t.p \in Point /\ t.q \in Point /\ Doomed(c, t.p, t.q)

Stage(l, c, t, i) ==
  /\ t = [p |-> t.p, q |-> t.q, found |-> t.found]
  /\ \/ /\ t.found = "nothing"
        /\ \/ Begun(l, t, i)
           \/ OneWay(l, c, t, i)
           \/ OneEnd(l, c, t, i)
           \/ Third(l, c, t, i)
           \/ i <= 4 /\ Fitting(l, c, t)
           \/ Missed(c, t, i)
     \/ t.found = "inside" /\ Fitting(l, c, t)
     \/ t.found = "outside"
  /\ i = 0 => t.p = l.p /\ t.q = l.q /\ t.found = "nothing"
  /\ In(c, l.p) /\ In(c, l.q) /\ i > 0 => t = [p |-> l.p, q |-> l.q, found |-> "inside"]

LEMMA ApartAll ==
  ASSUME NEW l, Straight(l)
  PROVE  /\ Apart(l, 1, l.p, l.q)
         /\ \A p, q : Apart(l, 1, p, q) => Apart(l, -1, q, p)
<1>1. l.p \in Point /\ l.q \in Point /\ l.sx \in {1, -1} /\ l.sy \in {1, -1}
      /\ l.d \in Nat /\ l.e \in Nat
      /\ l.q[1] = l.p[1] + l.sx * l.d /\ l.q[2] = l.p[2] + l.sy * l.e
  BY DEF Straight
<1>2. Apart(l, 1, l.p, l.q)
  <2>1. 1 * l.sx = l.sx /\ 1 * l.sy = l.sy
    BY <1>1
  <2>2. l.q[1] = l.p[1] + 1 * l.sx * l.d /\ l.q[2] = l.p[2] + 1 * l.sy * l.e
    BY <1>1, <2>1
  <2> QED BY <1>1, <2>2 DEF Apart
<1>3. ASSUME NEW p, NEW q, Apart(l, 1, p, q) PROVE Apart(l, -1, q, p)
  <2>1. PICK n, h \in Nat : q[1] = p[1] + 1 * l.sx * n /\ q[2] = p[2] + 1 * l.sy * h
    BY <1>3 DEF Apart
  <2>2. p \in Point /\ q \in Point /\ p[1] \in Int /\ p[2] \in Int /\ q[1] \in Int /\ q[2] \in Int
    BY <1>3 DEF Apart, Point
  <2>3. p[1] = q[1] + (-1) * l.sx * n /\ p[2] = q[2] + (-1) * l.sy * h
    BY <1>1, <2>1, <2>2
  <2> QED BY <2>2, <2>3 DEF Apart
<1> QED BY <1>2, <1>3

LEMMA StraysMore ==
  ASSUME NEW l, Straight(l), NEW r \in Point, NEW lo \in Int, NEW hi \in Int,
         NEW a \in Int, NEW b \in Int, Strays(l, r, lo, hi), a <= lo, hi <= b
  PROVE  Strays(l, r, a, b)
<1>1. Tilt(l, r) \in Int
  BY TiltInt
<1> QED BY <1>1 DEF Strays

LEMMA FirstStage ==
  ASSUME NEW c, NEW l
  PROVE  Stage(l, c, [p |-> l.p, q |-> l.q, found |-> "nothing"], 0)
BY DEF Stage, Begun

(* A point that is where a line was to go is not off it.                   *)
LEMMA Rests ==
  ASSUME NEW c, Pane(c), NEW l, Straight(l), NEW t, NEW i \in Nat, Stage(l, c, t, i),
         t.found = "nothing"
  PROVE  /\ t.p \in Point /\ t.q \in Point
         /\ In(c, t.p) /\ In(c, t.q) => Fitting(l, c, t)
         /\ In(c, t.p) /\ ~In(c, t.q) /\ ~Doomed(c, t.p, t.q) =>
              OneEnd(l, c, t, i)
         /\ ~In(c, t.p) /\ ~Doomed(c, t.p, t.q) =>
              Begun(l, t, i) \/ OneWay(l, c, t, i) \/ Third(l, c, t, i)
<1>1. /\ l.d \in Nat /\ l.e \in Nat /\ l.p \in Point /\ l.q \in Point
  BY DEF Straight
<1>2. /\ -l.d \in Int /\ -(l.d + l.e) \in Int /\ l.d + l.e \in Int
      /\ -(l.d + l.e) <= -l.d /\ -l.d <= 0 /\ 0 <= l.e /\ l.e <= l.d + l.e
  <2> DEFINE d == l.d
             e == l.e
  <2>1. d \in Nat /\ e \in Nat
    BY <1>1
  <2> HIDE DEF d, e
  <2>2. /\ -d \in Int /\ -(d + e) \in Int /\ d + e \in Int
        /\ -(d + e) <= -d /\ -d <= 0 /\ 0 <= e /\ e <= d + e
    BY <2>1
  <2> QED BY <2>2 DEF d, e
<1>3. /\ Strays(l, l.p, 0, 0) /\ Strays(l, l.q, 0, 0)
  BY TiltEnds DEF Strays
<1>4. \/ Begun(l, t, i) \/ OneWay(l, c, t, i) \/ OneEnd(l, c, t, i)
      \/ Third(l, c, t, i) \/ (i <= 4 /\ Fitting(l, c, t)) \/ Missed(c, t, i)
  BY DEF Stage
<1>5. t.p \in Point /\ t.q \in Point
  BY <1>1, <1>4 DEF Begun, OneWay, OneEnd, Third, Fitting, Missed, Apart
<1>6. Doomed(c, t.p, t.q) => ~In(c, t.p) /\ ~In(c, t.q)
  BY <1>5, Sides DEF Doomed, In
<1> DEFINE d == l.d
           e == l.e
<1>7. /\ -d \in Int /\ -(d + e) \in Int /\ d + e \in Int /\ d \in Int /\ e \in Int
      /\ -(d + e) <= -d /\ -d <= 0 /\ 0 <= e /\ e <= d + e /\ -(d + e) <= 0 /\ 0 <= d + e
  BY <1>1, <1>2
<1>8. CASE Begun(l, t, i)
  <2>1. t.p = l.p /\ t.q = l.q /\ i = 0
    BY <1>8 DEF Begun
  <2>2. /\ Strays(l, t.p, -(d + e), d + e) /\ Strays(l, t.q, -(d + e), d + e)
        /\ Strays(l, t.p, -d, e)
    BY <1>3, <1>5, <1>7, <2>1, StraysMore
  <2>3. Apart(l, 1, t.p, t.q)
    BY <2>1, ApartAll
  <2> QED BY <1>5, <1>8, <2>1, <2>2, <2>3 DEF Fitting, OneEnd
<1>9. CASE OneWay(l, c, t, i)
  <2>1. t.q = l.q /\ Apart(l, 1, t.p, t.q) /\ Strays(l, t.p, -d, 0) /\ i <= 1
    BY <1>9 DEF OneWay
  <2>2. /\ Strays(l, t.p, -(d + e), d + e) /\ Strays(l, t.q, -(d + e), d + e)
        /\ Strays(l, t.p, -d, e)
    BY <1>3, <1>5, <1>7, <2>1, StraysMore
  <2>3. i <= 2
    BY <2>1
  <2> QED BY <1>5, <1>9, <2>1, <2>2, <2>3 DEF Fitting, OneEnd
<1>10. CASE OneEnd(l, c, t, i)
  <2>1. t.q = l.q /\ Strays(l, t.p, -d, e) /\ In(c, t.p)
    BY <1>10 DEF OneEnd
  <2>2. Strays(l, t.p, -(d + e), d + e) /\ Strays(l, t.q, -(d + e), d + e)
    BY <1>3, <1>5, <1>7, <2>1, StraysMore
  <2> QED BY <1>5, <1>10, <2>1, <2>2 DEF Fitting
<1>11. CASE Third(l, c, t, i)
  <2>1. Strays(l, t.q, -d, e) /\ In(c, t.q) /\ Strays(l, t.p, -d, d + e)
    BY <1>11 DEF Third
  <2>2. Strays(l, t.p, -(d + e), d + e) /\ Strays(l, t.q, -(d + e), d + e)
    BY <1>5, <1>7, <2>1, StraysMore
  <2> QED BY <1>5, <1>11, <2>1, <2>2 DEF Fitting
<1>12. CASE Fitting(l, c, t)
  BY <1>5, <1>12 DEF Fitting
<1>13. CASE Missed(c, t, i)
  BY <1>5, <1>6, <1>13 DEF Missed
<1> QED BY <1>4, <1>8, <1>9, <1>10, <1>11, <1>12, <1>13

LEMMA TurnKeeps ==
  ASSUME NEW c, Pane(c), NEW l, Straight(l), NEW t, NEW i \in Nat, Stage(l, c, t, i)
  PROVE  Stage(l, c, Turned(c, t), i + 1)
<1> DEFINE s == Turned(c, t)
           r1 == gl_regioncode(c, t.p)
           r2 == gl_regioncode(c, t.q)
<1>1. t = [p |-> t.p, q |-> t.q, found |-> t.found]
  BY DEF Stage
<1>2. i + 1 # 0 /\ i + 1 > 0 /\ i + 1 \in Nat
  OBVIOUS
<1>3. CASE t.found # "nothing"
  <2>1. s = t
    BY <1>3 DEF Turned
  <2>2. i # 0 /\ i > 0
    BY <1>3 DEF Stage
  <2> QED BY <1>2, <1>3, <2>1, <2>2 DEF Stage
<1>4. CASE t.found = "nothing"
  <2>1. /\ t.p \in Point /\ t.q \in Point
        /\ In(c, t.p) /\ In(c, t.q) => Fitting(l, c, t)
        /\ In(c, t.p) /\ ~In(c, t.q) /\ ~Doomed(c, t.p, t.q) => OneEnd(l, c, t, i)
        /\ ~In(c, t.p) /\ ~Doomed(c, t.p, t.q) =>
             Begun(l, t, i) \/ OneWay(l, c, t, i) \/ Third(l, c, t, i)
    BY <1>4, Rests
  <2>2. (r1 = {} <=> In(c, t.p)) /\ (r2 = {} <=> In(c, t.q))
    BY <2>1, Sides DEF In
  <2>3. l.p \in Point /\ l.q \in Point /\ l.d \in Nat /\ l.e \in Nat
    BY DEF Straight
  <2>4. In(c, l.p) /\ In(c, l.q) => i = 0 /\ t.p = l.p /\ t.q = l.q
    BY <1>4 DEF Stage
  <2>5. CASE r1 = {} /\ r2 = {}
    <3>1. s = [p |-> t.p, q |-> t.q, found |-> "inside"]
      BY <1>1, <1>4, <2>5 DEF Turned
    <3>2. Fitting(l, c, t)
      BY <2>1, <2>2, <2>5
    <3>3. Fitting(l, c, s)
      BY <3>1, <3>2 DEF Fitting
    <3> QED BY <1>2, <2>4, <3>1, <3>3 DEF Stage
  <2>6. ASSUME ~(r1 = {} /\ r2 = {}) PROVE ~(In(c, l.p) /\ In(c, l.q))
    BY <2>2, <2>4, <2>6
  <2>7. CASE ~(r1 = {} /\ r2 = {}) /\ Doomed(c, t.p, t.q)
    <3>1. s = [p |-> t.p, q |-> t.q, found |-> "outside"]
      BY <1>1, <1>4, <2>7 DEF Turned, Doomed
    <3> QED BY <1>2, <2>6, <2>7, <3>1 DEF Stage
  <2>8. CASE r1 = {} /\ r2 # {} /\ ~Doomed(c, t.p, t.q)
    <3> DEFINE r == Moved(c, t.q, t.p)
    <3>1. s = [p |-> r, q |-> t.p, found |-> "nothing"]
      BY <1>1, <1>4, <2>8 DEF Turned, Doomed
    <3>2. OneEnd(l, c, t, i)
      BY <2>1, <2>2, <2>8
    <3>3. ~Doomed(c, t.q, t.p)
      BY <2>8 DEF Doomed
    <3>4. Strays(l, t.q, -l.d, l.e) /\ Strays(l, t.p, -l.d, l.e) /\ Apart(l, -1, t.q, t.p)
      <4>1. Tilt(l, t.q) = 0
        BY <3>2, TiltEnds DEF OneEnd
      <4>2. -l.d <= 0 /\ 0 <= l.e
        BY <2>3
      <4> QED BY <3>2, <4>1, <4>2, ApartAll DEF Strays, OneEnd
    <3>5. /\ Apart(l, -1, r, t.p)
          /\ \/ InX(c, r) /\ Strays(l, r, -l.d, l.e + l.d)
             \/ InY(c, r) /\ (InX(c, r) \/ Doomed(c, r, t.p)) /\ Strays(l, r, -l.d - l.e, l.e)
      <4>1. -l.d \in Int /\ l.e \in Int /\ -1 \in {1, -1} /\ ~(-1 = 1)
        BY <2>3
      <4> HIDE DEF r
      <4> QED BY <2>8, <3>3, <3>4, <4>1, EndMoves DEF r
    <3>6. r \in Point /\ In(c, t.p)
      BY <2>2, <2>8, <3>5 DEF Apart
    <3> HIDE DEF r
    <3>7. i <= 2
      BY <3>2 DEF OneEnd
    <3>8. ~(In(c, l.p) /\ In(c, l.q))
      BY <2>6, <2>8
    <3>9. Third(l, c, s, i + 1) \/ Fitting(l, c, s) \/ Missed(c, s, i + 1)
      <4>1. l.e + l.d = l.d + l.e /\ -l.d - l.e = -(l.d + l.e) /\ l.d + l.e \in Int
            /\ -(l.d + l.e) \in Int /\ -(l.d + l.e) <= -l.d /\ l.e <= l.d + l.e
            /\ -l.d \in Int /\ l.e \in Int
        <5> DEFINE d == l.d
                   e == l.e
        <5>1. d \in Nat /\ e \in Nat
          BY <2>3
        <5> HIDE DEF d, e
        <5>2. e + d = d + e /\ -d - e = -(d + e) /\ d + e \in Int
              /\ -(d + e) \in Int /\ -(d + e) <= -d /\ e <= d + e
              /\ -d \in Int /\ e \in Int
          BY <5>1
        <5> QED BY <5>2 DEF d, e
      <4>2. s.p = r /\ s.q = t.p
        BY <3>1
      <4>3. CASE InX(c, r) /\ Strays(l, r, -l.d, l.e + l.d)
        <5>1. Third(l, c, s, i + 1)
          BY <3>4, <3>5, <3>6, <3>7, <4>1, <4>2, <4>3 DEF Third
        <5> QED BY <5>1
      <4>4. CASE In(c, r) /\ Strays(l, r, -l.d - l.e, l.e)
        <5>1. Strays(l, r, -(l.d + l.e), l.e)
          BY <4>1, <4>4
        <5>2. Strays(l, r, -(l.d + l.e), l.d + l.e)
          BY <3>6, <4>1, <5>1, StraysMore
        <5>3. Strays(l, t.p, -(l.d + l.e), l.d + l.e)
          BY <2>1, <3>4, <4>1, StraysMore
        <5> QED BY <2>1, <3>6, <4>2, <4>4, <5>2, <5>3 DEF Fitting
      <4>5. CASE Doomed(c, r, t.p)
        BY <2>1, <3>6, <3>7, <4>2, <4>5 DEF Missed
      <4> QED BY <3>5, <4>3, <4>4, <4>5 DEF In
    <3>10. s.found = "nothing" /\ s = [p |-> s.p, q |-> s.q, found |-> s.found] /\ i + 1 <= 4
      BY <3>1, <3>7
    <3> QED BY <1>2, <3>8, <3>9, <3>10 DEF Stage
  <2>9. CASE r1 # {} /\ ~Doomed(c, t.p, t.q)
    <3> DEFINE r == Moved(c, t.p, t.q)
    <3>1. s = [p |-> r, q |-> t.q, found |-> "nothing"]
      BY <1>1, <1>4, <2>9 DEF Turned, Doomed
    <3>2. s.p = r /\ s.q = t.q /\ s.found = "nothing"
          /\ s = [p |-> s.p, q |-> s.q, found |-> s.found]
      BY <3>1
    <3>3. ~(In(c, l.p) /\ In(c, l.q))
      BY <2>6, <2>9
    <3>4. Begun(l, t, i) \/ OneWay(l, c, t, i) \/ Third(l, c, t, i)
      BY <2>1, <2>2, <2>9
    <3>5. -l.d \in Int /\ l.e \in Int /\ -l.d <= 0 /\ 0 <= l.e /\ 0 \in Int
      BY <2>3
    <3>6. CASE Begun(l, t, i)
      <4>1. t.p = l.p /\ t.q = l.q /\ i = 0
        BY <3>6 DEF Begun
      <4>2. Apart(l, 1, t.p, t.q) /\ Strays(l, t.p, 0, 0) /\ Strays(l, t.q, 0, 0)
        BY <4>1, ApartAll, TiltEnds DEF Strays
      <4>3. /\ Apart(l, 1, r, t.q)
            /\ \/ InX(c, r) /\ Strays(l, r, 0 - l.d, 0)
               \/ InY(c, r) /\ (InX(c, r) \/ Doomed(c, r, t.q)) /\ Strays(l, r, 0, 0 + l.e)
        BY <2>9, <4>2, EndMoves
      <4> HIDE DEF r
      <4>4. 0 - l.d = -l.d /\ 0 + l.e = l.e /\ r \in Point
        BY <2>3, <4>3 DEF Apart
      <4>5. CASE InX(c, r) /\ Strays(l, r, 0 - l.d, 0)
        <5>1. OneWay(l, c, s, i + 1)
          BY <3>2, <4>1, <4>3, <4>4, <4>5 DEF OneWay
        <5> QED BY <1>2, <3>2, <3>3, <5>1 DEF Stage
      <4>6. CASE In(c, r) /\ Strays(l, r, 0, 0 + l.e)
        <5>1. Strays(l, r, -l.d, l.e)
          BY <3>5, <4>4, <4>6, StraysMore
        <5>2. OneEnd(l, c, s, i + 1)
          BY <3>2, <4>1, <4>3, <4>6, <5>1 DEF OneEnd
        <5> QED BY <1>2, <3>2, <3>3, <5>2 DEF Stage
      <4>7. CASE Doomed(c, r, t.q)
        <5>1. Missed(c, s, i + 1)
          BY <2>1, <3>2, <4>1, <4>4, <4>7 DEF Missed
        <5> QED BY <1>2, <3>2, <3>3, <5>1 DEF Stage
      <4> QED BY <4>3, <4>5, <4>6, <4>7 DEF In
    <3>7. CASE OneWay(l, c, t, i)
      <4>1. t.q = l.q /\ i <= 1 /\ InX(c, t.p) /\ Apart(l, 1, t.p, t.q)
            /\ Strays(l, t.p, -l.d, 0)
        BY <3>7 DEF OneWay
      <4>2. Strays(l, t.q, -l.d, 0)
        BY <3>5, <4>1, TiltEnds DEF Strays
      <4>3. /\ Apart(l, 1, r, t.q)
            /\ InY(c, r) /\ (InX(c, r) \/ Doomed(c, r, t.q)) /\ Strays(l, r, -l.d, 0 + l.e)
        BY <2>9, <3>5, <4>1, <4>2, EndMoves
      <4> HIDE DEF r
      <4>4. 0 + l.e = l.e /\ r \in Point /\ i + 1 <= 2 /\ i + 1 <= 5
        BY <2>3, <4>1, <4>3 DEF Apart
      <4>5. CASE InX(c, r)
        <5>1. OneEnd(l, c, s, i + 1)
          BY <3>2, <4>1, <4>3, <4>4, <4>5 DEF OneEnd, In
        <5> QED BY <1>2, <3>2, <3>3, <5>1 DEF Stage
      <4>6. CASE Doomed(c, r, t.q)
        <5>1. Missed(c, s, i + 1)
          BY <2>1, <3>2, <4>4, <4>6 DEF Missed
        <5> QED BY <1>2, <3>2, <3>3, <5>1 DEF Stage
      <4> QED BY <4>3, <4>5, <4>6
    <3>8. CASE Third(l, c, t, i)
      <4> DEFINE d == l.d
                 e == l.e
      <4>1. /\ i <= 3 /\ InX(c, t.p) /\ Apart(l, -1, t.p, t.q) /\ In(c, t.q)
            /\ Strays(l, t.p, -d, d + e) /\ Strays(l, t.q, -d, e)
        BY <3>8 DEF Third
      <4>2. /\ d + e \in Int /\ -d \in Int /\ e <= d + e /\ -d - e = -(d + e)
            /\ -(d + e) \in Int /\ -(d + e) <= -d /\ e \in Int
        <5>1. d \in Nat /\ e \in Nat
          BY <2>3
        <5> HIDE DEF d, e
        <5> QED BY <5>1
      <4>3. Strays(l, t.q, -d, d + e)
        BY <2>1, <4>1, <4>2, StraysMore
      <4>4. -1 \in {1, -1} /\ ~(-1 = 1)
        OBVIOUS
      <4>5. /\ Apart(l, -1, r, t.q)
            /\ InY(c, r) /\ (InX(c, r) \/ Doomed(c, r, t.q)) /\ Strays(l, r, -d - e, d + e)
        BY <2>9, <4>1, <4>2, <4>3, <4>4, EndMoves
      <4> HIDE DEF r
      <4>6. ~Doomed(c, r, t.q)
        <5>1. r2 = {}
          BY <2>2, <4>1
        <5> QED BY <5>1 DEF Doomed
      <4>7. /\ r \in Point /\ In(c, r) /\ Strays(l, r, -(d + e), d + e)
            /\ Strays(l, t.q, -(d + e), d + e) /\ i + 1 <= 4
        BY <2>1, <4>1, <4>2, <4>5, <4>6, StraysMore DEF Apart, In
      <4>8. Fitting(l, c, s)
        BY <2>1, <3>2, <4>1, <4>7 DEF Fitting
      <4> QED BY <1>2, <3>2, <3>3, <4>7, <4>8 DEF Stage
    <3> QED BY <3>4, <3>6, <3>7, <3>8
  <2> QED BY <2>5, <2>7, <2>8, <2>9
<1> QED BY <1>3, <1>4

(* Clipping ends within its turns: with both ends in the window, or with   *)
(* the line outside.                                                       *)
LEMMA ClipUnfolds ==
  ASSUME NEW c, NEW p, NEW q
  PROVE  \E g : /\ g[0] = [p |-> p, q |-> q, found |-> "nothing"]
                /\ \A i \in 1..Turns : g[i] = Turned(c, g[i - 1])
                /\ Clipped(c, p, q) = g[Turns]
<1> DEFINE b == [p |-> p, q |-> q, found |-> "nothing"]
           Def(g, k) == [i \in 0..k |-> IF i = 0 THEN b ELSE Turned(c, g[i - 1])]
           S == {k \in Nat : \E g : g = Def(g, k)}
           Turn == CHOOSE g : g = Def(g, Turns)
<1>1. Clipped(c, p, q) = Turn[Turns]
  BY DEF Clipped
<1> HIDE DEF b
<1>2. 0 \in S
  <2> DEFINE g == [i \in 0..0 |-> b]
  <2>1. g = Def(g, 0)
    OBVIOUS
  <2> QED BY <2>1
<1>3. ASSUME NEW k \in S PROVE k + 1 \in S
  <2>1. PICK g : g = Def(g, k)
    OBVIOUS
  <2>2. k \in Nat
    OBVIOUS
  <2> DEFINE h == [i \in 0..(k + 1) |-> IF i = k + 1 THEN Turned(c, g[k]) ELSE g[i]]
  <2>3. ASSUME NEW i \in 0..(k + 1)
        PROVE  h[i] = IF i = 0 THEN b ELSE Turned(c, h[i - 1])
    <3>1. CASE i = k + 1
      BY <2>2, <3>1
    <3>2. CASE i # k + 1
      <4>1. i \in 0..k /\ h[i] = g[i] /\ (i # 0 => h[i - 1] = g[i - 1])
        BY <2>2, <3>2
      <4>2. g[i] = IF i = 0 THEN b ELSE Turned(c, g[i - 1])
        BY <2>1, <4>1, Zenon
      <4> QED BY <4>1, <4>2
    <3> QED BY <3>1, <3>2
  <2>4. h = [i \in 0..(k + 1) |-> IF i = 0 THEN b ELSE Turned(c, h[i - 1])]
    BY <2>3
  <2> HIDE DEF h
  <2>5. \E f : f = Def(f, k + 1)
    BY <2>4, Zenon
  <2> QED BY <2>2, <2>5
<1> HIDE DEF S
<1>4. S = Nat
  <2>1. S \subseteq Nat
    BY DEF S
  <2> QED BY <1>2, <1>3, <2>1, Ascent
<1>5. \E g : g = Def(g, Turns)
  BY <1>4 DEF S, Turns
<1>6. Turn = Def(Turn, Turns)
  BY <1>5, Zenon
<1> HIDE DEF Turn
<1>7. Turn[0] = b
  <2>1. 0 \in 0..Turns
    BY DEF Turns
  <2> QED BY <1>6, <2>1
<1>8. ASSUME NEW i \in 1..Turns PROVE Turn[i] = Turned(c, Turn[i - 1])
  <2>1. i \in 0..Turns /\ i # 0
    BY DEF Turns
  <2>2. Turn[i] = Def(Turn, Turns)[i]
    BY <1>6, Zenon
  <2> QED BY <2>1, <2>2
<1> QED BY <1>1, <1>7, <1>8 DEF b

LEMMA ClipEnds ==
  ASSUME NEW c, Pane(c), NEW l, Straight(l)
  PROVE  LET t == Clipped(c, l.p, l.q)
         IN  /\ t.found = "inside" \/ t.found = "outside"
             /\ t.found = "inside" => Fitting(l, c, t)
             /\ In(c, l.p) /\ In(c, l.q) => t = [p |-> l.p, q |-> l.q, found |-> "inside"]
<1>1. PICK g : /\ g[0] = [p |-> l.p, q |-> l.q, found |-> "nothing"]
               /\ \A i \in 1..Turns : g[i] = Turned(c, g[i - 1])
               /\ Clipped(c, l.p, l.q) = g[Turns]
  BY ClipUnfolds
<1> DEFINE S == {i \in Nat : i <= Turns => Stage(l, c, g[i], i)}
<1>2. 0 \in S
  <2>1. Stage(l, c, g[0], 0)
    BY <1>1, FirstStage
  <2> QED BY <2>1
<1>3. ASSUME NEW i \in S PROVE i + 1 \in S
  <2>1. i \in Nat /\ i + 1 \in Nat /\ (i + 1) - 1 = i
    OBVIOUS
  <2>2. SUFFICES ASSUME i + 1 <= Turns PROVE Stage(l, c, g[i + 1], i + 1)
    BY <2>1
  <2>3. i + 1 \in 1..Turns /\ i <= Turns
    BY <2>1, <2>2 DEF Turns
  <2>4. g[i + 1] = Turned(c, g[i])
    BY <1>1, <2>1, <2>3
  <2>5. Stage(l, c, g[i], i)
    BY <2>3
  <2>6. Stage(l, c, Turned(c, g[i]), i + 1)
    BY <2>1, <2>5, TurnKeeps
  <2> QED BY <2>4, <2>6
<1> HIDE DEF S
<1>4. S = Nat
  <2>1. S \subseteq Nat
    BY DEF S
  <2> QED BY <1>2, <1>3, <2>1, Ascent
<1>5. Stage(l, c, g[9], 9) /\ Clipped(c, l.p, l.q) = g[9]
  BY <1>1, <1>4 DEF S, Turns
<1> DEFINE t == g[9]
<1> HIDE DEF t
<1>6. Stage(l, c, t, 9)
  BY <1>5 DEF t
<1>7. t.found = "inside" \/ t.found = "outside"
  BY <1>6 DEF Stage, Begun, OneWay, OneEnd, Third, Missed
<1>8. t.found = "inside" => Fitting(l, c, t)
  BY <1>6 DEF Stage
<1>9. In(c, l.p) /\ In(c, l.q) => t = [p |-> l.p, q |-> l.q, found |-> "inside"]
  BY <1>6 DEF Stage
<1> QED BY <1>5, <1>7, <1>8, <1>9 DEF t

-----------------------------------------------------------------------------
(* A whole line.                                                           *)
LEMMA StraysLittle ==
  ASSUME NEW l, Straight(l), NEW a \in Point, NEW b \in Point, NEW z \in Nat,
         Strays(l, a, -z, z), Strays(l, b, -z, z), NEW r \in PixelsOf(Walk(a, b)),
         NEW longer \in Nat, l.d <= longer, l.e <= longer
  PROVE  /\ r \in Point /\ Tilt(l, r) \in Int
         /\ -(2 * z + longer) <= 2 * Tilt(l, r) /\ 2 * Tilt(l, r) <= 2 * z + longer
<1>1. r \in Point
  BY PixelsBetween
<1> DEFINE d == l.d
           e == l.e
           x == l.p[1]
           y == l.p[2]
           u == d * l.sy
           v == e * l.sx
           c == v * x - u * y
<1>2. /\ d \in Nat /\ e \in Nat /\ l.sx \in {1, -1} /\ l.sy \in {1, -1}
      /\ x \in Int /\ y \in Int
  BY DEF Straight, Point
<1>3. ASSUME NEW s \in Point PROVE Tilt(l, s) = u * s[2] - v * s[1] + c
  <2>1. s[1] \in Int /\ s[2] \in Int
    BY DEF Point
  <2>2. Tilt(l, s) = d * (l.sy * (s[2] - y)) - e * (l.sx * (s[1] - x))
    BY DEF Tilt
  <2> HIDE DEF d, e, x, y
  <2>3. d * (l.sy * (s[2] - y)) = u * s[2] - u * y
    BY <1>2, <2>1
  <2>4. e * (l.sx * (s[1] - x)) = v * s[1] - v * x
    BY <1>2, <2>1
  <2> DEFINE k == u * y
             m == v * x
             g == u * s[2]
             h == v * s[1]
  <2>5. k \in Int /\ m \in Int /\ g \in Int /\ h \in Int
    BY <1>2, <2>1
  <2> HIDE DEF k, m, g, h
  <2>6. (g - k) - (h - m) = g - h + (m - k)
    BY <2>5
  <2> QED BY <2>2, <2>3, <2>4, <2>6 DEF k, m, g, h
<1>4. /\ u \in Int /\ v \in Int /\ -longer <= u /\ u <= longer
      /\ -longer <= v /\ v <= longer
  <2>1. d <= longer /\ e <= longer
    OBVIOUS
  <2> HIDE DEF d, e
  <2> QED BY <1>2, <2>1
<1>5. c \in Int
  <2> HIDE DEF u, v, x, y
  <2> QED BY <1>2, <1>4
<1>6. /\ -z <= u * a[2] - v * a[1] + c /\ u * a[2] - v * a[1] + c <= z
      /\ -z <= u * b[2] - v * b[1] + c /\ u * b[2] - v * b[1] + c <= z
  <2>1. /\ Tilt(l, a) = u * a[2] - v * a[1] + c /\ Tilt(l, b) = u * b[2] - v * b[1] + c
    BY <1>3
  <2> HIDE DEF u, v, c
  <2> QED BY <2>1 DEF Strays
<1>7. Tilt(l, r) = u * r[2] - v * r[1] + c
  BY <1>1, <1>3
<1> HIDE DEF u, v, c
<1> QED BY <1>1, <1>4, <1>5, <1>6, <1>7, PixelsBeside

LEMMA PixelsIn0 ==
  ASSUME NEW c, Pane(c), NEW a \in Point, NEW b \in Point, In(c, a), In(c, b),
         NEW r \in PixelsOf(Walk(a, b))
  PROVE  In(c, r)
<1>1. /\ r \in Point /\ Between(a[1], r[1], b[1]) /\ Between(a[2], r[2], b[2])
  BY PixelsBetween
<1>2. /\ r[1] \in Int /\ r[2] \in Int /\ a[1] \in Int /\ a[2] \in Int
      /\ b[1] \in Int /\ b[2] \in Int
  BY <1>1 DEF Point
<1> QED BY <1>1, <1>2 DEF Between, In, InX, InY, Pane

(* For any two points, and any window that is not empty: gl_line draws     *)
(* both ends and a pixel for every step of a line in the window, each as   *)
(* near as can be and the same backwards, and of any line only pixels in   *)
(* the window, off it by no more than the rounding of its ends explains.   *)
THEOREM AnyLine ==
  ASSUME NEW clip, clip = None \/ Pane(clip), NEW p \in Point, NEW q \in Point
  PROVE  Exact(Traced(clip, p, q))
<1> DEFINE w == Slope(p, q)
           dx == q[1] - p[1]
           dy == q[2] - p[2]
           d == Magnitude(dx)
           e == Magnitude(dy)
           longer == IF d > e THEN d ELSE e
           t == IF clip = None THEN [p |-> p, q |-> q, found |-> "inside"]
                ELSE Clipped(clip, p, q)
           l == [p |-> p, q |-> q, sx |-> w.sx, sy |-> w.sy, d |-> d, e |-> e]
           Strayed(r) == Magnitude(dx * (r[2] - p[2]) - dy * (r[1] - p[1]))
           line0 == Traced(clip, p, q)
           pixels == PixelsOf(line0.walk)
           plain == clip = None \/ \A r \in {p, q} : gl_regioncode(clip, r) = {}
<1>1. /\ dx \in Int /\ dy \in Int /\ d \in Nat /\ e \in Nat
      /\ w.sx \in {1, -1} /\ w.sy \in {1, -1} /\ dx = w.sx * d /\ dy = w.sy * e
      /\ Long(w) = longer
  <2>1. dx \in Int /\ dy \in Int
    BY DEF Point
  <2>2. d \in Nat /\ e \in Nat
    BY <2>1 DEF Magnitude
  <2>3. /\ w.flat \in BOOLEAN /\ w.sx \in {1, -1} /\ w.sy \in {1, -1}
        /\ w.flat => /\ Long(w) > Short(w) /\ Long(w) = d /\ Short(w) = e
                     /\ dx = w.sx * d /\ dy = w.sy * e
        /\ ~w.flat => /\ Short(w) <= Long(w) /\ Long(w) = e /\ Short(w) = d
                      /\ dx = w.sx * d /\ dy = w.sy * e
    BY SlopeFacts
  <2> HIDE DEF w, dx, dy, d, e
  <2> QED BY <2>1, <2>2, <2>3
<1>2. p = l.p /\ q = l.q /\ l.d = d /\ l.e = e /\ l.sx = w.sx /\ l.sy = w.sy
  OBVIOUS
<1>3. Straight(l)
  <2>1. q[1] = p[1] + w.sx * d /\ q[2] = p[2] + w.sy * e
    <3>1. p[1] \in Int /\ p[2] \in Int /\ q[1] \in Int /\ q[2] \in Int
      BY DEF Point
    <3> DEFINE g == w.sx * d
               h == w.sy * e
    <3>2. q[1] - p[1] = g /\ q[2] - p[2] = h
      BY <1>1
    <3>3. g \in Int /\ h \in Int
      BY <1>1
    <3> HIDE DEF g, h
    <3>4. q[1] = p[1] + g /\ q[2] = p[2] + h
      BY <3>1, <3>2, <3>3
    <3> QED BY <3>4 DEF g, h
  <2> HIDE DEF w, d, e
  <2> QED BY <1>1, <2>1 DEF Straight
<1>4. longer \in Nat /\ d <= longer /\ e <= longer
  BY <1>1
<1>5. ASSUME NEW r \in Point PROVE Strayed(r) = Magnitude(Tilt(l, r)) /\ Tilt(l, r) \in Int
  <2>1. r[1] - p[1] \in Int /\ r[2] - p[2] \in Int /\ Tilt(l, r) \in Int
    BY <1>3, TiltInt DEF Point
  <2> DEFINE x == r[1] - p[1]
             y == r[2] - p[2]
  <2>2. Tilt(l, r) = d * (w.sy * y) - e * (w.sx * x)
    BY DEF Tilt
  <2>3. Strayed(r) = Magnitude(dx * y - dy * x)
    OBVIOUS
  <2> HIDE DEF d, e, w, dx, dy, x, y, l, Strayed
  <2>4. w.sx * d * y - w.sy * e * x = d * (w.sy * y) - e * (w.sx * x)
        \/ w.sx * d * y - w.sy * e * x = -(d * (w.sy * y) - e * (w.sx * x))
    <3>1. x \in Int /\ y \in Int
      BY <2>1 DEF x, y
    <3> QED BY <1>1, <3>1
  <2>5. dx * y - dy * x = Tilt(l, r) \/ dx * y - dy * x = -Tilt(l, r)
    BY <1>1, <2>2, <2>4
  <2>6. Magnitude(-Tilt(l, r)) = Magnitude(Tilt(l, r))
    BY <2>1 DEF Magnitude
  <2> QED BY <2>1, <2>3, <2>5, <2>6
<1>6. /\ line0.from = p /\ line0.to = q /\ line0.clip = clip /\ line0.found = t.found
      /\ line0.walk = IF t.found = "outside" THEN <<>> ELSE Walk(t.p, t.q)
  BY DEF Traced
<1>7. /\ t.found = "inside" \/ t.found = "outside"
      /\ t.found = "inside" => /\ t.p \in Point /\ t.q \in Point
                               /\ Strays(l, t.p, -(d + e), d + e)
                               /\ Strays(l, t.q, -(d + e), d + e)
                               /\ clip # None => In(clip, t.p) /\ In(clip, t.q)
      /\ plain => t = [p |-> p, q |-> q, found |-> "inside"]
  <2>1. CASE clip = None
    <3>1. t = [p |-> p, q |-> q, found |-> "inside"]
      BY <2>1
    <3>2. Tilt(l, p) = 0 /\ Tilt(l, q) = 0
      BY <1>2, <1>3, TiltEnds
    <3>3. -(d + e) <= 0 /\ 0 <= d + e
      BY <1>1
    <3> HIDE DEF l, d, e
    <3> QED BY <2>1, <3>1, <3>2, <3>3 DEF Strays
  <2>2. CASE clip # None
    <3>1. Pane(clip) /\ t = Clipped(clip, l.p, l.q)
      BY <1>2, <2>2
    <3>2. plain => In(clip, p) /\ In(clip, q)
      BY <2>2, <3>1, Sides DEF In
    <3> HIDE DEF t, l
    <3>3. /\ t.found = "inside" \/ t.found = "outside"
          /\ t.found = "inside" => Fitting(l, clip, t)
          /\ In(clip, l.p) /\ In(clip, l.q) => t = [p |-> l.p, q |-> l.q, found |-> "inside"]
      BY <1>3, <3>1, ClipEnds
    <3> HIDE DEF plain, d, e
    <3> QED BY <1>2, <2>2, <3>2, <3>3 DEF Fitting
  <2> QED BY <2>1, <2>2
<1>8. t.found = "outside" => pixels = {}
  BY <1>6 DEF PixelsOf
<1>9. t.found = "inside" => line0.walk = Walk(t.p, t.q)
  BY <1>6
<1> HIDE DEF t, l, line0
<1>10. ASSUME t.found = "inside", NEW r \in pixels
       PROVE  /\ r \in Point /\ 2 * Strayed(r) <= longer + 2 * (d + e)
              /\ clip # None => gl_regioncode(clip, r) = {}
  <2>1. r \in PixelsOf(Walk(t.p, t.q)) /\ d + e \in Nat
    BY <1>1, <1>9, <1>10
  <2>2. /\ r \in Point /\ Tilt(l, r) \in Int
        /\ -(2 * (d + e) + longer) <= 2 * Tilt(l, r)
        /\ 2 * Tilt(l, r) <= 2 * (d + e) + longer
    <3> HIDE DEF longer, d, e
    <3> QED BY <1>2, <1>3, <1>4, <1>7, <1>10, <2>1, StraysLittle
  <2>3. 2 * Strayed(r) <= longer + 2 * (d + e)
    <3>1. Strayed(r) = Magnitude(Tilt(l, r))
      BY <1>5, <2>2
    <3> HIDE DEF longer, d, e, Strayed
    <3> QED BY <1>1, <1>4, <2>2, <3>1 DEF Magnitude
  <2>4. clip # None => gl_regioncode(clip, r) = {}
    BY <1>7, <1>10, <2>1, <2>2, PixelsIn0, Sides DEF In
  <2> QED BY <2>2, <2>3, <2>4
<1>11. ASSUME plain
       PROVE  /\ {p, q} \subseteq pixels /\ Cardinality(pixels) = longer + 1
              /\ \A r \in pixels : 2 * Strayed(r) <= longer
              /\ pixels = PixelsOf(Walk(q, p))
  <2>1. t.p = p /\ t.q = q /\ t.found = "inside"
    BY <1>7, <1>11
  <2>2. pixels = PixelsOf(Walk(p, q))
    BY <1>9, <2>1
  <2>3. {p, q} \subseteq pixels /\ Cardinality(pixels) = longer + 1
    BY <1>1, <2>2, EndsDrawn, PixelsCounted
  <2>4. pixels = PixelsOf(Walk(q, p))
    BY <2>2, SameBackwards
  <2>5. ASSUME NEW r \in pixels PROVE 2 * Strayed(r) <= longer
    <3>1. Strays(l, p, -0, 0) /\ Strays(l, q, -0, 0)
      BY <1>2, <1>3, TiltEnds DEF Strays
    <3>2. /\ r \in Point /\ Tilt(l, r) \in Int
          /\ -(2 * 0 + longer) <= 2 * Tilt(l, r) /\ 2 * Tilt(l, r) <= 2 * 0 + longer
      <4> HIDE DEF longer, d, e, pixels
      <4> QED BY <1>2, <1>3, <1>4, <2>2, <2>5, <3>1, StraysLittle
    <3>3. Strayed(r) = Magnitude(Tilt(l, r))
      BY <1>5, <3>2
    <3> HIDE DEF longer, d, e, Strayed
    <3> QED BY <1>4, <3>2, <3>3 DEF Magnitude
  <2> QED BY <2>3, <2>4, <2>5
<1>12. \A r \in pixels : /\ 2 * Strayed(r) <= longer + 2 * (d + e)
                         /\ clip # None => gl_regioncode(clip, r) = {}
  BY <1>7, <1>8, <1>10
<1>13. t.found # "nothing"
  BY <1>7
<1>14. Exact(line0)
  <2>1. line0.found # "nothing"
    BY <1>6, <1>13
  <2>2. line0.clip # None => \A r \in pixels : gl_regioncode(line0.clip, r) = {}
    BY <1>6, <1>12
  <2>3. /\ dx = line0.to[1] - line0.from[1] /\ dy = line0.to[2] - line0.from[2]
        /\ \A r : Strayed(r) = Magnitude(dx * (r[2] - line0.from[2])
                                       - dy * (r[1] - line0.from[1]))
    BY <1>6
  <2>4. plain = (\/ line0.clip = None
                 \/ \A r \in {line0.from, line0.to} : gl_regioncode(line0.clip, r) = {})
    BY <1>6
  <2>5. plain => /\ {line0.from, line0.to} \subseteq pixels
                 /\ Cardinality(pixels) = longer + 1
                 /\ \A r \in pixels : 2 * Strayed(r) <= longer
                 /\ pixels = PixelsOf(Walk(line0.to, line0.from))
    BY <1>6, <1>11
  <2>6. \A r \in pixels : 2 * Strayed(r) <= longer + 2 * (d + e)
    BY <1>12
  <2> HIDE DEF plain, dx, dy, Strayed
  <2> QED BY <2>1, <2>2, <2>3, <2>4, <2>5, <2>6 DEF Exact
<1> QED BY <1>14 DEF line0

-----------------------------------------------------------------------------
(* The contexts are as large as the mode, and their windows are not empty. *)
Shaped(g) ==
  /\ {"width", "height", "clip"} \subseteq DOMAIN g
  /\ g.width = setup.width /\ g.height = setup.height
  /\ g.clip = None \/ Pane(g.clip)

GLInv ==
  /\ setup \in Setups
  /\ Shaped(physicalscreen) /\ Shaped(virtualscreen) /\ Shaped(currentcontext)
  /\ LineTrue

LEMMA GLStarts == GLInit => GLInv
<1> SUFFICES ASSUME GLInit PROVE GLInv
  OBVIOUS
<1>1. PICK s \in Setups : /\ setup = s /\ physicalscreen = gl_setcontextvga(s)
                          /\ virtualscreen = VirtualOf(s) /\ currentcontext = VirtualOf(s)
                          /\ line = NoLine
  BY DEF GLInit
<1>2. Shaped(gl_setcontextvga(s))
  BY <1>1 DEF Shaped, gl_setcontextvga
<1>3. Shaped(VirtualOf(s))
  BY <1>1 DEF Shaped, VirtualOf, gl_setcontextvgavirtual, gl_setcontextvirtual
<1> QED BY <1>1, <1>2, <1>3 DEF GLInv, LineTrue

(* The windows the program sets.                                           *)
LEMMA Windows ==
  ASSUME NEW s \in Setups, NEW g, g.width = s.width, g.height = s.height
  PROVE  /\ Pane(Whole(g))
         /\ s.calls # "frames" => Pane(Inner(g))
<1>1. /\ s.width \in Nat \ {0} /\ s.height \in Nat \ {0}
      /\ s.calls # "frames" => s.width > 2 /\ s.height > 1
  BY VGAGLAssumption
<1>2. Pane(Whole(g))
  BY <1>1 DEF Pane, Whole
<1>3. s.calls # "frames" => Pane(Inner(g))
  BY <1>1 DEF Pane, Inner
<1> QED BY <1>2, <1>3

LEMMA PointsInt ==
  ASSUME GLInv PROVE Points \subseteq Point
<1>1. setup.width \in Nat \ {0} /\ setup.height \in Nat \ {0}
  BY VGAGLAssumption DEF GLInv
<1>2. PixelsIn(currentcontext) \subseteq Point
  BY <1>1 DEF GLInv, Shaped, PixelsIn, Point
<1>3. ((-3)..(setup.width + 3)) \X ((-3)..(setup.height + 3)) \subseteq Point
  BY <1>1 DEF Point
<1> QED BY <1>2, <1>3 DEF Points

LEMMA GLKeeps == GLInv /\ [GLNext]_glvars => GLInv'
<1> SUFFICES ASSUME GLInv, [GLNext]_glvars PROVE GLInv'
  OBVIOUS
<1> USE DEF KeepAll, KeepDisplay, contexts
<1>1. ASSUME UNCHANGED <<setup, contexts, line>> PROVE GLInv'
  BY <1>1 DEF GLInv, Shaped, LineTrue
<1>2. ASSUME UNCHANGED <<setup, line>>, Shaped(physicalscreen)', Shaped(virtualscreen)',
             Shaped(currentcontext)'
      PROVE  GLInv'
  BY <1>2 DEF GLInv, LineTrue
<1>3. CASE Configures
  <2>1. ASSUME NEW gc \in {physicalscreen, virtualscreen}, gl_setcontext(gc) PROVE GLInv'
    <3>1. /\ currentcontext' = gc /\ UNCHANGED <<setup, physicalscreen, virtualscreen, line>>
      BY <2>1 DEF gl_setcontext
    <3>2. Shaped(currentcontext)' /\ Shaped(physicalscreen)' /\ Shaped(virtualscreen)'
      BY <2>1, <3>1 DEF Shaped, GLInv
    <3> QED BY <1>2, <3>1, <3>2
  <2>2. ASSUME NEW c, c = None \/ Pane(c), gl_setclippingwindow(c) PROVE GLInv'
    <3>1. /\ currentcontext' = [currentcontext EXCEPT !.clip = c]
          /\ UNCHANGED <<setup, physicalscreen, virtualscreen, line>>
      BY <2>2 DEF gl_setclippingwindow
    <3>2. Shaped(currentcontext)' /\ Shaped(physicalscreen)' /\ Shaped(virtualscreen)'
      BY <2>2, <3>1 DEF Shaped, GLInv
    <3> QED BY <1>2, <3>1, <3>2
  <2>3. ASSUME gl_setclippingwindow(Inner(currentcontext)) PROVE GLInv'
    <3>1. setup.calls # "frames"
      BY <2>3 DEF gl_setclippingwindow
    <3>2. Pane(Inner(currentcontext))
      BY <3>1, Windows DEF GLInv, Shaped
    <3> QED BY <2>2, <2>3, <3>2
  <2>4. ASSUME gl_enableclipping PROVE GLInv'
    <3>1. Pane(Whole(currentcontext))
      BY Windows DEF GLInv, Shaped
    <3> QED BY <2>2, <2>4, <3>1 DEF gl_enableclipping
  <2>5. ASSUME gl_disableclipping PROVE GLInv'
    BY <2>2, <2>5 DEF gl_disableclipping
  <2>6. ASSUME gl_setscreenoffset(physicalscreen.bytewidth) PROVE GLInv'
    BY <1>1, <2>6 DEF gl_setscreenoffset
  <2>7. ASSUME gl_enablepageflipping PROVE GLInv'
    <3>1. PICK f : /\ physicalscreen' = [physicalscreen EXCEPT !.flags = f, !.flippage = 0]
                   /\ UNCHANGED <<setup, virtualscreen, currentcontext, line>>
      BY <2>7 DEF gl_enablepageflipping
    <3>2. Shaped(physicalscreen)' /\ Shaped(currentcontext)' /\ Shaped(virtualscreen)'
      BY <3>1 DEF Shaped, GLInv
    <3> QED BY <1>2, <3>1, <3>2
  <2>8. ASSUME NEW k \in Frames, fill(k) PROVE GLInv'
    <3>1. UNCHANGED <<setup, contexts, line>>
      BY <2>8 DEF fill
    <3> QED BY <1>1, <3>1
  <2> QED BY <1>3, <2>1, <2>3, <2>4, <2>5, <2>6, <2>7, <2>8 DEF Configures
<1>4. CASE DrawsOne
  <2>1. ASSUME NEW m, NEW new, Draws(m, new) PROVE GLInv'
    BY <1>1, <2>1 DEF Draws
  <2>2. ASSUME NEW got, NEW due, Reads(got, due) PROVE GLInv'
    BY <1>1, <2>2 DEF Reads
  <2>3. ASSUME NEW x, NEW y, gl_setpixel(x, y, Ink) \/ gl_getpixel(x, y) PROVE GLInv'
    BY <2>1, <2>2, <2>3 DEF gl_setpixel, gl_getpixel
  <2>4. ASSUME NEW x, NEW y, NEW x2, gl_hline(x, y, x2, Ink) PROVE GLInv'
    BY <2>1, <2>4 DEF gl_hline
  <2>5. ASSUME NEW from, NEW x1, NEW y1, NEW w, NEW h, NEW to, NEW x2, NEW y2,
               CopiesBox(from, x1, y1, w, h, to, x2, y2)
        PROVE  GLInv'
    <3>1. UNCHANGED <<setup, contexts, line>>
      BY <2>5 DEF CopiesBox
    <3> QED BY <1>1, <3>1
  <2>6. ASSUME NEW x, NEW y, NEW w, NEW h, NEW x2, NEW y2,
               \/ gl_copybox(x, y, w, h, x2, y2)
               \/ gl_copyboxtocontext(x, y, w, h, x2, y2)
               \/ gl_copyboxfromcontext(x, y, w, h, x2, y2)
        PROVE  GLInv'
    BY <2>1, <2>5, <2>6 DEF gl_copybox, gl_copyboxtocontext, gl_copyboxfromcontext
  <2>7. ASSUME NEW x, NEW y, NEW w, NEW h,
               \/ gl_fillbox(x, y, w, h, Ink)
               \/ gl_putbox(x, y, w, h, Pixmap(3))
               \/ gl_putboxmask(x, y, w, h, Mask)
               \/ gl_putboxmaskcompiled(x, y, w, h, Mask)
               \/ gl_getbox(x, y, w, h)
        PROVE  GLInv'
    <3>1. CASE gl_fillbox(x, y, w, h, Ink)
      BY <2>1, <3>1 DEF gl_fillbox
    <3>2. CASE gl_putbox(x, y, w, h, Pixmap(3))
      BY <2>1, <3>2, Zenon DEF gl_putbox
    <3>3. CASE gl_putboxmask(x, y, w, h, Mask)
      BY <2>1, <3>3, Zenon DEF gl_putboxmask
    <3>4. CASE gl_putboxmaskcompiled(x, y, w, h, Mask)
      <4>1. UNCHANGED <<setup, contexts, line>>
        BY <3>4, Zenon DEF gl_putboxmaskcompiled
      <4> QED BY <1>1, <4>1
    <3>5. CASE gl_getbox(x, y, w, h)
      BY <2>2, <3>5 DEF gl_getbox
    <3> QED BY <2>7, <3>1, <3>2, <3>3, <3>4, <3>5
  <2>8. ASSUME NEW p \in Points, NEW q \in Points, gl_line(p, q, Ink) PROVE GLInv'
    <3>1. /\ line' = Traced(currentcontext.clip, p, q)
          /\ UNCHANGED <<setup, contexts>>
      BY <2>8 DEF gl_line
    <3>2. p \in Point /\ q \in Point
      BY PointsInt
    <3>3. currentcontext.clip = None \/ Pane(currentcontext.clip)
      BY DEF GLInv, Shaped
    <3>4. Exact(line')
      BY <3>1, <3>2, <3>3, AnyLine
    <3> QED BY <3>1, <3>4 DEF GLInv, Shaped, LineTrue
  <2> QED BY <1>4, <2>3, <2>4, <2>6, <2>7, <2>8 DEF DrawsOne
<1>5. CASE BeginCopy
  <2>1. PICK n : /\ physicalscreen' = [physicalscreen EXCEPT !.flippage = n]
                 /\ UNCHANGED <<setup, virtualscreen, currentcontext, line>>
    BY <1>5 DEF BeginCopy
  <2>2. Shaped(physicalscreen)' /\ Shaped(currentcontext)' /\ Shaped(virtualscreen)'
    BY <2>1 DEF Shaped, GLInv
  <2> QED BY <1>2, <2>1, <2>2
<1>6. CASE CopyChunk \/ EndCopy \/ VerticalRetrace \/ UNCHANGED glvars
  <2>1. UNCHANGED <<setup, contexts, line>>
    BY <1>6 DEF CopyChunk, EndCopy, VerticalRetrace, glvars
  <2> QED BY <1>1, <2>1
<1> QED BY <1>3, <1>4, <1>5, <1>6 DEF GLNext

(* A program draws with vgagl alone, or with the accelerator alone, and    *)
(* the other stays as it is.                                               *)
LEMMA DrawsApart == DrawingSpec => GLSpec /\ AccelSpec
<1>1. DrawingInit => GLInit /\ AccelInit
  BY DEF DrawingInit
<1>2. [DrawingNext]_<<library, vars, glvars, accelvars>>
        => [GLNext]_glvars /\ [AccelNext]_accelvars
  BY DEF DrawingNext
<1> QED BY <1>1, <1>2, PTL DEF DrawingSpec, GLSpec, AccelSpec

-----------------------------------------------------------------------------
(* The engine of a gentle program never works behind another console's or  *)
(* the shell's back, whatever calls the signals interrupt, and every lock  *)
(* its drivers take is given back once.                                    *)
THEOREM EngineGuarded == ASSUME Gentle PROVE DrawingSpec => []Guarded
BY AccelKept, InvGuarded, DrawsApart, PTL

(* No handler of a signal waits for an engine that waits for the data of   *)
(* the bitmap it interrupted: not that of SIGINT, and of others none that  *)
(* did not come just while the data were copied to an ARK or Cirrus.       *)
THEOREM NobodyStuck == ASSUME Gentle PROVE DrawingSpec => []Mortal
BY AccelKept, InvMortal, DrawsApart, PTL

(* Every line a program draws with vgagl, in a mode of any size, is one    *)
(* that AnyLine is about: the points are whole, the window is not empty.   *)
THEOREM LinesTrue == DrawingSpec => []LineTrue
<1>1. GLInv => LineTrue
  BY DEF GLInv
<1> QED BY <1>1, GLStarts, GLKeeps, DrawsApart, PTL DEF GLSpec
=============================================================================
