--------------------------- MODULE RetraceProofs ----------------------------
(***************************************************************************)
(* The wait for the retrace in the kernel helper, for any number of        *)
(* processes of which no two count an open at once: the counter is the     *)
(* number of opens, registering and freeing the interrupt handlers match,  *)
(* and, for a card's device that a process keeps open, with the ioctls     *)
(* under the big lock and no signals, nobody sleeps with the interrupt     *)
(* off.                                                                    *)
(***************************************************************************)
EXTENDS Retrace, TLAPS, FiniteSetTheorems

States == Access \cup {"closed", "opening", "open", "request", "enable", "wait",
                       "ack", "free", "result", "closing"}

LEMMA Users ==
  /\ CardUser \subseteq User /\ ControlUser \subseteq User
  /\ CardUser \cap ControlUser = {} /\ User = CardUser \cup ControlUser
  /\ IsFiniteSet(User) /\ IsFiniteSet(CardUser) /\ IsFiniteSet(ControlUser)
  /\ IsFiniteSet(Keeper) /\ Keeper \subseteq CardUser
<1>1. /\ CardUser \subseteq User /\ ControlUser \subseteq User
      /\ CardUser \cap ControlUser = {} /\ Keeper \subseteq CardUser
      /\ IsFiniteSet(User) /\ Keeper \subseteq User
  BY RetraceAssumption DEF User
<1> QED  BY <1>1, FS_Subset DEF User

(* A set that gains or loses one element.                                  *)
LEMMA OneMore ==
  ASSUME NEW S, IsFiniteSet(S), NEW x, x \notin S
  PROVE  Cardinality(S \cup {x}) = Cardinality(S) + 1
BY FS_AddElement

LEMMA OneLess ==
  ASSUME NEW S, IsFiniteSet(S), NEW x \in S
  PROVE  /\ Cardinality(S \ {x}) = Cardinality(S) - 1
         /\ Cardinality(S) \in Nat \ {0}
<1>1. Cardinality(S) \in Nat /\ Cardinality(S) # 0
  BY FS_CardinalityType, FS_EmptySet
<1> QED  BY <1>1, FS_RemoveElement

LEMMA OpenedFinite ==
  /\ IsFiniteSet(Opened) /\ Cardinality(Opened) \in Nat
  /\ Cardinality(Opened) = 0 <=> Opened = {}
<1>1. Opened \subseteq CardUser
  BY DEF Opened
<1> QED  BY <1>1, Users, FS_Subset, FS_CardinalityType, FS_EmptySet

-----------------------------------------------------------------------------
(***************************************************************************)
(* The counting of opens.                                                  *)
(*                                                                         *)
(* The argument: a process enters the count only while nobody else counts, *)
(* for else it would have preempted the other, and only one of those that  *)
(* open and close may do so; so what it read is still the counter when it  *)
(* writes it back and when it tests it.                                    *)
(***************************************************************************)

(* Each kind of process has its own calls.                                 *)
Known ==
  /\ pc \in [User -> States] /\ seen \in [CardUser -> Int] /\ opencount \in Int
  /\ \A u \in ControlUser \cup Keeper :
       pc[u] \notin Access \cup {"closed", "opening", "closing"}
  /\ \A u \in CardUser : pc[u] \notin {"request", "free"}

Counting == Known /\ OneCounts

(* What a step of a process does to its place in the program.              *)
LEMMA Moves ==
  ASSUME Known, NEW u \in User, NEW from, NEW to \in States, Step(u, from, to)
  PROVE  /\ pc' \in [User -> States] /\ pc[u] = from /\ pc'[u] = to
         /\ \A v \in User \ {u} : pc'[v] = pc[v]
BY DEF Known, Step

LEMMA InitCounting == Init => Counting
<1> SUFFICES ASSUME Init PROVE Counting
  OBVIOUS
<1> USE Users DEF Init
<1>1. Opened = Keeper
  BY RetraceAssumption DEF Opened, Access, User
<1>2. Known
  <2>1. opencount \in Int
    BY FS_CardinalityType
  <2> QED  BY <2>1 DEF Known, States, Access
<1>3. OneCounts
  BY <1>1 DEF OneCounts, Access
<1> QED  BY <1>2, <1>3 DEF Counting

(* A process that counts is the only one, and knows the counter.           *)
LEMMA Alone ==
  ASSUME Counting, NEW u \in User, pc[u] \in Access
  PROVE  /\ u \in CardUser \ Keeper /\ seen[u] = opencount
         /\ Tested(u) = {opencount}
         /\ \A v \in User \ {u} : pc[v] \notin Access
BY Users DEF Counting, Known, OneCounts, Tested

(* Entering the count.                                                     *)
LEMMA EnterCount ==
  ASSUME OneOpens, Counting, NEW u \in User,
         svgalib_helper_open(u) \/ svgalib_helper_release(u)
  PROVE  Counting' /\ Opened' = Opened
<1> USE Users
<1> DEFINE from == IF svgalib_helper_open(u) THEN "closed" ELSE "open"
           to == IF svgalib_helper_open(u) THEN "counting" ELSE "uncounting"
<1>1. /\ u \in CardUser \ Keeper /\ Step(u, from, to) /\ to \in States
      /\ UNCHANGED opencount /\ seen' = [seen EXCEPT ![u] = opencount]
  BY DEF svgalib_helper_open, svgalib_helper_release, Step, Counting, Known,
         States, Access, Read
<1>2. /\ pc' \in [User -> States] /\ pc[u] = from /\ pc'[u] = to
      /\ \A v \in User \ {u} : pc'[v] = pc[v]
  <2> HIDE DEF from, to
  <2> QED  BY <1>1, Moves DEF Counting
<1>3. \A v \in User \ {u} : pc[v] \notin Access
  <2>1. CASE Preempted
    BY <1>1, <2>1 DEF OneOpens, Counting, Known, OneCounts
  <2>2. CASE ~Preempted
    BY <1>1, <2>2 DEF Step, Runs
  <2> QED  BY <2>1, <2>2
<1>4. Opened' = Opened
  BY <1>1, <1>2 DEF Opened
<1>5. opencount \in Int
  BY OpenedFinite DEF Counting, OneCounts
<1>6. Known'
  BY <1>1, <1>2, <1>5 DEF Counting, Known
<1>7. OneCounts'
  <2>1. \A v \in User : pc'[v] \in Access => v = u
    BY <1>2, <1>3
  <2>2. seen'[u] = opencount'
    BY <1>1 DEF Counting, Known
  <2> QED  BY <1>1, <1>4, <2>1, <2>2 DEF Counting, OneCounts
<1> QED  BY <1>4, <1>6, <1>7 DEF Counting

(* Writing the counter back.                                               *)
LEMMA CountCounts ==
  ASSUME Counting, NEW u \in User, CountOpen(u) \/ CountRelease(u)
  PROVE  Counting'
<1> USE Users
<1>1. pc[u] \in Access
  BY DEF CountOpen, CountRelease, Step, Access
<1>2. /\ u \in CardUser \ Keeper /\ seen[u] = opencount /\ opencount \in Int
      /\ \A v \in User \ {u} : pc[v] \notin Access
  BY <1>1, Alone, OpenedFinite DEF Counting, OneCounts
<1>3. ASSUME NEW by \in {1, -1}, Count(u, by)
      PROVE  /\ opencount' = opencount + by /\ seen'[u] = opencount'
             /\ seen' \in [CardUser -> Int]
  BY <1>2, <1>3 DEF Count, Counting, Known
<1>4. CASE CountOpen(u)
  <2>1. /\ pc' \in [User -> States] /\ pc[u] = "counting" /\ pc'[u] = "counted"
        /\ \A v \in User \ {u} : pc'[v] = pc[v]
    BY <1>4, Moves DEF CountOpen, Counting, States, Access
  <2>2. /\ opencount' = opencount + 1 /\ seen'[u] = opencount'
        /\ seen' \in [CardUser -> Int]
    BY <1>3, <1>4 DEF CountOpen
  <2>3. u \notin Opened /\ Opened' = Opened \cup {u}
    BY <1>2, <2>1 DEF Opened
  <2>4. opencount' = Cardinality(Opened')
    BY <2>2, <2>3, OpenedFinite, OneMore DEF Counting, OneCounts
  <2>5. Known'
    BY <1>2, <2>1, <2>2 DEF Counting, Known
  <2> QED  BY <1>2, <2>1, <2>2, <2>4, <2>5 DEF Counting, OneCounts
<1>5. CASE CountRelease(u)
  <2>1. /\ pc' \in [User -> States] /\ pc[u] = "uncounting" /\ pc'[u] = "uncounted"
        /\ \A v \in User \ {u} : pc'[v] = pc[v]
    BY <1>5, Moves DEF CountRelease, Counting, States, Access
  <2>2. /\ opencount' = opencount - 1 /\ seen'[u] = opencount'
        /\ seen' \in [CardUser -> Int]
    BY <1>2, <1>3, <1>5 DEF CountRelease
  <2>3. u \in Opened /\ Opened' = Opened \ {u}
    BY <1>2, <2>1 DEF Opened
  <2>4. opencount' = Cardinality(Opened')
    BY <2>2, <2>3, OpenedFinite, OneLess DEF Counting, OneCounts
  <2>5. Known'
    BY <1>2, <2>1, <2>2 DEF Counting, Known
  <2> QED  BY <1>2, <2>1, <2>2, <2>4, <2>5 DEF Counting, OneCounts
<1> QED  BY <1>4, <1>5

(* Leaving the count.                                                      *)
LEMMA LeaveCount ==
  ASSUME Counting, NEW u \in User, NEW from, NEW to \in States,
         Step(u, from, to), from \in Access,
         seen' = [seen EXCEPT ![u] = 0], UNCHANGED opencount,
         \/ from = "counted" /\ to \in {"opening", "open"}
         \/ from = "uncounted" /\ to \in {"closing", "closed"}
  PROVE  Counting' /\ Opened' = Opened
<1> USE Users
<1>1. /\ pc' \in [User -> States] /\ pc[u] = from /\ pc'[u] = to
      /\ \A v \in User \ {u} : pc'[v] = pc[v]
  BY Moves DEF Counting
<1>2. u \in CardUser \ Keeper /\ \A v \in User \ {u} : pc[v] \notin Access
  BY <1>1, Alone
<1>3. Opened' = Opened
  BY <1>1 DEF Opened
<1>4. to \notin Access \cup {"request", "free"} /\ u \notin ControlUser \cup Keeper
  BY <1>2 DEF Access
<1>5. Known'
  <2>1. seen \in [CardUser -> Int]
    BY DEF Counting, Known
  <2>2. seen' \in [CardUser -> Int]
    BY <1>2, <2>1
  <2> QED  BY <1>1, <1>4, <2>2 DEF Counting, Known
<1> QED  BY <1>1, <1>2, <1>3, <1>4, <1>5 DEF Counting, OneCounts

(* The steps that follow the count, and those of the ioctl.                *)
LEMMA KeepCount ==
  ASSUME Counting, NEW u \in User, NEW from, NEW to \in States,
         Step(u, from, to), UNCHANGED <<opencount, seen>>,
         from \notin Access \cup {"closed"},
         to \notin Access \cup {"opening", "closing"},
         from = "closing" <=> to = "closed",
         u \in CardUser => to \notin {"request", "free"}
  PROVE  Counting' /\ Opened' = Opened
<1> USE Users
<1>1. /\ pc' \in [User -> States] /\ pc[u] = from /\ pc'[u] = to
      /\ \A v \in User \ {u} : pc'[v] = pc[v]
  BY Moves DEF Counting
<1>2. Opened' = Opened
  BY <1>1 DEF Opened, Access
<1>3. Known'
  BY <1>1 DEF Counting, Known
<1> QED  BY <1>1, <1>2, <1>3 DEF Counting, OneCounts

-----------------------------------------------------------------------------
(***************************************************************************)
(* No lost wake-up.                                                        *)
(*                                                                         *)
(* The argument: a process that sets vsync holds the lock until it has     *)
(* turned the interrupt on; one that turns it off on its way out found     *)
(* vsync still set, which a woken process, holding the lock, does not.     *)
(***************************************************************************)

(* Every user is a card user, and what it counts is known.                 *)
LEMMA AllCards ==
  ASSUME InUse
  PROVE  /\ User = CardUser /\ OneOpens
         /\ \A u \in User : Dev(u) = "card"
         /\ IInv => Counting
<1>1. User = CardUser /\ OneOpens /\ ControlUser = {} /\ \A u \in User : Dev(u) = "card"
  BY DEF InUse, User, Dev
<1>2. ASSUME IInv PROVE Counting
  BY <1>1, <1>2, Users DEF Counting, Known, IInv, TypeOK, StaysOpen, States
<1> QED  BY <1>1, <1>2

(* The invariant holds at the start.                                       *)
LEMMA InitIInv == ASSUME InUse PROVE Init => IInv
<1> SUFFICES ASSUME Init PROVE IInv
  OBVIOUS
<1> USE AllCards, Users DEF Init
<1>1. Counting
  BY InitCounting
<1>2. Cardinality(User) \in Nat /\ 1 <= Cardinality(User)
  <2>1. User # {}
    BY DEF InUse
  <2> QED  BY <2>1, FS_CardinalityType, FS_EmptySet
<1>3. TypeOK
  <2>1. pc \in [User -> States] /\ seen \in [CardUser -> Int]
    BY <1>1 DEF Counting, Known
  <2>2. handlers \in [Device -> 0 .. Cardinality(User)]
    BY <1>2
  <2>3. opencount \in Int
    BY <1>1, OpenedFinite DEF Counting, OneCounts
  <2> QED  BY <2>1, <2>2, <2>3 DEF TypeOK, States
<1>4. StaysOpen
  BY <1>1 DEF StaysOpen, InUse, Device, Counting, Access
<1>5. Exclusive /\ Reported /\ WaiterArmed
  BY DEF Exclusive, Reported, WaiterArmed, InUse
<1> QED  BY <1>3, <1>4, <1>5 DEF IInv

(* The counts of opens and closes by others than the keepers neither       *)
(* register nor free a handler.                                            *)
LEMMA KeptOpen ==
  ASSUME InUse, IInv, NEW u \in User
  PROVE  /\ TestOpen(u) => Step(u, "counted", "open")
         /\ TestRelease(u) => Step(u, "uncounted", "closed")
<1> USE AllCards, Users
<1>1. PICK k \in Keeper : k \in Opened
  BY DEF InUse, IInv, StaysOpen, Opened, Access
<1>2. opencount = Cardinality(Opened) /\ opencount \in Nat \ {0}
  BY <1>1, OpenedFinite DEF IInv, StaysOpen, OneCounts
<1>3. ASSUME TestOpen(u) PROVE Step(u, "counted", "open")
  <2>1. pc[u] = "counted" /\ Tested(u) = {opencount} /\ u \in Opened \ Keeper
    BY <1>3, Alone DEF TestOpen, Access, Opened
  <2>2. IsFiniteSet(Opened \ {u}) /\ Cardinality(Opened \ {u}) = opencount - 1
    BY <1>2, <2>1, OpenedFinite, OneLess, FS_RemoveElement
  <2>3. opencount # 1
    <3>1. Cardinality(Opened \ {u}) # 0
      BY <1>1, <2>1, <2>2, FS_EmptySet
    <3> QED  BY <1>2, <2>2, <3>1
  <2> QED  BY <1>3, <2>1, <2>3 DEF TestOpen, FirstOpen
<1>4. ASSUME TestRelease(u) PROVE Step(u, "uncounted", "closed")
  <2>1. pc[u] = "uncounted" /\ Tested(u) = {opencount}
    BY <1>4, Alone DEF TestRelease, Access
  <2> QED  BY <1>2, <1>4, <2>1 DEF TestRelease, LastClose
<1> QED  BY <1>3, <1>4

(* Opening and closing.                                                    *)
LEMMA OpenStep ==
  ASSUME InUse, IInv, NEW u \in User,
         \/ svgalib_helper_open(u) \/ CountOpen(u) \/ TestOpen(u)
         \/ svgalib_helper_release(u) \/ CountRelease(u) \/ TestRelease(u)
  PROVE  IInv'
<1> USE AllCards, Users
<1> DEFINE Outside == Access \cup {"closed", "open"}
<1>1. UNCHANGED <<vsync, handlers, enabled, pending, lock>>
  BY DEF svgalib_helper_open, CountOpen, TestOpen, svgalib_helper_release,
         CountRelease, TestRelease
<1>2. Counting' /\ \E from, to \in Outside : Step(u, from, to)
  <2> USE DEF Access
  <2>1. Counting /\ Outside \subseteq States
    BY DEF States
  <2>2. CASE svgalib_helper_open(u) \/ svgalib_helper_release(u)
    BY <2>1, <2>2, EnterCount DEF svgalib_helper_open, svgalib_helper_release
  <2>3. CASE CountOpen(u) \/ CountRelease(u)
    BY <2>1, <2>3, CountCounts DEF CountOpen, CountRelease
  <2>4. CASE TestOpen(u)
    <3>1. /\ Step(u, "counted", "open") /\ UNCHANGED opencount
          /\ seen' = [seen EXCEPT ![u] = 0]
      BY <2>4, KeptOpen DEF TestOpen
    <3> QED  BY <2>1, <3>1, LeaveCount
  <2>5. CASE TestRelease(u)
    <3>1. /\ Step(u, "uncounted", "closed") /\ UNCHANGED opencount
          /\ seen' = [seen EXCEPT ![u] = 0]
      BY <2>5, KeptOpen DEF TestRelease
    <3> QED  BY <2>1, <3>1, LeaveCount
  <2> QED  BY <2>2, <2>3, <2>4, <2>5
<1>3. /\ pc \in [User -> States] /\ pc' \in [User -> States]
      /\ pc[u] \in Outside /\ pc'[u] \in Outside
      /\ \A v \in User \ {u} : pc'[v] = pc[v]
  BY <1>2 DEF Step, Counting, Known
<1>4. TypeOK'
  BY <1>1, <1>2, <1>3 DEF IInv, TypeOK, States, Counting, Known
<1>5. StaysOpen'
  BY <1>1, <1>2, <1>3 DEF IInv, StaysOpen, Counting, Known, Access
<1>6. Exclusive' /\ Reported'
  BY <1>1, <1>3 DEF IInv, Exclusive, Reported, Access
<1>7. WaiterArmed'
  BY <1>1, <1>3 DEF IInv, WaiterArmed, Access
<1> QED  BY <1>4, <1>5, <1>6, <1>7 DEF IInv

(* The steps of the ioctl.                                                 *)
LEMMA IoctlStep ==
  ASSUME InUse, IInv, NEW u \in User,
         \/ WaitRetrace(u) \/ Wake(u) \/ RequestIrq(u) \/ EnableVsync(u)
         \/ AckVsync(u) \/ FreeIrq(u) \/ Return(u) \/ OpenRequest(u)
         \/ ReleaseFree(u)
  PROVE  IInv'
<1> USE AllCards
<1>1. /\ Dev(u) = "card" /\ u \in CardUser
      /\ pc[u] \notin {"opening", "closing", "request", "free"}
      /\ BigLock /\ ~Signals /\ lock \in User \cup {Free} /\ Free \notin User
      /\ Counting
  BY RetraceAssumption DEF InUse, IInv, StaysOpen, TypeOK
<1>2. CASE WaitRetrace(u)
  <2>1. /\ Step(u, "open", "enable") /\ lock = Free /\ lock' = u
        /\ vsync' = [vsync EXCEPT !["card"] = TRUE]
        /\ UNCHANGED <<opencount, seen, handlers, enabled, pending>>
    BY <1>1, <1>2 DEF WaitRetrace, Lock
  <2>2. Counting' /\ pc' \in [User -> States]
    BY <1>1, <2>1, KeepCount DEF States, Access, Counting, Known
  <2>3. \A v \in User : pc[v] \notin {"enable", "ack", "result"}
    BY <1>1, <2>1 DEF IInv, Exclusive
  <2>4. TypeOK' /\ StaysOpen'
    BY <2>1, <2>2 DEF IInv, TypeOK, StaysOpen, Step, States, Counting, Known, Access, Device
  <2>5. Exclusive' /\ Reported' /\ WaiterArmed'
    BY <2>1, <2>3 DEF IInv, TypeOK, StaysOpen, Exclusive, Reported, WaiterArmed,
                      Step, Dev
  <2> QED  BY <2>4, <2>5 DEF IInv
<1>3. CASE Wake(u)
  <2>1. /\ Step(u, "wait", "ack") /\ lock = Free /\ lock' = u /\ ~vsync["card"]
        /\ UNCHANGED <<opencount, seen, vsync, handlers, enabled, pending>>
    BY <1>1, <1>3 DEF Wake, Lock
  <2>2. Counting' /\ pc' \in [User -> States]
    BY <1>1, <2>1, KeepCount DEF States, Access, Counting, Known
  <2>3. \A v \in User : pc[v] \notin {"enable", "ack", "result"}
    BY <1>1, <2>1 DEF IInv, Exclusive
  <2>4. TypeOK' /\ StaysOpen'
    BY <2>1, <2>2 DEF IInv, TypeOK, StaysOpen, Step, States, Counting, Known, Access
  <2>5. Exclusive' /\ Reported'
    BY <2>1, <2>3 DEF IInv, TypeOK, Exclusive, Reported, Step
  <2>6. WaiterArmed'
    BY <2>1 DEF WaiterArmed
  <2> QED  BY <2>4, <2>5, <2>6 DEF IInv
<1>4. CASE EnableVsync(u)
  <2>1. /\ Step(u, "enable", "wait") /\ lock = u /\ lock' = Free
        /\ enabled' = TRUE /\ pending' = FALSE
        /\ UNCHANGED <<opencount, seen, vsync, handlers>>
    BY <1>4 DEF EnableVsync, Step, Unlock, IInv, Exclusive
  <2>2. Counting' /\ pc' \in [User -> States]
    BY <1>1, <2>1, KeepCount DEF States, Access, Counting, Known
  <2>3. TypeOK' /\ StaysOpen'
    BY <2>1, <2>2 DEF IInv, TypeOK, StaysOpen, Step, States, Counting, Known, Access
  <2>4. Exclusive' /\ Reported'
    BY <2>1 DEF IInv, TypeOK, Exclusive, Reported, Step
  <2>5. WaiterArmed'
    BY <2>1 DEF IInv, StaysOpen, WaiterArmed
  <2> QED  BY <2>3, <2>4, <2>5 DEF IInv
<1>5. CASE AckVsync(u)
  <2>1. /\ Step(u, "ack", "result")
        /\ enabled' = enabled /\ pending' = pending
        /\ UNCHANGED <<opencount, seen, vsync, handlers, lock>>
    <3>1. pc[u] = "ack" /\ ~Interrupted(u)
      BY <1>1, <1>5 DEF AckVsync, Step, IInv, Reported, Interrupted
    <3>2. enabled \in BOOLEAN /\ pending \in BOOLEAN
      BY DEF IInv, TypeOK
    <3> QED  BY <1>1, <1>5, <3>1, <3>2 DEF AckVsync
  <2>2. Counting' /\ pc' \in [User -> States]
    BY <1>1, <2>1, KeepCount DEF States, Access, Counting, Known
  <2>3. TypeOK' /\ StaysOpen'
    BY <2>1, <2>2 DEF IInv, TypeOK, StaysOpen, Step, States, Counting, Known, Access
  <2>4. Exclusive' /\ Reported' /\ WaiterArmed'
    BY <2>1, <2>2 DEF IInv, TypeOK, Exclusive, Reported, WaiterArmed, Step
  <2> QED  BY <2>3, <2>4 DEF IInv
<1>6. CASE Return(u)
  <2>1. /\ Step(u, "result", "open") /\ lock = u /\ lock' = Free
        /\ UNCHANGED <<opencount, seen, vsync, handlers, enabled, pending>>
    BY <1>6 DEF Return, Step, Unlock, IInv, Exclusive
  <2>2. Counting' /\ pc' \in [User -> States]
    BY <1>1, <2>1, KeepCount DEF States, Access, Counting, Known
  <2>3. TypeOK' /\ StaysOpen'
    BY <2>1, <2>2 DEF IInv, TypeOK, StaysOpen, Step, States, Counting, Known, Access
  <2>4. Exclusive' /\ Reported' /\ WaiterArmed'
    BY <2>1, <2>2 DEF IInv, TypeOK, Exclusive, Reported, WaiterArmed, Step
  <2> QED  BY <2>3, <2>4 DEF IInv
<1>7. CASE RequestIrq(u) \/ FreeIrq(u) \/ OpenRequest(u) \/ ReleaseFree(u)
  BY <1>1, <1>7 DEF RequestIrq, FreeIrq, OpenRequest, ReleaseFree, Step
<1> QED  BY <1>2, <1>3, <1>4, <1>5, <1>6, <1>7

(* The interrupt, handled, has nobody left to wake.                        *)
LEMMA HardwareStep == ASSUME InUse, IInv, Hardware PROVE IInv'
<1> USE AllCards
<1>1. CASE VerticalRetrace
  BY <1>1 DEF VerticalRetrace, IInv, TypeOK, StaysOpen, OneCounts, Opened, Exclusive,
              Reported, WaiterArmed
<1>2. CASE \E d \in Device : vsync_interrupt(d)
  <2>1. /\ vsync' = [vsync EXCEPT !["card"] = FALSE]
        /\ enabled' = FALSE /\ pending' = FALSE
        /\ UNCHANGED <<pc, opencount, seen, handlers, lock>>
    <3>1. PICK d \in Device : vsync_interrupt(d)
      BY <1>2
    <3>2. d = "card"
      BY <3>1 DEF vsync_interrupt, Device, IInv, StaysOpen
    <3> QED  BY <3>1, <3>2 DEF vsync_interrupt
  <2>2. TypeOK' /\ StaysOpen'
    BY <2>1 DEF IInv, TypeOK, StaysOpen, OneCounts, Opened, Device
  <2>3. Exclusive' /\ Reported' /\ WaiterArmed'
    BY <2>1 DEF IInv, TypeOK, Exclusive, Reported, WaiterArmed, Device
  <2> QED  BY <2>2, <2>3 DEF IInv
<1> QED  BY <1>1, <1>2 DEF Hardware

-----------------------------------------------------------------------------
(* No process sleeps in WAITRETRACE waiting for an interrupt that is off,  *)
(* unless another, past setting vsync, is about to turn it on.             *)
THEOREM NoLostWakeup == ASSUME InUse PROVE Spec => []WaiterArmed
<1>1. Init => IInv
  BY InitIInv
<1>2. IInv /\ [Next]_vars => IInv'
  <2> SUFFICES ASSUME IInv, [Next]_vars PROVE IInv'
    OBVIOUS
  <2>1. ASSUME NEW u \in User,
               \/ svgalib_helper_open(u) \/ svgalib_helper_release(u)
               \/ WaitRetrace(u) \/ Wake(u) \/ Call(u)
        PROVE  IInv'
    BY <2>1, OpenStep, IoctlStep DEF Call
  <2>2. CASE Hardware
    BY <2>2, HardwareStep
  <2>3. CASE UNCHANGED vars
    BY <2>3 DEF vars, IInv, TypeOK, StaysOpen, OneCounts, Opened, Exclusive, Reported,
                WaiterArmed
  <2> QED  BY <2>1, <2>2, <2>3 DEF Next
<1>3. IInv => WaiterArmed
  BY DEF IInv
<1> QED  BY <1>1, <1>2, <1>3, PTL DEF Spec

-----------------------------------------------------------------------------
(***************************************************************************)
(* The counting of interrupt handlers, with signals and without any lock.  *)
(*                                                                         *)
(* The argument: a process in svgalib_helper_open between the test and the *)
(* registration stands for a handler, one in release between the test and  *)
(* the freeing against one; and whoever tests finds, besides itself, the   *)
(* opens that were tested before.                                          *)
(***************************************************************************)
Served == {"enable", "wait", "ack", "free"}

Opening == {u \in User : pc[u] = "opening"}
Closing == {u \in User : pc[u] = "closing"}
Waiting == {u \in ControlUser : pc[u] \in Served}

Balance ==
  /\ handlers \in [Device -> Int]
  /\ handlers["card"] + Cardinality(Opening)
       = (IF Registered # {} THEN 1 ELSE 0) + Cardinality(Closing)
  /\ handlers["control"] = Cardinality(Waiting)

HInv == Counting /\ Balance

LEMMA Counts ==
  /\ IsFiniteSet(Opening) /\ Cardinality(Opening) \in Nat
  /\ IsFiniteSet(Closing) /\ Cardinality(Closing) \in Nat
  /\ IsFiniteSet(Waiting) /\ Cardinality(Waiting) \in Nat
<1>1. /\ Opening \subseteq User /\ Closing \subseteq User
      /\ Waiting \subseteq User
  BY Users DEF Opening, Closing, Waiting
<1> QED  BY <1>1, Users, FS_Subset, FS_CardinalityType

(* Where nobody counts, every open that was counted was tested.            *)
LEMMA Balanced == HInv => HandlersCounted
<1> SUFFICES ASSUME HInv, \A u \in User : pc[u] \notin Access
             PROVE  /\ handlers["card"] + Cardinality(Opening)
                         = (IF opencount > 0 THEN 1 ELSE 0) + Cardinality(Closing)
                    /\ handlers["control"] = Cardinality(Waiting)
  BY DEF HandlersCounted, Opening, Closing, Waiting, Served
<1>1. Registered = Opened
  BY Users DEF Registered, Opened, Access
<1>2. opencount > 0 <=> Registered # {}
  BY <1>1, OpenedFinite DEF HInv, Counting, OneCounts
<1> QED  BY <1>2 DEF HInv, Balance

LEMMA InitHInv == Init => HInv
<1> SUFFICES ASSUME Init PROVE HInv
  OBVIOUS
<1> USE Users DEF Init
<1>1. /\ Opening = {} /\ Closing = {} /\ Waiting = {} /\ Registered = Keeper
  BY RetraceAssumption DEF Opening, Closing, Waiting, Registered, Served, User
<1>2. Cardinality({}) = 0
  BY FS_EmptySet
<1>3. Balance
  BY <1>1, <1>2 DEF Balance, Device
<1> QED  BY <1>3, InitCounting DEF HInv

(* Steps of a process that change no handler and none of the sets.         *)
LEMMA SameSets ==
  ASSUME HInv, Counting', NEW u \in User, NEW from, NEW to \in States,
         Step(u, from, to), UNCHANGED handlers,
         {from, to} \cap {"opening", "closing"} = {},
         from \in {"closed", "counting", "counted"}
           <=> to \in {"closed", "counting", "counted"},
         u \in ControlUser => (from \in Served <=> to \in Served)
  PROVE  HInv'
<1> USE Users
<1>1. /\ pc' \in [User -> States] /\ pc[u] = from /\ pc'[u] = to
      /\ \A v \in User \ {u} : pc'[v] = pc[v]
  BY Moves DEF HInv, Counting
<1>2. /\ Opening' = Opening /\ Closing' = Closing /\ Waiting' = Waiting
      /\ Registered' = Registered
  BY <1>1 DEF Opening, Closing, Waiting, Registered
<1>3. Balance'
  BY <1>2 DEF HInv, Balance
<1> QED  BY <1>3 DEF HInv

(* The test of an open: the first open is that of a process which finds no *)
(* other.                                                                  *)
LEMMA OpenCounts == ASSUME HInv, NEW u \in User, TestOpen(u) PROVE HInv'
<1> USE Users
<1> DEFINE to == IF FirstOpen(opencount) THEN "opening" ELSE "open"
<1>1. /\ pc[u] = "counted" /\ Counting /\ Balance
      /\ u \in CardUser \ Keeper /\ Tested(u) = {opencount}
      /\ \A v \in User \ {u} : pc[v] \notin Access
  BY Alone DEF HInv, TestOpen, Access
<1>2. /\ Step(u, "counted", to) /\ to \in {"opening", "open"}
      /\ UNCHANGED <<opencount, handlers>> /\ seen' = [seen EXCEPT ![u] = 0]
  BY <1>1 DEF TestOpen
<1>3. Counting' /\ to \in States /\ "counted" \in Access
  <2> HIDE DEF to
  <2> QED  BY <1>1, <1>2, LeaveCount DEF States, Access
<1>4. /\ pc'[u] = to /\ \A v \in User \ {u} : pc'[v] = pc[v]
  <2> HIDE DEF to
  <2> QED  BY <1>1, <1>2, <1>3, Moves DEF Counting
<1>5. /\ u \notin Registered /\ Opened = Registered \cup {u}
      /\ Registered' # {}
      /\ Waiting' = Waiting /\ Closing' = Closing
  BY <1>1, <1>2, <1>4 DEF Opened, Registered, Waiting, Closing, Served, Access
<1>6. FirstOpen(opencount) <=> Registered = {}
  <2>1. IsFiniteSet(Registered)
    BY <1>5, OpenedFinite, FS_Subset
  <2>2. opencount = Cardinality(Registered) + 1 /\ Cardinality(Registered) \in Nat
    BY <1>1, <1>5, <2>1, OneMore, FS_CardinalityType DEF Counting, OneCounts
  <2> QED  BY <2>1, <2>2, FS_EmptySet DEF FirstOpen
<1>7. Cardinality(Opening')
        = Cardinality(Opening) + (IF Registered = {} THEN 1 ELSE 0)
  <2>1. CASE Registered = {}
    <3>1. u \notin Opening /\ Opening' = Opening \cup {u}
      BY <1>1, <1>4, <1>6, <2>1 DEF Opening
    <3> QED  BY <2>1, <3>1, Counts, OneMore
  <2>2. CASE Registered # {}
    <3>1. Opening' = Opening
      BY <1>1, <1>4, <1>6, <2>2 DEF Opening
    <3> QED  BY <2>2, <3>1, Counts
  <2> QED  BY <2>1, <2>2
<1>8. Balance'
  <2>1. handlers["card"] \in Int
    BY <1>1 DEF Balance, Device
  <2> QED  BY <1>1, <1>2, <1>5, <1>7, <2>1, Counts DEF Balance
<1> QED  BY <1>3, <1>8 DEF HInv

(* The test of a close: the last close is that of a process which leaves   *)
(* no other.                                                               *)
LEMMA ReleaseCounts == ASSUME HInv, NEW u \in User, TestRelease(u) PROVE HInv'
<1> USE Users
<1> DEFINE to == IF LastClose(opencount) THEN "closing" ELSE "closed"
<1>1. /\ pc[u] = "uncounted" /\ Counting /\ Balance
      /\ u \in CardUser \ Keeper /\ Tested(u) = {opencount}
      /\ \A v \in User \ {u} : pc[v] \notin Access
  BY Alone DEF HInv, TestRelease, Access
<1>2. /\ Step(u, "uncounted", to) /\ to \in {"closing", "closed"}
      /\ UNCHANGED <<opencount, handlers>> /\ seen' = [seen EXCEPT ![u] = 0]
  BY <1>1 DEF TestRelease
<1>3. Counting' /\ to \in States /\ "uncounted" \in Access
  <2> HIDE DEF to
  <2> QED  BY <1>1, <1>2, LeaveCount DEF States, Access
<1>4. /\ pc'[u] = to /\ \A v \in User \ {u} : pc'[v] = pc[v]
  <2> HIDE DEF to
  <2> QED  BY <1>1, <1>2, <1>3, Moves DEF Counting
<1>5. /\ u \in Registered /\ Opened = Registered' /\ Registered # {}
      /\ Waiting' = Waiting /\ Opening' = Opening
  BY <1>1, <1>2, <1>4 DEF Opened, Registered, Waiting, Opening, Served, Access
<1>6. LastClose(opencount) <=> Registered' = {}
  BY <1>1, <1>5, OpenedFinite DEF Counting, OneCounts, LastClose
<1>7. Cardinality(Closing')
        = Cardinality(Closing) + (IF Registered' = {} THEN 1 ELSE 0)
  <2>1. CASE Registered' = {}
    <3>1. u \notin Closing /\ Closing' = Closing \cup {u}
      BY <1>1, <1>4, <1>6, <2>1 DEF Closing
    <3> QED  BY <2>1, <3>1, Counts, OneMore
  <2>2. CASE Registered' # {}
    <3>1. Closing' = Closing
      BY <1>1, <1>4, <1>6, <2>2 DEF Closing
    <3> QED  BY <2>2, <3>1, Counts
  <2> QED  BY <2>1, <2>2
<1>8. Balance'
  <2>1. handlers["card"] \in Int
    BY <1>1 DEF Balance, Device
  <2> QED  BY <1>1, <1>2, <1>5, <1>7, <2>1, Counts DEF Balance
<1> QED  BY <1>3, <1>8 DEF HInv

(* Registering and freeing the card's handler.                             *)
LEMMA CardHandlerStep ==
  ASSUME HInv, NEW u \in User, OpenRequest(u) \/ ReleaseFree(u)
  PROVE  HInv'
<1> USE Users
<1>1. /\ Counting /\ Balance /\ handlers \in [Device -> Int]
      /\ handlers["card"] \in Int /\ handlers["control"] \in Int
      /\ {"opening", "open", "closing", "closed"} \subseteq States
  BY DEF HInv, Balance, States, Device
<1>2. CASE OpenRequest(u)
  <2>1. /\ Step(u, "opening", "open") /\ UNCHANGED <<opencount, seen>>
        /\ handlers' = [handlers EXCEPT !["card"] = @ + 1]
    BY <1>2 DEF OpenRequest
  <2>2. /\ pc[u] = "opening" /\ pc'[u] = "open"
        /\ \A v \in User \ {u} : pc'[v] = pc[v]
    BY <1>1, <2>1, Moves DEF Counting
  <2>3. u \in CardUser /\ u \notin ControlUser
    BY <1>1, <2>2 DEF Counting, Known
  <2>4. Counting'
    BY <1>1, <2>1, <2>3, KeepCount DEF Access
  <2>5. /\ Waiting' = Waiting /\ Closing' = Closing
        /\ Registered' = Registered /\ u \in Opening /\ Opening' = Opening \ {u}
    BY <2>2, <2>3 DEF Registered, Waiting, Opening, Closing, Served
  <2>6. /\ handlers'["card"] = handlers["card"] + 1
        /\ handlers'["control"] = handlers["control"]
        /\ handlers' \in [Device -> Int]
    BY <1>1, <2>1 DEF Device
  <2>7. Cardinality(Opening') = Cardinality(Opening) - 1
    BY <2>5, Counts, OneLess
  <2>8. Balance'
    BY <1>1, <2>5, <2>6, <2>7, Counts DEF Balance
  <2> QED  BY <2>4, <2>8 DEF HInv
<1>3. CASE ReleaseFree(u)
  <2>1. /\ Step(u, "closing", "closed") /\ UNCHANGED <<opencount, seen>>
        /\ handlers' = [handlers EXCEPT !["card"] = @ - 1]
    BY <1>3 DEF ReleaseFree
  <2>2. /\ pc[u] = "closing" /\ pc'[u] = "closed"
        /\ \A v \in User \ {u} : pc'[v] = pc[v]
    BY <1>1, <2>1, Moves DEF Counting
  <2>3. u \in CardUser /\ u \notin ControlUser
    BY <1>1, <2>2 DEF Counting, Known
  <2>4. Counting'
    BY <1>1, <2>1, <2>3, KeepCount DEF Access
  <2>5. /\ Waiting' = Waiting /\ Opening' = Opening
        /\ Registered' = Registered /\ u \in Closing /\ Closing' = Closing \ {u}
    BY <2>2, <2>3 DEF Registered, Waiting, Opening, Closing, Served
  <2>6. /\ handlers'["card"] = handlers["card"] - 1
        /\ handlers'["control"] = handlers["control"]
        /\ handlers' \in [Device -> Int]
    BY <1>1, <2>1 DEF Device
  <2>7. Cardinality(Closing') = Cardinality(Closing) - 1
    BY <2>5, Counts, OneLess
  <2>8. Balance'
    BY <1>1, <2>5, <2>6, <2>7, Counts DEF Balance
  <2> QED  BY <2>4, <2>8 DEF HInv
<1> QED  BY <1>2, <1>3

(* Registering and freeing the control device's handlers.                  *)
LEMMA ControlHandlerStep ==
  ASSUME HInv, NEW u \in User, RequestIrq(u) \/ FreeIrq(u)
  PROVE  HInv'
<1> USE Users
<1>1. /\ Counting /\ Balance /\ handlers \in [Device -> Int]
      /\ handlers["card"] \in Int /\ handlers["control"] \in Int
      /\ {"request", "enable", "free", "result"} \subseteq States
  BY DEF HInv, Balance, States, Device
<1>2. CASE RequestIrq(u)
  <2>1. /\ Step(u, "request", "enable") /\ UNCHANGED <<opencount, seen>>
        /\ handlers' = [handlers EXCEPT !["control"] = @ + 1]
    BY <1>2 DEF RequestIrq
  <2>2. /\ pc[u] = "request" /\ pc'[u] = "enable"
        /\ \A v \in User \ {u} : pc'[v] = pc[v]
    BY <1>1, <2>1, Moves DEF Counting
  <2>3. u \in ControlUser /\ u \notin CardUser
    BY <1>1, <2>2 DEF Counting, Known
  <2>4. Counting'
    BY <1>1, <2>1, <2>3, KeepCount DEF Access
  <2>5. /\ Opening' = Opening /\ Closing' = Closing
        /\ Registered' = Registered /\ u \notin Waiting /\ Waiting' = Waiting \cup {u}
    BY <2>2, <2>3 DEF Registered, Waiting, Opening, Closing, Served
  <2>6. /\ handlers'["control"] = handlers["control"] + 1
        /\ handlers'["card"] = handlers["card"]
        /\ handlers' \in [Device -> Int]
    BY <1>1, <2>1 DEF Device
  <2>7. Cardinality(Waiting') = Cardinality(Waiting) + 1
    BY <2>5, Counts, OneMore
  <2>8. Balance'
    BY <1>1, <2>5, <2>6, <2>7, Counts DEF Balance
  <2> QED  BY <2>4, <2>8 DEF HInv
<1>3. CASE FreeIrq(u)
  <2>1. /\ Step(u, "free", "result") /\ UNCHANGED <<opencount, seen>>
        /\ handlers' = [handlers EXCEPT !["control"] = @ - 1]
    BY <1>3 DEF FreeIrq
  <2>2. /\ pc[u] = "free" /\ pc'[u] = "result"
        /\ \A v \in User \ {u} : pc'[v] = pc[v]
    BY <1>1, <2>1, Moves DEF Counting
  <2>3. u \in ControlUser /\ u \notin CardUser
    BY <1>1, <2>2 DEF Counting, Known
  <2>4. Counting'
    BY <1>1, <2>1, <2>3, KeepCount DEF Access
  <2>5. /\ Opening' = Opening /\ Closing' = Closing
        /\ Registered' = Registered /\ u \in Waiting /\ Waiting' = Waiting \ {u}
    BY <2>2, <2>3 DEF Registered, Waiting, Opening, Closing, Served
  <2>6. /\ handlers'["control"] = handlers["control"] - 1
        /\ handlers'["card"] = handlers["card"]
        /\ handlers' \in [Device -> Int]
    BY <1>1, <2>1 DEF Device
  <2>7. Cardinality(Waiting') = Cardinality(Waiting) - 1
    BY <2>5, Counts, OneLess
  <2>8. Balance'
    BY <1>1, <2>5, <2>6, <2>7, Counts DEF Balance
  <2> QED  BY <2>4, <2>8 DEF HInv
<1> QED  BY <1>2, <1>3

(* The steps of the count, and the rest of the ioctl.                      *)
LEMMA OtherStep ==
  ASSUME OneOpens, HInv, NEW u \in User,
         \/ svgalib_helper_open(u) \/ CountOpen(u)
         \/ svgalib_helper_release(u) \/ CountRelease(u)
         \/ WaitRetrace(u) \/ Wake(u) \/ EnableVsync(u) \/ AckVsync(u)
         \/ Return(u)
  PROVE  HInv'
<1> USE Users DEF Served, States, Access
<1>1. Counting /\ Known
  BY DEF HInv, Counting
<1>2. CASE svgalib_helper_open(u)
  <2>1. Step(u, "closed", "counting") /\ UNCHANGED handlers /\ Counting'
    BY <1>1, <1>2, EnterCount DEF svgalib_helper_open
  <2> QED  BY <2>1, SameSets
<1>3. CASE svgalib_helper_release(u)
  <2>1. Step(u, "open", "uncounting") /\ UNCHANGED handlers /\ Counting'
    BY <1>1, <1>3, EnterCount DEF svgalib_helper_release
  <2> QED  BY <2>1, SameSets
<1>4. CASE CountOpen(u)
  <2>1. Step(u, "counting", "counted") /\ UNCHANGED handlers /\ Counting'
    BY <1>1, <1>4, CountCounts DEF CountOpen
  <2> QED  BY <2>1, SameSets
<1>5. CASE CountRelease(u)
  <2>1. Step(u, "uncounting", "uncounted") /\ UNCHANGED handlers /\ Counting'
    BY <1>1, <1>5, CountCounts DEF CountRelease
  <2> QED  BY <2>1, SameSets
<1>6. CASE WaitRetrace(u) \/ Wake(u) \/ EnableVsync(u) \/ AckVsync(u) \/ Return(u)
  <2>1. PICK from \in States \ Access, to \in States \ Access :
          /\ Step(u, from, to) /\ UNCHANGED <<opencount, seen, handlers>>
          /\ {from, to} \cap {"closed", "opening", "closing"} = {}
          /\ u \in ControlUser => (from \in Served <=> to \in Served)
          /\ u \in CardUser => to \notin {"request", "free"}
    <3>1. CASE WaitRetrace(u)
      BY <3>1 DEF WaitRetrace
    <3>2. CASE Wake(u)
      BY <3>2 DEF Wake
    <3>3. CASE EnableVsync(u)
      BY <3>3 DEF EnableVsync
    <3>4. CASE AckVsync(u)
      BY <3>4 DEF AckVsync
    <3>5. CASE Return(u)
      BY <3>5 DEF Return
    <3> QED  BY <1>6, <3>1, <3>2, <3>3, <3>4, <3>5
  <2>2. Counting'
    BY <1>1, <2>1, KeepCount
  <2> QED  BY <2>1, <2>2, SameSets
<1> QED  BY <1>2, <1>3, <1>4, <1>5, <1>6

LEMMA SameCounts ==
  ASSUME HInv, UNCHANGED <<pc, handlers, opencount, seen>>
  PROVE  HInv'
BY DEF HInv, Counting, Known, OneCounts, Opened, Balance, Opening, Closing,
       Waiting, Registered

-----------------------------------------------------------------------------
(* Where no two processes count at once, the card's device has one handler *)
(* while it is open, give or take the calls under way, and the control     *)
(* device one for each wait: for any processes, with signals, with or      *)
(* without the big lock, request_irq and free_irq sleeping as they like.   *)
THEOREM HandlersMatch == ASSUME OneOpens PROVE Spec => []HandlersCounted
<1>1. Init => HInv
  BY InitHInv
<1>2. HInv /\ [Next]_vars => HInv'
  <2> SUFFICES ASSUME HInv, [Next]_vars PROVE HInv'
    OBVIOUS
  <2>1. ASSUME NEW u \in User,
               \/ svgalib_helper_open(u) \/ svgalib_helper_release(u)
               \/ WaitRetrace(u) \/ Wake(u) \/ Call(u)
        PROVE  HInv'
    BY <2>1, OpenCounts, ReleaseCounts, CardHandlerStep, ControlHandlerStep,
       OtherStep DEF Call
  <2>2. CASE Hardware
    BY <2>2, SameCounts DEF Hardware, VerticalRetrace, vsync_interrupt
  <2>3. CASE UNCHANGED vars
    BY <2>3, SameCounts DEF vars
  <2> QED  BY <2>1, <2>2, <2>3 DEF Next
<1>3. HInv => HandlersCounted
  BY Balanced
<1> QED  BY <1>1, <1>2, <1>3, PTL DEF Spec

=============================================================================
