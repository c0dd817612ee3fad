------------------------------ MODULE Retrace -------------------------------
(***************************************************************************)
(* Waiting for the vertical retrace in the kernel helper (src/kernel/      *)
(* svgalib_helper/main.c): the ioctl WAITRETRACE of the device of a card   *)
(* and of the control device, the interrupt handler both register, the     *)
(* counting of opens, and the interrupt hardware the two devices share     *)
(* (interrupt.c; every *_ack_vsync also disables the interrupt).           *)
(*                                                                         *)
(* Before Linux 2.6.36 the ioctl runs under the kernel's big lock, which a *)
(* sleeper gives up; since then under none (file_operations, line 607).    *)
(* opencount is counted and then tested under no lock: each access is a    *)
(* step, and where the kernel is preempted another may come between.       *)
(***************************************************************************)
EXTENDS Integers, FiniteSets

CONSTANTS
  CardUser,      \* processes that open the card's device
  ControlUser,   \* processes with the control device open
  Keeper,        \* card users that have opened it and never close it
  BigLock,       \* the ioctl runs under the kernel's big lock
  Preempted,     \* a process may run in the kernel between any two steps of
                 \* another, on a second processor or instead of it; if not,
                 \* only where the other may sleep
  Signals,       \* signals interrupt waits
  Free           \* no holder of the lock

User == CardUser \cup ControlUser

ASSUME RetraceAssumption ==
  /\ CardUser \cap ControlUser = {} /\ Keeper \subseteq CardUser
  /\ IsFiniteSet(User) /\ Free \notin User
  /\ {BigLock, Preempted, Signals} \subseteq BOOLEAN

VARIABLES
  pc, opencount,
  seen,               \* per process: opencount in a register
  vsync,              \* per device: somebody waits
  handlers,           \* per device: registrations of vsync_interrupt
  enabled, pending,   \* the interrupt of the card
  lock

vars == <<pc, opencount, seen, vsync, handlers, enabled, pending, lock>>

Device == {"card", "control"}
Dev(u) == IF u \in CardUser THEN "card" ELSE "control"

(* A process that has read opencount, or written it and not yet tested it. *)
Access == {"counting", "counted", "uncounting", "uncounted"}

TypeOK ==
  /\ pc \in [User -> Access \cup
                     {"closed", "opening", "open", "request", "enable", "wait",
                      "ack", "free", "result", "closing"}]
  /\ opencount \in Int /\ seen \in [CardUser -> Int]
  /\ vsync \in [Device -> BOOLEAN]
  /\ handlers \in [Device -> 0 .. Cardinality(User)]
  /\ {enabled, pending} \subseteq BOOLEAN
  /\ lock \in User \cup {Free}

Init ==
  /\ pc = [u \in User |-> IF u \in Keeper \cup ControlUser THEN "open" ELSE "closed"]
  /\ opencount = Cardinality(Keeper) /\ seen = [u \in CardUser |-> 0]
  /\ vsync = [d \in Device |-> FALSE]
  /\ handlers = [d \in Device |-> IF d = "card" /\ Keeper # {} THEN 1 ELSE 0]
  /\ enabled = FALSE /\ pending = FALSE
  /\ lock = Free

Runs(u) == Preempted \/ \A v \in User \ {u} : pc[v] \notin Access
Step(u, from, to) == Runs(u) /\ pc[u] = from /\ pc' = [pc EXCEPT ![u] = to]

FaultyLock(u) == UNCHANGED lock
Lock(u) == IF BigLock THEN lock = Free /\ lock' = u ELSE UNCHANGED lock
Unlock == lock' = Free

-----------------------------------------------------------------------------
(* Opening and closing the card's device: the counter is read, written     *)
(* back, and tested, in the register or in memory as the compiler likes.   *)

Read(u) == seen' = [seen EXCEPT ![u] = opencount]
Count(u, by) ==
  /\ opencount' = seen[u] + by
  /\ seen' = [seen EXCEPT ![u] = @ + by]
Tested(u) == {seen[u], opencount}

svgalib_helper_open(u) ==
  /\ u \in CardUser
  /\ Step(u, "closed", "counting") /\ Read(u)
  /\ UNCHANGED <<opencount, vsync, handlers, enabled, pending, lock>>

CountOpen(u) ==
  /\ Step(u, "counting", "counted") /\ Count(u, 1)
  /\ UNCHANGED <<vsync, handlers, enabled, pending, lock>>

FirstOpen(count) == count = 1

TestOpen(u) ==
  /\ pc[u] = "counted"
  /\ \E count \in Tested(u) :
       Step(u, "counted", IF FirstOpen(count) THEN "opening" ELSE "open")
  /\ seen' = [seen EXCEPT ![u] = 0]
  /\ UNCHANGED <<opencount, vsync, handlers, enabled, pending, lock>>

OpenRequest(u) ==
  /\ Step(u, "opening", "open")
  /\ handlers' = [handlers EXCEPT !["card"] = @ + 1]
  /\ UNCHANGED <<opencount, seen, vsync, enabled, pending, lock>>

svgalib_helper_release(u) ==
  /\ u \in CardUser \ Keeper
  /\ Step(u, "open", "uncounting") /\ Read(u)
  /\ UNCHANGED <<opencount, vsync, handlers, enabled, pending, lock>>

CountRelease(u) ==
  /\ Step(u, "uncounting", "uncounted") /\ Count(u, -1)
  /\ UNCHANGED <<vsync, handlers, enabled, pending, lock>>

FaultyLastClose(count) == count = 1
LastClose(count) == count = 0

TestRelease(u) ==
  /\ pc[u] = "uncounted"
  /\ \E count \in Tested(u) :
       Step(u, "uncounted", IF LastClose(count) THEN "closing" ELSE "closed")
  /\ seen' = [seen EXCEPT ![u] = 0]
  /\ UNCHANGED <<opencount, vsync, handlers, enabled, pending, lock>>

ReleaseFree(u) ==
  /\ Step(u, "closing", "closed")
  /\ enabled' = FALSE /\ pending' = FALSE
  /\ handlers' = [handlers EXCEPT !["card"] = @ - 1]
  /\ UNCHANGED <<opencount, seen, vsync, lock>>

-----------------------------------------------------------------------------
(* The ioctl.  The control device registers a handler for each wait.       *)

WaitRetrace(u) ==
  /\ Step(u, "open", IF u \in CardUser THEN "enable" ELSE "request")
  /\ Lock(u)
  /\ vsync' = [vsync EXCEPT ![Dev(u)] = TRUE]
  /\ UNCHANGED <<opencount, seen, handlers, enabled, pending>>

RequestIrq(u) ==
  /\ Step(u, "request", "enable")
  /\ handlers' = [handlers EXCEPT !["control"] = @ + 1]
  /\ UNCHANGED <<opencount, seen, vsync, enabled, pending, lock>>

EnableVsync(u) ==
  /\ Step(u, "enable", "wait")
  /\ enabled' = TRUE /\ pending' = FALSE
  /\ Unlock
  /\ UNCHANGED <<opencount, seen, vsync, handlers>>

(* wait_event_interruptible returns.                                       *)
Wake(u) ==
  /\ Step(u, "wait", "ack")
  /\ ~vsync[Dev(u)] \/ Signals
  /\ Lock(u)
  /\ UNCHANGED <<opencount, seen, vsync, handlers, enabled, pending>>

(* Only an interrupted wait takes the interrupt down.                      *)
Interrupted(u) == vsync[Dev(u)]

AckVsync(u) ==
  /\ Step(u, "ack", IF u \in CardUser THEN "result" ELSE "free")
  /\ enabled' = (enabled /\ ~Interrupted(u))
  /\ pending' = (pending /\ ~Interrupted(u))
  /\ UNCHANGED <<opencount, seen, vsync, handlers, lock>>

FreeIrq(u) ==
  /\ Step(u, "free", "result")
  /\ handlers' = [handlers EXCEPT !["control"] = @ - 1]
  /\ UNCHANGED <<opencount, seen, vsync, enabled, pending, lock>>

(* Back to the program, or to restart the call.                            *)
Return(u) ==
  /\ Step(u, "result", "open")
  /\ Unlock
  /\ UNCHANGED <<opencount, seen, vsync, handlers, enabled, pending>>

-----------------------------------------------------------------------------
(* The card, and the handler that finds the interrupt pending first.       *)

VerticalRetrace ==
  /\ enabled /\ ~pending
  /\ pending' = TRUE
  /\ UNCHANGED <<pc, opencount, seen, vsync, handlers, enabled, lock>>

FaultyVsyncInterrupt(d) ==
  /\ enabled /\ pending /\ handlers[d] > 0
  /\ enabled' = FALSE /\ pending' = FALSE
  /\ UNCHANGED <<pc, opencount, seen, vsync, handlers, lock>>
vsync_interrupt(d) ==
  /\ enabled /\ pending /\ handlers[d] > 0
  /\ enabled' = FALSE /\ pending' = FALSE
  /\ vsync' = [vsync EXCEPT ![d] = FALSE]
  /\ UNCHANGED <<pc, opencount, seen, handlers, lock>>

Call(u) ==
  \/ RequestIrq(u) \/ EnableVsync(u) \/ AckVsync(u) \/ FreeIrq(u) \/ Return(u)
  \/ CountOpen(u) \/ TestOpen(u) \/ OpenRequest(u)
  \/ CountRelease(u) \/ TestRelease(u) \/ ReleaseFree(u)

Hardware == VerticalRetrace \/ \E d \in Device : vsync_interrupt(d)

Next ==
  \/ \E u \in User : \/ svgalib_helper_open(u) \/ svgalib_helper_release(u)
                     \/ WaitRetrace(u) \/ Wake(u) \/ Call(u)
  \/ Hardware

Spec == Init /\ [][Next]_vars

(* Processes are scheduled, the screen is refreshed and its interrupts     *)
(* delivered; a woken process gets the lock in time, others calling again  *)
(* and again notwithstanding.                                              *)
Fairness ==
  /\ WF_vars(Hardware)
  /\ \A u \in User : WF_vars(Call(u)) /\ SF_vars(Wake(u))

FairSpec == Spec /\ Fairness

-----------------------------------------------------------------------------
(* Properties.                                                             *)

(* However opens and closes follow each other while request_irq and        *)
(* free_irq sleep, the card's device has its one handler while it is open, *)
(* give or take the calls under way, and the control device one for each   *)
(* wait.  Two processes that count at once can leave an open device        *)
(* without a handler, or free it twice: then nothing of this holds.        *)
HandlersCounted ==
  (\A u \in User : pc[u] \notin Access) =>
    /\ handlers["card"] + Cardinality({u \in User : pc[u] = "opening"})
         = (IF opencount > 0 THEN 1 ELSE 0)
             + Cardinality({u \in User : pc[u] = "closing"})
    /\ handlers["control"]
         = Cardinality({u \in ControlUser : pc[u] \in {"enable", "wait", "ack", "free"}})

(* A process that still has to be woken has the interrupt on and a handler *)
(* for it, or another is about to turn it on: no wake-up is lost.          *)
WaiterArmed ==
  \A u \in User :
    pc[u] = "wait" /\ vsync[Dev(u)] =>
      /\ enabled \/ \E v \in User : pc[v] \in {"request", "enable"}
      /\ handlers[Dev(u)] > 0

(* A wait for the retrace ends.                                            *)
WaitReturns == \A u \in User : pc[u] = "wait" ~> pc[u] = "open"

-----------------------------------------------------------------------------
(* The inductive invariant of the proof that no wake-up is lost, for a     *)
(* card in use all the time, by any number of processes nobody interrupts, *)
(* under the big lock; two do not count at once, as no process is          *)
(* preempted or only one opens and closes.                                 *)

OneOpens == Preempted => \A u, v \in CardUser \ Keeper : u = v
InUse == BigLock /\ ~Signals /\ ControlUser = {} /\ Keeper # {} /\ OneOpens

(* The processes that opencount counts, and those it counted when it was   *)
(* tested last.                                                            *)
Opened == {u \in CardUser : pc[u] \notin {"closed", "counting", "uncounted", "closing"}}
Registered == {u \in CardUser : pc[u] \notin {"closed", "counting", "counted", "closing"}}

(* One process counts at a time, with what is there.                       *)
OneCounts ==
  /\ \A u, v \in User : pc[u] \in Access /\ pc[v] \in Access => u = v
  /\ \A u \in User : pc[u] \in Access => u \in CardUser /\ seen[u] = opencount
  /\ opencount = Cardinality(Opened)

StaysOpen ==
  /\ OneCounts
  /\ \A u \in Keeper : pc[u] \notin Access \cup {"closed", "closing"}
  /\ handlers["card"] = 1 /\ handlers["control"] = 0
  /\ \A u \in User : pc[u] \notin {"opening", "closing", "request", "free"}

(* Between calls of the kernel that may sleep the lock is held.            *)
Exclusive == \A u \in User : pc[u] \in {"enable", "ack", "result"} => lock = u

(* A process that was woken finds vsync as the interrupt left it.          *)
Reported == \A u \in User : pc[u] \in {"ack", "result"} => ~vsync["card"]

IInv == TypeOK /\ StaysOpen /\ Exclusive /\ Reported /\ WaiterArmed

=============================================================================
