------------------------------- MODULE Accel -------------------------------
(***************************************************************************)
(* The accelerator (src/src/vgaaccel.c and the drivers of the ARK, Cirrus  *)
(* and Mach32 chips): a blitter that works on the video memory while the   *)
(* program goes on, and the console, which may be switched and the program *)
(* killed in the middle of a call.                                         *)
(*                                                                         *)
(* A call puts the steps of its driver into todo: registers written, waits *)
(* for the engine, vga_lockvc and vga_unlockvc.  A signal puts those of    *)
(* its handler before them.  The engine reads the registers when it does   *)
(* its blit, so what is written under a running one may spoil it; only the *)
(* Mach32 has a queue of register writes before it.                        *)
(*                                                                         *)
(* The video memory is the set of its inked pixels, lines of Pitch pixels  *)
(* one after the other; meant is the picture the calls describe.           *)
(***************************************************************************)
EXTENDS Integers, SequencesExt

CONSTANTS
  Drivers,      \* the drivers checked
  Pitch, Pitches, \* the size of the video memory in pixels
  Scene,        \* the pixels inked at first
  Shapes,       \* the boxes filled and the bitmaps' boxes: <<at, w, h>>
  Moves,        \* the boxes copied: <<from, to, w, h>>
  Stencils,     \* the bits of the bitmaps
  Dots,         \* the pixels drawn without the accelerator
  Rops,         \* the raster operations asked for
  Fifo,         \* entries of the Mach32's queue (16)
  AskMax,       \* bound: calls of the program
  Gentle        \* the program follows vga_accel(3) and keeps from known failures

(* f with the values of r.                                                 *)
Updated(f, r) ==
  [x \in DOMAIN f \cup DOMAIN r |-> IF x \in DOMAIN r THEN r[x] ELSE f[x]]

AllDrivers == {"ark", "cirrus", "cirrus mmio", "mach32"}
Pels == 0..(Pitch * Pitches - 1)
ColOf(a) == a % Pitch
LineOf(a) == a \div Pitch

ASSUME AccelAssumption ==
  /\ Drivers \subseteq AllDrivers /\ Gentle \in BOOLEAN
  /\ {Pitch, Pitches, Fifo, AskMax} \subseteq Nat \ {0}
  /\ Scene \cup Dots \subseteq Pels
  /\ Rops \subseteq {"COPY", "OR", "AND", "XOR", "INVERT"}
  /\ \A s \in Shapes : s[1] \in Pels /\ ColOf(s[1]) + s[2] <= Pitch
                                     /\ LineOf(s[1]) + s[3] <= Pitches
  /\ \A m \in Moves : \A k \in {1, 2} :
       m[k] \in Pels /\ ColOf(m[k]) + m[3] <= Pitch /\ LineOf(m[k]) + m[4] <= Pitches
  /\ \A s \in Stencils : s \subseteq Pels

VARIABLES
  driver,
  vram, meant,
  chip,         \* the engine's registers
  queue,        \* the Mach32's register writes not yet done
  engine,       \* "idle", "running", or "hungry": waiting for data
  todo,         \* the steps before the program has control again
  soft,         \* the driver's variables
  accelstate,   \* mach32_accelstate
  lock_count, CRITICAL,
  front,        \* "ours", "other", or "dead": the program has been killed
  request,      \* of the console: "none", "deferred" (release_flag), "handled"
  own,          \* the program's own vga_lockvc
  wish,         \* what the program's calls asked for
  asked

accelvars == <<driver, vram, meant, chip, queue, engine, todo, soft, accelstate,
               lock_count, CRITICAL, front, request, own, wish, asked>>

Inks == {"ink", "paper"}

-----------------------------------------------------------------------------
(* Raster operations.                                                      *)

Ropped(rop, s, d) ==
  CASE rop = "COPY" -> s
    [] rop = "OR" -> s \/ d
    [] rop = "AND" -> s /\ d
    [] rop = "XOR" -> s # d
    [] rop = "INVERT" -> ~d
    [] rop = "LEAVE" -> d

ark_rop_map == [COPY |-> 3, OR |-> 7, AND |-> 1, XOR |-> 6, INVERT |-> 10]
cirrus_rop_map == [COPY |-> 13, OR |-> 109, AND |-> 5, XOR |-> 89, INVERT |-> 11]
mach32ropdefs == [COPY |-> 7, OR |-> 11, AND |-> 12, XOR |-> 5, INVERT |-> 0]

LeaveAlone == 3      \* the Mach32's mix that keeps what is there

(* What the chips take the codes for; the ARK's is a truth table.          *)
cirrus_mixes == 13 :> "COPY" @@ 109 :> "OR" @@ 5 :> "AND" @@ 89 :> "XOR" @@ 11 :> "INVERT"
mach32_mixes ==
  7 :> "COPY" @@ 11 :> "OR" @@ 12 :> "AND" @@ 5 :> "XOR" @@ 0 :> "INVERT" @@ 3 :> "LEAVE"

Mixed(code, s, d) ==
  IF driver = "ark"
  THEN (code \div ((IF s THEN 1 ELSE 4) * (IF d THEN 1 ELSE 2))) % 2 = 1
  ELSE Ropped((IF driver = "mach32" THEN mach32_mixes ELSE cirrus_mixes)[code], s, d)

-----------------------------------------------------------------------------
(* The engine.                                                             *)

Fill(s) == [kind |-> "fill", from |-> s[1], to |-> s[1], w |-> s[2], h |-> s[3],
            back |-> FALSE, bits |-> {}]
Bitmap(s, bits) == [Fill(s) EXCEPT !.kind = "bitmap", !.bits = bits]

(* A copy onto itself must read a pixel before it is overwritten: it runs  *)
(* from the last corner when the destination is behind the source.         *)
Copy(m, back) ==
  LET end == IF back THEN (m[4] - 1) * Pitch + m[3] - 1 ELSE 0
  IN  [kind |-> "copy", from |-> m[1] + end, to |-> m[2] + end, w |-> m[3],
       h |-> m[4], back |-> back, bits |-> {}]

Backwards(m) ==
  /\ \/ LineOf(m[1]) < LineOf(m[2])
     \/ LineOf(m[1]) = LineOf(m[2]) /\ ColOf(m[1]) < ColOf(m[2])
  /\ LineOf(m[1]) + m[4] > LineOf(m[2])

mach32_Backwards(m) ==
  ~(\/ LineOf(m[1]) > LineOf(m[2])
    \/ LineOf(m[1]) = LineOf(m[2]) /\ ColOf(m[1]) >= ColOf(m[2]))

(* The blit in the registers, pixel by pixel.                              *)
Blit(memory, r) ==
  LET b == r.blit
      Away(k) == (k \div b.w) * Pitch + (k % b.w)
      At(corner, k) == IF b.back THEN corner - Away(k) ELSE corner + Away(k)
      First(k) == b.kind # "bitmap" \/ k \in b.bits
      Source(m, k) == IF b.kind = "copy" THEN At(b.from, k) \in m
                      ELSE (IF First(k) THEN r.fg ELSE r.bg) = "ink"
      Code(k) == IF b.kind = "fill" THEN r.mix ELSE IF First(k) THEN r.alu ELSE r.balu
      Pel(m, k) == IF Mixed(Code(k), Source(m, k), At(b.to, k) \in m)
                   THEN m \cup {At(b.to, k)} ELSE m \ {At(b.to, k)}
  IN  FoldLeft(Pel, memory, [i \in 1..(b.w * b.h) |-> i - 1])

(* What a call promises, all at once.                                      *)
Promised(memory, b, f, t, w) ==
  LET inside == {k \in 0..(b.w * b.h - 1) : b.kind # "bitmap" \/ ~w.clear \/ k \in b.bits}
      Away(k) == (k \div b.w) * Pitch + (k % b.w)
      Source(k) == IF b.kind = "copy" THEN f + Away(k) \in memory
                   ELSE (IF b.kind = "fill" \/ k \in b.bits THEN w.fg ELSE w.bg) = "ink"
      New(k) == Ropped(w.rop, Source(k), t + Away(k) \in memory)
  IN  {a \in Pels : IF \E k \in inside : a = t + Away(k)
                    THEN \E k \in inside : a = t + Away(k) /\ New(k)
                    ELSE a \in memory}

Finished == engine = "idle" /\ queue = <<>>

Started(b) == IF b.kind = "bitmap" THEN "hungry" ELSE "running"

EngineRuns ==
  /\ engine = "running"
  /\ vram' = Blit(vram, chip) /\ engine' = "idle"
  /\ UNCHANGED <<driver, meant, chip, queue, todo, soft, accelstate, lock_count,
                 CRITICAL, front, request, own, wish, asked>>

QueueRuns ==
  /\ queue # <<>> /\ engine = "idle" /\ queue' = Tail(queue)
  /\ IF Head(queue)[1] = "put"
     THEN chip' = Updated(chip, Head(queue)[2]) /\ UNCHANGED engine
     ELSE engine' = Started(chip.blit) /\ UNCHANGED chip
  /\ UNCHANGED <<driver, vram, meant, todo, soft, accelstate, lock_count,
                 CRITICAL, front, request, own, wish, asked>>

-----------------------------------------------------------------------------
(* The drivers, as steps.                                                  *)

Put(r) == <<<<"put", r>>>>          \* registers
Note(r) == <<<<"note", r>>>>        \* the driver's variables
Start == <<<<"start">>>>
FaultyFinish == <<>>
FINISHBACKGROUNDBLITS == <<<<"finish">>>>
WAITUNTILFINISHED == <<<<"wait">>>>
Settle == <<<<"settle">>>>          \* wait unless in background
Lock == <<<<"lock">>>>
Unlock == <<<<"unlock">>>>

arkaccel_Blit(b) == FINISHBACKGROUNDBLITS \o Put([blit |-> b]) \o Start \o Settle
arkaccel_FillBox(s) == arkaccel_Blit(Fill(s))
arkaccel_ScreenCopy(m) == arkaccel_Blit(Copy(m, Backwards(m)))
arkaccel_PutBitmap(s, bits) ==
  FINISHBACKGROUNDBLITS \o Put([blit |-> Bitmap(s, bits)])
    \o <<<<"block">>>> \o Start \o <<<<"feed">>, <<"unblock">>>> \o WAITUNTILFINISHED
arkaccel_SetRasterOp(r) ==
  Put([mix |-> ark_rop_map[r], alu |-> ark_rop_map[r], balu |-> ark_rop_map[r]])

(* The color register of the 542x is part of its ordinary drawing.         *)
cirrusaccel_FillBox(s) ==
  FINISHBACKGROUNDBLITS \o Put([blit |-> Fill(s)]) \o Put([fg |-> soft.fg]) \o Start
    \o WAITUNTILFINISHED \o Put([fg |-> "paper"])
cirrusaccel_mmio_FillBox(s) == arkaccel_Blit(Fill(s))
cirrusaccel_ScreenCopy(m) == arkaccel_Blit(Copy(m, Backwards(m)))
cirrusaccel_SetFGColor(c) ==
  IF driver = "cirrus" THEN Note([fg |-> c])
  ELSE FINISHBACKGROUNDBLITS \o Put([fg |-> c])
cirrusaccel_SetRasterOp(r) ==
  FINISHBACKGROUNDBLITS \o Put([mix |-> cirrus_rop_map[r], alu |-> cirrus_rop_map[r]])

(* The Mach32's variables are written to its registers again whenever      *)
(* others may have used them.                                              *)
enter_accel == <<<<"critical">>, <<"extended">>>>
Leave == <<<<"leave">>>>
mach32_accel(body) == enter_accel \o body \o Leave

mach32_Keep(r) == Note(r) \o Put(r)
mach32_SETRASTEROP(r) ==
  LET fn == mach32ropdefs[r]
      back == IF soft.balu # LeaveAlone THEN fn ELSE LeaveAlone
  IN  mach32_accel(Note([mix |-> fn, balu |-> back])
                     \o Put([mix |-> fn, alu |-> fn, balu |-> back]))
mach32_SETTRANSPARENCY(on) ==
  mach32_accel(IF on THEN mach32_Keep([balu |-> LeaveAlone])
               ELSE IF soft.balu = LeaveAlone THEN mach32_Keep([balu |-> soft.mix])
               ELSE <<>>)
mach32_Blit(b) == mach32_accel(Put([blit |-> b]) \o Start)
mach32_PUTBITMAP(s, bits) ==
  mach32_accel(Put([blit |-> Bitmap(s, bits)]) \o Start \o <<<<"feed">>>>)
mach32_SYNC == <<<<"sync">>>>

(* Its old calls, made for the Cirrus.                                     *)
mach32_old(body) ==
  <<<<"seize">>>> \o Lock \o <<<<"standard">>>> \o body \o Start
    \o WAITUNTILFINISHED \o Unlock
mach32_fillblt(s, c) == mach32_old(Put([blit |-> Fill(s), fg |-> c, mix |-> 7]))
mach32_bitblt(m) == mach32_old(Put([blit |-> Copy(m, m[1] <= m[2])]))

(* vga_accel: the Mach32 has a function of its own, the others go through  *)
(* the table of their functions with the console locked.                   *)
vga_accel(body) == IF driver = "mach32" THEN body ELSE Lock \o body \o Unlock

Sync == vga_accel(IF driver = "mach32" THEN mach32_SYNC ELSE WAITUNTILFINISHED)

FaultyIdle == <<>>
idle_accel == Sync

(* flipaway and flipback: the engine is left to the other console, whose   *)
(* program may write its registers; the mode is set again on return.       *)
Switch == idle_accel \o <<<<"away">>, <<"back">>>>
signal_handler == idle_accel \o <<<<"die">>>>

-----------------------------------------------------------------------------
(* The steps.                                                              *)

Doing(step) == front # "dead" /\ todo # <<>> /\ Head(todo)[1] = step
Operand == Head(todo)[2]
Done == todo' = Tail(todo)
Instead(steps) == todo' = steps \o Tail(todo)

DoPut ==
  /\ Doing("put") /\ Done
  /\ IF driver = "mach32"
     THEN Len(queue) < Fifo /\ queue' = Append(queue, Head(todo)) /\ UNCHANGED chip
     ELSE chip' = Updated(chip, Operand) /\ UNCHANGED queue
  /\ UNCHANGED <<driver, vram, meant, engine, soft, accelstate, lock_count, CRITICAL,
                 front, request, own, wish, asked>>

DoStart ==
  /\ Doing("start") /\ Done
  /\ IF driver = "mach32"
     THEN Len(queue) < Fifo /\ queue' = Append(queue, Head(todo)) /\ UNCHANGED engine
     ELSE engine' = Started(chip.blit) /\ UNCHANGED queue
  /\ UNCHANGED <<driver, vram, meant, chip, soft, accelstate, lock_count, CRITICAL,
                 front, request, own, wish, asked>>

DoFeed ==
  /\ Doing("feed") /\ Done
  /\ engine = "hungry" /\ engine' = "running"
  /\ UNCHANGED <<driver, vram, meant, chip, queue, soft, accelstate, lock_count, CRITICAL,
                 front, request, own, wish, asked>>

DoNote ==
  /\ Doing("note") /\ Done
  /\ soft' = Updated(soft, Operand)
  /\ UNCHANGED <<driver, vram, meant, chip, queue, engine, accelstate, lock_count,
                 CRITICAL, front, request, own, wish, asked>>

(* The Mach32 gives up after a while and resets the engine.                *)
DoWait ==
  /\ Doing("wait") /\ Done
  /\ \/ Finished /\ UNCHANGED <<queue, engine, accelstate>>
     \/ /\ driver = "mach32" /\ engine = "hungry"
        /\ queue' = <<>> /\ engine' = "idle" /\ accelstate' = "unknown"
  /\ CRITICAL' = (CRITICAL /\ driver # "mach32")
  /\ UNCHANGED <<driver, vram, meant, chip, soft, lock_count, front, request, own,
                 wish, asked>>

(* SIGNALBLOCK and SIGNALUNBLOCK count by their place in todo.             *)
DoBranch ==
  /\ \/ Doing("finish") /\ Instead(IF soft.background THEN WAITUNTILFINISHED ELSE <<>>)
     \/ Doing("settle") /\ Instead(IF soft.background THEN <<>> ELSE WAITUNTILFINISHED)
     \/ Doing("sync") /\ Instead(IF CRITICAL THEN WAITUNTILFINISHED \o Unlock ELSE <<>>)
     \/ Doing("leave")
          /\ Instead(IF soft.background THEN <<>> ELSE WAITUNTILFINISHED \o Unlock)
     \/ Doing("block") /\ Done
     \/ Doing("unblock") /\ Done
  /\ UNCHANGED <<driver, vram, meant, chip, queue, engine, soft, accelstate, lock_count,
                 CRITICAL, front, request, own, wish, asked>>

DoCritical ==
  /\ \/ Doing("critical") /\ Instead(IF CRITICAL THEN <<>> ELSE Lock)
     \/ Doing("seize") /\ Done
  /\ CRITICAL' = TRUE
  /\ UNCHANGED <<driver, vram, meant, chip, queue, engine, soft, accelstate, lock_count,
                 front, request, own, wish, asked>>

(* mach32_setstate.                                                        *)
Restored == [mix |-> soft.mix, alu |-> soft.mix, balu |-> soft.balu,
             fg |-> soft.fg, bg |-> soft.bg]
DoSetstate ==
  /\ \E which \in {"extended", "standard"} :
       /\ Doing(which)
       /\ Instead(IF accelstate = which THEN <<>>
                  ELSE Put(IF which = "extended" THEN Restored ELSE [alu |-> 7, balu |-> 7]))
       /\ accelstate' = which
  /\ UNCHANGED <<driver, vram, meant, chip, queue, engine, soft, lock_count, CRITICAL,
                 front, request, own, wish, asked>>

vga_lockvc ==
  /\ Doing("lock") /\ Done
  /\ lock_count' = lock_count + 1
  /\ UNCHANGED <<driver, vram, meant, chip, queue, engine, soft, accelstate, CRITICAL,
                 front, request, own, wish, asked>>

vga_unlockvc ==
  /\ Doing("unlock")
  /\ lock_count' = IF lock_count > 0 THEN lock_count - 1 ELSE 0
  /\ IF lock_count' = 0 /\ request = "deferred"
     THEN request' = "handled" /\ Instead(Switch)
     ELSE UNCHANGED request /\ Done
  /\ UNCHANGED <<driver, vram, meant, chip, queue, engine, soft, accelstate, CRITICAL,
                 front, own, wish, asked>>

(* Setting the text mode: the Mach32's driver waits once more.             *)
Away ==
  /\ Doing("away") /\ Done
  /\ driver = "mach32" => Finished
  /\ front' = "other"
  /\ UNCHANGED <<driver, vram, meant, chip, queue, engine, soft, accelstate, lock_count,
                 CRITICAL, request, own, wish, asked>>

(* InitializeAcceleratorInterface and the drivers' own initialisation; the *)
(* Mach32's keeps its background mode.                                     *)
Initialised(c, rop) ==
  LET code == IF driver = "ark" THEN ark_rop_map["COPY"]
              ELSE IF driver = "mach32" THEN mach32ropdefs[rop] ELSE cirrus_rop_map["COPY"]
  IN  [fg |-> c, bg |-> c, mix |-> code, alu |-> code, balu |-> code]

(* What a program that knows it was away has to ask for again.             *)
Forgotten ==
  CASE driver = "mach32" -> wish
    [] driver = "cirrus" -> [wish EXCEPT !.rop = "any"]
    [] OTHER -> [wish EXCEPT !.fg = "any", !.bg = "any", !.rop = "any"]

Back ==
  /\ Doing("back") /\ Done
  /\ front' = "ours" /\ request' = "none"
  /\ \E c \in Inks, rop \in {"COPY", "XOR"} : chip' = Updated(chip, Initialised(c, rop))
  /\ accelstate' = "unknown"
  /\ soft' = [soft EXCEPT !.background = @ /\ driver = "mach32"]
  /\ wish' = IF Gentle THEN Forgotten ELSE wish
  /\ UNCHANGED <<driver, vram, meant, queue, engine, lock_count, CRITICAL, own, asked>>

Die ==
  /\ Doing("die")
  /\ front' = "dead" /\ todo' = <<>>
  /\ UNCHANGED <<driver, vram, meant, chip, queue, engine, soft, accelstate, lock_count,
                 CRITICAL, request, own, wish, asked>>

Proceed ==
  \/ DoPut \/ DoStart \/ DoFeed \/ DoNote \/ DoWait \/ DoBranch \/ DoCritical
  \/ DoSetstate \/ vga_lockvc \/ vga_unlockvc \/ Away \/ Back \/ Die

-----------------------------------------------------------------------------
(* Signals.                                                                *)

(* A switch between CRITICAL = 1 and vga_lockvc clears CRITICAL: the       *)
(* Mach32's driver then draws without it, and in background loses a lock.  *)
SwitchRequested ==
  /\ front = "ours" /\ request = "none"
  /\ Gentle => ~(CRITICAL /\ lock_count = own)
  /\ IF lock_count > 0 THEN request' = "deferred" /\ UNCHANGED todo
     ELSE request' = "handled" /\ todo' = Switch \o todo
  /\ UNCHANGED <<driver, vram, meant, chip, queue, engine, soft, accelstate, lock_count,
                 CRITICAL, front, own, wish, asked>>

(* SIGNALBLOCK blocks SIGINT and no other signal: any other that comes     *)
(* while a bitmap's data are copied leaves its handler waiting for them.   *)
FaultyBlocked(signal) == FALSE
Blocked(signal) ==
  LET names == {todo[i][1] : i \in DOMAIN todo}
  IN  signal = "SIGINT" /\ "unblock" \in names /\ "block" \notin names

Killed(signal) ==
  /\ front = "ours" /\ ~Blocked(signal)
  /\ \A i \in DOMAIN todo : todo[i][1] # "die"
  /\ Gentle => signal = "SIGINT" \/ driver = "mach32" \/ ~Doing("feed")
  /\ todo' = signal_handler \o todo
  /\ UNCHANGED <<driver, vram, meant, chip, queue, engine, soft, accelstate, lock_count,
                 CRITICAL, front, request, own, wish, asked>>

-----------------------------------------------------------------------------
(* The program.                                                            *)

(* A gentle program locks the console before it uses the accelerator of a  *)
(* driver that does not (vga_accel(3)).                                    *)
Ask ==
  /\ front = "ours" /\ todo = <<>>
  /\ asked < AskMax /\ asked' = asked + 1
  /\ UNCHANGED <<driver, chip, queue, engine, soft, accelstate, lock_count, CRITICAL,
                 front, request>>
Accelerated == Ask /\ (Gentle /\ driver # "mach32" => own = 1)

(* What a driver lets run in background, it is not asked to wait for; ark  *)
(* writes colors and operations under a running blit.                      *)
Quiet == Gentle /\ driver = "ark" => wish.synced
Asks(r) == wish' = Updated(wish, r) /\ UNCHANGED <<vram, meant, own>>

ACCEL_SETFGCOLOR(c) ==
  /\ Accelerated /\ Quiet /\ Asks([fg |-> c])
  /\ todo' = vga_accel(CASE driver = "ark" -> Put([fg |-> c])
                         [] driver = "mach32" -> mach32_accel(mach32_Keep([fg |-> c]))
                         [] OTHER -> cirrusaccel_SetFGColor(c))

ACCEL_SETBGCOLOR(c) ==
  /\ driver \in {"ark", "mach32"}
  /\ Accelerated /\ Quiet /\ Asks([bg |-> c])
  /\ todo' = vga_accel(IF driver = "ark" THEN Put([bg |-> c])
                       ELSE mach32_accel(mach32_Keep([bg |-> c])))

ACCEL_SETRASTEROP(r) ==
  /\ Accelerated /\ Quiet /\ Asks([rop |-> r])
  /\ todo' = vga_accel(CASE driver = "ark" -> arkaccel_SetRasterOp(r)
                         [] driver = "mach32" -> mach32_SETRASTEROP(r)
                         [] OTHER -> cirrusaccel_SetRasterOp(r))

ACCEL_SETTRANSPARENCY(on) ==
  /\ driver = "mach32"
  /\ Accelerated /\ Asks([clear |-> on])
  /\ todo' = vga_accel(mach32_SETTRANSPARENCY(on))

Blits(b, from, to) ==
  /\ Accelerated /\ wish.rop # "any"
  /\ meant' = Promised(meant, b, from, to, wish)
  /\ wish' = [wish EXCEPT !.synced = ~wish.background]
  /\ UNCHANGED <<vram, own>>

ACCEL_FILLBOX(s) ==
  /\ wish.fg # "any" /\ Blits(Fill(s), s[1], s[1])
  /\ todo' = vga_accel(CASE driver = "cirrus" -> cirrusaccel_FillBox(s)
                         [] driver = "cirrus mmio" -> cirrusaccel_mmio_FillBox(s)
                         [] driver = "ark" -> arkaccel_FillBox(s)
                         [] driver = "mach32" -> mach32_Blit(Fill(s)))

ACCEL_SCREENCOPY(m) ==
  /\ Blits(Copy(m, FALSE), m[1], m[2])
  /\ todo' = vga_accel(CASE driver = "ark" -> arkaccel_ScreenCopy(m)
                         [] driver = "mach32" -> mach32_Blit(Copy(m, mach32_Backwards(m)))
                         [] OTHER -> cirrusaccel_ScreenCopy(m))

(* vga_ext_set(VGA_AVAIL_ROP) does not offer ark's bitmaps an operation.   *)
ACCEL_PUTBITMAP(s, bits) ==
  /\ driver \in {"ark", "mach32"} /\ wish.fg # "any" /\ wish.bg # "any"
  /\ driver = "ark" => wish.rop = "COPY"
  /\ Blits(Bitmap(s, bits), s[1], s[1])
  /\ todo' = vga_accel(IF driver = "ark" THEN arkaccel_PutBitmap(s, bits)
                       ELSE mach32_PUTBITMAP(s, bits))

(* The Mach32's driver unlocks the console at every SETMODE to BLITS_SYNC. *)
ACCEL_SETMODE(background) ==
  /\ Accelerated
  /\ Gentle /\ driver = "mach32" /\ ~background => own = 0 \/ CRITICAL
  /\ Asks([background |-> background, synced |-> wish.synced \/ ~background])
  /\ todo' = vga_accel(IF driver = "mach32" THEN Note([background |-> background]) \o Leave
                       ELSE (IF background THEN <<>> ELSE FINISHBACKGROUNDBLITS)
                              \o Note([background |-> background]))

ACCEL_SYNC ==
  /\ Accelerated /\ Asks([synced |-> TRUE])
  /\ todo' = Sync

(* The old calls draw as they always did, whatever operation the new ones  *)
(* are set to; mixed with blits in background they lose a lock.            *)
Old(b, from, to, c) ==
  /\ driver = "mach32" /\ Ask /\ (Gentle => ~CRITICAL)
  /\ meant' = Promised(meant, b, from, to, [wish EXCEPT !.fg = c, !.rop = "COPY"])
  /\ UNCHANGED <<vram, own, wish>>

vga_fillblt(s, c) == Old(Fill(s), s[1], s[1], c) /\ todo' = mach32_fillblt(s, c)

vga_bitblt(m) == Old(Copy(m, FALSE), m[1], m[2], "ink") /\ todo' = mach32_bitblt(m)

(* Drawing without the accelerator, once it is known to be idle.           *)
Plot(a) ==
  /\ Ask /\ (Gentle => wish.synced) /\ UNCHANGED <<todo, own, wish>>
  /\ vram' = vram \cup {a} /\ meant' = meant \cup {a}

ProgramLocks ==
  /\ Ask /\ UNCHANGED <<vram, meant, wish>>
  /\ \/ own = 0 /\ own' = 1 /\ todo' = Lock
     \/ own = 1 /\ own' = 0 /\ todo' = Unlock

(* The program has set its mode and its colors, and perhaps locked its     *)
(* console.                                                                *)
AccelInit ==
  /\ driver \in Drivers
  /\ vram = Scene /\ meant = Scene
  /\ soft = [fg |-> "ink", bg |-> "paper", mix |-> 7, balu |-> 7, background |-> FALSE]
  /\ chip = Updated(Initialised("paper", "COPY"),
                    [fg |-> "ink", bg |-> "paper", blit |-> Fill(<<0, 1, 1>>)])
  /\ queue = <<>> /\ engine = "idle" /\ todo = <<>>
  /\ accelstate = "unknown" /\ CRITICAL = FALSE
  /\ own \in {0, 1} /\ lock_count = own
  /\ front = "ours" /\ request = "none"
  /\ wish = [fg |-> "ink", bg |-> "paper", rop |-> "COPY", clear |-> FALSE,
             background |-> FALSE, synced |-> TRUE]
  /\ asked = 0

Program ==
  \/ \E c \in Inks : ACCEL_SETFGCOLOR(c) \/ ACCEL_SETBGCOLOR(c)
  \/ \E r \in Rops : ACCEL_SETRASTEROP(r)
  \/ \E on \in BOOLEAN : ACCEL_SETTRANSPARENCY(on) \/ ACCEL_SETMODE(on)
  \/ \E s \in Shapes : \/ ACCEL_FILLBOX(s)
                       \/ \E c \in Inks : vga_fillblt(s, c)
                       \/ \E bits \in Stencils : ACCEL_PUTBITMAP(s, bits)
  \/ \E m \in Moves : ACCEL_SCREENCOPY(m) \/ vga_bitblt(m)
  \/ ACCEL_SYNC \/ ProgramLocks
  \/ \E a \in Dots : Plot(a)

Signal ==
  \/ SwitchRequested
  \/ \E signal \in {"SIGINT", "SIGTERM"} : Killed(signal)

AccelNext == Program \/ Proceed \/ EngineRuns \/ QueueRuns \/ Signal

AccelSpec == AccelInit /\ [][AccelNext]_accelvars

-----------------------------------------------------------------------------
(* Properties.                                                             *)

(* Whenever the engine is idle and the program in control of its console,  *)
(* the video memory is what its calls describe: no register written under  *)
(* a running blit or left by another driver call or console, no pixel of   *)
(* an overlapping copy overwritten before it was read, no blit outrun by   *)
(* the program's own drawing.                                              *)
Blitted == front = "ours" /\ todo = <<>> /\ Finished => vram = meant

(* The engine never works behind another console's or the shell's back,    *)
(* and the console's lock is held by the program and by a Mach32 that      *)
(* draws in background, by nobody else and by each once: none is lost, and *)
(* none kept for ever.                                                     *)
Guarded ==
  /\ front # "ours" => Finished
  /\ front = "ours" /\ todo = <<>> => lock_count = own + (IF CRITICAL THEN 1 ELSE 0)

(* Nobody waits, without end, for an engine that waits for the program's   *)
(* data: not the handler of a SIGINT that came while they were copied, nor *)
(* that of any fatal signal that came at another step.                     *)
Mortal == Doing("wait") /\ driver # "mach32" => engine # "hungry"

=============================================================================
