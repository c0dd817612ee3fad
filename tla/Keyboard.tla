------------------------------ MODULE Keyboard ------------------------------
(***************************************************************************)
(* The raw keyboard (src/src/keyboard/keyboard.c): the reading of scan     *)
(* codes, the watch for console switches and Control-C, and the default    *)
(* handler's table of the keys that are pressed.                           *)
(*                                                                         *)
(* The kernel queues for the program the key events that happen while its  *)
(* console is in front; the others it never sees.  Keys are physical keys, *)
(* with the identity keymap; a scan code is the key's name.                *)
(***************************************************************************)
EXTENDS Naturals, Sequences

CONSTANTS
  ControlKeys, AltKeys, WinKeys,
  KeyC,
  OwnF, OtherF,      \* the function keys of the program's and another console
  UpLeft, Up,        \* keypad keys, the first of them a diagonal
  Mode,              \* the translations in force: "diagonal", "catch C"
  BufferSize,        \* KBDREADBUFFERSIZE
  QueueMax,          \* bound: events on their way at once
  Patient,           \* the user waits for a switch to happen
  Others             \* other processes switch consoles

FKeys == {OwnF, OtherF}
Keys == ControlKeys \cup AltKeys \cup WinKeys \cup FKeys \cup {KeyC, UpLeft, Up}

ASSUME KeyboardAssumption ==
  /\ BufferSize \in Nat \ {0} /\ QueueMax \in Nat
  /\ Patient \in BOOLEAN /\ Others \in BOOLEAN

VARIABLES
  down,        \* the keys that are really held
  front,       \* the program's console is in front
  queue,       \* what the kernel has queued for the program
  buf,         \* what keyboard_getevents has read and not handled
  state,       \* the table of the default handler: scan codes pressed
  ctrl_state, alt_state, win_state, c_state,
  functionkey_state,
  leaving,     \* VT_ACTIVATE is under way
  interrupted  \* the event handled last raised SIGINT

kbd == <<state, ctrl_state, alt_state, win_state, c_state, functionkey_state>>
vars == <<down, front, queue, buf, kbd, leaving, interrupted>>

Event == [key : Keys, press : BOOLEAN, held : SUBSET Keys]

TypeOK ==
  /\ down \subseteq Keys /\ state \subseteq Keys /\ functionkey_state \subseteq FKeys
  /\ {front, ctrl_state, alt_state, win_state, c_state, leaving, interrupted}
       \subseteq BOOLEAN
  /\ queue \in Seq(Event) /\ Len(queue) <= QueueMax
  /\ buf \in Seq(Event) /\ Len(buf) <= BufferSize

Init ==
  /\ down = {} /\ front = TRUE /\ queue = <<>> /\ buf = <<>>
  /\ state = {} /\ functionkey_state = {}
  /\ ctrl_state = FALSE /\ alt_state = FALSE /\ win_state = FALSE
  /\ c_state = FALSE
  /\ leaving = FALSE /\ interrupted = FALSE

-----------------------------------------------------------------------------
(* The user, the kernel and the other consoles.                            *)

SwitchHeld(held) ==
  held \cap (AltKeys \cup WinKeys) # {} /\ held \cap FKeys # {}

Underway ==
  LET unseen == buf \o queue
  IN  leaving \/ \E i \in DOMAIN unseen : SwitchHeld(unseen[i].held)

Deliver(e) == queue' = IF front THEN Append(queue, e) ELSE queue

Key(k, press) ==
  /\ Patient => ~Underway
  /\ Len(buf \o queue) < QueueMax
  /\ down' = IF press THEN down \cup {k} ELSE down \ {k}
  /\ Deliver([key |-> k, press |-> press, held |-> down'])
  /\ UNCHANGED <<front, buf, kbd, leaving, interrupted>>

Press(k) == Key(k, TRUE)      \* a key already held repeats
Release(k) == k \in down /\ Key(k, FALSE)

Leave ==
  /\ front /\ (leaving \/ Others)
  /\ front' = FALSE /\ leaving' = FALSE
  /\ UNCHANGED <<down, queue, buf, kbd, interrupted>>

Return ==
  /\ ~front
  /\ front' = TRUE
  /\ UNCHANGED <<down, queue, buf, kbd, leaving, interrupted>>

-----------------------------------------------------------------------------
(* keyboard_getevents.                                                     *)

Read ==
  /\ front /\ buf = <<>> /\ queue # <<>>
  /\ LET n == IF Len(queue) < BufferSize THEN Len(queue) ELSE BufferSize
     IN  /\ buf' = SubSeq(queue, 1, n)
         /\ queue' = SubSeq(queue, n + 1, Len(queue))
  /\ UNCHANGED <<down, front, kbd, leaving, interrupted>>

(* The scan codes whose table entry an event on key k sets.                *)
Reported(k) ==
  {k} \cup (IF k = UpLeft /\ "diagonal" \in Mode THEN {Up} ELSE {})

FaultyDefaultHandler(e) ==
  state' = IF e.press THEN state \cup Reported(e.key) ELSE state \ {e.key}
default_handler(e) ==
  state' = IF e.press THEN state \cup Reported(e.key)
                      ELSE state \ Reported(e.key)

(* A modifier's flag follows the last event of either of its keys.         *)
Follow(flag, keys, e) == IF e.key \in keys THEN e.press ELSE flag

FaultyFunctionKeysAny(e) ==
  IF e.press THEN functionkey_state \cup {e.key}
  ELSE functionkey_state \ {e.key}
FaultyFunctionKeysKept(e) ==
  IF e.key \in FKeys THEN functionkey_state \cup {e.key}
  ELSE functionkey_state
FunctionKeys(e) ==
  IF e.key \notin FKeys THEN functionkey_state
  ELSE IF e.press THEN functionkey_state \cup {e.key}
  ELSE functionkey_state \ {e.key}

(* The lowest function key held names the console; the current one is not  *)
(* switched to.                                                            *)
Switches(alt, win, fs) == (alt \/ win) /\ fs # {} /\ OwnF \notin fs

(* keyboard_clearstate.                                                    *)
FaultyCleared ==
  /\ state' = {} /\ functionkey_state' = {}
  /\ alt_state' = FALSE /\ c_state' = FALSE
  /\ UNCHANGED ctrl_state
Cleared ==
  /\ state' = {} /\ functionkey_state' = {}
  /\ ctrl_state' = FALSE /\ alt_state' = FALSE /\ c_state' = FALSE

(* One event.  A switch drops the rest of the buffer.                      *)
HandleEvent ==
  /\ front /\ buf # <<>>
  /\ LET e == Head(buf)
         ctrl == Follow(ctrl_state, ControlKeys, e)
         alt == Follow(alt_state, AltKeys, e)
         win == Follow(win_state, WinKeys, e)
         c == Follow(c_state, {KeyC}, e)
         fs == FunctionKeys(e)
     IN  /\ interrupted' = (ctrl /\ c /\ "catch C" \in Mode)
         /\ win_state' = win
         /\ \/ /\ Switches(alt, win, fs)
               /\ Cleared
               /\ leaving' = TRUE
               /\ buf' = <<>>
            \/ /\ ~Switches(alt, win, fs)
               /\ ctrl_state' = ctrl /\ alt_state' = alt /\ c_state' = c
               /\ functionkey_state' = fs
               /\ default_handler(e)
               /\ UNCHANGED leaving
               /\ buf' = Tail(buf)
  /\ UNCHANGED <<down, front, queue>>

(* Called by the program.                                                  *)
keyboard_clearstate ==
  /\ front /\ buf = <<>>
  /\ Cleared
  /\ UNCHANGED <<down, front, queue, buf, win_state, leaving, interrupted>>

Next ==
  \/ \E k \in Keys : Press(k) \/ Release(k)
  \/ Leave \/ Return
  \/ Read \/ HandleEvent \/ keyboard_clearstate

Spec == Init /\ [][Next]_vars

-----------------------------------------------------------------------------
(* Properties.                                                             *)

(* A program that has read what there is to read is never told that a key  *)
(* is pressed that is not, consoles switched or not (the default handler's *)
(* table and its clearing).                                                *)
NoStuckKey ==
  front /\ ~leaving /\ queue = <<>> /\ buf = <<>> =>
    \A s \in state : \E k \in down : s \in Reported(k)

(* The console is switched only while the keys for it are held, and SIGINT *)
(* raised only while Control and C are: never by a key that meets a stale  *)
(* modifier.                                                               *)
Deliberate ==
  [][/\ leaving' /\ ~leaving => SwitchHeld(Head(buf).held)
     /\ interrupted' /\ buf' # buf /\ buf # <<>> =>
          KeyC \in Head(buf).held /\ Head(buf).held \cap ControlKeys # {}]_vars

=============================================================================
