---------------------------- MODULE ConsoleProofs ----------------------------
(***************************************************************************)
(* The keys and the cursor over virtual console switches: proofs for the   *)
(* two parts that a switch finds in the middle of what they do.            *)
(*                                                                         *)
(* Keyboard: no key sticks, and no console switch or SIGINT comes without  *)
(* its keys, for any keys, translations and buffers, when the user waits   *)
(* for a switch to happen, no other process switches consoles and there    *)
(* are no Windows keys.  Every event on its way carries the keys held      *)
(* after it, and the keys held before it are among those and its own.      *)
(* What the program believes is pressed is among the keys held before the  *)
(* first of them.  An event that lets the program switch is the last one   *)
(* on its way, so dropping the buffer drops nothing; and clearing the      *)
(* table leaves nothing to be believed while the console is away.          *)
(*                                                                         *)
(* Cursor: the picture is kept under the software cursor, and any card's   *)
(* cursor is between calls as the program asked, for a wary program and    *)
(* any width, size, numbers and coordinates.  A software cursor's call is  *)
(* locked: SoftwareTodo lists what can be left of it, and SoftPicture what *)
(* of the picture is hidden and saved at each step.  A card's call is not: *)
(* HardInv says that what the library noted is what was asked for, but for *)
(* the call in progress, and the card's registers and images what was      *)
(* noted, but for its last step, so that a restore, made from the notes,   *)
(* keeps it.                                                               *)
(***************************************************************************)
EXTENDS Keyboard, Cursor, TLAPS, WellFoundedInduction, SequenceTheorems


(* The user and the system the theorems are about.                         *)
Calm == Patient /\ ~Others /\ WinKeys = {}

Unseen == buf \o queue

(* The keys that may be held as far as the program has looked.             *)
Before(e) == e.held \cup {e.key}
Known == IF Unseen = <<>> THEN down ELSE Before(Unseen[1])

(* Each event starts from where the one before it has ended.               *)
Recorded ==
  /\ \A i \in 1 .. Len(Unseen) :
       Unseen[i].press => Unseen[i].key \in Unseen[i].held
  /\ \A i \in 1 .. Len(Unseen) - 1 : Unseen[i].held \subseteq Before(Unseen[i + 1])
  /\ Unseen # <<>> => Unseen[Len(Unseen)].held = down
  /\ \A i \in 1 .. Len(Unseen) : SwitchHeld(Unseen[i].held) => i = Len(Unseen)

(* Nothing is believed pressed that is not among P.                        *)
InStep(P) ==
  /\ \A s \in state : \E k \in P : s \in Reported(k)
  /\ ctrl_state => P \cap ControlKeys # {}
  /\ alt_state => P \cap AltKeys # {}
  /\ c_state => KeyC \in P
  /\ functionkey_state \subseteq P

Nothing == state = {} /\ functionkey_state = {} /\ ~ctrl_state /\ ~alt_state /\ ~c_state

KInv ==
  /\ TypeOK
  /\ Recorded
  /\ InStep(Known)
  /\ ~win_state
  /\ leaving \/ ~front => Unseen = <<>> /\ Nothing
  /\ leaving => front

-----------------------------------------------------------------------------
(* What is on its way, after each of the steps that change it.             *)

LEMMA UnseenType == ASSUME TypeOK PROVE Unseen \in Seq(Event)
  BY DEF TypeOK, Unseen

LEMMA ReadUnseen == ASSUME TypeOK, Read PROVE Unseen' = Unseen
  <1> DEFINE n == IF Len(queue) < BufferSize THEN Len(queue) ELSE BufferSize
  <1>1. /\ buf = <<>> /\ queue \in Seq(Event) /\ n \in 1 .. Len(queue)
        /\ buf' = SubSeq(queue, 1, n) /\ queue' = SubSeq(queue, n + 1, Len(queue))
    BY KeyboardAssumption DEF Read, TypeOK
  <1> HIDE DEF n
  <1>2. /\ Unseen = queue
        /\ Unseen' \in Seq(Event) /\ Len(Unseen') = Len(queue)
    BY <1>1 DEF Unseen
  <1>3. ASSUME NEW i \in 1 .. Len(queue) PROVE Unseen'[i] = queue[i]
    BY <1>1 DEF Unseen
  <1>4. QED BY <1>1, <1>2, <1>3

LEMMA KeyUnseen ==
  ASSUME TypeOK, NEW e \in Event, queue' = Append(queue, e), UNCHANGED buf
  PROVE  Unseen' = Append(Unseen, e)
  <1>1. /\ Unseen \in Seq(Event) /\ Unseen' \in Seq(Event)
        /\ Len(Unseen') = Len(Unseen) + 1
    BY DEF TypeOK, Unseen
  <1>2. ASSUME NEW i \in 1 .. Len(Unseen) + 1 PROVE Unseen'[i] = Append(Unseen, e)[i]
    BY DEF TypeOK, Unseen
  <1>3. QED BY <1>1, <1>2

LEMMA HandleUnseen ==
  ASSUME TypeOK, buf # <<>>, buf' = Tail(buf), UNCHANGED queue
  PROVE  /\ Unseen # <<>> /\ Unseen[1] = Head(buf) /\ Unseen' = Tail(Unseen)
  <1>1. /\ Unseen \in Seq(Event) /\ Unseen' \in Seq(Event) /\ Unseen # <<>>
        /\ Unseen[1] = Head(buf) /\ Len(Unseen') = Len(Unseen) - 1
    BY DEF TypeOK, Unseen
  <1>2. ASSUME NEW i \in 1 .. Len(Unseen) - 1 PROVE Unseen'[i] = Tail(Unseen)[i]
    BY DEF TypeOK, Unseen
  <1>3. QED BY <1>1, <1>2

-----------------------------------------------------------------------------
(* What the program believes after an event.                               *)

LEMMA FlagHeld ==
  ASSUME NEW e \in Event, e.press => e.key \in e.held,
         NEW K, NEW flag, flag => Before(e) \cap K # {}
  PROVE  Follow(flag, K, e) => e.held \cap K # {}
  BY DEF Follow, Before, Event

LEMMA FunctionKeysHeld ==
  ASSUME NEW e \in Event, e.press => e.key \in e.held,
         functionkey_state \subseteq Before(e), functionkey_state \subseteq FKeys
  PROVE  FunctionKeys(e) \subseteq e.held /\ FunctionKeys(e) \subseteq FKeys
  BY DEF FunctionKeys, Before, Event

LEMMA TableHeld ==
  ASSUME NEW e \in Event, e.press => e.key \in e.held, default_handler(e),
         \A s \in state : \E k \in Before(e) : s \in Reported(k)
  PROVE  \A s \in state' : \E k \in e.held : s \in Reported(k)
  <1>1. CASE e.press
    BY <1>1 DEF default_handler, Before
  <1>2. CASE ~e.press
    <2> SUFFICES ASSUME NEW s \in state \ Reported(e.key)
                 PROVE  \E k \in e.held : s \in Reported(k)
      BY <1>2 DEF default_handler
    <2>1. PICK k \in Before(e) : s \in Reported(k)
      OBVIOUS
    <2>2. QED BY <2>1 DEF Before
  <1>3. QED BY <1>1, <1>2

(* The first event on its way is one the queue has recorded.               *)
LEMMA FirstEvent ==
  ASSUME KInv, buf # <<>>
  PROVE  /\ Head(buf) \in Event /\ Head(buf) = Unseen[1] /\ Len(Unseen) \in Nat \ {0}
         /\ Head(buf).press => Head(buf).key \in Head(buf).held
         /\ Known = Before(Head(buf))
  <1>1. Head(buf) \in Event /\ Head(buf) = Unseen[1] /\ Len(Unseen) \in Nat \ {0}
    BY DEF KInv, TypeOK, Unseen
  <1>2. QED BY <1>1 DEF KInv, Recorded, Known

(* After it the flags and the table are among the keys it leaves held, and *)
(* a switch has its keys.                                                  *)
LEMMA Looked ==
  ASSUME WinKeys = {}, KInv, buf # <<>>, NEW e \in Event, e = Head(buf)
  PROVE  /\ Follow(ctrl_state, ControlKeys, e) => e.held \cap ControlKeys # {}
         /\ Follow(alt_state, AltKeys, e) => e.held \cap AltKeys # {}
         /\ Follow(c_state, {KeyC}, e) => KeyC \in e.held
         /\ ~Follow(win_state, WinKeys, e)
         /\ FunctionKeys(e) \subseteq e.held
         /\ Switches(Follow(alt_state, AltKeys, e), Follow(win_state, WinKeys, e),
                     FunctionKeys(e)) => SwitchHeld(e.held)
  <1>1. (e.press => e.key \in e.held) /\ InStep(Before(e)) /\ functionkey_state \subseteq FKeys
    BY FirstEvent DEF KInv, TypeOK
  <1>2. Follow(ctrl_state, ControlKeys, e) => e.held \cap ControlKeys # {}
    BY <1>1, FlagHeld DEF InStep
  <1>3. Follow(alt_state, AltKeys, e) => e.held \cap AltKeys # {}
    BY <1>1, FlagHeld DEF InStep
  <1>4. Follow(c_state, {KeyC}, e) => e.held \cap {KeyC} # {}
    <2>1. c_state => Before(e) \cap {KeyC} # {}
      BY <1>1 DEF InStep
    <2>2. QED BY <1>1, <2>1, FlagHeld
  <1>5. ~Follow(win_state, WinKeys, e)
    BY DEF Follow, KInv
  <1>6. FunctionKeys(e) \subseteq e.held /\ FunctionKeys(e) \subseteq FKeys
    BY <1>1, FunctionKeysHeld DEF InStep
  <1>7. QED BY <1>2, <1>3, <1>4, <1>5, <1>6 DEF Switches, SwitchHeld

-----------------------------------------------------------------------------
LEMMA InitKInv == Init => KInv
  <1> SUFFICES ASSUME Init PROVE KInv
    OBVIOUS
  <1>1. TypeOK
    <2>1. <<>> \in Seq(Event) /\ Len(<<>>) = 0
      OBVIOUS
    <2>2. {front, ctrl_state, alt_state, win_state, c_state, leaving, interrupted}
            \subseteq BOOLEAN
      BY DEF Init
    <2>3. QED BY <2>1, <2>2, KeyboardAssumption DEF Init, TypeOK
  <1>2. Unseen = <<>> /\ Len(Unseen) = 0
    BY DEF Init, Unseen
  <1>3. QED BY <1>1, <1>2 DEF Init, KInv, Recorded, InStep, Nothing

LEMMA KeyTyped ==
  ASSUME TypeOK, NEW k \in Keys, Press(k) \/ Release(k) PROVE TypeOK'
  <1>1. down' \subseteq Keys
    BY DEF Press, Release, Key, TypeOK
  <1>2. queue' \in Seq(Event) /\ Len(queue') <= QueueMax
    <2>1. \A p \in BOOLEAN : [key |-> k, press |-> p, held |-> down'] \in Event
      BY <1>1 DEF Event
    <2>2. Len(buf \o queue) = Len(buf) + Len(queue)
      BY DEF TypeOK
    <2>3. Len(queue) + 1 <= QueueMax
      BY <2>2, KeyboardAssumption DEF Press, Release, Key, TypeOK
    <2>4. queue' = queue \/ \E e \in Event : queue' = Append(queue, e)
      BY <2>1 DEF Press, Release, Key, Deliver
    <2>5. QED BY <2>3, <2>4 DEF TypeOK
  <1>3. QED BY <1>1, <1>2 DEF Press, Release, Key, TypeOK, kbd

LEMMA ReadTyped == ASSUME TypeOK, Read PROVE TypeOK'
  BY KeyboardAssumption DEF Read, TypeOK, kbd

LEMMA HandleTyped == ASSUME TypeOK, HandleEvent PROVE TypeOK'
  <1>1. Head(buf) \in Event /\ Tail(buf) \in Seq(Event) /\ Len(Tail(buf)) <= BufferSize
    <2>1. buf \in Seq(Event) /\ buf # <<>> /\ Len(buf) <= BufferSize /\ BufferSize \in Nat
      BY KeyboardAssumption DEF HandleEvent, TypeOK
    <2>2. QED BY <2>1
  <1>2. \A k \in Keys : Reported(k) \subseteq Keys
    BY DEF Reported, Keys
  <1>3. /\ buf' \in {<<>>, Tail(buf)}
        /\ state' \subseteq Keys
        /\ functionkey_state' \subseteq FKeys
    BY <1>1, <1>2 DEF HandleEvent, TypeOK, Cleared, default_handler, FunctionKeys, Event
  <1>4. {ctrl_state, alt_state, win_state, c_state, leaving, interrupted}' \subseteq BOOLEAN
    <2>1. Head(buf).press \in BOOLEAN
      BY <1>1 DEF Event
    <2>2. \A K : \A flag \in BOOLEAN : Follow(flag, K, Head(buf)) \in BOOLEAN
      BY <2>1 DEF Follow
    <2>3. {ctrl_state, alt_state, win_state, c_state, leaving} \subseteq BOOLEAN
      BY DEF TypeOK
    <2>4. interrupted' \in BOOLEAN /\ leaving' \in BOOLEAN
      BY <2>3 DEF HandleEvent
    <2>5. win_state' \in BOOLEAN
      BY <2>2, <2>3 DEF HandleEvent
    <2>6. ctrl_state' \in BOOLEAN /\ alt_state' \in BOOLEAN /\ c_state' \in BOOLEAN
      BY <2>2, <2>3 DEF HandleEvent, Cleared
    <2>7. QED BY <2>4, <2>5, <2>6
  <1>5. buf' \in Seq(Event) /\ Len(buf') <= BufferSize
    <2>1. <<>> \in Seq(Event) /\ Len(<<>>) <= BufferSize
      BY KeyboardAssumption
    <2>2. CASE buf' = <<>>
      BY <2>1, <2>2
    <2>3. CASE buf' = Tail(buf)
      BY <1>1, <2>3
    <2>4. QED BY <1>3, <2>2, <2>3
  <1>6. UNCHANGED <<down, front, queue>>
    BY DEF HandleEvent
  <1>7. QED BY <1>3, <1>4, <1>5, <1>6 DEF TypeOK

LEMMA TypeStep == ASSUME TypeOK, [Next]_vars PROVE TypeOK'
  <1>1. CASE Leave \/ Return \/ keyboard_clearstate \/ UNCHANGED vars
    BY <1>1 DEF Leave, Return, keyboard_clearstate, Cleared, TypeOK, vars, kbd
  <1>2. QED BY <1>1, KeyTyped, ReadTyped, HandleTyped DEF Next

-----------------------------------------------------------------------------
(* KInv is kept by each step.                                              *)

LEMMA KeyStep ==
  ASSUME Calm, KInv, NEW k \in Keys, Press(k) \/ Release(k) PROVE KInv'
  <1>1. PICK p \in BOOLEAN : Key(k, p)
    BY DEF Press, Release
  <1>2. TypeOK'
    BY KeyTyped DEF KInv
  <1> DEFINE e == [key |-> k, press |-> p, held |-> down']
  <1>3. e \in Event
    BY <1>2 DEF Event, TypeOK
  <1>4. /\ UNCHANGED <<front, buf, kbd, leaving>>
        /\ down' = IF p THEN down \cup {k} ELSE down \ {k}
        /\ ~leaving /\ \A i \in 1 .. Len(Unseen) : ~SwitchHeld(Unseen[i].held)
    BY <1>1, UnseenType DEF Key, Underway, Calm, Unseen, KInv
  <1>5. CASE ~front
    <2>1. UNCHANGED Unseen /\ Unseen = <<>> /\ Nothing'
      BY <1>1, <1>4, <1>5 DEF Key, Deliver, Unseen, KInv, Nothing, kbd
    <2>2. QED BY <1>2, <1>4, <1>5, <2>1 DEF KInv, Recorded, InStep, Nothing, kbd
  <1>6. CASE front
    <2>1. Unseen' = Append(Unseen, e)
      BY <1>1, <1>3, <1>6, KeyUnseen DEF Key, Deliver, KInv
    <2>2. /\ Unseen \in Seq(Event) /\ Len(Unseen) \in Nat /\ Len(Unseen') = Len(Unseen) + 1
          /\ \A i \in 1 .. Len(Unseen) : Unseen'[i] = Unseen[i]
          /\ Unseen'[Len(Unseen) + 1] = e
          /\ Unseen' # <<>>
      BY <1>3, <2>1, UnseenType DEF KInv
    <2> HIDE DEF e
    <2>3. e.key = k /\ e.press = p /\ e.held = down'
      BY DEF e
    <2>4. Recorded'
      <3>1. \A i \in 1 .. Len(Unseen') : Unseen'[i].press => Unseen'[i].key \in Unseen'[i].held
        BY <1>4, <2>2, <2>3 DEF KInv, Recorded
      <3>2. ASSUME NEW i \in 1 .. Len(Unseen') - 1
            PROVE  Unseen'[i].held \subseteq Before(Unseen'[i + 1])
        <4>1. CASE i < Len(Unseen)
          BY <2>2, <4>1 DEF KInv, Recorded
        <4>2. CASE i = Len(Unseen)
          <5>1. Unseen # <<>>
            BY <2>2, <4>2
          <5>2. Unseen[i].held = down
            BY <4>2, <5>1 DEF KInv, Recorded
          <5>3. down \subseteq Before(e)
            BY <1>4, <2>3 DEF Before
          <5>4. QED BY <2>2, <4>2, <5>2, <5>3
        <4>3. QED BY <2>2, <4>1, <4>2
      <3>3. Unseen'[Len(Unseen')].held = down'
        BY <2>2, <2>3
      <3>4. \A i \in 1 .. Len(Unseen') : SwitchHeld(Unseen'[i].held) => i = Len(Unseen')
        BY <1>4, <2>2
      <3>5. QED BY <3>1, <3>2, <3>3, <3>4 DEF Recorded
    <2>5. Known \subseteq Known'
      <3>1. CASE Unseen = <<>>
        <4>1. Known = down /\ Known' = Before(e)
          BY <2>2, <3>1 DEF Known
        <4>2. QED BY <1>4, <2>3, <4>1 DEF Before
      <3>2. CASE Unseen # <<>>
        <4>1. Unseen'[1] = Unseen[1]
          BY <2>2, <3>2
        <4>2. QED BY <2>2, <3>2, <4>1 DEF Known
      <3>3. QED BY <3>1, <3>2
    <2>6. InStep(Known)'
      BY <1>4, <2>5 DEF KInv, InStep, kbd
    <2>7. QED BY <1>2, <1>4, <1>6, <2>4, <2>6 DEF KInv, kbd
  <1>7. QED BY <1>5, <1>6 DEF KInv, TypeOK

LEMMA HandleStep == ASSUME Calm, KInv, HandleEvent PROVE KInv'
  <1> DEFINE e == Head(buf)
             alt == Follow(alt_state, AltKeys, e)
             win == Follow(win_state, WinKeys, e)
             switches == Switches(alt, win, FunctionKeys(e))
  <1>1. TypeOK'
    BY HandleTyped DEF KInv
  <1>2. /\ e \in Event /\ e = Unseen[1] /\ Len(Unseen) \in Nat \ {0}
        /\ e.press => e.key \in e.held
        /\ Known = Before(e)
    BY FirstEvent DEF HandleEvent
  <1>3. /\ Follow(ctrl_state, ControlKeys, e) => e.held \cap ControlKeys # {}
        /\ alt => e.held \cap AltKeys # {}
        /\ Follow(c_state, {KeyC}, e) => KeyC \in e.held
        /\ ~win
        /\ FunctionKeys(e) \subseteq e.held
        /\ switches => SwitchHeld(e.held)
    BY <1>2, Looked DEF HandleEvent, Calm
  <1>4. /\ front /\ buf # <<>> /\ UNCHANGED <<down, front, queue>>
        /\ ~leaving /\ win_state' = win
    <2>1. Unseen # <<>>
      BY <1>2
    <2>2. QED BY <2>1 DEF HandleEvent, KInv
  <1>5. CASE switches
    <2>1. Cleared /\ leaving' = TRUE /\ buf' = <<>>
      BY <1>5 DEF HandleEvent
    <2>2. Len(Unseen) = 1
      <3>1. 1 \in 1 .. Len(Unseen) /\ SwitchHeld(Unseen[1].held)
        BY <1>2, <1>3, <1>5
      <3>2. QED BY <3>1 DEF KInv, Recorded
    <2>3. Unseen' = <<>>
      BY <1>4, <2>1, <2>2 DEF Unseen, KInv, TypeOK
    <2>4. Nothing'
      BY <2>1 DEF Cleared, Nothing
    <2>5. QED BY <1>1, <1>3, <1>4, <2>1, <2>3, <2>4 DEF KInv, Recorded, InStep, Nothing
  <1>6. CASE ~switches
    <2>1. /\ ctrl_state' = Follow(ctrl_state, ControlKeys, e) /\ alt_state' = alt
          /\ c_state' = Follow(c_state, {KeyC}, e) /\ functionkey_state' = FunctionKeys(e)
          /\ default_handler(e) /\ UNCHANGED leaving /\ buf' = Tail(buf)
      BY <1>6 DEF HandleEvent
    <2>2. Unseen' = Tail(Unseen)
      BY <1>4, <2>1, HandleUnseen DEF KInv
    <2>3. /\ Unseen \in Seq(Event) /\ Unseen # <<>> /\ Len(Unseen') = Len(Unseen) - 1
          /\ \A i \in 1 .. Len(Unseen) - 1 : Unseen'[i] = Unseen[i + 1]
      BY <1>2, <2>2, UnseenType DEF KInv
    <2>4. Recorded'
      <3>1. \A i \in 1 .. Len(Unseen') : Unseen'[i].press => Unseen'[i].key \in Unseen'[i].held
        BY <1>2, <2>3 DEF KInv, Recorded
      <3>2. ASSUME NEW i \in 1 .. Len(Unseen') - 1
            PROVE  Unseen'[i].held \subseteq Before(Unseen'[i + 1])
        <4>1. /\ i + 1 \in 1 .. Len(Unseen) - 1
              /\ Unseen'[i] = Unseen[i + 1] /\ Unseen'[i + 1] = Unseen[(i + 1) + 1]
          BY <1>2, <2>3
        <4>2. QED BY <4>1 DEF KInv, Recorded
      <3>3. Unseen' # <<>> => Unseen'[Len(Unseen')].held = down'
        <4>1. SUFFICES ASSUME Unseen' # <<>> PROVE Unseen'[Len(Unseen')] = Unseen[Len(Unseen)]
          BY <1>4, <2>3 DEF KInv, Recorded
        <4>2. Unseen' \in Seq(Event)
          BY <1>1, UnseenType DEF Unseen, TypeOK
        <4>3. Len(Unseen') \in 1 .. Len(Unseen) - 1
          BY <1>2, <2>3, <4>1, <4>2
        <4>4. QED BY <1>2, <2>3, <4>3
      <3>4. \A i \in 1 .. Len(Unseen') : SwitchHeld(Unseen'[i].held) => i = Len(Unseen')
        <4>1. SUFFICES ASSUME NEW i \in 1 .. Len(Unseen'), SwitchHeld(Unseen'[i].held)
                       PROVE  i = Len(Unseen')
          OBVIOUS
        <4>2. i + 1 \in 1 .. Len(Unseen) /\ SwitchHeld(Unseen[i + 1].held)
          BY <1>2, <2>3, <4>1
        <4>3. i + 1 = Len(Unseen)
          BY <4>2 DEF KInv, Recorded
        <4>4. QED BY <1>2, <2>3, <4>3
      <3>5. QED BY <3>1, <3>2, <3>3, <3>4 DEF Recorded
    <2>5. e.held \subseteq Known'
      <3>1. CASE Len(Unseen) = 1
        <4>1. Unseen' = <<>>
          BY <1>1, <2>3, <3>1, UnseenType DEF Unseen, TypeOK
        <4>2. e.held = down
          BY <1>2, <2>3, <3>1 DEF KInv, Recorded
        <4>3. QED BY <1>4, <4>1, <4>2 DEF Known
      <3>2. CASE Len(Unseen) > 1
        <4>1. Unseen' # <<>> /\ Unseen'[1] = Unseen[2]
          BY <1>2, <2>3, <3>2
        <4>2. e.held \subseteq Before(Unseen[2])
          BY <1>2, <3>2 DEF KInv, Recorded
        <4>3. QED BY <4>1, <4>2 DEF Known
      <3>3. Len(Unseen) = 1 \/ Len(Unseen) > 1
        <4>1. Len(Unseen) \in Nat \ {0}
          BY FirstEvent DEF HandleEvent
        <4> HIDE DEF e, alt, win, switches
        <4>2. \A n \in Nat \ {0} : n = 1 \/ n > 1
          OBVIOUS
        <4>3. QED BY <4>1, <4>2, Zenon
      <3>4. QED BY <3>1, <3>2, <3>3
    <2>6. \A s \in state' : \E k \in e.held : s \in Reported(k)
      BY <1>2, <2>1, TableHeld DEF KInv, InStep
    <2>7. InStep(Known)'
      BY <1>3, <2>1, <2>5, <2>6 DEF InStep, Reported
    <2>8. QED BY <1>1, <1>3, <1>4, <2>1, <2>4, <2>7 DEF KInv
  <1>7. QED BY <1>5, <1>6

LEMMA OtherStep ==
  ASSUME Calm, KInv, Leave \/ Return \/ Read \/ keyboard_clearstate \/ UNCHANGED vars
  PROVE  KInv'
  <1>1. TypeOK'
    BY TypeStep DEF KInv, Next
  <1>2. CASE Read
    <2>1. Unseen' = Unseen /\ UNCHANGED <<down, front, kbd, leaving>>
      BY <1>2, ReadUnseen DEF KInv, Read
    <2>2. QED BY <1>1, <2>1 DEF KInv, Recorded, InStep, Nothing, Known, kbd
  <1>3. CASE Leave \/ Return
    <2>1. /\ UNCHANGED <<down, buf, queue, kbd>> /\ Unseen = <<>> /\ Nothing
          /\ ~leaving'
      BY <1>3 DEF Leave, Return, Calm, KInv
    <2>2. Unseen' = <<>> /\ Nothing'
      BY <2>1 DEF Unseen, Nothing, kbd
    <2>3. QED BY <1>1, <2>1, <2>2 DEF KInv, Recorded, InStep, Nothing, kbd
  <1>4. CASE keyboard_clearstate
    <2>1. UNCHANGED <<down, buf, queue, front, win_state, leaving>> /\ Nothing'
      BY <1>4 DEF keyboard_clearstate, Cleared, Nothing
    <2>2. Unseen' = Unseen
      BY <2>1 DEF Unseen
    <2>3. QED BY <1>1, <2>1, <2>2 DEF KInv, Recorded, InStep, Nothing
  <1>5. CASE UNCHANGED vars
    <2>1. UNCHANGED <<down, buf, queue, front, kbd, leaving>>
      BY <1>5 DEF vars
    <2>2. Unseen' = Unseen
      BY <2>1 DEF Unseen
    <2>3. QED BY <1>1, <2>1, <2>2 DEF KInv, Recorded, InStep, Nothing, Known, kbd
  <1>6. QED BY <1>2, <1>3, <1>4, <1>5

LEMMA KInductive == ASSUME Calm PROVE Spec => []KInv
  <1>1. KInv /\ [Next]_vars => KInv'
    BY KeyStep, HandleStep, OtherStep DEF Next
  <1>2. QED BY <1>1, InitKInv, PTL DEF Spec

(***************************************************************************)
(* A program that has read what there is to read is never told that a key  *)
(* is pressed that is not, through any number of console switches.         *)
(***************************************************************************)
THEOREM NothingSticks == ASSUME Calm PROVE Spec => []NoStuckKey
  <1>1. KInv => NoStuckKey
    BY DEF KInv, NoStuckKey, Unseen, Known, InStep
  <1>2. QED BY <1>1, KInductive, PTL

(***************************************************************************)
(* The console is switched only by an event that leaves the keys for it    *)
(* held, and SIGINT raised only by one that leaves Control and C held.     *)
(***************************************************************************)
THEOREM NothingUnasked == ASSUME Calm PROVE Spec => Deliberate
  <1> DEFINE A == /\ leaving' /\ ~leaving => SwitchHeld(Head(buf).held)
                  /\ interrupted' /\ buf' # buf /\ buf # <<>> =>
                       KeyC \in Head(buf).held /\ Head(buf).held \cap ControlKeys # {}
  <1>1. KInv /\ [Next]_vars => [A]_vars
    <2> SUFFICES ASSUME KInv, Next PROVE A
      OBVIOUS
    <2>1. CASE HandleEvent
      <3> DEFINE e == Head(buf)
      <3>1. e \in Event /\ buf # <<>>
        BY <2>1, FirstEvent DEF HandleEvent
      <3>2. /\ Follow(ctrl_state, ControlKeys, e) => e.held \cap ControlKeys # {}
            /\ Follow(c_state, {KeyC}, e) => KeyC \in e.held
            /\ Switches(Follow(alt_state, AltKeys, e), Follow(win_state, WinKeys, e),
                        FunctionKeys(e)) => SwitchHeld(e.held)
        BY <3>1, Looked DEF Calm
      <3>3. \/ Switches(Follow(alt_state, AltKeys, e), Follow(win_state, WinKeys, e),
                        FunctionKeys(e))
            \/ UNCHANGED leaving
        BY <2>1 DEF HandleEvent
      <3>4. interrupted' = (/\ Follow(ctrl_state, ControlKeys, e)
                            /\ Follow(c_state, {KeyC}, e) /\ "catch C" \in Mode)
        BY <2>1, Zenon DEF HandleEvent
      <3> HIDE DEF e
      <3>5. leaving' /\ ~leaving => SwitchHeld(e.held)
        BY <3>2, <3>3, Zenon
      <3>6. interrupted' => KeyC \in e.held /\ e.held \cap ControlKeys # {}
        BY <3>2, <3>4, Zenon
      <3>7. QED BY <3>5, <3>6, Zenon DEF e
    <2>2. CASE \E k \in Keys : Press(k) \/ Release(k)
      BY <2>2 DEF Press, Release, Key
    <2>3. CASE Leave \/ Return \/ keyboard_clearstate
      BY <2>3 DEF Leave, Return, keyboard_clearstate
    <2>4. CASE Read
      BY <2>4 DEF Read
    <2>5. QED BY <2>1, <2>2, <2>3, <2>4 DEF Next
  <1>2. QED BY <1>1, KInductive, PTL DEF Spec, Deliberate

-----------------------------------------------------------------------------
(* The cursor: what a driver does to its card.                             *)

Pictured == Images \cup {NoImage}
Hw(d) ==
  [regs : [Units(d) -> BOOLEAN], mem : [Slots(d, Cur) -> Pictured], colors : Pictured]
Addressed(h, d, c) ==
  d.address = {} \/ BitsOf(d.slot[c]) = Number(h, d.address) \cup d.fixed

(* What else a card's registers say stays as it is.                        *)
SameOn(g, h, units) == \A u \in units : g.regs[u] = h.regs[u]

LEMMA NumberSame ==
  ASSUME NEW g, NEW h, NEW placement, SameOn(g, h, Targets(placement))
  PROVE  Number(g, placement) = Number(h, placement)
  BY DEF SameOn, Targets, Number

LEMMA AtSame ==
  ASSUME NEW d, NEW g, NEW h, SameOn(g, h, Targets(d.x) \cup Targets(d.y)), NEW p
  PROVE  At(g, d, p) <=> At(h, d, p)
  <1>1. SameOn(g, h, Targets(d.x)) /\ SameOn(g, h, Targets(d.y))
    BY DEF SameOn
  <1>2. Number(g, d.x) = Number(h, d.x) /\ Number(g, d.y) = Number(h, d.y)
    BY <1>1, NumberSame
  <1>3. QED BY <1>2 DEF At

LEMMA AddressedSame ==
  ASSUME NEW d, NEW g, NEW h, SameOn(g, h, Targets(d.address)), NEW c
  PROVE  Addressed(g, d, c) <=> Addressed(h, d, c)
  BY NumberSame DEF Addressed

LEMMA ShowsSame ==
  ASSUME NEW d, NEW g, NEW h, SameOn(g, h, d.enable)
  PROVE  Shows(g, d) = Shows(h, d)
  BY DEF SameOn, Shows

LEMMA WrittenRegs ==
  ASSUME NEW d, NEW h \in Hw(d), NEW placement, NEW num
  PROVE  /\ Written(h, placement, num) \in Hw(d)
         /\ Written(h, placement, num).mem = h.mem
         /\ Written(h, placement, num).colors = h.colors
         /\ SameOn(Written(h, placement, num), h, Units(d) \ Targets(placement))
         /\ \A u \in Units(d) \cap Targets(placement) :
              Written(h, placement, num).regs[u] <=> u \in Ones(placement, BitsOf(num))
  <1> DEFINE g == Written(h, placement, num)
             r == [u \in Units(d) |-> IF u \in Targets(placement)
                                      THEN u \in Ones(placement, BitsOf(num)) ELSE h.regs[u]]
  <1>1. DOMAIN h.regs = Units(d)
    BY DEF Hw
  <1>2. g = [h EXCEPT !.regs = r]
    BY <1>1 DEF Written
  <1>3. r \in [Units(d) -> BOOLEAN]
    <2>1. h.regs \in [Units(d) -> BOOLEAN]
      BY DEF Hw
    <2>2. \A u \in Units(d) : (u \in Ones(placement, BitsOf(num))) \in BOOLEAN
      OBVIOUS
    <2>3. \A u \in Units(d) : (IF u \in Targets(placement)
                             THEN u \in Ones(placement, BitsOf(num)) ELSE h.regs[u]) \in BOOLEAN
      BY <2>1, <2>2
    <2>4. QED BY <2>3, Zenon
  <1> HIDE DEF r
  <1>4. g \in Hw(d) /\ g.mem = h.mem /\ g.colors = h.colors /\ g.regs = r
    BY <1>2, <1>3 DEF Hw
  <1>5. QED BY <1>4 DEF SameOn, r

LEMMA WrittenNumber ==
  ASSUME NEW d, NEW h \in Hw(d), NEW placement, NEW num,
         Targets(placement) \subseteq Units(d), Unmixed(placement)
  PROVE  Number(Written(h, placement, num), placement) = BitsOf(num) \cap Carries(placement)
  <1> DEFINE g == Written(h, placement, num)
  <1>1. \A p \in placement : g.regs[p[2]] <=> p[2] \in Ones(placement, BitsOf(num))
    <2>1. TAKE p \in placement
    <2>2. p[2] \in Units(d) \cap Targets(placement)
      BY DEF Targets
    <2>3. \A u \in Units(d) \cap Targets(placement) :
            g.regs[u] <=> u \in Ones(placement, BitsOf(num))
      BY WrittenRegs, Zenon
    <2>4. QED BY <2>2, <2>3, Zenon
  <1>2. \A p \in placement : p[2] \in Ones(placement, BitsOf(num)) <=> p[1] = -2 \/ p[1] \in BitsOf(num)
    BY DEF Ones, Unmixed
  <1>3. \A k \in BitsOf(num) : k >= 0 /\ k \in Int
    BY DEF BitsOf
  <1>4. Number(g, placement) = {p[1] : p \in {q \in placement : q[1] >= 0 /\ (q[1] = -2 \/ q[1] \in BitsOf(num))}}
    BY <1>1, <1>2 DEF Number
  <1>5. QED BY <1>3, <1>4 DEF Carries

(* The driver's functions.                                                 *)

Targeted(d) == Targets(d.x) \cup Targets(d.y) \cup Targets(d.address)
Fits(d, p) ==
  /\ BitsOf(p[1] + d.offset) \subseteq Carries(d.x)
  /\ BitsOf(p[2] + d.offset) \subseteq Carries(d.y)

LEMMA PlacedIs ==
  ASSUME NEW d, NEW C, NEW S, Apt(d, C, S), NEW h \in Hw(d), NEW p, Fits(d, p)
  PROVE  /\ Placed(h, d, p) \in Hw(d)
         /\ Placed(h, d, p).mem = h.mem /\ Placed(h, d, p).colors = h.colors
         /\ At(Placed(h, d, p), d, p)
         /\ SameOn(Placed(h, d, p), h, Targets(d.address) \cup d.enable)
  <1> DEFINE g == Written(h, d.x, p[1] + d.offset)
             f == Written(g, d.y, p[2] + d.offset)
  <1>0. Placed(h, d, p) = f
    BY DEF Placed
  <1>1. /\ g \in Hw(d) /\ g.mem = h.mem /\ g.colors = h.colors
        /\ SameOn(g, h, Units(d) \ Targets(d.x))
    BY WrittenRegs
  <1>2. /\ f \in Hw(d) /\ f.mem = g.mem /\ f.colors = g.colors
        /\ SameOn(f, g, Units(d) \ Targets(d.y))
    BY <1>1, WrittenRegs
  <1>3. Targets(d.x) \subseteq Units(d) /\ Targets(d.y) \subseteq Units(d)
    BY DEF Units
  <1>u. Unmixed(d.x) /\ Unmixed(d.y)
    BY DEF Apt
  <1>4. Number(g, d.x) = BitsOf(p[1] + d.offset)
    <2>1. Number(g, d.x) = BitsOf(p[1] + d.offset) \cap Carries(d.x)
      BY <1>3, <1>u, WrittenNumber
    <2>2. QED BY <2>1 DEF Fits
  <1>5. Number(f, d.y) = BitsOf(p[2] + d.offset)
    <2>1. Number(f, d.y) = BitsOf(p[2] + d.offset) \cap Carries(d.y)
      BY <1>1, <1>3, <1>u, WrittenNumber
    <2>2. QED BY <2>1 DEF Fits
  <1>6. Targets(d.x) \subseteq Units(d) \ Targets(d.y)
    BY <1>3 DEF Apt, Apart
  <1>7. Number(f, d.x) = Number(g, d.x)
    BY <1>2, <1>6, NumberSame DEF SameOn
  <1>8. At(f, d, p)
    BY <1>4, <1>5, <1>7 DEF At
  <1>9. Targets(d.address) \cup d.enable \subseteq Units(d) \ (Targets(d.x) \cup Targets(d.y))
    BY DEF Apt, Apart, Units
  <1>10. SameOn(f, h, Targets(d.address) \cup d.enable)
    BY <1>1, <1>2, <1>9 DEF SameOn
  <1>11. QED BY <1>0, <1>1, <1>2, <1>8, <1>10

LEMMA EnabledIs ==
  ASSUME NEW d, NEW C, NEW S, Apt(d, C, S), NEW h \in Hw(d), NEW show \in 0..1
  PROVE  /\ Enabled(h, d, show) \in Hw(d)
         /\ Enabled(h, d, show).mem = h.mem /\ Enabled(h, d, show).colors = h.colors
         /\ Shows(Enabled(h, d, show), d) = show
         /\ SameOn(Enabled(h, d, show), h, Targeted(d))
  <1> DEFINE g == Enabled(h, d, show)
             r == [u \in Units(d) |-> IF u \in d.enable THEN show = 1 ELSE h.regs[u]]
  <1>1. g = [h EXCEPT !.regs = r]
    <2>1. DOMAIN h.regs = Units(d)
      BY DEF Hw
    <2>2. QED BY <2>1 DEF Enabled
  <1>2. r \in [Units(d) -> BOOLEAN]
    BY DEF Hw
  <1>3. g \in Hw(d) /\ g.mem = h.mem /\ g.colors = h.colors /\ g.regs = r
    BY <1>1, <1>2 DEF Hw
  <1>4. \A u \in d.enable : r[u] = (show = 1)
    BY DEF Units
  <1>5. Shows(g, d) = show
    <2>1. PICK u \in d.enable : TRUE
      BY DEF Apt
    <2>2. \A v \in d.enable : g.regs[v] = (show = 1)
      BY <1>3, <1>4
    <2>3. (\A v \in d.enable : g.regs[v]) <=> show = 1
      BY <2>1, <2>2
    <2>4. QED BY <2>3 DEF Shows
  <1>6. Targeted(d) \subseteq Units(d) \ d.enable
    BY DEF Targeted, Units, Apt, Apart
  <1>7. SameOn(g, h, Targeted(d))
    BY <1>3, <1>6 DEF SameOn
  <1>8. QED BY <1>3, <1>5, <1>7

Selects(d, h, o, c, g) ==
  /\ g \in Hw(d)
  /\ g.mem = IF d.images = "at once" THEN h.mem ELSE [h.mem EXCEPT ![d.slot[c]] = o[c]]
  /\ g.colors = o[c]
  /\ Addressed(g, d, c)
  /\ SameOn(g, h, Targets(d.x) \cup Targets(d.y) \cup d.enable)

LEMMA SelectedIs ==
  ASSUME NEW d, NEW S, Apt(d, Cur, S), NEW h \in Hw(d), NEW o \in [Cur -> Pictured],
         NEW c \in Cur
  PROVE  Selects(d, h, o, c, Selected(h, d, o, c))
  <1> DEFINE s == Written(h, d.address, d.base[c])
             m == IF d.images = "at once" THEN h.mem ELSE [h.mem EXCEPT ![d.slot[c]] = o[c]]
             g == Selected(h, d, o, c)
  <1>1. /\ s \in Hw(d) /\ s.mem = h.mem /\ s.colors = h.colors
        /\ SameOn(s, h, Units(d) \ Targets(d.address))
    BY WrittenRegs
  <1>2. g = [s EXCEPT !.colors = o[c],
                      !.mem[d.slot[c]] = IF d.images = "at once" THEN @ ELSE o[c]]
    BY DEF Selected
  <1>3. d.slot[c] \in Slots(d, Cur)
    BY DEF Slots
  <1>4. m \in [Slots(d, Cur) -> Pictured]
    BY <1>3 DEF Hw
  <1>5. g = [regs |-> s.regs, mem |-> m, colors |-> o[c]]
    <2>1. s = [regs |-> s.regs, mem |-> s.mem, colors |-> s.colors]
      BY <1>1 DEF Hw
    <2>2. s.mem \in [Slots(d, Cur) -> Pictured]
      BY <1>1 DEF Hw
    <2>3. CASE d.images = "at once"
      <3>1. [s.mem EXCEPT ![d.slot[c]] = s.mem[d.slot[c]]] = s.mem
        BY <1>3, <2>2
      <3>2. QED BY <1>1, <1>2, <2>1, <2>3, <3>1
    <2>4. CASE d.images # "at once"
      BY <1>1, <1>2, <2>1, <2>4
    <2>5. QED BY <2>3, <2>4
  <1>6. s.regs \in [Units(d) -> BOOLEAN]
    BY <1>1 DEF Hw
  <1>o. o[c] \in Pictured
    OBVIOUS
  <1> HIDE DEF m, s, g
  <1>7. g \in Hw(d) /\ g.mem = m /\ g.colors = o[c] /\ g.regs = s.regs
    BY <1>4, <1>5, <1>6, <1>o DEF Hw
  <1>8. Number(s, d.address) = BitsOf(d.base[c]) \cap Carries(d.address)
    <2>1. Targets(d.address) \subseteq Units(d)
      BY DEF Units
    <2>2. Unmixed(d.address)
      BY DEF Apt
    <2>3. QED BY <2>1, <2>2, WrittenNumber DEF s
  <1>s. s = Written(h, d.address, d.base[c]) /\ g = Selected(h, d, o, c) /\ m = IF d.images = "at once" THEN h.mem ELSE [h.mem EXCEPT ![d.slot[c]] = o[c]]
    BY DEF s, g, m
  <1>9. Number(g, d.address) = Number(s, d.address)
    <2>1. SameOn(g, s, Targets(d.address))
      BY <1>7 DEF SameOn
    <2>2. QED BY <2>1, NumberSame
  <1>10. Addressed(g, d, c)
    BY <1>8, <1>9 DEF Addressed, Apt
  <1>11. Targets(d.x) \cup Targets(d.y) \cup d.enable \subseteq Units(d) \ Targets(d.address)
    BY DEF Units, Apt, Apart
  <1>12. SameOn(g, h, Targets(d.x) \cup Targets(d.y) \cup d.enable)
    BY <1>1, <1>7, <1>11 DEF SameOn
  <1>13. QED BY <1>7, <1>10, <1>12, <1>s DEF Selects

(* Induction, for a set of numbers.                                        *)
LEMMA Upward ==
  ASSUME NEW S, S \subseteq Nat, 0 \in S, \A k \in S : k + 1 \in S
  PROVE  S = Nat
  <1>1. SUFFICES ASSUME Nat \ S # {} PROVE FALSE
    OBVIOUS
  <1> DEFINE R == OpToRel(<, Nat)
  <1>2. \A x, y \in Nat : y < x => <<y, x>> \in R
    BY Zenon DEF OpToRel
  <1>3. IsWellFoundedOn(R, Nat)
    BY NatLessThanWellFounded, Zenon
  <1> HIDE DEF R
  <1>4. PICK x \in Nat \ S : \A y \in Nat \ S : ~ (<<y, x>> \in R)
    BY <1>1, <1>3, WFMin, Zenon
  <1>5. x # 0 /\ x - 1 \in Nat /\ x - 1 < x
    BY <1>4
  <1>6. x - 1 \in S
    BY <1>2, <1>4, <1>5
  <1> QED BY <1>4, <1>5, <1>6

(* The restore fills the cursors one after the other.                      *)
LEMMA FillingUnfolds ==
  ASSUME NEW h, NEW kept
  PROVE  \E g : /\ g[0] = h
                /\ \A k \in 1..16 : g[k] = Refilled(g[k - 1], kept, k - 1)
                /\ AllFilled(h, kept) = g[16]
  <1> DEFINE Def(g, m) == [k \in 0..m |-> IF k = 0 THEN h ELSE Refilled(g[k - 1], kept, k - 1)]
             S == {m \in Nat : \E g : g = Def(g, m)}
             f == CHOOSE g : g = Def(g, 16)
  <1>1. AllFilled(h, kept) = f[16]
    BY DEF AllFilled
  <1>2. 0 \in S
    <2> DEFINE g == [k \in 0..0 |-> h]
    <2>1. g = Def(g, 0)
      OBVIOUS
    <2> QED BY <2>1
  <1>3. ASSUME NEW m \in S PROVE m + 1 \in S
    <2>1. PICK g : g = Def(g, m)
      OBVIOUS
    <2>2. m \in Nat
      OBVIOUS
    <2> DEFINE e == [k \in 0..(m + 1) |-> IF k = m + 1 THEN Refilled(g[m], kept, m) ELSE g[k]]
    <2>3. ASSUME NEW k \in 0..(m + 1)
          PROVE  e[k] = IF k = 0 THEN h ELSE Refilled(e[k - 1], kept, k - 1)
      <3>1. CASE k = m + 1
        BY <2>2, <3>1
      <3>2. CASE k # m + 1
        <4>1. k \in 0..m /\ e[k] = g[k] /\ (k # 0 => e[k - 1] = g[k - 1])
          BY <2>2, <3>2
        <4>2. g[k] = IF k = 0 THEN h ELSE Refilled(g[k - 1], kept, k - 1)
          BY <2>1, <4>1, Zenon
        <4> QED BY <4>1, <4>2
      <3> QED BY <3>1, <3>2
    <2>4. e = [k \in 0..(m + 1) |-> IF k = 0 THEN h ELSE Refilled(e[k - 1], kept, k - 1)]
      BY <2>3
    <2> HIDE DEF e
    <2>5. \E g2 : g2 = Def(g2, m + 1)
      BY <2>4, Zenon
    <2> QED BY <2>2, <2>5
  <1> HIDE DEF S
  <1>4. S = Nat
    <2>1. S \subseteq Nat
      BY DEF S
    <2> QED BY <1>2, <1>3, <2>1, Upward
  <1>5. \E g : g = Def(g, 16)
    BY <1>4 DEF S
  <1>6. f = Def(f, 16)
    BY <1>5, Zenon
  <1> HIDE DEF f
  <1>7. f[0] = h
    BY <1>6
  <1>8. ASSUME NEW k \in 1..16 PROVE f[k] = Refilled(f[k - 1], kept, k - 1)
    <2>1. k \in 0..16 /\ k # 0
      OBVIOUS
    <2>2. f[k] = Def(f, 16)[k]
      BY <1>6, Zenon
    <2> QED BY <2>1, <2>2
  <1> QED BY <1>1, <1>7, <1>8

(* So do the steps of a call of the software cursor.                       *)
Unfolds(s, steps, image) ==
  \E g : /\ g[0] = s
         /\ \A k \in 1..Len(steps) : g[k] = SoftwareStep(g[k - 1], steps[k], image)
         /\ After(s, steps, image) = g[Len(steps)]

LEMMA AfterUnfolds ==
  ASSUME NEW s, NEW steps, NEW image, Len(steps) \in Nat
  PROVE  Unfolds(s, steps, image)
  <1> USE DEF Unfolds
  <1> DEFINE Def(g, m) == [k \in 0..m |-> IF k = 0 THEN s ELSE SoftwareStep(g[k - 1], steps[k], image)]
             S == {m \in Nat : \E g : g = Def(g, m)}
             length == Len(steps)
             f == CHOOSE g : g = Def(g, length)
  <1>1. After(s, steps, image) = f[length]
    BY DEF After
  <1>2. 0 \in S
    <2> DEFINE g == [k \in 0..0 |-> s]
    <2>1. g = Def(g, 0)
      OBVIOUS
    <2> QED BY <2>1
  <1>3. ASSUME NEW m \in S PROVE m + 1 \in S
    <2>1. PICK g : g = Def(g, m)
      OBVIOUS
    <2>2. m \in Nat
      OBVIOUS
    <2> DEFINE e == [k \in 0..(m + 1) |-> IF k = m + 1 THEN SoftwareStep(g[m], steps[m + 1], image) ELSE g[k]]
    <2>3. ASSUME NEW k \in 0..(m + 1)
          PROVE  e[k] = IF k = 0 THEN s ELSE SoftwareStep(e[k - 1], steps[k], image)
      <3>1. CASE k = m + 1
        BY <2>2, <3>1
      <3>2. CASE k # m + 1
        <4>1. k \in 0..m /\ e[k] = g[k] /\ (k # 0 => e[k - 1] = g[k - 1])
          BY <2>2, <3>2
        <4>2. g[k] = IF k = 0 THEN s ELSE SoftwareStep(g[k - 1], steps[k], image)
          BY <2>1, <4>1, Zenon
        <4> QED BY <4>1, <4>2
      <3> QED BY <3>1, <3>2
    <2>4. e = [k \in 0..(m + 1) |-> IF k = 0 THEN s ELSE SoftwareStep(e[k - 1], steps[k], image)]
      BY <2>3
    <2> HIDE DEF e
    <2>5. \E g2 : g2 = Def(g2, m + 1)
      BY <2>4, Zenon
    <2>6. m + 1 \in Nat
      BY <2>2
    <2> QED BY <2>5, <2>6, Zenon
  <1> HIDE DEF S
  <1>4. S = Nat
    <2>1. S \subseteq Nat
      BY DEF S
    <2> QED BY <1>2, <1>3, <2>1, Upward
  <1>5. \E g : g = Def(g, length)
    BY <1>4 DEF S
  <1>6. f = Def(f, length)
    BY <1>5, Zenon
  <1> HIDE DEF f
  <1>7. f[0] = s
    BY <1>6
  <1>8. ASSUME NEW k \in 1..length PROVE f[k] = SoftwareStep(f[k - 1], steps[k], image)
    <2>1. k \in 0..length /\ k # 0
      OBVIOUS
    <2>2. f[k] = Def(f, length)[k]
      BY <1>6, Zenon
    <2> QED BY <2>1, <2>2
  <1> QED BY <1>1, <1>7, <1>8

(* The restore fills the places of all cursors that have an image.         *)
Fills(d, h, o, c, g) ==
  /\ g \in Hw(d)
  /\ SameOn(g, h, Targets(d.x) \cup Targets(d.y) \cup d.enable)
  /\ d.images = "at once" =>
       /\ g.mem = [h.mem EXCEPT ![d.slot[c]] = o[c]]
       /\ g.colors = h.colors
       /\ SameOn(g, h, Targets(d.address))
  /\ d.images = "selected" => g = h
  /\ d.images = "at both" => Selects(d, h, o, c, g)

LEMMA FilledIs ==
  ASSUME NEW d, NEW S, Apt(d, Cur, S), NEW h \in Hw(d), NEW o \in [Cur -> Pictured], NEW c \in Cur
  PROVE  Fills(d, h, o, c, Filled(h, d, o, c))
  <1> DEFINE g == Filled(h, d, o, c)
  <1>1. CASE d.images = "at once"
    <2>1. g = [h EXCEPT !.mem[d.slot[c]] = o[c]]
      BY <1>1, Zenon DEF Filled
    <2>2. d.slot[c] \in Slots(d, Cur)
      BY DEF Slots
    <2>3. o[c] \in Pictured
      OBVIOUS
    <2> HIDE DEF g
    <2>r. h = [regs |-> h.regs, mem |-> h.mem, colors |-> h.colors]
      BY DEF Hw
    <2>s. g = [regs |-> h.regs, mem |-> [h.mem EXCEPT ![d.slot[c]] = o[c]], colors |-> h.colors]
      BY <2>1, <2>r
    <2>4. /\ g \in Hw(d) /\ g.mem = [h.mem EXCEPT ![d.slot[c]] = o[c]]
          /\ g.colors = h.colors /\ g.regs = h.regs
      BY <2>2, <2>3, <2>s DEF Hw
    <2>5. QED BY <1>1, <2>4 DEF SameOn, Fills, g
  <1>2. CASE d.images = "selected"
    <2>1. Filled(h, d, o, c) = h
      BY <1>2, Zenon DEF Filled
    <2>2. QED BY <1>2, <2>1 DEF SameOn, Fills
  <1>3. CASE d.images = "at both"
    <2>1. g = Selected(h, d, o, c)
      BY <1>3, Zenon DEF Filled
    <2> HIDE DEF g
    <2>2. Selects(d, h, o, c, g)
      BY <2>1, SelectedIs
    <2>3. QED BY <1>3, <2>2 DEF Fills, Selects, g
  <1>4. QED BY <1>1, <1>2, <1>3 DEF Apt

(* One cursor at most has an image, where an image is also shown at once.  *)
Lone(d) ==
  d.images = "at both" =>
    \A c, e \in Cur : cursors[c] # NoImage /\ cursors[e] # NoImage => c = e

Refills(d, h, kept, g, m) ==
  /\ g \in Hw(d)
  /\ SameOn(g, h, Targets(d.x) \cup Targets(d.y) \cup d.enable)
  /\ d.images = "at once" =>
       /\ \A c \in Cur : g.mem[d.slot[c]] =
                           IF c < m /\ cursors[c] # NoImage THEN kept[c] ELSE h.mem[d.slot[c]]
       /\ g.colors = h.colors
       /\ SameOn(g, h, Targets(d.address))
  /\ d.images = "selected" => g = h
  /\ d.images = "at both" =>
       \A c \in Cur : c < m /\ cursors[c] # NoImage =>
         /\ g.mem[d.slot[c]] = kept[c] /\ g.colors = kept[c] /\ Addressed(g, d, c)

LEMMA RefilledStep ==
  ASSUME NEW d, d = Hardware, NEW S, Apt(d, Cur, S), NEW h \in Hw(d),
         NEW kept \in [Cur -> Pictured], NEW m \in 0..15,
         Lone(d),
         NEW g, Refills(d, h, kept, g, m)
  PROVE  Refills(d, h, kept, Refilled(g, kept, m), m + 1)
  <1> DEFINE f == Refilled(g, kept, m)
  <1>0. Cur \subseteq 0..15
    BY CursorAssumption DEF Numbers
  <1>1. CASE m \in Cur /\ cursors[m] # NoImage
    <2>1. f = Filled(g, d, kept, m)
      BY <1>1 DEF Refilled
    <2>2. g \in Hw(d)
      BY DEF Refills
    <2>3. Fills(d, g, kept, m, f)
      BY <1>1, <2>1, <2>2, FilledIs
    <2> SUFFICES Refills(d, h, kept, f, m + 1)
      OBVIOUS
    <2> HIDE DEF f
    <2>4. SameOn(f, h, Targets(d.x) \cup Targets(d.y) \cup d.enable)
      BY <2>3 DEF Fills, Refills, SameOn
    <2>5. CASE d.images = "at once"
      <3>1. SameOn(f, h, Targets(d.address)) /\ f.colors = h.colors
        BY <2>3, <2>5 DEF Fills, Refills, SameOn
      <3>2. ASSUME NEW c \in Cur
            PROVE  f.mem[d.slot[c]] =
                     IF c < m + 1 /\ cursors[c] # NoImage THEN kept[c] ELSE h.mem[d.slot[c]]
        <4>1. d.slot[c] \in Slots(d, Cur) /\ g.mem \in [Slots(d, Cur) -> Pictured]
          BY <2>2 DEF Slots, Hw
        <4>2. d.slot[c] = d.slot[m] => c = m
          BY <1>1, <2>5 DEF Apt
        <4>3. f.mem[d.slot[c]] = IF c = m THEN kept[m] ELSE g.mem[d.slot[c]]
          BY <2>3, <2>5, <4>1, <4>2 DEF Fills
        <4>4. g.mem[d.slot[c]] =
                IF c < m /\ cursors[c] # NoImage THEN kept[c] ELSE h.mem[d.slot[c]]
          BY <2>5 DEF Refills
        <4>5. c \in 0..15
          BY <1>0
        <4>6. CASE c = m
          BY <1>1, <4>3, <4>6
        <4>7. CASE c # m
          <5>1. c < m + 1 <=> c < m
            BY <4>5, <4>7
          <5>2. QED BY <4>3, <4>4, <4>7, <5>1
        <4>8. QED BY <4>6, <4>7
      <3>3. QED BY <2>3, <2>4, <2>5, <3>1, <3>2 DEF Refills, Fills
    <2>6. CASE d.images = "selected"
      BY <2>3, <2>4, <2>6 DEF Refills, Fills
    <2>7. CASE d.images = "at both"
      <3>1. ASSUME NEW c \in Cur, c < m + 1, cursors[c] # NoImage
            PROVE  /\ f.mem[d.slot[c]] = kept[c] /\ f.colors = kept[c] /\ Addressed(f, d, c)
        <4>1. c = m
          BY <1>1, <2>7, <3>1, Zenon DEF Lone
        <4>2. d.slot[c] \in Slots(d, Cur) /\ g.mem \in [Slots(d, Cur) -> Pictured]
          BY <2>2 DEF Slots, Hw
        <4>3. Selects(d, g, kept, m, f)
          BY <2>3, <2>7 DEF Fills
        <4>4. QED BY <2>7, <4>1, <4>2, <4>3 DEF Selects
      <3>2. QED BY <2>3, <2>4, <2>7, <3>1 DEF Refills, Fills
    <2>8. QED BY <2>5, <2>6, <2>7 DEF Apt
  <1>2. CASE ~(m \in Cur /\ cursors[m] # NoImage)
    <2>1. f = g
      BY <1>2 DEF Refilled
    <2>2. \A c \in Cur : c < m + 1 /\ cursors[c] # NoImage <=> c < m /\ cursors[c] # NoImage
      BY <1>0, <1>2
    <2>3. QED BY <2>1, <2>2 DEF Refills
  <1>3. QED BY <1>1, <1>2

LEMMA AllFilledIs ==
  ASSUME NEW d, d = Hardware, NEW S, Apt(d, Cur, S), NEW h \in Hw(d),
         NEW kept \in [Cur -> Pictured],
         Lone(d)
  PROVE  Refills(d, h, kept, AllFilled(h, kept), 16)
  <1>1. PICK g : /\ g[0] = h
                 /\ \A k \in 1..16 : g[k] = Refilled(g[k - 1], kept, k - 1)
                 /\ AllFilled(h, kept) = g[16]
    BY FillingUnfolds
  <1> DEFINE T == {m \in Nat : m <= 16 => Refills(d, h, kept, g[m], m)}
  <1>2. 0 \in T
    <2>1. Refills(d, h, kept, h, 0)
      <3>1. \A c \in Cur : ~(c < 0)
        BY CursorAssumption DEF Numbers
      <3>2. QED BY <3>1 DEF Refills, SameOn
    <2>2. QED BY <1>1, <2>1
  <1>3. ASSUME NEW m \in T PROVE m + 1 \in T
    <2>1. SUFFICES ASSUME m + 1 <= 16 PROVE Refills(d, h, kept, g[m + 1], m + 1)
      OBVIOUS
    <2>2. m \in 0..15 /\ Refills(d, h, kept, g[m], m)
      BY <2>1
    <2>3. m + 1 \in 1..16 /\ (m + 1) - 1 = m
      BY <2>2
    <2>4. g[m + 1] = Refilled(g[m], kept, m)
      BY <1>1, <2>3
    <2>5. QED BY <2>2, <2>4, RefilledStep
  <1> HIDE DEF T
  <1>4. T = Nat
    <2>1. T \subseteq Nat
      BY DEF T
    <2>2. QED BY <1>2, <1>3, <2>1, Upward
  <1>5. QED BY <1>1, <1>4 DEF T

-----------------------------------------------------------------------------
(* What is left of a call, from its first step on.                         *)
Op == IF Idle THEN "end" ELSE Head(todo).op
Subject == Head(todo).arg[1]

HardwareTodo ==
  \/ todo = <<With("hwshow", asked.show), With("status", asked.show)>>
  \/ todo = <<With("status", asked.show)>>
  \/ todo = <<With("sx", asked.x), With("hwplace", asked.x)>>
  \/ todo = <<With("hwplace", asked.x)>>
  \/ todo = <<With("sp", asked.sel), With("hwsel", asked.sel)>>
  \/ todo = <<With("hwsel", asked.sel)>>
  \/ \E c \in Cur :
       todo = <<With("keep", <<c, asked.image[c]>>), With("hwimage", <<c, asked.image[c]>>)>>
  \/ \E c \in Cur : todo = <<With("hwimage", <<c, asked.image[c]>>)>>

(* The steps of the calls of a card's cursor.                              *)
HwShowStep ==
  /\ Op = "hwshow" /\ Op' = "status" /\ (locked => locked')
  /\ hw' = Enabled(hw, Hardware, asked.show)
  /\ UNCHANGED <<sx, sp, status, cursors, own>>
HwStatusStep ==
  /\ Op = "status" /\ Op' = "end" /\ ~locked'
  /\ status' = asked.show
  /\ UNCHANGED <<sx, sp, cursors, own, hw>>
HwSxStep ==
  /\ Op = "sx" /\ Op' = "hwplace"
  /\ sx' = asked.x
  /\ UNCHANGED <<sp, status, cursors, own, hw>>
HwPlaceStep ==
  /\ Op = "hwplace" /\ Op' = "end" /\ ~locked'
  /\ hw' = Placed(hw, Hardware, asked.x)
  /\ UNCHANGED <<sx, sp, status, cursors, own>>
HwSpStep ==
  /\ Op = "sp" /\ Op' = "hwsel"
  /\ sp' = asked.sel
  /\ UNCHANGED <<sx, status, cursors, own, hw>>
HwSelStep ==
  /\ Op = "hwsel" /\ Op' = "end" /\ ~locked'
  /\ hw' = Selected(hw, Hardware, own, asked.sel)
  /\ UNCHANGED <<sx, sp, status, cursors, own>>
HwKeepStep ==
  /\ Op = "keep" /\ Op' = "hwimage"
  /\ Subject \in Cur /\ Subject' = Subject
  /\ cursors' = [cursors EXCEPT ![Subject] = asked.image[Subject]]
  /\ UNCHANGED <<sx, sp, status, own, hw>>
HwImageStep ==
  /\ Op = "hwimage" /\ Op' = "end" /\ ~locked'
  /\ Subject \in Cur
  /\ own' = [own EXCEPT ![Subject] = asked.image[Subject]]
  /\ hw' = Filled(hw, Hardware, own', Subject)
  /\ UNCHANGED <<sx, sp, status, cursors>>

LEMMA HardwareSteps ==
  ASSUME HardwareTodo, locked \in BOOLEAN, Step
  PROVE  /\ HardwareTodo' \/ Idle'
         /\ \/ HwShowStep \/ HwStatusStep \/ HwSxStep \/ HwPlaceStep
            \/ HwSpStep \/ HwSelStep \/ HwKeepStep \/ HwImageStep
         /\ UNCHANGED <<chipset_cursor, drawn, asked>>
  <1> DEFINE step == Head(todo)
  <1>1. /\ sx' = IF step.op = "sx" THEN step.arg ELSE sx
        /\ sp' = IF step.op = "sp" THEN step.arg ELSE sp
        /\ status' = IF step.op = "status" THEN step.arg ELSE status
        /\ cursors' = IF step.op = "keep"
                      THEN [cursors EXCEPT ![step.arg[1]] = step.arg[2]] ELSE cursors
        /\ own' = IF step.op = "hwimage"
                  THEN [own EXCEPT ![step.arg[1]] = step.arg[2]] ELSE own
        /\ step.op = "hwshow" => hw' = Enabled(hw, Hardware, step.arg)
        /\ step.op = "hwplace" => hw' = Placed(hw, Hardware, step.arg)
        /\ step.op = "hwsel" => hw' = Selected(hw, Hardware, own, step.arg)
        /\ step.op = "hwimage" => hw' = Filled(hw, Hardware, own', step.arg[1])
        /\ step.op \in {"sx", "sp", "status", "keep"} => hw' = hw
    BY Zenon DEF Step
  <1>2. /\ todo' = Tail(todo)
        /\ Len(todo) = 1 => ~locked'
        /\ Len(todo) = 2 => (locked' <=> locked)
        /\ asked' = asked /\ drawn' = drawn /\ chipset_cursor' = chipset_cursor
    <2>1. locked' = (locked /\ Len(todo) > 1)
      BY DEF Step
    <2>2. Len(todo) = 1 => ~(Len(todo) > 1)
      OBVIOUS
    <2>3. Len(todo) = 2 => Len(todo) > 1
      OBVIOUS
    <2>4. /\ todo' = Tail(todo)
          /\ asked' = asked /\ drawn' = drawn /\ chipset_cursor' = chipset_cursor
      BY DEF Step
    <2>5. QED BY <2>1, <2>2, <2>3, <2>4, Zenon
  <1> HIDE DEF step
  <1>3. CASE todo = <<With("hwshow", asked.show), With("status", asked.show)>>
    <2>1. todo' = <<With("status", asked.show)>> /\ ~Idle /\ ~Idle' /\ Len(todo) = 2
      BY <1>2, <1>3 DEF Idle
    <2>2. step.op = "hwshow" /\ step.arg = asked.show /\ Head(todo').op = "status"
      BY <1>3, <2>1 DEF With, step
    <2>3. HardwareTodo'
      BY <1>2, <2>1 DEF HardwareTodo
    <2>4. HwShowStep
      BY <1>1, <1>2, <2>1, <2>2 DEF HwShowStep, Op, step
    <2>5. QED BY <1>2, <2>3, <2>4
  <1>4. CASE todo = <<With("status", asked.show)>>
    <2>1. todo' = <<>> /\ ~Idle /\ Idle' /\ Len(todo) = 1
      BY <1>2, <1>4 DEF Idle
    <2>2. step.op = "status" /\ step.arg = asked.show
      BY <1>4 DEF With, step
    <2>3. HwStatusStep
      BY <1>1, <1>2, <2>1, <2>2 DEF HwStatusStep, Op, step
    <2>4. QED BY <1>2, <2>1, <2>3
  <1>5. CASE todo = <<With("sx", asked.x), With("hwplace", asked.x)>>
    <2>1. todo' = <<With("hwplace", asked.x)>> /\ ~Idle /\ ~Idle' /\ Len(todo) = 2
      BY <1>2, <1>5 DEF Idle
    <2>2. step.op = "sx" /\ step.arg = asked.x /\ Head(todo').op = "hwplace"
      BY <1>5, <2>1 DEF With, step
    <2>3. HardwareTodo'
      BY <1>2, <2>1 DEF HardwareTodo
    <2>4. HwSxStep
      BY <1>1, <1>2, <2>1, <2>2 DEF HwSxStep, Op, step
    <2>5. QED BY <1>2, <2>3, <2>4
  <1>6. CASE todo = <<With("hwplace", asked.x)>>
    <2>1. todo' = <<>> /\ ~Idle /\ Idle' /\ Len(todo) = 1
      BY <1>2, <1>6 DEF Idle
    <2>2. step.op = "hwplace" /\ step.arg = asked.x
      BY <1>6 DEF With, step
    <2>3. HwPlaceStep
      BY <1>1, <1>2, <2>1, <2>2 DEF HwPlaceStep, Op, step
    <2>4. QED BY <1>2, <2>1, <2>3
  <1>7. CASE todo = <<With("sp", asked.sel), With("hwsel", asked.sel)>>
    <2>1. todo' = <<With("hwsel", asked.sel)>> /\ ~Idle /\ ~Idle' /\ Len(todo) = 2
      BY <1>2, <1>7 DEF Idle
    <2>2. step.op = "sp" /\ step.arg = asked.sel /\ Head(todo').op = "hwsel"
      BY <1>7, <2>1 DEF With, step
    <2>3. HardwareTodo'
      BY <1>2, <2>1 DEF HardwareTodo
    <2>4. HwSpStep
      BY <1>1, <1>2, <2>1, <2>2 DEF HwSpStep, Op, step
    <2>5. QED BY <1>2, <2>3, <2>4
  <1>8. CASE todo = <<With("hwsel", asked.sel)>>
    <2>1. todo' = <<>> /\ ~Idle /\ Idle' /\ Len(todo) = 1
      BY <1>2, <1>8 DEF Idle
    <2>2. step.op = "hwsel" /\ step.arg = asked.sel
      BY <1>8 DEF With, step
    <2>3. HwSelStep
      BY <1>1, <1>2, <2>1, <2>2 DEF HwSelStep, Op, step
    <2>4. QED BY <1>2, <2>1, <2>3
  <1>9. ASSUME NEW c \in Cur,
               todo = <<With("keep", <<c, asked.image[c]>>), With("hwimage", <<c, asked.image[c]>>)>>
        PROVE  HardwareTodo' /\ HwKeepStep
    <2>1. todo' = <<With("hwimage", <<c, asked.image[c]>>)>> /\ ~Idle /\ ~Idle' /\ Len(todo) = 2
      BY <1>2, <1>9 DEF Idle
    <2>2. /\ step.op = "keep" /\ step.arg[1] = c /\ step.arg[2] = asked.image[c]
          /\ Head(todo').op = "hwimage" /\ Head(todo').arg[1] = c
      BY <1>9, <2>1 DEF With, step
    <2>3. HardwareTodo'
      BY <1>2, <2>1 DEF HardwareTodo
    <2>4. HwKeepStep
      BY <1>1, <1>2, <2>1, <2>2 DEF HwKeepStep, Op, Subject, step
    <2>5. QED BY <2>3, <2>4
  <1>10. ASSUME NEW c \in Cur, todo = <<With("hwimage", <<c, asked.image[c]>>)>>
         PROVE  Idle' /\ HwImageStep
    <2>1. todo' = <<>> /\ ~Idle /\ Idle' /\ Len(todo) = 1
      BY <1>2, <1>10 DEF Idle
    <2>2. step.op = "hwimage" /\ step.arg[1] = c /\ step.arg[2] = asked.image[c]
      BY <1>10 DEF With, step
    <2>3. HwImageStep
      BY <1>1, <1>2, <2>1, <2>2 DEF HwImageStep, Op, Subject, step
    <2>4. QED BY <2>1, <2>3
  <1>11. QED BY <1>2, <1>3, <1>4, <1>5, <1>6, <1>7, <1>8, <1>9, <1>10 DEF HardwareTodo

Asked ==
  /\ asked \in [show : 0..1, x : IF Software THEN Xs ELSE Spot, sel : Cur,
                image : [Cur -> Pictured]]
  /\ chipset_cursor \in {"software"} \cup DOMAIN Cursors
  /\ cursor \in Cur /\ sp \in Cur /\ status \in 0..1
  /\ own \in [Cur -> Pictured]
  /\ locked \in BOOLEAN

(* What the library notes is what was asked for, but for the call that is  *)
(* in progress, and what the driver keeps is what the library does.        *)
Noted ==
  /\ Op # "sx" => sx = asked.x
  /\ Op # "sp" => sp = asked.sel
  /\ Op \notin {"hwshow", "status"} => status = asked.show
  /\ \A c \in Cur : ~(Op = "keep" /\ Subject = c) => cursors[c] = asked.image[c]
  /\ \A c \in Cur : ~(Op = "hwimage" /\ Subject = c) => own[c] = cursors[c]
  /\ cursors[sp] # NoImage /\ asked.image[asked.sel] # NoImage
  /\ Op \in {"keep", "hwimage"} => Subject \in Cur /\ asked.image[Subject] # NoImage

Calling ==
  /\ Idle \/ HardwareTodo
  /\ Idle => ~locked
  /\ Op \in {"hwshow", "status"} => locked

Brought(x) == x \in Spot /\ Apart(BitsOf(x[2]), Hardware.lost)
Within ==
  /\ hw \in Hw(Hardware) /\ cursors \in [Cur -> Pictured]
  /\ Brought(sx) /\ Brought(asked.x)

(* An image is changed where the card shows it at the next selection only. *)
Spared ==
  Op \in {"keep", "hwimage"} =>
    IF Hardware.images = "at both" THEN Subject = sp
    ELSE Hardware.colors = "image" \/ Subject # sp
Alone ==
  Hardware.images = "at both" =>
    \A c \in Cur : asked.image[c] # NoImage \/ own[c] # NoImage \/ cursors[c] # NoImage =>
      c = sp /\ c = asked.sel

(* The card is as noted, but for what it is just being told.               *)
InPlace ==
  /\ Shows(hw, Hardware) = IF Op = "hwshow" THEN status ELSE asked.show
  /\ Op # "hwplace" => At(hw, Hardware, sx)
  /\ Op # "hwsel" => Addressed(hw, Hardware, sp)
InImage ==
  /\ Op # "hwsel" => Hardware.colors = "image" \/ hw.colors = own[sp]
  /\ Hardware.images = "at once" => \A c \in Cur : hw.mem[Hardware.slot[c]] = own[c]
  /\ Hardware.images # "at once" /\ Op # "hwsel" => hw.mem[Hardware.slot[sp]] = own[sp]

HardInv == Noted /\ Calling /\ Within /\ Spared /\ Alone /\ InPlace /\ InImage

LEMMA HardwareApt ==
  ASSUME ~Software, chipset_cursor \in {"software"} \cup DOMAIN Cursors
  PROVE  Apt(Hardware, Cur, Spots)
  <1>1. /\ Apt(Hardware, Numbers, Coordinates)
        /\ Cur \subseteq Numbers /\ Spots \subseteq Coordinates
    BY CursorAssumption DEF Software, Hardware
  <1>2. QED BY <1>1 DEF Apt

LEMMA BroughtFits ==
  ASSUME NEW x, Brought(x), Apt(Hardware, Cur, Spots)
  PROVE  Fits(Hardware, x)
  <1>1. x[1] \in Spots /\ x[2] \in Spots
    BY DEF Brought, Spot
  <1>2. QED BY <1>1 DEF Apt, Brought, Fits

LEMMA HwShowKeeps ==
  ASSUME ~Software, Asked, HardInv, HardwareTodo' \/ Idle', HwShowStep,
         asked' = asked, Hardware' = Hardware
  PROVE  HardInv'
  <1>1. Apt(Hardware, Cur, Spots)
    BY HardwareApt DEF Asked
  <1> DEFINE d == Hardware
  <1>2. /\ hw' \in Hw(d) /\ hw'.mem = hw.mem /\ hw'.colors = hw.colors
        /\ Shows(hw', d) = asked.show
        /\ SameOn(hw', hw, Targeted(d))
    BY <1>1, EnabledIs DEF HwShowStep, Asked, HardInv, Within
  <1>s. /\ sx' = sx /\ sp' = sp /\ status' = status /\ cursors' = cursors /\ own' = own
        /\ Op = "hwshow" /\ Op' = "status" /\ (locked => locked')
    <2>1. locked => locked'
      BY Zenon DEF HwShowStep
    <2>2. QED BY <2>1 DEF HwShowStep
  <1>3. Noted'
    BY <1>s DEF HardInv, Noted
  <1>4. Calling'
    <2>1. ~Idle'
      BY <1>s DEF Op
    <2>2. QED BY <1>s, <2>1 DEF HardInv, Calling
  <1>5. Within'
    BY <1>1, <1>2, <1>s DEF HardInv, Within, Brought
  <1>6. Spared' 
    BY <1>1, <1>s DEF HardInv, Spared
  <1>10. Alone' 
    BY <1>1, <1>s DEF HardInv, Alone
  <1>7. InPlace'
    <2>1. SameOn(hw', hw, Targets(d.x) \cup Targets(d.y)) /\ SameOn(hw', hw, Targets(d.address))
      BY <1>2 DEF SameOn, Targeted
    <2>2. At(hw', d, sx) <=> At(hw, d, sx)
      BY <2>1, AtSame
    <2>3. Addressed(hw', d, sp) <=> Addressed(hw, d, sp)
      BY <2>1, AddressedSame
    <2>4. QED BY <1>1, <1>2, <1>s, <2>2, <2>3 DEF HardInv, InPlace
  <1>8. InImage'
    BY <1>1, <1>2, <1>s DEF HardInv, InImage
  <1>9. QED BY <1>3, <1>4, <1>5, <1>6, <1>7, <1>8, <1>10 DEF HardInv

LEMMA HwStatusKeeps ==
  ASSUME ~Software, Asked, HardInv, HardwareTodo' \/ Idle', HwStatusStep,
         asked' = asked, Hardware' = Hardware
  PROVE  HardInv'
  <1>1. Apt(Hardware, Cur, Spots)
    BY HardwareApt DEF Asked
  <1> DEFINE d == Hardware
  <1>s. /\ sx' = sx /\ sp' = sp /\ cursors' = cursors /\ own' = own /\ hw' = hw /\ status' = asked.show
        /\ Op = "status" /\ Op' = "end" /\ ~locked'
    BY DEF HwStatusStep
  <1>3. Noted'
    BY <1>s DEF HardInv, Noted
  <1>4. Calling'
    BY <1>s DEF HardInv, Calling
  <1>5. Within'
    BY <1>1, <1>s DEF HardInv, Within, Brought
  <1>6. Spared'
    BY <1>1, <1>s DEF HardInv, Spared
  <1>10. Alone'
    BY <1>1, <1>s DEF HardInv, Alone
  <1>7. InPlace'
    BY <1>1, <1>s DEF HardInv, InPlace
  <1>8. InImage'
    BY <1>1, <1>s DEF HardInv, InImage
  <1>9. QED BY <1>3, <1>4, <1>5, <1>6, <1>10, <1>7, <1>8 DEF HardInv

LEMMA HwSxKeeps ==
  ASSUME ~Software, Asked, HardInv, HardwareTodo' \/ Idle', HwSxStep,
         asked' = asked, Hardware' = Hardware
  PROVE  HardInv'
  <1>1. Apt(Hardware, Cur, Spots)
    BY HardwareApt DEF Asked
  <1> DEFINE d == Hardware
  <1>s. /\ status' = status /\ sp' = sp /\ cursors' = cursors /\ own' = own /\ hw' = hw /\ sx' = asked.x
        /\ Op = "sx" /\ Op' = "hwplace"
    BY DEF HwSxStep
  <1>3. Noted'
    BY <1>s DEF HardInv, Noted
  <1>4. Calling'
    <2>1. ~Idle'
      BY <1>s DEF Op
    <2>2. QED BY <1>s, <2>1 DEF HardInv, Calling
  <1>5. Within'
    BY <1>1, <1>s DEF HardInv, Within, Brought
  <1>6. Spared'
    BY <1>1, <1>s DEF HardInv, Spared
  <1>10. Alone'
    BY <1>1, <1>s DEF HardInv, Alone
  <1>7. InPlace'
    BY <1>1, <1>s DEF HardInv, InPlace
  <1>8. InImage'
    BY <1>1, <1>s DEF HardInv, InImage
  <1>9. QED BY <1>3, <1>4, <1>5, <1>6, <1>10, <1>7, <1>8 DEF HardInv

LEMMA HwPlaceKeeps ==
  ASSUME ~Software, Asked, HardInv, HardwareTodo' \/ Idle', HwPlaceStep,
         asked' = asked, Hardware' = Hardware
  PROVE  HardInv'
  <1>1. Apt(Hardware, Cur, Spots)
    BY HardwareApt DEF Asked
  <1> DEFINE d == Hardware
  <1>s. /\ sx' = sx /\ status' = status /\ sp' = sp /\ cursors' = cursors /\ own' = own
        /\ hw' = Placed(hw, Hardware, asked.x)
        /\ Op = "hwplace" /\ Op' = "end" /\ ~locked'
    BY DEF HwPlaceStep
  <1>2. sx = asked.x
    BY <1>s DEF HardInv, Noted
  <1>p. /\ hw' \in Hw(d) /\ hw'.mem = hw.mem /\ hw'.colors = hw.colors
        /\ At(hw', d, sx)
        /\ SameOn(hw', hw, Targets(d.address) \cup d.enable)
    <2>1. Fits(d, asked.x)
      BY <1>1, BroughtFits DEF HardInv, Within
    <2>2. QED BY <1>1, <1>2, <1>s, <2>1, PlacedIs DEF HardInv, Within
  <1>3. Noted'
    BY <1>s DEF HardInv, Noted
  <1>4. Calling'
    BY <1>s DEF HardInv, Calling
  <1>5. Within'
    BY <1>1, <1>s, <1>p DEF HardInv, Within, Brought
  <1>6. Spared'
    BY <1>1, <1>s DEF HardInv, Spared
  <1>10. Alone'
    BY <1>1, <1>s DEF HardInv, Alone
  <1>7. InPlace'
    <2>1. SameOn(hw', hw, Targets(d.address)) /\ SameOn(hw', hw, d.enable)
      BY <1>p DEF SameOn
    <2>2. Addressed(hw', d, sp) <=> Addressed(hw, d, sp)
      BY <2>1, AddressedSame
    <2>3. Shows(hw', d) = Shows(hw, d)
      BY <2>1, ShowsSame
    <2>4. QED BY <1>1, <1>s, <1>p, <2>2, <2>3 DEF HardInv, InPlace
  <1>8. InImage'
    BY <1>1, <1>s, <1>p DEF HardInv, InImage
  <1>9. QED BY <1>3, <1>4, <1>5, <1>6, <1>10, <1>7, <1>8 DEF HardInv

LEMMA HwSpKeeps ==
  ASSUME ~Software, Asked, HardInv, HardwareTodo' \/ Idle', HwSpStep,
         asked' = asked, Hardware' = Hardware
  PROVE  HardInv'
  <1>1. Apt(Hardware, Cur, Spots)
    BY HardwareApt DEF Asked
  <1> DEFINE d == Hardware
  <1>s. /\ sx' = sx /\ status' = status /\ cursors' = cursors /\ own' = own /\ hw' = hw /\ sp' = asked.sel
        /\ Op = "sp" /\ Op' = "hwsel"
    BY DEF HwSpStep
  <1>3. Noted'
    <2>1. asked.sel \in Cur /\ cursors[asked.sel] = asked.image[asked.sel]
      BY <1>s DEF Asked, HardInv, Noted
    <2>2. QED BY <1>s, <2>1 DEF HardInv, Noted
  <1>4. Calling'
    <2>1. ~Idle'
      BY <1>s DEF Op
    <2>2. QED BY <1>s, <2>1 DEF HardInv, Calling
  <1>5. Within'
    BY <1>1, <1>s DEF HardInv, Within, Brought
  <1>6. Spared'
    BY <1>1, <1>s DEF HardInv, Spared
  <1>10. Alone'
    BY <1>1, <1>s DEF HardInv, Alone
  <1>7. InPlace'
    BY <1>1, <1>s DEF HardInv, InPlace
  <1>8. InImage'
    BY <1>1, <1>s DEF HardInv, InImage
  <1>9. QED BY <1>3, <1>4, <1>5, <1>6, <1>10, <1>7, <1>8 DEF HardInv

LEMMA HwSelKeeps ==
  ASSUME ~Software, Asked, HardInv, HardwareTodo' \/ Idle', HwSelStep,
         asked' = asked, Hardware' = Hardware
  PROVE  HardInv'
  <1>1. Apt(Hardware, Cur, Spots)
    BY HardwareApt DEF Asked
  <1> DEFINE d == Hardware
  <1>s. /\ sx' = sx /\ sp' = sp /\ status' = status /\ cursors' = cursors /\ own' = own
        /\ hw' = Selected(hw, Hardware, own, asked.sel)
        /\ Op = "hwsel" /\ Op' = "end" /\ ~locked'
    BY DEF HwSelStep
  <1>2. sp = asked.sel
    BY <1>s DEF HardInv, Noted
  <1>p. Selects(d, hw, own, sp, hw')
    BY <1>1, <1>2, <1>s, SelectedIs DEF HardInv, Within, Asked
  <1>3. Noted'
    BY <1>s DEF HardInv, Noted
  <1>4. Calling'
    BY <1>s DEF HardInv, Calling
  <1>5. Within'
    BY <1>1, <1>s, <1>p DEF Selects, HardInv, Within, Brought
  <1>6. Spared'
    BY <1>1, <1>s DEF HardInv, Spared
  <1>10. Alone'
    BY <1>1, <1>s DEF HardInv, Alone
  <1>7. InPlace'
    <2>1. SameOn(hw', hw, Targets(d.x) \cup Targets(d.y)) /\ SameOn(hw', hw, d.enable)
      BY <1>p DEF Selects, SameOn
    <2>2. At(hw', d, sx) <=> At(hw, d, sx)
      BY <2>1, AtSame
    <2>3. Shows(hw', d) = Shows(hw, d)
      BY <2>1, ShowsSame
    <2>4. QED BY <1>1, <1>s, <1>p, <2>2, <2>3 DEF HardInv, InPlace, Selects
  <1>8. InImage'
    <2>1. d.slot[sp] \in Slots(d, Cur) /\ hw.mem \in [Slots(d, Cur) -> Pictured]
      BY DEF Slots, Hw, HardInv, Within, Asked
    <2>2. QED BY <1>1, <1>s, <1>p, <2>1 DEF HardInv, InImage, Selects
  <1>9. QED BY <1>3, <1>4, <1>5, <1>6, <1>10, <1>7, <1>8 DEF HardInv

LEMMA HwKeepKeeps ==
  ASSUME ~Software, Asked, HardInv, HardwareTodo' \/ Idle', HwKeepStep,
         asked' = asked, Hardware' = Hardware
  PROVE  HardInv'
  <1>1. Apt(Hardware, Cur, Spots)
    BY HardwareApt DEF Asked
  <1> DEFINE d == Hardware
  <1>s. /\ sx' = sx /\ sp' = sp /\ status' = status /\ own' = own /\ hw' = hw
        /\ Subject \in Cur /\ Subject' = Subject
        /\ cursors' = [cursors EXCEPT ![Subject] = asked.image[Subject]]
        /\ Op = "keep" /\ Op' = "hwimage"
    BY DEF HwKeepStep
  <1>2. \A c \in Cur : cursors'[c] = IF c = Subject THEN asked.image[c] ELSE cursors[c]
    BY <1>s DEF HardInv, Within
  <1>3. Noted'
    BY <1>2, <1>s DEF Asked, HardInv, Noted
  <1>4. Calling'
    <2>1. ~Idle'
      BY <1>s DEF Op
    <2>2. QED BY <1>s, <2>1 DEF HardInv, Calling
  <1>5. Within'
    <2>1. asked.image[Subject] \in Pictured
      BY <1>s DEF Asked
    <2>2. QED BY <1>1, <1>s, <2>1 DEF HardInv, Within, Brought
  <1>6. Spared'
    BY <1>1, <1>s DEF HardInv, Spared
  <1>10. Alone'
    BY <1>1, <1>2, <1>s DEF HardInv, Alone
  <1>7. InPlace'
    BY <1>1, <1>s DEF HardInv, InPlace
  <1>8. InImage'
    BY <1>1, <1>s DEF HardInv, InImage
  <1>9. QED BY <1>3, <1>4, <1>5, <1>6, <1>10, <1>7, <1>8 DEF HardInv

LEMMA HwImageKeeps ==
  ASSUME ~Software, Asked, HardInv, HardwareTodo' \/ Idle', HwImageStep,
         asked' = asked, Hardware' = Hardware
  PROVE  HardInv'
  <1>1. Apt(Hardware, Cur, Spots)
    BY HardwareApt DEF Asked
  <1> DEFINE d == Hardware
  <1>s. /\ sx' = sx /\ sp' = sp /\ status' = status /\ cursors' = cursors
        /\ Subject \in Cur
        /\ own' = [own EXCEPT ![Subject] = asked.image[Subject]]
        /\ hw' = Filled(hw, Hardware, own', Subject)
        /\ Op = "hwimage" /\ Op' = "end" /\ ~locked'
    BY DEF HwImageStep
  <1>2. /\ \A c \in Cur : own'[c] = IF c = Subject THEN asked.image[c] ELSE own[c]
        /\ own' \in [Cur -> Pictured]
    BY <1>s DEF Asked
  <1>p. Fills(d, hw, own', Subject, hw')
    BY <1>1, <1>2, <1>s, FilledIs DEF HardInv, Within
  <1>3. Noted'
    BY <1>2, <1>s DEF HardInv, Noted
  <1>4. Calling'
    BY <1>s DEF HardInv, Calling
  <1>5. Within'
    BY <1>1, <1>s, <1>p DEF Fills, HardInv, Within, Brought
  <1>6. Spared'
    BY <1>1, <1>s DEF HardInv, Spared
  <1>10. Alone'
    BY <1>1, <1>2, <1>s DEF HardInv, Alone
  <1>7. InPlace'
    <2>1. SameOn(hw', hw, Targets(d.x) \cup Targets(d.y)) /\ SameOn(hw', hw, d.enable)
      BY <1>p DEF Fills, SameOn
    <2>2. At(hw', d, sx) <=> At(hw, d, sx)
      BY <2>1, AtSame
    <2>3. Shows(hw', d) = Shows(hw, d)
      BY <2>1, ShowsSame
    <2>4. Addressed(hw', d, sp)
      <3>1. Addressed(hw, d, sp)
        BY <1>s DEF HardInv, InPlace
      <3>2. CASE d.images = "at once"
        <4>1. SameOn(hw', hw, Targets(d.address))
          BY <1>p, <3>2 DEF Fills
        <4>2. QED BY <3>1, <4>1, AddressedSame
      <3>3. CASE d.images = "selected"
        BY <1>p, <3>1, <3>3 DEF Fills
      <3>4. CASE d.images = "at both"
        <4>1. Subject = sp
          BY <1>s, <3>4 DEF HardInv, Spared
        <4>2. QED BY <1>p, <3>4, <4>1 DEF Fills, Selects
      <3>5. QED BY <1>1, <3>2, <3>3, <3>4 DEF Apt
    <2>5. QED BY <1>1, <1>s, <2>2, <2>3, <2>4 DEF HardInv, InPlace
  <1>8. InImage'
    <2>1. \A c \in Cur : d.slot[c] \in Slots(d, Cur)
      BY DEF Slots
    <2>2. hw.mem \in [Slots(d, Cur) -> Pictured] /\ sp \in Cur
      BY DEF Hw, HardInv, Within, Asked
    <2>3. CASE d.images = "at once"
      <3>1. ASSUME NEW c \in Cur PROVE hw'.mem[d.slot[c]] = own'[c]
        <4>1. d.slot[c] = d.slot[Subject] => c = Subject
          BY <1>1, <1>s, <2>3 DEF Apt
        <4>2. hw'.mem[d.slot[c]] = IF c = Subject THEN own'[Subject] ELSE hw.mem[d.slot[c]]
          BY <1>p, <2>1, <2>2, <2>3, <4>1 DEF Fills
        <4>3. hw.mem[d.slot[c]] = own[c]
          BY <2>3 DEF HardInv, InImage
        <4>4. QED BY <1>2, <4>2, <4>3
      <3>2. d.colors = "image" \/ hw'.colors = own'[sp]
        <4>1. d.colors = "image" \/ Subject # sp
          BY <1>s, <2>3 DEF HardInv, Spared
        <4>2. d.colors = "image" \/ hw.colors = own[sp]
          BY <1>s DEF HardInv, InImage
        <4>3. QED BY <1>2, <1>p, <2>2, <2>3, <4>1, <4>2 DEF Fills
      <3>3. QED BY <1>1, <1>s, <2>3, <3>1, <3>2 DEF InImage
    <2>4. CASE d.images = "selected"
      <3>1. Subject # sp
        BY <1>1, <1>s, <2>4 DEF HardInv, Spared, Apt
      <3>2. own'[sp] = own[sp] /\ hw' = hw
        BY <1>2, <1>p, <2>2, <2>4, <3>1 DEF Fills
      <3>3. QED BY <1>1, <1>s, <2>4, <3>2 DEF HardInv, InImage
    <2>5. CASE d.images = "at both"
      <3>1. Subject = sp
        BY <1>s, <2>5 DEF HardInv, Spared
      <3>2. Selects(d, hw, own', sp, hw')
        BY <1>p, <2>5, <3>1 DEF Fills
      <3>3. hw'.mem[d.slot[sp]] = own'[sp] /\ hw'.colors = own'[sp]
        BY <2>1, <2>2, <2>5, <3>2 DEF Selects
      <3>4. QED BY <1>1, <1>s, <2>5, <3>3 DEF InImage
    <2>6. QED BY <1>1, <2>3, <2>4, <2>5 DEF Apt
  <1>9. QED BY <1>3, <1>4, <1>5, <1>6, <1>10, <1>7, <1>8 DEF HardInv

(* A switch brings all of a card's cursor back, as it was noted.           *)
LEMMA LostIs ==
  ASSUME NEW d, NEW b \in BOOLEAN
  PROVE  Lost(d, Cur, b) \in Hw(d) /\ \A c \in Cur : Lost(d, Cur, b).mem[d.slot[c]] = NoImage
  <1>1. NoImage \in Pictured
    BY DEF Pictured
  <1>2. \A c \in Cur : d.slot[c] \in Slots(d, Cur)
    BY DEF Slots
  <1>3. [u \in Units(d) |-> b] \in [Units(d) -> BOOLEAN]
    OBVIOUS
  <1>4. [s \in Slots(d, Cur) |-> NoImage] \in [Slots(d, Cur) -> Pictured]
    BY <1>1
  <1>5. QED BY <1>1, <1>2, <1>3, <1>4 DEF Lost, Hw

LEMMA HwRestored ==
  ASSUME ~Software, Asked, HardInv, ~locked, RestoreHardware, status' = status % 2
  PROVE  /\ own' \in [Cur -> Pictured] /\ \A c \in Cur : own'[c] = cursors[c]
         /\ hw' \in Hw(Hardware)
         /\ At(hw', Hardware, sx) /\ Addressed(hw', Hardware, sp)
         /\ Shows(hw', Hardware) = status /\ status' = status
         /\ Hardware.colors = "image" \/ hw'.colors = cursors[sp]
         /\ Hardware.images = "at once" => \A c \in Cur : hw'.mem[Hardware.slot[c]] = cursors[c]
         /\ Hardware.images # "at once" => hw'.mem[Hardware.slot[sp]] = cursors[sp]
  <1> DEFINE d == Hardware
  <1>1. Apt(Hardware, Cur, Spots)
    BY HardwareApt DEF Asked
  <1>2. \A c \in Cur : own'[c] = cursors[c] /\ own'[c] \in Pictured
    <2>1. TAKE c \in Cur
    <2>2. own'[c] = IF cursors[c] = NoImage THEN own[c] ELSE cursors[c]
      BY DEF RestoreHardware
    <2>3. cursors[c] \in Pictured
      BY DEF HardInv, Within
    <2>4. CASE cursors[c] = NoImage
      <3>1. ~(Op = "hwimage" /\ Subject = c)
        <4>1. SUFFICES ASSUME Op = "hwimage", Subject = c PROVE FALSE
          OBVIOUS
        <4>2. asked.image[c] # NoImage /\ cursors[c] = asked.image[c]
          BY <4>1 DEF HardInv, Noted
        <4>3. QED BY <2>4, <4>2
      <3>2. own[c] = cursors[c]
        BY <3>1 DEF HardInv, Noted
      <3>3. QED BY <2>2, <2>3, <2>4, <3>2
    <2>5. QED BY <2>2, <2>3, <2>4
  <1>3. own' = [c \in Cur |-> IF cursors[c] = NoImage THEN own[c] ELSE cursors[c]]
    BY DEF RestoreHardware
  <1>4. own' \in [Cur -> Pictured]
    BY <1>2, <1>3
  <1>5. PICK b \in BOOLEAN :
          LET selected == Selected(Lost(d, Cur, b), d, own, sp)
              filled == AllFilled(Placed(selected, d, sx), own')
          IN  hw' = Enabled(filled, d, status % 2)
    BY DEF RestoreHardware
  <1> DEFINE l == Lost(d, Cur, b)
             s == Selected(l, d, own, sp)
             p == Placed(s, d, sx)
             f == AllFilled(p, own')
  <1>6. status % 2 = status /\ status \in 0..1
    BY DEF Asked
  <1>7. l \in Hw(d) /\ \A c \in Cur : l.mem[d.slot[c]] = NoImage
    BY LostIs
  <1>8. Selects(d, l, own, sp, s)
    <2>1. sp \in Cur /\ own \in [Cur -> Pictured]
      BY DEF Asked
    <2>2. QED BY <1>1, <1>7, <2>1, SelectedIs
  <1>9. /\ p \in Hw(d) /\ p.mem = s.mem /\ p.colors = s.colors
        /\ At(p, d, sx)
        /\ SameOn(p, s, Targets(d.address) \cup d.enable)
    <2>1. Fits(d, sx)
      BY <1>1, BroughtFits DEF HardInv, Within
    <2>2. s \in Hw(d)
      BY <1>8 DEF Selects
    <2> HIDE DEF s
    <2>3. QED BY <1>1, <2>1, <2>2, PlacedIs
  <1>10. Refills(d, p, own', f, 16)
    <2>1. Lone(d)
      BY Zenon DEF HardInv, Alone, Lone
    <2> HIDE DEF p
    <2>2. QED BY <1>1, <1>4, <1>9, <2>1, AllFilledIs
  <1>11. /\ hw' \in Hw(d) /\ hw'.mem = f.mem /\ hw'.colors = f.colors
         /\ Shows(hw', d) = status
         /\ SameOn(hw', f, Targeted(d))
    <2>1. f \in Hw(d)
      BY <1>10 DEF Refills
    <2>2. hw' = Enabled(f, d, status)
      BY <1>5, <1>6
    <2> HIDE DEF f
    <2>3. QED BY <1>1, <1>6, <2>1, <2>2, EnabledIs
  <1> HIDE DEF l, s, p, f
  <1>12. At(hw', d, sx)
    <2>1. SameOn(hw', p, Targets(d.x) \cup Targets(d.y))
      BY <1>10, <1>11 DEF Refills, SameOn, Targeted
    <2>2. QED BY <1>9, <2>1, AtSame
  <1>13. sp \in Cur /\ cursors[sp] # NoImage /\ own'[sp] = cursors[sp] /\ sp < 16
    <2>1. sp \in Cur /\ cursors[sp] # NoImage
      BY DEF Asked, HardInv, Noted
    <2>2. sp \in 0..15
      BY <2>1, CursorAssumption DEF Numbers
    <2>3. QED BY <1>2, <2>1, <2>2
  <1>14. SameOn(hw', f, Targets(d.address))
    BY <1>11 DEF SameOn, Targeted
  <1>15. Addressed(p, d, sp)
    <2>1. SameOn(p, s, Targets(d.address))
      BY <1>9 DEF SameOn
    <2>2. QED BY <1>8, <2>1, AddressedSame DEF Selects
  <1>16. own[sp] = cursors[sp] \/ (Op = "hwimage" /\ Subject = sp)
    BY <1>13 DEF HardInv, Noted
  <1>17. CASE d.images = "at once"
    <2>1. SameOn(f, p, Targets(d.address))
      BY <1>10, <1>17 DEF Refills
    <2>2. Addressed(hw', d, sp)
      <3>1. Addressed(f, d, sp)
        BY <1>15, <2>1, AddressedSame
      <3>2. QED BY <1>14, <3>1, AddressedSame
    <2>3. d.colors = "image" \/ hw'.colors = cursors[sp]
      <3>1. hw'.colors = own[sp]
        BY <1>8, <1>9, <1>10, <1>11, <1>17 DEF Refills, Selects
      <3>2. QED BY <1>16, <1>17, <3>1 DEF HardInv, Spared
    <2>4. ASSUME NEW c \in Cur PROVE hw'.mem[d.slot[c]] = cursors[c]
      <3>1. c < 16
        <4>1. c \in 0..15
          BY CursorAssumption DEF Numbers
        <4>2. QED BY <4>1
      <3>2. p.mem[d.slot[c]] = NoImage
        BY <1>7, <1>8, <1>9, <1>17 DEF Selects
      <3>3. hw'.mem[d.slot[c]] = IF cursors[c] # NoImage THEN own'[c] ELSE NoImage
        BY <1>10, <1>11, <1>17, <3>1, <3>2 DEF Refills
      <3>4. QED BY <1>2, <3>3
    <2>5. QED BY <1>2, <1>4, <1>6, <1>11, <1>12, <1>17, <2>2, <2>3, <2>4
  <1>18. CASE d.images = "selected"
    <2>1. f = p
      BY <1>10, <1>18 DEF Refills
    <2>2. Addressed(hw', d, sp)
      BY <1>14, <1>15, <2>1, AddressedSame
    <2>3. own[sp] = cursors[sp]
      BY <1>1, <1>16, <1>18 DEF Apt, HardInv, Spared
    <2>4. hw'.colors = cursors[sp] /\ hw'.mem[d.slot[sp]] = cursors[sp]
      <3>1. d.slot[sp] \in Slots(d, Cur) /\ l.mem \in [Slots(d, Cur) -> Pictured]
        BY <1>7, <1>13 DEF Slots, Hw
      <3>2. QED BY <1>8, <1>9, <1>11, <1>18, <2>1, <2>3, <3>1 DEF Selects
    <2>5. QED BY <1>2, <1>4, <1>6, <1>11, <1>12, <1>18, <2>2, <2>4
  <1>19. CASE d.images = "at both"
    <2>1. f.mem[d.slot[sp]] = own'[sp] /\ f.colors = own'[sp] /\ Addressed(f, d, sp)
      BY <1>10, <1>13, <1>19 DEF Refills
    <2>2. Addressed(hw', d, sp)
      BY <1>14, <2>1, AddressedSame
    <2>3. QED BY <1>2, <1>4, <1>6, <1>11, <1>12, <1>13, <1>19, <2>1, <2>2
  <1>20. QED BY <1>1, <1>17, <1>18, <1>19 DEF Apt

LEMMA HwSwitchKeeps ==
  ASSUME ~Software, Asked, HardInv, Switch
  PROVE  HardInv' /\ Asked'
  <1>1. /\ ~locked /\ RestoreHardware /\ status' = status % 2
        /\ chipset_cursor' = chipset_cursor /\ sx' = sx /\ sp' = sp /\ todo' = todo
        /\ locked' = locked /\ asked' = asked
        /\ cursor' = cursor /\ cursors' = cursors
    <2>1. ~locked /\ RestoreHardware
      BY DEF Switch
    <2>2. QED BY <2>1 DEF Switch, RestoreHardware
  <1>2. /\ Op' = Op /\ Hardware' = Hardware /\ Subject' = Subject
        /\ HardwareTodo' <=> HardwareTodo
        /\ Idle' <=> Idle
        /\ Software' <=> Software
    BY <1>1 DEF Op, Hardware, Subject, HardwareTodo, Idle, Software
  <1> DEFINE d == Hardware
  <1>3. /\ own' \in [Cur -> Pictured] /\ \A c \in Cur : own'[c] = cursors[c]
        /\ hw' \in Hw(d)
        /\ At(hw', d, sx) /\ Addressed(hw', d, sp)
        /\ Shows(hw', d) = status /\ status' = status
        /\ d.colors = "image" \/ hw'.colors = cursors[sp]
        /\ d.images = "at once" => \A c \in Cur : hw'.mem[d.slot[c]] = cursors[c]
        /\ d.images # "at once" => hw'.mem[d.slot[sp]] = cursors[sp]
    BY <1>1, HwRestored
  <1>4. status = asked.show /\ Op # "hwshow" /\ sp \in Cur
    BY <1>1 DEF HardInv, Noted, Calling, Asked
  <1>5. Noted'
    BY <1>1, <1>2, <1>3 DEF HardInv, Noted
  <1>6. Calling'
    BY <1>1, <1>2 DEF HardInv, Calling
  <1>7. Within'
    BY <1>1, <1>2, <1>3 DEF HardInv, Within, Brought
  <1>8. Spared'
    BY <1>1, <1>2 DEF HardInv, Spared
  <1>9. Alone'
    BY <1>1, <1>2, <1>3 DEF HardInv, Alone
  <1>10. InPlace'
    BY <1>1, <1>2, <1>3, <1>4 DEF InPlace
  <1>11. InImage'
    BY <1>1, <1>2, <1>3, <1>4 DEF InImage
  <1>12. Asked'
    BY <1>1, <1>2, <1>3 DEF Asked
  <1>13. QED BY <1>5, <1>6, <1>7, <1>8, <1>9, <1>10, <1>11, <1>12 DEF HardInv

(* Steps put together.                                                     *)
LEMMA Joined ==
  ASSUME NEW S, NEW s \in Seq(S), NEW t \in Seq(S), NEW u \in Seq(S),
         Len(u) = Len(s) + Len(t),
         \A k \in 1..Len(s) : u[k] = s[k],
         \A k \in 1..Len(t) : u[Len(s) + k] = t[k]
  PROVE  s \o t = u
  <1>1. s \o t \in Seq(S) /\ Len(s \o t) = Len(s) + Len(t)
    BY ConcatProperties
  <1>2. \A k \in 1..Len(u) : (s \o t)[k] = u[k]
    <2>1. TAKE k \in 1..Len(u)
    <2>2. CASE k <= Len(s)
      BY <2>2, ConcatProperties
    <2>3. CASE k > Len(s)
      <3>1. k - Len(s) \in 1..Len(t) /\ Len(s) + (k - Len(s)) = k /\ Len(s) \in Nat
        BY <2>3
      <3>2. (s \o t)[k] = t[k - Len(s)]
        BY <2>3, <3>1, ConcatProperties
      <3>3. QED BY <3>1, <3>2
    <2>4. QED BY <2>2, <2>3
  <1>3. QED BY <1>1, <1>2, SeqEqual

LEMMA Pair ==
  ASSUME NEW a, NEW b
  PROVE  <<a>> \o <<b>> = <<a, b>>
  <1> DEFINE s == <<a>>
             t == <<b>>
             u == <<a, b>>
             S == {a, b}
  <1>1. s \in Seq(S) /\ t \in Seq(S) /\ u \in Seq(S)
    OBVIOUS
  <1>2. Len(s) = 1 /\ Len(t) = 1 /\ Len(u) = 2
    OBVIOUS
  <1>3. s[1] = a /\ t[1] = b /\ u[1] = a /\ u[2] = b
    OBVIOUS
  <1> HIDE DEF s, t, u, S
  <1>4. s \o t = u
    <2>1. \A k \in 1..Len(s) : u[k] = s[k]
      BY <1>2, <1>3
    <2>2. \A k \in 1..Len(t) : u[Len(s) + k] = t[k]
      BY <1>2, <1>3
    <2>3. Len(u) = Len(s) + Len(t)
      BY <1>2
    <2>4. QED BY <1>1, <2>1, <2>2, <2>3, Joined, Zenon
  <1>5. QED BY <1>4 DEF s, t, u

(* The calls of a card's cursor.                                           *)
LEMMA HwCalled ==
  ASSUME ~Software, Wary, NEW steps, NEW shows \in BOOLEAN, Call(steps, shows)
  PROVE  /\ Idle /\ ~locked /\ todo' = steps /\ (shows => locked')
         /\ sx' = sx /\ sp' = sp /\ status' = status /\ cursor' = cursor
         /\ cursors' = cursors /\ own' = own /\ hw' = hw
         /\ chipset_cursor' = chipset_cursor /\ Hardware' = Hardware
         /\ (Software' <=> Software) /\ locked' \in BOOLEAN /\ sw' = sw
  <1>1. locked' = (Wary /\ (Software \/ shows))
    BY DEF Call
  <1>2. (shows => locked') /\ locked' \in BOOLEAN
    BY <1>1
  <1>3. QED BY <1>2 DEF Call, told, Hardware, Software

LEMMA HwIdle ==
  ASSUME Idle
  PROVE  Op = "end"
  BY DEF Op

LEMMA HwShowCall ==
  ASSUME ~Software, Wary, Asked, HardInv, NEW show \in 0..3, vga_showcursor(show)
  PROVE  HardInv' /\ Asked'
  <1> DEFINE d == Hardware
  <1>1. /\ Call(ShowCall(show), TRUE) /\ show < 2
        /\ asked' = [asked EXCEPT !.show = show]
    BY DEF vga_showcursor
  <1>2. ShowCall(show) = <<With("hwshow", show), With("status", show)>>
    <2>1. ShowCall(show) = <<With("hwshow", show)>> \o <<With("status", show)>>
      BY <1>1, Zenon DEF ShowCall
    <2>2. QED BY <2>1, Pair, Zenon
  <1>3. /\ Idle /\ todo' = ShowCall(show) /\ locked'
        /\ sx' = sx /\ sp' = sp /\ status' = status /\ cursor' = cursor
        /\ cursors' = cursors /\ own' = own /\ hw' = hw
        /\ chipset_cursor' = chipset_cursor /\ Hardware' = Hardware
        /\ (Software' <=> Software) /\ locked' \in BOOLEAN
    BY <1>1, HwCalled
  <1>4. Op = "end" /\ Op' = "hwshow" /\ ~Idle'
    BY <1>2, <1>3 DEF Op, Idle, With
  <1>5. /\ asked'.show = show /\ asked'.x = asked.x /\ asked'.sel = asked.sel
        /\ asked'.image = asked.image /\ Asked'
    <2>1. show \in 0..1
      BY <1>1
    <2>2. QED BY <1>1, <1>3, <2>1 DEF Asked
  <1>6. Noted'
    BY <1>3, <1>4, <1>5 DEF HardInv, Noted
  <1>7. Calling'
    BY <1>2, <1>3, <1>4, <1>5 DEF Calling, HardwareTodo
  <1>8. Within'
    BY <1>3, <1>5 DEF HardInv, Within, Brought
  <1>9. Spared'
    BY <1>4 DEF Spared
  <1>10. Alone'
    BY <1>3, <1>5 DEF HardInv, Alone
  <1>11. InPlace'
    <2>1. status = asked.show
      BY <1>4 DEF HardInv, Noted
    <2>2. QED BY <1>3, <1>4, <2>1 DEF HardInv, InPlace
  <1>12. InImage'
    BY <1>3, <1>4 DEF HardInv, InImage
  <1>13. QED BY <1>5, <1>6, <1>7, <1>8, <1>9, <1>10, <1>11, <1>12 DEF HardInv

LEMMA HwPositionCall ==
  ASSUME ~Software, Wary, Asked, HardInv, NEW x \in Spot, vga_setcursorposition(x)
  PROVE  HardInv' /\ Asked'
  <1> DEFINE d == Hardware
  <1>1. /\ Call(PositionCall(x), FALSE)
        /\ asked' = [asked EXCEPT !.x = x] /\ Brought(x)
    BY DEF vga_setcursorposition, Brought, Apart
  <1>2. PositionCall(x) = <<With("sx", x), With("hwplace", x)>>
    <2>1. PositionCall(x) = <<With("sx", x)>> \o <<With("hwplace", x)>>
      BY DEF PositionCall
    <2>2. QED BY <2>1, Pair, Zenon
  <1>3. /\ Idle /\ todo' = PositionCall(x)
        /\ sx' = sx /\ sp' = sp /\ status' = status /\ cursor' = cursor
        /\ cursors' = cursors /\ own' = own /\ hw' = hw
        /\ chipset_cursor' = chipset_cursor /\ Hardware' = Hardware
        /\ (Software' <=> Software) /\ locked' \in BOOLEAN
    BY <1>1, HwCalled
  <1>4. Op = "end" /\ Op' = "sx" /\ ~Idle'
    BY <1>2, <1>3 DEF Op, Idle, With
  <1>5. /\ asked'.show = asked.show /\ asked'.x = x /\ asked'.sel = asked.sel
        /\ asked'.image = asked.image /\ Asked'
    BY <1>1, <1>3 DEF Asked
  <1>6. Noted'
    BY <1>3, <1>4, <1>5 DEF HardInv, Noted
  <1>7. Calling'
    BY <1>2, <1>3, <1>4, <1>5 DEF Calling, HardwareTodo
  <1>8. Within'
    BY <1>1, <1>3, <1>5 DEF HardInv, Within, Brought
  <1>9. Spared'
    BY <1>4 DEF Spared
  <1>10. Alone'
    BY <1>3, <1>5 DEF HardInv, Alone
  <1>11. InPlace'
    BY <1>3, <1>4, <1>5 DEF HardInv, InPlace
  <1>12. InImage'
    BY <1>3, <1>4 DEF HardInv, InImage
  <1>13. QED BY <1>5, <1>6, <1>7, <1>8, <1>9, <1>10, <1>11, <1>12 DEF HardInv

LEMMA HwSelectCall ==
  ASSUME ~Software, Wary, Asked, HardInv, NEW c \in Cur, vga_selectcursor(c)
  PROVE  HardInv' /\ Asked'
  <1> DEFINE d == Hardware
  <1>1. /\ Call(SelectCall(c), FALSE)
        /\ asked' = [asked EXCEPT !.sel = c] /\ asked.image[c] # NoImage
    BY DEF vga_selectcursor
  <1>2. SelectCall(c) = <<With("sp", c), With("hwsel", c)>>
    BY DEF SelectCall
  <1>3. /\ Idle /\ todo' = SelectCall(c)
        /\ sx' = sx /\ sp' = sp /\ status' = status /\ cursor' = cursor
        /\ cursors' = cursors /\ own' = own /\ hw' = hw
        /\ chipset_cursor' = chipset_cursor /\ Hardware' = Hardware
        /\ (Software' <=> Software) /\ locked' \in BOOLEAN
    BY <1>1, HwCalled
  <1>4. Op = "end" /\ Op' = "sp" /\ ~Idle'
    BY <1>2, <1>3 DEF Op, Idle, With
  <1>5. /\ asked'.show = asked.show /\ asked'.x = asked.x /\ asked'.sel = c
        /\ asked'.image = asked.image /\ Asked'
    BY <1>1, <1>3 DEF Asked
  <1>6. Noted'
    BY <1>1, <1>3, <1>4, <1>5 DEF HardInv, Noted
  <1>7. Calling'
    BY <1>2, <1>3, <1>4, <1>5 DEF Calling, HardwareTodo
  <1>8. Within'
    BY <1>3, <1>5 DEF HardInv, Within, Brought
  <1>9. Spared'
    BY <1>4 DEF Spared
  <1>10. Alone'
    BY <1>1, <1>3, <1>5 DEF HardInv, Alone
  <1>11. InPlace'
    BY <1>3, <1>4, <1>5 DEF HardInv, InPlace
  <1>12. InImage'
    BY <1>3, <1>4 DEF HardInv, InImage
  <1>13. QED BY <1>5, <1>6, <1>7, <1>8, <1>9, <1>10, <1>11, <1>12 DEF HardInv

LEMMA HwImageCall ==
  ASSUME ~Software, Wary, Asked, HardInv, NEW c \in Cur, NEW image \in Images,
         vga_setcursorimage(c, image)
  PROVE  HardInv' /\ Asked'
  <1> DEFINE d == Hardware
  <1>1. /\ Call(ImageCall(c, image), FALSE)
        /\ asked' = [asked EXCEPT !.image[c] = image]
        /\ IF d.images = "at both" THEN c = sp ELSE d.colors = "image" \/ c # sp
    BY DEF vga_setcursorimage
  <1>2. ImageCall(c, image) = <<With("keep", <<c, image>>), With("hwimage", <<c, image>>)>>
    <2>1. ImageCall(c, image) = <<With("keep", <<c, image>>)>> \o <<With("hwimage", <<c, image>>)>>
      BY DEF ImageCall
    <2>2. QED BY <2>1, Pair, Zenon
  <1>3. /\ Idle /\ todo' = ImageCall(c, image)
        /\ sx' = sx /\ sp' = sp /\ status' = status /\ cursor' = cursor
        /\ cursors' = cursors /\ own' = own /\ hw' = hw
        /\ chipset_cursor' = chipset_cursor /\ Hardware' = Hardware
        /\ (Software' <=> Software) /\ locked' \in BOOLEAN
    BY <1>1, HwCalled
  <1>4. Op = "end" /\ Op' = "keep" /\ ~Idle' /\ Subject' = c
    BY <1>2, <1>3 DEF Op, Idle, With, Subject
  <1>o. image \in Pictured /\ image # NoImage
    BY DEF Pictured, Images, NoImage
  <1>5. /\ asked'.show = asked.show /\ asked'.x = asked.x /\ asked'.sel = asked.sel
        /\ asked'.image = [asked.image EXCEPT ![c] = image] /\ Asked'
    BY <1>1, <1>3, <1>o DEF Asked
  <1>b. \A e \in Cur : asked'.image[e] = IF e = c THEN image ELSE asked.image[e]
    BY <1>5 DEF Asked
  <1>6. Noted'
    <2>1. asked.sel \in Cur
      BY DEF Asked
    <2>2. QED BY <1>3, <1>4, <1>5, <1>b, <1>o, <2>1 DEF HardInv, Noted
  <1>7. Calling'
    <2>1. todo' = <<With("keep", <<c, asked'.image[c]>>), With("hwimage", <<c, asked'.image[c]>>)>>
      BY <1>2, <1>3, <1>b
    <2>2. QED BY <1>4, <2>1 DEF Calling, HardwareTodo
  <1>8. Within'
    BY <1>3, <1>5 DEF HardInv, Within, Brought
  <1>9. Spared'
    BY <1>1, <1>3, <1>4 DEF Spared
  <1>10. Alone'
    <2>1. sp = asked.sel
      BY <1>4 DEF HardInv, Noted
    <2>2. QED BY <1>1, <1>3, <1>5, <1>b, <2>1 DEF HardInv, Alone
  <1>11. InPlace'
    BY <1>3, <1>4, <1>5 DEF HardInv, InPlace
  <1>12. InImage'
    BY <1>3, <1>4 DEF HardInv, InImage
  <1>13. QED BY <1>5, <1>6, <1>7, <1>8, <1>9, <1>10, <1>11, <1>12 DEF HardInv

LEMMA JoinTwoOne ==
  ASSUME NEW a, NEW b, NEW c
  PROVE  <<a, b>> \o <<c>> = <<a, b, c>>
  <1> DEFINE s == <<a, b>>
             t == <<c>>
             u == <<a, b, c>>
             S == {a, b, c}
  <1>1. s \in Seq(S) /\ t \in Seq(S) /\ u \in Seq(S)
    OBVIOUS
  <1>2. Len(s) = 2 /\ Len(t) = 1 /\ Len(u) = 3
    OBVIOUS
  <1>3. /\ s[1] = a /\ s[2] = b
        /\ t[1] = c
        /\ u[1] = a /\ u[2] = b /\ u[3] = c
    OBVIOUS
  <1> HIDE DEF s, t, u, S
  <1>4. s \o t = u
    <2>1. \A k \in 1..Len(s) : u[k] = s[k]
      BY <1>2, <1>3
    <2>2. \A k \in 1..Len(t) : u[Len(s) + k] = t[k]
      BY <1>2, <1>3
    <2>3. Len(u) = Len(s) + Len(t)
      BY <1>2
    <2>4. QED BY <1>1, <2>1, <2>2, <2>3, Joined, Zenon
  <1>5. QED BY <1>4 DEF s, t, u

LEMMA JoinThreeOne ==
  ASSUME NEW a, NEW b, NEW c, NEW d
  PROVE  <<a, b, c>> \o <<d>> = <<a, b, c, d>>
  <1> DEFINE s == <<a, b, c>>
             t == <<d>>
             u == <<a, b, c, d>>
             S == {a, b, c, d}
  <1>1. s \in Seq(S) /\ t \in Seq(S) /\ u \in Seq(S)
    OBVIOUS
  <1>2. Len(s) = 3 /\ Len(t) = 1 /\ Len(u) = 4
    OBVIOUS
  <1>3. /\ s[1] = a /\ s[2] = b /\ s[3] = c
        /\ t[1] = d
        /\ u[1] = a /\ u[2] = b /\ u[3] = c /\ u[4] = d
    OBVIOUS
  <1> HIDE DEF s, t, u, S
  <1>4. s \o t = u
    <2>1. \A k \in 1..Len(s) : u[k] = s[k]
      BY <1>2, <1>3
    <2>2. \A k \in 1..Len(t) : u[Len(s) + k] = t[k]
      BY <1>2, <1>3
    <2>3. Len(u) = Len(s) + Len(t)
      BY <1>2
    <2>4. QED BY <1>1, <2>1, <2>2, <2>3, Joined, Zenon
  <1>5. QED BY <1>4 DEF s, t, u

LEMMA JoinThreeThree ==
  ASSUME NEW a, NEW b, NEW c, NEW d, NEW e, NEW f
  PROVE  <<a, b, c>> \o <<d, e, f>> = <<a, b, c, d, e, f>>
  <1> DEFINE s == <<a, b, c>>
             t == <<d, e, f>>
             u == <<a, b, c, d, e, f>>
             S == {a, b, c, d, e, f}
  <1>1. s \in Seq(S) /\ t \in Seq(S) /\ u \in Seq(S)
    OBVIOUS
  <1>2. Len(s) = 3 /\ Len(t) = 3 /\ Len(u) = 6
    OBVIOUS
  <1>3. /\ s[1] = a /\ s[2] = b /\ s[3] = c
        /\ t[1] = d /\ t[2] = e /\ t[3] = f
        /\ u[1] = a /\ u[2] = b /\ u[3] = c /\ u[4] = d /\ u[5] = e /\ u[6] = f
    OBVIOUS
  <1> HIDE DEF s, t, u, S
  <1>4. s \o t = u
    <2>1. \A k \in 1..Len(s) : u[k] = s[k]
      BY <1>2, <1>3
    <2>2. \A k \in 1..Len(t) : u[Len(s) + k] = t[k]
      BY <1>2, <1>3
    <2>3. Len(u) = Len(s) + Len(t)
      BY <1>2
    <2>4. QED BY <1>1, <2>1, <2>2, <2>3, Joined, Zenon
  <1>5. QED BY <1>4 DEF s, t, u

LEMMA JoinOneSix ==
  ASSUME NEW a, NEW b, NEW c, NEW d, NEW e, NEW f, NEW g
  PROVE  <<a>> \o <<b, c, d, e, f, g>> = <<a, b, c, d, e, f, g>>
  <1> DEFINE s == <<a>>
             t == <<b, c, d, e, f, g>>
             u == <<a, b, c, d, e, f, g>>
             S == {a, b, c, d, e, f, g}
  <1>1. s \in Seq(S) /\ t \in Seq(S) /\ u \in Seq(S)
    OBVIOUS
  <1>2. Len(s) = 1 /\ Len(t) = 6 /\ Len(u) = 7
    OBVIOUS
  <1>3. /\ s[1] = a
        /\ t[1] = b /\ t[2] = c /\ t[3] = d /\ t[4] = e /\ t[5] = f /\ t[6] = g
        /\ u[1] = a /\ u[2] = b /\ u[3] = c /\ u[4] = d /\ u[5] = e /\ u[6] = f /\ u[7] = g
    OBVIOUS
  <1> HIDE DEF s, t, u, S
  <1>4. s \o t = u
    <2>1. \A k \in 1..Len(s) : u[k] = s[k]
      BY <1>2, <1>3
    <2>2. \A k \in 1..Len(t) : u[Len(s) + k] = t[k]
      BY <1>2, <1>3
    <2>3. Len(u) = Len(s) + Len(t)
      BY <1>2
    <2>4. QED BY <1>1, <2>1, <2>2, <2>3, Joined, Zenon
  <1>5. QED BY <1>4 DEF s, t, u

-----------------------------------------------------------------------------
(* The calls of the software cursor.                                       *)
SoftwareTodo ==
  \/ asked.show = 1 /\ todo = <<Do("save"), Do("draw"), Do("shown"), With("status", asked.show)>>
  \/ asked.show = 1 /\ todo = <<Do("draw"), Do("shown"), With("status", asked.show)>>
  \/ asked.show = 1 /\ todo = <<Do("shown"), With("status", asked.show)>>
  \/ todo = <<With("status", asked.show)>>
  \/ asked.show = 0 /\ todo = <<Do("uncover"), Do("hidden"), With("status", asked.show)>>
  \/ asked.show = 0 /\ todo = <<Do("hidden"), With("status", asked.show)>>
  \/ asked.show = 1 /\ todo = <<With("sx", asked.x), Do("uncover"), Do("hidden"), With("place", asked.x), Do("save"), Do("draw"), Do("shown")>>
  \/ asked.show = 1 /\ todo = <<Do("uncover"), Do("hidden"), With("place", asked.x), Do("save"), Do("draw"), Do("shown")>>
  \/ asked.show = 1 /\ todo = <<Do("hidden"), With("place", asked.x), Do("save"), Do("draw"), Do("shown")>>
  \/ asked.show = 1 /\ todo = <<With("place", asked.x), Do("save"), Do("draw"), Do("shown")>>
  \/ asked.show = 1 /\ todo = <<Do("save"), Do("draw"), Do("shown")>>
  \/ asked.show = 1 /\ todo = <<Do("draw"), Do("shown")>>
  \/ asked.show = 1 /\ todo = <<Do("shown")>>
  \/ asked.show = 0 /\ todo = <<With("sx", asked.x), With("place", asked.x)>>
  \/ asked.show = 0 /\ todo = <<With("place", asked.x)>>
  \/ todo = <<With("sp", asked.sel), With("cursor", asked.sel)>>
  \/ todo = <<With("cursor", asked.sel)>>
  \/ \E c \in Cur : todo = <<With("keep", <<c, asked.image[c]>>)>>

StatusLast == ~Idle /\ todo[Len(todo)].op = "status"

SwUncoverStep ==
  /\ Op = "uncover" /\ Op' = "hidden"
  /\ sw' = draw_cursor(sw, sw.buf)
  /\ UNCHANGED <<sx, sp, status, cursor, cursors>>
SwHiddenStep ==
  /\ Op = "hidden" /\ Op' = IF asked.show = 1 THEN "place" ELSE "status"
  /\ sw' = [sw EXCEPT !.cur_show = 0]
  /\ UNCHANGED <<sx, sp, status, cursor, cursors>>
SwPlaceStep ==
  /\ Op = "place" /\ Op' = IF asked.show = 1 THEN "save" ELSE "end"
  /\ sw' = [sw EXCEPT !.cur_x = asked.x]
  /\ UNCHANGED <<sx, sp, status, cursor, cursors>>
SwSaveStep ==
  /\ Op = "save" /\ Op' = "draw" /\ asked.show = 1
  /\ sw' = get_cursor(sw)
  /\ UNCHANGED <<sx, sp, status, cursor, cursors>>
SwDrawStep ==
  /\ Op = "draw" /\ Op' = "shown" /\ asked.show = 1
  /\ sw' = draw_cursor(sw, Pattern(sw, cursors[cursor]))
  /\ UNCHANGED <<sx, sp, status, cursor, cursors>>
SwShownStep ==
  /\ Op = "shown" /\ Op' \in {"status", "end"} /\ asked.show = 1
  /\ sw' = [sw EXCEPT !.cur_show = 1]
  /\ UNCHANGED <<sx, sp, status, cursor, cursors>>
SwStatusStep ==
  /\ Op = "status" /\ Op' = "end"
  /\ status' = asked.show
  /\ UNCHANGED <<sw, sx, sp, cursor, cursors>>
SwSxStep ==
  /\ Op = "sx" /\ Op' = IF asked.show = 1 THEN "uncover" ELSE "place"
  /\ sx' = asked.x
  /\ UNCHANGED <<sw, sp, status, cursor, cursors>>
SwSpStep ==
  /\ Op = "sp" /\ Op' = "cursor"
  /\ sp' = asked.sel
  /\ UNCHANGED <<sw, sx, status, cursor, cursors>>
SwCursorStep ==
  /\ Op = "cursor" /\ Op' = "end"
  /\ cursor' = asked.sel
  /\ UNCHANGED <<sw, sx, sp, status, cursors>>
SwKeepStep ==
  /\ Op = "keep" /\ Op' = "end" /\ Subject \in Cur
  /\ cursors' = [cursors EXCEPT ![Subject] = asked.image[Subject]]
  /\ UNCHANGED <<sw, sx, sp, status, cursor>>

LEMMA SoftwareSteps ==
  ASSUME SoftwareTodo, asked.show \in 0..1, locked, Step
  PROVE  /\ SoftwareTodo' \/ Idle'
         /\ \/ SwUncoverStep \/ SwHiddenStep \/ SwPlaceStep \/ SwSaveStep
            \/ SwDrawStep \/ SwShownStep \/ SwStatusStep \/ SwSxStep
            \/ SwSpStep \/ SwCursorStep \/ SwKeepStep
         /\ Op # "status" => (StatusLast => StatusLast')
         /\ own' = own /\ (Idle' \/ locked') /\ (Idle' => ~locked') /\ locked' \in BOOLEAN
         /\ UNCHANGED <<chipset_cursor, drawn, asked>>
  <1> DEFINE step == Head(todo)
  <1>1. /\ sw' = IF step.op \in SoftwareOps
                 THEN SoftwareStep(sw, step, cursors[cursor]) ELSE sw
        /\ sx' = IF step.op = "sx" THEN step.arg ELSE sx
        /\ sp' = IF step.op = "sp" THEN step.arg ELSE sp
        /\ status' = IF step.op = "status" THEN step.arg ELSE status
        /\ cursor' = IF step.op = "cursor" THEN step.arg ELSE cursor
        /\ cursors' = IF step.op = "keep"
                      THEN [cursors EXCEPT ![step.arg[1]] = step.arg[2]] ELSE cursors
        /\ own' = IF step.op = "hwimage"
                  THEN [own EXCEPT ![step.arg[1]] = step.arg[2]] ELSE own
    BY Zenon DEF Step
  <1>2. /\ todo' = Tail(todo)
        /\ Len(todo) = 1 => ~locked'
        /\ Len(todo) > 1 => locked'
        /\ locked' \in BOOLEAN
        /\ asked' = asked /\ drawn' = drawn /\ chipset_cursor' = chipset_cursor
    <2>1. locked' = (locked /\ Len(todo) > 1)
      BY DEF Step
    <2>2. Len(todo) = 1 => ~(Len(todo) > 1)
      OBVIOUS
    <2>3. (Len(todo) = 1 => ~locked') /\ (Len(todo) > 1 => locked') /\ locked' \in BOOLEAN
      BY <2>1, <2>2, Zenon
    <2>4. /\ todo' = Tail(todo)
          /\ asked' = asked /\ drawn' = drawn /\ chipset_cursor' = chipset_cursor
      BY DEF Step
    <2>5. QED BY <2>3, <2>4
  <1>3. /\ step.op = "uncover" => SoftwareStep(sw, step, cursors[cursor]) = draw_cursor(sw, sw.buf)
        /\ step.op = "hidden" => SoftwareStep(sw, step, cursors[cursor]) = [sw EXCEPT !.cur_show = 0]
        /\ step.op = "save" => SoftwareStep(sw, step, cursors[cursor]) = get_cursor(sw)
        /\ step.op = "draw" =>
             SoftwareStep(sw, step, cursors[cursor]) = draw_cursor(sw, Pattern(sw, cursors[cursor]))
        /\ step.op = "shown" => SoftwareStep(sw, step, cursors[cursor]) = [sw EXCEPT !.cur_show = 1]
        /\ step.op = "place" =>
             SoftwareStep(sw, step, cursors[cursor]) = [sw EXCEPT !.cur_x = step.arg]
    BY Zenon DEF SoftwareStep
  <1> HIDE DEF step
  <1> DEFINE Result ==
         /\ SoftwareTodo' \/ Idle'
         /\ \/ SwUncoverStep \/ SwHiddenStep \/ SwPlaceStep \/ SwSaveStep
            \/ SwDrawStep \/ SwShownStep \/ SwStatusStep \/ SwSxStep
            \/ SwSpStep \/ SwCursorStep \/ SwKeepStep
         /\ Op # "status" => (StatusLast => StatusLast')
         /\ own' = own /\ (Idle' \/ locked') /\ (Idle' => ~locked') /\ locked' \in BOOLEAN
  <1>4. ASSUME asked.show = 1, todo = <<Do("save"), Do("draw"), Do("shown"), With("status", asked.show)>>
        PROVE  Result
    <2>1. todo' = <<Do("draw"), Do("shown"), With("status", asked.show)>> /\ ~Idle /\ ~Idle' /\ Len(todo) = 4
      BY <1>2, <1>4 DEF Idle
    <2>2. step.op = "save" /\ step.arg = 0 /\ Head(todo').op = "draw"
      BY <1>4, <2>1 DEF With, Do, step
    <2>3. SoftwareTodo'
      BY <1>2, <1>4, <2>1 DEF SoftwareTodo
    <2>4. StatusLast'
      BY <2>1 DEF StatusLast, With, Do
    <2>5. SwSaveStep
      BY <1>1, <1>2, <1>3, <1>4, <2>1, <2>2 DEF SwSaveStep, Op, step, SoftwareOps
    <2>6. own' = own
      BY <1>1, <2>2
    <2>7. QED BY <1>2, <2>1, <2>3, <2>4, <2>5, <2>6
  <1>5. ASSUME asked.show = 1, todo = <<Do("draw"), Do("shown"), With("status", asked.show)>>
        PROVE  Result
    <2>1. todo' = <<Do("shown"), With("status", asked.show)>> /\ ~Idle /\ ~Idle' /\ Len(todo) = 3
      BY <1>2, <1>5 DEF Idle
    <2>2. step.op = "draw" /\ step.arg = 0 /\ Head(todo').op = "shown"
      BY <1>5, <2>1 DEF With, Do, step
    <2>3. SoftwareTodo'
      BY <1>2, <1>5, <2>1 DEF SoftwareTodo
    <2>4. StatusLast'
      BY <2>1 DEF StatusLast, With, Do
    <2>5. SwDrawStep
      BY <1>1, <1>2, <1>3, <1>5, <2>1, <2>2 DEF SwDrawStep, Op, step, SoftwareOps
    <2>6. own' = own
      BY <1>1, <2>2
    <2>7. QED BY <1>2, <2>1, <2>3, <2>4, <2>5, <2>6
  <1>6. ASSUME asked.show = 1, todo = <<Do("shown"), With("status", asked.show)>>
        PROVE  Result
    <2>1. todo' = <<With("status", asked.show)>> /\ ~Idle /\ ~Idle' /\ Len(todo) = 2
      BY <1>2, <1>6 DEF Idle
    <2>2. step.op = "shown" /\ step.arg = 0 /\ Head(todo').op = "status"
      BY <1>6, <2>1 DEF With, Do, step
    <2>3. SoftwareTodo'
      BY <1>2, <1>6, <2>1 DEF SoftwareTodo
    <2>4. StatusLast'
      BY <2>1 DEF StatusLast, With, Do
    <2>5. SwShownStep
      BY <1>1, <1>2, <1>3, <1>6, <2>1, <2>2 DEF SwShownStep, Op, step, SoftwareOps
    <2>6. own' = own
      BY <1>1, <2>2
    <2>7. QED BY <1>2, <2>1, <2>3, <2>4, <2>5, <2>6
  <1>7. ASSUME todo = <<With("status", asked.show)>>
        PROVE  Result
    <2>1. todo' = <<>> /\ ~Idle /\ Idle' /\ Len(todo) = 1
      BY <1>2, <1>7 DEF Idle
    <2>2. step.op = "status" /\ step.arg = asked.show
      BY <1>7 DEF With, Do, step
    <2>4. Op = "status"
      BY <2>1, <2>2 DEF Op, step
    <2>5. SwStatusStep
      BY <1>1, <1>2, <1>3, <1>7, <2>1, <2>2 DEF SwStatusStep, Op, step, SoftwareOps
    <2>6. own' = own
      BY <1>1, <2>2
    <2>7. QED BY <1>2, <2>1, <2>4, <2>5, <2>6
  <1>8. ASSUME asked.show = 0, todo = <<Do("uncover"), Do("hidden"), With("status", asked.show)>>
        PROVE  Result
    <2>1. todo' = <<Do("hidden"), With("status", asked.show)>> /\ ~Idle /\ ~Idle' /\ Len(todo) = 3
      BY <1>2, <1>8 DEF Idle
    <2>2. step.op = "uncover" /\ step.arg = 0 /\ Head(todo').op = "hidden"
      BY <1>8, <2>1 DEF With, Do, step
    <2>3. SoftwareTodo'
      BY <1>2, <1>8, <2>1 DEF SoftwareTodo
    <2>4. StatusLast'
      BY <2>1 DEF StatusLast, With, Do
    <2>5. SwUncoverStep
      BY <1>1, <1>2, <1>3, <1>8, <2>1, <2>2 DEF SwUncoverStep, Op, step, SoftwareOps
    <2>6. own' = own
      BY <1>1, <2>2
    <2>7. QED BY <1>2, <2>1, <2>3, <2>4, <2>5, <2>6
  <1>9. ASSUME asked.show = 0, todo = <<Do("hidden"), With("status", asked.show)>>
        PROVE  Result
    <2>1. todo' = <<With("status", asked.show)>> /\ ~Idle /\ ~Idle' /\ Len(todo) = 2
      BY <1>2, <1>9 DEF Idle
    <2>2. step.op = "hidden" /\ step.arg = 0 /\ Head(todo').op = "status"
      BY <1>9, <2>1 DEF With, Do, step
    <2>3. SoftwareTodo'
      BY <1>2, <1>9, <2>1 DEF SoftwareTodo
    <2>4. StatusLast'
      BY <2>1 DEF StatusLast, With, Do
    <2>5. SwHiddenStep
      BY <1>1, <1>2, <1>3, <1>9, <2>1, <2>2 DEF SwHiddenStep, Op, step, SoftwareOps
    <2>6. own' = own
      BY <1>1, <2>2
    <2>7. QED BY <1>2, <2>1, <2>3, <2>4, <2>5, <2>6
  <1>10. ASSUME asked.show = 1, todo = <<With("sx", asked.x), Do("uncover"), Do("hidden"), With("place", asked.x), Do("save"), Do("draw"), Do("shown")>>
        PROVE  Result
    <2>1. todo' = <<Do("uncover"), Do("hidden"), With("place", asked.x), Do("save"), Do("draw"), Do("shown")>> /\ ~Idle /\ ~Idle' /\ Len(todo) = 7
      BY <1>2, <1>10 DEF Idle
    <2>2. step.op = "sx" /\ step.arg = asked.x /\ Head(todo').op = "uncover"
      BY <1>10, <2>1 DEF With, Do, step
    <2>3. SoftwareTodo'
      BY <1>2, <1>10, <2>1 DEF SoftwareTodo
    <2>4. ~StatusLast
      BY <1>10 DEF StatusLast, With, Do
    <2>5. SwSxStep
      BY <1>1, <1>2, <1>3, <1>10, <2>1, <2>2 DEF SwSxStep, Op, step, SoftwareOps
    <2>6. own' = own
      BY <1>1, <2>2
    <2>7. QED BY <1>2, <2>1, <2>3, <2>4, <2>5, <2>6
  <1>11. ASSUME asked.show = 1, todo = <<Do("uncover"), Do("hidden"), With("place", asked.x), Do("save"), Do("draw"), Do("shown")>>
        PROVE  Result
    <2>1. todo' = <<Do("hidden"), With("place", asked.x), Do("save"), Do("draw"), Do("shown")>> /\ ~Idle /\ ~Idle' /\ Len(todo) = 6
      BY <1>2, <1>11 DEF Idle
    <2>2. step.op = "uncover" /\ step.arg = 0 /\ Head(todo').op = "hidden"
      BY <1>11, <2>1 DEF With, Do, step
    <2>3. SoftwareTodo'
      BY <1>2, <1>11, <2>1 DEF SoftwareTodo
    <2>4. ~StatusLast
      BY <1>11 DEF StatusLast, With, Do
    <2>5. SwUncoverStep
      BY <1>1, <1>2, <1>3, <1>11, <2>1, <2>2 DEF SwUncoverStep, Op, step, SoftwareOps
    <2>6. own' = own
      BY <1>1, <2>2
    <2>7. QED BY <1>2, <2>1, <2>3, <2>4, <2>5, <2>6
  <1>12. ASSUME asked.show = 1, todo = <<Do("hidden"), With("place", asked.x), Do("save"), Do("draw"), Do("shown")>>
        PROVE  Result
    <2>1. todo' = <<With("place", asked.x), Do("save"), Do("draw"), Do("shown")>> /\ ~Idle /\ ~Idle' /\ Len(todo) = 5
      BY <1>2, <1>12 DEF Idle
    <2>2. step.op = "hidden" /\ step.arg = 0 /\ Head(todo').op = "place"
      BY <1>12, <2>1 DEF With, Do, step
    <2>3. SoftwareTodo'
      BY <1>2, <1>12, <2>1 DEF SoftwareTodo
    <2>4. ~StatusLast
      BY <1>12 DEF StatusLast, With, Do
    <2>5. SwHiddenStep
      BY <1>1, <1>2, <1>3, <1>12, <2>1, <2>2 DEF SwHiddenStep, Op, step, SoftwareOps
    <2>6. own' = own
      BY <1>1, <2>2
    <2>7. QED BY <1>2, <2>1, <2>3, <2>4, <2>5, <2>6
  <1>13. ASSUME asked.show = 1, todo = <<With("place", asked.x), Do("save"), Do("draw"), Do("shown")>>
        PROVE  Result
    <2>1. todo' = <<Do("save"), Do("draw"), Do("shown")>> /\ ~Idle /\ ~Idle' /\ Len(todo) = 4
      BY <1>2, <1>13 DEF Idle
    <2>2. step.op = "place" /\ step.arg = asked.x /\ Head(todo').op = "save"
      BY <1>13, <2>1 DEF With, Do, step
    <2>3. SoftwareTodo'
      BY <1>2, <1>13, <2>1 DEF SoftwareTodo
    <2>4. ~StatusLast
      BY <1>13 DEF StatusLast, With, Do
    <2>5. SwPlaceStep
      BY <1>1, <1>2, <1>3, <1>13, <2>1, <2>2 DEF SwPlaceStep, Op, step, SoftwareOps
    <2>6. own' = own
      BY <1>1, <2>2
    <2>7. QED BY <1>2, <2>1, <2>3, <2>4, <2>5, <2>6
  <1>14. ASSUME asked.show = 1, todo = <<Do("save"), Do("draw"), Do("shown")>>
        PROVE  Result
    <2>1. todo' = <<Do("draw"), Do("shown")>> /\ ~Idle /\ ~Idle' /\ Len(todo) = 3
      BY <1>2, <1>14 DEF Idle
    <2>2. step.op = "save" /\ step.arg = 0 /\ Head(todo').op = "draw"
      BY <1>14, <2>1 DEF With, Do, step
    <2>3. SoftwareTodo'
      BY <1>2, <1>14, <2>1 DEF SoftwareTodo
    <2>4. ~StatusLast
      BY <1>14 DEF StatusLast, With, Do
    <2>5. SwSaveStep
      BY <1>1, <1>2, <1>3, <1>14, <2>1, <2>2 DEF SwSaveStep, Op, step, SoftwareOps
    <2>6. own' = own
      BY <1>1, <2>2
    <2>7. QED BY <1>2, <2>1, <2>3, <2>4, <2>5, <2>6
  <1>15. ASSUME asked.show = 1, todo = <<Do("draw"), Do("shown")>>
        PROVE  Result
    <2>1. todo' = <<Do("shown")>> /\ ~Idle /\ ~Idle' /\ Len(todo) = 2
      BY <1>2, <1>15 DEF Idle
    <2>2. step.op = "draw" /\ step.arg = 0 /\ Head(todo').op = "shown"
      BY <1>15, <2>1 DEF With, Do, step
    <2>3. SoftwareTodo'
      BY <1>2, <1>15, <2>1 DEF SoftwareTodo
    <2>4. ~StatusLast
      BY <1>15 DEF StatusLast, With, Do
    <2>5. SwDrawStep
      BY <1>1, <1>2, <1>3, <1>15, <2>1, <2>2 DEF SwDrawStep, Op, step, SoftwareOps
    <2>6. own' = own
      BY <1>1, <2>2
    <2>7. QED BY <1>2, <2>1, <2>3, <2>4, <2>5, <2>6
  <1>16. ASSUME asked.show = 1, todo = <<Do("shown")>>
        PROVE  Result
    <2>1. todo' = <<>> /\ ~Idle /\ Idle' /\ Len(todo) = 1
      BY <1>2, <1>16 DEF Idle
    <2>2. step.op = "shown" /\ step.arg = 0
      BY <1>16 DEF With, Do, step
    <2>4. ~StatusLast
      BY <1>16 DEF StatusLast, With, Do
    <2>5. SwShownStep
      BY <1>1, <1>2, <1>3, <1>16, <2>1, <2>2 DEF SwShownStep, Op, step, SoftwareOps
    <2>6. own' = own
      BY <1>1, <2>2
    <2>7. QED BY <1>2, <2>1, <2>4, <2>5, <2>6
  <1>17. ASSUME asked.show = 0, todo = <<With("sx", asked.x), With("place", asked.x)>>
        PROVE  Result
    <2>1. todo' = <<With("place", asked.x)>> /\ ~Idle /\ ~Idle' /\ Len(todo) = 2
      BY <1>2, <1>17 DEF Idle
    <2>2. step.op = "sx" /\ step.arg = asked.x /\ Head(todo').op = "place"
      BY <1>17, <2>1 DEF With, Do, step
    <2>3. SoftwareTodo'
      BY <1>2, <1>17, <2>1 DEF SoftwareTodo
    <2>4. ~StatusLast
      BY <1>17 DEF StatusLast, With, Do
    <2>5. SwSxStep
      BY <1>1, <1>2, <1>3, <1>17, <2>1, <2>2 DEF SwSxStep, Op, step, SoftwareOps
    <2>6. own' = own
      BY <1>1, <2>2
    <2>7. QED BY <1>2, <2>1, <2>3, <2>4, <2>5, <2>6
  <1>18. ASSUME asked.show = 0, todo = <<With("place", asked.x)>>
        PROVE  Result
    <2>1. todo' = <<>> /\ ~Idle /\ Idle' /\ Len(todo) = 1
      BY <1>2, <1>18 DEF Idle
    <2>2. step.op = "place" /\ step.arg = asked.x
      BY <1>18 DEF With, Do, step
    <2>4. ~StatusLast
      BY <1>18 DEF StatusLast, With, Do
    <2>5. SwPlaceStep
      BY <1>1, <1>2, <1>3, <1>18, <2>1, <2>2 DEF SwPlaceStep, Op, step, SoftwareOps
    <2>6. own' = own
      BY <1>1, <2>2
    <2>7. QED BY <1>2, <2>1, <2>4, <2>5, <2>6
  <1>19. ASSUME todo = <<With("sp", asked.sel), With("cursor", asked.sel)>>
        PROVE  Result
    <2>1. todo' = <<With("cursor", asked.sel)>> /\ ~Idle /\ ~Idle' /\ Len(todo) = 2
      BY <1>2, <1>19 DEF Idle
    <2>2. step.op = "sp" /\ step.arg = asked.sel /\ Head(todo').op = "cursor"
      BY <1>19, <2>1 DEF With, Do, step
    <2>3. SoftwareTodo'
      BY <1>2, <1>19, <2>1 DEF SoftwareTodo
    <2>4. ~StatusLast
      BY <1>19 DEF StatusLast, With, Do
    <2>5. SwSpStep
      BY <1>1, <1>2, <1>3, <1>19, <2>1, <2>2 DEF SwSpStep, Op, step, SoftwareOps
    <2>6. own' = own
      BY <1>1, <2>2
    <2>7. QED BY <1>2, <2>1, <2>3, <2>4, <2>5, <2>6
  <1>20. ASSUME todo = <<With("cursor", asked.sel)>>
        PROVE  Result
    <2>1. todo' = <<>> /\ ~Idle /\ Idle' /\ Len(todo) = 1
      BY <1>2, <1>20 DEF Idle
    <2>2. step.op = "cursor" /\ step.arg = asked.sel
      BY <1>20 DEF With, Do, step
    <2>4. ~StatusLast
      BY <1>20 DEF StatusLast, With, Do
    <2>5. SwCursorStep
      BY <1>1, <1>2, <1>3, <1>20, <2>1, <2>2 DEF SwCursorStep, Op, step, SoftwareOps
    <2>6. own' = own
      BY <1>1, <2>2
    <2>7. QED BY <1>2, <2>1, <2>4, <2>5, <2>6
  <1>21. ASSUME NEW c \in Cur, todo = <<With("keep", <<c, asked.image[c]>>)>>
         PROVE  Result
    <2>1. todo' = <<>> /\ ~Idle /\ Idle' /\ Len(todo) = 1
      BY <1>2, <1>21 DEF Idle
    <2>2. step.op = "keep" /\ step.arg[1] = c /\ step.arg[2] = asked.image[c]
      BY <1>21 DEF With, step
    <2>4. ~StatusLast
      BY <1>21 DEF StatusLast, With
    <2>5. SwKeepStep
      BY <1>1, <1>2, <2>1, <2>2 DEF SwKeepStep, Op, Subject, step, SoftwareOps
    <2>6. own' = own
      BY <1>1, <2>2
    <2>7. QED BY <1>2, <2>1, <2>4, <2>5, <2>6
  <1>22. Result
    BY <1>4, <1>5, <1>6, <1>7, <1>8, <1>9, <1>10, <1>11, <1>12, <1>13, <1>14, <1>15, <1>16, <1>17, <1>18, <1>19, <1>20, <1>21 DEF SoftwareTodo
  <1>23. QED BY <1>2, <1>22

(* The picture p and what of it the cursor of s hides.                     *)
Sw == [screen : Line, buf : [0..(Size - 1) -> Shades], cur_x : Xs, cur_show : 0..1]
Clean(s) == \A x \in Xs : s.screen[x] = drawn[x]
Outside(s) == \A x \in Xs : x \notin Square(s.cur_x) => s.screen[x] = drawn[x]
Under(s) == \A k \in Clip(s.cur_x) : s.buf[k] = drawn[s.cur_x + k]
SameCursor(t, s) == t.buf = s.buf /\ t.cur_x = s.cur_x /\ t.cur_show = s.cur_show

LEMMA InSquare ==
  ASSUME NEW c \in Xs, NEW x \in Square(c)
  PROVE  x \in Xs /\ x - c \in Clip(c) /\ x - c \in 0..(Size - 1) /\ c + (x - c) = x
  <1>1. PICK k \in Clip(c) : x = c + k
    BY DEF Square
  <1>2. k \in 0..(Size - 1) /\ c + k < Width
    BY DEF Clip
  <1>3. Width \in Nat /\ Size \in Nat /\ c \in Nat
    BY CursorAssumption DEF Xs
  <1>4. x - c = k /\ x \in Xs
    BY <1>1, <1>2, <1>3 DEF Xs
  <1>5. QED BY <1>1, <1>2, <1>4

LEMMA DrawIs ==
  ASSUME NEW s \in Sw, NEW p \in [0..(Size - 1) -> Shades]
  PROVE  /\ draw_cursor(s, p) \in Sw /\ SameCursor(draw_cursor(s, p), s)
         /\ \A x \in Xs : draw_cursor(s, p).screen[x] =
                            IF x \in Square(s.cur_x) THEN p[x - s.cur_x] ELSE s.screen[x]
  <1> DEFINE screen == [x \in Xs |-> IF x \in Square(s.cur_x) THEN p[x - s.cur_x] ELSE s.screen[x]]
  <1>1. draw_cursor(s, p) = [s EXCEPT !.screen = screen]
    BY DEF draw_cursor
  <1>2. screen \in Line
    <2>1. ASSUME NEW x \in Xs
          PROVE  (IF x \in Square(s.cur_x) THEN p[x - s.cur_x] ELSE s.screen[x]) \in Shades
      <3>1. s.cur_x \in Xs /\ s.screen \in [Xs -> Shades]
        BY DEF Sw, Line
      <3>2. x \in Square(s.cur_x) => x - s.cur_x \in 0..(Size - 1)
        BY <3>1, InSquare
      <3>3. QED BY <3>1, <3>2
    <2>2. QED BY <2>1 DEF Line
  <1> HIDE DEF screen
  <1>3. draw_cursor(s, p) \in Sw /\ SameCursor(draw_cursor(s, p), s) /\ draw_cursor(s, p).screen = screen
    BY <1>1, <1>2 DEF Sw, SameCursor
  <1>4. QED BY <1>3 DEF screen

LEMMA UncoverIs ==
  ASSUME NEW s \in Sw, Outside(s), Under(s)
  PROVE  /\ draw_cursor(s, s.buf) \in Sw /\ SameCursor(draw_cursor(s, s.buf), s)
         /\ Clean(draw_cursor(s, s.buf))
  <1> DEFINE t == draw_cursor(s, s.buf)
  <1>1. s.buf \in [0..(Size - 1) -> Shades] /\ s.cur_x \in Xs
    BY DEF Sw
  <1>2. /\ t \in Sw /\ SameCursor(t, s)
        /\ \A x \in Xs : t.screen[x] = IF x \in Square(s.cur_x) THEN s.buf[x - s.cur_x] ELSE s.screen[x]
    BY <1>1, DrawIs
  <1>3. ASSUME NEW x \in Xs PROVE t.screen[x] = drawn[x]
    <2>1. CASE x \in Square(s.cur_x)
      <3>1. x - s.cur_x \in Clip(s.cur_x) /\ s.cur_x + (x - s.cur_x) = x
        BY <1>1, <2>1, InSquare
      <3>2. s.buf[x - s.cur_x] = drawn[s.cur_x + (x - s.cur_x)]
        BY <3>1 DEF Under
      <3>3. QED BY <1>2, <2>1, <3>1, <3>2
    <2>2. CASE x \notin Square(s.cur_x)
      BY <1>2, <2>2 DEF Outside
    <2>3. QED BY <2>1, <2>2
  <1>4. QED BY <1>2, <1>3 DEF Clean

LEMMA SaveIs ==
  ASSUME NEW s \in Sw, Clean(s)
  PROVE  /\ get_cursor(s) \in Sw /\ Clean(get_cursor(s)) /\ Under(get_cursor(s))
         /\ get_cursor(s).cur_x = s.cur_x /\ get_cursor(s).cur_show = s.cur_show
  <1> DEFINE b == [k \in 0..(Size - 1) |->
                     IF k \in Clip(s.cur_x) THEN s.screen[s.cur_x + k] ELSE s.buf[k]]
  <1>1. get_cursor(s) = [s EXCEPT !.buf = b]
    BY DEF get_cursor
  <1>2. \A k \in Clip(s.cur_x) : s.cur_x + k \in Xs /\ k \in 0..(Size - 1)
    <2>1. Width \in Nat /\ Size \in Nat /\ s.cur_x \in 0..(Width - 1)
      BY CursorAssumption DEF Sw, Xs
    <2>2. QED BY <2>1 DEF Clip, Xs
  <1>3. b \in [0..(Size - 1) -> Shades]
    <2>1. ASSUME NEW k \in 0..(Size - 1)
          PROVE  (IF k \in Clip(s.cur_x) THEN s.screen[s.cur_x + k] ELSE s.buf[k]) \in Shades
      BY <1>2 DEF Sw, Line
    <2>2. QED BY <2>1
  <1> HIDE DEF b
  <1>4. /\ get_cursor(s) \in Sw /\ get_cursor(s).buf = b /\ get_cursor(s).screen = s.screen
        /\ get_cursor(s).cur_x = s.cur_x /\ get_cursor(s).cur_show = s.cur_show
    BY <1>1, <1>3 DEF Sw
  <1>5. \A k \in Clip(s.cur_x) : b[k] = drawn[s.cur_x + k]
    BY <1>2 DEF b, Clean
  <1>6. QED BY <1>4, <1>5 DEF Clean, Under

LEMMA CoverIs ==
  ASSUME NEW s \in Sw, Clean(s), NEW image \in DOMAIN Mask
  PROVE  /\ draw_cursor(s, Pattern(s, image)) \in Sw
         /\ SameCursor(draw_cursor(s, Pattern(s, image)), s)
         /\ Outside(draw_cursor(s, Pattern(s, image)))
  <1> DEFINE p == Pattern(s, image)
             t == draw_cursor(s, p)
  <1>1. p \in [0..(Size - 1) -> Shades]
    <2>1. s.buf \in [0..(Size - 1) -> Shades] /\ image \in Shades
      BY DEF Sw, Shades
    <2>2. QED BY <2>1 DEF Pattern
  <1> HIDE DEF p
  <1>2. /\ t \in Sw /\ SameCursor(t, s)
        /\ \A x \in Xs : t.screen[x] = IF x \in Square(s.cur_x) THEN p[x - s.cur_x] ELSE s.screen[x]
    BY <1>1, DrawIs
  <1> HIDE DEF t
  <1>3. Outside(t)
    BY <1>2 DEF Outside, SameCursor, Clean
  <1>4. QED BY <1>2, <1>3 DEF p, t

LEMMA UnderSame ==
  ASSUME NEW s, NEW t, t.buf = s.buf, t.cur_x = s.cur_x
  PROVE  Under(t) <=> Under(s)
  BY DEF Under

LEMMA MarkIs ==
  ASSUME NEW s \in Sw, NEW show \in 0..1
  PROVE  LET t == [s EXCEPT !.cur_show = show]
         IN  /\ t \in Sw /\ t.cur_show = show /\ t.cur_x = s.cur_x
             /\ t.screen = s.screen /\ t.buf = s.buf
  BY DEF Sw

LEMMA MoveIs ==
  ASSUME NEW s \in Sw, NEW x \in Xs
  PROVE  LET t == [s EXCEPT !.cur_x = x]
         IN  /\ t \in Sw /\ t.cur_x = x /\ t.cur_show = s.cur_show
             /\ t.screen = s.screen /\ t.buf = s.buf
  BY DEF Sw

(* The picture, as far as the call in progress has come.                   *)
Settled(s) == IF s.cur_show = 1 THEN Outside(s) /\ Under(s) ELSE Clean(s)
SoftPicture ==
  /\ sw \in Sw
  /\ Op = "uncover" => Outside(sw) /\ Under(sw) /\ sw.cur_show = 1
  /\ Op = "hidden" => Clean(sw) /\ sw.cur_show = 1
  /\ Op = "place" => Clean(sw) /\ sw.cur_show = 0
  /\ Op = "save" => Clean(sw) /\ sw.cur_show = 0
  /\ Op = "draw" => Clean(sw) /\ Under(sw) /\ sw.cur_show = 0
  /\ Op = "shown" => Outside(sw) /\ Under(sw) /\ sw.cur_show = 0
  /\ Op \notin SoftwareOps => Settled(sw) /\ sw.cur_show = asked.show

SoftTold ==
  /\ sx \in Xs
  /\ Op # "sx" => sx = asked.x
  /\ Op # "sp" => sp = asked.sel
  /\ ~StatusLast => status = asked.show
  /\ Op \notin {"sp", "cursor"} => cursor = asked.sel
  /\ Op \notin {"sx", "place", "uncover", "hidden"} => sw.cur_x = asked.x
  /\ asked.show = 0 /\ Op \in {"uncover", "hidden"} => sw.cur_x = asked.x

(* A cursor that is shown has an image.                                    *)
SoftImages ==
  /\ cursors \in [Cur -> DOMAIN Mask \cup {NoImage}]
  /\ \A c \in Cur : asked.image[c] # NoImage /\ ~(Op = "keep" /\ Subject = c) => cursors[c] # NoImage
  /\ Op = "keep" => asked.image[Subject] # NoImage
  /\ asked.show = 1 => asked.image[asked.sel] # NoImage /\ cursors[cursor] # NoImage

SoftCalling ==
  /\ Idle \/ SoftwareTodo
  /\ Idle => ~locked
  /\ Idle \/ locked

SoftInv == SoftPicture /\ SoftTold /\ SoftImages /\ SoftCalling /\ drawn \in [Xs -> Ink]

LEMMA SamePicture ==
  ASSUME drawn' = drawn
  PROVE  /\ Clean(sw)' <=> Clean(sw')
         /\ Outside(sw)' <=> Outside(sw')
         /\ Under(sw)' <=> Under(sw')
  BY DEF Clean, Outside, Under

LEMMA SettledSame ==
  ASSUME drawn' = drawn, sw' = sw
  PROVE  /\ Clean(sw)' <=> Clean(sw)
         /\ Outside(sw)' <=> Outside(sw)
         /\ Under(sw)' <=> Under(sw)
         /\ Settled(sw)' <=> Settled(sw)
  BY DEF Clean, Outside, Under, Settled

-----------------------------------------------------------------------------
(* What is not the step's business stays.                                  *)
LEMMA SoftImagesSame ==
  ASSUME SoftImages, cursors' = cursors, cursor' = cursor, asked' = asked, Op # "keep", Op' # "keep"
  PROVE  SoftImages'
  BY DEF SoftImages

LEMMA SwUncoverKeeps ==
  ASSUME Asked, SoftInv, SoftCalling', SwUncoverStep, StatusLast => StatusLast',
         asked' = asked, drawn' = drawn
  PROVE  SoftInv'
  <1>s. /\ Op = "uncover" /\ Op' = "hidden" /\ sw' = draw_cursor(sw, sw.buf)
        /\ sx' = sx /\ sp' = sp /\ status' = status /\ cursor' = cursor /\ cursors' = cursors
    BY DEF SwUncoverStep
  <1>1. sw \in Sw /\ Outside(sw) /\ Under(sw) /\ sw.cur_show = 1
    BY <1>s DEF SoftInv, SoftPicture
  <1>2. sw' \in Sw /\ SameCursor(sw', sw) /\ Clean(sw')
    BY <1>s, <1>1, UncoverIs
  <1>3. SoftPicture'
    BY <1>s, <1>1, <1>2, SamePicture DEF SoftPicture, SameCursor, SoftwareOps
  <1>4. SoftTold'
    BY <1>s, <1>2 DEF SoftInv, SoftTold, SameCursor
  <1>5. SoftImages'
    BY <1>s, SoftImagesSame DEF SoftInv
  <1> QED BY <1>3, <1>4, <1>5 DEF SoftInv

LEMMA SwHiddenKeeps ==
  ASSUME Asked, SoftInv, SoftCalling', SwHiddenStep, StatusLast => StatusLast',
         asked' = asked, drawn' = drawn
  PROVE  SoftInv'
  <1>s. /\ Op = "hidden" /\ Op' = (IF asked.show = 1 THEN "place" ELSE "status")
        /\ sw' = [sw EXCEPT !.cur_show = 0]
        /\ sx' = sx /\ sp' = sp /\ status' = status /\ cursor' = cursor /\ cursors' = cursors
    BY DEF SwHiddenStep
  <1>1. sw \in Sw /\ Clean(sw)
    BY <1>s DEF SoftInv, SoftPicture
  <1>2. sw' \in Sw /\ sw'.cur_show = 0 /\ sw'.cur_x = sw.cur_x /\ sw'.screen = sw.screen
    BY <1>s, <1>1 DEF Sw
  <1>3. Clean(sw)'
    BY <1>1, <1>2 DEF Clean
  <1>4. asked.show \in 0..1
    BY DEF Asked
  <1>5. SoftPicture'
    <2>1. CASE asked.show = 1
      BY <1>s, <1>2, <1>3, <2>1 DEF SoftPicture, SoftwareOps
    <2>2. CASE asked.show = 0
      BY <1>s, <1>2, <1>3, <2>2 DEF SoftPicture, Settled, SoftwareOps
    <2>3. QED BY <1>4, <2>1, <2>2
  <1>6. SoftTold'
    BY <1>s, <1>2, <1>4 DEF SoftInv, SoftTold
  <1>7. SoftImages'
    BY <1>s, SoftImagesSame DEF SoftInv
  <1> QED BY <1>5, <1>6, <1>7 DEF SoftInv

LEMMA SwPlaceKeeps ==
  ASSUME Software, Asked, SoftInv, SoftCalling', SwPlaceStep, StatusLast => StatusLast',
         asked' = asked, drawn' = drawn
  PROVE  SoftInv'
  <1>s. /\ Op = "place" /\ Op' = (IF asked.show = 1 THEN "save" ELSE "end")
        /\ sw' = [sw EXCEPT !.cur_x = asked.x]
        /\ sx' = sx /\ sp' = sp /\ status' = status /\ cursor' = cursor /\ cursors' = cursors
    BY DEF SwPlaceStep
  <1>1. sw \in Sw /\ Clean(sw) /\ sw.cur_show = 0
    BY <1>s DEF SoftInv, SoftPicture
  <1>2. asked.x \in Xs /\ asked.show \in 0..1
    BY DEF Asked
  <1>3. sw' \in Sw /\ sw'.cur_show = 0 /\ sw'.cur_x = asked.x /\ sw'.screen = sw.screen
    BY <1>s, <1>1, <1>2, MoveIs
  <1>4. Clean(sw)'
    BY <1>1, <1>3 DEF Clean
  <1>5. SoftPicture'
    <2>1. CASE asked.show = 1
      BY <1>s, <1>3, <1>4, <2>1 DEF SoftPicture, SoftwareOps
    <2>2. CASE asked.show = 0
      BY <1>s, <1>3, <1>4, <2>2 DEF SoftPicture, Settled, SoftwareOps
    <2>3. QED BY <1>2, <2>1, <2>2
  <1>6. SoftTold'
    BY <1>s, <1>3 DEF SoftInv, SoftTold
  <1>7. SoftImages'
    BY <1>s, SoftImagesSame DEF SoftInv
  <1> QED BY <1>5, <1>6, <1>7 DEF SoftInv

LEMMA SwSaveKeeps ==
  ASSUME Asked, SoftInv, SoftCalling', SwSaveStep, StatusLast => StatusLast',
         asked' = asked, drawn' = drawn
  PROVE  SoftInv'
  <1>s. /\ Op = "save" /\ Op' = "draw" /\ sw' = get_cursor(sw)
        /\ sx' = sx /\ sp' = sp /\ status' = status /\ cursor' = cursor /\ cursors' = cursors
    BY DEF SwSaveStep
  <1>1. sw \in Sw /\ Clean(sw) /\ sw.cur_show = 0
    BY <1>s DEF SoftInv, SoftPicture
  <1>2. sw' \in Sw /\ Clean(sw') /\ Under(sw') /\ sw'.cur_x = sw.cur_x /\ sw'.cur_show = 0
    BY <1>s, <1>1, SaveIs
  <1>3. SoftPicture'
    BY <1>s, <1>2, SamePicture DEF SoftPicture, SoftwareOps
  <1>4. SoftTold'
    BY <1>s, <1>2 DEF SoftInv, SoftTold
  <1>5. SoftImages'
    BY <1>s, SoftImagesSame DEF SoftInv
  <1> QED BY <1>3, <1>4, <1>5 DEF SoftInv

LEMMA SwDrawKeeps ==
  ASSUME Asked, SoftInv, SoftCalling', SwDrawStep, StatusLast => StatusLast',
         asked' = asked, drawn' = drawn
  PROVE  SoftInv'
  <1>s. /\ Op = "draw" /\ Op' = "shown" /\ asked.show = 1
        /\ sw' = draw_cursor(sw, Pattern(sw, cursors[cursor]))
        /\ sx' = sx /\ sp' = sp /\ status' = status /\ cursor' = cursor /\ cursors' = cursors
    BY DEF SwDrawStep
  <1>1. sw \in Sw /\ Clean(sw) /\ Under(sw) /\ sw.cur_show = 0
    BY <1>s DEF SoftInv, SoftPicture
  <1>2. cursors[cursor] \in DOMAIN Mask
    BY <1>s DEF SoftInv, SoftImages, Asked
  <1>3. sw' \in Sw /\ SameCursor(sw', sw) /\ Outside(sw')
    BY <1>s, <1>1, <1>2, CoverIs
  <1>4. Under(sw')
    BY <1>1, <1>3, UnderSame DEF SameCursor
  <1>5. SoftPicture'
    BY <1>s, <1>1, <1>3, <1>4, SamePicture DEF SoftPicture, SoftwareOps, SameCursor
  <1>6. SoftTold'
    BY <1>s, <1>3 DEF SoftInv, SoftTold, SameCursor
  <1>7. SoftImages'
    BY <1>s, SoftImagesSame DEF SoftInv
  <1> QED BY <1>5, <1>6, <1>7 DEF SoftInv

LEMMA SwShownKeeps ==
  ASSUME Asked, SoftInv, SoftCalling', SwShownStep, StatusLast => StatusLast',
         asked' = asked, drawn' = drawn
  PROVE  SoftInv'
  <1>s. /\ Op = "shown" /\ Op' \in {"status", "end"} /\ asked.show = 1
        /\ sw' = [sw EXCEPT !.cur_show = 1]
        /\ sx' = sx /\ sp' = sp /\ status' = status /\ cursor' = cursor /\ cursors' = cursors
    BY DEF SwShownStep
  <1>1. sw \in Sw /\ Outside(sw) /\ Under(sw)
    BY <1>s DEF SoftInv, SoftPicture
  <1>2. /\ sw' \in Sw /\ sw'.cur_show = 1 /\ sw'.cur_x = sw.cur_x
        /\ sw'.screen = sw.screen /\ sw'.buf = sw.buf
    BY <1>s, <1>1 DEF Sw
  <1>3. Outside(sw)' /\ Under(sw)'
    BY <1>1, <1>2 DEF Outside, Under
  <1>4. SoftPicture'
    BY <1>s, <1>2, <1>3 DEF SoftPicture, Settled, SoftwareOps
  <1>5. SoftTold'
    BY <1>s, <1>2 DEF SoftInv, SoftTold
  <1>6. SoftImages'
    BY <1>s, SoftImagesSame DEF SoftInv
  <1> QED BY <1>4, <1>5, <1>6 DEF SoftInv

LEMMA SwStatusKeeps ==
  ASSUME Asked, SoftInv, SoftCalling', SwStatusStep, asked' = asked, drawn' = drawn
  PROVE  SoftInv'
  <1>s. /\ Op = "status" /\ Op' = "end" /\ status' = asked.show /\ sw' = sw
        /\ sx' = sx /\ sp' = sp /\ cursor' = cursor /\ cursors' = cursors
    BY DEF SwStatusStep
  <1>1. SoftPicture'
    BY <1>s, SettledSame DEF SoftInv, SoftPicture, SoftwareOps
  <1>2. SoftTold'
    BY <1>s DEF SoftInv, SoftTold
  <1>3. SoftImages'
    BY <1>s, SoftImagesSame DEF SoftInv
  <1> QED BY <1>1, <1>2, <1>3 DEF SoftInv

LEMMA SwSxKeeps ==
  ASSUME Software, Asked, SoftInv, SoftCalling', SwSxStep, StatusLast => StatusLast',
         asked' = asked, drawn' = drawn
  PROVE  SoftInv'
  <1>s. /\ Op = "sx" /\ Op' = (IF asked.show = 1 THEN "uncover" ELSE "place") /\ sw' = sw
        /\ sx' = asked.x /\ sp' = sp /\ status' = status /\ cursor' = cursor /\ cursors' = cursors
    BY DEF SwSxStep
  <1>1. sw \in Sw /\ Settled(sw) /\ sw.cur_show = asked.show
    BY <1>s DEF SoftInv, SoftPicture, SoftwareOps
  <1>2. asked.x \in Xs /\ asked.show \in 0..1
    BY DEF Asked
  <1>3. SoftPicture'
    <2>1. CASE asked.show = 1
      BY <1>s, <1>1, <2>1, SettledSame DEF SoftPicture, Settled, SoftwareOps
    <2>2. CASE asked.show = 0
      BY <1>s, <1>1, <2>2, SettledSame DEF SoftPicture, Settled, SoftwareOps
    <2>3. QED BY <1>2, <2>1, <2>2
  <1>4. SoftTold'
    BY <1>s, <1>2 DEF SoftInv, SoftTold
  <1>5. SoftImages'
    BY <1>s, SoftImagesSame DEF SoftInv
  <1> QED BY <1>3, <1>4, <1>5 DEF SoftInv

LEMMA SwSpKeeps ==
  ASSUME Asked, SoftInv, SoftCalling', SwSpStep, StatusLast => StatusLast',
         asked' = asked, drawn' = drawn
  PROVE  SoftInv'
  <1>s. /\ Op = "sp" /\ Op' = "cursor" /\ sp' = asked.sel /\ sw' = sw
        /\ sx' = sx /\ status' = status /\ cursor' = cursor /\ cursors' = cursors
    BY DEF SwSpStep
  <1>1. SoftPicture'
    BY <1>s, SettledSame DEF SoftInv, SoftPicture, SoftwareOps
  <1>2. SoftTold'
    BY <1>s DEF SoftInv, SoftTold
  <1>3. SoftImages'
    BY <1>s, SoftImagesSame DEF SoftInv
  <1> QED BY <1>1, <1>2, <1>3 DEF SoftInv

LEMMA SwCursorKeeps ==
  ASSUME Asked, SoftInv, SoftCalling', SwCursorStep, StatusLast => StatusLast',
         asked' = asked, drawn' = drawn
  PROVE  SoftInv'
  <1>s. /\ Op = "cursor" /\ Op' = "end" /\ cursor' = asked.sel /\ sw' = sw
        /\ sx' = sx /\ sp' = sp /\ status' = status /\ cursors' = cursors
    BY DEF SwCursorStep
  <1>1. SoftPicture'
    BY <1>s, SettledSame DEF SoftInv, SoftPicture, SoftwareOps
  <1>2. SoftTold'
    BY <1>s DEF SoftInv, SoftTold
  <1>3. SoftImages'
    <2>1. asked.sel \in Cur
      BY DEF Asked
    <2>2. QED BY <1>s, <2>1 DEF SoftInv, SoftImages
  <1> QED BY <1>1, <1>2, <1>3 DEF SoftInv

LEMMA SwKeepKeeps ==
  ASSUME Asked, SoftInv, SoftCalling', SwKeepStep, StatusLast => StatusLast',
         asked' = asked, drawn' = drawn
  PROVE  SoftInv'
  <1>s. /\ Op = "keep" /\ Op' = "end" /\ Subject \in Cur /\ sw' = sw
        /\ cursors' = [cursors EXCEPT ![Subject] = asked.image[Subject]]
        /\ sx' = sx /\ sp' = sp /\ status' = status /\ cursor' = cursor
    BY DEF SwKeepStep
  <1>1. SoftPicture'
    BY <1>s, SettledSame DEF SoftInv, SoftPicture, SoftwareOps
  <1>2. SoftTold'
    BY <1>s DEF SoftInv, SoftTold
  <1>3. SoftImages'
    <2>1. asked.image[Subject] # NoImage /\ asked.image[Subject] \in DOMAIN Mask
      <3>1. asked.image[Subject] # NoImage /\ asked.image[Subject] \in Pictured
        BY <1>s DEF Asked, SoftInv, SoftImages
      <3>2. QED BY <3>1 DEF Pictured, Images, Mask
    <2>2. cursors \in [Cur -> DOMAIN Mask \cup {NoImage}]
      BY DEF SoftInv, SoftImages
    <2>3. /\ cursors' \in [Cur -> DOMAIN Mask \cup {NoImage}]
          /\ \A c \in Cur : cursors'[c] = IF c = Subject THEN asked.image[Subject] ELSE cursors[c]
      BY <1>s, <2>1, <2>2
    <2>4. cursor \in Cur
      BY DEF Asked
    <2>5. QED BY <1>s, <2>1, <2>3, <2>4 DEF SoftInv, SoftImages
  <1> QED BY <1>1, <1>2, <1>3 DEF SoftInv

LEMMA SwCalled ==
  ASSUME Software, Wary, NEW steps, NEW shows \in BOOLEAN, Call(steps, shows)
  PROVE  /\ Idle /\ ~locked /\ todo' = steps /\ locked' /\ locked' \in BOOLEAN
         /\ sx' = sx /\ sp' = sp /\ status' = status /\ cursor' = cursor
         /\ cursors' = cursors /\ own' = own /\ sw' = sw /\ drawn' = drawn
         /\ chipset_cursor' = chipset_cursor /\ (Software' <=> Software)
  <1>1. locked' = (Wary /\ (Software \/ shows))
    BY DEF Call
  <1>2. locked' /\ locked' \in BOOLEAN
    BY <1>1
  <1>3. QED BY <1>2 DEF Call, told, Software

LEMMA ShowStepsJoined ==
  ASSUME NEW show
  PROVE  /\ Show(0) \o <<With("status", show)>> =
              <<Do("save"), Do("draw"), Do("shown"), With("status", show)>>
         /\ Show(1) \o <<With("status", show)>> = <<With("status", show)>>
         /\ Hide(1) \o <<With("status", show)>> =
              <<Do("uncover"), Do("hidden"), With("status", show)>>
         /\ Hide(0) \o <<With("status", show)>> = <<With("status", show)>>
  <1>1. Show(0) = <<Do("save"), Do("draw"), Do("shown")>> /\ Show(1) = <<>>
    BY DEF Show, ShowSteps
  <1>2. Hide(1) = <<Do("uncover"), Do("hidden")>> /\ Hide(0) = <<>>
    BY DEF Hide, HideSteps
  <1>3. <<>> \o <<With("status", show)>> = <<With("status", show)>>
    OBVIOUS
  <1>4. Show(0) \o <<With("status", show)>> =
              <<Do("save"), Do("draw"), Do("shown"), With("status", show)>>
    BY <1>1, JoinThreeOne, Zenon
  <1>5. Hide(1) \o <<With("status", show)>> =
              <<Do("uncover"), Do("hidden"), With("status", show)>>
    BY <1>2, JoinTwoOne, Zenon
  <1>6. QED BY <1>1, <1>2, <1>3, <1>4, <1>5, Zenon

LEMMA PositionSteps ==
  ASSUME NEW x
  PROVE  /\ Position(1, x) = <<Do("uncover"), Do("hidden"), With("place", x),
                               Do("save"), Do("draw"), Do("shown")>>
         /\ Position(0, x) = <<With("place", x)>>
  <1>1. Position(1, x) = (HideSteps \o <<With("place", x)>>) \o ShowSteps
    BY DEF Position
  <1>2. HideSteps \o <<With("place", x)>> = <<Do("uncover"), Do("hidden"), With("place", x)>>
    BY JoinTwoOne, Zenon DEF HideSteps
  <1>3. Position(1, x) = <<Do("uncover"), Do("hidden"), With("place", x)>>
                         \o <<Do("save"), Do("draw"), Do("shown")>>
    BY <1>1, <1>2, Zenon DEF ShowSteps
  <1>4. Position(1, x) = <<Do("uncover"), Do("hidden"), With("place", x),
                               Do("save"), Do("draw"), Do("shown")>>
    <2>1. <<Do("uncover"), Do("hidden"), With("place", x)>> \o <<Do("save"), Do("draw"), Do("shown")>>
            = <<Do("uncover"), Do("hidden"), With("place", x), Do("save"), Do("draw"), Do("shown")>>
      BY JoinThreeThree, SMT
    <2>2. QED BY <1>3, <2>1, Zenon
  <1>5. Position(0, x) = <<With("place", x)>>
    BY DEF Position
  <1>6. QED BY <1>4, <1>5

LEMMA Settledness ==
  ASSUME Idle, Asked, SoftInv
  PROVE  /\ Op = "end" /\ ~StatusLast
         /\ sw \in Sw /\ Settled(sw) /\ sw.cur_show = asked.show /\ sw.cur_x = asked.x
         /\ sx = asked.x /\ sp = asked.sel /\ status = asked.show /\ cursor = asked.sel
         /\ asked.show \in 0..1
  <1>1. Op = "end" /\ ~StatusLast
    BY DEF Op, StatusLast
  <1>2. QED BY <1>1 DEF SoftInv, SoftPicture, SoftTold, SoftwareOps, Asked

LEMMA SwShowCall ==
  ASSUME Software, Wary, Asked, SoftInv, NEW show \in 0..3, vga_showcursor(show)
  PROVE  SoftInv' /\ Asked'
  <1> DEFINE on == show % 2
  <1>1. /\ Call(ShowCall(show), TRUE)
        /\ asked' = [asked EXCEPT !.show = on]
        /\ show # 0 => asked.image[asked.sel] # NoImage
    BY DEF vga_showcursor
  <1>2. ShowCall(show) = (IF on = 1 THEN Show(sw.cur_show) ELSE Hide(sw.cur_show))
                         \o <<With("status", on)>>
    BY Zenon DEF ShowCall
  <1>3. on \in 0..1 /\ (on = 1 => show # 0)
    OBVIOUS
  <1> HIDE DEF on
  <1>4. /\ Idle /\ todo' = ShowCall(show) /\ locked' /\ locked' \in BOOLEAN
        /\ sx' = sx /\ sp' = sp /\ status' = status /\ cursor' = cursor
        /\ cursors' = cursors /\ own' = own /\ sw' = sw /\ drawn' = drawn
        /\ chipset_cursor' = chipset_cursor /\ (Software' <=> Software)
    BY <1>1, SwCalled
  <1>5. /\ Op = "end" /\ ~StatusLast
        /\ sw \in Sw /\ Settled(sw) /\ sw.cur_show = asked.show /\ sw.cur_x = asked.x
        /\ sx = asked.x /\ sp = asked.sel /\ status = asked.show /\ cursor = asked.sel
        /\ asked.show \in 0..1
    BY <1>4, Settledness
  <1>6. /\ asked'.show = on /\ asked'.x = asked.x /\ asked'.sel = asked.sel
        /\ asked'.image = asked.image /\ Asked'
    BY <1>1, <1>3, <1>4 DEF Asked
  <1>7. \/ /\ asked.show = 0 /\ on = 1
           /\ todo' = <<Do("save"), Do("draw"), Do("shown"), With("status", on)>>
        \/ asked.show = on /\ todo' = <<With("status", on)>>
        \/ /\ asked.show = 1 /\ on = 0
           /\ todo' = <<Do("uncover"), Do("hidden"), With("status", on)>>
    <2>1. CASE on = 1 /\ asked.show = 0
      BY <1>2, <1>4, <1>5, <2>1, ShowStepsJoined, Zenon
    <2>2. CASE on = 1 /\ asked.show = 1
      BY <1>2, <1>4, <1>5, <2>2, ShowStepsJoined, Zenon
    <2>0. 0 # 1
      OBVIOUS
    <2>3. CASE on = 0 /\ asked.show = 0
      BY <1>2, <1>4, <1>5, <2>0, <2>3, ShowStepsJoined, Zenon
    <2>4. CASE on = 0 /\ asked.show = 1
      BY <1>2, <1>4, <1>5, <2>0, <2>4, ShowStepsJoined, Zenon
    <2>5. QED BY <1>3, <1>5, <2>1, <2>2, <2>3, <2>4
  <1>8. SoftwareTodo' /\ ~Idle' /\ StatusLast'
    <2>1. SoftwareTodo'
      BY <1>6, <1>7 DEF SoftwareTodo
    <2>2. ~Idle' /\ StatusLast'
      <3>1. ASSUME todo' = <<Do("save"), Do("draw"), Do("shown"), With("status", on)>>
            PROVE  ~Idle' /\ StatusLast'
        BY <3>1 DEF Idle, StatusLast, With
      <3>2. ASSUME todo' = <<With("status", on)>>
            PROVE  ~Idle' /\ StatusLast'
        BY <3>2 DEF Idle, StatusLast, With
      <3>3. ASSUME todo' = <<Do("uncover"), Do("hidden"), With("status", on)>>
            PROVE  ~Idle' /\ StatusLast'
        BY <3>3 DEF Idle, StatusLast, With
      <3>4. QED BY <1>7, <3>1, <3>2, <3>3
    <2>3. QED BY <2>1, <2>2
  <1>9. \/ Op' = "save" /\ asked.show = 0 /\ on = 1
        \/ Op' = "status" /\ asked.show = on
        \/ Op' = "uncover" /\ asked.show = 1 /\ on = 0
    BY <1>7, <1>8 DEF Op, With, Do
  <1>10. SoftPicture'
    BY <1>4, <1>5, <1>6, <1>9, SettledSame DEF SoftPicture, Settled, SoftwareOps
  <1>11. SoftTold'
    BY <1>4, <1>5, <1>6, <1>8, <1>9 DEF SoftInv, SoftTold
  <1>12. SoftImages'
    <2>1. asked.sel \in Cur
      BY DEF Asked
    <2>2. on = 1 => asked.image[asked.sel] # NoImage /\ cursors[asked.sel] # NoImage
      BY <1>1, <1>3, <1>5, <2>1 DEF SoftInv, SoftImages
    <2>3. QED BY <1>4, <1>5, <1>6, <1>9, <2>2 DEF SoftInv, SoftImages
  <1>13. SoftCalling'
    BY <1>4, <1>8 DEF SoftCalling
  <1> QED BY <1>4, <1>6, <1>10, <1>11, <1>12, <1>13 DEF SoftInv

LEMMA SwPositionCall ==
  ASSUME Software, Wary, Asked, SoftInv, NEW x \in Xs, vga_setcursorposition(x)
  PROVE  SoftInv' /\ Asked'
  <1>1. Call(PositionCall(x), FALSE) /\ asked' = [asked EXCEPT !.x = x]
    BY DEF vga_setcursorposition
  <1>2. PositionCall(x) = <<With("sx", x)>> \o Position(sw.cur_show, x)
    BY Zenon DEF PositionCall
  <1>4. /\ Idle /\ todo' = PositionCall(x) /\ locked' /\ locked' \in BOOLEAN
        /\ sx' = sx /\ sp' = sp /\ status' = status /\ cursor' = cursor
        /\ cursors' = cursors /\ own' = own /\ sw' = sw /\ drawn' = drawn
        /\ chipset_cursor' = chipset_cursor /\ (Software' <=> Software)
    BY <1>1, SwCalled
  <1>5. /\ Op = "end" /\ ~StatusLast
        /\ sw \in Sw /\ Settled(sw) /\ sw.cur_show = asked.show /\ sw.cur_x = asked.x
        /\ sx = asked.x /\ sp = asked.sel /\ status = asked.show /\ cursor = asked.sel
        /\ asked.show \in 0..1
    BY <1>4, Settledness
  <1>6. /\ asked'.show = asked.show /\ asked'.x = x /\ asked'.sel = asked.sel
        /\ asked'.image = asked.image /\ Asked'
    BY <1>1, <1>4 DEF Asked
  <1>7. \/ /\ asked.show = 1
           /\ todo' = <<With("sx", x), Do("uncover"), Do("hidden"), With("place", x),
                        Do("save"), Do("draw"), Do("shown")>>
        \/ asked.show = 0 /\ todo' = <<With("sx", x), With("place", x)>>
    <2>1. CASE asked.show = 1
      <3>1. todo' = <<With("sx", x)>> \o <<Do("uncover"), Do("hidden"), With("place", x),
                        Do("save"), Do("draw"), Do("shown")>>
        BY <1>2, <1>4, <1>5, <2>1, PositionSteps, Zenon
      <3>2. todo' = <<With("sx", x), Do("uncover"), Do("hidden"), With("place", x),
                        Do("save"), Do("draw"), Do("shown")>>
        <4>1. <<With("sx", x)>> \o <<Do("uncover"), Do("hidden"), With("place", x),
                                     Do("save"), Do("draw"), Do("shown")>>
              = <<With("sx", x), Do("uncover"), Do("hidden"), With("place", x),
                  Do("save"), Do("draw"), Do("shown")>>
          BY JoinOneSix, SMT
        <4>2. QED BY <3>1, <4>1, Zenon
      <3>3. QED BY <2>1, <3>2
    <2>2. CASE asked.show = 0
      <3>1. todo' = <<With("sx", x)>> \o <<With("place", x)>>
        BY <1>2, <1>4, <1>5, <2>2, PositionSteps, Zenon
      <3>2. QED BY <2>2, <3>1, Pair, Zenon
    <2>3. QED BY <1>5, <2>1, <2>2
  <1>8. SoftwareTodo' /\ ~Idle' /\ ~StatusLast'
    <2>1. SoftwareTodo'
      BY <1>6, <1>7 DEF SoftwareTodo
    <2>2. ~Idle' /\ ~StatusLast'
      <3>1. ASSUME todo' = <<With("sx", x), Do("uncover"), Do("hidden"), With("place", x),
                             Do("save"), Do("draw"), Do("shown")>>
            PROVE  ~Idle' /\ ~StatusLast'
        BY <3>1 DEF Idle, StatusLast, Do
      <3>2. ASSUME todo' = <<With("sx", x), With("place", x)>>
            PROVE  ~Idle' /\ ~StatusLast'
        BY <3>2 DEF Idle, StatusLast, With
      <3>3. QED BY <1>7, <3>1, <3>2
    <2>3. QED BY <2>1, <2>2
  <1>9. Op' = "sx"
    BY <1>7, <1>8 DEF Op, With, Do
  <1>10. SoftPicture'
    BY <1>4, <1>5, <1>6, <1>9, SettledSame DEF SoftPicture, SoftwareOps
  <1>11. SoftTold'
    BY <1>4, <1>5, <1>6, <1>8, <1>9 DEF SoftInv, SoftTold
  <1>12. SoftImages'
    BY <1>4, <1>5, <1>6, <1>9 DEF SoftInv, SoftImages
  <1>13. SoftCalling'
    BY <1>4, <1>8 DEF SoftCalling
  <1> QED BY <1>4, <1>6, <1>10, <1>11, <1>12, <1>13 DEF SoftInv

LEMMA SwSelectCall ==
  ASSUME Software, Wary, Asked, SoftInv, NEW c \in Cur, vga_selectcursor(c)
  PROVE  SoftInv' /\ Asked'
  <1>1. /\ Call(SelectCall(c), FALSE) /\ asked' = [asked EXCEPT !.sel = c]
        /\ asked.show = 1 => asked.image[c] # NoImage
    BY DEF vga_selectcursor
  <1>2. SelectCall(c) = <<With("sp", c), With("cursor", c)>>
    BY DEF SelectCall
  <1>4. /\ Idle /\ todo' = SelectCall(c) /\ locked' /\ locked' \in BOOLEAN
        /\ sx' = sx /\ sp' = sp /\ status' = status /\ cursor' = cursor
        /\ cursors' = cursors /\ own' = own /\ sw' = sw /\ drawn' = drawn
        /\ chipset_cursor' = chipset_cursor /\ (Software' <=> Software)
    BY <1>1, SwCalled
  <1>5. /\ Op = "end" /\ ~StatusLast
        /\ sw \in Sw /\ Settled(sw) /\ sw.cur_show = asked.show /\ sw.cur_x = asked.x
        /\ sx = asked.x /\ sp = asked.sel /\ status = asked.show /\ cursor = asked.sel
        /\ asked.show \in 0..1
    BY <1>4, Settledness
  <1>6. /\ asked'.show = asked.show /\ asked'.x = asked.x /\ asked'.sel = c
        /\ asked'.image = asked.image /\ Asked'
    BY <1>1, <1>4 DEF Asked
  <1>8. SoftwareTodo' /\ ~Idle' /\ ~StatusLast' /\ Op' = "sp"
    <2>1. SoftwareTodo'
      BY <1>2, <1>4, <1>6 DEF SoftwareTodo
    <2>2. ~Idle' /\ ~StatusLast' /\ Op' = "sp"
      BY <1>2, <1>4 DEF Idle, StatusLast, With, Op
    <2>3. QED BY <2>1, <2>2
  <1>10. SoftPicture'
    BY <1>4, <1>5, <1>6, <1>8, SettledSame DEF SoftPicture, SoftwareOps
  <1>11. SoftTold'
    BY <1>4, <1>5, <1>6, <1>8 DEF SoftInv, SoftTold
  <1>12. SoftImages'
    BY <1>1, <1>4, <1>5, <1>6, <1>8 DEF SoftInv, SoftImages
  <1>13. SoftCalling'
    BY <1>4, <1>8 DEF SoftCalling
  <1> QED BY <1>4, <1>6, <1>10, <1>11, <1>12, <1>13 DEF SoftInv

LEMMA SwImageCall ==
  ASSUME Software, Wary, Asked, SoftInv, NEW c \in Cur, NEW image \in Images,
         vga_setcursorimage(c, image)
  PROVE  SoftInv' /\ Asked'
  <1>1. /\ Call(ImageCall(c, image), FALSE) /\ asked' = [asked EXCEPT !.image[c] = image]
    BY DEF vga_setcursorimage
  <1>2. ImageCall(c, image) = <<With("keep", <<c, image>>)>>
    <2>1. ImageCall(c, image) = <<With("keep", <<c, image>>)>> \o <<>>
      BY Zenon DEF ImageCall
    <2>2. QED BY <2>1
  <1>4. /\ Idle /\ todo' = ImageCall(c, image) /\ locked' /\ locked' \in BOOLEAN
        /\ sx' = sx /\ sp' = sp /\ status' = status /\ cursor' = cursor
        /\ cursors' = cursors /\ own' = own /\ sw' = sw /\ drawn' = drawn
        /\ chipset_cursor' = chipset_cursor /\ (Software' <=> Software)
    BY <1>1, SwCalled
  <1>5. /\ Op = "end" /\ ~StatusLast
        /\ sw \in Sw /\ Settled(sw) /\ sw.cur_show = asked.show /\ sw.cur_x = asked.x
        /\ sx = asked.x /\ sp = asked.sel /\ status = asked.show /\ cursor = asked.sel
        /\ asked.show \in 0..1
    BY <1>4, Settledness
  <1>o. image \in Pictured /\ image # NoImage
    BY DEF Pictured, Images, NoImage
  <1>6. /\ asked'.show = asked.show /\ asked'.x = asked.x /\ asked'.sel = asked.sel
        /\ asked'.image = [asked.image EXCEPT ![c] = image] /\ Asked'
    BY <1>1, <1>4, <1>o DEF Asked
  <1>b. \A e \in Cur : asked'.image[e] = IF e = c THEN image ELSE asked.image[e]
    BY <1>6 DEF Asked
  <1>8. SoftwareTodo' /\ ~Idle' /\ ~StatusLast' /\ Op' = "keep" /\ Subject' = c
    <2>1. todo' = <<With("keep", <<c, asked'.image[c]>>)>>
      BY <1>2, <1>4, <1>b
    <2>2. SoftwareTodo'
      BY <2>1 DEF SoftwareTodo
    <2>3. ~Idle' /\ ~StatusLast' /\ Op' = "keep" /\ Subject' = c
      BY <2>1 DEF Idle, StatusLast, With, Op, Subject
    <2>4. QED BY <2>2, <2>3
  <1>10. SoftPicture'
    BY <1>4, <1>5, <1>6, <1>8, SettledSame DEF SoftPicture, SoftwareOps
  <1>11. SoftTold'
    BY <1>4, <1>5, <1>6, <1>8 DEF SoftInv, SoftTold
  <1>12. SoftImages'
    <2>1. asked.sel \in Cur
      BY DEF Asked
    <2>2. QED BY <1>4, <1>5, <1>6, <1>8, <1>b, <1>o, <2>1 DEF SoftInv, SoftImages
  <1>13. SoftCalling'
    BY <1>4, <1>8 DEF SoftCalling
  <1> QED BY <1>4, <1>6, <1>10, <1>11, <1>12, <1>13 DEF SoftInv

LEMMA SwInkKeeps ==
  ASSUME Asked, SoftInv, NEW x \in Xs, NEW ink \in Ink, Draw(x, ink)
  PROVE  SoftInv' /\ Asked'
  <1>1. /\ Idle /\ asked.show = 0
        /\ sw' = [sw EXCEPT !.screen[x] = ink] /\ drawn' = [drawn EXCEPT ![x] = ink]
        /\ sx' = sx /\ sp' = sp /\ status' = status /\ cursor' = cursor
        /\ cursors' = cursors /\ own' = own /\ todo' = todo
        /\ chipset_cursor' = chipset_cursor /\ asked' = asked /\ locked' = locked
    BY DEF Draw, told
  <1>2. /\ Op = "end" /\ ~StatusLast
        /\ sw \in Sw /\ Settled(sw) /\ sw.cur_show = asked.show /\ sw.cur_x = asked.x
        /\ sx = asked.x /\ sp = asked.sel /\ status = asked.show /\ cursor = asked.sel
    BY <1>1, Settledness
  <1>3. (Idle' <=> Idle) /\ Op' = Op /\ (StatusLast' <=> StatusLast) /\ Subject' = Subject
        /\ (Software' <=> Software)
    BY <1>1 DEF Idle, Op, StatusLast, Subject, Software
  <1>4. /\ sw' \in Sw /\ sw'.cur_show = sw.cur_show /\ sw'.cur_x = sw.cur_x
        /\ sw'.screen = [sw.screen EXCEPT ![x] = ink]
    <2>1. ink \in Shades
      BY DEF Shades
    <2>2. QED BY <1>1, <1>2, <2>1 DEF Sw, Line
  <1>5. Clean(sw)'
    <2>1. Clean(sw)
      BY <1>1, <1>2 DEF Settled
    <2>2. sw.screen \in [Xs -> Shades] /\ drawn \in [Xs -> Ink]
      BY <1>2 DEF Sw, Line, SoftInv
    <2>3. QED BY <1>1, <1>4, <2>1, <2>2 DEF Clean
  <1>6. SoftPicture'
    BY <1>1, <1>2, <1>3, <1>4, <1>5 DEF SoftPicture, Settled, SoftwareOps
  <1>7. SoftTold'
    BY <1>1, <1>2, <1>3, <1>4 DEF SoftInv, SoftTold
  <1>8. SoftImages'
    BY <1>1, <1>3 DEF SoftInv, SoftImages
  <1>9. SoftCalling'
    BY <1>1, <1>3 DEF SoftInv, SoftCalling
  <1>10. drawn' \in [Xs -> Ink]
    BY <1>1 DEF SoftInv
  <1>11. Asked'
    BY <1>1, <1>3 DEF Asked
  <1> QED BY <1>6, <1>7, <1>8, <1>9, <1>10, <1>11 DEF SoftInv

LEMMA StepIs ==
  ASSUME NEW s, NEW step, NEW image
  PROVE  /\ step.op = "uncover" => SoftwareStep(s, step, image) = draw_cursor(s, s.buf)
         /\ step.op = "hidden" => SoftwareStep(s, step, image) = [s EXCEPT !.cur_show = 0]
         /\ step.op = "save" => SoftwareStep(s, step, image) = get_cursor(s)
         /\ step.op = "draw" =>
              SoftwareStep(s, step, image) = draw_cursor(s, Pattern(s, image))
         /\ step.op = "shown" => SoftwareStep(s, step, image) = [s EXCEPT !.cur_show = 1]
         /\ step.op = "place" => SoftwareStep(s, step, image) = [s EXCEPT !.cur_x = step.arg]
  BY Zenon DEF SoftwareStep

(* Moved while it is shown, and while it is not.                           *)
LEMMA MovedShown ==
  ASSUME NEW s \in Sw, Outside(s), Under(s), NEW x \in Xs, NEW image \in DOMAIN Mask
  PROVE  LET t == After(s, Position(1, x), image)
         IN  t \in Sw /\ t.cur_x = x /\ t.cur_show = 1 /\ Outside(t) /\ Under(t)
  <1> DEFINE steps == Position(1, x)
  <1>1. steps = <<Do("uncover"), Do("hidden"), With("place", x),
                  Do("save"), Do("draw"), Do("shown")>>
    BY PositionSteps
  <1>2. /\ Len(steps) = 6
        /\ steps[1].op = "uncover" /\ steps[2].op = "hidden"
        /\ steps[3].op = "place" /\ steps[3].arg = x
        /\ steps[4].op = "save" /\ steps[5].op = "draw" /\ steps[6].op = "shown"
    BY <1>1 DEF Do, With
  <1> HIDE DEF steps
  <1>3. PICK g : /\ g[0] = s
                 /\ \A k \in 1..6 : g[k] = SoftwareStep(g[k - 1], steps[k], image)
                 /\ After(s, steps, image) = g[6]
    <2>1. Len(steps) \in Nat
      BY <1>2
    <2>2. Unfolds(s, steps, image)
      BY <2>1, AfterUnfolds
    <2>3. QED BY <1>2, <2>2 DEF Unfolds
  <1>4. /\ g[1] = SoftwareStep(g[0], steps[1], image)
        /\ g[2] = SoftwareStep(g[1], steps[2], image)
        /\ g[3] = SoftwareStep(g[2], steps[3], image)
        /\ g[4] = SoftwareStep(g[3], steps[4], image)
        /\ g[5] = SoftwareStep(g[4], steps[5], image)
        /\ g[6] = SoftwareStep(g[5], steps[6], image)
    BY <1>3
  <1>5. g[1] \in Sw /\ Clean(g[1])
    <2>1. g[1] = draw_cursor(s, s.buf)
      BY <1>2, <1>3, <1>4, StepIs
    <2>2. QED BY <2>1, UncoverIs
  <1>6. g[2] \in Sw /\ Clean(g[2]) /\ g[2].cur_show = 0
    <2>1. g[2] = [g[1] EXCEPT !.cur_show = 0]
      BY <1>2, <1>4, StepIs
    <2>2. g[2] \in Sw /\ g[2].cur_show = 0 /\ g[2].screen = g[1].screen
      BY <1>5, <2>1 DEF Sw
    <2>3. QED BY <1>5, <2>2 DEF Clean
  <1>7. g[3] \in Sw /\ Clean(g[3]) /\ g[3].cur_x = x
    <2>1. g[3] = [g[2] EXCEPT !.cur_x = x]
      BY <1>2, <1>4, StepIs
    <2>2. g[3] \in Sw /\ g[3].cur_x = x /\ g[3].screen = g[2].screen
      BY <1>6, <2>1 DEF Sw
    <2>3. QED BY <1>6, <2>2 DEF Clean
  <1>8. g[4] \in Sw /\ Clean(g[4]) /\ Under(g[4]) /\ g[4].cur_x = x
    <2>1. g[4] = get_cursor(g[3])
      BY <1>2, <1>4, StepIs
    <2>2. QED BY <1>7, <2>1, SaveIs
  <1>9. g[5] \in Sw /\ Outside(g[5]) /\ Under(g[5]) /\ g[5].cur_x = x
    <2>1. g[5] = draw_cursor(g[4], Pattern(g[4], image))
      BY <1>2, <1>4, StepIs
    <2>2. g[5] \in Sw /\ SameCursor(g[5], g[4]) /\ Outside(g[5])
      BY <1>8, <2>1, CoverIs
    <2>3. QED BY <1>8, <2>2, UnderSame DEF SameCursor
  <1>10. g[6] \in Sw /\ Outside(g[6]) /\ Under(g[6]) /\ g[6].cur_x = x /\ g[6].cur_show = 1
    <2>1. g[6] = [g[5] EXCEPT !.cur_show = 1]
      BY <1>2, <1>4, StepIs
    <2>2. /\ g[6] \in Sw /\ g[6].cur_show = 1 /\ g[6].cur_x = g[5].cur_x
          /\ g[6].screen = g[5].screen /\ g[6].buf = g[5].buf
      BY <1>9, <2>1 DEF Sw
    <2>3. QED BY <1>9, <2>2 DEF Outside, Under
  <1>11. QED BY <1>3, <1>10 DEF steps

LEMMA MovedHidden ==
  ASSUME NEW s \in Sw, Clean(s), s.cur_show = 0, NEW x \in Xs, NEW image
  PROVE  LET t == After(s, Position(0, x), image)
         IN  t \in Sw /\ t.cur_x = x /\ t.cur_show = 0 /\ Clean(t)
  <1> DEFINE steps == Position(0, x)
  <1>1. Len(steps) = 1 /\ steps[1].op = "place" /\ steps[1].arg = x
    BY PositionSteps DEF With
  <1> HIDE DEF steps
  <1>2. PICK g : /\ g[0] = s
                 /\ g[1] = SoftwareStep(g[0], steps[1], image)
                 /\ After(s, steps, image) = g[1]
    <2>1. Len(steps) \in Nat
      BY <1>1
    <2>2. Unfolds(s, steps, image)
      BY <2>1, AfterUnfolds
    <2>3. QED BY <1>1, <2>2 DEF Unfolds
  <1>3. g[1] = [s EXCEPT !.cur_x = x]
    BY <1>1, <1>2, StepIs
  <1>4. /\ g[1] \in Sw /\ g[1].cur_x = x /\ g[1].cur_show = 0
        /\ g[1].screen = s.screen
    BY <1>3 DEF Sw
  <1>5. Clean(g[1])
    BY <1>4 DEF Clean
  <1>6. QED BY <1>2, <1>4, <1>5 DEF steps

LEMMA AfterNothing ==
  ASSUME NEW s, NEW image
  PROVE  After(s, <<>>, image) = s
  <1> DEFINE steps == <<>>
  <1>1. Len(steps) = 0
    OBVIOUS
  <1> HIDE DEF steps
  <1>2. Unfolds(s, steps, image)
    <2>1. Len(steps) \in Nat
      BY <1>1
    <2>2. QED BY <2>1, AfterUnfolds
  <1>3. After(s, steps, image) = s
    BY <1>1, <1>2 DEF Unfolds
  <1>4. QED BY <1>3 DEF steps

LEMMA SwSwitchKeeps ==
  ASSUME Software, Asked, SoftInv, Switch
  PROVE  SoftInv' /\ Asked'
  <1>1. /\ ~locked /\ Restorable /\ RestoreSoftware /\ status' = status % 2
        /\ chipset_cursor' = chipset_cursor /\ sx' = sx /\ sp' = sp /\ todo' = todo
        /\ locked' = locked /\ drawn' = drawn /\ asked' = asked
    BY DEF Switch
  <1>2. Idle
    BY <1>1 DEF SoftInv, SoftCalling
  <1>3. /\ Op = "end" /\ ~StatusLast
        /\ sw \in Sw /\ Settled(sw) /\ sw.cur_show = asked.show /\ sw.cur_x = asked.x
        /\ sx = asked.x /\ sp = asked.sel /\ status = asked.show /\ cursor = asked.sel
        /\ asked.show \in 0..1
    BY <1>2, Settledness
  <1>4. /\ (Idle' <=> Idle) /\ Op' = Op /\ (StatusLast' <=> StatusLast) /\ Subject' = Subject
        /\ (Software' <=> Software)
    BY <1>1 DEF Idle, Op, StatusLast, Subject, Software
  <1>5. /\ cursor' = sp /\ own' = own
        /\ cursors' \in [Cur -> UNION {Kept(cursors[c]) : c \in Cur}]
        /\ \A c \in Cur : cursors'[c] \in Kept(cursors[c])
    BY <1>1 DEF RestoreSoftware
  <1>6. asked.x \in Xs /\ sp \in Cur /\ status \in 0..1 /\ status' = status
    <2>1. asked.x \in Xs /\ sp \in Cur /\ status \in 0..1
      BY DEF Asked
    <2>2. QED BY <1>1, <2>1
  <1>7. SoftImages'
    <2>1. cursors \in [Cur -> DOMAIN Mask \cup {NoImage}]
      BY DEF SoftInv, SoftImages
    <2>2. \A c \in Cur : /\ cursors'[c] \in DOMAIN Mask \cup {NoImage}
                         /\ cursors[c] # NoImage => cursors'[c] # NoImage
      <3>1. TAKE c \in Cur
      <3>2. cursors[c] \in DOMAIN Mask \cup {NoImage} /\ cursors'[c] \in Kept(cursors[c])
        BY <1>5, <2>1
      <3>3. "garbled" \in DOMAIN Mask /\ "garbled" # NoImage
        BY DEF Mask, NoImage
      <3>4. QED BY <3>2, <3>3 DEF Kept
    <2>3. cursors' \in [Cur -> DOMAIN Mask \cup {NoImage}]
      BY <1>5, <2>2
    <2>4. QED BY <1>1, <1>3, <1>4, <1>5, <1>6, <2>2, <2>3 DEF SoftInv, SoftImages
  <1>8. sw' = LET s == After(sw, Position(sw.cur_show, sx), cursors[sp])
              IN  After(s, IF status % 2 = 1 THEN Show(s.cur_show) ELSE Hide(s.cur_show),
                        cursors'[sp])
    BY <1>1 DEF RestoreSoftware
  <1>9. /\ sw' \in Sw /\ sw'.cur_x = asked.x /\ sw'.cur_show = asked.show /\ Settled(sw')
    <2> DEFINE s == After(sw, Position(sw.cur_show, sx), cursors[sp])
    <2>1. CASE asked.show = 1
      <3>1. cursors[sp] \in DOMAIN Mask
        BY <1>3, <1>6, <2>1 DEF SoftInv, SoftImages
      <3>2. Outside(sw) /\ Under(sw)
        BY <1>3, <2>1 DEF Settled
      <3>3. s \in Sw /\ s.cur_x = asked.x /\ s.cur_show = 1 /\ Outside(s) /\ Under(s)
        <4>1. s = After(sw, Position(1, asked.x), cursors[sp])
          BY <1>3, <2>1
        <4>2. QED BY <1>3, <1>6, <3>1, <3>2, <4>1, MovedShown
      <3> HIDE DEF s
      <3>4. sw' = After(s, <<>>, cursors'[sp])
        <4>1. status % 2 = 1 /\ Show(s.cur_show) = <<>>
          BY <1>3, <2>1, <3>3 DEF Show
        <4>2. QED BY <1>8, <4>1, Zenon DEF s
      <3>5. sw' = s
        BY <3>4, AfterNothing
      <3>6. QED BY <2>1, <3>3, <3>5 DEF Settled
    <2>2. CASE asked.show = 0
      <3>1. Clean(sw) /\ sw.cur_show = 0
        BY <1>3, <2>2 DEF Settled
      <3>2. s \in Sw /\ s.cur_x = asked.x /\ s.cur_show = 0 /\ Clean(s)
        <4>1. s = After(sw, Position(0, asked.x), cursors[sp])
          BY <1>3, <2>2
        <4>2. QED BY <1>3, <1>6, <3>1, <4>1, MovedHidden
      <3> HIDE DEF s
      <3>3. sw' = After(s, <<>>, cursors'[sp])
        <4>1. status % 2 # 1 /\ Hide(s.cur_show) = <<>>
          BY <1>3, <2>2, <3>2 DEF Hide
        <4>2. QED BY <1>8, <4>1, Zenon DEF s
      <3>4. sw' = s
        BY <3>3, AfterNothing
      <3>5. QED BY <2>2, <3>2, <3>4 DEF Settled
    <2>3. QED BY <1>3, <2>1, <2>2
  <1>10. Settled(sw)'
    BY <1>1, <1>9, SamePicture DEF Settled
  <1>11. SoftPicture'
    BY <1>1, <1>3, <1>4, <1>9, <1>10 DEF SoftPicture, SoftwareOps
  <1>12. SoftTold'
    BY <1>1, <1>3, <1>4, <1>5, <1>6, <1>9 DEF SoftTold
  <1>13. SoftCalling'
    BY <1>1, <1>2, <1>4 DEF SoftCalling
  <1>14. drawn' \in [Xs -> Ink]
    BY <1>1 DEF SoftInv
  <1>15. Asked'
    BY <1>1, <1>4, <1>5, <1>6 DEF Asked
  <1> QED BY <1>7, <1>11, <1>12, <1>13, <1>14, <1>15 DEF SoftInv

(* What the library keeps for its own cursor, a card's leaves alone.       *)
CursorInv ==
  /\ Asked
  /\ Software => SoftInv
  /\ ~Software => HardInv /\ Clean(sw)

LEMMA SoftwareStepKeeps ==
  ASSUME Software, Asked, SoftInv, Step
  PROVE  Asked' /\ SoftInv' /\ (Software' <=> Software)
  <1>0. SoftwareTodo /\ locked /\ asked.show \in 0..1
    <2>1. ~Idle
      BY DEF Step
    <2>2. QED BY <2>1 DEF SoftInv, SoftCalling, Asked
  <1>1. /\ SoftwareTodo' \/ Idle'
        /\ \/ SwUncoverStep \/ SwHiddenStep \/ SwPlaceStep \/ SwSaveStep
           \/ SwDrawStep \/ SwShownStep \/ SwStatusStep \/ SwSxStep
           \/ SwSpStep \/ SwCursorStep \/ SwKeepStep
        /\ Op # "status" => (StatusLast => StatusLast')
        /\ own' = own /\ (Idle' \/ locked') /\ (Idle' => ~locked') /\ locked' \in BOOLEAN
        /\ chipset_cursor' = chipset_cursor /\ drawn' = drawn /\ asked' = asked
    BY <1>0, SoftwareSteps
  <1>2. SoftCalling' /\ (Software' <=> Software)
    BY <1>1 DEF SoftCalling, Software
  <1>3. Op # "status" \/ SwStatusStep
    BY <1>1 DEF SwUncoverStep, SwHiddenStep, SwPlaceStep, SwSaveStep, SwDrawStep,
                SwShownStep, SwSxStep, SwSpStep, SwCursorStep, SwKeepStep
  <1>4. SoftInv'
    <2>1. CASE SwStatusStep
      BY <1>1, <1>2, <2>1, SwStatusKeeps
    <2>2. CASE ~SwStatusStep
      <3>1. StatusLast => StatusLast'
        BY <1>1, <1>3, <2>2
      <3>2. QED
        BY <1>1, <1>2, <2>2, <3>1, SwUncoverKeeps, SwHiddenKeeps, SwPlaceKeeps, SwSaveKeeps,
           SwDrawKeeps, SwShownKeeps, SwSxKeeps, SwSpKeeps, SwCursorKeeps, SwKeepKeeps, Zenon
    <2>3. QED BY <2>1, <2>2
  <1>5. cursor' \in {cursor, asked.sel} /\ sp' \in {sp, asked.sel} /\ status' \in {status, asked.show}
    BY <1>1 DEF SwUncoverStep, SwHiddenStep, SwPlaceStep, SwSaveStep, SwDrawStep,
                SwShownStep, SwSxStep, SwSpStep, SwCursorStep, SwKeepStep, SwStatusStep
  <1>6. Asked'
    BY <1>1, <1>2, <1>5 DEF Asked
  <1> QED BY <1>2, <1>4, <1>6

LEMMA HardwareStepKeeps ==
  ASSUME ~Software, Asked, HardInv, Step
  PROVE  Asked' /\ HardInv' /\ (Software' <=> Software)
  <1>0. HardwareTodo /\ locked \in BOOLEAN /\ ~Idle
    <2>1. ~Idle
      BY DEF Step
    <2>2. QED BY <2>1 DEF HardInv, Calling, Asked
  <1>1. /\ HardwareTodo' \/ Idle'
        /\ \/ HwShowStep \/ HwStatusStep \/ HwSxStep \/ HwPlaceStep
           \/ HwSpStep \/ HwSelStep \/ HwKeepStep \/ HwImageStep
        /\ chipset_cursor' = chipset_cursor /\ drawn' = drawn /\ asked' = asked
    BY <1>0, HardwareSteps
  <1>2. Hardware' = Hardware /\ (Software' <=> Software)
    BY <1>1 DEF Hardware, Software
  <1>3. HardInv'
    BY <1>1, <1>2, HwShowKeeps, HwStatusKeeps, HwSxKeeps, HwPlaceKeeps,
       HwSpKeeps, HwSelKeeps, HwKeepKeeps, HwImageKeeps, Zenon
  <1>4. sp' \in {sp, asked.sel} /\ status' \in {status, asked.show} /\ Op # "cursor"
    BY <1>1 DEF HwShowStep, HwStatusStep, HwSxStep, HwPlaceStep,
                HwSpStep, HwSelStep, HwKeepStep, HwImageStep
  <1>5. own' \in [Cur -> Pictured]
    <2>1. CASE HwImageStep
      BY <2>1 DEF HwImageStep, Asked
    <2>2. CASE ~HwImageStep
      <3>1. own' = own
        BY <1>1, <2>2 DEF HwShowStep, HwStatusStep, HwSxStep, HwPlaceStep,
                HwSpStep, HwSelStep, HwKeepStep
      <3>2. QED BY <3>1 DEF Asked
    <2>3. QED BY <2>1, <2>2
  <1>6. cursor' = cursor
    <2>1. Head(todo).op # "cursor"
      BY <1>0, <1>4 DEF Op
    <2>2. cursor' = IF Head(todo).op = "cursor" THEN Head(todo).arg ELSE cursor
      BY Zenon DEF Step
    <2>3. QED BY <2>1, <2>2
  <1>7. locked' \in BOOLEAN
    <2>1. locked' = (locked /\ Len(todo) > 1)
      BY DEF Step
    <2>2. QED BY <2>1, Zenon
  <1>8. Asked'
    BY <1>1, <1>2, <1>4, <1>5, <1>6, <1>7 DEF Asked
  <1> QED BY <1>2, <1>3, <1>8

LEMMA CursorStutter ==
  ASSUME CursorInv, UNCHANGED cursorVars
  PROVE  CursorInv'
  <1>1. /\ chipset_cursor' = chipset_cursor /\ sw' = sw /\ cursor' = cursor
        /\ cursors' = cursors /\ sx' = sx /\ sp' = sp /\ status' = status
        /\ hw' = hw /\ own' = own /\ todo' = todo /\ locked' = locked
        /\ drawn' = drawn /\ asked' = asked
    BY DEF cursorVars, told
  <1>2. /\ (Software' <=> Software) /\ Hardware' = Hardware /\ (Idle' <=> Idle)
        /\ Op' = Op /\ Subject' = Subject /\ (StatusLast' <=> StatusLast)
        /\ (SoftwareTodo' <=> SoftwareTodo) /\ (HardwareTodo' <=> HardwareTodo)
    <2>1. (Software' <=> Software) /\ Hardware' = Hardware /\ (Idle' <=> Idle) /\ Op' = Op
      BY <1>1 DEF Software, Hardware, Idle, Op
    <2>2. Subject' = Subject /\ (StatusLast' <=> StatusLast)
      BY <1>1 DEF Subject, StatusLast, Idle
    <2>3. SoftwareTodo' <=> SoftwareTodo
      BY <1>1, Zenon DEF SoftwareTodo
    <2>4. HardwareTodo' <=> HardwareTodo
      BY <1>1, Zenon DEF HardwareTodo
    <2>5. QED BY <2>1, <2>2, <2>3, <2>4
  <1>3. Asked => Asked'
    BY <1>1, <1>2 DEF Asked
  <1>4. SoftInv => SoftInv'
    <2>1. SoftPicture => SoftPicture'
      BY <1>1, <1>2, SettledSame DEF SoftPicture
    <2>2. SoftTold => SoftTold'
      BY <1>1, <1>2 DEF SoftTold
    <2>3. SoftImages => SoftImages'
      BY <1>1, <1>2 DEF SoftImages
    <2>4. SoftCalling => SoftCalling'
      BY <1>1, <1>2 DEF SoftCalling
    <2>5. QED BY <1>1, <2>1, <2>2, <2>3, <2>4 DEF SoftInv
  <1>6. Clean(sw) => Clean(sw)'
    BY <1>1, SettledSame
  <1>5. HardInv => HardInv'
    <2>1. Noted => Noted'
      BY <1>1, <1>2 DEF Noted
    <2>2. Calling => Calling'
      BY <1>1, <1>2 DEF Calling
    <2>3. Within => Within'
      BY <1>1, <1>2 DEF Within, Brought
    <2>4. Spared => Spared'
      BY <1>1, <1>2 DEF Spared
    <2>5. Alone => Alone'
      BY <1>1, <1>2 DEF Alone
    <2>6. InPlace => InPlace'
      BY <1>1, <1>2 DEF InPlace
    <2>7. InImage => InImage'
      BY <1>1, <1>2 DEF InImage
    <2>8. QED BY <2>1, <2>2, <2>3, <2>4, <2>5, <2>6, <2>7 DEF HardInv
  <1> QED BY <1>2, <1>3, <1>4, <1>5, <1>6 DEF CursorInv

LEMMA HardwareSpares ==
  ASSUME ~Software, HardInv, CursorNext
  PROVE  sw' = sw /\ drawn' = drawn
  <1>1. ASSUME Step PROVE sw' = sw /\ drawn' = drawn
    <2>1. ~Idle /\ drawn' = drawn
      BY <1>1 DEF Step
    <2>2. HardwareTodo
      BY <2>1 DEF HardInv, Calling
    <2>3. Head(todo).op \in {"hwshow", "status", "sx", "hwplace", "sp", "hwsel", "keep", "hwimage"}
      BY <2>2 DEF HardwareTodo, With
    <2>4. Head(todo).op \notin SoftwareOps
      BY <2>3 DEF SoftwareOps
    <2>5. sw' = IF Head(todo).op \in SoftwareOps
                THEN SoftwareStep(sw, Head(todo), cursors[cursor]) ELSE sw
      BY <1>1, Zenon DEF Step
    <2>6. QED BY <2>1, <2>4, <2>5
  <1>2. ASSUME Switch PROVE sw' = sw /\ drawn' = drawn
    BY <1>2 DEF Switch, RestoreHardware
  <1> QED BY <1>1, <1>2 DEF CursorNext, vga_showcursor, vga_setcursorposition, vga_selectcursor,
                              vga_setcursorimage, Call, Draw

LEMMA CursorNextKeeps ==
  ASSUME Wary, CursorInv, CursorNext
  PROVE  CursorInv'
  <1>0. Software' <=> Software
    BY DEF CursorNext, vga_showcursor, vga_setcursorposition, vga_selectcursor, vga_setcursorimage,
           Call, Step, Draw, Switch, Software
  <1>a. Asked
    BY DEF CursorInv
  <1>1. ASSUME Software PROVE SoftInv' /\ Asked'
    <2>0. SoftInv
      BY <1>1 DEF CursorInv
    <2>1. ASSUME NEW show \in 0..3, vga_showcursor(show) PROVE SoftInv' /\ Asked'
      BY <1>a, <1>1, <2>0, <2>1, SwShowCall
    <2>2. ASSUME NEW x \in Xs, vga_setcursorposition(x) PROVE SoftInv' /\ Asked'
      BY <1>a, <1>1, <2>0, <2>2, SwPositionCall
    <2>3. ASSUME NEW c \in Cur, vga_selectcursor(c) PROVE SoftInv' /\ Asked'
      BY <1>a, <1>1, <2>0, <2>3, SwSelectCall
    <2>4. ASSUME NEW c \in Cur, NEW image \in Images, vga_setcursorimage(c, image)
          PROVE  SoftInv' /\ Asked'
      BY <1>a, <1>1, <2>0, <2>4, SwImageCall
    <2>5. CASE Step
      BY <1>a, <1>1, <2>0, <2>5, SoftwareStepKeeps
    <2>6. ASSUME NEW x \in Xs, NEW ink \in Ink, Draw(x, ink) PROVE SoftInv' /\ Asked'
      BY <1>a, <1>1, <2>0, <2>6, SwInkKeeps
    <2>7. CASE Switch
      BY <1>a, <1>1, <2>0, <2>7, SwSwitchKeeps
    <2>8. QED BY <1>1, <2>1, <2>2, <2>3, <2>4, <2>5, <2>6, <2>7, Zenon DEF CursorNext
  <1>2. ASSUME ~Software PROVE HardInv' /\ Asked' /\ Clean(sw)'
    <2>0. HardInv /\ Clean(sw)
      BY <1>2 DEF CursorInv
    <2>c. Clean(sw)'
      BY <1>2, <2>0, HardwareSpares, SettledSame
    <2>1. ASSUME NEW show \in 0..3, vga_showcursor(show) PROVE HardInv' /\ Asked'
      BY <1>a, <1>2, <2>0, <2>1, HwShowCall
    <2>2. ASSUME NEW x \in Spot, vga_setcursorposition(x) PROVE HardInv' /\ Asked'
      BY <1>a, <1>2, <2>0, <2>2, HwPositionCall
    <2>3. ASSUME NEW c \in Cur, vga_selectcursor(c) PROVE HardInv' /\ Asked'
      BY <1>a, <1>2, <2>0, <2>3, HwSelectCall
    <2>4. ASSUME NEW c \in Cur, NEW image \in Images, vga_setcursorimage(c, image)
          PROVE  HardInv' /\ Asked'
      BY <1>a, <1>2, <2>0, <2>4, HwImageCall
    <2>5. CASE Step
      BY <1>a, <1>2, <2>0, <2>5, <2>c, HardwareStepKeeps
    <2>6. \A x \in Xs, ink \in Ink : ~Draw(x, ink)
      BY <1>2 DEF Draw
    <2>7. CASE Switch
      BY <1>a, <1>2, <2>0, <2>7, <2>c, HwSwitchKeeps
    <2>8. QED BY <1>2, <2>1, <2>2, <2>3, <2>4, <2>5, <2>6, <2>7, <2>c, Zenon DEF CursorNext
  <1> QED BY <1>0, <1>1, <1>2 DEF CursorInv

LEMMA FirstIs ==
  /\ NoImages \in [Cur -> Pictured] /\ \A c \in Cur : NoImages[c] = NoImage
  /\ First \in [Cur -> Pictured] /\ First[0] = "arrow" /\ First[0] # NoImage
  /\ \A c \in Cur : c # 0 => First[c] = NoImage
  <1>1. 0 \in Cur
    BY CursorAssumption
  <1>2. NoImage \in Pictured /\ "arrow" \in Pictured /\ "arrow" # NoImage
    BY DEF Pictured, Images, NoImage
  <1>3. NoImages \in [Cur -> Pictured] /\ \A c \in Cur : NoImages[c] = NoImage
    BY <1>2 DEF NoImages
  <1>4. QED BY <1>1, <1>2, <1>3 DEF First

LEMMA SoftInit ==
  ASSUME CursorInit, Software
  PROVE  SoftInv /\ Asked
  <1>1. /\ cursor = 0 /\ sp = 0 /\ status = 0 /\ sx = 0
        /\ cursors = NoImages /\ own = NoImages
        /\ sw = [screen |-> [x \in Xs |-> "blank"], buf |-> [k \in 0..(Size - 1) |-> "blank"],
                 cur_x |-> 0, cur_show |-> 0]
        /\ asked = [show |-> 0, x |-> sx, sel |-> 0, image |-> cursors]
        /\ todo = <<>> /\ locked = FALSE /\ drawn = [x \in Xs |-> "blank"]
        /\ chipset_cursor \in {"software"} \cup DOMAIN Cursors
    BY DEF CursorInit
  <1>2. 0 \in Cur /\ 0 \in Xs
    BY CursorAssumption DEF Xs
  <1>3. asked.show = 0 /\ asked.x = 0 /\ asked.sel = 0 /\ asked.image = NoImages
    BY <1>1
  <1>4. Idle /\ Op = "end" /\ ~StatusLast
    BY <1>1 DEF Idle, Op, StatusLast
  <1>5. "blank" \in Shades /\ "blank" \in Ink
    BY DEF Shades, Ink
  <1>6. sw \in Sw /\ sw.cur_show = 0 /\ sw.cur_x = 0 /\ Clean(sw)
    BY <1>1, <1>2, <1>5 DEF Sw, Line, Clean
  <1>7. SoftPicture
    BY <1>3, <1>4, <1>6 DEF SoftPicture, Settled, SoftwareOps
  <1>8. SoftTold
    BY <1>1, <1>2, <1>3, <1>6 DEF SoftTold
  <1>9. SoftImages
    <2>1. Pictured \subseteq DOMAIN Mask \cup {NoImage}
      BY DEF Pictured, Images, Mask
    <2>2. cursors \in [Cur -> DOMAIN Mask \cup {NoImage}]
      BY <1>1, <2>1, FirstIs
    <2>3. QED BY <1>3, <1>4, <2>2, FirstIs DEF SoftImages
  <1>10. SoftCalling
    BY <1>1, <1>4 DEF SoftCalling
  <1>11. drawn \in [Xs -> Ink]
    BY <1>1, <1>5
  <1>12. Asked
    <2>1. asked \in [show : 0..1, x : Xs, sel : Cur, image : [Cur -> Pictured]]
      BY <1>1, <1>2, FirstIs
    <2>2. QED BY <1>1, <1>2, <2>1, FirstIs DEF Asked
  <1> QED BY <1>7, <1>8, <1>9, <1>10, <1>11, <1>12 DEF SoftInv

LEMMA HardInit ==
  ASSUME CursorInit, ~Software
  PROVE  HardInv /\ Asked
  <1> DEFINE d == Hardware
  <1>1. /\ cursor = 0 /\ sp = 0 /\ status = 0 /\ sx = <<0, 0>>
        /\ cursors = First /\ own = First
        /\ asked = [show |-> 0, x |-> sx, sel |-> 0, image |-> cursors]
        /\ todo = <<>> /\ locked = FALSE
        /\ chipset_cursor \in {"software"} \cup DOMAIN Cursors
    BY DEF CursorInit
  <1>2. PICK b \in BOOLEAN :
          LET h == Filled(Lost(d, Cur, b), d, First, 0)
          IN  hw = Enabled(Placed(Selected(h, d, First, 0), d, sx), d, 0)
    BY DEF CursorInit
  <1> DEFINE l == Lost(d, Cur, b)
             h == Filled(l, d, First, 0)
             s == Selected(h, d, First, 0)
             p == Placed(s, d, sx)
  <1>3. Apt(d, Cur, Spots)
    BY <1>1, HardwareApt
  <1>4. 0 \in Cur /\ 0 \in Spots /\ First \in [Cur -> Pictured]
    BY CursorAssumption, FirstIs
  <1>5. l \in Hw(d) /\ \A c \in Cur : l.mem[d.slot[c]] = NoImage
    BY LostIs
  <1>6. Fills(d, l, First, 0, h)
    BY <1>3, <1>4, <1>5, FilledIs
  <1>7. h \in Hw(d)
    BY <1>6 DEF Fills
  <1>8. Selects(d, h, First, 0, s)
    <2> HIDE DEF h
    <2> QED BY <1>3, <1>4, <1>7, SelectedIs
  <1>9. s \in Hw(d)
    BY <1>8 DEF Selects
  <1>10. Brought(sx) /\ sx \in Spot
    BY <1>1, <1>3, <1>4 DEF Brought, Spot, Apt
  <1>11. /\ p \in Hw(d) /\ p.mem = s.mem /\ p.colors = s.colors
         /\ At(p, d, sx)
         /\ SameOn(p, s, Targets(d.address) \cup d.enable)
    <2> HIDE DEF s
    <2>1. Fits(d, sx)
      BY <1>3, <1>10, BroughtFits
    <2> QED BY <1>3, <1>9, <2>1, PlacedIs
  <1>12. /\ hw \in Hw(d) /\ hw.mem = p.mem /\ hw.colors = p.colors
         /\ Shows(hw, d) = 0
         /\ SameOn(hw, p, Targeted(d))
    <2>1. hw = Enabled(p, d, 0)
      BY <1>2
    <2>2. 0 \in 0..1
      OBVIOUS
    <2> HIDE DEF p
    <2> QED BY <1>3, <1>11, <2>1, <2>2, EnabledIs
  <1> HIDE DEF l, h, s, p
  <1>13. At(hw, d, sx)
    <2>1. SameOn(hw, p, Targets(d.x) \cup Targets(d.y))
      BY <1>12 DEF SameOn, Targeted
    <2>2. QED BY <1>11, <2>1, AtSame
  <1>14. Addressed(hw, d, 0)
    <2>1. SameOn(hw, s, Targets(d.address))
      BY <1>11, <1>12 DEF SameOn, Targeted
    <2>2. Addressed(s, d, 0)
      BY <1>8 DEF Selects
    <2>3. QED BY <2>1, <2>2, AddressedSame
  <1>15. hw.colors = First[0]
    BY <1>8, <1>11, <1>12 DEF Selects
  <1>16. \A c \in Cur : d.slot[c] \in Slots(d, Cur)
    BY DEF Slots
  <1>17. ASSUME d.images = "at once", NEW c \in Cur PROVE hw.mem[d.slot[c]] = First[c]
    <2>1. hw.mem = h.mem
      BY <1>8, <1>11, <1>12, <1>17 DEF Selects
    <2>2. h.mem = [l.mem EXCEPT ![d.slot[0]] = First[0]]
      BY <1>6, <1>17 DEF Fills
    <2>3. d.slot[c] = d.slot[0] => c = 0
      BY <1>3, <1>4, <1>17 DEF Apt
    <2>4. l.mem \in [Slots(d, Cur) -> Pictured]
      BY <1>5 DEF Hw
    <2>5. hw.mem[d.slot[c]] = IF c = 0 THEN First[0] ELSE NoImage
      BY <1>4, <1>5, <1>16, <2>1, <2>2, <2>3, <2>4
    <2>6. QED BY <2>5, FirstIs
  <1>18. d.images # "at once" => hw.mem[d.slot[0]] = First[0]
    <2>1. h.mem \in [Slots(d, Cur) -> Pictured]
      BY <1>7 DEF Hw
    <2>2. hw.mem = s.mem
      BY <1>11, <1>12
    <2>3. d.images # "at once" => s.mem = [h.mem EXCEPT ![d.slot[0]] = First[0]]
      BY <1>8 DEF Selects
    <2>4. d.slot[0] \in Slots(d, Cur)
      BY <1>4, <1>16
    <2>5. QED BY <2>1, <2>2, <2>3, <2>4
  <1>19. /\ asked.show = 0 /\ asked.x = sx /\ asked.sel = 0 /\ asked.image = First
    BY <1>1
  <1>20. Idle /\ Op = "end"
    BY <1>1 DEF Idle, Op
  <1>21. Noted
    BY <1>1, <1>19, <1>20, FirstIs DEF Noted
  <1>22. Calling
    BY <1>1, <1>20 DEF Calling
  <1>23. Within
    BY <1>1, <1>4, <1>10, <1>12, <1>19 DEF Within
  <1>24. Spared
    BY <1>20 DEF Spared
  <1>25. Alone
    BY <1>1, <1>19, FirstIs DEF Alone
  <1>26. InPlace
    BY <1>1, <1>12, <1>13, <1>14, <1>19, <1>20 DEF InPlace
  <1>27. InImage
    BY <1>1, <1>15, <1>17, <1>18, <1>20 DEF InImage
  <1>28. Asked
    <2>1. asked \in [show : 0..1, x : Spot, sel : Cur, image : [Cur -> Pictured]]
      BY <1>1, <1>4, <1>10
    <2>2. asked \in [show : 0..1, x : IF Software THEN Xs ELSE Spot, sel : Cur,
                     image : [Cur -> Pictured]]
      BY <2>1
    <2>3. QED BY <1>1, <1>4, <2>2 DEF Asked
  <1> QED BY <1>21, <1>22, <1>23, <1>24, <1>25, <1>26, <1>27, <1>28 DEF HardInv

LEMMA CursorInductive ==
  ASSUME Wary
  PROVE  CursorSpec => []CursorInv
  <1>1. CursorInit => CursorInv
    <2>1. ASSUME CursorInit, ~Software PROVE Clean(sw)
      BY <2>1 DEF CursorInit, Clean
    <2>2. QED BY <2>1, SoftInit, HardInit DEF CursorInv
  <1>2. CursorInv /\ [CursorNext]_cursorVars => CursorInv'
    BY CursorNextKeeps, CursorStutter
  <1> QED BY <1>1, <1>2, PTL DEF CursorSpec

(* PictureKept, for every width of the line, size and place of the cursor: *)
(* software_cursor gives back what it covered, in a position call, in a    *)
(* call interrupted by nothing, in __svgalib_cursor_restore, and where the *)
(* right border cuts the cursor off.                                       *)
THEOREM PictureIsKept ==
  ASSUME Wary
  PROVE  CursorSpec => []PictureKept
  <1>1. CursorInv => PictureKept
    <2>1. SUFFICES ASSUME CursorInv, Idle
                   PROVE  \A x \in Xs : sw.screen[x] = drawn[x]
                            \/ (Software /\ asked.show = 1 /\ x \in Square(asked.x))
      BY DEF PictureKept
    <2>2. CASE Software
      <3>1. Settled(sw) /\ sw.cur_show = asked.show /\ sw.cur_x = asked.x
        BY <2>1, <2>2, Settledness DEF CursorInv
      <3>2. QED BY <2>2, <3>1 DEF Settled, Outside, Clean
    <2>3. CASE ~Software
      BY <2>1, <2>3 DEF CursorInv, Clean
    <2>4. QED BY <2>2, <2>3
  <1>2. QED BY <1>1, CursorInductive, PTL

(* SavedUnder: what software_cursor keeps in buf is the program's picture. *)
THEOREM SavedUnderCursor ==
  ASSUME Wary
  PROVE  CursorSpec => [](Software => SavedUnder)
  <1>1. CursorInv => (Software => SavedUnder)
    <2>1. SUFFICES ASSUME CursorInv, Software, Idle, sw.cur_show = 1
                   PROVE  Under(sw)
      BY DEF SavedUnder, Under
    <2>2. QED BY <2>1, Settledness DEF CursorInv, Settled
  <1>2. QED BY <1>1, CursorInductive, PTL

(* AsAsked, for every set of cursors and of coordinates that the drivers'  *)
(* tables fit (Apt): the switch brings the cursor back as the program      *)
(* asked, from any step of a call it may interrupt.                        *)
THEOREM CursorAsAsked ==
  ASSUME Wary
  PROVE  CursorSpec => []AsAsked
  <1>1. CursorInv => AsAsked
    <2>1. SUFFICES ASSUME CursorInv, Idle PROVE AsAsked
      BY DEF AsAsked
    <2>2. CASE Software
      <3>1. /\ sw.cur_show = asked.show /\ sw.cur_x = asked.x /\ cursor = asked.sel
        BY <2>1, <2>2, Settledness DEF CursorInv
      <3>2. QED BY <2>2, <3>1 DEF AsAsked
    <2>3. CASE ~Software
      <3> DEFINE d == Hardware
      <3>1. HardInv /\ Op = "end" /\ sp \in Cur /\ Apt(d, Cur, Spots)
        BY <2>1, <2>3, HwIdle, HardwareApt DEF CursorInv, Asked
      <3>2. sx = asked.x /\ sp = asked.sel
        BY <3>1 DEF HardInv, Noted
      <3>3. own[sp] = cursors[sp] /\ cursors[sp] = asked.image[asked.sel]
        BY <3>1, <3>2 DEF HardInv, Noted
      <3>4. /\ Shows(hw, d) = asked.show /\ At(hw, d, asked.x) /\ Addressed(hw, d, sp)
        BY <3>1, <3>2 DEF HardInv, InPlace
      <3>5. /\ d.colors = "image" \/ hw.colors = asked.image[asked.sel]
            /\ hw.mem[d.slot[sp]] = asked.image[asked.sel]
        BY <3>1, <3>3 DEF HardInv, InImage
      <3>6. d.slot[sp] \in DOMAIN hw.mem
        BY <3>1 DEF HardInv, Within, Hw, Slots
      <3>7. Pictures(hw, d, asked.image[asked.sel])
        BY <3>4, <3>5, <3>6 DEF Pictures, Addressed
      <3>8. QED BY <2>3, <3>4, <3>7 DEF AsAsked
    <2>4. QED BY <2>2, <2>3
  <1>2. QED BY <1>1, CursorInductive, PTL
=============================================================================
