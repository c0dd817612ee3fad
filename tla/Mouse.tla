------------------------------- MODULE Mouse -------------------------------
(***************************************************************************)
(* The serial and PS/2 mice (src/src/mouse/ms.c): get_ms_event, which puts *)
(* the bytes of the mouse together to packets and packets to events, again *)
(* in step after a byte is lost, and which may find any part of a packet   *)
(* when it reads.                                                          *)
(*                                                                         *)
(* A byte is what get_ms_event tells it by: whether it passes the header   *)
(* mask and the data mask of the protocol, whether it could be the         *)
(* optional button byte of a MouseMan, and what it says of the buttons and *)
(* the wheel.  pk and pos, which no code sees, name the packet it is of.   *)
(***************************************************************************)
EXTENDS Naturals, Sequences, FiniteSets

CONSTANTS
  Types,         \* the types of mouse the user may have
  PacketMax,     \* bound: packets the mouse sends
  LossMax,       \* bound: packets that lose a byte on the line
  BufferSize,    \* MOUSEBUFFERSIZE
  WheelTurns     \* the user turns the wheel

(* proto[]: the length of a packet, whether a data byte can look like a    *)
(* header, whether the data bytes are checked.                             *)
proto ==
  [MICROSOFT    |-> [n |-> 3, alike |-> FALSE, checked |-> TRUE],
   LOGIMAN      |-> [n |-> 3, alike |-> FALSE, checked |-> TRUE],
   MMSERIES     |-> [n |-> 3, alike |-> FALSE, checked |-> TRUE],
   INTELLIMOUSE |-> [n |-> 4, alike |-> FALSE, checked |-> TRUE],
   PS2          |-> [n |-> 3, alike |-> TRUE,  checked |-> FALSE],
   IMPS2        |-> [n |-> 4, alike |-> TRUE,  checked |-> FALSE]]

Wheeled == {"INTELLIMOUSE", "IMPS2"}

ASSUME MouseAssumption ==
  /\ Types \subseteq DOMAIN proto
  /\ PacketMax \in Nat /\ LossMax \in Nat /\ WheelTurns \in BOOLEAN
  /\ BufferSize \in Nat /\ BufferSize >= 4

Buttons == {"left", "middle"}

VARIABLES
  m_type,
  held,           \* the buttons that are really held
  sent,           \* how many packets the mouse has sent
  line,           \* the bytes on their way, or in the kernel
  lost,           \* the packets that lost a byte
  buf, i,         \* what has been read and not used up; the next of it
  but,            \* the buttons told last
  wait,           \* the argument of get_ms_event
  event_handled,
  drx,            \* the wheel's turn, as told with the next event
  pc,             \* "out" of get_ms_event, "handle" packets, "block" in read
  event,          \* what the handler was told last, in this call
  whole           \* the packets told, each as one event

user == <<m_type, held, sent, lost>>
vars == <<user, line, buf, i, but, wait, event_handled, drx, pc, event, whole>>

n == proto[m_type].n
Byte == [pk : 1..PacketMax, pos : 1..4, head : BOOLEAN, data : BOOLEAN,
         small : BOOLEAN, but : SUBSET Buttons, wheel : BOOLEAN]

NoEvent == [from |-> <<>>, but |-> {}, wheel |-> FALSE]

TypeOK ==
  /\ m_type \in Types /\ held \subseteq Buttons /\ but \subseteq Buttons
  /\ sent \in 0..PacketMax /\ lost \subseteq 1..PacketMax
  /\ line \in Seq(Byte) /\ buf \in Seq(Byte)
  /\ i \in 1..(Len(buf) + 1)
  /\ pc = "out" => i = 1 /\ Len(buf) < n
  /\ {wait, event_handled, drx} \subseteq BOOLEAN
  /\ pc \in {"out", "handle", "block"}
  /\ event \in [from : Seq(Byte), but : SUBSET Buttons, wheel : BOOLEAN]
  /\ whole \subseteq 1..PacketMax

Init ==
  /\ m_type \in Types /\ held = {} /\ sent = 0 /\ line = <<>> /\ lost = {}
  /\ buf = <<>> /\ i = 1 /\ but = {}
  /\ wait = FALSE /\ event_handled = FALSE /\ drx = FALSE
  /\ pc = "out" /\ event = NoEvent /\ whole = {}

-----------------------------------------------------------------------------
(* The mouse and the line.                                                 *)

(* A packet's data bytes may be alike to the header, where the protocol     *)
(* allows it, or to a MouseMan's optional byte.                            *)

(* Where a packet tells of the middle button: in the header, in the last   *)
(* byte of an IntelliMouse's, in a MouseMan's optional byte.               *)
MiddleAt ==
  IF m_type \in {"INTELLIMOUSE", "LOGIMAN"} THEN 4
  ELSE IF m_type = "MICROSOFT" THEN 0 ELSE 1

PacketByte(k, p, alike, now, turn) ==
  [pk |-> p, pos |-> k, head |-> k = 1 \/ (alike /\ proto[m_type].alike),
   data |-> k # 1 \/ ~proto[m_type].checked,
   small |-> k = 4 \/ (k # 1 /\ alike),
   but |-> now \cap ((IF k = 1 THEN {"left"} ELSE {})
                     \cup (IF k = MiddleAt THEN {"middle"} ELSE {})),
   wheel |-> turn /\ k = 4]

(* A MouseMan adds a byte while its middle button is held, and once when   *)
(* it is released.                                                         *)
Length(now) ==
  IF m_type = "LOGIMAN" /\ "middle" \in now \cup held THEN 4 ELSE n

Packet(p, alike, now, turn) ==
  [k \in 1..Length(now) |-> PacketByte(k, p, alike, now, turn)]

Without(s, k) == SubSeq(s, 1, k - 1) \o SubSeq(s, k + 1, Len(s))

(* The user moves the mouse, or presses or releases a button, or turns the *)
(* wheel; one byte may be lost on the line.                                *)
Send ==
  /\ sent < PacketMax
  /\ sent' = sent + 1
  /\ held' \in {{}, {"left"}}
       \cup (IF MiddleAt = 0 THEN {} ELSE {{"middle"}})
  /\ \E alike \in
          IF proto[m_type].alike \/ m_type = "LOGIMAN" THEN BOOLEAN ELSE {FALSE},
        turn \in IF WheelTurns /\ m_type \in Wheeled THEN BOOLEAN ELSE {FALSE} :
       LET packet == Packet(sent', alike, held', turn)
       IN  \/ line' = line \o packet /\ UNCHANGED lost
           \/ /\ Cardinality(lost) < LossMax
              /\ \E k \in DOMAIN packet : line' = line \o Without(packet, k)
              /\ lost' = lost \cup {sent'}
  /\ UNCHANGED <<m_type, buf, i, but, wait, event_handled, drx, pc, event, whole>>

-----------------------------------------------------------------------------
(* get_ms_event.                                                           *)

(* A read asks for what is left of the buffer; if that is less than        *)
(* nothing it fails.                                                       *)
Fits(b, k) == Len(b) + k <= BufferSize \/ k = 0

(* A read that does not wait returns what has arrived, up to now.          *)
ReadArrived(b) ==
  \E k \in 0..Len(line) :
    /\ Fits(b, k)
    /\ buf' = b \o SubSeq(line, 1, k)
    /\ line' = SubSeq(line, k + 1, Len(line))
    /\ i' = 1

get_ms_event(w) ==
  /\ pc = "out"
  /\ wait' = w /\ event_handled' = FALSE /\ drx' = FALSE
  /\ ReadArrived(buf)
  /\ event' = NoEvent
  /\ pc' = "handle"
  /\ UNCHANGED <<user, but, whole>>

(* The MouseMan's byte that came too late for its packet.                  *)
Optional(k) ==
  m_type = "LOGIMAN" /\ k <= Len(buf) /\ ~buf[k].head /\ buf[k].small

OptionalBut(k, b) == buf[k].but \cup (b \cap {"left"})

Late == Optional(i)
LateBut == IF Late THEN OptionalBut(i, but) ELSE but
LateEvent ==
  IF Late THEN [from |-> <<buf[i]>>, but |-> LateBut, wheel |-> FALSE] ELSE event
Start == IF Late THEN i + 1 ELSE i
LateHandled == event_handled \/ Late

Complete(k) == Len(buf) - k + 1 >= n

(* Return, the part of a packet moved to the front.                        *)
FaultyMovedNot == buf
FaultyMoved == SubSeq(buf, Start + 1, Len(buf))
Moved == SubSeq(buf, Start, Len(buf))

Return ==
  /\ pc = "handle" /\ ~Complete(Start)
  /\ ~wait \/ LateHandled
  /\ buf' = Moved /\ i' = 1
  /\ but' = LateBut /\ event' = LateEvent /\ event_handled' = LateHandled
  /\ pc' = "out"
  /\ UNCHANGED <<user, line, wait, drx, whole>>

(* Sleep on a read; what is left over before i stays.                      *)
Sleep ==
  /\ pc = "handle" /\ ~Complete(Start)
  /\ wait /\ ~LateHandled
  /\ IF Start > Len(buf) THEN buf' = <<>> /\ i' = 1 ELSE UNCHANGED <<buf, i>>
  /\ pc' = "block"
  /\ UNCHANGED <<user, line, but, wait, event_handled, drx, event, whole>>

(* The byte slept for has no such limit: it is put where it follows.       *)
ReadOne ==
  /\ pc = "block" /\ line # <<>>
  /\ LET b == Append(buf, Head(line))
     IN  IF Len(b) - i + 1 >= n
         THEN buf' = b /\ line' = Tail(line) /\ UNCHANGED i
         ELSE \E k \in 1..Len(line) :
                /\ Fits(b, k - 1)
                /\ buf' = buf \o SubSeq(line, 1, k)
                /\ line' = SubSeq(line, k + 1, Len(line))
                /\ i' = 1
  /\ pc' = "handle"
  /\ UNCHANGED <<user, but, wait, event_handled, drx, event, whole>>

(* Where the bytes from k on that look like a packet go on, if they do not *)
(* make one: after a byte that is no header, or after the first byte that  *)
(* is no data.                                                             *)
Header(k) == buf[k].head

FaultyBadData(k) == {}
BadData(k) ==
  {j \in 1..(n - 1) : proto[m_type].checked /\ ~buf[k + j].data}

FaultySkipped(k) ==
  IF ~Header(k) THEN k + 1
  ELSE Len(buf) + 1
Skipped(k) ==
  IF ~Header(k) THEN k + 1
  ELSE k + 1 + (CHOOSE j \in BadData(k) : \A h \in BadData(k) : j <= h)

Skip ==
  /\ pc = "handle" /\ Complete(Start)
  /\ ~Header(Start) \/ BadData(Start) # {}
  /\ i' = Skipped(Start)
  /\ but' = LateBut /\ event' = LateEvent /\ event_handled' = LateHandled
  /\ UNCHANGED <<user, line, buf, wait, drx, pc, whole>>

(* The buttons of the packet at k; the old two-button protocols leave the  *)
(* others as they are.                                                     *)
FaultyPacketBut(k, b) ==
  IF m_type \in {"LOGIMAN", "MICROSOFT"} THEN buf[k].but \cup b
  ELSE UNION {buf[h].but : h \in k..(k + n - 1)}
PacketBut(k, b) ==
  IF m_type \in {"LOGIMAN", "MICROSOFT"} THEN buf[k].but \cup (b \ {"left"})
  ELSE UNION {buf[h].but : h \in k..(k + n - 1)}

(* The packet an event tells of, if its bytes are the packet's.            *)
Whole(e) ==
  /\ Len(e.from) = n
  /\ \A k \in 1..n : e.from[k].pk = e.from[1].pk /\ e.from[k].pos = k
Packets(e) == IF Whole(e) THEN {e.from[1].pk} ELSE {}

(* A packet: an event, with the MouseMan's byte if it is there.  Only a    *)
(* turn of the wheel assigns drx.                                          *)
Event ==
  /\ pc = "handle" /\ Complete(Start)
  /\ Header(Start) /\ BadData(Start) = {}
  /\ LET end == Start + n
         b == PacketBut(Start, LateBut)
     IN  /\ but' = IF Optional(end) THEN OptionalBut(end, b) ELSE b
         /\ i' = IF Optional(end) THEN end + 1 ELSE end
         /\ drx' = (drx \/ (m_type \in Wheeled /\ buf[end - 1].wheel))
         /\ event' = [from |-> SubSeq(buf, Start, end - 1), but |-> but',
                      wheel |-> drx']
         /\ whole' = whole \cup Packets(event')
  /\ event_handled' = TRUE
  /\ UNCHANGED <<user, line, buf, wait, pc>>

Next ==
  \/ Send
  \/ \E w \in BOOLEAN : get_ms_event(w)
  \/ Return \/ Sleep \/ ReadOne \/ Skip \/ Event

Spec == Init /\ [][Next]_vars

-----------------------------------------------------------------------------
(* Properties.                                                             *)

Marked == proto[m_type].checked
ReadAll == pc = "out" /\ line = <<>>

(* As long as no byte is lost every packet becomes one event, whole and in *)
(* order, wherever the reads split the stream and whether or not they wait *)
(* (the partial packet moved to the front of the buffer), and no read puts *)
(* a byte behind the buffer's end.                                         *)
Assembled ==
  lost = {} =>
    /\ whole = 1..Cardinality(whole)
    /\ Len(event.from) > 1 => Whole(event) /\ event.from[1].pk = Cardinality(whole)
    /\ ReadAll /\ buf = <<>> => whole = 1..sent
    /\ Len(buf) <= BufferSize

(* An event made of the bytes of two packets takes a loss in each of them: *)
(* a protocol that marks its headers never mixes a packet that arrived     *)
(* whole into another (the check of the data bytes).                       *)
NeverMixed ==
  Marked /\ Len(event.from) > 1 /\ ~Whole(event) =>
    \A k \in 1..n : event.from[k].pk \in lost

(* After a loss the driver is in step again with the next packet but one:  *)
(* a packet that arrived whole after another that did is told.             *)
Resynchronised ==
  Marked /\ ReadAll =>
    \A p \in (1..sent) \ lost :
      p - 1 \notin lost /\ (p < sent \/ buf = <<>>) => p \in whole

(* A lost byte costs the packet it was of and at most the next one.        *)
LossContained == NeverMixed /\ Resynchronised

(* Once all is read the buttons told are the buttons held, if none of the  *)
(* bytes was lost: a MouseMan's middle button too, whose byte may come     *)
(* with its packet or after it.                                            *)
ButtonsSettle == ReadAll /\ buf = <<>> /\ lost = {} => but = held

(* An event tells of a turn of the wheel only if its packet does (the      *)
(* comment of m_wheel_delta).                                              *)
WheelTrue == event.wheel => \E k \in DOMAIN event.from : event.from[k].wheel

=============================================================================
