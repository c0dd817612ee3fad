----------------------------- MODULE MouseProofs -----------------------------
(***************************************************************************)
(* Theorems about Mouse, for every protocol of it, any number of packets   *)
(* and losses, and any splits of the stream by the reads.                  *)
(*                                                                         *)
(* Stream, what get_ms_event has read and not used up and what it is still *)
(* to read, is all that its reads, sleeps and returns move about: they     *)
(* change it only by dropping the bytes before i.  So the invariants speak *)
(* of Stream and of i alone.  Ordered is the order of the bytes, Caught    *)
(* where the driver stands after a loss, InStep where it stands without    *)
(* one, Tells, Truthful and MiddleKept what the bytes say of the buttons.  *)
(***************************************************************************)
EXTENDS Mouse, TLAPS, FiniteSetTheorems, SequenceTheorems

Stream == buf \o line
Behind == Len(Stream)

(* How the bytes of a packet that lost at most one begin, end and follow.  *)
Begins(b) == b.pos = 1 \/ (b.pos = 2 /\ b.pk \in lost)
Ends(b) == b.pos >= n \/ (b.pos = n - 1 /\ b.pk \in lost)
Follows(b, a) ==
  \/ /\ b.pk = a.pk
     /\ b.pos = a.pos + 1 \/ (b.pos = a.pos + 2 /\ a.pk \in lost)
  \/ /\ b.pk = a.pk + 1
     /\ Ends(a) /\ Begins(b)

(* A byte is as the protocol has it at its place.                          *)
Genuine(b) ==
  /\ b \in Byte /\ b.pk <= sent
  /\ b.pos <= n \/ m_type = "LOGIMAN"
  /\ b.pos = 1 => b.head
  /\ b.head => b.pos = 1 \/ proto[m_type].alike
  /\ b.data <=> b.pos # 1 \/ ~proto[m_type].checked
  /\ b.pos = 4 => b.small
  /\ "left" \in b.but => b.pos = 1
  /\ "middle" \in b.but => b.pos = MiddleAt

Ordered ==
  /\ \A k \in 1..Behind : Genuine(Stream[k])
  /\ \A k \in 1..(Behind - 1) : Follows(Stream[k + 1], Stream[k])
  /\ Behind > 0 => Stream[Behind].pk = sent /\ Ends(Stream[Behind])

-----------------------------------------------------------------------------
(* The protocols.                                                          *)

LEMMA Protocols ==
  ASSUME m_type \in Types
  PROVE  /\ n \in {3, 4}
         /\ m_type \in {"LOGIMAN", "MICROSOFT"} =>
              n = 3 /\ proto[m_type].checked /\ ~proto[m_type].alike
         /\ proto[m_type].checked => ~proto[m_type].alike
         /\ MiddleAt \in {0, 1, 4}
         /\ MiddleAt = 4 => n = 4 \/ m_type = "LOGIMAN"
         /\ MiddleAt = 0 <=> m_type = "MICROSOFT"
  <1>1. m_type \in {"MICROSOFT", "LOGIMAN", "MMSERIES", "INTELLIMOUSE", "PS2", "IMPS2"}
    BY MouseAssumption DEF proto
  <1>2. /\ proto["MICROSOFT"] = [n |-> 3, alike |-> FALSE, checked |-> TRUE]
        /\ proto["LOGIMAN"] = [n |-> 3, alike |-> FALSE, checked |-> TRUE]
        /\ proto["MMSERIES"] = [n |-> 3, alike |-> FALSE, checked |-> TRUE]
        /\ proto["INTELLIMOUSE"] = [n |-> 4, alike |-> FALSE, checked |-> TRUE]
        /\ proto["PS2"] = [n |-> 3, alike |-> TRUE, checked |-> FALSE]
        /\ proto["IMPS2"] = [n |-> 4, alike |-> TRUE, checked |-> FALSE]
    BY DEF proto
  <1>3. CASE m_type = "MICROSOFT"
    BY <1>2, <1>3 DEF n, MiddleAt
  <1>4. CASE m_type = "LOGIMAN"
    BY <1>2, <1>4 DEF n, MiddleAt
  <1>5. CASE m_type = "MMSERIES"
    BY <1>2, <1>5 DEF n, MiddleAt
  <1>6. CASE m_type = "INTELLIMOUSE"
    BY <1>2, <1>6 DEF n, MiddleAt
  <1>7. CASE m_type = "PS2"
    BY <1>2, <1>7 DEF n, MiddleAt
  <1>8. CASE m_type = "IMPS2"
    BY <1>2, <1>8 DEF n, MiddleAt
  <1>9. QED BY <1>1, <1>3, <1>4, <1>5, <1>6, <1>7, <1>8

-----------------------------------------------------------------------------
(* The bytes of a packet, one of them perhaps lost.                        *)

LEMMA PacketBytes ==
  ASSUME TypeOK, sent < PacketMax, NEW alike \in BOOLEAN, NEW turn \in BOOLEAN,
         NEW now \in SUBSET Buttons, NEW k \in 1..4
  PROVE  PacketByte(k, sent + 1, alike, now, turn) \in Byte
  BY Protocols, MouseAssumption DEF PacketByte, Byte, TypeOK, Buttons

LEMMA PacketSeq ==
  ASSUME TypeOK, sent < PacketMax, NEW alike \in BOOLEAN, NEW turn \in BOOLEAN,
         NEW now \in SUBSET Buttons
  PROVE  LET p == Packet(sent + 1, alike, now, turn) IN
         /\ p \in Seq(Byte) /\ Len(p) = Length(now) /\ Length(now) \in {n, 4}
         /\ \A k \in 1..Length(now) :
              p[k] = PacketByte(k, sent + 1, alike, now, turn)
  <1> DEFINE p == Packet(sent + 1, alike, now, turn)
  <1>1. Length(now) \in {n, 4} /\ Length(now) \in 3..4
    BY Protocols DEF Length, TypeOK
  <1>2. \A k \in 1..Length(now) : PacketByte(k, sent + 1, alike, now, turn) \in Byte
    BY <1>1, PacketBytes
  <1>3. p \in [1..Length(now) -> Byte]
    BY <1>2 DEF Packet
  <1>4. p \in Seq(Byte) /\ Len(p) = Length(now)
    BY <1>1, <1>3
  <1>5. QED BY <1>1, <1>4 DEF Packet

LEMMA WithoutOne ==
  ASSUME NEW s \in Seq(Byte), NEW k \in 1..Len(s)
  PROVE  /\ Without(s, k) \in Seq(Byte) /\ Len(Without(s, k)) = Len(s) - 1
         /\ \A j \in 1..(Len(s) - 1) :
              Without(s, k)[j] = s[IF j < k THEN j ELSE j + 1]
  <1> DEFINE a == SubSeq(s, 1, k - 1)  z == SubSeq(s, k + 1, Len(s))
  <1>0. Len(s) \in Nat /\ k \in Nat
    OBVIOUS
  <1>1. a \in Seq(Byte) /\ Len(a) = k - 1 /\ \A j \in 1..(k - 1) : a[j] = s[j]
    OBVIOUS
  <1>2. z \in Seq(Byte) /\ Len(z) = Len(s) - k
        /\ \A j \in 1..(Len(s) - k) : z[j] = s[j + k]
    OBVIOUS
  <1>3. Without(s, k) = a \o z
    BY DEF Without
  <1> HIDE DEF a, z
  <1>4. /\ a \o z \in Seq(Byte) /\ Len(a \o z) = Len(a) + Len(z)
        /\ \A j \in 1..(Len(a) + Len(z)) :
             (a \o z)[j] = IF j <= Len(a) THEN a[j] ELSE z[j - Len(a)]
    BY <1>1, <1>2, ConcatProperties
  <1>5. ASSUME NEW j \in 1..(Len(s) - 1)
        PROVE  (a \o z)[j] = s[IF j < k THEN j ELSE j + 1]
    <2>1. CASE j < k
      BY <1>0, <1>1, <1>2, <1>4, <2>1
    <2>2. CASE ~(j < k)
      <3>1. j - Len(a) \in 1..(Len(s) - k) /\ j - Len(a) + k = j + 1
        BY <1>0, <1>1, <2>2
      <3>2. z[j - Len(a)] = s[j + 1]
        BY <1>2, <3>1
      <3>3. QED BY <1>0, <1>1, <1>2, <1>4, <2>2, <3>2
    <2>3. QED BY <2>1, <2>2
  <1>6. /\ a \o z \in Seq(Byte) /\ Len(a \o z) = Len(s) - 1
        /\ \A j \in 1..(Len(s) - 1) : (a \o z)[j] = s[IF j < k THEN j ELSE j + 1]
    BY <1>0, <1>1, <1>2, <1>4, <1>5
  <1>7. QED BY <1>3, <1>6, Zenon

LEMMA SendAdds ==
  ASSUME TypeOK, Send
  PROVE  \E add \in Seq(Byte), alike \in BOOLEAN, turn \in BOOLEAN :
           LET p == Packet(sent', alike, held', turn) IN
           /\ line' = line \o add
           /\ \/ add = p /\ lost' = lost
              \/ /\ \E k \in 1..Len(p) : add = Without(p, k)
                 /\ lost' = lost \cup {sent'}
           /\ alike => proto[m_type].alike \/ m_type = "LOGIMAN"
  <1>1. /\ sent < PacketMax /\ sent' = sent + 1 /\ held' \subseteq Buttons
    BY DEF Send, Buttons
  <1>2. PICK alike \in BOOLEAN, turn \in BOOLEAN :
          LET p == Packet(sent', alike, held', turn) IN
          /\ alike => proto[m_type].alike \/ m_type = "LOGIMAN"
          /\ \/ line' = line \o p /\ UNCHANGED lost
             \/ /\ \E k \in DOMAIN p : line' = line \o Without(p, k)
                /\ lost' = lost \cup {sent'}
    <2>1. PICK a \in IF proto[m_type].alike \/ m_type = "LOGIMAN" THEN BOOLEAN ELSE {FALSE},
               t \in IF WheelTurns /\ m_type \in Wheeled THEN BOOLEAN ELSE {FALSE} :
            LET p == Packet(sent', a, held', t) IN
            \/ line' = line \o p /\ UNCHANGED lost
            \/ /\ \E k \in DOMAIN p : line' = line \o Without(p, k)
               /\ lost' = lost \cup {sent'}
      BY DEF Send
    <2>2. a \in BOOLEAN /\ t \in BOOLEAN /\ (a => proto[m_type].alike \/ m_type = "LOGIMAN")
      OBVIOUS
    <2>3. QED BY <2>1, <2>2
  <1> DEFINE p == Packet(sent', alike, held', turn)
  <1>3. p \in Seq(Byte)
    BY <1>1, PacketSeq
  <1>4. DOMAIN p = 1..Len(p)
    BY <1>3
  <1> HIDE DEF p
  <1>5. \A k \in 1..Len(p) : Without(p, k) \in Seq(Byte)
    BY <1>3, WithoutOne
  <1>6. CASE line' = line \o p /\ UNCHANGED lost
    BY <1>2, <1>3, <1>6 DEF p
  <1>7. CASE /\ \E k \in DOMAIN p : line' = line \o Without(p, k)
             /\ lost' = lost \cup {sent'}
    <2>1. PICK k \in 1..Len(p) : line' = line \o Without(p, k)
      BY <1>4, <1>7
    <2>2. QED BY <1>2, <1>5, <1>7, <2>1 DEF p
  <1>8. QED BY <1>2, <1>6, <1>7 DEF p

-----------------------------------------------------------------------------
(* Types.                                                                  *)

LEMMA LateBytes ==
  ASSUME TypeOK, pc = "handle"
  PROVE  /\ Start \in i..(i + 1) /\ Start \in 1..(Len(buf) + 1)
         /\ Late => buf[i] \in Byte /\ i <= Len(buf) /\ Start = i + 1
         /\ ~Late => Start = i
         /\ LateBut \subseteq Buttons
         /\ LateEvent \in [from : Seq(Byte), but : SUBSET Buttons, wheel : BOOLEAN]
         /\ LateHandled \in BOOLEAN
  <1>1. Late => i <= Len(buf) /\ buf[i] \in Byte
    BY DEF TypeOK, Late, Optional
  <1>2. LateBut \subseteq Buttons
    BY <1>1 DEF TypeOK, LateBut, OptionalBut, Byte
  <1>3. Late => <<buf[i]>> \in Seq(Byte)
    BY <1>1
  <1>4. LateEvent \in [from : Seq(Byte), but : SUBSET Buttons, wheel : BOOLEAN]
    BY <1>2, <1>3 DEF TypeOK, LateEvent
  <1>5. QED BY <1>1, <1>2, <1>4 DEF TypeOK, Start, LateHandled

(* The first byte that is no data, of a packet that has one.               *)
LEMMA BadDataFirst ==
  ASSUME TypeOK, NEW k \in Nat, Header(k), BadData(k) # {}
  PROVE  \E j \in BadData(k) :
           /\ j \in 1..(n - 1) /\ Skipped(k) = k + 1 + j
           /\ \A h \in 1..(j - 1) : h \notin BadData(k)
  <1>1. BadData(k) \subseteq 1..(n - 1) /\ n \in {3, 4}
    BY Protocols DEF BadData, TypeOK
  <1>2. \E j \in BadData(k) : \A h \in BadData(k) : j <= h
    <2>1. CASE 1 \in BadData(k) BY <1>1, <2>1
    <2>2. CASE 1 \notin BadData(k) /\ 2 \in BadData(k) BY <1>1, <2>2
    <2>3. CASE 1 \notin BadData(k) /\ 2 \notin BadData(k) BY <1>1, <2>3
    <2>4. QED BY <2>1, <2>2, <2>3
  <1> DEFINE j == CHOOSE j \in BadData(k) : \A h \in BadData(k) : j <= h
  <1>3. j \in BadData(k) /\ \A h \in BadData(k) : j <= h
    BY <1>2
  <1>4. Skipped(k) = k + 1 + j
    BY DEF Skipped
  <1> HIDE DEF j
  <1>5. \A h \in 1..(j - 1) : h \notin BadData(k)
    BY <1>1, <1>3
  <1>6. QED BY <1>1, <1>3, <1>4, <1>5

LEMMA SkippedTo ==
  ASSUME TypeOK, NEW k \in Nat \ {0}, Complete(k), ~Header(k) \/ BadData(k) # {}
  PROVE  Skipped(k) \in (k + 1)..(Len(buf) + 1)
  <1>1. n \in {3, 4} /\ Len(buf) \in Nat
    BY Protocols DEF TypeOK
  <1>2. CASE ~Header(k)
    BY <1>1, <1>2 DEF Skipped, Complete
  <1>3. CASE Header(k) /\ BadData(k) # {}
    BY <1>1, <1>3, BadDataFirst DEF Complete
  <1>4. QED BY <1>2, <1>3

LEMMA PacketButType ==
  ASSUME TypeOK, NEW k \in Nat \ {0}, Complete(k), NEW b \in SUBSET Buttons
  PROVE  PacketBut(k, b) \subseteq Buttons
  <1>1. n \in {3, 4} /\ Len(buf) \in Nat /\ \A h \in 1..Len(buf) : buf[h] \in Byte
    BY Protocols DEF TypeOK
  <1>2. \A h \in k..(k + n - 1) : buf[h].but \subseteq Buttons
    BY <1>1 DEF Complete, Byte
  <1>3. buf[k].but \subseteq Buttons
    BY <1>1, <1>2
  <1>4. QED BY <1>2, <1>3 DEF PacketBut

LEMMA InitTypes == ASSUME Init PROVE TypeOK
  <1>1. n \in {3, 4} BY Protocols DEF Init
  <1>2. <<>> \in Seq(Byte) /\ Len(<<>>) = 0 OBVIOUS
  <1>3. NoEvent \in [from : Seq(Byte), but : SUBSET Buttons, wheel : BOOLEAN]
    BY <1>2 DEF NoEvent
  <1>4. 0 \in 0..PacketMax /\ 0 < n BY <1>1, MouseAssumption
  <1>5. {wait, event_handled, drx} \subseteq BOOLEAN BY DEF Init
  <1>6. i \in 1..(Len(buf) + 1) /\ Len(buf) < n /\ line \in Seq(Byte) /\ buf \in Seq(Byte)
    BY <1>1, <1>2, <1>4 DEF Init
  <1>7. event \in [from : Seq(Byte), but : SUBSET Buttons, wheel : BOOLEAN]
    BY <1>3 DEF Init
  <1>8. QED BY <1>4, <1>5, <1>6, <1>7 DEF Init, TypeOK

LEMMA ReadTypes ==
  ASSUME TypeOK, NEW b \in Seq(Byte), ReadArrived(b)
  PROVE  buf' \in Seq(Byte) /\ line' \in Seq(Byte) /\ i' \in 1..(Len(buf') + 1)
  BY DEF TypeOK, ReadArrived

LEMMA StepTypes == ASSUME TypeOK, [Next]_vars PROVE TypeOK'
  <1> USE DEF TypeOK
  <1>0. n \in {3, 4} BY Protocols
  <1>n. n' = n \/ m_type' # m_type BY DEF n
  <1>1. CASE Send
    <2>1. /\ \E add \in Seq(Byte) : line' = line \o add
          /\ lost' = lost \/ lost' = lost \cup {sent'}
      BY <1>1, SendAdds
    <2>2. line' \in Seq(Byte) BY <2>1
    <2>3. sent < PacketMax /\ sent' = sent + 1 /\ held' \subseteq Buttons
      BY <1>1 DEF Send, Buttons
    <2>4. sent' \in 1..PacketMax BY <2>3, MouseAssumption
    <2>5. lost' \subseteq 1..PacketMax BY <2>1, <2>4
    <2>6. QED BY <1>1, <1>n, <2>2, <2>3, <2>4, <2>5 DEF Send
  <1>2. ASSUME NEW w \in BOOLEAN, get_ms_event(w) PROVE TypeOK'
    <2>1. buf' \in Seq(Byte) /\ line' \in Seq(Byte) /\ i' \in 1..(Len(buf') + 1)
      BY <1>2, ReadTypes DEF get_ms_event
    <2>2. event' \in [from : Seq(Byte), but : SUBSET Buttons, wheel : BOOLEAN]
      BY <1>2 DEF get_ms_event, NoEvent
    <2>3. QED BY <1>2, <2>1, <2>2 DEF get_ms_event, user
  <1>3. CASE Return
    <2>1. Start \in 1..(Len(buf) + 1) /\ Len(buf) - Start + 1 < n
      BY <1>0, <1>3, LateBytes DEF Return, Complete
    <2>2. buf' \in Seq(Byte) /\ Len(buf') = Len(buf) - Start + 1
      BY <1>3, <2>1 DEF Return, Moved
    <2>3. LateBut \subseteq Buttons /\ LateHandled \in BOOLEAN
          /\ LateEvent \in [from : Seq(Byte), but : SUBSET Buttons, wheel : BOOLEAN]
      BY <1>3, LateBytes DEF Return
    <2>4. i' = 1 /\ i' \in 1..(Len(buf') + 1) /\ pc' = "out" /\ n' = n
      BY <1>3, <1>n, <2>1, <2>2 DEF Return, user
    <2>5. QED BY <1>3, <2>1, <2>2, <2>3, <2>4 DEF Return, user
  <1>4. CASE Sleep
    <2>1. buf' \in Seq(Byte) /\ i' \in 1..(Len(buf') + 1)
      <3>1. CASE Start > Len(buf) BY <1>4, <3>1 DEF Sleep
      <3>2. CASE ~(Start > Len(buf)) BY <1>4, <3>2 DEF Sleep
      <3>3. QED BY <3>1, <3>2
    <2>2. QED BY <1>4, <2>1 DEF Sleep, user
  <1>5. CASE ReadOne
    <2>1. Head(line) \in Byte /\ Tail(line) \in Seq(Byte)
      BY <1>5 DEF ReadOne
    <2>2. buf' \in Seq(Byte) /\ line' \in Seq(Byte) /\ i' \in 1..(Len(buf') + 1)
      <3> DEFINE z == Append(buf, Head(line))
      <3>1. z \in Seq(Byte) /\ Len(z) = Len(buf) + 1 BY <2>1
      <3>2. CASE buf' = z /\ line' = Tail(line) /\ UNCHANGED i
        BY <2>1, <3>1, <3>2
      <3>3. CASE \E k \in 1..Len(line) :
                   /\ Fits(z, k - 1)
                   /\ buf' = buf \o SubSeq(line, 1, k)
                   /\ line' = SubSeq(line, k + 1, Len(line))
                   /\ i' = 1
        BY <3>3
      <3> HIDE DEF z
      <3>4. QED BY <1>5, <3>2, <3>3 DEF ReadOne, z
    <2>3. QED BY <1>5, <2>2 DEF ReadOne, user
  <1>6. CASE Skip
    <2>1. Skipped(Start) \in 1..(Len(buf) + 1)
      BY <1>6, LateBytes, SkippedTo DEF Skip
    <2>2. LateBut \subseteq Buttons /\ LateHandled \in BOOLEAN
          /\ LateEvent \in [from : Seq(Byte), but : SUBSET Buttons, wheel : BOOLEAN]
      BY <1>6, LateBytes DEF Skip
    <2>3. QED BY <1>6, <2>1, <2>2 DEF Skip, user
  <1>7. CASE Event
    <2> DEFINE end == Start + n
               b == PacketBut(Start, LateBut)
    <2>1. Start \in 1..(Len(buf) + 1) /\ LateBut \subseteq Buttons
      BY <1>7, LateBytes DEF Event
    <2>2. end \in 1..(Len(buf) + 1) /\ b \subseteq Buttons
      <3>1. Complete(Start) BY <1>7 DEF Event
      <3>2. end \in 1..(Len(buf) + 1) BY <1>0, <2>1, <3>1 DEF Complete
      <3>3. b \subseteq Buttons BY <2>1, <3>1, PacketButType
      <3>4. QED BY <3>2, <3>3
    <2> HIDE DEF b, end
    <2>3. Optional(end) => end <= Len(buf) /\ OptionalBut(end, b) \subseteq Buttons
      <3>1. Optional(end) => end \in 1..Len(buf) BY <2>2 DEF Optional
      <3>2. Optional(end) => buf[end] \in Byte BY <3>1
      <3>3. Optional(end) => buf[end].but \subseteq Buttons BY <3>2 DEF Byte
      <3>4. QED BY <2>2, <3>1, <3>3 DEF OptionalBut
    <2> USE DEF b, end
    <2>4. but' \subseteq Buttons /\ i' \in 1..(Len(buf) + 1)
      BY <1>7, <2>2, <2>3 DEF Event
    <2>5. SubSeq(buf, Start, end - 1) \in Seq(Byte)
      BY <1>0, <2>1, <2>2
    <2>6. drx' \in BOOLEAN
      BY <1>7 DEF Event
    <2>7. event' \in [from : Seq(Byte), but : SUBSET Buttons, wheel : BOOLEAN]
      BY <1>7, <2>4, <2>5, <2>6 DEF Event
    <2>8. Packets(event') \subseteq 1..PacketMax
      <3>1. Whole(event') => event'.from[1] \in Byte
        BY <1>0, <2>7 DEF Whole
      <3>2. QED BY <3>1 DEF Packets, Byte
    <2>9. whole' \subseteq 1..PacketMax
      BY <1>7, <2>8 DEF Event
    <2>10. QED BY <1>7, <2>4, <2>6, <2>7, <2>9 DEF Event, user
  <1>8. CASE UNCHANGED vars
    BY <1>8 DEF vars, user, n
  <1>9. QED
    BY <1>1, <1>2, <1>3, <1>4, <1>5, <1>6, <1>7, <1>8 DEF Next

-----------------------------------------------------------------------------
(* What has been sent and not used up, after each of the steps.            *)

LEMMA StreamBytes ==
  ASSUME TypeOK
  PROVE  /\ Stream \in Seq(Byte) /\ Behind \in Nat /\ Behind = Len(buf) + Len(line)
         /\ Len(buf) \in Nat /\ Len(line) \in Nat
         /\ \A k \in 1..Behind : Stream[k] \in Byte
         /\ \A k \in 1..Len(buf) : Stream[k] = buf[k]
         /\ \A k \in 1..Len(line) : Stream[Len(buf) + k] = line[k]
  <1>1. buf \in Seq(Byte) /\ line \in Seq(Byte)
    BY DEF TypeOK
  <1>2. /\ buf \o line \in Seq(Byte) /\ Len(buf \o line) = Len(buf) + Len(line)
        /\ \A k \in 1..(Len(buf) + Len(line)) : (buf \o line)[k] =
             IF k <= Len(buf) THEN buf[k] ELSE line[k - Len(buf)]
    BY <1>1, ConcatProperties
  <1>3. Len(buf) \in Nat /\ Len(line) \in Nat
    BY <1>1
  <1>4. \A k \in 1..Len(line) : Stream[Len(buf) + k] = line[k]
    <2> SUFFICES ASSUME NEW k \in 1..Len(line) PROVE Stream[Len(buf) + k] = line[k]
      OBVIOUS
    <2>1. Len(buf) + k \in 1..(Len(buf) + Len(line)) /\ ~(Len(buf) + k <= Len(buf))
          /\ Len(buf) + k - Len(buf) = k
      BY <1>3
    <2>2. QED BY <1>2, <2>1 DEF Stream
  <1>5. \A k \in 1..Len(buf) : Stream[k] = buf[k]
    BY <1>2, <1>3 DEF Stream
  <1>6. \A k \in 1..Behind : Stream[k] \in Byte
    BY <1>2 DEF Stream, Behind
  <1>7. QED BY <1>2, <1>3, <1>4, <1>5, <1>6 DEF Stream, Behind

(* Reading moves bytes, and loses and swaps none.                          *)
LEMMA ReadSome ==
  ASSUME TypeOK, NEW k \in 0..Len(line),
         buf' = buf \o SubSeq(line, 1, k), line' = SubSeq(line, k + 1, Len(line))
  PROVE  Stream' = Stream
  <1>1. buf \in Seq(Byte) /\ line \in Seq(Byte)
    BY DEF TypeOK
  <1>2. PICK a \in Seq(Byte), z \in Seq(Byte) :
          a = SubSeq(line, 1, k) /\ z = SubSeq(line, k + 1, Len(line))
    <2>1. SubSeq(line, 1, k) \in Seq(Byte) /\ SubSeq(line, k + 1, Len(line)) \in Seq(Byte)
      BY <1>1
    <2>2. QED BY <2>1, Zenon
  <1>3. a \o z = line
    <2>1. 1 \in 1..(Len(line) + 1) /\ k \in (1 - 1)..Len(line) /\ Len(line) \in k..Len(line)
      BY <1>1
    <2>2. a \o z = SubSeq(line, 1, Len(line)) BY <1>1, <1>2, <2>1, ConcatAdjacentSubSeq
    <2>3. QED BY <1>1, <2>2, SubSeqFull
  <1>4. (buf \o a) \o z = buf \o (a \o z)
    BY <1>1, ConcatAssociative
  <1>5. QED BY <1>2, <1>3, <1>4 DEF Stream

LEMMA ReadFirst ==
  ASSUME TypeOK, line # <<>>, buf' = Append(buf, Head(line)), line' = Tail(line)
  PROVE  Stream' = Stream
  <1>1. buf \in Seq(Byte) /\ line \in Seq(Byte)
    BY DEF TypeOK
  <1>2. /\ Head(line) \in Byte /\ Tail(line) \in Seq(Byte) /\ <<Head(line)>> \in Seq(Byte)
        /\ Len(line) \in Nat \ {0} /\ Head(line) = line[1]
    BY <1>1
  <1>3. <<Head(line)>> \o Tail(line) = line
    <2>1. Tail(line) = SubSeq(line, 2, Len(line)) BY <1>1, TailIsSubSeq
    <2>2. SubSeq(line, 1, Len(line)) = <<line[1]>> \o SubSeq(line, 1 + 1, Len(line))
      <3>1. 1 \in 1..Len(line) /\ Len(line) \in 1..Len(line) BY <1>2
      <3>2. QED BY <1>1, <3>1, SubSeqRecursiveFirst
    <2>3. SubSeq(line, 1, Len(line)) = line BY <1>1, SubSeqFull
    <2>4. QED BY <1>2, <2>1, <2>2, <2>3
  <1>4. Append(buf, Head(line)) = buf \o <<Head(line)>>
    BY <1>1, <1>2, AppendIsConcat
  <1>5. (buf \o <<Head(line)>>) \o Tail(line) = buf \o (<<Head(line)>> \o Tail(line))
    BY <1>1, <1>2, ConcatAssociative
  <1>6. QED BY <1>3, <1>4, <1>5 DEF Stream

LEMMA SameStream ==
  ASSUME TypeOK, ReadOne \/ Skip \/ Event \/ \E w \in BOOLEAN : get_ms_event(w)
  PROVE  Stream' = Stream /\ Behind' = Behind
  <1>1. CASE \E w \in BOOLEAN : get_ms_event(w)
    <2>1. PICK k \in 0..Len(line) :
            buf' = buf \o SubSeq(line, 1, k) /\ line' = SubSeq(line, k + 1, Len(line))
      BY <1>1 DEF get_ms_event, ReadArrived
    <2>2. QED BY <2>1, ReadSome DEF Behind
  <1>2. CASE ReadOne
    <2>1. CASE buf' = Append(buf, Head(line)) /\ line' = Tail(line)
      BY <1>2, <2>1, ReadFirst DEF ReadOne, Behind
    <2>2. CASE \E k \in 1..Len(line) :
                 buf' = buf \o SubSeq(line, 1, k) /\ line' = SubSeq(line, k + 1, Len(line))
      <3>1. PICK k \in 1..Len(line) :
              buf' = buf \o SubSeq(line, 1, k) /\ line' = SubSeq(line, k + 1, Len(line))
        BY <2>2
      <3>2. k \in 0..Len(line) BY StreamBytes
      <3>3. QED BY <3>1, <3>2, ReadSome DEF Behind
    <2>3. QED BY <1>2, <2>1, <2>2 DEF ReadOne
  <1>3. CASE Skip BY <1>3 DEF Skip, Stream, Behind
  <1>4. CASE Event BY <1>4 DEF Event, Stream, Behind
  <1>5. QED BY <1>1, <1>2, <1>3, <1>4

(* The bytes before k are used up.                                         *)
LEMMA Used ==
  ASSUME TypeOK, NEW k \in 1..(Len(buf) + 1),
         buf' = SubSeq(buf, k, Len(buf)), line' = line
  PROVE  /\ Behind' = Behind - k + 1
         /\ \A j \in 1..Behind' : Stream'[j] = Stream[j + k - 1]
  <1>1. buf \in Seq(Byte) /\ line \in Seq(Byte) /\ Len(buf) \in Nat /\ Len(line) \in Nat
    BY DEF TypeOK
  <1>2. /\ buf' \in Seq(Byte) /\ Len(buf') = Len(buf) - k + 1
        /\ \A j \in 1..Len(buf') : buf'[j] = buf[j + k - 1]
    BY <1>1
  <1>3. /\ Len(Stream') = Len(buf') + Len(line)
        /\ \A j \in 1..(Len(buf') + Len(line)) : Stream'[j] =
             IF j <= Len(buf') THEN buf'[j] ELSE line[j - Len(buf')]
    BY <1>1, <1>2, ConcatProperties DEF Stream
  <1>4. Behind' = Behind - k + 1
    <2>1. Behind' = Len(buf') + Len(line) BY <1>3 DEF Behind
    <2>2. QED BY <1>1, <1>2, <2>1, StreamBytes
  <1>5. ASSUME NEW j \in 1..Behind' PROVE Stream'[j] = Stream[j + k - 1]
    <2>1. CASE j <= Len(buf')
      <3>1. Stream'[j] = buf[j + k - 1] BY <1>1, <1>2, <1>3, <2>1 DEF Behind
      <3>2. j + k - 1 \in 1..Len(buf) BY <1>1, <1>2, <2>1
      <3>3. QED BY <3>1, <3>2, StreamBytes
    <2>2. CASE ~(j <= Len(buf'))
      <3>1. Stream'[j] = line[j - Len(buf')] BY <1>1, <1>2, <1>3, <2>2 DEF Behind
      <3>2. j - Len(buf') \in 1..Len(line) /\ Len(buf) + (j - Len(buf')) = j + k - 1
        BY <1>1, <1>2, <1>4, <2>2, StreamBytes
      <3>3. QED BY <3>1, <3>2, StreamBytes
    <2>3. QED BY <2>1, <2>2
  <1>6. QED BY <1>4, <1>5

LEMMA ReturnUses ==
  ASSUME TypeOK, Return
  PROVE  /\ Behind' = Behind - Start + 1
         /\ \A j \in 1..Behind' : Stream'[j] = Stream[j + Start - 1]
  BY LateBytes, Used DEF Return, Moved

LEMMA SleepUses ==
  ASSUME TypeOK, Sleep
  PROVE  \/ Stream' = Stream /\ Behind' = Behind /\ i' = i
         \/ /\ Start = Len(buf) + 1 /\ i' = 1
            /\ Behind' = Behind - Start + 1
            /\ \A j \in 1..Behind' : Stream'[j] = Stream[j + Start - 1]
  <1>1. CASE Start > Len(buf)
    <2>1. Start = Len(buf) + 1 /\ Start \in 1..(Len(buf) + 1) /\ Len(buf) \in Nat
      BY <1>1, StreamBytes, LateBytes DEF Sleep
    <2>2. buf' = <<>> /\ line' = line /\ i' = 1
      BY <1>1 DEF Sleep
    <2>3. SubSeq(buf, Start, Len(buf)) = <<>>
      BY <2>1, SubSeqEmpty
    <2>4. QED BY <2>1, <2>2, <2>3, Used
  <1>2. CASE ~(Start > Len(buf))
    BY <1>2 DEF Sleep, Stream, Behind
  <1>3. QED BY <1>1, <1>2

-----------------------------------------------------------------------------
(* What a packet adds.                                                     *)

Place(k, j) == IF j < k THEN j ELSE j + 1

(* add is the packet sent, all of it (k = 5) or without its k-th byte.     *)
Adds(add, alike, turn, k) ==
  /\ line' = line \o add
  /\ Len(add) = Length(held') - (IF k < 5 THEN 1 ELSE 0)
  /\ IF k < 5 THEN k <= Length(held') /\ lost' = lost \cup {sent'} ELSE lost' = lost
  /\ \A j \in 1..Len(add) : add[j] = PacketByte(Place(k, j), sent', alike, held', turn)
  /\ alike => proto[m_type].alike \/ m_type = "LOGIMAN"

LEMMA SendShape ==
  ASSUME TypeOK, Send
  PROVE  \E add \in Seq(Byte), alike \in BOOLEAN, turn \in BOOLEAN, k \in 1..5 :
           Adds(add, alike, turn, k)
  <1>1. PICK add \in Seq(Byte), alike \in BOOLEAN, turn \in BOOLEAN :
           LET p == Packet(sent', alike, held', turn) IN
           /\ line' = line \o add
           /\ \/ add = p /\ lost' = lost
              \/ /\ \E k \in 1..Len(p) : add = Without(p, k)
                 /\ lost' = lost \cup {sent'}
           /\ alike => proto[m_type].alike \/ m_type = "LOGIMAN"
    BY SendAdds
  <1>2. /\ sent < PacketMax /\ sent' = sent + 1 /\ held' \subseteq Buttons
    BY DEF Send, Buttons
  <1> DEFINE p == Packet(sent', alike, held', turn)
  <1>3. /\ p \in Seq(Byte) /\ Len(p) = Length(held') /\ Length(held') \in 3..4
        /\ \A j \in 1..Length(held') : p[j] = PacketByte(j, sent', alike, held', turn)
    BY <1>2, PacketSeq, Protocols DEF TypeOK
  <1> HIDE DEF p
  <1>4. CASE add = p /\ lost' = lost
    <2>1. \A j \in 1..Len(add) : Place(5, j) = j BY <1>3, <1>4 DEF Place
    <2>2. \A j \in 1..Len(add) :
            add[j] = PacketByte(Place(5, j), sent', alike, held', turn)
      BY <1>3, <1>4, <2>1
    <2>3. 5 \in 1..5 /\ Len(add) = Length(held') - (IF 5 < 5 THEN 1 ELSE 0)
      BY <1>3, <1>4
    <2>4. line' = line \o add BY <1>1
    <2>5. Adds(add, alike, turn, 5) BY <1>1, <1>4, <2>2, <2>3, <2>4 DEF Adds
    <2>6. QED BY <2>3, <2>5
  <1>5. CASE (\E k \in 1..Len(p) : add = Without(p, k)) /\ lost' = lost \cup {sent'}
    <2>1. PICK k \in 1..Len(p) : add = Without(p, k) BY <1>5
    <2>2. k < 5 /\ k \in 1..5 /\ k <= Length(held') /\ Len(p) \in Nat BY <1>3
    <2>3. /\ Len(add) = Length(held') - 1
          /\ \A j \in 1..Len(add) : add[j] = p[Place(k, j)]
      BY <1>3, <2>1, WithoutOne DEF Place
    <2>4. \A j \in 1..Len(add) : Place(k, j) \in 1..Length(held')
      BY <1>3, <2>2, <2>3 DEF Place
    <2>5. \A j \in 1..Len(add) :
            add[j] = PacketByte(Place(k, j), sent', alike, held', turn)
      BY <1>3, <2>3, <2>4
    <2>6. line' = line \o add BY <1>1
    <2>7. Adds(add, alike, turn, k) BY <1>1, <1>5, <2>2, <2>3, <2>5, <2>6 DEF Adds
    <2>8. QED BY <2>2, <2>7
  <1>6. QED BY <1>1, <1>4, <1>5 DEF p

LEMMA StreamAdds ==
  ASSUME TypeOK, NEW add \in Seq(Byte), line' = line \o add, buf' = buf
  PROVE  /\ Behind' = Behind + Len(add)
         /\ \A j \in 1..Behind : Stream'[j] = Stream[j]
         /\ \A j \in 1..Len(add) : Stream'[Behind + j] = add[j]
  <1>1. buf \in Seq(Byte) /\ line \in Seq(Byte) /\ Stream \in Seq(Byte) /\ Len(add) \in Nat
    BY StreamBytes DEF TypeOK
  <1>2. Stream' = Stream \o add
    BY <1>1, ConcatAssociative DEF Stream
  <1>3. /\ Len(Stream') = Len(Stream) + Len(add)
        /\ \A j \in 1..(Len(Stream) + Len(add)) : Stream'[j] =
             IF j <= Len(Stream) THEN Stream[j] ELSE add[j - Len(Stream)]
    BY <1>1, <1>2, ConcatProperties
  <1>4. Len(Stream) \in Nat BY <1>1
  <1> HIDE DEF Stream
  <1>5. \A j \in 1..Len(add) : Stream'[Len(Stream) + j] = add[j]
    <2> SUFFICES ASSUME NEW j \in 1..Len(add) PROVE Stream'[Len(Stream) + j] = add[j]
      OBVIOUS
    <2>1. Len(Stream) + j - Len(Stream) = j /\ ~(Len(Stream) + j <= Len(Stream))
          /\ Len(Stream) + j \in 1..(Len(Stream) + Len(add))
      BY <1>1, <1>4
    <2>2. QED BY <1>3, <2>1
  <1>6. QED BY <1>1, <1>3, <1>4, <1>5 DEF Behind

(* The bytes of a packet, each at its place.                               *)
LEMMA GenuineByte ==
  ASSUME TypeOK, Send, NEW alike \in BOOLEAN, NEW turn \in BOOLEAN,
         alike => proto[m_type].alike \/ m_type = "LOGIMAN",
         NEW q \in 1..Length(held'), NEW b,
         b = PacketByte(q, sent', alike, held', turn)
  PROVE  /\ b.pk = sent' /\ b.pos = q /\ Genuine(b)'
         /\ b.but = held' \cap ((IF q = 1 THEN {"left"} ELSE {})
                                 \cup (IF q = MiddleAt THEN {"middle"} ELSE {}))
  <1>1. /\ sent < PacketMax /\ sent' = sent + 1 /\ held' \in SUBSET Buttons /\ m_type' = m_type
    BY DEF Send, Buttons
  <1>2. /\ n \in {3, 4} /\ n' = n /\ MiddleAt' = MiddleAt
        /\ Length(held') \in {n, 4} /\ (Length(held') # n => m_type = "LOGIMAN")
    BY <1>1, Protocols DEF TypeOK, Length, n, MiddleAt
  <1>3. q \in 1..4 /\ (q <= n \/ m_type = "LOGIMAN")
    BY <1>2
  <1>4. b \in Byte
    BY <1>1, <1>3, PacketBytes
  <1>5. /\ b.pk = sent' /\ b.pos = q
        /\ b.but = held' \cap ((IF q = 1 THEN {"left"} ELSE {})
                                \cup (IF q = MiddleAt THEN {"middle"} ELSE {}))
    BY DEF PacketByte
  <1>6. /\ b.head <=> q = 1 \/ (alike /\ proto[m_type].alike)
        /\ b.data <=> q # 1 \/ ~proto[m_type].checked
        /\ b.small <=> q = 4 \/ (q # 1 /\ alike)
    BY DEF PacketByte
  <1>7. b.but \subseteq Buttons /\ ("left" \in b.but => q = 1)
        /\ ("middle" \in b.but => q = MiddleAt)
    BY <1>1, <1>5
  <1>8. Genuine(b)'
    <2>1. sent' \in Nat BY <1>1, MouseAssumption DEF TypeOK
    <2>2. b.data <=> b.pos # 1 \/ ~proto[m_type'].checked BY <1>1, <1>5, <1>6
    <2>3. b.head => b.pos = 1 \/ proto[m_type'].alike BY <1>1, <1>5, <1>6
    <2>4. (b.pos = 1 => b.head) /\ (b.pos = 4 => b.small) BY <1>5, <1>6
    <2>5. b.pos <= n' \/ m_type' = "LOGIMAN" BY <1>1, <1>2, <1>3, <1>5
    <2>6. ("left" \in b.but => b.pos = 1) /\ ("middle" \in b.but => b.pos = MiddleAt')
      BY <1>2, <1>5, <1>7
    <2>7. b \in Byte /\ b.pk <= sent' BY <1>4, <1>5, <2>1
    <2>8. QED BY <2>2, <2>3, <2>4, <2>5, <2>6, <2>7 DEF Genuine
  <1>9. QED BY <1>5, <1>8

(* What a packet adds to the stream.                                       *)
Arrives(add, k) ==
  /\ Behind' = Behind + Len(add)
  /\ \A j \in 1..Behind : Stream'[j] = Stream[j]
  /\ \A j \in 1..Len(add) : Stream'[Behind + j] = add[j]
  /\ Len(add) = Length(held') - (IF k < 5 THEN 1 ELSE 0)
  /\ IF k < 5 THEN k <= Length(held') /\ lost' = lost \cup {sent'} ELSE lost' = lost
  /\ \A j \in 1..Len(add) :
       /\ add[j].pk = sent' /\ add[j].pos = Place(k, j)
       /\ add[j].but = held' \cap
            ((IF Place(k, j) = 1 THEN {"left"} ELSE {})
             \cup (IF Place(k, j) = MiddleAt THEN {"middle"} ELSE {}))

LEMMA Added ==
  ASSUME TypeOK, Send
  PROVE  \E add \in Seq(Byte), k \in 1..5 :
           Arrives(add, k) /\ \A j \in 1..Len(add) : Genuine(add[j])'
  <1>1. PICK add \in Seq(Byte), alike \in BOOLEAN, turn \in BOOLEAN, k \in 1..5 :
          Adds(add, alike, turn, k)
    BY SendShape
  <1>2. line' = line \o add /\ buf' = buf BY <1>1 DEF Adds, Send
  <1>3. /\ Behind' = Behind + Len(add)
        /\ \A j \in 1..Behind : Stream'[j] = Stream[j]
        /\ \A j \in 1..Len(add) : Stream'[Behind + j] = add[j]
    BY <1>2, StreamAdds
  <1>4. Length(held') \in 3..4 BY Protocols DEF Length, TypeOK
  <1>5. ASSUME NEW j \in 1..Len(add)
        PROVE  /\ add[j].pk = sent' /\ add[j].pos = Place(k, j) /\ Genuine(add[j])'
               /\ add[j].but = held' \cap
                    ((IF Place(k, j) = 1 THEN {"left"} ELSE {})
                     \cup (IF Place(k, j) = MiddleAt THEN {"middle"} ELSE {}))
    <2>1. Place(k, j) \in 1..Length(held') BY <1>1, <1>4 DEF Adds, Place
    <2>2. add[j] = PacketByte(Place(k, j), sent', alike, held', turn)
      BY <1>1 DEF Adds
    <2>3. alike => proto[m_type].alike \/ m_type = "LOGIMAN" BY <1>1 DEF Adds
    <2>4. QED BY <2>1, <2>2, <2>3, GenuineByte
  <1>6. Arrives(add, k) BY <1>1, <1>3, <1>5 DEF Arrives, Adds
  <1>7. QED BY <1>5, <1>6

LEMMA GenuineStays ==
  ASSUME TypeOK, NEW b, Genuine(b), m_type' = m_type, sent' \in Nat, sent' >= sent
  PROVE  Genuine(b)'
  <1>1. n' = n /\ MiddleAt' = MiddleAt BY DEF n, MiddleAt
  <1>2. b \in Byte /\ b.pk \in Nat /\ b.pk <= sent /\ sent \in Nat
    BY MouseAssumption DEF Genuine, Byte, TypeOK
  <1>3. QED BY <1>1, <1>2 DEF Genuine

LEMMA FollowsStays ==
  ASSUME NEW b, NEW a, Follows(b, a), m_type' = m_type, lost \subseteq lost'
  PROVE  Follows(b, a)'
  <1>1. n' = n BY DEF n
  <1>2. QED BY <1>1 DEF Follows, Ends, Begins

LEMMA SendOrdered == ASSUME TypeOK, Ordered, Send PROVE Ordered'
  <1>1. PICK add \in Seq(Byte), k \in 1..5 :
          Arrives(add, k) /\ \A j \in 1..Len(add) : Genuine(add[j])'
    BY Added
  <1>2. /\ m_type' = m_type /\ n' = n /\ sent \in Nat /\ sent' = sent + 1
        /\ lost \subseteq lost'
    BY <1>1, MouseAssumption DEF Send, n, TypeOK, Arrives
  <1>3. Length(held') \in 3..4 /\ Length(held') >= n /\ n \in {3, 4}
    BY Protocols DEF Length, TypeOK
  <1>4. /\ Len(add) \in 2..4 /\ Behind \in Nat /\ Behind' = Behind + Len(add)
        /\ Len(add) = Length(held') - (IF k < 5 THEN 1 ELSE 0)
        /\ k < 5 => sent' \in lost' /\ k <= Length(held')
    BY <1>1, <1>3, StreamBytes DEF Arrives
  <1>5. \A j \in 1..Behind : Stream'[j] = Stream[j]
    BY <1>1 DEF Arrives
  <1>6. \A j \in 1..Len(add) : /\ Stream'[Behind + j] = add[j]
                               /\ add[j].pk = sent' /\ add[j].pos = Place(k, j)
    BY <1>1 DEF Arrives
  <1>7. ASSUME NEW j \in 1..Behind' PROVE Genuine(Stream[j])'
    <2>1. CASE j <= Behind
      <3>1. j \in 1..Behind BY <1>4, <2>1
      <3>2. Genuine(Stream[j]) BY <3>1 DEF Ordered
      <3>3. PICK b : b = Stream[j] OBVIOUS
      <3>4. Genuine(b)' BY <1>2, <3>2, <3>3, GenuineStays
      <3>5. b = Stream'[j] BY <1>5, <3>1, <3>3
      <3>6. QED BY <3>4, <3>5 DEF Genuine
    <2>2. CASE j > Behind
      <3>1. PICK h \in 1..Len(add) : j = Behind + h
        <4>1. j - Behind \in 1..Len(add) /\ j = Behind + (j - Behind) BY <1>4, <2>2
        <4>2. QED BY <4>1
      <3>2. PICK b : b = add[h] OBVIOUS
      <3>3. Genuine(b)' BY <1>1, <3>2
      <3>4. b = Stream'[j] BY <1>6, <3>1, <3>2
      <3>5. QED BY <3>3, <3>4 DEF Genuine
    <2>3. QED BY <1>4, <2>1, <2>2
  <1>8. ASSUME NEW j \in 1..(Behind' - 1) PROVE Follows(Stream[j + 1], Stream[j])'
    <2>1. CASE j < Behind
      <3>1. j \in 1..(Behind - 1) /\ j \in 1..Behind /\ j + 1 \in 1..Behind BY <1>4, <2>1
      <3>2. Follows(Stream[j + 1], Stream[j]) BY <3>1 DEF Ordered
      <3>3. PICK b, a : b = Stream[j + 1] /\ a = Stream[j] OBVIOUS
      <3>4. Follows(b, a)' BY <1>2, <3>2, <3>3, FollowsStays
      <3>5. b = Stream'[j + 1] /\ a = Stream'[j] BY <1>5, <3>1, <3>3
      <3>6. QED BY <3>4, <3>5 DEF Follows, Ends, Begins
    <2>2. CASE j = Behind
      <3>1. Stream[j].pk = sent /\ Ends(Stream[j]) BY <2>2 DEF Ordered
      <3>2. Stream'[j] = Stream[j] /\ Stream'[j + 1] = add[1] BY <1>4, <1>5, <1>6, <2>2
      <3>3. add[1].pk = sent' /\ add[1].pos = Place(k, 1) BY <1>4, <1>6
      <3>4. QED BY <1>2, <1>4, <3>1, <3>2, <3>3 DEF Follows, Ends, Begins, Place
    <2>3. CASE j > Behind
      <3>1. PICK h \in 1..(Len(add) - 1) : j = Behind + h
        <4>1. j - Behind \in 1..(Len(add) - 1) /\ j = Behind + (j - Behind) BY <1>4, <2>3
        <4>2. QED BY <4>1
      <3>2. /\ Stream'[j] = add[h] /\ add[h].pk = sent' /\ add[h].pos = Place(k, h)
            /\ Stream'[j + 1] = add[h + 1]
            /\ add[h + 1].pk = sent' /\ add[h + 1].pos = Place(k, h + 1)
        <4>1. h \in 1..Len(add) /\ h + 1 \in 1..Len(add) /\ j + 1 = Behind + (h + 1)
          BY <1>4, <3>1
        <4>2. Stream'[Behind + (h + 1)] = add[h + 1] /\ Stream'[Behind + h] = add[h]
          BY <1>6, <4>1
        <4>3. QED BY <1>6, <3>1, <4>1, <4>2
      <3>3. Place(k, h + 1) = Place(k, h) + 1
            \/ (Place(k, h + 1) = Place(k, h) + 2 /\ sent' \in lost')
        BY <1>4 DEF Place
      <3>4. QED BY <3>2, <3>3 DEF Follows
    <2>4. QED BY <1>4, <2>1, <2>2, <2>3
  <1>9. Stream'[Behind'].pk = sent' /\ Ends(Stream[Behind])'
    <2>1. Stream'[Behind'] = add[Len(add)] /\ add[Len(add)].pk = sent'
          /\ add[Len(add)].pos = Place(k, Len(add))
      BY <1>4, <1>6
    <2>2. Place(k, Len(add)) >= n \/ (Place(k, Len(add)) = n - 1 /\ sent' \in lost')
      BY <1>3, <1>4 DEF Place
    <2>3. QED BY <1>2, <2>1, <2>2 DEF Ends
  <1>10. QED BY <1>7, <1>8, <1>9 DEF Ordered

(* The order of what is left.                                              *)
LEMMA UsedOrdered ==
  ASSUME TypeOK, Ordered, user' = user, NEW k \in 1..(Len(buf) + 1),
         Behind' = Behind - k + 1,
         \A j \in 1..Behind' : Stream'[j] = Stream[j + k - 1]
  PROVE  Ordered'
  <1>1. /\ m_type' = m_type /\ n' = n /\ lost' = lost /\ sent' = sent /\ sent \in Nat
        /\ Behind \in Nat /\ Behind' \in 0..Behind /\ Len(buf) \in 0..Behind
    BY StreamBytes, MouseAssumption DEF user, n, TypeOK
  <1>2. ASSUME NEW j \in 1..Behind' PROVE Genuine(Stream[j])'
    <2>1. j + k - 1 \in 1..Behind BY <1>1
    <2>2. PICK b : b = Stream[j + k - 1] OBVIOUS
    <2>3. Genuine(b) BY <2>1, <2>2 DEF Ordered
    <2>4. Genuine(b)' BY <1>1, <2>3, GenuineStays
    <2>5. QED BY <2>2, <2>4 DEF Genuine
  <1>3. ASSUME NEW j \in 1..(Behind' - 1) PROVE Follows(Stream[j + 1], Stream[j])'
    <2>1. /\ j + k - 1 \in 1..(Behind - 1) /\ (j + 1) + k - 1 = (j + k - 1) + 1
          /\ j \in 1..Behind' /\ j + 1 \in 1..Behind'
      BY <1>1
    <2>2. PICK b, a : b = Stream[(j + k - 1) + 1] /\ a = Stream[j + k - 1] OBVIOUS
    <2>3. Follows(b, a) BY <2>1, <2>2 DEF Ordered
    <2>4. Follows(b, a)' BY <1>1, <2>3, FollowsStays
    <2>5. b = Stream'[j + 1] /\ a = Stream'[j] BY <2>1, <2>2
    <2>6. QED BY <2>4, <2>5 DEF Follows, Ends, Begins
  <1>4. ASSUME Behind' > 0 PROVE Stream'[Behind'].pk = sent' /\ Ends(Stream[Behind])'
    <2>1. Behind > 0 /\ Behind' \in 1..Behind' /\ Behind' + k - 1 = Behind BY <1>1, <1>4
    <2>2. Stream'[Behind'] = Stream[Behind] BY <2>1
    <2>3. Stream[Behind].pk = sent /\ Ends(Stream[Behind]) BY <2>1 DEF Ordered
    <2>4. QED BY <1>1, <2>2, <2>3 DEF Ends
  <1>5. QED BY <1>2, <1>3, <1>4 DEF Ordered

LEMMA SameOrdered ==
  ASSUME TypeOK, Ordered, user' = user, Stream' = Stream, Behind' = Behind
  PROVE  Ordered'
  <1>1. 1 \in 1..(Len(buf) + 1) /\ Behind \in Nat /\ Behind' = Behind - 1 + 1
    BY StreamBytes
  <1>2. \A j \in 1..Behind' : Stream'[j] = Stream[j + 1 - 1]
    BY <1>1
  <1>3. QED BY <1>1, <1>2, UsedOrdered

LEMMA StepOrdered == ASSUME TypeOK, Ordered, [Next]_vars PROVE Ordered'
  <1>1. CASE Send BY <1>1, SendOrdered
  <1>2. CASE ReadOne \/ Skip \/ Event \/ \E w \in BOOLEAN : get_ms_event(w)
    <2>1. user' = user BY <1>2 DEF ReadOne, Skip, Event, get_ms_event
    <2>2. QED BY <1>2, <2>1, SameStream, SameOrdered
  <1>3. CASE Return
    <2>1. user' = user /\ Start \in 1..(Len(buf) + 1) BY <1>3, LateBytes DEF Return
    <2>2. QED BY <1>3, <2>1, ReturnUses, UsedOrdered
  <1>4. CASE Sleep
    <2>1. user' = user /\ Start \in 1..(Len(buf) + 1) BY <1>4, LateBytes DEF Sleep
    <2>2. QED BY <1>4, <2>1, SleepUses, SameOrdered, UsedOrdered
  <1>5. CASE UNCHANGED vars
    <2>1. user' = user /\ Stream' = Stream /\ Behind' = Behind
      BY <1>5 DEF vars, user, Stream, Behind
    <2>2. QED BY <2>1, SameOrdered
  <1>6. QED BY <1>1, <1>2, <1>3, <1>4, <1>5 DEF Next

-----------------------------------------------------------------------------
(* The order of any two bytes.                                             *)

Ascending ==
  \A j, k \in 1..Behind : j < k =>
    \/ Stream[j].pk < Stream[k].pk
    \/ Stream[j].pk = Stream[k].pk /\ Stream[j].pos < Stream[k].pos

LEMMA UsedAscending ==
  ASSUME TypeOK, Ascending, NEW k \in 1..(Len(buf) + 1),
         Behind' = Behind - k + 1,
         \A j \in 1..Behind' : Stream'[j] = Stream[j + k - 1]
  PROVE  Ascending'
  <1>1. Behind \in Nat /\ Behind' \in 0..Behind /\ Len(buf) \in 0..Behind
    BY StreamBytes
  <1>2. SUFFICES ASSUME NEW j \in 1..Behind', NEW h \in 1..Behind', j < h
                 PROVE  \/ Stream'[j].pk < Stream'[h].pk
                        \/ Stream'[j].pk = Stream'[h].pk /\ Stream'[j].pos < Stream'[h].pos
    BY DEF Ascending
  <1>3. j + k - 1 \in 1..Behind /\ h + k - 1 \in 1..Behind /\ j + k - 1 < h + k - 1
    BY <1>1, <1>2
  <1>4. Stream'[j] = Stream[j + k - 1] /\ Stream'[h] = Stream[h + k - 1]
    BY <1>2
  <1>5. QED BY <1>3, <1>4 DEF Ascending

LEMMA SameAscending ==
  ASSUME Ascending, Stream' = Stream, Behind' = Behind PROVE Ascending'
  BY DEF Ascending

LEMMA SendAscending ==
  ASSUME TypeOK, Ordered, Ascending, Send PROVE Ascending'
  <1>1. PICK add \in Seq(Byte), k \in 1..5 : Arrives(add, k)
    BY Added
  <1>2. /\ Len(add) \in Nat /\ Behind \in Nat /\ Behind' = Behind + Len(add)
        /\ \A j \in 1..Behind : Stream'[j] = Stream[j]
        /\ \A j \in 1..Len(add) : /\ Stream'[Behind + j] = add[j]
                                  /\ add[j].pk = sent' /\ add[j].pos = Place(k, j)
    BY <1>1, StreamBytes DEF Arrives
  <1>3. sent \in Nat /\ sent' = sent + 1
    BY MouseAssumption DEF Send, TypeOK
  <1>4. ASSUME NEW h \in 1..Behind', h > Behind
        PROVE  /\ h - Behind \in 1..Len(add) /\ Stream'[h].pk = sent'
               /\ Stream'[h].pos = Place(k, h - Behind)
    <2>1. h - Behind \in 1..Len(add) /\ Behind + (h - Behind) = h BY <1>2, <1>4
    <2>2. QED BY <1>2, <2>1
  <1>5. ASSUME NEW h \in 1..Behind', ~(h > Behind)
        PROVE  h \in 1..Behind /\ Stream'[h] = Stream[h] /\ Stream[h].pk <= sent
               /\ Stream[h].pk \in Nat
    <2>1. h \in 1..Behind BY <1>2, <1>5
    <2>2. Genuine(Stream[h]) BY <2>1 DEF Ordered
    <2>3. Stream[h].pk \in Nat BY <2>2, MouseAssumption DEF Genuine, Byte
    <2>4. QED BY <1>2, <2>1, <2>2, <2>3 DEF Genuine
  <1>6. SUFFICES ASSUME NEW j \in 1..Behind', NEW h \in 1..Behind', j < h
                 PROVE  \/ Stream'[j].pk < Stream'[h].pk
                        \/ Stream'[j].pk = Stream'[h].pk /\ Stream'[j].pos < Stream'[h].pos
    BY DEF Ascending
  <1>7. CASE ~(h > Behind)
    <2>1. ~(j > Behind) BY <1>2, <1>6, <1>7
    <2>2. QED BY <1>5, <1>6, <1>7, <2>1 DEF Ascending
  <1>8. CASE h > Behind /\ ~(j > Behind)
    BY <1>3, <1>4, <1>5, <1>8
  <1>9. CASE h > Behind /\ j > Behind
    <2>1. Place(k, j - Behind) < Place(k, h - Behind)
      BY <1>2, <1>4, <1>6, <1>9 DEF Place
    <2>2. QED BY <1>4, <1>9, <2>1
  <1>10. QED BY <1>7, <1>8, <1>9

LEMMA StepAscending ==
  ASSUME TypeOK, Ordered, Ascending, [Next]_vars PROVE Ascending'
  <1>1. CASE Send BY <1>1, SendAscending
  <1>2. CASE ReadOne \/ Skip \/ Event \/ \E w \in BOOLEAN : get_ms_event(w)
    BY <1>2, SameStream, SameAscending
  <1>3. CASE Return
    <2>1. Start \in 1..(Len(buf) + 1) BY <1>3, LateBytes DEF Return
    <2>2. QED BY <1>3, <2>1, ReturnUses, UsedAscending
  <1>4. CASE Sleep
    <2>1. Start \in 1..(Len(buf) + 1) BY <1>4, LateBytes DEF Sleep
    <2>2. QED BY <1>4, <2>1, SleepUses, SameAscending, UsedAscending
  <1>5. CASE UNCHANGED vars
    BY <1>5, SameAscending DEF vars, Stream, Behind
  <1>6. QED BY <1>1, <1>2, <1>3, <1>4, <1>5 DEF Next

-----------------------------------------------------------------------------
(* A protocol that marks its headers.                                      *)

LEMMA MarkedFacts ==
  ASSUME TypeOK, Marked
  PROVE  /\ proto[m_type].checked /\ ~proto[m_type].alike
         /\ n \in {3, 4} /\ (m_type = "LOGIMAN" => n = 3)
  BY Protocols DEF TypeOK, Marked

LEMMA Headed ==
  ASSUME TypeOK, Ordered, Marked, NEW k \in 1..Behind
  PROVE  /\ Stream[k].pos \in 1..4 /\ Stream[k].pk \in 1..sent /\ sent \in Nat
         /\ Stream[k].head <=> Stream[k].pos = 1
         /\ Stream[k].data <=> Stream[k].pos # 1
  <1>1. Genuine(Stream[k]) /\ n \in {3, 4} BY MarkedFacts DEF Ordered
  <1>2. /\ Stream[k].pos \in 1..4 /\ Stream[k].pk \in 1..PacketMax
        /\ PacketMax \in Nat /\ sent \in Nat
    BY <1>1, MouseAssumption DEF Genuine, Byte, TypeOK
  <1>3. QED BY <1>1, <1>2, MarkedFacts DEF Genuine

(* What looks like a packet is one, or takes only from packets that lost.  *)
LEMMA WholeOrLost ==
  ASSUME TypeOK, Ordered, Marked, NEW s \in Nat \ {0}, s + n - 1 <= Behind,
         Stream[s].pos = 1, \A j \in 1..(n - 1) : Stream[s + j].pos # 1
  PROVE  \/ \A j \in 0..(n - 1) : /\ Stream[s + j].pk = Stream[s].pk
                                  /\ Stream[s + j].pos = j + 1
         \/ \A j \in 0..(n - 1) : Stream[s + j].pk \in lost
  <1>1. n \in {3, 4} /\ Behind \in Nat BY MarkedFacts, StreamBytes
  <1>2. s + 0 = s /\ s + 1 + 1 = s + 2 /\ s + 2 + 1 = s + 3 OBVIOUS
  <1>3. \A j \in 0..(n - 1) : Stream[s + j].pos \in 1..4 /\ Stream[s + j].pk \in Nat
    <2> SUFFICES ASSUME NEW j \in 0..(n - 1)
                 PROVE  Stream[s + j].pos \in 1..4 /\ Stream[s + j].pk \in Nat
      OBVIOUS
    <2>1. s + j \in 1..Behind BY <1>1
    <2>2. QED BY <2>1, Headed
  <1>4. Follows(Stream[s + 1], Stream[s]) /\ Follows(Stream[s + 2], Stream[s + 1])
    <2>1. s \in 1..(Behind - 1) /\ s + 1 \in 1..(Behind - 1) BY <1>1
    <2>2. QED BY <1>2, <2>1 DEF Ordered
  <1>5. CASE n = 3
    BY <1>2, <1>3, <1>4, <1>5 DEF Follows, Ends, Begins
  <1>6. CASE n = 4
    <2>1. Follows(Stream[s + 3], Stream[s + 2])
      <3>1. s + 2 \in 1..(Behind - 1) BY <1>1, <1>6
      <3>2. QED BY <1>2, <3>1 DEF Ordered
    <2>2. QED BY <1>2, <1>3, <1>4, <1>6, <2>1 DEF Follows, Ends, Begins
  <1>7. QED BY <1>1, <1>5, <1>6

(* The bytes an event takes.                                               *)
LEMMA EventBytes ==
  ASSUME TypeOK, Ordered, Event
  PROVE  /\ Start \in Nat \ {0} /\ Start + n - 1 <= Len(buf) /\ Len(buf) <= Behind
         /\ n \in {3, 4} /\ n' = n
         /\ event'.from \in Seq(Byte) /\ Len(event'.from) = n
         /\ \A j \in 1..n : event'.from[j] = Stream[Start + j - 1]
         /\ Stream[Start].head
         /\ proto[m_type].checked => \A j \in 1..(n - 1) : Stream[Start + j].data
  <1>1. n \in {3, 4} /\ n' = n /\ Len(buf) \in Nat /\ Len(buf) <= Behind
    BY Protocols, StreamBytes DEF TypeOK, Event, user, n
  <1>2. Start \in 1..(Len(buf) + 1) /\ Len(buf) - Start + 1 >= n
    BY LateBytes DEF Event, Complete
  <1>3. Start \in Nat \ {0} /\ Start + n - 1 <= Len(buf) /\ Start + n - 1 \in Nat
    BY <1>1, <1>2
  <1>4. event'.from = SubSeq(buf, Start, Start + n - 1)
    <2>1. event'.from = SubSeq(buf, Start, (Start + n) - 1)
      BY DEF Event
    <2>2. (Start + n) - 1 = Start + n - 1 BY <1>1, <1>3
    <2>3. QED BY <2>1, <2>2
  <1>5. buf \in Seq(Byte) BY DEF TypeOK
  <1>6. /\ SubSeq(buf, Start, Start + n - 1) \in Seq(Byte)
        /\ Len(SubSeq(buf, Start, Start + n - 1)) = n
        /\ \A j \in 1..n : SubSeq(buf, Start, Start + n - 1)[j] = buf[Start + j - 1]
    BY <1>1, <1>3, <1>5
  <1>7. \A j \in 1..n : event'.from[j] = Stream[Start + j - 1]
    <2> SUFFICES ASSUME NEW j \in 1..n PROVE event'.from[j] = Stream[Start + j - 1]
      OBVIOUS
    <2>1. Start + j - 1 \in 1..Len(buf) BY <1>1, <1>3
    <2>2. QED BY <1>4, <1>6, <2>1, StreamBytes
  <1>8. Stream[Start].head
    <2>1. buf[Start].head BY DEF Event, Header
    <2>2. Start \in 1..Len(buf) BY <1>1, <1>3
    <2>3. QED BY <2>1, <2>2, StreamBytes
  <1>9. ASSUME proto[m_type].checked, NEW j \in 1..(n - 1) PROVE Stream[Start + j].data
    <2>1. buf[Start + j].data BY <1>9 DEF Event, BadData
    <2>2. Start + j \in 1..Len(buf) BY <1>1, <1>3
    <2>3. QED BY <2>1, <2>2, StreamBytes
  <1>10. QED BY <1>1, <1>3, <1>4, <1>6, <1>7, <1>8, <1>9

LEMMA EventMarked ==
  ASSUME TypeOK, Ordered, Event, Marked
  PROVE  /\ Stream[Start].pos = 1 /\ \A j \in 1..(n - 1) : Stream[Start + j].pos # 1
         /\ \/ /\ Whole(event')
               /\ \A j \in 0..(n - 1) : Stream[Start + j].pk = Stream[Start].pk
               /\ event'.from[1].pk = Stream[Start].pk
            \/ \A j \in 0..(n - 1) : Stream[Start + j].pk \in lost
  <1>1. /\ Start \in Nat \ {0} /\ Start + n - 1 <= Behind /\ n \in {3, 4} /\ Behind \in Nat
        /\ n' = n
    BY EventBytes, StreamBytes
  <1>2. Stream[Start].pos = 1
    <2>1. Start \in 1..Behind BY <1>1
    <2>2. QED BY <2>1, Headed, EventBytes
  <1>3. \A j \in 1..(n - 1) : Stream[Start + j].pos # 1
    <2> SUFFICES ASSUME NEW j \in 1..(n - 1) PROVE Stream[Start + j].pos # 1
      OBVIOUS
    <2>1. Start + j \in 1..Behind BY <1>1
    <2>2. QED BY <2>1, Headed, EventBytes, MarkedFacts
  <1>4. CASE \A j \in 0..(n - 1) : /\ Stream[Start + j].pk = Stream[Start].pk
                                   /\ Stream[Start + j].pos = j + 1
    <2>1. ASSUME NEW j \in 1..n
          PROVE  event'.from[j].pk = Stream[Start].pk /\ event'.from[j].pos = j
      <3>1. j - 1 \in 0..(n - 1) /\ Start + (j - 1) = Start + j - 1 /\ j - 1 + 1 = j
        BY <1>1
      <3>2. event'.from[j] = Stream[Start + (j - 1)] BY <3>1, EventBytes
      <3>3. QED BY <1>4, <3>1, <3>2
    <2>2. 1 \in 1..n BY <1>1
    <2>3. Whole(event') BY <1>1, <2>1, <2>2, EventBytes DEF Whole
    <2>4. QED BY <1>2, <1>3, <1>4, <2>1, <2>2, <2>3
  <1>5. CASE \A j \in 0..(n - 1) : Stream[Start + j].pk \in lost
    BY <1>2, <1>3, <1>5
  <1>6. QED BY <1>1, <1>2, <1>3, <1>4, <1>5, WholeOrLost

LEMMA StepNeverMixed ==
  ASSUME TypeOK, Ordered, NeverMixed, [Next]_vars PROVE NeverMixed'
  <1> SUFFICES ASSUME Marked PROVE NeverMixed'
    <2>1. m_type' = m_type
      BY DEF Next, Send, get_ms_event, Return, Sleep, ReadOne, Skip, Event, vars, user
    <2>2. ~Marked => NeverMixed' BY <2>1 DEF NeverMixed, Marked
    <2>3. QED BY <2>2
  <1>1. Len(LateEvent.from) > 1 => LateEvent = event
    BY DEF LateEvent
  <1>2. ASSUME Len(event'.from) > 1 => event' = event, m_type' = m_type, lost \subseteq lost'
        PROVE  NeverMixed'
    <2>1. n' = n BY <1>2 DEF n
    <2>2. QED BY <1>2, <2>1 DEF NeverMixed, Marked, Whole
  <1>3. CASE Send
    BY <1>2, <1>3, SendAdds DEF Send
  <1>4. CASE Event
    <2>1. SUFFICES ASSUME ~Whole(event') PROVE \A k \in 1..n' : event'.from[k].pk \in lost'
      <3>1. Whole(event)' <=> Whole(event') BY EventBytes, <1>4 DEF Whole
      <3>2. QED BY <2>1, <3>1 DEF NeverMixed
    <2>2. \A j \in 0..(n - 1) : Stream[Start + j].pk \in lost
      BY <1>4, <2>1, EventMarked
    <2>3. lost' = lost /\ n' = n /\ n \in {3, 4} /\ Start \in Nat
      BY <1>4, EventBytes DEF Event, user
    <2>4. ASSUME NEW k \in 1..n PROVE event'.from[k].pk \in lost
      <3>1. k - 1 \in 0..(n - 1) /\ Start + (k - 1) = Start + k - 1 BY <2>3
      <3>2. event'.from[k] = Stream[Start + (k - 1)] BY <1>4, <3>1, EventBytes
      <3>3. QED BY <2>2, <3>1, <3>2
    <2>5. QED BY <2>3, <2>4
  <1>5. ASSUME NEW w \in BOOLEAN, get_ms_event(w) PROVE NeverMixed'
    BY <1>5 DEF get_ms_event, NoEvent, NeverMixed
  <1>6. CASE Return \/ Sleep \/ ReadOne \/ Skip \/ UNCHANGED vars
    BY <1>1, <1>2, <1>6 DEF Return, Sleep, ReadOne, Skip, vars, user
  <1>7. QED BY <1>3, <1>4, <1>5, <1>6 DEF Next

-----------------------------------------------------------------------------
(* A packet that arrived whole, after another that did, is still ahead of  *)
(* the driver or has been told.                                            *)

AheadOf(k, p) ==
  k <= Behind /\ (Stream[k].pk < p \/ (Stream[k].pk = p /\ Stream[k].pos = 1))
Ahead(p) == AheadOf(i, p)
Intact == {p \in (1..sent) \ lost : p - 1 \notin lost}
Caught == Marked => \A p \in Intact : p \in whole \/ Ahead(p)

(* From one byte to the next.                                              *)
LEMMA Onward ==
  ASSUME TypeOK, Ordered, Marked, NEW p \in (1..sent) \ lost, NEW k \in 1..Behind,
         Stream[k].pk < p
  PROVE  AheadOf(k + 1, p)
  <1>1. Behind \in Nat /\ Stream[k].pk \in Nat /\ p \in Nat /\ p <= sent /\ sent \in Nat
    <2>1. sent \in Nat /\ Stream[k].pk \in 1..sent BY Headed
    <2>2. QED BY <2>1, StreamBytes
  <1>2. k # Behind BY <1>1 DEF Ordered
  <1>3. k \in 1..(Behind - 1) /\ k + 1 \in 1..Behind BY <1>1, <1>2
  <1>4. Follows(Stream[k + 1], Stream[k]) BY <1>3 DEF Ordered
  <1>5. QED BY <1>1, <1>3, <1>4 DEF Follows, Begins, AheadOf

LEMMA Past ==
  ASSUME TypeOK, Ordered, Marked, NEW p \in (1..sent) \ lost, NEW k \in Nat \ {0},
         AheadOf(k, p), ~(Stream[k].pk = p /\ Stream[k].pos = 1)
  PROVE  AheadOf(k + 1, p)
  <1>1. k \in 1..Behind /\ Stream[k].pk < p BY StreamBytes DEF AheadOf
  <1>2. QED BY <1>1, Onward

(* A byte that is no header passes nothing.                                *)
LEMMA PastData ==
  ASSUME TypeOK, Ordered, Marked, NEW p \in (1..sent) \ lost, NEW s \in Nat \ {0},
         NEW m \in 0..4, AheadOf(s, p), ~(Stream[s].pk = p /\ Stream[s].pos = 1),
         \A j \in 1..m : Stream[s + j].pos # 1
  PROVE  AheadOf(s + m + 1, p)
  <1>0. s + 1 + 1 = s + 2 /\ s + 2 + 1 = s + 3 /\ s + 3 + 1 = s + 4 /\ s + 4 + 1 = s + 5
    OBVIOUS
  <1>1. AheadOf(s + 1, p) BY Past
  <1>2. m >= 1 => AheadOf(s + 2, p) BY <1>0, <1>1, Past
  <1>3. m >= 2 => AheadOf(s + 3, p) BY <1>0, <1>2, Past
  <1>4. m >= 3 => AheadOf(s + 4, p) BY <1>0, <1>3, Past
  <1>5. m >= 4 => AheadOf(s + 5, p) BY <1>0, <1>4, Past
  <1>6. m \in {0, 1, 2, 3, 4} OBVIOUS
  <1>7. QED BY <1>0, <1>1, <1>2, <1>3, <1>4, <1>5, <1>6

(* The header that is found where a data byte should be: neither it nor    *)
(* the one before it is of an intact packet.                               *)
LEMMA Broken ==
  ASSUME TypeOK, Ordered, Marked, NEW p \in Intact, NEW s \in Nat \ {0},
         NEW j \in 1..(n - 1), s + j <= Behind,
         Stream[s].pos = 1, Stream[s + j].pos = 1,
         \A h \in 1..(j - 1) : Stream[s + h].pos # 1
  PROVE  Stream[s].pk # p /\ Stream[s + j].pk # p
  <1>1. n \in {3, 4} /\ Behind \in Nat /\ j \in 1..3 /\ p \in Nat /\ p \notin lost /\ p - 1 \notin lost
    BY MarkedFacts, StreamBytes DEF Intact
  <1>2. s + 1 + 1 = s + 2 /\ s + 2 + 1 = s + 3 /\ s + 0 = s OBVIOUS
  <1>3. \A h \in 0..j : Stream[s + h].pos \in 1..4 /\ Stream[s + h].pk \in Nat
    <2> SUFFICES ASSUME NEW h \in 0..j
                 PROVE  Stream[s + h].pos \in 1..4 /\ Stream[s + h].pk \in Nat
      OBVIOUS
    <2>1. s + h \in 1..Behind BY <1>1
    <2>2. QED BY <2>1, Headed
  <1>4. \A h \in 0..(j - 1) : Follows(Stream[s + h + 1], Stream[s + h])
    <2> SUFFICES ASSUME NEW h \in 0..(j - 1) PROVE Follows(Stream[s + h + 1], Stream[s + h])
      OBVIOUS
    <2>1. s + h \in 1..(Behind - 1) BY <1>1
    <2>2. QED BY <2>1 DEF Ordered
  <1>5. Follows(Stream[s + 1], Stream[s]) BY <1>1, <1>2, <1>4
  <1>6. CASE j = 1
    BY <1>1, <1>2, <1>3, <1>5, <1>6 DEF Follows, Ends, Begins
  <1>7. CASE j = 2
    <2>1. Follows(Stream[s + 2], Stream[s + 1]) BY <1>2, <1>4, <1>7
    <2>2. Stream[s + 1].pos # 1 BY <1>7
    <2>3. QED BY <1>1, <1>2, <1>3, <1>5, <1>7, <2>1, <2>2 DEF Follows, Ends, Begins
  <1>8. CASE j = 3
    <2>1. Follows(Stream[s + 2], Stream[s + 1]) /\ Follows(Stream[s + 3], Stream[s + 2])
      BY <1>2, <1>4, <1>8
    <2>2. Stream[s + 1].pos # 1 /\ Stream[s + 2].pos # 1 BY <1>8
    <2>3. n = 4 BY <1>1, <1>8
    <2>4. QED BY <1>1, <1>2, <1>3, <1>5, <1>8, <2>1, <2>2, <2>3 DEF Follows, Ends, Begins
  <1>9. QED BY <1>1, <1>6, <1>7, <1>8

(* A MouseMan's late byte is no header.                                    *)
LEMMA LateAhead ==
  ASSUME TypeOK, Ordered, Marked, NEW p \in Intact, Ahead(p), pc = "handle"
  PROVE  AheadOf(Start, p)
  <1>1. CASE Late
    <2>1. Start = i + 1 /\ i \in Nat \ {0} /\ i <= Len(buf) /\ ~buf[i].head
      BY <1>1, LateBytes DEF TypeOK, Late, Optional
    <2>2. i \in 1..Len(buf) /\ i \in 1..Behind /\ Stream[i] = buf[i]
      BY <2>1, StreamBytes
    <2>3. Stream[i].pos # 1 BY <2>1, <2>2, Headed
    <2>4. p \in (1..sent) \ lost BY DEF Intact
    <2>5. QED BY <2>1, <2>3, <2>4, Past DEF Ahead
  <1>2. CASE ~Late BY <1>2, LateBytes DEF Ahead
  <1>3. QED BY <1>1, <1>2

LEMMA SkipAhead ==
  ASSUME TypeOK, Ordered, Skip, Marked, NEW p \in Intact, Ahead(p)
  PROVE  AheadOf(Skipped(Start), p)
  <1>1. /\ n \in {3, 4} /\ Start \in Nat \ {0} /\ Len(buf) - Start + 1 >= n
        /\ Len(buf) \in Nat /\ Behind \in Nat /\ Len(buf) <= Behind
        /\ p \in (1..sent) \ lost /\ AheadOf(Start, p)
    <2>1. n \in {3, 4} BY MarkedFacts
    <2>2. Len(buf) - Start + 1 >= n BY DEF Skip, Complete
    <2>3. Start \in Nat \ {0} BY LateBytes DEF Skip
    <2>4. Len(buf) \in Nat /\ Behind \in Nat /\ Len(buf) <= Behind BY StreamBytes
    <2>5. p \in (1..sent) \ lost BY DEF Intact
    <2>6. AheadOf(Start, p) BY LateAhead DEF Skip
    <2>7. QED BY <2>1, <2>2, <2>3, <2>4, <2>5, <2>6
  <1>2. \A k \in 1..Len(buf) : Stream[k] = buf[k] BY StreamBytes
  <1>3. Start \in 1..Len(buf) BY <1>1
  <1>4. CASE ~Header(Start)
    <2>1. ~Stream[Start].head BY <1>2, <1>3, <1>4 DEF Header
    <2>2. Stream[Start].pos # 1
      <3>1. Start \in 1..Behind BY <1>1
      <3>2. QED BY <2>1, <3>1, Headed
    <2>3. AheadOf(Start + 1, p) BY <1>1, <2>2, Past
    <2>4. QED BY <1>4, <2>3 DEF Skipped
  <1>5. CASE Header(Start)
    <2>1. BadData(Start) # {} BY <1>1, <1>5 DEF Skip
    <2>2. PICK j \in BadData(Start) :
            /\ j \in 1..(n - 1) /\ Skipped(Start) = Start + 1 + j
            /\ \A h \in 1..(j - 1) : h \notin BadData(Start)
      BY <1>1, <1>5, <2>1, BadDataFirst
    <2>3. j \in 1..3 /\ j <= n - 1 BY <1>1, <2>2
    <2>4. Stream[Start].pos = 1
      <3>1. Stream[Start].head BY <1>2, <1>3, <1>5 DEF Header
      <3>2. Start \in 1..Behind BY <1>1
      <3>3. QED BY <3>1, <3>2, Headed
    <2>5. Stream[Start + j].pos = 1
      <3>1. Start + j \in 1..Len(buf) /\ Start + j \in 1..Behind BY <1>1, <2>3
      <3>2. ~Stream[Start + j].data BY <1>2, <2>2, <3>1 DEF BadData
      <3>3. QED BY <3>1, <3>2, Headed
    <2>6. \A h \in 1..(j - 1) : Stream[Start + h].pos # 1
      <3> SUFFICES ASSUME NEW h \in 1..(j - 1) PROVE Stream[Start + h].pos # 1
        OBVIOUS
      <3>1. Start + h \in 1..Len(buf) /\ Start + h \in 1..Behind /\ h \in 1..(n - 1) BY <1>1, <2>3
      <3>2. h \notin BadData(Start) BY <2>2
      <3>3. Stream[Start + h].data BY <1>2, <3>1, <3>2, MarkedFacts DEF BadData
      <3>4. QED BY <3>1, <3>3, Headed
    <2>7. Start + j <= Behind BY <1>1, <2>3
    <2>8. Stream[Start].pk # p /\ Stream[Start + j].pk # p
      BY <1>1, <2>2, <2>4, <2>5, <2>6, <2>7, Broken
    <2>9. AheadOf(Start + (j - 1) + 1, p)
      <3>1. j - 1 \in 0..4 /\ AheadOf(Start, p) /\ ~(Stream[Start].pk = p /\ Stream[Start].pos = 1)
        BY <1>1, <2>3, <2>8
      <3>2. QED BY <1>1, <2>6, <3>1, PastData
    <2>10. Start + (j - 1) + 1 = Start + j /\ Start + j \in Nat \ {0} /\ (Start + j) + 1 = Start + 1 + j
      BY <1>1, <2>3
    <2>11. AheadOf((Start + j) + 1, p) BY <1>1, <2>8, <2>9, <2>10, Past
    <2>12. QED BY <2>2, <2>10, <2>11
  <1>6. QED BY <1>4, <1>5

LEMMA EventAhead ==
  ASSUME TypeOK, Ordered, Event, Marked, NEW p \in Intact, Ahead(p)
  PROVE  p \in whole' \/ AheadOf(i', p)
  <1>1. /\ Start \in Nat \ {0} /\ n \in {3, 4} /\ p \in (1..sent) \ lost
        /\ AheadOf(Start, p)
    BY MarkedFacts, LateBytes, LateAhead DEF Intact, Event
  <1>2. Stream[Start].pos = 1 /\ \A j \in 1..(n - 1) : Stream[Start + j].pos # 1
    BY <1>1, EventMarked
  <1>3. CASE Stream[Start].pk = p
    <2>1. Stream[Start + 0].pk \notin lost /\ 0 \in 0..(n - 1) /\ Start + 0 = Start
      BY <1>1, <1>3
    <2>2. Whole(event') /\ event'.from[1].pk = p BY <1>1, <1>3, <2>1, EventMarked
    <2>3. p \in whole' BY <2>2 DEF Event, Packets
    <2>4. QED BY <2>3
  <1>4. CASE Stream[Start].pk # p
    <2>1. n - 1 \in 0..4 BY <1>1
    <2>2. AheadOf(Start + (n - 1) + 1, p) BY <1>1, <1>2, <1>4, <2>1, PastData
    <2>3. Start + (n - 1) + 1 = Start + n /\ Start + n \in Nat \ {0} BY <1>1
    <2>4. CASE Optional(Start + n)
      <3>1. i' = Start + n + 1 BY <2>4 DEF Event
      <3>2. Start + n <= Len(buf) /\ ~buf[Start + n].head BY <2>4 DEF Optional
      <3>3. Start + n \in 1..Len(buf) /\ Start + n \in 1..Behind
        BY <2>3, <3>2, StreamBytes
      <3>4. Stream[Start + n].pos # 1 BY <3>2, <3>3, StreamBytes, Headed
      <3>5. AheadOf(Start + n + 1, p) BY <1>1, <2>2, <2>3, <3>4, Past
      <3>6. QED BY <3>1, <3>5
    <2>5. CASE ~Optional(Start + n)
      <3>1. i' = Start + n BY <2>5 DEF Event
      <3>2. QED BY <2>2, <2>3, <3>1
    <2>6. QED BY <2>4, <2>5
  <1>5. QED BY <1>3, <1>4

(* Reading what was skipped again is no harm.                              *)
LEMMA Again ==
  ASSUME TypeOK, Ordered, Ascending, Marked, NEW p \in Intact, Ahead(p)
  PROVE  AheadOf(1, p)
  <1>1. i \in 1..Behind /\ Behind \in Nat /\ i \in Nat BY StreamBytes DEF Ahead, AheadOf, TypeOK
  <1>2. CASE i = 1 BY <1>2 DEF Ahead
  <1>3. CASE i # 1
    <2>1. 1 \in 1..Behind /\ 1 < i BY <1>1, <1>3
    <2>2. /\ Stream[1].pk \in Nat /\ Stream[i].pk \in Nat
          /\ Stream[1].pos \in Nat \ {0} /\ Stream[i].pos \in Nat
      <3>1. /\ Stream[1].pk \in 1..sent /\ Stream[i].pk \in 1..sent /\ sent \in Nat
            /\ Stream[1].pos \in 1..4 /\ Stream[i].pos \in 1..4 /\ n \in {3, 4}
        BY <1>1, <2>1, Headed, MarkedFacts
      <3>2. QED BY <3>1
    <2>3. \/ Stream[1].pk < Stream[i].pk
          \/ Stream[1].pk = Stream[i].pk /\ Stream[1].pos < Stream[i].pos
      BY <1>1, <2>1 DEF Ascending
    <2>4. p \in Nat BY DEF Intact
    <2>5. QED BY <1>1, <2>1, <2>2, <2>3, <2>4 DEF Ahead, AheadOf
  <1>4. QED BY <1>2, <1>3

LEMMA SendCaught ==
  ASSUME TypeOK, Ordered, Caught, Send PROVE Caught'
  <1>1. PICK add \in Seq(Byte), k \in 1..5 : Arrives(add, k) BY Added
  <1>2. /\ m_type' = m_type /\ i' = i /\ whole' = whole
        /\ sent \in Nat /\ sent' = sent + 1 /\ i \in 1..(Behind + 1)
        /\ Behind \in Nat /\ Len(add) \in Nat /\ Behind' = Behind + Len(add)
        /\ \A j \in 1..Behind : Stream'[j] = Stream[j]
    <2>1. m_type' = m_type /\ i' = i /\ whole' = whole /\ sent' = sent + 1 BY DEF Send
    <2>2. sent \in Nat /\ i \in 1..(Len(buf) + 1) BY MouseAssumption DEF TypeOK
    <2>3. /\ Behind \in Nat /\ Behind = Len(buf) + Len(line)
          /\ Len(buf) \in Nat /\ Len(line) \in Nat
      BY StreamBytes DEF TypeOK
    <2>4. Len(add) \in Nat OBVIOUS
    <2>5. Behind' = Behind + Len(add) /\ \A j \in 1..Behind : Stream'[j] = Stream[j]
      BY <1>1 DEF Arrives
    <2>6. QED BY <2>1, <2>2, <2>3, <2>4, <2>5
  <1>3. lost \subseteq lost' /\ (k = 5 \/ sent' \in lost') BY <1>1 DEF Arrives
  <1>4. SUFFICES ASSUME Marked, NEW p \in Intact' PROVE p \in whole \/ Ahead(p)'
    BY <1>2 DEF Caught, Marked
  <1>5. p \in 1..sent' /\ p \notin lost' /\ p - 1 \notin lost' BY DEF Intact
  <1>6. CASE p # sent'
    <2>1. p \in Intact BY <1>2, <1>3, <1>5, <1>6 DEF Intact
    <2>2. p \in whole \/ Ahead(p) BY <1>4, <2>1 DEF Caught
    <2>3. ASSUME Ahead(p) PROVE Ahead(p)'
      <3>1. i \in 1..Behind BY <1>2, <2>3 DEF Ahead, AheadOf
      <3>2. i' <= Behind' /\ Stream'[i'] = Stream[i] BY <1>2, <3>1
      <3>3. QED BY <2>3, <3>2 DEF Ahead, AheadOf
    <2>4. QED BY <2>2, <2>3
  <1>7. CASE p = sent'
    <2>1. CASE i <= Behind
      <3>1. i \in 1..Behind BY <1>2, <2>1
      <3>2. Stream[i].pk \in 1..sent BY <1>4, <3>1, Headed
      <3>3. i' <= Behind' /\ Stream'[i'] = Stream[i] /\ Stream[i].pk < p
        BY <1>2, <1>7, <3>1, <3>2
      <3>4. QED BY <3>3 DEF Ahead, AheadOf
    <2>2. CASE i > Behind
      <3>1. k = 5 BY <1>3, <1>5, <1>7
      <3>2. Length(held') \in 3..4 BY Protocols DEF Length, TypeOK
      <3>3. Len(add) \in 3..4 /\ 1 \in 1..Len(add) /\ Place(k, 1) = 1
        BY <1>1, <3>1, <3>2 DEF Arrives, Place
      <3>4. Stream'[Behind + 1] = add[1] /\ add[1].pk = sent' /\ add[1].pos = 1
        BY <1>1, <3>3 DEF Arrives
      <3>5. i' = Behind + 1 /\ i' <= Behind' BY <1>2, <2>2, <3>3
      <3>6. QED BY <1>7, <3>4, <3>5 DEF Ahead, AheadOf
    <2>3. QED BY <1>2, <2>1, <2>2
  <1>8. QED BY <1>6, <1>7

LEMMA UsedCaught ==
  ASSUME Caught, user' = user, whole \subseteq whole',
         \A p \in Intact : Marked /\ Ahead(p) => p \in whole' \/ Ahead(p)'
  PROVE  Caught'
  <1>1. Intact' = Intact /\ (Marked' <=> Marked) BY DEF user, Intact, Marked
  <1>2. SUFFICES ASSUME Marked, NEW p \in Intact PROVE p \in whole' \/ Ahead(p)'
    BY <1>1 DEF Caught
  <1>3. QED BY <1>2 DEF Caught

LEMMA StepCaught ==
  ASSUME TypeOK, Ordered, Ascending, Caught, [Next]_vars PROVE Caught'
  <1>1. CASE Send BY <1>1, SendCaught
  <1>2. ASSUME NEW w \in BOOLEAN, get_ms_event(w) PROVE Caught'
    <2>1. user' = user /\ whole' = whole /\ i' = i /\ Stream' = Stream /\ Behind' = Behind
      BY <1>2, SameStream DEF get_ms_event, ReadArrived, TypeOK
    <2>2. \A p : Ahead(p) => Ahead(p)' BY <2>1 DEF Ahead, AheadOf
    <2>3. QED BY <2>1, <2>2, UsedCaught
  <1>3. CASE ReadOne
    <2>1. user' = user /\ whole' = whole /\ Stream' = Stream /\ Behind' = Behind
      BY <1>3, SameStream DEF ReadOne
    <2>2. i' = i \/ i' = 1 BY <1>3 DEF ReadOne
    <2>3. ASSUME NEW p \in Intact, Marked, Ahead(p) PROVE Ahead(p)'
      BY <2>1, <2>2, <2>3, Again DEF Ahead, AheadOf
    <2>4. QED BY <2>1, <2>3, UsedCaught
  <1>4. CASE Return
    <2>1. user' = user /\ whole' = whole /\ i' = 1 BY <1>4 DEF Return
    <2>2. ASSUME NEW p \in Intact, Marked, Ahead(p) PROVE Ahead(p)'
      <3>1. AheadOf(Start, p) BY <1>4, <2>2, LateAhead DEF Return
      <3>2. Start \in 1..Behind /\ Behind \in Nat
        BY <1>4, <3>1, LateBytes, StreamBytes DEF AheadOf, Return
      <3>3. 1 \in 1..Behind' /\ 1 <= Behind' /\ 1 + Start - 1 = Start
        BY <1>4, <3>2, ReturnUses
      <3>4. Stream'[1] = Stream[Start] BY <1>4, <3>3, ReturnUses
      <3>5. QED BY <2>1, <3>1, <3>3, <3>4 DEF Ahead, AheadOf
    <2>3. QED BY <2>1, <2>2, UsedCaught
  <1>5. CASE Sleep
    <2>1. user' = user /\ whole' = whole BY <1>5 DEF Sleep
    <2>2. ASSUME NEW p \in Intact, Marked, Ahead(p) PROVE Ahead(p)'
      <3>1. CASE Stream' = Stream /\ Behind' = Behind /\ i' = i
        BY <2>2, <3>1 DEF Ahead, AheadOf
      <3>2. CASE /\ Start = Len(buf) + 1 /\ i' = 1
                 /\ Behind' = Behind - Start + 1
                 /\ \A j \in 1..Behind' : Stream'[j] = Stream[j + Start - 1]
        <4>1. AheadOf(Start, p) BY <1>5, <2>2, LateAhead DEF Sleep
        <4>2. Start \in 1..Behind /\ Behind \in Nat
          BY <1>5, <4>1, LateBytes, StreamBytes DEF AheadOf, Sleep
        <4>3. 1 \in 1..Behind' /\ 1 <= Behind' /\ 1 + Start - 1 = Start BY <3>2, <4>2
        <4>4. Stream'[1] = Stream[Start] BY <3>2, <4>3
        <4>5. QED BY <3>2, <4>1, <4>3, <4>4 DEF Ahead, AheadOf
      <3>3. QED BY <1>5, <3>1, <3>2, SleepUses
    <2>3. QED BY <2>1, <2>2, UsedCaught
  <1>6. CASE Skip
    <2>1. user' = user /\ whole' = whole /\ Stream' = Stream /\ Behind' = Behind
      BY <1>6, SameStream DEF Skip
    <2>2. ASSUME NEW p \in Intact, Marked, Ahead(p) PROVE Ahead(p)'
      <3>1. i' = Skipped(Start) BY <1>6 DEF Skip
      <3>2. AheadOf(Skipped(Start), p) BY <1>6, <2>2, SkipAhead
      <3>3. QED BY <2>1, <3>1, <3>2 DEF Ahead, AheadOf
    <2>3. QED BY <2>1, <2>2, UsedCaught
  <1>7. CASE Event
    <2>1. user' = user /\ whole \subseteq whole' /\ Stream' = Stream /\ Behind' = Behind
      BY <1>7, SameStream DEF Event
    <2>2. ASSUME NEW p \in Intact, Marked, Ahead(p) PROVE p \in whole' \/ Ahead(p)'
      <3>1. p \in whole' \/ AheadOf(i', p) BY <1>7, <2>2, EventAhead
      <3>2. QED BY <2>1, <3>1 DEF Ahead, AheadOf
    <2>3. QED BY <2>1, <2>2, UsedCaught
  <1>8. CASE UNCHANGED vars
    <2>1. user' = user /\ whole' = whole /\ i' = i /\ Stream' = Stream /\ Behind' = Behind
      BY <1>8 DEF vars, user, Stream, Behind
    <2>2. \A p : Ahead(p) => Ahead(p)' BY <2>1 DEF Ahead, AheadOf
    <2>3. QED BY <2>1, <2>2, UsedCaught
  <1>9. QED BY <1>1, <1>2, <1>3, <1>4, <1>5, <1>6, <1>7, <1>8 DEF Next

LEMMA InitSent ==
  ASSUME Init
  PROVE  Ordered /\ Ascending /\ NeverMixed /\ Caught
  <1>1. Stream = <<>> /\ Behind = 0 BY DEF Init, Stream, Behind
  <1>2. sent = 0 /\ event = NoEvent BY DEF Init
  <1>3. Ordered /\ Ascending BY <1>1 DEF Ordered, Ascending
  <1>4. Caught BY <1>2 DEF Caught, Intact
  <1>5. NeverMixed BY <1>2 DEF NeverMixed, NoEvent
  <1>6. QED BY <1>3, <1>4, <1>5

(* What is left when all is read is less than a packet, and begins no      *)
(* packet but the last.                                                    *)
LEMMA CaughtUp ==
  ASSUME TypeOK, Ordered, Caught PROVE Resynchronised
  <1>1. SUFFICES ASSUME Marked, ReadAll, NEW p \in (1..sent) \ lost, p - 1 \notin lost,
                        p < sent \/ buf = <<>>, p \notin whole
                 PROVE  FALSE
    BY DEF Resynchronised
  <1>2. /\ i = 1 /\ Behind = Len(buf) /\ Behind \in 0..3 /\ Behind < n /\ n \in {3, 4}
        /\ p \in Nat /\ sent \in Nat
    BY <1>1, MarkedFacts, StreamBytes, MouseAssumption DEF ReadAll, TypeOK
  <1>3. AheadOf(1, p) BY <1>1, <1>2 DEF Caught, Intact, Ahead
  <1>4. 1 <= Behind /\ buf # <<>> /\ p < sent BY <1>1, <1>2, <1>3 DEF AheadOf
  <1>5. Stream[Behind].pk = sent /\ Ends(Stream[Behind]) BY <1>2, <1>4 DEF Ordered
  <1>6. \A j \in 1..(Behind - 1) : Follows(Stream[j + 1], Stream[j]) BY DEF Ordered
  <1>7. \A j \in 1..Behind : Stream[j].pos \in 1..4 /\ Stream[j].pk \in Nat
    BY <1>1, Headed
  <1>8. Stream[1].pk < p \/ (Stream[1].pk = p /\ Stream[1].pos = 1) BY <1>3 DEF AheadOf
  <1>9. CASE Behind = 1 BY <1>2, <1>4, <1>5, <1>8, <1>9
  <1>10. CASE Behind = 2
    <2>1. Follows(Stream[2], Stream[1]) BY <1>6, <1>10
    <2>2. Stream[1].pk \in Nat /\ Stream[1].pos \in 1..4 BY <1>7, <1>10
    <2>3. QED BY <1>1, <1>2, <1>4, <1>5, <1>8, <1>10, <2>1, <2>2 DEF Follows, Ends, Begins
  <1>11. CASE Behind = 3
    <2>1. Follows(Stream[2], Stream[1]) /\ Follows(Stream[3], Stream[2]) BY <1>6, <1>11
    <2>2. /\ Stream[1].pk \in Nat /\ Stream[1].pos \in 1..4
          /\ Stream[2].pk \in Nat /\ Stream[2].pos \in 1..4
      BY <1>7, <1>11
    <2>3. n = 4 /\ p \notin lost /\ Stream[3].pk = sent BY <1>1, <1>2, <1>5, <1>11
    <2>4. \/ Stream[2].pk < p
          \/ Stream[2].pk = p /\ Stream[2].pos <= 2
      <3>1. CASE Stream[1].pk < p BY <1>2, <2>1, <2>2, <2>3, <3>1 DEF Follows, Begins
      <3>2. CASE Stream[1].pk = p /\ Stream[1].pos = 1
        BY <2>1, <2>3, <3>2 DEF Follows, Ends
      <3>3. QED BY <1>8, <3>1, <3>2
    <2>5. QED BY <1>2, <1>4, <2>1, <2>2, <2>3, <2>4 DEF Follows, Ends, Begins
  <1>12. QED BY <1>2, <1>4, <1>9, <1>10, <1>11

(* Every state is well typed: get_ms_event's index stays within what it    *)
(* has read, and what it returns with is always less than a packet, at the *)
(* front of the buffer.                                                    *)
THEOREM TypeCorrect == Spec => []TypeOK
  <1>1. Init => TypeOK BY InitTypes
  <1>2. TypeOK /\ [Next]_vars => TypeOK' BY StepTypes
  <1>3. QED BY <1>1, <1>2, PTL DEF Spec

(* Where a bit tells a header from the data, a lost byte costs the packet  *)
(* it was of and at most the next one, and no packet that arrived whole is *)
(* mixed into another (the check of the data bytes, and where get_ms_event *)
(* goes on after a byte that fails it).                                    *)
THEOREM Contained == Spec => []LossContained
  <1> DEFINE Inv == Ordered /\ Ascending /\ NeverMixed /\ Caught
  <1>1. Init => Inv BY InitSent
  <1>2. TypeOK /\ Inv /\ [Next]_vars => Inv'
    BY StepOrdered, StepAscending, StepNeverMixed, StepCaught
  <1>3. TypeOK /\ Inv => LossContained BY CaughtUp DEF LossContained
  <1>4. QED BY <1>1, <1>2, <1>3, TypeCorrect, PTL DEF Spec

-----------------------------------------------------------------------------
(* A line that loses nothing: the driver always stands before a packet, or *)
(* before the byte a MouseMan sent after the packet it told last.          *)

NextAt(k, t) ==
  \/ Stream[k].pos = 1 /\ Stream[k].pk = t + 1
  \/ m_type = "LOGIMAN" /\ Stream[k].pos = 4 /\ Stream[k].pk = t
OnWay(k, t) == IF k > Behind THEN t = sent ELSE NextAt(k, t)

LEMMA Sound ==
  ASSUME TypeOK, Ordered, lost = {}, NEW k \in 1..Behind
  PROVE  /\ Stream[k].pos \in 1..4 /\ Stream[k].pk \in 1..sent /\ sent \in Nat
         /\ Stream[k].pos = 1 => Stream[k].head
         /\ Stream[k].pos <= n \/ (m_type = "LOGIMAN" /\ n = 3)
         /\ proto[m_type].checked => Stream[k].data \/ Stream[k].pos = 1
         /\ m_type = "LOGIMAN" => (Stream[k].head <=> Stream[k].pos = 1)
         /\ Stream[k].pos = 4 => Stream[k].small
  <1>1. Genuine(Stream[k]) BY DEF Ordered
  <1>2. /\ Stream[k].pos \in 1..4 /\ Stream[k].pk \in 1..PacketMax
        /\ PacketMax \in Nat /\ sent \in Nat
    BY <1>1, MouseAssumption DEF Genuine, Byte, TypeOK
  <1>3. m_type = "LOGIMAN" => n = 3 /\ ~proto[m_type].alike BY Protocols DEF TypeOK
  <1>4. QED BY <1>1, <1>2, <1>3 DEF Genuine

LEMMA InOrder ==
  ASSUME TypeOK, Ordered, lost = {}, NEW k \in 1..(Behind - 1)
  PROVE  \/ Stream[k + 1].pk = Stream[k].pk /\ Stream[k + 1].pos = Stream[k].pos + 1
         \/ /\ Stream[k + 1].pk = Stream[k].pk + 1 /\ Stream[k + 1].pos = 1
            /\ Stream[k].pos >= n
  <1>1. Follows(Stream[k + 1], Stream[k]) BY DEF Ordered
  <1>2. QED BY <1>1 DEF Follows, Ends, Begins

LEMMA OnWayNext ==
  ASSUME TypeOK, Ordered, lost = {}, NEW k \in 1..Behind, Stream[k].pos >= n
  PROVE  /\ OnWay(k + 1, Stream[k].pk)
         /\ k < Behind /\ Stream[k].pos = 4 =>
              Stream[k + 1].pos = 1 /\ Stream[k + 1].pk = Stream[k].pk + 1
  <1>1. /\ Behind \in Nat /\ n \in {3, 4} /\ Stream[k].pos \in 1..4
        /\ m_type = "LOGIMAN" => n = 3
    BY StreamBytes, Sound, Protocols DEF TypeOK
  <1>2. CASE k = Behind
    BY <1>1, <1>2 DEF Ordered, OnWay
  <1>3. CASE k # Behind
    <2>1. k \in 1..(Behind - 1) /\ k + 1 \in 1..Behind BY <1>1, <1>3
    <2>2. Stream[k + 1].pos \in 1..4
          /\ (Stream[k + 1].pos <= n \/ (m_type = "LOGIMAN" /\ n = 3))
      BY <2>1, Sound
    <2>3. QED BY <1>1, <2>1, <2>2, InOrder DEF OnWay, NextAt
  <1>4. QED BY <1>2, <1>3

LEMMA StartAt ==
  ASSUME TypeOK, Ordered, lost = {}, pc = "handle", NEW t \in Nat, OnWay(i, t)
  PROVE  /\ OnWay(Start, t) /\ Start \in Nat \ {0}
         /\ Start <= Len(buf) => Stream[Start].pos = 1 /\ Stream[Start].pk = t + 1
         /\ Late => Stream[i].pos = 4 /\ Start = i + 1 /\ m_type = "LOGIMAN"
         /\ ~Late => Start = i
  <1>1. /\ i \in 1..(Len(buf) + 1) /\ Len(buf) \in Nat /\ Len(buf) <= Behind
        /\ Behind \in Nat
    BY StreamBytes DEF TypeOK
  <1>2. CASE i > Len(buf)
    <2>1. ~Late /\ Start = i BY <1>2, <1>1 DEF Late, Optional, Start
    <2>2. QED BY <1>1, <1>2, <2>1
  <1>3. CASE i <= Len(buf)
    <2>1. i \in 1..Len(buf) /\ i \in 1..Behind /\ Stream[i] = buf[i]
      BY <1>1, <1>3, StreamBytes
    <2>2. NextAt(i, t) BY <1>1, <2>1 DEF OnWay
    <2>3. CASE Stream[i].pos = 1 /\ Stream[i].pk = t + 1
      <3>1. ~Late /\ Start = i BY <2>1, <2>3, Sound DEF Late, Optional, Start
      <3>2. QED BY <1>1, <2>3, <3>1
    <2>4. CASE m_type = "LOGIMAN" /\ Stream[i].pos = 4 /\ Stream[i].pk = t
      <3>1. Late /\ Start = i + 1 BY <1>3, <2>1, <2>4, Sound DEF Late, Optional, Start
      <3>2. Stream[i].pos >= n BY <2>4, Protocols DEF TypeOK
      <3>3. OnWay(Start, t) BY <2>1, <2>4, <3>1, <3>2, OnWayNext
      <3>4. Start <= Len(buf) => Stream[Start].pos = 1 /\ Stream[Start].pk = t + 1
        BY <1>1, <2>1, <2>4, <3>1, <3>2, OnWayNext
      <3>5. QED BY <1>1, <2>4, <3>1, <3>3, <3>4
    <2>5. QED BY <2>2, <2>3, <2>4 DEF NextAt
  <1>4. QED BY <1>1, <1>2, <1>3

(* A packet's bytes, one after the other.                                  *)
LEMMA PacketThere ==
  ASSUME TypeOK, Ordered, lost = {}, NEW s \in Nat \ {0}, s + (n - 1) <= Behind,
         Stream[s].pos = 1
  PROVE  \A j \in 0..(n - 1) : /\ s + j \in 1..Behind
                               /\ Stream[s + j].pk = Stream[s].pk
                               /\ Stream[s + j].pos = j + 1
  <1>1. n \in {3, 4} /\ Behind \in Nat BY Protocols, StreamBytes DEF TypeOK
  <1>2. s + 0 = s /\ s + 1 + 1 = s + 2 /\ s + 2 + 1 = s + 3 OBVIOUS
  <1>3. \A j \in 0..(n - 1) : s + j \in 1..Behind BY <1>1
  <1>4. /\ Stream[s].pk \in Nat
        /\ s \in 1..(Behind - 1) /\ s + 1 \in 1..(Behind - 1)
    <2>1. s \in 1..Behind BY <1>1
    <2>2. Stream[s].pk \in 1..sent BY <2>1, Sound
    <2>3. QED BY <1>1, <2>2
  <1>5. Stream[s + 1].pk = Stream[s].pk /\ Stream[s + 1].pos = 2
    BY <1>1, <1>4, InOrder
  <1>6. Stream[s + 2].pk = Stream[s].pk /\ Stream[s + 2].pos = 3
    BY <1>1, <1>2, <1>4, <1>5, InOrder
  <1>7. CASE n = 3
    <2>1. \A j \in 0..2 : j = 0 \/ j = 1 \/ j = 2 OBVIOUS
    <2>2. QED BY <1>2, <1>3, <1>5, <1>6, <1>7, <2>1
  <1>8. CASE n = 4
    <2>1. s + 2 \in 1..(Behind - 1) BY <1>1, <1>8
    <2>2. Stream[s + 3].pk = Stream[s].pk /\ Stream[s + 3].pos = 4
      BY <1>2, <1>6, <1>8, <2>1, InOrder
    <2>3. \A j \in 0..3 : j = 0 \/ j = 1 \/ j = 2 \/ j = 3 OBVIOUS
    <2>4. QED BY <1>2, <1>3, <1>5, <1>6, <1>8, <2>2, <2>3
  <1>9. QED BY <1>1, <1>7, <1>8

LEMMA NeverSkips ==
  ASSUME TypeOK, Ordered, lost = {}, NEW t \in Nat, OnWay(i, t)
  PROVE  ~Skip
  <1>1. SUFFICES ASSUME Skip PROVE FALSE OBVIOUS
  <1>2. /\ n \in {3, 4} /\ Start \in Nat \ {0} /\ Start + (n - 1) <= Len(buf)
        /\ Len(buf) \in Nat /\ Len(buf) <= Behind /\ Start <= Len(buf) /\ Behind \in Nat
    <2>1. n \in {3, 4} /\ Len(buf) \in Nat /\ Len(buf) <= Behind /\ Behind \in Nat
      BY Protocols, StreamBytes DEF TypeOK
    <2>2. Start \in Nat \ {0} /\ Len(buf) - Start + 1 >= n
      BY <1>1, StartAt DEF Skip, Complete
    <2>3. QED BY <2>1, <2>2
  <1>3. Stream[Start].pos = 1 BY <1>1, <1>2, StartAt DEF Skip
  <1>4. \A j \in 0..(n - 1) : Stream[Start + j].pos = j + 1 /\ Start + j \in 1..Behind
    <2>1. Start + (n - 1) <= Behind BY <1>2
    <2>2. QED BY <1>2, <1>3, <2>1, PacketThere
  <1>5. Header(Start)
    <2>1. Start \in 1..Behind /\ Start \in 1..Len(buf) BY <1>2
    <2>2. QED BY <1>3, <2>1, Sound, StreamBytes DEF Header
  <1>6. ASSUME NEW j \in BadData(Start) PROVE FALSE
    <2>1. j \in 1..(n - 1) /\ proto[m_type].checked /\ ~buf[Start + j].data
      BY DEF BadData
    <2>2. j \in 0..(n - 1) /\ Start + j \in 1..Behind /\ Stream[Start + j].pos # 1
          /\ Start + j \in 1..Len(buf)
      BY <1>2, <1>4, <2>1
    <2>3. QED BY <2>1, <2>2, Sound, StreamBytes
  <1>7. QED BY <1>1, <1>5, <1>6 DEF Skip

(* The packet an event takes, and what follows it.                         *)
LEMMA EventTells ==
  ASSUME TypeOK, Ordered, lost = {}, NEW t \in Nat, OnWay(i, t), Event
  PROVE  /\ Start \in Nat \ {0} /\ Start + (n - 1) <= Len(buf) /\ n \in {3, 4}
         /\ \A j \in 0..(n - 1) : /\ Start + j \in 1..Behind
                                  /\ Stream[Start + j].pk = t + 1
                                  /\ Stream[Start + j].pos = j + 1
         /\ Whole(event') /\ event'.from[1].pk = t + 1 /\ Packets(event') = {t + 1}
  <1>1. /\ n \in {3, 4} /\ Start \in Nat \ {0} /\ Start + (n - 1) <= Len(buf)
        /\ Start <= Len(buf) /\ Start + (n - 1) <= Behind
    <2>1. n \in {3, 4} /\ Len(buf) \in Nat /\ Len(buf) <= Behind /\ Behind \in Nat
      BY Protocols, StreamBytes DEF TypeOK
    <2>2. Start \in Nat \ {0} /\ Len(buf) - Start + 1 >= n
      BY StartAt DEF Event, Complete
    <2>3. QED BY <2>1, <2>2
  <1>2. Stream[Start].pos = 1 /\ Stream[Start].pk = t + 1 BY <1>1, StartAt DEF Event
  <1>3. \A j \in 0..(n - 1) : /\ Start + j \in 1..Behind
                              /\ Stream[Start + j].pk = t + 1
                              /\ Stream[Start + j].pos = j + 1
    BY <1>1, <1>2, PacketThere
  <1>4. ASSUME NEW j \in 1..n PROVE event'.from[j].pk = t + 1 /\ event'.from[j].pos = j
    <2>1. j - 1 \in 0..(n - 1) /\ Start + (j - 1) = Start + j - 1 /\ j - 1 + 1 = j
      BY <1>1
    <2>2. event'.from[j] = Stream[Start + (j - 1)] BY <2>1, EventBytes
    <2>3. QED BY <1>3, <2>1, <2>2
  <1>5. 1 \in 1..n BY <1>1
  <1>6. Whole(event') BY <1>4, <1>5, EventBytes DEF Whole
  <1>7. event'.from[1].pk = t + 1 BY <1>4, <1>5
  <1>8. QED BY <1>1, <1>3, <1>6, <1>7 DEF Packets

LEMMA AfterPacket ==
  ASSUME TypeOK, Ordered, lost = {}, NEW t \in Nat, OnWay(i, t), Event
  PROVE  /\ Start + n \in Nat \ {0} /\ Start + n <= Behind + 1
         /\ Optional(Start + n) => /\ Start + n \in 1..Behind /\ Start + n <= Len(buf)
                                   /\ Stream[Start + n].pos = 4
                                   /\ m_type = "LOGIMAN"
                                   /\ i' = Start + n + 1
         /\ ~Optional(Start + n) => i' = Start + n
         /\ OnWay(i', t + 1)
         /\ ~Optional(Start + n) /\ Start + n <= Len(buf) => Stream[Start + n].pos = 1
  <1>1. /\ Start \in Nat \ {0} /\ Start + (n - 1) <= Len(buf) /\ n \in {3, 4}
        /\ Len(buf) \in Nat /\ Len(buf) <= Behind /\ Behind \in Nat
        /\ (Start + (n - 1)) + 1 = Start + n
    BY EventTells, StreamBytes
  <1>2. /\ Start + (n - 1) \in 1..Behind /\ Stream[Start + (n - 1)].pk = t + 1
        /\ Stream[Start + (n - 1)].pos = n
    <2>1. n - 1 \in 0..(n - 1) /\ (n - 1) + 1 = n BY <1>1
    <2>2. QED BY <2>1, EventTells
  <1>3. OnWay(Start + n, t + 1)
    <2>1. Stream[Start + (n - 1)].pos >= n BY <1>1, <1>2
    <2>2. QED BY <1>1, <1>2, <2>1, OnWayNext
  <1>4. i' = IF Optional(Start + n) THEN Start + n + 1 ELSE Start + n BY DEF Event
  <1>5. CASE Optional(Start + n)
    <2>1. /\ m_type = "LOGIMAN" /\ Start + n <= Len(buf)
          /\ ~buf[Start + n].head /\ n = 3
      BY <1>5, Protocols DEF Optional, TypeOK
    <2>2. Start + n \in 1..Len(buf) /\ Start + n \in 1..Behind
          /\ Stream[Start + n] = buf[Start + n] /\ ~(Start + n > Behind)
      BY <1>1, <2>1, StreamBytes
    <2>3. Stream[Start + n].pos = 4 /\ Stream[Start + n].pk = t + 1
      BY <1>3, <2>1, <2>2, Sound DEF OnWay, NextAt
    <2>4. OnWay(Start + n + 1, t + 1)
      <3>1. Stream[Start + n].pos >= n BY <2>1, <2>3
      <3>2. QED BY <2>2, <2>3, <3>1, OnWayNext
    <2>5. QED BY <1>1, <1>4, <1>5, <2>1, <2>2, <2>3, <2>4
  <1>6. CASE ~Optional(Start + n)
    <2>1. ASSUME Start + n <= Len(buf), Stream[Start + n].pos # 1 PROVE FALSE
      <3>1. Start + n \in 1..Len(buf) /\ Start + n \in 1..Behind
            /\ Stream[Start + n] = buf[Start + n] /\ ~(Start + n > Behind)
        BY <1>1, <2>1, StreamBytes
      <3>2. m_type = "LOGIMAN" /\ Stream[Start + n].pos = 4
        BY <1>3, <2>1, <3>1 DEF OnWay, NextAt
      <3>3. QED BY <1>6, <2>1, <3>1, <3>2, Sound DEF Optional
    <2>2. QED BY <1>1, <1>3, <1>4, <1>6, <2>1
  <1>7. QED BY <1>5, <1>6

(* t packets have been told, all that are before i.                        *)
InStepAt(t) ==
  /\ whole = 1..t
  /\ Len(event.from) > 1 => Whole(event) /\ event.from[1].pk = t
  /\ OnWay(i, t)
  /\ ~event_handled => i = 1
  /\ pc = "block" => ~event_handled
InStep == lost = {} => \E t \in 0..sent : InStepAt(t)

LEMMA OnWayMoves ==
  ASSUME TypeOK, user' = user, NEW t \in Nat, NEW s \in 1..(Behind + 1), OnWay(s, t),
         i' = 1, Behind' = Behind - s + 1,
         \A j \in 1..Behind' : Stream'[j] = Stream[j + s - 1]
  PROVE  OnWay(i, t)'
  <1>1. m_type' = m_type /\ sent' = sent /\ Behind \in Nat BY StreamBytes DEF user
  <1>2. CASE s > Behind BY <1>1, <1>2 DEF OnWay
  <1>3. CASE s <= Behind
    <2>1. 1 \in 1..Behind' /\ 1 + s - 1 = s BY <1>1, <1>3
    <2>2. Stream'[1] = Stream[s] /\ 1 <= Behind' /\ ~(s > Behind) BY <1>1, <1>3, <2>1
    <2>3. QED BY <1>1, <1>3, <2>2 DEF OnWay, NextAt
  <1>4. QED BY <1>1, <1>2, <1>3

LEMMA SendInStep ==
  ASSUME TypeOK, Ordered, NEW t \in 0..sent, InStepAt(t), Send, lost' = {}
  PROVE  t \in 0..sent' /\ InStepAt(t)'
  <1>1. PICK add \in Seq(Byte), k \in 1..5 : Arrives(add, k) BY Added
  <1>2. /\ m_type' = m_type /\ n' = n /\ i' = i /\ sent \in Nat /\ sent' = sent + 1
        /\ <<whole, event, event_handled, pc>>' = <<whole, event, event_handled, pc>>
        /\ i \in 1..(Behind + 1) /\ Behind \in Nat /\ t \in Nat
    BY StreamBytes, MouseAssumption DEF Send, TypeOK, n
  <1>3. Length(held') \in 3..4 BY Protocols DEF Length, TypeOK
  <1>4. k = 5 /\ lost = {} BY <1>1, <1>2 DEF Arrives
  <1>5. /\ Len(add) \in 3..4 /\ Behind' = Behind + Len(add)
        /\ \A j \in 1..Behind : Stream'[j] = Stream[j]
        /\ Stream'[Behind + 1] = add[1] /\ add[1].pk = sent' /\ add[1].pos = 1
    <2>1. Len(add) \in 3..4 /\ 1 \in 1..Len(add) /\ Place(k, 1) = 1
      BY <1>1, <1>3, <1>4 DEF Arrives, Place
    <2>2. QED BY <1>1, <2>1 DEF Arrives
  <1>6. OnWay(i, t)'
    <2>1. CASE i <= Behind
      <3>1. i \in 1..Behind /\ ~(i > Behind) /\ ~(i' > Behind') BY <1>2, <1>5, <2>1
      <3>2. Stream'[i'] = Stream[i] BY <1>2, <1>5, <3>1
      <3>3. NextAt(i, t) BY <3>1 DEF InStepAt, OnWay
      <3>4. QED BY <1>2, <3>1, <3>2, <3>3 DEF OnWay, NextAt
    <2>2. CASE i > Behind
      <3>1. t = sent BY <2>2 DEF InStepAt, OnWay
      <3>2. i' = Behind + 1 /\ ~(i' > Behind') BY <1>2, <1>5, <2>2
      <3>3. QED BY <1>2, <1>5, <3>1, <3>2 DEF OnWay, NextAt
    <2>3. QED BY <1>2, <2>1, <2>2
  <1>7. QED BY <1>2, <1>6 DEF InStepAt, Whole

LEMMA StepInStep ==
  ASSUME TypeOK, Ordered, InStep, [Next]_vars PROVE InStep'
  <1> SUFFICES ASSUME lost' = {} PROVE \E t \in 0..sent' : InStepAt(t)'
    BY DEF InStep
  <1>0. lost = {}
    BY Added DEF Arrives, Next, Send, get_ms_event, Return, Sleep, ReadOne, Skip,
         Event, vars, user
  <1>1. PICK t \in 0..sent : InStepAt(t) BY <1>0 DEF InStep
  <1>2. /\ t \in Nat /\ sent \in Nat /\ i \in 1..(Behind + 1) /\ Behind \in Nat
        /\ OnWay(i, t)
    BY <1>1, StreamBytes, MouseAssumption DEF TypeOK, InStepAt
  <1>3. CASE Send BY <1>1, <1>3, SendInStep
  <1>4. ASSUME NEW w \in BOOLEAN, get_ms_event(w) PROVE InStepAt(t)'
    <2>1. /\ user' = user /\ whole' = whole /\ i' = i /\ i' = 1 /\ Stream' = Stream
          /\ Behind' = Behind /\ event' = NoEvent /\ pc' = "handle"
      BY <1>4, SameStream DEF get_ms_event, ReadArrived, TypeOK
    <2>2. OnWay(i, t)' BY <1>2, <2>1 DEF OnWay, NextAt, user
    <2>3. Len(event'.from) = 0 BY <2>1 DEF NoEvent
    <2>4. QED BY <1>1, <2>1, <2>2, <2>3 DEF InStepAt
  <1>5. CASE ReadOne
    <2>1. /\ user' = user /\ whole' = whole /\ Stream' = Stream /\ Behind' = Behind
          /\ event' = event /\ pc' = "handle" /\ event_handled' = event_handled
      BY <1>5, SameStream DEF ReadOne
    <2>2. i = 1 /\ i' = 1 BY <1>1, <1>5 DEF ReadOne, InStepAt
    <2>3. n' = n BY <2>1 DEF user, n
    <2>4. OnWay(i, t)' BY <1>2, <2>1, <2>2 DEF OnWay, NextAt, user
    <2>5. QED BY <1>1, <2>1, <2>2, <2>3, <2>4 DEF user, InStepAt, Whole
  <1>6. CASE Return
    <2>1. /\ user' = user /\ whole' = whole /\ i' = 1 /\ event' = LateEvent /\ pc' = "out"
          /\ pc = "handle"
      BY <1>6 DEF Return
    <2>2. n' = n BY <2>1 DEF user, n
    <2>3. OnWay(Start, t) /\ Start \in 1..(Behind + 1)
      BY <1>0, <1>2, <2>1, StartAt, LateBytes, StreamBytes
    <2>4. OnWay(i, t)' BY <1>2, <1>6, <2>1, <2>3, ReturnUses, OnWayMoves
    <2>5. Len(event'.from) > 1 => event' = event
      BY <2>1 DEF LateEvent
    <2>6. QED BY <1>1, <2>1, <2>2, <2>4, <2>5 DEF user, InStepAt, Whole
  <1>7. CASE Sleep
    <2>1. /\ user' = user /\ whole' = whole /\ event' = event /\ pc' = "block"
          /\ event_handled' = event_handled /\ pc = "handle" /\ ~LateHandled
      BY <1>7 DEF Sleep
    <2>2. n' = n BY <2>1 DEF user, n
    <2>3. ~event_handled /\ i = 1 BY <1>1, <2>1 DEF LateHandled, InStepAt
    <2>4. OnWay(Start, t) /\ Start \in 1..(Behind + 1)
      BY <1>0, <1>2, <2>1, StartAt, LateBytes, StreamBytes
    <2>5. OnWay(i, t)' /\ i' = 1
      <3>1. CASE Stream' = Stream /\ Behind' = Behind /\ i' = i
        BY <1>2, <2>1, <2>3, <3>1 DEF OnWay, NextAt, user
      <3>2. CASE /\ Start = Len(buf) + 1 /\ i' = 1
                 /\ Behind' = Behind - Start + 1
                 /\ \A j \in 1..Behind' : Stream'[j] = Stream[j + Start - 1]
        BY <1>2, <2>1, <2>4, <3>2, OnWayMoves
      <3>3. QED BY <1>7, <3>1, <3>2, SleepUses
    <2>6. QED BY <1>1, <2>1, <2>2, <2>3, <2>5 DEF user, InStepAt, Whole
  <1>8. CASE Skip BY <1>0, <1>2, <1>8, NeverSkips
  <1>9. CASE Event
    <2>1. /\ user' = user /\ event_handled' /\ pc' = "handle" /\ Stream' = Stream
          /\ Behind' = Behind /\ whole' = whole \cup Packets(event')
      BY <1>9, SameStream DEF Event
    <2>2. Whole(event') /\ event'.from[1].pk = t + 1 /\ Packets(event') = {t + 1}
      BY <1>0, <1>2, <1>9, EventTells
    <2>3. OnWay(i', t + 1) BY <1>0, <1>2, <1>9, AfterPacket
    <2>4. whole' = 1..(t + 1) BY <1>1, <1>2, <2>1, <2>2 DEF InStepAt
    <2>5. n' = n BY <2>1 DEF user, n
    <2>6. Whole(event)' BY <2>2, <2>5 DEF Whole
    <2>7. OnWay(i, t + 1)' BY <2>1, <2>3 DEF OnWay, NextAt, user
    <2>8. t + 1 \in 0..sent
      <3>1. 0 \in 0..(n - 1) /\ Start + 0 = Start /\ n \in {3, 4}
        BY <1>0, <1>2, <1>9, EventTells
      <3>2. Start \in 1..Behind /\ Stream[Start].pk = t + 1
        BY <1>0, <1>2, <1>9, <3>1, EventTells
      <3>3. QED BY <1>0, <1>2, <3>2, Sound
    <2>9. PICK u \in 0..sent : u = t + 1 BY <2>8
    <2>10. InStepAt(u)' BY <2>1, <2>2, <2>4, <2>6, <2>7, <2>9 DEF InStepAt
    <2>11. sent' = sent BY <2>1 DEF user
    <2>12. QED BY <2>10, <2>11
  <1>10. CASE UNCHANGED vars
    <2>1. n' = n /\ sent' = sent BY <1>10 DEF vars, user, n
    <2>2. InStepAt(t)'
      BY <1>1, <1>10, <2>1 DEF vars, user, InStepAt, Whole, OnWay, NextAt, Stream, Behind
    <2>3. QED BY <2>1, <2>2
  <1>11. ASSUME InStepAt(t)', ~Send PROVE \E u \in 0..sent' : InStepAt(u)'
    <2>1. sent' = sent
      BY <1>11 DEF Next, get_ms_event, Return, Sleep, ReadOne, Skip, Event, vars, user
    <2>2. QED BY <1>11, <2>1
  <1>12. QED BY <1>3, <1>4, <1>5, <1>6, <1>7, <1>8, <1>9, <1>10, <1>11 DEF Next

LEMMA InitInStep == ASSUME Init PROVE InStep
  <1>1. /\ sent = 0 /\ whole = {} /\ event = NoEvent /\ i = 1 /\ pc = "out"
        /\ Stream = <<>> /\ Behind = 0
    BY DEF Init, Stream, Behind
  <1>2. Len(event.from) = 0 BY <1>1 DEF NoEvent
  <1>3. InStepAt(0) BY <1>1, <1>2 DEF InStepAt, OnWay
  <1>4. QED BY <1>1, <1>3 DEF InStep

(* Without a loss less than a packet is in the buffer when get_ms_event    *)
(* sleeps on one more byte, whose read has no limit.                       *)
InBounds ==
  lost = {} => Len(buf) <= BufferSize /\ (pc = "block" => Len(buf) < n)

LEMMA InitInBounds == ASSUME Init PROVE InBounds
  <1>1. Len(buf) = 0 /\ pc = "out" BY DEF Init
  <1>2. QED BY <1>1, MouseAssumption DEF InBounds

LEMMA SleepInBounds ==
  ASSUME TypeOK, InStep, Sleep, lost = {}, Len(buf) <= BufferSize
  PROVE  Len(buf') <= BufferSize /\ Len(buf') < n
  <1>1. n \in {3, 4} /\ Len(buf) \in Nat BY Protocols DEF TypeOK
  <1>2. CASE Start > Len(buf)
    <2>1. Len(buf') = 0 BY <1>2 DEF Sleep
    <2>2. QED BY <1>1, <2>1, MouseAssumption
  <1>3. CASE ~(Start > Len(buf))
    <2>1. PICK t \in 0..sent : InStepAt(t) BY DEF InStep
    <2>2. pc = "handle" /\ ~event_handled /\ ~Late BY DEF Sleep, LateHandled
    <2>3. Start = 1 BY <2>1, <2>2, LateBytes DEF InStepAt
    <2>4. buf' = buf /\ ~(Len(buf) - 1 + 1 >= n)
      BY <1>3, <2>3 DEF Sleep, Complete
    <2>5. QED BY <1>1, <2>4
  <1>4. QED BY <1>2, <1>3

LEMMA ReadInBounds ==
  ASSUME TypeOK, lost = {}, InBounds, ReadOne \/ \E w \in BOOLEAN : get_ms_event(w)
  PROVE  Len(buf') <= BufferSize
  <1>1. /\ n \in {3, 4} /\ Len(buf) \in Nat /\ Len(line) \in Nat
        /\ buf \in Seq(Byte) /\ line \in Seq(Byte)
        /\ BufferSize \in Nat /\ BufferSize >= 4 /\ Len(buf) <= BufferSize
    BY Protocols, MouseAssumption DEF TypeOK, InBounds
  <1>2. ASSUME NEW k \in 0..Len(line), buf' = buf \o SubSeq(line, 1, k)
        PROVE  Len(buf') = Len(buf) + k
    <2>1. SubSeq(line, 1, k) \in Seq(Byte) /\ Len(SubSeq(line, 1, k)) = k BY <1>1
    <2>2. QED BY <1>1, <1>2, <2>1, ConcatProperties
  <1>3. CASE \E w \in BOOLEAN : get_ms_event(w)
    <2>1. PICK k \in 0..Len(line) : Fits(buf, k) /\ buf' = buf \o SubSeq(line, 1, k)
      BY <1>3 DEF get_ms_event, ReadArrived
    <2>2. QED BY <1>1, <1>2, <2>1 DEF Fits
  <1>4. CASE ReadOne
    <2> DEFINE b == Append(buf, Head(line))
    <2>1. Head(line) \in Byte /\ Len(buf) < n BY <1>1, <1>4 DEF ReadOne, InBounds
    <2>2. Len(b) = Len(buf) + 1 /\ Len(b) <= BufferSize BY <1>1, <2>1
    <2> HIDE DEF b
    <2>3. CASE buf' = b BY <2>2, <2>3
    <2>4. CASE \E k \in 1..Len(line) :
                 Fits(b, k - 1) /\ buf' = buf \o SubSeq(line, 1, k)
      <3>1. PICK k \in 1..Len(line) :
              Fits(b, k - 1) /\ buf' = buf \o SubSeq(line, 1, k)
        BY <2>4
      <3>2. Len(buf') = Len(buf) + k /\ k \in Nat BY <1>1, <1>2, <3>1
      <3>3. QED BY <1>1, <2>2, <3>1, <3>2 DEF Fits
    <2>5. QED BY <1>4, <2>3, <2>4 DEF ReadOne, b
  <1>5. QED BY <1>3, <1>4

LEMMA StepInBounds ==
  ASSUME TypeOK, InStep, InBounds, [Next]_vars PROVE InBounds'
  <1> SUFFICES ASSUME lost' = {}
               PROVE  Len(buf') <= BufferSize /\ (pc' = "block" => Len(buf') < n')
    BY DEF InBounds
  <1>0. lost = {} /\ n' = n
    <2>1. lost = {}
      BY Added DEF Arrives, Next, Send, get_ms_event, Return, Sleep, ReadOne, Skip,
           Event, vars, user
    <2>2. m_type' = m_type
      BY DEF Next, Send, get_ms_event, Return, Sleep, ReadOne, Skip, Event, vars, user
    <2>3. QED BY <2>1, <2>2 DEF n
  <1>1. Len(buf) <= BufferSize /\ (pc = "block" => Len(buf) < n)
    BY <1>0 DEF InBounds
  <1>2. CASE ReadOne \/ \E w \in BOOLEAN : get_ms_event(w)
    <2>1. pc' = "handle" BY <1>2 DEF ReadOne, get_ms_event
    <2>2. QED BY <1>0, <1>2, <2>1, ReadInBounds
  <1>3. CASE Sleep BY <1>0, <1>1, <1>3, SleepInBounds
  <1>4. CASE Return
    <2>1. Start \in 1..(Len(buf) + 1) BY <1>4, LateBytes DEF Return
    <2>2. Len(buf') = Len(buf) - Start + 1 /\ Len(buf) \in Nat
      BY <1>4, <2>1 DEF Return, Moved, TypeOK
    <2>3. pc' = "out" BY <1>4 DEF Return
    <2>4. QED BY <1>1, <2>1, <2>2, <2>3, MouseAssumption
  <1>5. CASE Send \/ Skip \/ Event \/ UNCHANGED vars
    BY <1>0, <1>1, <1>5 DEF Send, Skip, Event, vars
  <1>6. QED BY <1>2, <1>3, <1>4, <1>5 DEF Next

(* get_ms_event writes and reads within its buffer of BufferSize bytes as  *)
(* long as no byte is lost, though the read of the byte it sleeps for does *)
(* not ask what is left of it; and after a loss too its index stays within *)
(* what it has read.                                                       *)
THEOREM WithinBuffer ==
  Spec => [](i \in 1..(Len(buf) + 1) /\ (lost = {} => Len(buf) <= BufferSize))
  <1>1. Init => Ordered /\ InStep /\ InBounds
    BY InitSent, InitInStep, InitInBounds
  <1>2. TypeOK /\ Ordered /\ InStep /\ InBounds /\ [Next]_vars
          => Ordered' /\ InStep' /\ InBounds'
    BY StepOrdered, StepInStep, StepInBounds
  <1>3. TypeOK /\ InBounds =>
          i \in 1..(Len(buf) + 1) /\ (lost = {} => Len(buf) <= BufferSize)
    BY DEF TypeOK, InBounds
  <1>4. QED BY <1>1, <1>2, <1>3, TypeCorrect, PTL DEF Spec

(* Without a loss every packet is told, once and in order, wherever the    *)
(* reads of get_ms_event split the stream, and the buffer is not overrun.  *)
THEOREM PacketsAssembled == Spec => []Assembled
  <1>1. Init => Ordered /\ InStep /\ InBounds
    BY InitSent, InitInStep, InitInBounds
  <1>2. TypeOK /\ Ordered /\ InStep /\ InBounds /\ [Next]_vars
          => Ordered' /\ InStep' /\ InBounds'
    BY StepOrdered, StepInStep, StepInBounds
  <1>3. ASSUME TypeOK, InStep, lost = {}
        PROVE  /\ whole = 1..Cardinality(whole)
               /\ Len(event.from) > 1 =>
                    Whole(event) /\ event.from[1].pk = Cardinality(whole)
               /\ ReadAll /\ buf = <<>> => whole = 1..sent
    <2>1. PICK t \in 0..sent : InStepAt(t) BY <1>3 DEF InStep
    <2>2. t \in Nat BY <1>3, MouseAssumption DEF TypeOK
    <2>3. Cardinality(1..t) = t
      <3>1. Cardinality(1..t) = IF 1 > t THEN 0 ELSE t - 1 + 1
        BY <2>2, FS_Interval
      <3>2. QED BY <2>2, <3>1
    <2>4. ReadAll /\ buf = <<>> => t = sent
      <3> SUFFICES ASSUME ReadAll, buf = <<>> PROVE t = sent
        OBVIOUS
      <3>1. i = 1 /\ Behind = 0 BY <1>3, StreamBytes DEF ReadAll, TypeOK
      <3>2. QED BY <2>1, <3>1 DEF InStepAt, OnWay
    <2>5. QED BY <2>1, <2>3, <2>4 DEF InStepAt
  <1>4. TypeOK /\ InStep /\ InBounds => Assembled BY <1>3 DEF Assembled, InBounds
  <1>5. QED BY <1>1, <1>2, <1>4, TypeCorrect, PTL DEF Spec

-----------------------------------------------------------------------------
(* The buttons.  What the last packet's bytes say of them is what is held; *)
(* a MouseMan sends only three bytes if its middle button is off, and was. *)

Tells ==
  \A k \in 1..Behind : Stream[k].pk = sent =>
    /\ Stream[k].pos = 1 => ("left" \in Stream[k].but <=> "left" \in held)
    /\ Stream[k].pos = MiddleAt =>
         ("middle" \in Stream[k].but <=> "middle" \in held)

NoMiddle == m_type = "MICROSOFT" => "middle" \notin held \cup but

UpToDate == sent \in {0} \cup whole
Truthful ==
  lost = {} /\ UpToDate =>
    /\ "left" \in but <=> "left" \in held
    /\ m_type # "LOGIMAN" => ("middle" \in but <=> "middle" \in held)

(* The middle button of a MouseMan, as told before the byte at h is used.  *)
MiddleBefore(h) ==
  IF h > i THEN "middle" \in Stream[h - 1].but ELSE "middle" \in but
Short(h) ==
  /\ h + 2 <= Behind /\ Stream[h].pos = 1
  /\ h + 2 = Behind \/ Stream[h + 3].pos # 4
MiddleKept ==
  lost = {} /\ m_type = "LOGIMAN" =>
    /\ \A h \in i..Behind : Short(h) => ~MiddleBefore(h)
    /\ MiddleBefore(Behind + 1) <=> "middle" \in held

LEMMA ButtonPlaces ==
  ASSUME TypeOK, Ordered, NEW k \in 1..Behind
  PROVE  /\ "left" \in Stream[k].but => Stream[k].pos = 1
         /\ "middle" \in Stream[k].but => Stream[k].pos = MiddleAt
         /\ Stream[k].pos \in 1..4
  BY DEF Ordered, Genuine, Byte

LEMMA UsedTells ==
  ASSUME TypeOK, Tells, user' = user, NEW k \in 1..(Len(buf) + 1),
         Behind' = Behind - k + 1,
         \A j \in 1..Behind' : Stream'[j] = Stream[j + k - 1]
  PROVE  Tells'
  <1>1. Behind \in Nat /\ Behind' \in 0..Behind /\ Len(buf) \in 0..Behind
        /\ sent' = sent /\ held' = held /\ MiddleAt' = MiddleAt
    BY StreamBytes DEF user, MiddleAt
  <1>2. ASSUME NEW j \in 1..Behind', Stream'[j].pk = sent'
        PROVE  /\ Stream'[j].pos = 1 => ("left" \in Stream'[j].but <=> "left" \in held')
               /\ Stream'[j].pos = MiddleAt' =>
                    ("middle" \in Stream'[j].but <=> "middle" \in held')
    <2>1. j + k - 1 \in 1..Behind /\ Stream'[j] = Stream[j + k - 1] BY <1>1
    <2>2. QED BY <1>1, <1>2, <2>1 DEF Tells
  <1>3. QED BY <1>2 DEF Tells

LEMMA SendTells ==
  ASSUME TypeOK, Ordered, Send PROVE Tells'
  <1>1. PICK add \in Seq(Byte), k \in 1..5 : Arrives(add, k) BY Added
  <1>2. /\ Len(add) \in Nat /\ Behind \in Nat /\ Behind' = Behind + Len(add)
        /\ \A j \in 1..Behind : Stream'[j] = Stream[j]
        /\ sent \in Nat /\ sent' = sent + 1 /\ MiddleAt' = MiddleAt
    <2>1. Len(add) \in Nat /\ Behind \in Nat BY StreamBytes
    <2>2. Behind' = Behind + Len(add) /\ \A j \in 1..Behind : Stream'[j] = Stream[j]
      BY <1>1 DEF Arrives
    <2>3. sent \in Nat BY MouseAssumption DEF TypeOK
    <2>4. sent' = sent + 1 /\ MiddleAt' = MiddleAt BY DEF Send, MiddleAt
    <2>5. QED BY <2>1, <2>2, <2>3, <2>4
  <1>3. SUFFICES ASSUME NEW h \in 1..Behind', Stream'[h].pk = sent'
                 PROVE  /\ Stream'[h].pos = 1 =>
                             ("left" \in Stream'[h].but <=> "left" \in held')
                        /\ Stream'[h].pos = MiddleAt =>
                             ("middle" \in Stream'[h].but <=> "middle" \in held')
    BY <1>2 DEF Tells
  <1>4. h > Behind
    <2>1. ASSUME h <= Behind PROVE FALSE
      <3>1. h \in 1..Behind /\ Stream'[h] = Stream[h] BY <1>2, <2>1
      <3>2. Stream[h].pk <= sent BY <3>1 DEF Ordered, Genuine
      <3>3. QED BY <1>2, <1>3, <3>1, <3>2
    <2>2. QED BY <1>2, <2>1
  <1>5. PICK j \in 1..Len(add) : h = Behind + j
    <2>1. h - Behind \in 1..Len(add) /\ h = Behind + (h - Behind) BY <1>2, <1>4
    <2>2. QED BY <2>1
  <1>6. /\ Stream'[h] = add[j] /\ add[j].pos = Place(k, j)
        /\ add[j].but = held' \cap
             ((IF Place(k, j) = 1 THEN {"left"} ELSE {})
              \cup (IF Place(k, j) = MiddleAt THEN {"middle"} ELSE {}))
    BY <1>1, <1>5 DEF Arrives
  <1>7. QED BY <1>6

LEMMA StepTells ==
  ASSUME TypeOK, Ordered, Tells, [Next]_vars PROVE Tells'
  <1>0. 1 \in 1..(Len(buf) + 1) /\ Behind \in Nat BY StreamBytes
  <1>1. CASE Send BY <1>1, SendTells
  <1>2. ASSUME user' = user, Stream' = Stream, Behind' = Behind PROVE Tells'
    <2>1. Behind' = Behind - 1 + 1 /\ \A j \in 1..Behind' : Stream'[j] = Stream[j + 1 - 1]
      BY <1>0, <1>2
    <2>2. QED BY <1>0, <1>2, <2>1, UsedTells
  <1>3. CASE ReadOne \/ Skip \/ Event \/ \E w \in BOOLEAN : get_ms_event(w)
    <2>1. user' = user BY <1>3 DEF ReadOne, Skip, Event, get_ms_event
    <2>2. QED BY <1>2, <1>3, <2>1, SameStream
  <1>4. CASE Return
    <2>1. user' = user /\ Start \in 1..(Len(buf) + 1) BY <1>4, LateBytes DEF Return
    <2>2. QED BY <1>4, <2>1, ReturnUses, UsedTells
  <1>5. CASE Sleep
    <2>1. user' = user /\ Start \in 1..(Len(buf) + 1) BY <1>5, LateBytes DEF Sleep
    <2>2. QED BY <1>2, <1>5, <2>1, SleepUses, UsedTells
  <1>6. CASE UNCHANGED vars
    BY <1>2, <1>6 DEF vars, user, Stream, Behind
  <1>7. QED BY <1>1, <1>3, <1>4, <1>5, <1>6 DEF Next

(* A MouseMan's late byte.                                                 *)
LEMMA LateButtons ==
  ASSUME TypeOK, Ordered, lost = {}, pc = "handle", NEW t \in Nat, OnWay(i, t)
  PROVE  /\ "left" \in LateBut <=> "left" \in but
         /\ "middle" \in LateBut <=> MiddleBefore(Start)
         /\ m_type # "LOGIMAN" => LateBut = but
  <1>1. i \in Nat BY DEF TypeOK
  <1>2. CASE Late
    <2>1. Stream[i].pos = 4 /\ Start = i + 1 /\ m_type = "LOGIMAN" BY <1>2, StartAt
    <2>2. i \in 1..Behind /\ Stream[i] = buf[i]
      BY <1>2, LateBytes, StreamBytes DEF TypeOK
    <2>3. "left" \notin buf[i].but BY <2>1, <2>2, ButtonPlaces
    <2>4. LateBut = buf[i].but \cup (but \cap {"left"})
      BY <1>2 DEF LateBut, OptionalBut
    <2>5. MiddleBefore(Start) <=> "middle" \in Stream[i].but
      <3>1. Start > i /\ Start - 1 = i BY <1>1, <2>1
      <3>2. QED BY <3>1 DEF MiddleBefore
    <2>6. QED BY <2>1, <2>2, <2>3, <2>4, <2>5
  <1>3. CASE ~Late
    BY <1>1, <1>3, StartAt DEF LateBut, MiddleBefore
  <1>4. QED BY <1>2, <1>3

LEMMA EventButtons ==
  ASSUME TypeOK, Ordered, lost = {}, NEW t \in Nat, OnWay(i, t), Event
  PROVE  /\ "left" \in but' <=> "left" \in Stream[Start].but
         /\ m_type \notin {"LOGIMAN", "MICROSOFT"} =>
              /\ MiddleAt - 1 \in 0..(n - 1)
              /\ "middle" \in but' <=> "middle" \in Stream[Start + (MiddleAt - 1)].but
         /\ m_type = "LOGIMAN" =>
              ("middle" \in but' <=> IF Optional(Start + n)
                                     THEN "middle" \in Stream[Start + n].but
                                     ELSE MiddleBefore(Start))
  <1> DEFINE b == PacketBut(Start, LateBut)
  <1>1. /\ Start \in Nat \ {0} /\ Start + (n - 1) <= Len(buf) /\ n \in {3, 4}
        /\ Len(buf) \in Nat
        /\ \A j \in 0..(n - 1) : /\ Start + j \in 1..Behind
                                 /\ Stream[Start + j].pos = j + 1
    BY EventTells, StreamBytes
  <1>2. but' = IF Optional(Start + n) THEN OptionalBut(Start + n, b) ELSE b BY DEF Event
  <1>3. \A j \in 0..(n - 1) : Stream[Start + j] = buf[Start + j]
    <2> SUFFICES ASSUME NEW j \in 0..(n - 1) PROVE Stream[Start + j] = buf[Start + j]
      OBVIOUS
    <2>1. Start + j \in 1..Len(buf) BY <1>1
    <2>2. QED BY <2>1, StreamBytes
  <1>4. Stream[Start] = buf[Start]
    <2>1. 0 \in 0..(n - 1) /\ Start + 0 = Start BY <1>1
    <2>2. QED BY <1>3, <2>1
  <1>5. \A j \in 0..(n - 1) : /\ "left" \in buf[Start + j].but => j = 0
                              /\ "middle" \in buf[Start + j].but => j + 1 = MiddleAt
    <2> SUFFICES ASSUME NEW j \in 0..(n - 1)
                 PROVE  /\ "left" \in buf[Start + j].but => j = 0
                        /\ "middle" \in buf[Start + j].but => j + 1 = MiddleAt
      OBVIOUS
    <2>1. /\ Start + j \in 1..Behind /\ Stream[Start + j].pos = j + 1
          /\ Stream[Start + j] = buf[Start + j]
      BY <1>1, <1>3
    <2>2. j + 1 = 1 => j = 0 BY <1>1
    <2>3. QED BY <2>1, <2>2, ButtonPlaces
  <1>6. Optional(Start + n) =>
          /\ Stream[Start + n] = buf[Start + n] /\ "left" \notin buf[Start + n].but
          /\ m_type = "LOGIMAN"
    <2> SUFFICES ASSUME Optional(Start + n)
                 PROVE  /\ Stream[Start + n] = buf[Start + n]
                        /\ "left" \notin buf[Start + n].but /\ m_type = "LOGIMAN"
      OBVIOUS
    <2>1. /\ Start + n \in 1..Behind /\ Start + n <= Len(buf)
          /\ Stream[Start + n].pos = 4 /\ m_type = "LOGIMAN"
      BY AfterPacket
    <2>2. Stream[Start + n] = buf[Start + n] BY <1>1, <2>1, StreamBytes
    <2>3. QED BY <2>1, <2>2, ButtonPlaces
  <1>7. CASE m_type \in {"LOGIMAN", "MICROSOFT"}
    <2>1. b = buf[Start].but \cup (LateBut \ {"left"}) BY <1>7 DEF PacketBut
    <2> HIDE DEF b
    <2>2. "left" \in b <=> "left" \in buf[Start].but BY <2>1
    <2>3. m_type = "LOGIMAN" => "middle" \notin buf[Start].but
      <3>1. 0 \in 0..(n - 1) /\ Start + 0 = Start BY <1>1
      <3>2. m_type = "LOGIMAN" => MiddleAt = 4 BY DEF MiddleAt
      <3>3. QED BY <1>5, <3>1, <3>2
    <2>4. "middle" \in LateBut <=> MiddleBefore(Start) BY LateButtons DEF Event
    <2>5. QED BY <1>2, <1>4, <1>6, <1>7, <2>1, <2>2, <2>3, <2>4 DEF OptionalBut
  <1>8. CASE m_type \notin {"LOGIMAN", "MICROSOFT"}
    <2>1. b = UNION {buf[h].but : h \in Start..(Start + n - 1)} BY <1>8 DEF PacketBut
    <2>2. but' = b BY <1>2, <1>6, <1>8
    <2> HIDE DEF b
    <2>3. \A x : x \in b <=> \E j \in 0..(n - 1) : x \in buf[Start + j].but
      <3>1. ASSUME NEW x, x \in b PROVE \E j \in 0..(n - 1) : x \in buf[Start + j].but
        <4>1. PICK h \in Start..(Start + n - 1) : x \in buf[h].but BY <2>1, <3>1
        <4>2. h - Start \in 0..(n - 1) /\ Start + (h - Start) = h BY <1>1
        <4>3. QED BY <4>1, <4>2
      <3>2. ASSUME NEW x, NEW j \in 0..(n - 1), x \in buf[Start + j].but PROVE x \in b
        <4>1. Start + j \in Start..(Start + n - 1) BY <1>1
        <4>2. QED BY <2>1, <3>2, <4>1
      <3>3. QED BY <3>1, <3>2
    <2>4. 0 \in 0..(n - 1) /\ Start + 0 = Start BY <1>1
    <2>5. "left" \in b <=> "left" \in buf[Start].but BY <1>5, <2>3, <2>4
    <2>6. MiddleAt - 1 \in 0..(n - 1) /\ MiddleAt \in Nat
          /\ \A j \in 0..(n - 1) : j + 1 = MiddleAt => j = MiddleAt - 1
      BY <1>1, <1>8, Protocols DEF TypeOK
    <2>7. "middle" \in b <=> "middle" \in buf[Start + (MiddleAt - 1)].but
      BY <1>5, <2>3, <2>6
    <2>8. QED BY <1>3, <1>4, <1>8, <2>2, <2>5, <2>6, <2>7
  <1>9. QED BY <1>7, <1>8

LEMMA StepNoMiddle ==
  ASSUME TypeOK, Ordered, NoMiddle, [Next]_vars PROVE NoMiddle'
  <1>1. SUFFICES ASSUME m_type = "MICROSOFT" PROVE "middle" \notin held' \cup but'
    <2>1. m_type' = m_type
      BY DEF Next, Send, get_ms_event, Return, Sleep, ReadOne, Skip, Event, vars, user
    <2>2. QED BY <1>1, <2>1 DEF NoMiddle
  <1>2. "middle" \notin held /\ "middle" \notin but BY <1>1 DEF NoMiddle
  <1>3. MiddleAt = 0 /\ n = 3 BY <1>1, Protocols DEF TypeOK
  <1>4. LateBut = but /\ Start = i BY <1>1 DEF LateBut, Late, Optional, Start
  <1>5. CASE Send BY <1>2, <1>3, <1>5 DEF Send
  <1>6. CASE Event
    <2>1. buf[Start] = Stream[Start] /\ Start \in 1..Behind
      <3>1. Len(buf) \in Nat /\ Len(buf) <= Behind /\ Behind \in Nat BY StreamBytes
      <3>2. Start \in 1..(Len(buf) + 1) /\ Len(buf) - Start + 1 >= 3
        BY <1>3, <1>6, LateBytes DEF Event, Complete
      <3>3. Start \in 1..Len(buf) /\ Start \in 1..Behind BY <3>1, <3>2
      <3>4. QED BY <3>3, StreamBytes
    <2>2. "middle" \notin buf[Start].but BY <1>3, <2>1, ButtonPlaces
    <2>3. PacketBut(Start, LateBut) = buf[Start].but \cup (LateBut \ {"left"})
      BY <1>1 DEF PacketBut
    <2>4. but' = PacketBut(Start, LateBut) BY <1>1, <1>6 DEF Event, Optional
    <2>5. QED BY <1>2, <1>4, <1>6, <2>2, <2>3, <2>4 DEF Event, user
  <1>7. CASE Return \/ Skip \/ Sleep \/ ReadOne \/ UNCHANGED vars
    BY <1>2, <1>4, <1>7 DEF Return, Skip, Sleep, ReadOne, vars, user
  <1>8. CASE \E w \in BOOLEAN : get_ms_event(w)
    BY <1>2, <1>8 DEF get_ms_event, user
  <1>9. QED BY <1>5, <1>6, <1>7, <1>8 DEF Next

LEMMA StepTruthful ==
  ASSUME TypeOK, Ordered, InStep, Tells, NoMiddle, Truthful, [Next]_vars
  PROVE  Truthful'
  <1> SUFFICES ASSUME lost' = {}, UpToDate'
               PROVE  /\ "left" \in but' <=> "left" \in held'
                      /\ m_type' # "LOGIMAN" => ("middle" \in but' <=> "middle" \in held')
    BY DEF Truthful
  <1>0. lost = {}
    BY Added DEF Arrives, Next, Send, get_ms_event, Return, Sleep, ReadOne, Skip,
         Event, vars, user
  <1>1. PICK t \in 0..sent : InStepAt(t) BY <1>0 DEF InStep
  <1>2. t \in Nat /\ sent \in Nat /\ OnWay(i, t) /\ whole = 1..t /\ t <= sent
    BY <1>1, MouseAssumption DEF TypeOK, InStepAt
  <1>3. CASE Send
    <2>1. sent + 1 \in {0} \cup 1..t BY <1>2, <1>3 DEF Send, UpToDate
    <2>2. QED BY <1>2, <2>1
  <1>4. CASE UNCHANGED <<user, whole, but>>
    BY <1>0, <1>4 DEF user, Truthful, UpToDate
  <1>5. CASE Return
    <2>1. pc = "handle" /\ but' = LateBut /\ UNCHANGED <<user, whole>>
      BY <1>5 DEF Return
    <2>2. /\ "left" \in LateBut <=> "left" \in but
          /\ m_type # "LOGIMAN" => LateBut = but
      BY <1>0, <1>2, <2>1, LateButtons
    <2>3. QED BY <1>0, <2>1, <2>2 DEF user, Truthful, UpToDate
  <1>6. CASE Skip BY <1>0, <1>2, <1>6, NeverSkips
  <1>7. CASE Event
    <2>1. user' = user /\ whole' = whole \cup {t + 1}
      BY <1>0, <1>2, <1>7, EventTells DEF Event
    <2>2. /\ \A j \in 0..(n - 1) : /\ Start + j \in 1..Behind
                                   /\ Stream[Start + j].pk = t + 1
                                   /\ Stream[Start + j].pos = j + 1
          /\ 0 \in 0..(n - 1) /\ Start + 0 = Start /\ n \in {3, 4}
      BY <1>0, <1>2, <1>7, EventTells
    <2>3. Start \in 1..Behind /\ Stream[Start].pk = t + 1 /\ Stream[Start].pos = 1
      BY <2>2
    <2>4. sent = t + 1
      <3>1. t + 1 <= sent BY <1>0, <1>2, <2>3, Sound
      <3>2. sent \in {0} \cup (1..t) \cup {t + 1} BY <1>2, <2>1 DEF UpToDate, user
      <3>3. QED BY <1>2, <3>1, <3>2
    <2>5. "left" \in but' <=> "left" \in held
      <3>1. "left" \in Stream[Start].but <=> "left" \in held BY <2>3, <2>4 DEF Tells
      <3>2. QED BY <1>0, <1>2, <1>7, <3>1, EventButtons
    <2>6. ASSUME m_type # "LOGIMAN" PROVE "middle" \in but' <=> "middle" \in held
      <3>1. CASE m_type = "MICROSOFT"
        <4>1. "middle" \notin held' \cup but' BY <3>1, <2>1, StepNoMiddle DEF NoMiddle, user
        <4>2. QED BY <2>1, <4>1 DEF user
      <3>2. CASE m_type # "MICROSOFT"
        <4>1. /\ MiddleAt - 1 \in 0..(n - 1)
              /\ "middle" \in but' <=> "middle" \in Stream[Start + (MiddleAt - 1)].but
          BY <1>0, <1>2, <1>7, <2>6, <3>2, EventButtons
        <4>2. (MiddleAt - 1) + 1 = MiddleAt BY DEF MiddleAt
        <4>3. /\ Start + (MiddleAt - 1) \in 1..Behind
              /\ Stream[Start + (MiddleAt - 1)].pk = sent
              /\ Stream[Start + (MiddleAt - 1)].pos = MiddleAt
          BY <2>2, <2>4, <4>1, <4>2
        <4>4. QED BY <4>1, <4>3 DEF Tells
      <3>3. QED BY <3>1, <3>2
    <2>7. QED BY <2>1, <2>5, <2>6 DEF user
  <1>8. QED
    BY <1>3, <1>4, <1>5, <1>6, <1>7 DEF Next, get_ms_event, Sleep, ReadOne, vars

(* The chain of a MouseMan's middle button, as the bytes are used up.      *)
(* The bytes before k are dropped; i is moved on, or back to the front.    *)
Drops(k) ==
  Behind' = Behind - k + 1 /\ \A j \in 1..Behind' : Stream'[j] = Stream[j + k - 1]
Onto(k) == i' \in Nat \ {0} /\ i' + k - 1 >= i /\ i' <= Behind' + 1
MiddleStays(k) ==
  \A h \in i'..(Behind' + 1) :
    \/ MiddleBefore(h)' <=> MiddleBefore(h + k - 1)
    \/ h <= Behind' /\ Stream'[h].pos = 4

LEMMA KeptMoves ==
  ASSUME TypeOK, MiddleKept, user' = user, lost = {}, m_type = "LOGIMAN",
         NEW k \in 1..(Len(buf) + 1), Drops(k), Onto(k), MiddleStays(k)
  PROVE  MiddleKept'
  <1>0. i \in Nat /\ held' = held BY DEF TypeOK, user
  <1>1. Behind \in Nat /\ Behind' \in 0..Behind /\ Len(buf) \in 0..Behind /\ k \in Nat \ {0}
        /\ Behind' = Behind - k + 1
    BY StreamBytes DEF Drops
  <1>5. i' \in Nat \ {0} /\ i' + k - 1 >= i /\ i' <= Behind' + 1 BY DEF Onto
  <1>2. ASSUME NEW h \in i'..Behind', Short(h)' PROVE ~MiddleBefore(h)'
    <2>1. /\ h + 2 <= Behind' /\ Stream'[h].pos = 1
          /\ h + 2 = Behind' \/ Stream'[h + 3].pos # 4
      BY <1>2 DEF Short
    <2>2. /\ h \in 1..Behind' /\ h \in i'..(Behind' + 1)
          /\ (h + 2 # Behind' => h + 3 \in 1..Behind')
          /\ h + k - 1 \in i..Behind /\ h + k - 1 + 2 <= Behind
          /\ (h + 2 = Behind' <=> h + k - 1 + 2 = Behind)
          /\ (h + 3) + k - 1 = h + k - 1 + 3
      <3>1. PICK b1 \in Nat, s1 \in Nat \ {0} : b1 = Behind' /\ s1 = i'
        BY <1>1, <1>5
      <3>2. /\ b1 = Behind - k + 1 /\ s1 + k - 1 >= i /\ h \in s1..b1 /\ h + 2 <= b1
        BY <1>1, <1>5, <2>1, <3>1
      <3>3. /\ h \in 1..b1 /\ h \in s1..(b1 + 1) /\ (h + 2 # b1 => h + 3 \in 1..b1)
            /\ h + k - 1 \in i..Behind /\ h + k - 1 + 2 <= Behind
            /\ (h + 2 = b1 <=> h + k - 1 + 2 = Behind)
            /\ (h + 3) + k - 1 = h + k - 1 + 3
        BY <1>0, <1>1, <3>2
      <3>4. QED BY <3>1, <3>3
    <2>3. Stream'[h] = Stream[h + k - 1] BY <2>2 DEF Drops
    <2>4. h + 2 # Behind' => Stream'[h + 3] = Stream[h + k - 1 + 3]
      <3>1. h + 2 # Behind' => Stream'[h + 3] = Stream[(h + 3) + k - 1] BY <2>2 DEF Drops
      <3>2. QED BY <2>2, <3>1
    <2>5. Short(h + k - 1) BY <2>1, <2>2, <2>3, <2>4 DEF Short
    <2>6. ~MiddleBefore(h + k - 1) BY <2>2, <2>5 DEF MiddleKept
    <2>7. QED BY <2>1, <2>2, <2>3, <2>6 DEF MiddleStays
  <1>3. MiddleBefore(Behind + 1)' <=> "middle" \in held'
    <2>1. PICK e : e = Behind' + 1 OBVIOUS
    <2>2. e \in i'..(Behind' + 1) /\ ~(e <= Behind') /\ e + k - 1 = Behind + 1
      BY <1>0, <1>1, <1>5, <2>1
    <2>3. MiddleBefore(e)' <=> MiddleBefore(Behind + 1) BY <2>2 DEF MiddleStays
    <2>4. MiddleBefore(Behind + 1)' <=> MiddleBefore(e)' BY <2>1 DEF MiddleBefore
    <2>5. QED BY <1>0, <2>3, <2>4 DEF MiddleKept
  <1>4. QED BY <1>2, <1>3 DEF MiddleKept

(* The last packet is there to its end.                                    *)
LEMMA HeaderEarly ==
  ASSUME TypeOK, Ordered, lost = {}, NEW h \in 1..Behind, Stream[h].pos = 1
  PROVE  h + 2 <= Behind
  <1>1. n \in {3, 4} /\ Behind \in Nat BY Protocols, StreamBytes DEF TypeOK
  <1>2. h \in Nat \ {0} /\ h <= Behind BY <1>1
  <1>3. Stream[Behind].pos >= n BY <1>2, <1>1 DEF Ordered, Ends
  <1>4. h # Behind BY <1>1, <1>3
  <1>5. h \in 1..(Behind - 1) BY <1>1, <1>2, <1>4
  <1>6. Stream[h + 1].pos \in {1, 2} BY <1>5, InOrder
  <1>7. h + 1 # Behind BY <1>1, <1>3, <1>6
  <1>8. QED BY <1>1, <1>2, <1>4, <1>7

LEMMA SendKept ==
  ASSUME TypeOK, Ordered, MiddleKept, Send, lost' = {}, m_type = "LOGIMAN"
  PROVE  MiddleKept'
  <1>1. PICK add \in Seq(Byte), k \in 1..5 : Arrives(add, k) BY Added
  <1>2. PICK L \in 3..4, b1 \in Nat : L = Len(add) /\ b1 = Behind'
    <2>1. Length(held') \in 3..4 BY Protocols DEF Length, TypeOK
    <2>2. k = 5 BY <1>1 DEF Arrives
    <2>3. Len(add) \in 3..4 /\ Behind' = Behind + Len(add) /\ Behind \in Nat
      BY <1>1, <2>1, <2>2, StreamBytes DEF Arrives
    <2>4. QED BY <2>3
  <1>3. /\ n = 3 /\ MiddleAt = 4 /\ lost = {} /\ k = 5 /\ i' = i /\ but' = but
        /\ i \in Nat \ {0} /\ i <= Behind + 1 /\ Behind \in Nat
    <2>1. n = 3 /\ MiddleAt = 4 BY Protocols DEF TypeOK, MiddleAt
    <2>2. lost = {} /\ k = 5 BY <1>1 DEF Arrives
    <2>3. i \in 1..(Behind + 1) /\ Behind \in Nat BY StreamBytes DEF TypeOK
    <2>4. QED BY <2>1, <2>2, <2>3 DEF Send
  <1>4. /\ b1 = Behind + L /\ \A j \in 1..Behind : Stream'[j] = Stream[j]
        /\ \A j \in 1..L : /\ Stream'[Behind + j] = add[j] /\ add[j].pos = j
                           /\ "middle" \in add[j].but <=> j = 4 /\ "middle" \in held'
    <2>1. \A j \in 1..L : Place(k, j) = j BY <1>2, <1>3 DEF Place
    <2>2. QED BY <1>1, <1>2, <1>3, <2>1 DEF Arrives
  <1>5. L = 3 <=> "middle" \notin held' \cup held
    BY <1>1, <1>2, <1>3 DEF Arrives, Length
  <1>6. ASSUME NEW h \in i..(Behind + 1) PROVE MiddleBefore(h)' <=> MiddleBefore(h)
    <2>1. h > i => h - 1 \in 1..Behind BY <1>3
    <2>2. QED BY <1>3, <1>4, <2>1 DEF MiddleBefore
  <1>7. ASSUME NEW h \in i..b1, Short(h)' PROVE ~MiddleBefore(h)'
    <2>1. /\ h + 2 <= b1 /\ Stream'[h].pos = 1 /\ (h + 2 = b1 \/ Stream'[h + 3].pos # 4)
      BY <1>2, <1>7 DEF Short
    <2>2. CASE h <= Behind
      <3>1. h \in 1..Behind /\ Stream[h].pos = 1 /\ Behind > 0
            /\ h \in i..Behind /\ h \in i..(Behind + 1)
        BY <1>3, <1>4, <2>1, <2>2
      <3>2. h + 2 <= Behind BY <1>3, <3>1, HeaderEarly
      <3>3. h + 2 # b1 BY <1>2, <1>3, <1>4, <3>1, <3>2
      <3>5. h + 2 <= Behind /\ h + 2 # b1 /\ (h + 2 # Behind => h + 3 \in 1..Behind)
        BY <1>3, <3>1, <3>2, <3>3
      <3>6. Short(h) BY <1>4, <2>1, <3>1, <3>5 DEF Short
      <3>7. ~MiddleBefore(h) BY <1>3, <3>1, <3>6 DEF MiddleKept
      <3>8. QED BY <1>6, <3>1, <3>7
    <2>3. CASE h = Behind + 1
      <3>1. L = 3
        <4>1. SUFFICES ASSUME L = 4 PROVE FALSE BY <1>2
        <4>2. h + 3 = Behind + 4 /\ h + 2 # b1 BY <1>3, <1>4, <2>3, <4>1
        <4>3. Stream'[Behind + 4].pos = 4 BY <1>4, <4>1
        <4>4. QED BY <2>1, <4>2, <4>3
      <3>2. ~MiddleBefore(Behind + 1) BY <1>3, <1>5, <3>1 DEF MiddleKept
      <3>3. Behind + 1 \in i..(Behind + 1) BY <1>3
      <3>4. QED BY <1>6, <2>3, <3>2, <3>3
    <2>4. CASE h > Behind + 1
      <3>1. h - Behind \in 1..L /\ Behind + (h - Behind) = h /\ h - Behind # 1
        BY <1>2, <1>3, <1>4, <2>4
      <3>2. Stream'[h].pos = h - Behind BY <1>4, <3>1
      <3>3. QED BY <2>1, <3>1, <3>2
    <2>5. QED BY <1>2, <1>3, <2>2, <2>3, <2>4
  <1>8. MiddleBefore(b1 + 1)' <=> "middle" \in held'
    <2>1. b1 + 1 > i /\ b1 + 1 - 1 = Behind + L BY <1>2, <1>3, <1>4
    <2>2. Stream'[Behind + L] = add[L] /\ L \in 1..L BY <1>2, <1>4
    <2>3. "middle" \in add[L].but <=> L = 4 /\ "middle" \in held' BY <1>4, <2>2
    <2>4. MiddleBefore(b1 + 1)' <=> "middle" \in add[L].but
      BY <1>3, <2>1, <2>2 DEF MiddleBefore
    <2>5. QED BY <1>2, <1>5, <2>3, <2>4
  <1>9. MiddleBefore(Behind + 1)' <=> MiddleBefore(b1 + 1)' BY <1>2 DEF MiddleBefore
  <1>10. QED BY <1>2, <1>3, <1>7, <1>8, <1>9 DEF MiddleKept

LEMMA EventKept ==
  ASSUME TypeOK, Ordered, MiddleKept, Event, lost = {}, m_type = "LOGIMAN",
         NEW t \in Nat, OnWay(i, t)
  PROVE  MiddleKept'
  <1>1. /\ user' = user /\ Stream' = Stream /\ Behind' = Behind
    BY SameStream DEF Event
  <1>2. /\ Start \in Nat \ {0} /\ n = 3 /\ Behind \in Nat /\ i \in Nat \ {0}
        /\ Start >= i /\ Start + 3 <= Behind + 1 /\ Len(buf) \in Nat
    <2>1. n = 3 BY Protocols DEF TypeOK
    <2>2. Start + n <= Behind + 1 BY AfterPacket
    <2>3. i \in Nat \ {0} /\ Start \in i..(i + 1) BY LateBytes DEF Event, TypeOK
    <2>4. QED BY <2>1, <2>2, <2>3, StreamBytes
  <1>3. /\ i' \in Nat \ {0} /\ i' > i /\ i' >= Start + 3
        /\ i' = IF Optional(Start + 3) THEN Start + 4 ELSE Start + 3
        /\ i' <= Behind + 1
    <2>1. i' = IF Optional(Start + 3) THEN Start + 3 + 1 ELSE Start + 3
      BY <1>2, AfterPacket
    <2>2. Optional(Start + 3) => Start + 3 \in 1..Behind BY <1>2, AfterPacket
    <2>3. QED BY <1>2, <2>1, <2>2
  <1>4. "middle" \in but' <=> IF Optional(Start + 3)
                              THEN "middle" \in Stream[Start + 3].but
                              ELSE MiddleBefore(Start)
    BY <1>2, EventButtons
  <1>5. /\ \A j \in 0..2 : /\ Start + j \in 1..Behind
                           /\ Stream[Start + j].pos = j + 1
        /\ 0 \in 0..2 /\ Start + 0 = Start
    BY <1>2, EventTells
  <1>6. ASSUME NEW h \in i'..(Behind + 1)
        PROVE  \/ MiddleBefore(h)' <=> MiddleBefore(h)
               \/ h <= Behind /\ Stream[h].pos = 4
    <2>1. h > i /\ h >= Start + 3 /\ h \in Nat BY <1>2, <1>3
    <2>2. CASE h > i'
      BY <1>1, <2>1, <2>2 DEF MiddleBefore
    <2>3. CASE h = i' /\ Optional(Start + 3)
      <3>1. h - 1 = Start + 3 BY <1>2, <1>3, <2>3
      <3>2. ~(h > i') BY <1>3, <2>3
      <3>3. QED BY <1>4, <2>1, <2>3, <3>1, <3>2 DEF MiddleBefore
    <2>4. CASE h = i' /\ ~Optional(Start + 3)
      <3>1. h = Start + 3 /\ h - 1 = Start + 2 /\ ~(h > i') BY <1>2, <1>3, <2>4
      <3>2. MiddleBefore(h)' <=> MiddleBefore(Start)
        BY <1>4, <2>4, <3>1 DEF MiddleBefore
      <3>3. ~MiddleBefore(h)
        <4>1. Start + 2 \in 1..Behind /\ Stream[Start + 2].pos = 3 BY <1>5
        <4>2. "middle" \notin Stream[Start + 2].but
          BY <4>1, ButtonPlaces DEF MiddleAt
        <4>3. QED BY <2>1, <3>1, <4>2 DEF MiddleBefore
      <3>4. CASE h <= Behind /\ Stream[h].pos = 4 BY <3>4
      <3>5. CASE ~(h <= Behind /\ Stream[h].pos = 4)
        <4>1. Start \in i..Behind /\ Stream[Start].pos = 1 /\ Start + 2 <= Behind
          BY <1>2, <1>5
        <4>2. Start + 2 = Behind \/ Stream[Start + 3].pos # 4
          BY <1>2, <3>1, <3>5
        <4>3. Short(Start) BY <4>1, <4>2 DEF Short
        <4>4. ~MiddleBefore(Start) BY <4>1, <4>3 DEF MiddleKept
        <4>5. QED BY <3>2, <3>3, <4>4
      <3>6. QED BY <3>4, <3>5
    <2>5. QED BY <1>2, <1>3, <2>2, <2>3, <2>4
  <1>7. 1 \in 1..(Len(buf) + 1) BY <1>2
  <1>8. Drops(1)
    <2>1. \A j \in 1..Behind : j + 1 - 1 = j BY <1>2
    <2>2. QED BY <1>1, <1>2, <2>1 DEF Drops
  <1>9. Onto(1) BY <1>1, <1>2, <1>3 DEF Onto
  <1>10. MiddleStays(1)
    <2>1. \A h \in i'..(Behind + 1) : h + 1 - 1 = h BY <1>2, <1>3
    <2>2. QED BY <1>1, <1>6, <2>1 DEF MiddleStays
  <1>11. QED BY <1>1, <1>7, <1>8, <1>9, <1>10, KeptMoves

LEMMA SameKept ==
  ASSUME TypeOK, MiddleKept, user' = user, lost = {}, m_type = "LOGIMAN",
         Stream' = Stream, Behind' = Behind, i' = i, but' = but
  PROVE  MiddleKept'
  <1>1. \A h : MiddleBefore(h)' <=> MiddleBefore(h) BY DEF MiddleBefore
  <1>2. \A h : Short(h)' <=> Short(h) BY DEF Short
  <1>3. held' = held BY DEF user
  <1>4. MiddleBefore(Behind + 1)' <=> MiddleBefore(Behind + 1) BY DEF MiddleBefore
  <1>5. QED BY <1>1, <1>2, <1>3, <1>4 DEF MiddleKept

(* Start moves to the front.                                               *)
LEMMA FrontKept ==
  ASSUME TypeOK, Ordered, MiddleKept, user' = user, lost = {}, m_type = "LOGIMAN",
         pc = "handle", NEW t \in Nat, OnWay(i, t),
         i' = 1, but' = LateBut, Behind' = Behind - Start + 1,
         \A j \in 1..Behind' : Stream'[j] = Stream[j + Start - 1]
  PROVE  MiddleKept'
  <1>1. /\ Start \in 1..(Len(buf) + 1) /\ Start \in Nat \ {0} /\ Start >= i
        /\ i \in Nat \ {0} /\ Len(buf) \in 0..Behind /\ Behind \in Nat
    <2>1. Start \in i..(i + 1) /\ Start \in 1..(Len(buf) + 1) /\ i \in Nat \ {0}
      BY LateBytes DEF TypeOK
    <2>2. QED BY <2>1, StreamBytes
  <1>2. PICK b1 \in Nat : b1 = Behind' /\ b1 = Behind - Start + 1 BY <1>1
  <1>3. Drops(Start) BY DEF Drops
  <1>4. Onto(Start)
    <2>1. 1 \in Nat \ {0} /\ 1 + Start - 1 >= i /\ 1 <= b1 + 1 BY <1>1, <1>2
    <2>2. QED BY <1>2, <2>1 DEF Onto
  <1>5. ASSUME NEW h \in 1..(b1 + 1)
        PROVE  MiddleBefore(h)' <=> MiddleBefore(h + Start - 1)
    <2>1. CASE h = 1
      <3>1. h + Start - 1 = Start /\ ~(h > i') BY <1>1, <2>1
      <3>2. MiddleBefore(h)' <=> "middle" \in LateBut BY <3>1 DEF MiddleBefore
      <3>3. QED BY <3>1, <3>2, LateButtons
    <2>2. CASE h # 1
      <3>1. /\ h > 1 /\ h - 1 \in 1..b1 /\ (h - 1) + Start - 1 = (h + Start - 1) - 1
            /\ h + Start - 1 > i
        BY <1>1, <1>2, <2>2
      <3>2. Stream'[h - 1] = Stream[(h - 1) + Start - 1] BY <1>2, <3>1
      <3>3. Stream'[h - 1] = Stream[(h + Start - 1) - 1] BY <3>1, <3>2
      <3>4. MiddleBefore(h)' <=> "middle" \in Stream'[h - 1].but
        BY <3>1 DEF MiddleBefore
      <3>5. MiddleBefore(h + Start - 1) <=> "middle" \in Stream[(h + Start - 1) - 1].but
        BY <3>1 DEF MiddleBefore
      <3>6. QED BY <3>3, <3>4, <3>5
    <2>3. QED BY <2>1, <2>2
  <1>6. MiddleStays(Start) BY <1>2, <1>5 DEF MiddleStays
  <1>7. QED BY <1>1, <1>3, <1>4, <1>6, KeptMoves

LEMMA StepMiddleKept ==
  ASSUME TypeOK, Ordered, InStep, MiddleKept, [Next]_vars PROVE MiddleKept'
  <1> SUFFICES ASSUME lost' = {}, m_type' = "LOGIMAN" PROVE MiddleKept'
    BY DEF MiddleKept
  <1>0. lost = {} /\ m_type = "LOGIMAN"
    <2>1. lost = {}
      BY Added DEF Arrives, Next, Send, get_ms_event, Return, Sleep, ReadOne, Skip,
           Event, vars, user
    <2>2. m_type' = m_type
      BY DEF Next, Send, get_ms_event, Return, Sleep, ReadOne, Skip, Event, vars, user
    <2>3. QED BY <2>1, <2>2
  <1>1. PICK t \in 0..sent : InStepAt(t) BY <1>0 DEF InStep
  <1>2. t \in Nat /\ OnWay(i, t) /\ (pc = "block" => i = 1)
    BY <1>1, MouseAssumption DEF TypeOK, InStepAt
  <1>3. CASE Send BY <1>0, <1>3, SendKept
  <1>4. CASE ReadOne \/ \E w \in BOOLEAN : get_ms_event(w)
    <2>1. Stream' = Stream /\ Behind' = Behind BY <1>4, SameStream
    <2>2. user' = user /\ but' = but /\ i' = i
      BY <1>2, <1>4 DEF ReadOne, get_ms_event, ReadArrived, TypeOK
    <2>3. QED BY <1>0, <2>1, <2>2, SameKept
  <1>5. CASE Return
    <2>1. user' = user /\ pc = "handle" /\ i' = 1 /\ but' = LateBut
      BY <1>5 DEF Return
    <2>2. QED BY <1>0, <1>2, <1>5, <2>1, ReturnUses, FrontKept
  <1>6. CASE Sleep
    <2>1. user' = user /\ pc = "handle" /\ but' = but /\ but' = LateBut
      BY <1>6 DEF Sleep, LateHandled, LateBut
    <2>2. QED BY <1>0, <1>2, <1>6, <2>1, SleepUses, SameKept, FrontKept
  <1>7. CASE Skip BY <1>0, <1>2, <1>7, NeverSkips
  <1>8. CASE Event BY <1>0, <1>2, <1>8, EventKept
  <1>9. CASE UNCHANGED vars
    BY <1>0, <1>9, SameKept DEF vars, user, Stream, Behind
  <1>10. QED BY <1>3, <1>4, <1>5, <1>6, <1>7, <1>8, <1>9 DEF Next

LEMMA InitButtons ==
  ASSUME Init PROVE Tells /\ NoMiddle /\ Truthful /\ MiddleKept
  <1>1. held = {} /\ but = {} /\ i = 1 /\ Stream = <<>> /\ Behind = 0
    BY DEF Init, Stream, Behind
  <1>2. QED BY <1>1 DEF Tells, NoMiddle, Truthful, MiddleKept, MiddleBefore

(* When nothing is left all is told.                                       *)
LEMMA SettledThen ==
  ASSUME TypeOK, InStep, Truthful, MiddleKept PROVE ButtonsSettle
  <1>1. SUFFICES ASSUME ReadAll, buf = <<>>, lost = {} PROVE but = held
    BY DEF ButtonsSettle
  <1>2. i = 1 /\ Behind = 0 BY <1>1, StreamBytes DEF ReadAll, TypeOK
  <1>3. PICK t \in 0..sent : InStepAt(t) BY <1>1 DEF InStep
  <1>4. whole = 1..sent /\ sent \in Nat
    BY <1>2, <1>3, MouseAssumption DEF InStepAt, OnWay, TypeOK
  <1>5. UpToDate BY <1>4 DEF UpToDate
  <1>6. "left" \in but <=> "left" \in held BY <1>1, <1>5 DEF Truthful
  <1>7. "middle" \in but <=> "middle" \in held
    <2>1. CASE m_type = "LOGIMAN"
      <3>1. MiddleBefore(Behind + 1) <=> "middle" \in held
        BY <1>1, <2>1 DEF MiddleKept
      <3>2. QED BY <1>2, <3>1 DEF MiddleBefore
    <2>2. CASE m_type # "LOGIMAN" BY <1>1, <1>5, <2>2 DEF Truthful
    <2>3. QED BY <2>1, <2>2
  <1>8. but \subseteq {"left", "middle"} /\ held \subseteq {"left", "middle"}
    BY DEF TypeOK, Buttons
  <1>9. \A x : x \in but <=> x \in held BY <1>6, <1>7, <1>8
  <1>10. QED BY <1>9

(* Without a loss the buttons told are those held once all has been read:  *)
(* a MouseMan's middle button comes in a byte that may be late, and its    *)
(* three-byte packets leave the middle button as it was told last.         *)
THEOREM ButtonsSettled == Spec => []ButtonsSettle
  <1> DEFINE Inv == Ordered /\ InStep /\ Tells /\ NoMiddle /\ Truthful /\ MiddleKept
  <1>1. Init => Inv BY InitSent, InitInStep, InitButtons
  <1>2. TypeOK /\ Inv /\ [Next]_vars => Inv'
    BY StepOrdered, StepInStep, StepTells, StepNoMiddle, StepTruthful, StepMiddleKept
  <1>3. TypeOK /\ Inv => ButtonsSettle BY SettledThen
  <1>4. QED BY <1>1, <1>2, <1>3, TypeCorrect, PTL DEF Spec

=============================================================================
