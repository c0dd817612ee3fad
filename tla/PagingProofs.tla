---------------------------- MODULE PagingProofs ----------------------------
(***************************************************************************)
(* A careful program finds the window on the pages it selected, and its    *)
(* picture in them, after any virtual console switches: proofs for every   *)
(* number of pages of the mode and the card.                               *)
(*                                                                         *)
(* The argument: Paging!IInv says what each step of a page call has done   *)
(* so far and what the library has saved of the selection while the        *)
(* program is away; it is inductive for a careful program.                 *)
(***************************************************************************)
EXTENDS Paging, TLAPS

USE DEF NoPage
(* The memory is clear and the window on page 0 after vga_setmode.         *)
LEMMA InitIInv == ASSUME Careful PROVE Init => IInv
<1> SUFFICES ASSUME Init PROVE IInv
  OBVIOUS
<1> USE PagingAssumption DEF Careful, Init
<1>1. TypeOK
  <2>1. 0 \in Bank /\ 0 \in Offsets
    BY DEF Bank
  <2>2. {readpage, writepage, saved_readpage, saved_writepage}
          \subseteq Bank \cup {NoPage}
    BY <2>1
  <2>3. /\ card \in [Bank -> Contents] /\ graph_buf \in [Page -> Contents]
        /\ own \in [Bank -> Data]
    BY DEF Contents
  <2> QED  BY <2>1, <2>2, <2>3 DEF TypeOK
<1>2. OnPages
  BY DEF OnPages, Page
<1>3. InCall
  BY DEF InCall, Running, ReadStands, WriteStands, Stands
<1>4. InSuspension
  BY DEF InSuspension, Running
<1>5. Contained
  BY DEF Contained, Page, Bank
<1> QED  BY <1>1, <1>2, <1>3, <1>4, <1>5 DEF IInv

(* A step that changes nothing keeps the invariant.                        *)
LEMMA Stutter == IInv /\ UNCHANGED vars => IInv'
<1> SUFFICES ASSUME IInv, UNCHANGED vars PROVE IInv'
  OBVIOUS
<1> USE DEF IInv, vars, callVars, cacheVars, windowVars, savedVars, memVars,
            switchVars, selVars
<1>1. TypeOK' /\ OnPages'
  BY DEF TypeOK, OnPages
<1>2. InCall' /\ InSuspension' /\ Contained'
  BY DEF InCall, InSuspension, Contained, Running, CanSeparate, ReadStands,
         WriteStands
<1> QED  BY <1>1, <1>2

(* Page calls and their steps.  Each moves either the window or a cached   *)
(* number, and the last step makes the two agree.                          *)
LEMMA SetpageStep ==
  ASSUME Careful, IInv,
         (\E p \in Page : vga_setpage(p)) \/ SetpageMap \/ SetpageRead
           \/ SetpageWrite
  PROVE  IInv'
<1> USE PagingAssumption DEF Careful, IInv
<1>1. CASE \E p \in Page : vga_setpage(p)
  <2>1. PICK p \in Page : vga_setpage(p)
    BY <1>1
  <2>2. TypeOK' /\ OnPages'
    BY <2>1 DEF vga_setpage, TypeOK, OnPages, EmulatePage, Page, Bank, callVars,
                cacheVars, windowVars, savedVars, memVars, switchVars, selVars
  <2>3. InCall' /\ InSuspension' /\ Contained'
    BY <2>1 DEF vga_setpage, OnPages, InCall, InSuspension, Contained, Idle,
                Running, EmulatePage, CanSeparate, ReadStands, WriteStands,
                Stands, Page, callVars, cacheVars, windowVars, savedVars,
                memVars, switchVars, selVars
  <2> QED  BY <2>2, <2>3
<1>2. CASE SetpageMap
  <2>1. TypeOK' /\ OnPages'
    BY <1>2 DEF SetpageMap, TypeOK, OnPages, EmulatePage, Page, Bank, cacheVars,
                windowVars, savedVars, memVars, switchVars, selVars
  <2>2. InCall' /\ InSuspension' /\ Contained'
    BY <1>2 DEF SetpageMap, OnPages, InCall, InSuspension, Contained, Running,
                EmulatePage, cacheVars, windowVars, savedVars, memVars,
                switchVars, selVars
  <2> QED  BY <2>1, <2>2
<1>3. CASE SetpageRead
  <2>1. TypeOK' /\ OnPages'
    BY <1>3 DEF SetpageRead, TypeOK, OnPages, Page, Bank, windowVars, savedVars,
                memVars, switchVars, selVars
  <2>2. InCall' /\ InSuspension' /\ Contained'
    BY <1>3 DEF SetpageRead, InCall, InSuspension, Contained, Running,
                windowVars, savedVars, memVars, switchVars, selVars
  <2> QED  BY <2>1, <2>2
<1>4. CASE SetpageWrite
  <2>1. TypeOK' /\ OnPages'
    BY <1>4 DEF SetpageWrite, TypeOK, OnPages, Page, Bank, windowVars, savedVars,
                memVars, switchVars
  <2>2. InCall' /\ InSuspension' /\ Contained'
    BY <1>4 DEF SetpageWrite, InCall, InSuspension, Contained, Running,
                ReadStands, WriteStands, Stands, windowVars, savedVars, memVars,
                switchVars
  <2> QED  BY <2>1, <2>2
<1> QED  BY <1>1, <1>2, <1>3, <1>4

(* The steps of a call that moves the read bank alone.                     *)
LEMMA ReadpageStep ==
  ASSUME Careful, IInv,
         (\E p \in Page : vga_setreadpage(p)) \/ SetreadpageBank
           \/ SetreadpageCache
  PROVE  IInv'
<1> USE PagingAssumption DEF Careful, IInv
<1>1. CASE \E p \in Page : vga_setreadpage(p)
  <2>1. PICK p \in Page : vga_setreadpage(p)
    BY <1>1
  <2>2. TypeOK' /\ OnPages'
    BY <2>1 DEF vga_setreadpage, TypeOK, OnPages, Idle, InCall, ReadStands,
                Stands, CanSeparate, Page, Bank, callVars, cacheVars,
                windowVars, savedVars, memVars, switchVars
  <2>3. InCall' /\ InSuspension' /\ Contained'
    BY <2>1 DEF vga_setreadpage, OnPages, InCall, InSuspension, Contained,
                Idle, Running, CanSeparate, ReadStands, WriteStands, Stands,
                Page, callVars, cacheVars, windowVars, savedVars, memVars,
                switchVars
  <2> QED  BY <2>2, <2>3
<1>2. CASE SetreadpageBank
  <2>1. TypeOK' /\ OnPages'
    BY <1>2 DEF SetreadpageBank, TypeOK, OnPages, Page, Bank, cacheVars,
                savedVars, memVars, switchVars, selVars
  <2>2. InCall' /\ InSuspension' /\ Contained'
    BY <1>2 DEF SetreadpageBank, InCall, InSuspension, Contained, Running,
                CanSeparate, WriteStands, cacheVars, savedVars, memVars,
                switchVars, selVars
  <2> QED  BY <2>1, <2>2
<1>3. CASE SetreadpageCache
  <2>1. TypeOK' /\ OnPages'
    BY <1>3 DEF SetreadpageCache, TypeOK, OnPages, InCall, CanSeparate, Page,
                Bank, windowVars, savedVars, memVars, switchVars
  <2>2. InCall' /\ InSuspension' /\ Contained'
    BY <1>3 DEF SetreadpageCache, InCall, InSuspension, Contained, Running,
                CanSeparate, ReadStands, WriteStands, Stands, windowVars,
                savedVars, memVars, switchVars
  <2> QED  BY <2>1, <2>2
<1> QED  BY <1>1, <1>2, <1>3

(* The steps of a call that moves the write bank alone.                    *)
LEMMA WritepageStep ==
  ASSUME Careful, IInv,
         (\E p \in Page : vga_setwritepage(p)) \/ SetwritepageBank
           \/ SetwritepageCache
  PROVE  IInv'
<1> USE PagingAssumption DEF Careful, IInv
<1>1. CASE \E p \in Page : vga_setwritepage(p)
  <2>1. PICK p \in Page : vga_setwritepage(p)
    BY <1>1
  <2>2. TypeOK' /\ OnPages'
    BY <2>1 DEF vga_setwritepage, TypeOK, OnPages, Idle, InCall, WriteStands,
                Stands, CanSeparate, Page, Bank, callVars, cacheVars,
                windowVars, savedVars, memVars, switchVars
  <2>3. InCall' /\ InSuspension' /\ Contained'
    BY <2>1 DEF vga_setwritepage, OnPages, InCall, InSuspension, Contained,
                Idle, Running, CanSeparate, WriteStands, ReadStands, Stands,
                Page, callVars, cacheVars, windowVars, savedVars, memVars,
                switchVars
  <2> QED  BY <2>2, <2>3
<1>2. CASE SetwritepageBank
  <2>1. TypeOK' /\ OnPages'
    BY <1>2 DEF SetwritepageBank, TypeOK, OnPages, Page, Bank, cacheVars,
                savedVars, memVars, switchVars, selVars
  <2>2. InCall' /\ InSuspension' /\ Contained'
    BY <1>2 DEF SetwritepageBank, InCall, InSuspension, Contained, Running,
                CanSeparate, ReadStands, cacheVars, savedVars, memVars,
                switchVars, selVars
  <2> QED  BY <2>1, <2>2
<1>3. CASE SetwritepageCache
  <2>1. TypeOK' /\ OnPages'
    BY <1>3 DEF SetwritepageCache, TypeOK, OnPages, InCall, CanSeparate, Page,
                Bank, windowVars, savedVars, memVars, switchVars
  <2>2. InCall' /\ InSuspension' /\ Contained'
    BY <1>3 DEF SetwritepageCache, InCall, InSuspension, Contained, Running,
                CanSeparate, WriteStands, ReadStands, Stands, windowVars,
                savedVars, memVars, switchVars
  <2> QED  BY <2>1, <2>2
<1> QED  BY <1>1, <1>2, <1>3

(* Between two calls the program draws where it selected, which is where   *)
(* the window is.                                                          *)
LEMMA IdleStep ==
  ASSUME Careful, IInv,
         (\E o \in Offsets : SetPageOffset(o)) \/ vga_runinbackground
           \/ (\E d \in Data : Draw(d))
  PROVE  IInv'
<1> USE PagingAssumption DEF Careful, IInv
<1>1. CASE \E o \in Offsets : SetPageOffset(o)
  <2>1. page_offset' = page_offset
    BY <1>1 DEF SetPageOffset, OnPages
  <2>2. UNCHANGED vars
    BY <1>1, <2>1 DEF SetPageOffset, vars
  <2> QED  BY <2>2, Stutter
<1>2. CASE vga_runinbackground
  <2>1. TypeOK' /\ OnPages'
    BY <1>2 DEF vga_runinbackground, TypeOK, OnPages, Page, Bank, callVars,
                cacheVars, windowVars, savedVars, memVars, selVars
  <2>2. InCall' /\ InSuspension' /\ Contained'
    BY <1>2 DEF vga_runinbackground, TypeOK, InCall, InSuspension, Contained,
                Idle, Running, CanSeparate, ReadStands, WriteStands, Stands,
                callVars, cacheVars, windowVars, savedVars, memVars, selVars
  <2> QED  BY <2>1, <2>2
<1>3. CASE \E d \in Data : Draw(d)
  <2>1. PICK d \in Data : Draw(d)
    BY <1>3
  <2>2. UNCHANGED <<callVars, cacheVars, page_offset, windowVars, savedVars,
                    switchVars, selVars>>
    BY <2>1 DEF Draw
  <2>3. /\ card' \in [Bank -> Contents] /\ graph_buf' \in [Page -> Contents]
        /\ own' \in [Bank -> Data]
    BY <2>1 DEF Draw, TypeOK, Contents
  <2>4. TypeOK' /\ OnPages'
    BY <2>2, <2>3 DEF TypeOK, OnPages, callVars, cacheVars, windowVars,
                      savedVars, switchVars, selVars
  <2>5. InCall' /\ InSuspension'
    BY <2>2 DEF InCall, InSuspension, Running, CanSeparate, ReadStands,
                WriteStands, callVars, cacheVars, windowVars, savedVars,
                switchVars, selVars
  <2>6. window = (IF away THEN "buffer" ELSE "card") /\ wbank = sel_w
    BY <2>1 DEF Draw, Idle, InCall, WriteStands
  <2>7. Page \subseteq Bank /\ sel_w \in Page
    BY DEF OnPages, Page, Bank
  <2>8. Contained'
    <3> SUFFICES ASSUME NEW p \in Page
                 PROVE  (IF away THEN graph_buf' ELSE card')[p] = own'[p]
      BY <2>2 DEF Contained, switchVars
    <3>1. CASE away
      BY <2>1, <2>6, <2>7, <3>1 DEF Draw, Contained, TypeOK
    <3>2. CASE ~away
      BY <2>1, <2>6, <2>7, <3>2 DEF Draw, Contained, TypeOK
    <3> QED  BY <3>1, <3>2
  <2> QED  BY <2>4, <2>5, <2>8
<1> QED  BY <1>1, <1>2, <1>3

(* The save copies the program's pages, wherever the window stood.         *)
LEMMA SavesOwn ==
  ASSUME Careful, IInv, ~away, pc = "idle", NEW p \in Page
  PROVE  SaveBank(p) = p
<1> USE DEF IInv
<1>1. page_offset = 0 /\ p \in Nat
  BY PagingAssumption DEF OnPages, Page
<1>2. readpage = 0 => rbank = 0
  BY DEF InCall, Running, ReadStands, Stands
<1> QED  BY <1>1, <1>2 DEF SaveBank

(* flipaway saves the selection, or carries it over to the buffer.         *)
LEMMA SwitchAwayStep == ASSUME Careful, IInv, SwitchAway PROVE IInv'
<1> USE PagingAssumption DEF Careful, IInv, SwitchAway, BackgroundPage
<1>1. /\ pc = "idle" /\ ~away /\ Running /\ ReadStands /\ WriteStands
      /\ runinbackground => readpage = writepage
  BY DEF InCall, Running
<1>2. graph_buf' = [p \in Page |-> card[p]]
  <2>1. graph_buf' = [p \in Page |-> card[SaveBank(p)]]
    OBVIOUS
  <2>2. \A p \in Page : SaveBank(p) = p
    BY <1>1, SavesOwn
  <2> QED  BY <2>1, <2>2
<1>3. BankOf(readpage) = sel_r
  BY <1>1 DEF BankOf, ReadStands, Stands, OnPages, Page
<1>4. runinbackground => sel_r = sel_w
  BY <1>1 DEF ReadStands, WriteStands, Stands, OnPages, Page
<1>5. TypeOK'
  <2>1. card' \in [Bank -> Contents] /\ graph_buf' \in [Page -> Contents]
    <3>1. \A p \in Page : card[p] \in Contents
      <4>1. Page \subseteq Bank
        BY DEF Page, Bank
      <4> QED  BY <4>1 DEF TypeOK
    <3> QED  BY <1>2, <3>1 DEF Contents
  <2>2. sel_r \in Bank /\ 0 \in Bank /\ page_offset = 0
    BY DEF TypeOK, Bank, OnPages
  <2>3. /\ {readpage', writepage', saved_readpage', saved_writepage'}
             \subseteq Bank \cup {NoPage}
        /\ {rbank', wbank'} \subseteq Bank
    BY <1>3, <2>2 DEF TypeOK
  <2>4. window' \in {"card", "buffer", "stray"} /\ away' \in BOOLEAN
    BY DEF TypeOK
  <2> QED  BY <2>1, <2>3, <2>4 DEF TypeOK, callVars, selVars
<1>6. OnPages'
  BY <1>3 DEF OnPages, Page, callVars, selVars
<1>7. InCall'
  BY <1>1, <1>3, <1>4 DEF InCall, Running, OnPages, TypeOK, ReadStands,
                          WriteStands, Stands, CanSeparate, callVars, selVars
<1>8. InSuspension'
  BY <1>1 DEF InSuspension, Running, ReadStands, WriteStands, Stands, callVars,
              selVars
<1>9. Contained'
  BY <1>1, <1>2 DEF Contained
<1> QED  BY <1>5, <1>6, <1>7, <1>8, <1>9

(* A saved number that stands for page s selects page s again.             *)
LEMMA Restored ==
  ASSUME page_offset = 0, NEW q \in Page \cup {NoPage}, NEW s \in Page,
         Stands(q, s)
  PROVE  /\ RestoredPage(q) \in Page \cup {NoPage}
         /\ Stands(RestoredPage(q), s)
         /\ BankOf(RestoredPage(q)) = s
<1> USE PagingAssumption DEF Stands, RestoredPage, CopiedPage, BankOf, Page
<1>1. CASE q = NoPage
  BY <1>1
<1>2. CASE q # NoPage
  BY <1>2
<1> QED  BY <1>1, <1>2

(* flipback puts the picture back and selects the pages again.             *)
LEMMA SwitchBackStep == ASSUME Careful, IInv, SwitchBack PROVE IInv'
<1> USE PagingAssumption DEF Careful, IInv
<1> DEFINE r == saved_readpage'
           w == saved_writepage'
<1>1. /\ pc = "idle" /\ away
      /\ r = (IF runinbackground THEN readpage ELSE saved_readpage)
      /\ w = (IF runinbackground THEN readpage ELSE saved_writepage)
      /\ RestorePages(r, w)
      /\ UNCHANGED <<callVars, page_offset, graph_buf, runinbackground, selVars,
                     own>>
  BY DEF SwitchBack
<1>2. /\ page_offset = 0
      /\ {r, w} \subseteq Page \cup {NoPage} /\ {sel_r, sel_w} \subseteq Page
      /\ Separate \/ sel_r = sel_w
  BY <1>1 DEF OnPages
<1>3. Stands(r, sel_r) /\ Stands(w, sel_w) /\ (runinbackground => r = w)
  BY <1>1 DEF InCall, InSuspension, Running, ReadStands, WriteStands
<1>4. /\ {readpage', writepage'} \subseteq Page \cup {NoPage}
      /\ Stands(readpage', sel_r) /\ Stands(writepage', sel_w)
      /\ rbank' = sel_r /\ wbank' = sel_w
  <2>1. CASE r = w \/ CanSeparate
    <3>1. readpage' = RestoredPage(r) /\ writepage' = RestoredPage(w)
      BY <1>1, <2>1 DEF RestorePages
    <3> HIDE DEF r, w
    <3> QED  BY <1>1, <1>2, <1>3, <3>1, Restored DEF RestorePages
  <2>2. CASE ~(r = w \/ CanSeparate)
    <3>1. sel_r = sel_w /\ LinearCopy /\ sel_r = 0
      BY <1>2, <1>3, <2>2 DEF CanSeparate, Stands
    <3>2. readpage' = NoPage /\ writepage' = NoPage
      BY <1>1, <2>2, <3>1 DEF RestorePages, CopiedPage
    <3> QED  BY <1>1, <3>1, <3>2 DEF RestorePages, BankOf, Stands
  <2> QED  BY <2>1, <2>2
<1>5. \A b \in Bank : RestoreBank(b) = b
  BY <1>2 DEF RestoreBank, Bank
<1>6. \A p \in Page : card'[p] = graph_buf[p]
  <2> SUFFICES ASSUME NEW p \in Page PROVE card'[p] = graph_buf[p]
    OBVIOUS
  <2>1. p \in Bank /\ RestoreBank(p) = p /\ RestoreBank(0) = 0 /\ p - 0 = p
    BY <1>5 DEF Page, Bank
  <2> QED  BY <2>1 DEF SwitchBack
<1>7. card' \in [Bank -> Contents]
  <2> SUFFICES ASSUME NEW b \in Bank, NEW p \in Page, RestoreBank(p) = b
               PROVE  graph_buf[b - RestoreBank(0)] \in Contents
    BY DEF SwitchBack, TypeOK
  <2>1. b = p /\ b - RestoreBank(0) = p
    BY <1>5 DEF Page, Bank
  <2> QED  BY <2>1 DEF TypeOK
<1>8. TypeOK'
  <2>1. Page \subseteq Bank
    BY DEF Page, Bank
  <2> QED  BY <1>1, <1>2, <1>4, <1>7, <2>1
           DEF TypeOK, SwitchBack, callVars, selVars
<1>9. OnPages'
  BY <1>1, <1>2, <1>4 DEF OnPages, callVars, selVars
<1>10. InCall'
  <2>1. readpage' = writepage' \/ ~runinbackground
    BY <1>1, <1>3 DEF RestorePages
  <2> QED  BY <1>1, <1>4, <2>1 DEF InCall, Running, SwitchBack, ReadStands,
              WriteStands, Stands, callVars, selVars
<1>11. InSuspension'
  BY DEF SwitchBack, InSuspension, Running
<1>12. Contained'
  BY <1>1, <1>6 DEF SwitchBack, Contained
<1> QED  BY <1>8, <1>9, <1>10, <1>11, <1>12

(* Every step keeps the invariant.                                         *)
LEMMA NextIInv == ASSUME Careful PROVE IInv /\ [Next]_vars => IInv'
<1> SUFFICES ASSUME IInv, [Next]_vars PROVE IInv'
  OBVIOUS
<1>1. CASE Call
  BY <1>1, SetpageStep, ReadpageStep, WritepageStep, IdleStep DEF Call
<1>2. CASE SwitchAway
  BY <1>2, SwitchAwayStep
<1>3. CASE SwitchBack
  BY <1>3, SwitchBackStep
<1>4. CASE UNCHANGED vars
  BY <1>4, Stutter
<1> QED  BY <1>1, <1>2, <1>3, <1>4 DEF Next

-----------------------------------------------------------------------------
(* The results.                                                            *)

(* A careful program finds the window on the pages it selected and never   *)
(* skips a bank switch it needs, whatever switches happened between its    *)
(* calls.                                                                  *)
THEOREM PagesKept ==
  ASSUME Careful PROVE Spec => [](PageSelected /\ CacheTrue)
<1>1. Init => IInv
  BY InitIInv
<1>2. IInv /\ [Next]_vars => IInv'
  BY NextIInv
<1>3. IInv => PageSelected /\ CacheTrue
  BY DEF IInv, InCall, PageSelected, CacheTrue, Idle, ReadStands, WriteStands,
         Stands
<1> QED  BY <1>1, <1>2, <1>3, PTL DEF Spec

(* It finds in each page what it wrote there last.                         *)
THEOREM PictureKept == ASSUME Careful PROVE Spec => []MemoryKept
<1>1. Init => IInv
  BY InitIInv
<1>2. IInv /\ [Next]_vars => IInv'
  BY NextIInv
<1>3. IInv => MemoryKept
  BY DEF IInv, Contained, MemoryKept
<1> QED  BY <1>1, <1>2, <1>3, PTL DEF Spec


=============================================================================
