------------------------------- MODULE Paging -------------------------------
(***************************************************************************)
(* The 64K window on video memory (vga_setpage and its two relatives, src/ *)
(* src/vga.c:1736), the page numbers the library caches, and what virtual  *)
(* console switches do to both: savestate and restorestate walk the window *)
(* over the whole memory, and in the background flipaway maps it over the  *)
(* save buffer.                                                            *)
(*                                                                         *)
(* The program runs one svgalib call at a time, step by step; a switch     *)
(* away and a switch back are one step each (VTSwitch has their insides,   *)
(* and the signals that interrupt them).  The mode is a 256 colour one of  *)
(* N pages on a card with M pages.                                         *)
(***************************************************************************)
EXTENDS Integers

CONSTANTS
  N, M,        \* pages of the mode, pages of the card
  Data,        \* what a page can hold
  Blank,       \* what vga_clear leaves
  Lost,        \* what the text mode leaves in a page
  Offsets,     \* values of VGA_EXT_PAGE_OFFSET the program uses
  LinearCopy,  \* CAN_USE_LINEAR: the memory is saved in one piece
  Separate,    \* the chipset has separate read and write banks
  Locks,       \* the program brackets its page calls with vga_lockvc
  Selects      \* the program calls vga_setpage(0) before anything else

Page == 0 .. N - 1
Bank == 0 .. M - 1
NoPage == -1

ASSUME PagingAssumption ==
  /\ N \in Nat \ {0} /\ M \in Nat /\ N <= M
  /\ Blank \in Data /\ Lost \notin Data
  /\ Offsets \subseteq 0 .. M - N /\ 0 \in Offsets
  /\ LinearCopy => Offsets = {0}
  /\ {LinearCopy, Separate, Locks, Selects} \subseteq BOOLEAN

VARIABLES
  pc, arg, via,             \* the call in progress, its bank, and whether it
                            \* saw emulatepage set
  readpage, writepage,      \* the cached numbers of the banks
  page_offset,
  window,                   \* what BANKED_POINTER maps: "card", "buffer" or,
                            \* after a mix of both, "stray"
  rbank, wbank,             \* the bank it reads from and writes to
  saved_readpage, saved_writepage,
  card, graph_buf,          \* contents of video memory and save buffer
  away, runinbackground,
  sel_r, sel_w, own         \* the program's knowledge: the banks it selected
                            \* and what it wrote in each

callVars == <<pc, arg, via>>
cacheVars == <<readpage, writepage>>
windowVars == <<window, rbank, wbank>>
savedVars == <<saved_readpage, saved_writepage>>
memVars == <<card, graph_buf>>
switchVars == <<away, runinbackground>>
selVars == <<sel_r, sel_w>>
vars == <<callVars, cacheVars, page_offset, windowVars, savedVars, memVars,
          switchVars, selVars, own>>

Contents == Data \cup {Lost}

TypeOK ==
  /\ pc \in {"idle", "sp_map", "sp_read", "sp_write", "sr_set", "sr_cache",
             "sw_set", "sw_cache"}
  /\ arg \in Bank
  /\ via \in {"bank", "mmap"}
  /\ {readpage, writepage, saved_readpage, saved_writepage}
       \subseteq Bank \cup {NoPage}
  /\ page_offset \in Offsets
  /\ window \in {"card", "buffer", "stray"}
  /\ {rbank, wbank, sel_r, sel_w} \subseteq Bank
  /\ card \in [Bank -> Contents]
  /\ graph_buf \in [Page -> Contents]
  /\ {away, runinbackground} \subseteq BOOLEAN
  /\ own \in [Bank -> Data]

(* After vga_setmode: the memory is clear, the window on page 0, and no    *)
(* page number cached (line 2150).                                         *)
Init ==
  /\ pc = "idle" /\ arg = 0 /\ via = "bank"
  /\ readpage = IF Selects THEN 0 ELSE NoPage
  /\ writepage = readpage
  /\ page_offset = 0
  /\ window = "card" /\ rbank = 0 /\ wbank = 0
  /\ saved_readpage = NoPage /\ saved_writepage = NoPage
  /\ card = [b \in Bank |-> Blank]
  /\ graph_buf = [p \in Page |-> Lost]
  /\ away = FALSE /\ runinbackground = FALSE
  /\ sel_r = 0 /\ sel_w = 0
  /\ own = [b \in Bank |-> Blank]

-----------------------------------------------------------------------------
(* The page calls.                                                         *)

Running == ~away \/ runinbackground
Idle == Running /\ pc = "idle"

(* __svgalib_emulatepage, set while the window is on the save buffer.      *)
EmulatePage == away /\ runinbackground

vga_setpage(p) ==
  /\ Idle
  /\ IF p + page_offset = readpage /\ p + page_offset = writepage
       THEN /\ sel_r' = readpage /\ sel_w' = writepage
            /\ UNCHANGED callVars
       ELSE /\ pc' = "sp_map" /\ arg' = p + page_offset
            /\ via' = IF EmulatePage THEN "mmap" ELSE "bank"
            /\ UNCHANGED selVars
  /\ UNCHANGED <<cacheVars, page_offset, windowVars, savedVars, memVars,
                 switchVars, own>>

(* The chipset's bank register moves the window only while it is on the    *)
(* card; a mapping prepared for the buffer and made on the card is astray. *)
SetpageMap ==
  /\ Running /\ pc = "sp_map"
  /\ LET moves == IF via = "bank" THEN window # "buffer" ELSE EmulatePage
     IN  /\ rbank' = IF moves THEN arg ELSE rbank
         /\ wbank' = IF moves THEN arg ELSE wbank
  /\ window' = IF via = "mmap" /\ ~EmulatePage THEN "stray" ELSE window
  /\ pc' = "sp_read"
  /\ UNCHANGED <<arg, via, cacheVars, page_offset, savedVars, memVars,
                 switchVars, selVars, own>>

FaultySetpageRead ==
  /\ Running /\ pc = "sp_read"
  /\ pc' = "sp_write"
  /\ UNCHANGED <<arg, via, cacheVars, page_offset, windowVars, savedVars,
                 memVars, switchVars, selVars, own>>
SetpageRead ==
  /\ Running /\ pc = "sp_read"
  /\ readpage' = arg
  /\ pc' = "sp_write"
  /\ UNCHANGED <<arg, via, writepage, page_offset, windowVars, savedVars,
                 memVars, switchVars, selVars, own>>

SetpageWrite ==
  /\ Running /\ pc = "sp_write"
  /\ writepage' = arg
  /\ pc' = "idle"
  /\ sel_r' = arg /\ sel_w' = arg
  /\ UNCHANGED <<arg, via, readpage, page_offset, windowVars, savedVars,
                 memVars, switchVars, own>>

(* Separate pages are refused without hardware for them and while          *)
(* background running is on.                                               *)
CanSeparate == Separate /\ ~runinbackground

vga_setreadpage(p) ==
  /\ Idle
  /\ p + page_offset = readpage \/ CanSeparate
  /\ IF p + page_offset = readpage
       THEN sel_r' = readpage /\ UNCHANGED callVars
       ELSE pc' = "sr_set" /\ arg' = p + page_offset /\ UNCHANGED <<via, sel_r>>
  /\ UNCHANGED <<cacheVars, page_offset, windowVars, savedVars, memVars,
                 switchVars, sel_w, own>>

SetreadpageBank ==
  /\ Running /\ pc = "sr_set"
  /\ rbank' = arg
  /\ pc' = "sr_cache"
  /\ UNCHANGED <<arg, via, cacheVars, page_offset, window, wbank, savedVars,
                 memVars, switchVars, selVars, own>>

SetreadpageCache ==
  /\ Running /\ pc = "sr_cache"
  /\ readpage' = arg
  /\ pc' = "idle"
  /\ sel_r' = arg
  /\ UNCHANGED <<arg, via, writepage, page_offset, windowVars, savedVars,
                 memVars, switchVars, sel_w, own>>

vga_setwritepage(p) ==
  /\ Idle
  /\ p + page_offset = writepage \/ CanSeparate
  /\ IF p + page_offset = writepage
       THEN sel_w' = writepage /\ UNCHANGED callVars
       ELSE pc' = "sw_set" /\ arg' = p + page_offset /\ UNCHANGED <<via, sel_w>>
  /\ UNCHANGED <<cacheVars, page_offset, windowVars, savedVars, memVars,
                 switchVars, sel_r, own>>

SetwritepageBank ==
  /\ Running /\ pc = "sw_set"
  /\ wbank' = arg
  /\ pc' = "sw_cache"
  /\ UNCHANGED <<arg, via, cacheVars, page_offset, window, rbank, savedVars,
                 memVars, switchVars, selVars, own>>

SetwritepageCache ==
  /\ Running /\ pc = "sw_cache"
  /\ writepage' = arg
  /\ pc' = "idle"
  /\ sel_w' = arg
  /\ UNCHANGED <<arg, via, readpage, page_offset, windowVars, savedVars,
                 memVars, switchVars, sel_r, own>>

(* vga_ext_set(VGA_EXT_PAGE_OFFSET, o) *)
SetPageOffset(o) ==
  /\ Idle
  /\ page_offset' = o
  /\ UNCHANGED <<callVars, cacheVars, windowVars, savedVars, memVars,
                 switchVars, selVars, own>>

(* Switching it off waits for the console. *)
vga_runinbackground ==
  /\ Idle
  /\ IF runinbackground THEN ~away ELSE readpage = writepage
  /\ runinbackground' = ~runinbackground
  /\ UNCHANGED <<callVars, cacheVars, page_offset, windowVars, savedVars,
                 memVars, away, selVars, own>>

(* The program writes through the window. *)
Draw(d) ==
  /\ Idle
  /\ own' = [own EXCEPT ![sel_w] = d]
  /\ card' = IF window = "card" THEN [card EXCEPT ![wbank] = d] ELSE card
  /\ graph_buf' = IF window = "buffer" THEN [graph_buf EXCEPT ![wbank] = d]
                  ELSE graph_buf
  /\ UNCHANGED <<callVars, cacheVars, page_offset, windowVars, savedVars,
                 switchVars, selVars>>

-----------------------------------------------------------------------------
(* Virtual console switches.                                               *)

(* The bank from which savestate copies page p.  Page 0 is copied from     *)
(* wherever the window is when the cache says it is there already.         *)
FaultySaveBank(p) == IF ~LinearCopy /\ p = 0 THEN rbank ELSE p + page_offset
SaveBank(p) ==
  IF LinearCopy THEN p
  ELSE IF p = 0 /\ readpage = page_offset /\ writepage = page_offset
    THEN rbank
    ELSE p + page_offset

RestoreBank(p) == IF LinearCopy THEN p ELSE p + page_offset

(* What restorestate leaves in a bank and in the number cached for it, given*)
(* the number q it has saved: the mode set put the window on page 0 and    *)
(* forgot the numbers, the copy went through all pages, and a saved number *)
(* is selected by a call that adds page_offset.                            *)
CopiedPage == IF LinearCopy THEN NoPage ELSE N - 1 + page_offset
FaultyRestoredPage(q) == CopiedPage
RestoredPage(q) == IF q = NoPage THEN CopiedPage ELSE q + page_offset
BankOf(q) == IF q = NoPage THEN 0 ELSE q

(* Numbers that differ are selected one by one, which needs separate banks.*)
RestorePages(r, w) ==
  LET kept == r = w \/ CanSeparate
  IN  /\ readpage' = IF kept THEN RestoredPage(r) ELSE CopiedPage
      /\ writepage' = IF kept THEN RestoredPage(w) ELSE CopiedPage
      /\ rbank' = BankOf(readpage') /\ wbank' = BankOf(writepage')

(* Where flipaway puts the window of a program that runs on.               *)
FaultyBackgroundPage == page_offset
BackgroundPage == BankOf(readpage)

(* flipaway: savestate, vga_setmode(TEXT), whose vga_setpage(0) is the     *)
(* last to set the page numbers, and the mapping over the buffer.          *)
SwitchAway ==
  /\ ~away
  /\ Locks => pc = "idle"
  /\ away' = TRUE
  /\ saved_readpage' = readpage /\ saved_writepage' = writepage
  /\ graph_buf' = [p \in Page |-> card[SaveBank(p)]]
  /\ card' = [b \in Bank |-> Lost]
  /\ window' = IF runinbackground THEN "buffer" ELSE window
  /\ readpage' = IF runinbackground THEN BackgroundPage ELSE page_offset
  /\ writepage' = readpage'
  /\ rbank' = readpage' /\ wbank' = readpage'
  /\ UNCHANGED <<callVars, page_offset, runinbackground, selVars, own>>

(* flipback.  A program that ran in the background keeps its present page. *)
SwitchBack ==
  /\ away
  /\ Locks => pc = "idle"
  /\ away' = FALSE
  /\ window' = "card"
  /\ saved_readpage' = IF runinbackground THEN readpage ELSE saved_readpage
  /\ saved_writepage' = IF runinbackground THEN readpage ELSE saved_writepage
  /\ RestorePages(saved_readpage', saved_writepage')
  /\ card' = [b \in Bank |-> IF \E p \in Page : RestoreBank(p) = b
                               THEN graph_buf[b - RestoreBank(0)]
                               ELSE card[b]]
  /\ UNCHANGED <<callVars, page_offset, graph_buf, runinbackground, selVars,
                 own>>

Call ==
  \/ \E p \in Page : vga_setpage(p) \/ vga_setreadpage(p) \/ vga_setwritepage(p)
  \/ SetpageMap \/ SetpageRead \/ SetpageWrite
  \/ SetreadpageBank \/ SetreadpageCache
  \/ SetwritepageBank \/ SetwritepageCache
  \/ \E o \in Offsets : SetPageOffset(o)
  \/ vga_runinbackground
  \/ \E d \in Data : Draw(d)

Next == Call \/ SwitchAway \/ SwitchBack

Spec == Init /\ [][Next]_vars

-----------------------------------------------------------------------------
(* Properties.                                                             *)

(* Between two calls the window is on the pages the program selected last, *)
(* of the memory it is to use now: vga_setpage and the restoring of pages  *)
(* by restorestate and flipaway.                                           *)
PageSelected ==
  Idle => /\ rbank = sel_r /\ wbank = sel_w
          /\ window = IF away THEN "buffer" ELSE "card"

(* A cached page number is the bank's: the early return of vga_setpage     *)
(* never skips a call that is needed.                                      *)
CacheTrue ==
  Idle => readpage \in {NoPage, rbank} /\ writepage \in {NoPage, wbank}

(* Every page of the mode holds what the program wrote in it last, in the  *)
(* card or, in the background, in the save buffer, after any number of     *)
(* savestate and restorestate.                                             *)
MemoryKept ==
  Idle => \A p \in Page : (IF away THEN graph_buf ELSE card)[p] = own[p]

-----------------------------------------------------------------------------
(* The inductive invariant of the proofs, for a program that locks around  *)
(* its page calls, leaves the page offset alone, and uses linear           *)
(* addressing or has called vga_setpage at least once.                     *)

Careful == Locks /\ Offsets = {0} /\ (LinearCopy \/ Selects)

(* Number q is cached for a bank the program believes to be on page s.     *)
Stands(q, s) == q = s \/ (q = NoPage /\ s = 0 /\ LinearCopy)

ReadStands == rbank = sel_r /\ Stands(readpage, sel_r)
WriteStands == wbank = sel_w /\ Stands(writepage, sel_w)

OnPages ==
  /\ page_offset = 0
  /\ {readpage, writepage, saved_readpage, saved_writepage}
       \subseteq Page \cup {NoPage}
  /\ {arg, rbank, wbank, sel_r, sel_w} \subseteq Page
  /\ Separate \/ sel_r = sel_w

InCall ==
  Running =>
    /\ window = IF away THEN "buffer" ELSE "card"
    /\ pc = "idle" => ReadStands /\ WriteStands
    /\ pc = "sp_map" => via = IF away THEN "mmap" ELSE "bank"
    /\ pc \in {"sp_read", "sp_write"} => rbank = arg /\ wbank = arg
    /\ pc = "sp_write" => readpage = arg
    /\ pc \in {"sr_set", "sr_cache"} => WriteStands /\ CanSeparate
    /\ pc \in {"sw_set", "sw_cache"} => ReadStands /\ CanSeparate
    /\ pc = "sr_cache" => rbank = arg
    /\ pc = "sw_cache" => wbank = arg
    /\ pc = "idle" /\ runinbackground => readpage = writepage

InSuspension ==
  ~Running =>
    /\ pc = "idle"
    /\ Stands(saved_readpage, sel_r) /\ Stands(saved_writepage, sel_w)

Contained == \A p \in Page : (IF away THEN graph_buf ELSE card)[p] = own[p]

IInv == TypeOK /\ OnPages /\ InCall /\ InSuspension /\ Contained

=============================================================================
