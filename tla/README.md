# svgalib: a verification development

svgalib lets a Linux program set graphics modes and draw on the video card from
a virtual console.  It shares the card with every other console of the machine:
when the user switches consoles, the library has to get off the card, leave a
text screen behind, and later put everything back as if nothing had happened.
It does that inside signal handlers that interrupt the program, the library
and each other.  The modules here are first about this: what happens between two
steps nobody thought about together.  The others are about what the library, its calls and its chipset drivers
leave to each other in the registers of the card, and about the devices it reads.

## 1. Inventory

| Component | Code | State it keeps | Operations | Modelled by |
|---|---|---|---|---|
| virtual console switching | `src/src/vga.c`, `vga_console.c` | `CM`, `flip`, `flip_mode`, `lock_count`, `release_flag`, `forbidvtrelease`, `forbidvtacquire`, `runinbackground`, `oktowrite`, the save buffer `graph_buf` | SIGUSR1 and SIGUSR2 handlers, `vga_setmode`, `vga_flip`, `vga_lockvc`, `vga_unlockvc`, `vga_runinbackground`, exit and fatal signals | `VTSwitch`, `VTKernel`, `Screen` |
| paged video memory | `vga.c` | `readpage`, `writepage`, `page_offset`, their saved copies, the mapping of `GM` | `vga_setpage`, `vga_setreadpage`, `vga_setwritepage`, the page offset, copying by `savestate` and `restorestate` | `Paging` |
| retrace interrupt of the kernel helper | `src/kernel/svgalib_helper/main.c`, `interrupt.c` | `opencount`, `vsync`, registered handlers, the card's interrupt | open, release, WAITRETRACE, the interrupt handler | `Retrace` |
| raw keyboard | `src/src/keyboard/keyboard.c` | `state[]`, the modifier flags, `functionkey_state` | `keyboard_getevents`, default handler, `keyboard_clearstate` | `Keyboard` |
| mouse | `mouse/mouse.c`, `mouse/ms.c` | position, ranges, scale, the packet being read | default handler, protocols, setters | `Mouse` (the serial and PS/2 protocols) |
| cursor | `vgacursor.c` | position, shown or not, the pixels under it | initialise, select, fill, show, hide, move, restore after a switch | `Cursor` |
| joystick | `joystick/joystick.c` | axes, buttons, calibration | read, calibrate | not modelled |
| drawing functions | `vgadraw.c`, `vgapix.c`, `vgaclear.c`, `vgacolor.c` | the VGA's registers, as the last call left them | pixels, scan segments, colors, clearing | `Raster` |
| acceleration | `vgaaccel.c`, `accel.c`, the `accel` functions of `ark.c`, `cirrus.c`, `mach32.c` | the engine's registers, the drivers' variables, background mode, `CRITICAL` and `mach32_accelstate` | fill, copy, bitmap, colors, raster operation, transparency, SETMODE, SYNC, the old blits | `Accel` |
| modes, timings, configuration | `timing.c`, `vgaregs.c`, `vgamodesel.c`, `vgamisc.c` | `current_timing`, `force_timing`, the user's timings, the monitor's limits | `__svgalib_getmodetiming`, `vga_guesstiming`, `vga_changetiming`, the registers of a timing | `Timing`, `TimingCards`, `Synth`, `Synths` |
| helper requests | `kernel/svgalib_helper/main.c` | none but the list of cards | ports, PCI, mapping, display start | not modelled |
| safety fork | `vga.c:1800` | a second process | `vga_safety_fork` | not modelled |
| chipset drivers, RAMDACs, clock chips | `src/src/drivers` and neighbours | the registers of a card | save and set registers, mode sets, page, start, width, linear memory, clocks | `Card` with `Registers`, `TableCards`, `TimedCards`, `PciCards`, `MappedCards`; `TimingCards`, `Synth`, `Synths` |
| vgagl | `src/gl`: `grlib.c`, `driver.c`, `line.c`, `cbitmap.c` | contexts of a screen and of main memory, the clipping window, the screen offset, the page shown | pixels, lines, boxes, masks, copies between contexts, `gl_copyscreen` with page flipping | `VGAGL` with `Framebuffer`, `Lines`, `Boxes` |
| threeDKit, demos, utilities, lrmi | `src/threeDKit` and others | none of the library's | examples and tools | not modelled |

How they interact:

* The kernel's console driver sends SIGUSR1 to ask for the console and SIGUSR2 to
  give it back; the library answers with `ioctl(VT_RELDISP)`.  The two handlers
  are installed with empty masks, so each interrupts the other as well as the
  library and the program.
* The keyboard is read by the program, not by a handler; on Alt and a function
  key it calls `VT_ACTIVATE`, which starts the exchange above.
* The release handler saves video memory page by page through `vga_setpage`, the
  function the interrupted program may be in the middle of; in the background it
  maps the program's window over the save buffer.
* `vga_setmode` asks `timing.c` for a timing within the monitor's and the card's limits; the chipset
  driver turns it into registers, its own on top of those `vgaregs.c` computes, and builds on
  what `saveregs` reads from the card.  Back in text the same driver's `setregs` gets what its `saveregs`
  read at the start.
* Drawing calls leave the VGA's registers to each other, and the software cursor draws with them too; the
  acquire handler restores the cursor in the middle of whatever it interrupted.
* vgagl bypasses the drawing calls: it writes to the window itself, with `vga_setpage` at each page's end, and
  shows a page with `vga_setdisplaystart`, which the card takes at its next retrace.
* An accelerator draws while the program goes on.  The release handler and that of a fatal signal wait for it, in
  the middle of the driver call they interrupted; the Mach32's driver holds the console's lock as long as it draws.
* The helper is a kernel module that many processes share; it wakes them from
  an interrupt handler.

What makes it hard, in this order: interleaving of handlers with calls and with
each other; state tested by a handler and changed by what it interrupted; flags
that two mechanisms share (`flip` and `flip_mode` serve `vga_flip` and the
switches); a user or another process who switches again before the last switch
is over; fatal signals anywhere; liveness of a handshake with deferred answers; bytes lost on a serial
line; numbers wider than the registers that hold them, split differently by every driver; state of the
card that one call leaves to the next.

What makes each component correct:

* *Switching.* The program's own screen is as if there were no switches
  (`Transparent`, against the abstract `Screen`); another console never sees a
  graphics mode or a dark screen; a program in the background never writes to the
  card; the console is not given away under a lock; every request is answered; a
  program that dies leaves a text screen.
* *Paging.* Between calls the window is on the page the program selected; the
  cached numbers are true; memory holds what the program wrote.
* *Retrace.* No process sleeps for ever; interrupt handlers are registered and
  freed once each, unless two processes count their opens or closes at once.
* *Keyboard.* No key sticks; no switch and no interrupt happens without its keys.
* *Mouse.* Every event reported is one packet's, also when packets come in pieces; after a loss the driver is
  in step again with the next packet but one; the buttons settle to the real ones.
* *Drawing.* The screen shows, and the calls read back, what was drawn, whatever calls came before.
* *vgagl.* Each context holds the picture its calls describe, whatever the window's pages, the pixel's size and the
  clipping window; lines are straight; with page flipping only finished frames are shown.
* *Acceleration.* Once the engine is idle the memory holds the picture the calls describe; it never draws on another
  console's screen; the lock is held for as long as it should be; nobody waits for an engine that waits for data.
* *Cursor.* Without the cursor the picture is the program's; the cursor is where and what was asked for, also after a switch.
* *Timings.* A card is programmed with the timing chosen, every bit of it, at a clock near it and within the
  monitor's limits; what is noted as current is current; the user's choice comes first.
* *Drivers.* Text mode has every register as it was; a mode does not depend on the mode before; a switch loses
  nothing that was selected.

`PROJECT.json` lists the hazards line by line, with the properties that cover
them; those without a property have a note.

## 2. Modules

| Module | What it is |
|---|---|
| `VTKernel` | the console driver as svgalib sees it (external): who is in front, the pending request, KD mode, pending signals |
| `VTSwitch` | `vga.c`'s side: one process with four contexts |
| `Screen` | what is promised to the program: mode and image, changed by nothing but its own calls |
| `VTPatient` | the inductive invariant for a careful program and a patient user |
| `VTSwitchProofs` | types, the stack of handlers and the theorems that hold for any program; the handshake and the lock with a patient user; with a careful program too, that invariant, the six properties that follow, and the refinement of `Screen` |
| `Paging`, `PagingProofs` | page selection and switches as single steps; its theorems |
| `Retrace`, `RetraceProofs` | the helper's retrace wait; its two theorems |
| `Keyboard` | the raw keyboard |
| `Mouse`, `MouseProofs` | mice of six protocols, their line, and `get_ms_event`; its theorems |
| `Raster` | drawing in 16 colors, Mode X and packed pixels of one to three bytes |
| `Framebuffer` | vgagl's primitives for pixels of one to four bytes, linear and paged |
| `Lines` | clipping and walking of a line |
| `Boxes` | what vgagl's clipped calls and compiled masks do to a memory |
| `VGAGL` | vgagl's contexts, calls, copies and page flipping |
| `Accel` | the accelerators of four drivers, their engine, and the signals that interrupt their calls |
| `Drawing`, `DrawingProofs`, `DrawingMC` | a program that draws with `Raster`'s calls, with `VGAGL`'s or with `Accel`'s; the theorems about the accelerator and about lines; its instance |
| `HwCursors`, `Cursor` | the registers and images of 15 cards' cursors; the calls, with the library's cursor or a card's |
| `ConsoleProofs` | the two theorems of `Keyboard` and the three of `Cursor`, the parts that a console switch finds in the middle of what they do |
| `Timing`, `TimingProofs`, `TimingMC` | the choice of a timing, its registers and clock; its theorems; its instance |
| `TimingCards` | what 24 drivers tell of their card (memory, clocks, limits), and how its registers keep the counts of a timing |
| `Synth`, `Synths` | their clock synthesizers |
| `Registers` | units of registers, and how a number is placed in them |
| `Card`, `CardInvariant`, `CardProofs`, `CardsMC` | a driver under `vga.c`; its inductive invariant and what it asks of a driver; its theorems; its instance |
| `TableCards`, `TimedCards`, `PciCards`, `MappedCards`, `ChipsCards` | what the functions of 30 drivers save, set and select |

Every module is parameterised by CONSTANTS with a named assumption, and the
configurations instantiate it directly with model values.  Definitions named
`Faulty...` are plausible mistakes in the definition that follows; no action uses
them.  They are there to show that each property tells the code from a mistake
(`PROJECT.json`, "mutants").

### VTSwitch

*Contexts.*  `top` is the context that runs: `main`, or one of the handlers
`release` (SIGUSR1), `acquire` (SIGUSR2) and `fatal`.  `below[c]` is the context
that `c` interrupted, `pc[c]` where it is.  A handler starts between any two
steps of any other and is blocked only while it is running itself (SETSIG,
`vga.c:67`).

*Routines.*  `vga_setmode` is called by the program, by both handlers and by the
exit path, so it is a routine: `arg[c]`, `ret[c]` and the places `sm_enter`,
`sm_prog`, `sm_end`.  The order that matters is kept: `CM` changes first, then
the screen goes dark, then the card is programmed, then the screen is cleared
and lit.  A mode in `BadMode` fails in the chipset driver; then `CM` is
`Fallback` and a nested call sets text.

*Correspondence.*  Labels `rel` to `rel_wait` are `__svgalib_releasevt_signal`
with `__svgalib_flipaway` inside it (`fa`, `fa_save`, `fa_done`); `acq` to `acq_end`
are `__svgalib_acquirevt_signal` with `__svgalib_flipback`; `rt`, `rt_end`, `dead`
are `restoretextmode` and the way out.  `vga_unlockvc` calls the release routine
in `main`.  `hw`, `screenon` and `vram` are the card; `graph_buf` and `bufkind`
the save buffer and how it was allocated; `map` where the program's window
points.  `app_bg` and `app_flip` are what the program itself knows.

*The program.*  `Style` says how disciplined it is.  A "careful" program flips
and changes background running only under `vga_lockvc` and in front; while it
runs in the background it makes its mode sets that way too; inside `vga_flip` it does
nothing else.  It need not lock around an ordinary `vga_setmode`, and most programs do not.  "any"
program does anything.  `Uses` says which of flips and background running occur at all.
`Patient` says that the user starts a switch only when the last one is over.
These are assumptions about programs and users; where the manual promises
something without them, a run or section 5 shows what happens.

*Atomicity.*  `savestate` and `restorestate` are one step each here and are looked into
by `Paging`.  The handlers set one forbid flag and test the other in one step: a
signal between the two assignments finds the same state as one right after.
The wait of `vga_lockvc` for a flip under way is kept as a guard although `flip` is
never set while `main` runs.

*Left out.*  Palettes, termio and the saved registers (they follow `SaveState`); the text
program and the joystick's callback; the secondary head and `novccontrol`; failures of
`malloc`; `initialize` itself (`Init` is the state after `vga_init` and
`vga_setmode(TEXT)`); a request `vga_hasmode` refuses, which changes nothing.

### Paging

The calls go step by step (bank or mapping, then each cached number), a
switch is one step in each direction, since its interleaving with itself is the
business of `VTSwitch`.  `window` is what the program's pointer maps: the
card, the save buffer, or "stray" after a mapping prepared for one was made on
the other.  `SaveBank` and `RestoreBank` say from which bank a page is copied,
`RestoredPage` which one is selected afterwards; both add the page offset as the
code does.  `sel_r`, `sel_w` and `own` are what the program asked for and wrote.
`N` pages of the mode and `M` of the card: with a page offset the two differ.
A linear mode and a page offset exclude each other (`doc/man3/vga_ext_set.3`), which
the assumption says.

### Retrace

One process per element of `CardUser` (the device of a card) and `ControlUser`
(minor 0, which registers a handler for each wait).  A step is what happens
between two points where another processor, process or the interrupt can
intervene: `opencount` is read into a register (`seen`), written back, and
tested, from the register or from memory, in a step each, before the step that registers or frees the handler
(`svgalib_helper_open`, `CountOpen`, `TestOpen`, `OpenRequest`, and four for the release); the
enabling of the interrupt and the sleep are one (`wait_event` tests again).
`BigLock` is the kernel's big lock, held over the ioctl before Linux 2.6.36 and
given up by a sleeper; open and release do not take it.  With `Preempted` a process may be overtaken between
any two of its steps, as on two processors; without, nobody comes between reading and testing `opencount`, which sleeps nowhere, but
anybody while `request_irq` or `free_irq` does.

### Keyboard

A scan code is the key itself.  The kernel queues the events that happen while
the console is in front and drops the others, which is why held keys are a problem at a
switch.  Each event carries the set of keys really held when it happened, so that
the properties can compare what the library believes with what is true.

### Mouse

The other end of the line is modelled with its protocol: packets of the protocol's length, a middle button where the
protocol has one, a MouseMan's optional fourth byte.  Bytes arrive one by one, in any portions for
`read`, and some are lost.  A read takes what the buffer has room for (`Fits`; a negative size fails), but for the byte
that `get_ms_event` sleeps for, which is stored unasked.  `get_ms_event` is a loop of actions between its call and its `Return`: what is in `buffer` is checked against
header and data mask and skipped where it does not fit (`Skip`, `ms.c:757`), turned into an `Event`, or completed by a read that waits (`Sleep`,
`ReadOne`, `ms.c:743`).  A byte is what the code tells it by (a header, possible data, possibly a MouseMan's
optional byte) and what it says of buttons and wheel; `pk` and `pos`, which no code sees, name the packet it is of, so
that an event mixed from two packets is visible as such.  The deltas, the acceleration and the
other protocols are left out.

### Raster

Memory is a set of cells, each a plane of a byte or a packed pixel's byte in a bank; `Width`, the bank's size and
the bytes of a pixel are chosen so that a run, and one pixel, lies across a bank.  The VGA's Bit Mask, Map Mask,
Set/Reset, write mode and latches are variables, since a call leaves them to the next.  Calls are atomic (a
switch in the middle is `Paging`'s business).  `Wary` programs avoid the calls that section 5 lists.

### VGAGL, Framebuffer, Lines and Boxes

A memory is a function from addresses to bytes, and a byte says which color it is of and which byte of it, so that a
byte lost, doubled or exchanged is seen.  `RowIn` and `RowPages` are the loop of the paged boxes, `LineBytes` and
`PixelBytesOf` that of lines and pixels; `FillPart` is the pixel of three bytes that a page's end cuts in two.  The four sizes
of pixel have functions of their own in `driver.c`, with the same structure; `bytes` tells them apart, and where one differs (`getboxpart`, a
line's pixels) the definition does.  `RGB2BGR` and the accelerated calls are left out.

`VGAGL` keeps the context of the screen, that of a virtual screen, and a copy of one of them as the current context, as
`gl_setcontext` does.  `picture` is what the calls describe: each action changes it by the pixels of its box inside the
window.  `gl_copyscreen` is `BeginCopy`, one `CopyChunk` for each turn of its loop, and `EndCopy`; a retrace
(`VerticalRetrace`) may come between any two.  The program does not fill a page before the one it fills has been shown: a comment in
`gl_copyscreen` says a wait "might be appropriate", and there is none.  It enables page flipping once.
`Prudent` keeps it away from the calls that section 5 lists.  A drawing call is one step.  The mode's setup is a record (`Setups`).
`Setups`' `calls` and `DrawMax` bound what is drawn: a picture is put into a context and one call follows; frames are not bounded.

### Accel

A call of `vga_accel` puts the steps of its driver into `todo` (`arkaccel_...`, `cirrusaccel_...`, `mach32_...`): registers
written, waits, the lock taken and given back; a signal puts its handler's steps before them.  `Proceed` takes the steps one by
one, and the engine is an actor of its own: `EngineRuns` does the blit its registers describe, pixel by pixel in
the direction they say, at any time after the start.  What is written into a register of the ARK or Cirrus under a
running blit is seen by it; the Mach32 has a queue (`QueueRuns`).  A bitmap's engine is "hungry" until it is fed, and a
wait for it does not end, except that the Mach32's gives up after a while and resets the engine.
A raster operation is its code in the driver's table, read as the hardware reads it.  `meant` is what the calls describe
(`Promised`), `wish` what the program asked for, with "any" where a setting does not outlast a switch (section 5).
The `Gentle` program locks the console around its use of the drivers that do not hold the lock themselves, as the manual asks
(`vga_accel.3:214`), waits for the engine before it draws on its own, and keeps away from what section 5 lists.

### Cursor

One line of the screen.  The library's own cursor keeps the pixels it covers in `buf`, and a call
is the steps of `software_cursor` in `todo`.  A card's cursor (`HwCursors`) has registers, of which every bit that a driver
writes is a unit, images in places of its memory, and colors; the driver keeps images of its own (`own`).  What the card
shows is read from them: `Number` decodes a position or an address, and the image is the one in the place the address names.  A switch, with
`__svgalib_cursor_restore` at its end, may come between any two steps of a call.  A wary program locks the calls of
the software cursor that draw, hides a hardware cursor with 0 only, and keeps away from what section 5 lists.

### Timing and Synth

The table of standard timings, the synthesizers' constants and the limits are the code's; arithmetic is its integer
arithmetic, in registers of their width, at every depth.
`__svgalib_getmodetiming` with `findclock`, `vga_guesstiming` and `vga_changetiming` are operators and actions on `current_timing`
and `force_timing`.  A card (`TimingCards`) has its `CardSpecs`, with the mappings of clock and counts as fractions, the depths its
`modeavailable` refuses, and a layout for each number of bytes to a pixel: for each count its unit, its bits, what is
subtracted, and which count it is kept relative to.  `Synth` and `Synths` compute each driver's dividers by its own search; `Fit`
puts with a card the clocks made for all it can be asked.  `Programmed` reads
the registers back the way the hardware does (`Decoded`).  A wary program avoids the modes for which a driver is known to fail
(`Sound`, section 5).

### Card

A driver is a record (`Registers`): the units its `saveregs` reads and `setregs` writes, what a mode puts in them, and
where the bits of a page, a start and a width go.  A unit is a bit where two functions
share a register, a register where they do not.  `Card` is `vga.c`: `vga_setmode` in its three cases (text; a standard
mode; a mode of the driver, with the text's extended registers set in between), the selecting calls with
what the library notes of them, and flipaway and flipback with `savestate` and `restorestate`'s order
of linear memory, copying, width, page and start.  A register's value is "text", a mode's name,
or "0" and "1" of a number; "junk" is a value nothing has put there.  The records give one chip and memory size for each driver
and name what they leave out.  `lost` lists the bits a driver does not bring through; each is a
failure listed in section 5, and a wary program does not use them.  A register that only some modes write
(`fast`: at fast clocks, in deep pixels, interlaced or without a programmable clock) is what makes the text's registers in between necessary.  The detour of an ET4000 through
640x480x256 (`vga.c:1921`) is left out: it sets what is set again.

## 3. Runs

| Run | Specification and bounds | Shows |
|---|---|---|
| `careful` | careful program, patient user; modes g1, g2, g3 (g3 fails in the driver), two images, locks nested twice | refinement of `Screen`; the state in front; text on the other console, except when a release interrupts the program's own `vga_setmode(TEXT)`; no write to the card from the background; suspension; the buffer; the lock; and `CarefulInv`, the inductive invariant of the proofs (module `VTPatient`) |
| `wild` | careful program that flips, a user who switches at any moment, one mode | the handlers exclude each other, no grant under a lock |
| `live` | fair, patient user | a request is granted, the program resumes |
| `pages` | 3 pages, two contents, separate banks | the window is on the pages selected; memory holds what was written |
| `retraceopen` | three card users and one control user, no lock, signals; not preempted while they count | handler counts, however calls sleep in `request_irq` and `free_irq` |
| `retracecard` | four card users, one of whom opens and closes at any step of the others (`Preempted`); big lock, no signals, fair | no wake-up lost, every wait ends |
| `keyboard` | six keys, two events on their way, a patient user | no stuck key, no switch or SIGINT without its keys |
| `mouse` | four types (MouseMan, Microsoft, IntelliMouse, PS/2), three packets, two of which lose a byte, a buffer of 6 | events are whole packets and, without a loss, the buffer is not overrun; one mixed of two takes a loss in each; in step again with the next packet but one; buttons settle |
| `drawing` | `Raster`: 8 x 3 pixels in six kinds of mode, banks of 3 bytes (planes) and 28 (packed), two calls after the mode set. `VGAGL`: fourteen setups of 2 to 7 pixels by 2 to 6, pages of 16 bytes, one call on a picture, any number of frames. `Accel`: four drivers, 3 x 2 pixels, three calls, a queue of 3 | what is drawn is shown and read back; each memory holds the picture described, the accelerated one too; the monitor shows finished frames; lines are straight; the engine is idle when the console is left, the lock balanced, and no wait is for a hungry engine |
| `cursor` | a line of 3 pixels, two cursors of 2, two images, the library's; 15 cards, cursors 0 and 15, nine positions | the picture is kept under the cursor; the cursor is as asked for |
| `timing` | 24 drivers with two monitors, 7 modes of all depths, the standard table, up to two user timings out of 4 modelines and 2 guesses, one change | registers, clock, limits, and the choice of a timing |
| `cards` | 30 drivers, two modes, numbers of even bits, odd bits and none | text's registers, modes and selections over any sequence of calls and switches, and the invariant of the proofs, with the conditions it puts on each of the 30 drivers |

In `careful`, a fatal signal may come at any step (`DeadIsTextOutsideWindows`).  Where the code contradicts a
document the contradiction is in section 5.

### Why the bounds are enough

*Switching.*  What the code compares is TEXT against the rest, and one mode with another;
two good modes and a bad one give every outcome.  Two images tell a kept screen from a
cleared or a lost one.  A lock count of two tells nested from single.  The number of
switches and of nested handlers is not bounded: the state space closes.
`wild` and `live` have one mode because their properties are about control;
`wild` leaves out background running to keep the state space small (with it, 2.1
million states, everything holds as well).

*Paging.*  With three pages the first, the last and one in between differ; `N < M` is
needed for an offset only.  Nothing counts, so no run is cut short.

*Retrace.*  A lost wake-up takes two waiters and a third process that comes or goes; a
race of opens takes two, with a third that leaves.  `HandlersCounted` needs `Preempted` FALSE
as long as two processes open or close (section 5), `WaiterArmed` and `WaitReturns` need `InUse`.

*Keyboard.*  `QueueMax` = 2 events not yet handled with a buffer of two lets a switch
find an event behind it in the buffer and in the kernel's queue.  Six keys are one of each role; a
second Control key would only bring in the shared flag described below.

*Mouse.*  `PacketMax` = 3: the packet a byte is lost from, one misread because of it and one to be in step.
`LossMax` = 2 lets two of them lose a byte.
`BufferSize` = 6 (256 in the code) holds a damaged packet, the next and the start of a third, and cuts reads off in the middle of packets.
The types have a packet of three bytes and of four, with an optional byte and
without, checked data bytes and data that look like a header.  The run has no deadlock check: the mouse stops
after its packets, and a waiting read stays.

*Raster.*  With 4 pixels to a byte and a `Width` of 8 a run begins, ends and splits at every offset of a byte; banks of 3 bytes
of a plane and of 28 packed bytes end in the middle of a line, and in the middle of a pixel of three bytes.  `CallMax` = 2: what one call leaves
in the registers meets every other call.  No deadlock check, as the calls are counted.

*vgagl.*  `Segment` = 16 has 65536's remainder of 4 by 12 (the assumption): a page ends after a whole number of pixels of four bytes and of two, and within one of
three bytes.  Lines of 5 to 12 bytes end before, on and behind it, with padding and without.  Every box of the screen
is drawn, also a pixel outside on either side, with the whole screen as the window and with a smaller one, and every box is
copied to every place.  Lines go from every point within to every other in 7 x 6 pixels, and from some outside.
`SkipMax` and `CountMax` of 2 (254 and 255) make a row of a mask several runs.  A call depends on what is in memory by the values it moves
only, so one on a picture of distinct pixels shows what any sequence of them does.  No deadlock check, as the calls are counted.

*Acceleration.*  The colors are set at the start and the console perhaps locked, so that three calls are a change to background, a blit, and another or
a register written under it; a fourth call with fewer operations adds states and nothing else.  A box of 2 by 2 and copies onto the next pixel and
onto the line above overlap in both directions.  A queue of 3 fills up.  A switch may come at any step, any number of times, one fatal
signal too.  No deadlock check: calls are counted, and the dead stay dead.

*Cursor.*  A cursor of 2 on 3 pixels lies within the screen or across its border, and two of its positions
overlap; the images differ in a pixel.  Of a card's cursors the first and the last are used, at coordinates that set every second bit
of the lower ten, or the others (341, 682), or none; drawing is left out.  Calls and switches are not bounded.

*Timing.*  The resolutions have several standard timings, one or none, doubled lines, halved columns, interlace, and
counts beyond the VGA's registers; two user timings of equal and of different clocks compete.  `UserMax` = 2, `ChangeMax` = 1: a
change of a change adds nothing but larger numbers.

*Cards.*  What is asked is always a set of bits, and no code looks at two bits of a number together: even, odd
and no bits distinguish a bit misplaced by one, one kept and one cleared.  Two modes, one of which writes the registers that only some do.  The
sequence of calls and switches is not bounded.

### Fairness

*Switching.*  A process that can run does, so every context's step is strongly fair
(a handler on top disables it again and again), signals are delivered, and a handler's
sleep in VT_WAITACTIVE ends with the console.  The program gives up its locks
(`SF(vga_unlockvc)`) and flips back what it flipped: `vga_lockvc.3` asks for the first, and without it
no deferred request could be answered.  The user is not fair: consoles may never
be switched.

*Retrace.*  The kernel's code runs on, the screen is refreshed and interrupts are delivered
(weak fairness), and a process woken again and again gets the lock
(strong fairness of `Wake`).  That processes call WAITRETRACE is not assumed.

## 4. Proofs

| Theorem | Statement | Rests on |
|---|---|---|
| `VTSwitchProofs!TypeCorrect` | `Spec => []TypeOK` | one lemma per routine |
| `VTSwitchProofs!Inductive` | `Spec => []IInv` | `IInv` |
| `VTSwitchProofs!HandlersExclude` | `Spec => []FlipsExclude`: flipaway and flipback never work at once in the two handlers | `IInv` |
| `VTSwitchProofs!NoGrantUnderLock` | `Spec => GrantsUnlocked`: no release is granted under `vga_lockvc` | `IInv` |
| `VTSwitchProofs!LockKept` | with `Patient`, `Spec => LockHolds`: the console is never given away under `vga_lockvc` | `IInv`, `Handshake` |
| `VTSwitchProofs!CarefulInductive` | with `Careful`, `Patient`: `Spec => []CarefulInv` | `CarefulInv` |
| `VTSwitchProofs!Hidden`, `Shown`, `Unscribbled`, `Released`, `Matched`, `DiesInText` | with both: `Spec => []P` for `SuspendedWhenHidden`, `ShownInFront`, `NoScribble`, `ReleasedIsText`, `BufferMatched`, `DeadIsTextOutsideWindows` | `CarefulInv` |
| `VTSwitchProofs!TransparentSwitching` | with both: `Spec => Transparent`, `VTSwitch` implements `Screen` | `CarefulInv` |
| `PagingProofs!PagesKept` | with `Careful`, `Spec => [](PageSelected /\ CacheTrue)` | `IInv` |
| `PagingProofs!PictureKept` | with `Careful`, `Spec => []MemoryKept` | `IInv` |
| `RetraceProofs!NoLostWakeup` | with `InUse`, `Spec => []WaiterArmed` | `IInv` |
| `RetraceProofs!HandlersMatch` | with `OneOpens`, `Spec => []HandlersCounted` | `HInv` |
| `ConsoleProofs!NothingSticks` | with `Calm`, `Spec => []NoStuckKey` | `KInv` |
| `ConsoleProofs!NothingUnasked` | with `Calm`, `Spec => Deliberate` | `KInv` |
| `ConsoleProofs!PictureIsKept` | with `Wary`, `CursorSpec => []PictureKept` | `SoftInv` |
| `ConsoleProofs!SavedUnderCursor` | with `Wary`, `CursorSpec => [](Software => SavedUnder)`: what the library's cursor keeps is the program's picture | `SoftInv` |
| `ConsoleProofs!CursorAsAsked` | with `Wary`, `CursorSpec => []AsAsked`: the cursor of the library, or of any of the 15 cards, is as asked for after any switch | `SoftInv`, `HardInv` |
| `MouseProofs!WithinBuffer` | the index is within what was read, and without a loss that is within the buffer, of any size from 4 | `InBounds`, `InStep` |
| `MouseProofs!PacketsAssembled` | `Spec => []Assembled`: without a loss every packet becomes one event, whole and in order | `Ordered`, `InStep` |
| `MouseProofs!Contained` | `Spec => []LossContained`: what a lost byte may cost, where headers are marked: Microsoft, MouseMan, MM series, IntelliMouse, and nothing of PS/2 and IMPS/2 | `Ordered`, `Ascending`, `Caught` |
| `MouseProofs!ButtonsSettled` | `Spec => []ButtonsSettle` | `InStep`, `Tells`, `Truthful`, `MiddleKept` |
| `TimingProofs!Reported` | with `Wary`, `Spec => []CurrentTrue` | `Inv` |
| `TimingProofs!HighestClock` | `Spec => Chosen`: the timing of the highest clock, the user's first | `Listed`, induction along the list |
| `TimingProofs!WithinMonitor` | `Spec => []Suitable`: the timing shown is within the monitor's range and of the mode's size | `Listed` |
| `DrawingProofs!EngineGuarded` | with `Gentle`, `DrawingSpec => []Guarded`: under switches, SIGINT and, but for the step that copies a bitmap's data, other fatal signals, the engine works behind nobody's back, and each lock is given back once | `AccelInv` |
| `DrawingProofs!NobodyStuck` | with `Gentle`, `DrawingSpec => []Mortal`: no wait is for a hungry engine, whatever SIGINT interrupts, and whatever another fatal signal does except the copying of a bitmap's data, where it hangs (section 5) | `AccelInv` |
| `DrawingProofs!AnyLine` | any two points, any window: `Exact(Traced(clip, p, q))`, what `gl_line` draws is the line | `Near`, `Stage` |
| `DrawingProofs!LinesTrue` | `DrawingSpec => []LineTrue` | `AnyLine`, `GLInv` |
| `CardProofs!TextRestored` | if every driver `Restores`, `Spec => []TextWhole` | `Noted`, `TextInv` |
| `CardProofs!ModeRestored` | if every driver is `Steady`, `Spec => []ModeWhole` | `Noted`, `ModeInv` |
| `CardProofs!SelectionsRestored` | if every driver is `Selectable` and the program `Wary`, `Spec => []SelectionsHold` | `Noted`, `SelectInv` |
| `CardProofs!CardInductive` | with all of these, `Spec => []IInv` | the four parts |

They hold for every set of modes (those the card rejects among them), images, pages, contents, processes, keys, packets,
losses, lists of timings, drivers, cursors and numbers, every nesting of locks and, where the table names no condition, every program style and a user as
impatient as can be.

*Switching, any program.*  Neither property is inductive.  That the forbid flags keep the handlers
apart needs to be known together with where each handler can be and in what
order they interrupted each other: a SIGUSR2 that interrupts a SIGUSR1 returns
before the latter goes on.  `Stacked` says that what is running is on top of a chain of
distinct handlers that ends in `main` (`Chain`), `Placed` that each handler runs its
own code and returns to it from `vga_setmode`, `Forbidding` that a flag is set while its
flip is under way, `GrantingUnlocked` that the lock count stays zero from the
test to the answer, because only `main` changes it and `main` is below or
is itself the one that answers.  The preservation proof groups the actions by
what they do to the control variables (advance, return, interrupt) and goes through the chain
once for each.

*Switching, a careful program.*  The other properties of `VTSwitch` are false of an impatient user or of a program
that flips outside a lock (section 5), so their theorems assume a `Patient` user and, but for `LockKept`, a
`Careful` program.  Rejected modes, fatal signals at any step, background running and `vga_flip` remain.  `CarefulInv` has these parts
beside `IInv`:

* `Handshake`: a request of the kernel is in one place at a time (a signal on its way, a handler at work, or the
  flag of a request put off), and there is none while a return is.  Hence an acquire's VT_ACKACQ can complete no request: `LockKept`.
* `Bracketing`: what a switch would upset is done under `vga_lockvc` and in front; `app_bg` holds from the first step of a
  release to the last of an acquire.  `Hidden` follows.
* `Buffering`: there is a save buffer exactly while a flip or a switch has the screen saved, of the kind
  that the code which frees it expects, and the windows point at it exactly in the background: `Matched`, `Unscribbled`.
* `Arguments`, `Choosing`: what each `vga_setmode` at work was called with, and when `CM` may differ from it, because a switch
  interrupted it or the card rejected the mode.
* `Settled`: the card, the console's KD mode and the output agree with `CM` but inside a `vga_setmode`: `Shown`, `Released`.
* `Flipping`, `Dying`: `flip` is set within a flip only, and once a fatal signal's handler has seen to `CM` nothing but an acquire right above it
  can set a graphics mode again: with `DeadOnTop`, `DiesInText`.

Each part is shown to be kept by the steps of each routine, in most cases by one lemma for a context's own step and one for
a step of another context.  The refinement maps `Screen`'s mode and image to `ScreenMode` and
`ScreenImage`, which are the card's or, while a switch or a flip has the screen saved, the save buffer's.  The program's own `vga_setmode` is
`Begin`, one or more `Choose` and `End`; its drawing is `Draw`; every other step, of handlers, flips and the user, is shown to leave
the mode and the image as they are (`Same`), for which `CarefulInv` says at each of them where the image is.

*Paging.*  `Careful` is what a program must do: lock around its page calls, leave the
page offset alone, and either use a linear mode or select a page once.
Each part is needed: see section 5.
`InCall` says what is true inside each call of the steps done so far, `InSuspension` that
the saved numbers are the program's while it sleeps, `Contained` that memory is right at all
times; `Stands` makes precise when a cached number may be missing.

*Retrace.*  `InUse` is a card one process keeps open, the big lock, no signals, and `OneOpens`: no process is preempted while it
counts, or only one opens and closes.  `OneCounts` follows: whoever counts has read what `opencount` still is, and that is the number of `Opened`.
`Exclusive` says the lock is held between the points where the kernel may sleep, `Reported` that a woken
process still finds `vsync` clear, so that it does not turn the interrupt off under another.
`StaysOpen` keeps the handler registered: its cardinality argument uses that the set
of openers gains or loses one element at a time.  `HandlersMatch` needs `OneOpens` of `InUse` alone: `Balance` says it of `Registered`, the processes
the count told of when it was tested last, so that it holds in the middle of a count too, and
that the two kinds of process make different calls; each step then moves one process between the three sets that are counted.

*Keyboard.*  `Calm` is a patient user, no other process that switches consoles, and no Windows keys: what section 5 says goes wrong
otherwise.  `Recorded` says that each event on its way starts from the keys the event before it left held, that the last one
leaves the keys held now, and that an event which makes the program switch is the last, because the user then waits: dropping the
buffer drops nothing.  `InStep` says that whatever the program believes pressed is held before the first event it has not seen.  While
the console is being left, or is away, nothing is on its way and nothing is believed pressed.

*Cursor.*  `CursorInv` is one invariant for the library's cursor, `SoftInv`, and one for a card's, `HardInv`.

* A wary program locks the calls of the library's cursor that draw, so that a switch finds none of them; but a call goes on in steps, and the picture under it is
  right at its end only because every step was taken.  `SoftwareTodo` lists what can be left of a call, and `SoftPicture` says at each what of the picture is
  hidden and what is saved (`Outside`, `Under`, `Clean`).  The other calls are not locked; a switch moves the cursor to the place noted, as a call would (`MovedShown`, `MovedHidden`).
* A call to a card's cursor may be interrupted at any step.  `Noted` says that what the library notes is what was asked for, but for the number that the next step will
  note; `InPlace` and `InImage` that the card is as noted, but for what the next step will tell it.  A switch loses the registers and perhaps the images, and
  `__svgalib_cursor_restore` makes them from the notes (`Refills`): the card is then ahead of the call, and the call's last step changes nothing.
* What a driver must get right for this is `Apt`: no bit of a register has two uses, the bits of a place that a driver writes are those by which the card finds
  the image, cards that get all the images at once have a place for each, and the coordinates fit.  It speaks of the tables of `HwCursors` alone, is a part of `CursorAssumption`, and is evaluated by the run
  `cursor` for the 15 cards, all 16 numbers and all coordinates below 2048 (`Coordinates`): the theorems hold for any of these.

*Mouse.*  What was read and is not used up, followed by what is still to be read, is one sequence, `Stream`.  Reads, sleeps and returns
change it only by dropping its first bytes, so that the invariants speak of `Stream` and of `i`, the place of the driver in it, and hold
wherever the reads split the line.  `Ordered` is what arrives: the bytes of each packet in their order, one of them perhaps missing.

* `Caught` says where the driver is after a loss: a packet that came whole, and after one that did, is told, or the driver is still
  before it and will meet its header, `Ahead`.  That the check of the data bytes never steps past a header needs the order of any two bytes (`Ascending`).
* `InStep` says, without a loss, how many packets have been told and that the driver is at the first byte of the next, or
  at the late byte of a MouseMan's last one.
* `Tells`, `Truthful` and `MiddleKept` say what the bytes tell of the buttons: a MouseMan sends three bytes only if
  its middle button is off and was, so the button told last is right though a packet may not mention it.

*Acceleration.*  What is still to do, `todo`, is itself a program, and a signal puts another before it at any step; no condition on the variables alone tells
where it will end.  `AccelInv` therefore follows it: there is a sequence of what is known (`State`: the locks, `CRITICAL`, the background mode, whether the engine
has finished or waits for data, whether the console is away) that begins with the present (`Matches`), in which each step of `todo` may be taken where it is met
(`Allowed`) and makes of it the next (`Makes`), and that ends at rest or in death (`Resting`).  `Guarded` and `Mortal` are read off its first and last element.

* A step that is done drops the first element; one that puts others in its place (`leave`, `sync`, `critical`, an unlock that lets a deferred switch
  happen) is shown to lead where it led before (`Kept`).
* A switch leads back to where it began (`SwitchLeads`), a fatal signal to death, after which anything may stand (`LeadsDead`).
* A signal finds no hungry engine: whoever left one so is about to copy the data (`HungryFeeds`), when `Gentle` admits no signal but SIGINT, and `Fed` says that
  the data are followed by the end of the block of SIGINT and by no other beginning (`HungryBlocked`).
* A call's body only has to lead from a locked console to a locked one (`Works`), which holds of each
  driver's sequences piece by piece; what encloses it takes and gives the lock (`OtherReturns`, `MachReturns`, `OldReturns`).

`AccelInv` speaks of sequences of such states, which TLC cannot enumerate; the run `drawing` checks the two properties themselves.

*Lines.*  The walk and the clipping are functions defined by recursion on the number of steps and of turns (`WalkUnfolds`, `ClipUnfolds`; `Ascent` is
induction for a set of numbers).

* `Near` is the walk's invariant: after `i` steps along the longer axis and `k` along the other, `d` says how far the pixel is from the line, and that is at most
  half a step, the tie going to the side that `Steps` chooses by the direction.  Only one `k` is near for an `i` (`NearUnique`), and it is near seen from
  the other end too (`NearBack`): so both ends are drawn, the pixels are as many as the steps and one more, and the line backwards is the same
  (`EndsDrawn`, `PixelsCounted`, `SameBackwards`).
* `Tilt` measures how far a point is off the line from which the clipping began, with a sign.  `Stage` says how far the clipping has come: the first end is brought into the columns of
  the window, then into its rows, and then the other end; each move truncates a quotient toward the end that stays and so takes `Tilt` to one
  side only, by less than one pixel along one axis (`Rounded`, `Shared`, `EndMoves`).  When an end has moved to a side and misses the window both ends are beyond another side,
  and the next turn finds the line outside.  Hence the loop ends, after six turns at most; the model gives it nine.
* Between ends that are off by `z` the walk is off by `z` and half a step (`PixelsBeside`), and a window is convex (`PixelsBetween`).

The proof corrected the property.  What the model claimed before of a clipped line, that no pixel is off by more than one and a half times the longer axis (in the
measure of `Exact`), is true of the screen of the run and false of larger ones: the second move starts where the first one rounded.  `Exact` now has the bound that holds: half a pixel
of the walk and one pixel along each axis.

The arithmetic is that of whole numbers.  `muldiv64` computes in `float` (`line.c:17`), whose quotient truncates to the same number as long as
the product of the two factors stays below 2^24, that is for lines within 4096 by 4096 pixels.

*Timings.*  The searches of `search_mode` and of `find_timing` are functions defined by recursion on the place in the list.
`Climb`, induction for a set of numbers, shows that such a function exists and satisfies its equation (`SearchUnfolds`, `FindUnfolds`), and again
that what it returns is the first of the timings of the highest clock (`SearchFinds`).  `CurrentTrue` is not inductive: a
return from the other console sets the mode again, and were its timing refused by the driver `current_timing` would be left on what was refused.
`Remembered` says that for the mode shown or to come back to a timing will be chosen that its driver takes, `Trusted` that the user's list
has no other where it can be used; the list only grows, and a longer list finds something wherever a shorter one does (`ListGrows`).
`TimingsAssumption` asks that the modelines and guesses are timings of positive totals, and the monitors' limits are given.

*Drivers.*  Each property has a condition on a driver's record alone; together with it the property holds in any state that the calls can reach.
`Noted` is common to all: what the library notes is of the mode set or saved, and the program's own numbers.

* `Restores`: the registers outside the VGA's own and
  outside `saveregs` and `setregs` (the loose ones) are touched by nothing but page and start calls, and no start
  the program may use puts a 1 there.  `LooseAsText` says that a loose register of the page differs from the
  text's only while the library remembers a page in a mode of the driver, which is when `vga_setmode` selects page 0 on its way out.
* `Steady`: the registers a mode takes over from what `saveregs` read (`Taken`) are cleared by no standard mode and selected by no
  call, and what calls and the copying of a switch clear, the mode has cleared as well.  `ModeInv` says that the registers are
  those of the mode, and that out of the driver's modes those it takes over are the text's.
* `Selectable`: the numbers the program may use come `Through` a call whole, into registers that no other call writes a 1 to or
  clears (`Apart`), and a mode sets the width and clears the start.  `SelectInv` says that the registers show what is noted, that what is noted is what was asked
  for, and that out of the driver's modes no start and no window is left that the next mode would not clear.

The conditions are conjuncts of `IInv`, so that the run `cards` evaluates them for each of the 30 records; the theorems then
hold for those drivers with any modes, any numbers in the ranges, and sequences of calls and switches of any length.

TLC checks `CarefulInv` (with the `IInv` of `VTSwitch` in it) in `careful` and the `IInv` of `Card` in `cards`; those of
`Paging`, `Retrace`, `Keyboard`, `Cursor`, `Mouse` and `Timing` only say in parts what the proofs establish, and their runs check the properties.

Only model-checked:

* liveness (`RequestGranted`, `Resumes`, `WaitReturns`), which is out of the prover's reach;
* what a picture is made of, `Drawn`, `Pictured`, `Shown` and `Blitted`: they compare folds over the pixels of a call with
  what it means, in six kinds of memory;
* `Programmed` and `InMonitor`: they compare numbers of given tables (registers' layouts, synthesizers, the table of timings), and so are
  facts about those 24 drivers, which the run goes through.

## 5. What is known to fail

These were met while modelling, and no run contains them: the runs check what holds without them.  The
constants named make a configuration find the first ones; the drivers' are `lost` in the records.

Contradicting a sentence of the manual or of a comment:

* `doc/man3/vga_runinbackground.3:184`: `vga_setmode` "cannot change modes while in
  background".  It does not ask (`vga.c:1888-1917`) and programs the card under the
  visible console (`VTSwitch`, `Style` "any").
* `doc/man3/vga_runinbackground.3:19`: the program "is suspended while not in the current virtual console".
  `vga_runinbackground(0)` waits for the console (`vga.c:4084`) and then clears the flag; after a release in between
  the program runs on in the background: `SuspendedWhenHidden` fails with "any".
* `doc/man3/vga_runinbackground.3:122`: switching "is disabled" while registers are used.
  `vga_setpage` sets the bank and then two cached numbers (`vga.c:1743-1763`); a switch in between restores the
  old page and the new number is cached: `PageSelected` fails with `Locks` FALSE.
* `doc/man3/vga_oktowrite.3:11`: "indicates whether the program is in the console currently visible".
  The flag is cleared only when the program is suspended (`vga.c:1517`), so a
  background program, the only one that can ask, is always told 1.
* `doc/man3/vga_lockvc.3:3`: "disables virtual console switching".  The acquire handler answers
  VT_ACKACQ without looking at `lock_count` (`vga.c:1540`), and the kernel takes
  that as consent to a request made meanwhile: `LockHolds` fails with `Patient` FALSE.
* `vga.c:1093`: "restore text mode and exit".  `restoretextmode` asks for text mode only if `CM` is not TEXT
  (`vga.c:1097`), and `vga_setmode(TEXT)` changes `CM` first: a fatal signal inside it leaves
  graphics.  `DeadIsText` fails; `DeadIsTextOutsideWindows` is what remains true.
* `doc/man7/svgalib.7:32`, "transparent virtual console switching".  `vga_setmode` puts the window on page 0 and forgets it
  (`vga.c:2150`), so a switch before the first `vga_setpage` comes back on the last page copied: `PageSelected` fails
  with `Selects` FALSE.  With a page offset set for off-screen drawing, `savestate` and `restorestate` add it to
  the pages they copy and lose the visible ones (`vga.c:2632`, `2733`): `MemoryKept` fails with `Offsets` = {0, 1}
  and `M` = 4.
* `doc/man3/keyboard_clearstate.3:15`: key states are reset "when a VC switch occurs".  They are reset only
  for a switch asked for on this keyboard (`keyboard.c:610`): `NoStuckKey` fails with `Others` TRUE.  And all flags but the
  Windows keys' are (`keyboard.c:720`): with one in `WinKeys`, `Deliberate` fails.
* `doc/man3/vga_clear.3:11`: "sets all visible pixels to 0".  In 16 colors `vga_clear` means to enable all bits but writes
  register 8 of the sequencer, not of the graphics controller (`vgaclear.c:44`), and clears only what the
  last pixel left enabled: `Drawn` fails with `Wary` FALSE (`Raster`).
* `ms.c:67`: the wheel's delta is for when it "is turned".  `drx` is reset once for each call (`ms.c:665`), so packets read after
  a turn report it again: `WheelTrue` fails with `WheelTurns` TRUE.
* `doc/man3/vga_changetiming.3:13`: "No checks are made".  A timing beyond the monitor's limits is refused
  (`timing.c:265`); one beyond the card's is not.
* `timing.c:310`: "We know a close enough clock is available".  `apm` finds no dividers for 18, 36 and 108 MHz.

No document promises otherwise in the following cases.

*Switching.*

* With a user who does not wait, `ReleasedIsText`, `ShownInFront`, `NoScribble` and
  `BufferMatched` fail: a release taken up by `vga_unlockvc` runs with SIGUSR1
  unblocked and can be doubled; an acquire can come between the clearing of
  `forbidvtacquire` and of `oktowrite`; VT_ACKACQ can complete a new request.
  `doc/man7/svgalib.7` warns of problems when consoles are switched back and forth fast.
* A program that runs `vga_flip` outside a lock shares `flip_mode` and the save buffer with a
  switch, and loses its screen.
* Linear memory stays noted as on over `vga_setmode`, so that a switch back enables it in a later mode of pages
  (`vga.c:2580`, `2660`, `vgamisc.c:108`).  In Mode X and 16 colors `vga_setdisplaystart` uses the VGA's function
  (`vga.c:2903`), the switch back the driver's (`vga.c:2757`).  A switch loses a timing `vga_changetiming` made.

*Helper and keyboard.*

* `opencount` is counted and tested under no lock (`main.c:462`, `482`).  Two opens that both test 2 register no handler, and two closes that
  both test 0 free it twice; two that read the counter together lose one of the counts, and with it the handler of a
  device that is still open.  `HandlersCounted` fails with `Preempted` TRUE and two processes that open.
* Two processes waiting for the retrace and a signal to one of them; a wait on the control device
  together with one on the card's; a wait without the big lock; the last
  close racing an open: each can leave a process asleep until the next interrupt is enabled by
  somebody else.
* Typing on while a switch is under way can leave a key stuck: the rest of the buffer is dropped, what the
  kernel has queued is handled after the switch.
* Left and right Control (or Alt) share one flag: the release of one ends the effect of
  the other.  `keyboard.c:601` adds 12 for the Windows keys to the loop variable after the console
  number was taken, to no effect.

*Mouse.*  `mouse_setscale` tests the old scale for zero (`mouse.c:356`); a wrapped coordinate is corrected once
(`mouse.c:185`); a change of the range leaves the position outside until the next event (`mouse.c:303`); a failing `read` counts as a byte
(`ms.c:743`), and the byte it should read is stored behind the buffer if that is full of
bytes that made no event: with a `BufferSize` of 6 one loss is enough, with 256 it takes as many bytes of noise; a Wacom's buttons are read through a `?:` that binds looser than `|` (`ms.c:802`).  A PS/2 mouse's
data can look like a header, so that after a loss it may stay out of step.

*Drawing.*  `vga_getpixel` in Mode X selects the plane to write instead of the one to read (`vgapix.c:119`), and
`vga_getscansegment` in two colors writes register 4 of the sequencer for that of the graphics controller (`vgadraw.c:500`).  In the misordered modes only
`vga_drawscansegment` swaps red and blue.  Scan segments in 16 colors and Mode X take a line to be
`xdim` wide, not `xbytes`, and reading one in 16 colors may look past a page's end.  `vga_clear` leaves another color selected.

*vgagl.*

* `getboxpart` of two and three bytes counts the part's place in pixels (`driver.c:578`, `1075`): a cut `gl_getbox` lands in the wrong place of the pixmap, and so
  does a cut mask, which is emulated by it.  `Pictured` fails with `Prudent` FALSE.
* `gl_line` writes the three bytes of a pixel with one page selected (`line.c:204`): a pixel across two pages loses its end.  `Pictured` fails with `Prudent` FALSE.
* `gl_copyboxtocontext` and `gl_copyboxfromcontext` put a pixmap of which a cut source filled only a part (`grlib.c:924`); without clipping, 32 bits to a linear 24 ignore the
  screen offset (`grlib.c:938`); and a line of no whole number of pixels is rounded down (`grlib.c:919`).
* `gl_copyscreen` computes the page's offset from the virtual screen's height and its start from the screen's (`grlib.c:762`, `883`); heights that differ do not
  meet.  For 1024x768 in 16 colors it returns without setting the start (`grlib.c:784`).  `gl_enablepageflipping` called again goes back to page 0, whatever is shown.
* Whether a mode can flip is counted in pixels, though its lines may be padded (`gl_setcontextvga`).
* `driverplanar256_putbox` divides the column but not the row's width by four (`driver.c:1297`).  `gl_rgbcolor` shifts colors in reversed 24-bit modes, since `MODEFLAG_24BPP_REVERSED`
  and `MODEFLAG_32BPP_SHIFT8` are the same bit (`vgagl.h`).  In a build without assembler `__svgalib_memcpy4to3` prints a
  message (`mem.c:12`); the model has what `mem.S` does.

*Acceleration.*

* `vga.c:1133`: "I hope the PutBitmap functions disable interrupts".  SIGNALBLOCK blocks SIGINT alone (`accel.h:169`); any other of the signals caught
  in the middle of a bitmap's data makes the handler wait for ever: `Mortal` fails with `Gentle` FALSE.
* `accel.h:151`: colors, operation and transparency "are preserved".  A mode set, also that of a switch, resets operation and background mode of the ARK and the
  Cirrus (`accel.c:18`) and leaves their color registers to whatever the other console's program wrote: `Blitted` fails
  with `Gentle` FALSE.
* The ARK writes colors and operation without waiting for a blit in background (`ark.c:1317`, `1375`).
* A switch between `CRITICAL = 1` and `vga_lockvc` (`mach32.c:3631`) clears the flag: the driver then draws without it, and nobody waits for
  the engine when the console is left.  BLITS_SYNC unlocks a console the driver did not lock (`mach32.c:4026`); the old calls, and an image that is emulated, clear
  `CRITICAL` of a blit in background, whose lock stays for ever.  `Guarded` fails with `Gentle` FALSE.
* `mach32_accel` compares the operation with `<= sizeof` its table (`mach32.c:3667`), one too many.

*Cursor.*  `vga_showcursor(2)` on a hardware cursor is not what a switch brings back (`vgacursor.c:259` looks at bit 0).  A
switch in the middle of a move or a show of the software cursor leaves a ghost.  The acquire handler may read an image that `CURSOR_IMAGE`
has just freed (`vgacursor.c:191`, `257`).  A driver that refuses CURSOR_INIT (`ark.c:621`) falls back to the software cursor without its
buffer (`vgacursor.c:247`); `ark` and `et6000` refuse always, so that what they do with a cursor is never used.  A cursor that is already selected and given
another image keeps its old colors on the screen, with `pm2` the old image too: both reach the card with CURSOR_SELECT only.  `mx`
falls from CURSOR_IMAGE into CURSOR_SELECT (`mx.c:514`): it shows whatever image was set last, also after a
switch, and reads through NULL when a cursor without one is selected.  `sis` halves the line (`sis.c:644`).  A mode set with the software cursor shown pastes old pixels when it is hidden.  In the background the calls
write the card's registers.

*Timings.*  `sis_300` leaves its dividers unset below 18.75 MHz (`sis.c:1388`) and takes bits of the vertical sync for the
horizontal (`sis.c:405`); the old Tridents' code calls `exit(1)` when no clock fits (`trident.c:521`);
`vga_hasmode` changes `current_timing` (`timing.c:387`).  Two standard timings have 768 visible lines in a total of 625 (`timing.c:113`, `115`), and
that of 960x720 interlaced a sync of more lines than its register counts.  The i810 and the i740 have 8 bits for the visible columns and the
sync's start.

* Clocks.  `radeon` takes 16.67 MHz for anything below (`r128.c:1024`), the G450 finds no dividers below 16 MHz, the Ti3026 of
  `millennium` takes the feedback divider with the smallest remainder, 3 % off at 28.35 MHz, `i740` cuts to a whole MHz, `rage` leaves its
  dividers uninitialised when none fits, and `et6000` asks for 3 or 4 times a clock that it allows up to 160 MHz and can multiply to 230.
* Limits.  `g400.c:845` falls through to the limits of a G100; `laguna`'s switch over chips always ends with the last one's; `apm_chiptype` is never set; the
  memory of a Savage3D is left unset, since its switch compares shifted bits with unshifted values.
* Interlace.  `apm`, `pm2`, `rendition`, `neo` and `unichrome` set no bit for it; the first three halve the lines as well.
* Counts.  `unichrome` takes bit 10 of the vertical sync from the display's end; the porches of `rendition` are wider than its fields.
  `millennium` rounds the pitch up to 128 bytes and leaves the line's width: modes of 400 and 576 columns are skewed.

*Drivers.*  What a driver does not bring through, by what is lost:

* Width: `ali`, `et3000`, `gvga6400`, `oak` and some `tvga8900` are told units of 8 bytes where their modes hold units of 16; `ark`
  and `et4000` lose bit 11, `cirrus` halves it in 32 bits, `s3` (`s3.c:1290`), `savage` and `trident` treat upper bits differently from
  their modes, `apm` has none.
* Start: `ali` drops bits 0-2, `mx` 0 and 1, `apm` those above 19, `paradise` all but 16 and 17, `oak` bit 19; `i740` (`i740.c:627`) and `i810`
  always write 0 to CR0C and only set bits of the next byte; `ark` clears the vertical overflow bits of CR40; `gvga6400` looks at
  an uninitialised variable (`gvga6400.c:144`).
  `laguna` takes bits 10 to 14 of the start from the wrong places and writes to CR1D what it reads from CR1B (`laguna.c:444-448`); `millennium`,
  `rage`, `pm2` drop bits 0-2 and `et6000` 0 and 1.
* More of widths: `et6000` shifts the high bits out of the byte (`et6000.c:766`), `laguna` clears start bits with them, `millennium` rounds to 128 bytes.
* Page: not saved by `mx` (CR2E) and `oak` (the common segment), not restored to 0 by `apm`; above 1 MB `et6000` ORs bits 4 and 5
  of the page into the bank for reading (`et6000.c:607`).
* `chips` saves neither XR0C nor, in its newer kind, CR40, and clears neither (`chips.c:2211`, `chips.c:2214`): bits 18 and 19 of a start are
  lost on a switch and left over in text mode and in the next mode, and bit 7 of CR40 is only ever set.  The same kind's clock dividers are
  saved for the clock that text selects, not for the one a mode uses.
* Text mode: `ali`'s CR20 is never saved, nor is CR18 by any (`CRT_C` is 24); `oak` saves two registers from wrong indices (`oak.c:207-209`);
  `unichrome` does not restore CR23; `paradise` reads a byte past each mode's table.
* A mode is built in memory from `malloc` and parts of it are never filled in, but written to the card: the field `raw` of a record. `laguna` does so with
  GR0A and four ports, `rage` with its cursor, the DAC's indices, the VGA's pages and, like `pm2`, the palette, `r128` with `DP_DATATYPE` and `CLOCK_CNTL_INDEX`.
  `laguna` also writes B0 and 407 as words, over B1 and 408; `rage` never restores the DAC's mask; `et6000` only ever sets bits of PCI 57 and 58, keeps
  CR35 in the place of 57, and does not restore clock 6.
* Linear memory: `vga_setlinearaddressing` always passes 0, by which `et4000` disables it and `ark` sets its base to 0.

## 6. Plan

Done, in this order: `VTKernel` and `VTSwitch` with `Screen`, and their proofs; `Paging` and its proofs;
`Retrace` and its proofs; `Keyboard`; `Mouse`; `Raster`; `Cursor`; `Timing` and `Synth`; `Registers`, `Card`, the drivers' records, and the
first proof about them; `VGAGL` with `Framebuffer`, `Lines` and `Boxes`; `Accel`; `VTPatient` with the proofs of the
handshake, of the careful program and of the refinement; the proofs of `Keyboard`; `CardInvariant` and the proofs of `Card`; the
proofs of `Mouse`, of `Timing`, of `Accel` of the lines of `VGAGL`, and of `Cursor`.

Next:

1. `Keyboard`: changes of the translations while a key is held.
2. `vga_safety_fork` as a second process with its own copy of the library's variables.

## 7. Not modelled

* The joystick: a device is read and an event reported; no state outlives an event but the calibration, typed in by hand.
* The helper's other requests: ports, PCI, mapping and display start keep nothing between two requests; the tables are
  filled when the module is loaded.
* `vga_safety_fork`: a second process would double every variable of `VTSwitch`.
* Of vgagl: text and fonts, scaling, circles, palettes, the planar contexts (Mode X and 16 colors), the accelerated boxes and pixels of reversed 24 bits.
* The demos, threeDKit, the utilities and lrmi: sequential loops over pixels in memory, examples,
  and a vendored interpreter of the card's BIOS.
* Of acceleration: lines, polygons, images, lists of lines and transparency colors, and the accelerators of `chips`, `et6000` and others.
* Of the modelled drivers: probing, palettes, external RAMDACs and clock chips, and every chip but one each.
* The drivers `mach32`, `rendition`, `ati`, `g450c2`, `vesa` and `fbdev`:
  `Card` speaks of units that are saved, set and selected independently.  These save through a BIOS or a frame buffer device,
  keep one number in registers whose use depends on another register's content, or, like `mach32`, have a display controller beside the VGA's,
  whose registers text mode does not look at and nothing restores.
* The GTF formula of `timing.c`, a computation in floating point; the parsing of the configuration file.
