# SO-BareBones in TLA+

SO-BareBones ("arquiOS") is a 64-bit teaching kernel: a BMFS disk image whose boot
loader (Pure64) starts a kernel with a module packed behind it, and that module is
the one user program, a shell. This directory holds TLA+ modules translated from its
source, the TLC configurations that check them on small instances, and theorems
proved with TLAPS. Paths below are relative to `src/RowDaBoat-x64barebones/`.

Run a model with `tlc -config MCHeap.cfg MCHeap`; check the proofs of a component with
`tlapm HeapProofs.tla` (likewise `KeyboardProofs`, `VideoProofs`, `ShellProofs`, `ExceptionsProofs`,
`ProgramProofs`, `BootProofs`, `BMFSProofs`). `PROJECT.json` lists the runs, what each is expected to
show, the source lines every definition stands for, and the hazards of the code.

## 1. The system

One processor, one user program, no privilege levels, no scheduler. The only
concurrency is between the code that runs and the handlers of IRQ 0 (timer) and
IRQ 1 (keyboard). All entries of the descriptor table are interrupt gates, so
a handler starts with interrupts off and runs to its end; but `int_80` begins with
`sti` (`Kernel/interrupts/interrupts.asm:129`), so a system call can be interrupted
between any two instructions. There are no locks. The kernel and the user program
are built without optimisation, so each use of a static variable is a load or a store.

| Component | State it keeps | Operations | Talks to |
|---|---|---|---|
| Memory manager, `Kernel/memory/mem_man.c` | free list threaded through the arena, `freeBytesRemaining`, `pEnd` | `RTOSMalloc`, `RTOSFree`, `initHeap`, `addBlockToFreeList`, `sbrk_handler` | system calls 14, 15 |
| Keyboard driver, `Kernel/drivers/keyboard_driver.c` | cyclic buffer, `endPosition`, `size`, four modifier flags | `keyboard_handler` (IRQ 1), `getLastInput` (system call 0), `getChar` (never called) | video driver (overflow message), `saveRegs` |
| Video driver, `Kernel/drivers/video_driver.c` | frame buffer, cursor, saved cursor, margins, `buffer[10]` | draw, new line, delete, delete line, scroll, clear, set and restore cursor, margins, numbers | called by system calls, by the keyboard handler and by exceptions |
| System calls, `Kernel/interrupts/int80.c` | none | dispatch of calls 0-16 | every driver |
| Interrupt routines, `Interrupt_routines.c`, `interrupts.asm` | `ticks`, `seconds`, the restart snapshot | timer, keyboard, exceptions 0 and 6, `get_key` | keyboard and video drivers |
| Descriptor table and PIC, `idt.c` | table, masks | `loadIDT`, `irqDispatcher` | interrupt routines |
| Clock and registers, `Kernel/lib.c`, `Kernel/asm/libasm.asm` | `regBData`, `regs`, `v` | `readSeconds/Minutes/Hours`, `saveRegs`, `getRegs`, `saveMemory`, `getMemory` | system calls 2, 4, 7 |
| Kernel start, `kernel.c`, `moduleLoader.c`, `loader.asm` | stack base, module addresses | `initializeKernelBinary`, `loadModules`, `main` | the image of the module packer |
| Shell, `Userland/SampleCodeModule/shell.c`, `Lib.c` | `terminalBuffer`, `buffersize`, command table | line editor, commands | system calls |
| Memory-manager test, `test_mm.c`, `test_util.c` | request table | `test_mm` | system calls 14-16 |
| Module packer, `Toolchain/ModulePacker/main.c` | the image file | `buildImage` | files, the module loader |
| BMFS tool, `Bootloader/BMFS/bmfs.c` | directory and blocks of a disk image | format, initialize, create, delete, read, write, list | files |
| Pure64, `Bootloader/Pure64` | machine tables | start of the processor(s), interrupts of the loader | the kernel |

In this commit `shell()` runs `test_mm` and its own loop is commented out
(`shell.c:198-207`); the shell's functions are still there, and are modelled with that loop.

### What is hard here

* The keyboard interrupt between two accesses of `getLastInput` to the buffer, and
  inside `draw_char`, whose cursor the handler's overflow message also uses.
* Stack-like reads (`getLastInput` takes the *newest* key) from a cyclic buffer whose
  count and iterator are updated separately.
* The free list: splitting, merging on both sides, double frees told by a bit in a
  header that may be anyone's bytes by then, arithmetic that must not wrap.
* The screen and the line editor's buffer, which must stay in step across deleted line
  breaks, scrolling, clearing, and the restart of the program after an exception.
* A clock read by three system calls while it runs, in four formats.
* A payload packed behind the kernel, where the kernel's own variables begin: what one
  program writes as bytes three others take apart, with nothing to tell them it is whole.
* The restart after an exception, which puts back two registers and nothing else: the heap, the
  stack above, the screen and the keyboard's flags stay as they were.

### What would make each component correct

* Memory manager: payloads inside the arena and disjoint, nothing refused that fits,
  a second free ignored, the count exact, no fragmentation left behind, every call returns.
* Keyboard: the unread characters are the cells below `endPosition`; the count may lose
  keys but never invents them; the buffer drains; the modifier keys that are down, however they were
  pressed and released, decide what a key types.
* Video: the cursor stays on the screen and on a column; a program that divides the screen
  with margins does not disturb its neighbour.
* Shell: what is shown after the prompt is what the command handler gets; the table of commands
  survives restarts; an address is read as it was typed.
* Clock: each reading is right, printed as it is, and a time put together from three is never ahead.
* Packer, image and loader: each module arrives at its address with the bytes it was packed
  with; a build that fails says so. BMFS: files never overlap.
* Test program: it finds no error in a right manager, frees what it got, and ends, restarts or not.

## 2. The modules

| Module | Models | State and actions |
|---|---|---|
| `Allocator` | what a memory manager promises: disjoint aligned extents, a refusal only when no gap is large enough | abstract; `extent`, `pending`, `answer` |
| `Heap` | `mem_man.c` | `mem` is the headers in memory (`next`, size, the top bit); `pc` marks the loop tests of `RTOSMalloc` and `addBlockToFreeList`; one step per iteration. Ghosts: `blocks`, `asked`, `live`, `stale` |
| `HeapProofs` | theorems about `Heap`, and that it implements `Allocator` | |
| `Keyboard` | `keyboard_driver.c` | `press`/`release` are a whole `keyboard_handler`; `call`, `testSize` ... `readBuffer` are the memory accesses of `getLastInput`. Ghosts, read by no guard: `unread`, `accepted`, `taken`, `lost`, `raced`, `spilled`, `expected`; `strayed` (a key took the iterator round to 0 after the test for 0); `held` and `toggled` (the modifier keys themselves, beside the driver's flags) |
| `Terminal` | `video_driver.c` as operators on a record (cursor, margins, pixels) | used by the modules below; FONT_SIZE is 1 |
| `Writing` | what the next two have in common: the strings programs write, the handler's message, the terminal | `tty` |
| `Console` | the screen system calls in any order, with the handler's message between them and inside `delete_line` | one action per system call; `deleteNext` is an iteration of `delete_line`. Its specification is `Spec` |
| `SharedCursor` | `sys_write` against the handler's message, one access of `cursor_x`/`cursor_y` at a time | `test`, `wrapX`, `loadDown`, ... are the accesses of `draw_char`, `scrollUp` ... those of `scroll`. `WriterSpec` |
| `Shell` | `shell.c` on `Terminal`, with the string functions of `Lib.c` | `letter`, `backspace`, `enter` (`command`, `dump`, `unknown`), `restart`; `commandList` is the table with its length |
| `Numbers` | `valueToBase` (and `uintToBase`, which is the same): both loops, as functions | no state |
| `Clock` | the conversions of `lib.c`, `Numbers` and `get_time` against a running clock chip (external) | `tick`, `read`, `again`. Ghost: `midnight`, whether it has come since the hours were read. `ClockSpec` |
| `Exceptions` | the interrupt routines: timer, keyboard interrupt, exceptions that read the keyboard port themselves, and the registers CTRL saves | `irq0Handler`, `irq1Handler`, `exception`, `printRegister` (one look at the port), `getRegs` (one word); keyboard, port, timer and interrupt controller are external |
| `Program` | the user program of this commit, `_start` and `test_mm`, from the kernel's call to its return, with restarts | one action per loop body; `rsp`, `stack` are the two cells that the saved stack pointer depends on. It composes with `Allocator` (`MM!Ask`, `Grant`, `Refuse`, `Release`), which `Heap` implements |
| `Packer` | `Toolchain/ModulePacker/main.c` against other programs that write the files it reads | one action per file operation; `HostFiles` says what a path may lead to. Ghosts: `packed`, `steady` |
| `Initialize` | `bmfs <disk> initialize <size> <mbr> <boot> <kernel>`, step by step, with failing reads and writes | `readSize` is a character, `copy` an `fread` and its `fwrite`. Ghost: `broken` |
| `KernelStart` | Pure64's copy of the payload, `loader.asm`, `initializeKernelBinary`, `loadModules`, `main` | memory from the kernel's address on, cell by cell |
| `Boot` | the three above in a row: the packer's file is the kernel of the image (`Image/Makefile`), and the image is what the machine starts from | `pack`, `write`, `image`, `start` |
| `BMFS` | `Bootloader/BMFS/bmfs.c` | a run of the tool is an action: `initialize`, `format`, `create`, `write`, `delete`. Ghost: `sound` |
| `VideoProofs` | theorems about `Console` and `SharedCursor`, which share the lemmas on `Terminal` | |
| `ShellProofs` | theorems about `Shell`, `Numbers` and `Clock` | |
| `KeyboardProofs`, `ExceptionsProofs`, `ProgramProofs`, `BootProofs`, `BMFSProofs` | the inductive invariant of the module of that name, and theorems about it | |

`MC...` modules give the constants their small values. Some definitions come in
pairs such as `Touch` and `Touch_Never`: the second is the first as a plausible
mistake would have it, and shows, when put in its place, which property notices.

## 3. The runs

| Run | Question | Bounds, and why they are enough |
|---|---|---|
| `heap` | Is the manager right under any sequence of calls, do the calls come back, does it implement `Allocator`? | An arena of eight granules of 64 bytes and requests of 0, 1, 65, 256 and 65535 bytes (with a 16-bit `size_t`): blocks are split, handed out whole (a remainder of at most two headers), merged left, right and both ways, refused for lack of bytes, for lack of a gap, and by each overflow test |
| `keyboard` | What do interrupts between the accesses of `getLastInput` do? | A buffer of two, three keys typed: it fills, overruns, and wraps in both directions; a letter, the space (which has no shifted character), a function key, which may type any byte, both shifts, CTRL and CAPS. A byte is 0, a letter in one of its cases, or another: the driver tells no more apart |
| `keyboard_last_input` | Does `getLastInput` return the last input? Refuted | a letter, a function key and a shift |
| `console` | Which screen calls keep to their column? | Two lines of two characters of two pixels; two columns by margins; a cursor on a column, off it, and restored. `MaxAbove` stops the cursor one line above the screen |
| `shared_cursor` | Can lost updates of the cursor leave it off the screen? | Three columns and two lines, any number of writes and messages |
| `shell` | Are screen and line buffer in step, is the table kept over restarts, is an address read as typed? | Four lines of three characters; commands of up to five letters and spaces, so that a command spans three lines and may scroll; `help`, one that clears, one that raises an exception, `printMem` with up to two digits, and wrong ones; a table with room for one more command than there are |
| `clock` | Are readings right as they are printed, and is the assembled time sound? | Every hour, minutes and seconds about to carry or not, in one digit and two; BCD and binary, 12 and 24 hours; up to three ticks during one `get_time` |
| `exceptions` | What do exceptions, which read the keyboard port with interrupts off, do to keys and modifiers, and keys to a copy of the registers? | Left shift (which ends an exception), CTRL and a letter; four codes, repeated makes included; two registers; three ticks, two to a second |
| `program` | Does the test of the memory manager end, without error, whatever exceptions do to it? | Two blocks in ten bytes, which two runs struck by exceptions may exhaust, so that requests are refused; exceptions after any statement, two of them |
| `boot` | Do the files arrive as they were packed; is the old image spared; is a size read as it is written? | None to three modules of none to three cells, read two at a time, so that a read ends at the end of a file or inside; a file missing or a directory; one change at any time; a disk with and without room; thirteen size strings: zeros in front, units, none, wrong ones, too small, too large by digits and by units |
| `bmfs` | Does the tool keep names unique, find the lowest gap, and give back what was written? | A directory of three entries, images of up to three blocks of data, three names, files of one or two blocks: the directory fills, entries are deleted and used again, a gap is too small, the image is full |
| `bmfs_disjoint` | Do files never overlap? Refuted | the same |

### Fairness

* `Heap`: weak fairness of `Code`, the steps of a call in progress: the kernel runs a
  system call to its end, an interrupt only delays it. No fairness of the clients.
* `Keyboard`: weak fairness of the steps of `getLastInput` and of `call`: the shell's loop
  polls `sys_read` for ever. None of the keys: they may stop at any time, and the bound
  on accepted characters makes them stop in the end, which is what `Drains` is about.
* `Exceptions`: weak fairness of both handlers (an interrupt requested comes through once
  interrupts are on), of the exception's look at the port, and of the port's next byte. None of
  the user: `ExitsOnShift` supposes that left shift has been pressed.

* `Program` and `Boot`: weak fairness of `Code`, the disjunction of the steps of the programs: a
  processor goes on with what it is doing. None of the exceptions, of the programs that change
  files, or of any outcome: a read or a write may fail every time or never.

Nothing is assumed of the other modules, whose properties are all safety. Every run checks for deadlock
but two, `program` and `boot`: there the machine halts, or the tools end, which is what `Halts` and `Settles` say.

### A bound of `BMFS` that is not a number

Once files overlap, or a full directory has been taken for an empty one, or a file lies outside a tiny
image, `sound` is false and `create`, `write` and `delete` are not followed until the image is formatted
again (`Followed`). The step that leads there is in the model; `FilesDisjoint` shows it. `ReadsBack` and
`LowestGap` are claims about images this has not happened to.

### What the refuted statements show

* `ReturnsLastInput` (`keyboard_driver.c:164`): a key inside the call makes it return the cell
  above the newest character.
* `FilesDisjoint` (`BareMetal File System.md:20`): `create` measures the room after a *deleted* file up to the last
  block, across the files in between (`bmfs.c:681`).

Known and not run, for want of a document that says otherwise or of a model of the data:

* a key between the test of `endPosition` and its decrement (`keyboard_driver.c:171`, `:179`) takes the
  iterator to -1, below the buffer (`Keyboard` has the step: `strayed` marks it, and `TypeOK` says that nothing
  else does); the full buffer (`:60`) only prints and accepts the key, so `size` passes 100;
* `clean` blanks a column of pixels of the neighbour on the right (`video_driver.c:206`; `KeepsColumn` allows it that one);
* the overflow message is drawn over the character that `sys_write` is drawing (`SharedCursor` has the steps);
* `readHours` doubles the hours after noon of a 12-hour clock (`lib.c:106-107`; `Clock` has it, and `ReadsClock`
  leaves those hours out); nothing looks at the chip's update-in-progress bit; `get_time` may print a
  time that never was (a carry between two readings);
* `strToNumHex` counts the letters among its digits, small and capital, from 0 and not from 10 (`Lib.c:111-114`;
  `digit` has it, and `AddressRead` speaks of 0 to 9), and `printMem` alone reads address 0;
* `saveRegs` runs inside the handler, after it has changed registers of the program it interrupts;
  `printRegister` shows five digits of each; the value labelled `RSP` is the saved CS
  (`Interrupt_routines.c:17`, `:72`);
* `print_num` sign-extends a negative number to 64 bits, too many digits for `buffer[10]`;
* `initialize` looks for read errors in the disk's stream and not in the file's (`bmfs.c:522`, `:550`): a boot loader
  or kernel cut short is taken for whole (`copied` has it), and a size such as 21 digits may wrap to one accepted;
* a packer that crashes leaves a file newer than its sources, which the next `make` takes for
  finished (`Made`); a directory among its sources is read for ever (`Spins`);
* Pure64 copies 250 KiB, while its comment (`pure64.asm:589`) speaks of a kernel of up to 256 KiB;
* `test_mm` speaks of "around 80%" of memory and asks for a tenth.

## 4. What is proved

Each `...Proofs` module has an inductive invariant `Inv`, one lemma per action that keeps it, the
theorem `Invariant` (`Spec => []Inv`), and the theorems below, which follow from it. Three have a
second one: `WriterInv` (`VideoProofs`, of `SharedCursor`), `TimeInv` (`ShellProofs`, of `Clock`) and `SizeInv`
(`BootProofs`). They hold for every value of the constants that satisfies the assumption of the module (last
column); TLC evaluates that assumption on every run, and has checked each invariant on the instances of
section 3. All safety properties of the passing runs are proved, the two that are refuted apart.

| Module | Theorem | States | Assumed of the constants |
|---|---|---|---|
| `HeapProofs` | `TypeCorrect` | `TypeOK` | `HeapAssumption`: the arena lies in the range `sbrk_handler` serves and has room for a block, the static header lies below it, a size is smaller than the owned bit |
| | `ClientsSafe` | `ClientsDisjoint`: payloads are inside the arena, disjoint, and cover no header | |
| | `CountExact` | `Accounting`: `freeBytesRemaining` is the number of free bytes | |
| | `ListSound` | `FreeListOrdered` and `Coalesced` | |
| | `NoDoubleFree` | `StaleIgnored` | |
| | `NoFragmentation` | `WholeAgain` | |
| | `LowestFit` | `FirstFit`, an action property | |
| | `HeapImplementsAllocator` | `Implements`: `Heap` is an `Allocator` | |
| `KeyboardProofs` | `TypeCorrect` | `TypeOK`: the iterator is inside the buffer, the one race apart, whatever bytes are typed | `KeyboardAssumption`: `asciiMap` holds bytes, has a row for each modifier, and a letter's two characters are not 0 and no other key's |
| | `CountIsKept` | `CountKept` | |
| | `QuietIsStack` | `QuietStack` | |
| | `CaseFollowsKeys` | `CaseOfKeys`, an action property | |
| `VideoProofs` | `TypeCorrect` | `TypeOK` | `TerminalAssumption`: a character fits the width and two fit the height; `ConsoleAssumption`: margins a character apart and on the screen |
| | `ColumnsKept` | `KeepsColumn`, an action property | |
| | `ColumnStays` | `StaysOnColumn`, an action property | |
| | `WritesComeBack` | `CursorComesBack` | `SharedCursorAssumption`: no string is empty, and the screen is a whole number of lines high |
| `ShellProofs` | `TypeCorrect` | `TypeOK` | `TerminalAssumption`, and `ShellAssumption`: a whole number of cells on the screen, of which 101 and the prompt take a line less than there are (the screen has 48 lines of 128); prompt, line break and clearing are not letters; a space is 32 in ASCII; the commands have different names and fit the table |
| | `LineOnScreen` | `LineShown` | |
| | `TableKept` | `CommandsKept` | |
| | `AddressTyped` | `AddressRead`, an action property | |
| | `NumberWritten` | what `draw_number` writes of a number is its digits in the base, none missing and none too many | any base from 2 |
| | `TimeNotAhead` | `NeverAhead` | `ClockAssumption`: the clock starts at a time of day, in any of its modes |
| | `ClockShown` | `ReadsClock`, an action property | |
| `ExceptionsProofs` | `TypeCorrect` | `TypeOK` | `ExceptionsAssumption`: CTRL and left shift are modifiers, no modifier is a letter |
| | `ModifiersNeverStick` | `FlagsFollowKeys` | |
| | `LettersTypedOnce` | `TypedOnce` | |
| | `CopiesAreWhole` | `CopyWhole` | |
| `ProgramProofs` | `TestNeverFails` | `NoError` | `ProgramAssumption`: at most 255 blocks (`rq` is a byte), and a block is at least the request and its header |
| | `MemoryAccounted` | `Accounted` | |
| `BootProofs` | `PackedModulesArrive` | `ModulesArrive` | `BootAssumption`: what is packed first is the kernel's binary; a unit is a power of a number greater than one |
| | `RefusalKeepsImage` | `OldImageKept` | |
| | `SizeIsRead` | `SizeRead`, an action property | |
| `BMFSProofs` | `NamesStayUnique` | `NamesUnique` | `BMFSAssumption`: a directory of at least one slot, names that are not the two marks, sizes of at least a block |
| | `WrittenReadsBack` | `ReadsBack` | |
| | `LowestGapTaken` | `LowestGap`, an action property | |

Bounds of the models (`MaxTyped`, `MaxCodes`, `MaxTicks`, `MaxRestarts`, `MaxAbove`, `MaxBlocks`) are constants too:
what is proved holds for each of their values.

### The arguments

*Heap.* None of the properties is inductive alone: that payloads are disjoint follows
from the blocks tiling the arena (`Tiling`) and from each client owning one block large enough
(`Ownership`). That splitting and merging keep the tiling needs the list to be ordered and to hold
exactly the free blocks (`FreeListOrdered`), so that a merge with a list neighbour is one with a
neighbour in memory; that one merge on each side is enough needs that no two free blocks
touched before (`Coalesced`). Inside a call the list lacks the blocks in hand (`Listed`), and
`InCall` says where the cursors are: `prevp` in the list and `currp` its successor, every block before
`currp` too small, `iteratorp` before the block to insert. `SetUp` tells the time before
the first call from the rest and keeps the two ends in place; `StaleCleared` is the stronger form of
`StaleIgnored` (the bit is off, not merely off or linked). Each action has one lemma, in which every
conjunct is one step; `Accounting` rests on lemmas about the cardinality of an interval of bytes.

*Heap implements Allocator.* The extents are the blocks owned by clients. A step inside a call is a
stutter; a call, the step that owns a block, the one that returns NULL and the one that frees are the
abstract ones. `Serving` says that what a call looks for is what was asked for, rounded up
(`NeedIsBlockSize`). The hard step is the refusal: a gap between extents that is large enough is covered by free
blocks, by `Coalesced` by one of them, and the search has seen that block and found it too small.

*Keyboard.* `CountInv` says, at each access of `getLastInput`, what the count and the characters accepted
and given out may differ by: the keys that came between the load and the store of `size--` are lost.
`EndInv` says that there is a cell to go down to from the test for 0 until the decrement is stored, unless
`strayed`, and bounds the iterator from below by the characters typed in any case. `FlagsInv`, beside `Inv`, ties each flag to its own
key, so that what a key types follows from the keys that are down (`CaseFollowsKeys`). `QuietInv` tells, as long as no
key has come inside a call, which cells hold the unread characters, also with a call half done and
the buffer wrapped. The lemmas on `%` reduce the wrap to two cases.

*Console.* `Inv` bounds cursor, saved cursor and margins. Each drawing operation of `Terminal` has a lemma
`Keeps(t, u)`: margins stay, and a cursor on a column stays on one and draws between the margins only (`Between`);
`Keeps` is transitive, so that a string keeps what its characters keep. The step lemma gives both properties; what
clearing reaches outside of the margins is the column to their right, by the remainder of a pixel's place (`CleanColumn`).

*SharedCursor.* In `WriterInv`, `RowComesBack` and `ColumnComesBack` say, for each program counter between two accesses, how far the
loaded copy and the stored cursor may be apart. The row is the hard one: once `draw_char` has taken the cursor
below the screen, a message may draw there and scroll for itself; the cursor is on a line of the screen or the
one below all the same, and as long as it is below, the test or the scrolling still to come brings it back.

*Shell.* That the line is on the screen is not inductive as `LineShown` has it: a deletion across a line break, or a
line that scrolls, needs the cursor to be on a cell. `Neat` says that, and that nothing is shown from the
cursor on; `Inv` adds that the line has letters only, that there is a prompt before it on the screen, and that the table is
the list of commands itself. Each operation of `Terminal` is put in terms of cells: a character moves the cursor on by
one and writes the cell it was on (`draw_char`), a scroll takes every cell a line up, and a line is short enough that its
prompt is never scrolled off. `print` and `help` keep a screen neat whatever they print, by the least character that
would not. `AddressTyped` compares two recursive functions, the one that reduces at each digit and the one that
does not, at the first place they would differ modulo the word.

*Clock.* `Spells` says that the digits `valueToBase` finds, last one first, are those of the number; by the least
number that has none, every number has them, and turned round they have its value (`NumberWritten`). `TimeInv` bounds what has been
printed by the time that has passed: hours alone, hours and minutes, all three. As the chip goes on each bound stays, and the next
part is read when it belongs to no earlier hour or minute, unless `midnight` has come. `ClockShown` follows from the
conversions, one lemma for each of the chip's formats.

*Exceptions.* A flag is right once its codes are through, so `FlagsComing` says that the newest code of a modifier
agrees with its key wherever it is: in the keyboard, else in the port, else in the flag; `CodesCounted`, `PressesCounted` and `TicksCounted` account for every code, press and
tick at every place it may be; `CopyFresh` compares the registers copied so far with the ones to come.

*Program.* `Loops` says how far each loop has come, `BlocksHeld` that the requests up to there are extents of the
allocator, `Written` that their bytes are what the loop has set, `Returns` that the saved
stack pointer is the one of the kernel's call, whose return address no restart overwrites. The allocator is any that satisfies `Allocator`: what it
grants is disjoint (`Apart`) from all that is held or leaked.

*Boot.* `PackerInv`: what has been written is the packed prefix of the files, one after the other, and of the
file being copied what has been read. `ImageInv`: the kernel on the disk is a prefix of the file, whole when the tool
says so. `StartInv`: what is in memory after each copy. `ModulesArrive` joins the three through lemmas on sums of
lengths, by least elements (below). `SizeInv` is of its own: of a size that a word can hold, what has been read is
the number its digits so far spell, times the powers of 1024 so far. Neither function falls, so that no intermediate result
exceeds the size; the tests for overflow, which see only some overflows, then see none. Zeros are the case apart: they stay zero under both.

*BMFS.* `OneEach` is `NamesUnique` for all slots before the end of the directory, deleted ones included, since
`create` may move that end; `FilesWhole` (apart, inside, written within the blocks reserved) and `Sized` carry `ReadsBack`.
`LowestGapTaken` splits in two: the sorted entries are the files one behind the other and then the deleted ones
(`FilesInOrder`), and in such a row the first room found starts at the lowest free run (`FirstRoomIsLowest`, on numbers alone).

Where a recursive function or a loop over a file, a string or a directory is reasoned about, the step from
one element to the next is an explicit argument on the *least* element that fails: the library's well-foundedness
of `<` on the naturals gives the least one (`LeastOf` and the like).

### Only model-checked

* Liveness: `CallReturns`, `Drains`, `NoKeyStuck`, `ExitsOnShift`, `Halts`, `Settles` (fairness and `ENABLED` are out of the prover's reach).
* The refuted statements, which are shown by a counterexample: `ReturnsLastInput`, `FilesDisjoint`.
* That the bounds of the instances are reached, and the mutations of section 2: what would break each property.

## 5. What is not modelled

* Pixels inside a character, colours, the font: a character is an area of one value.
* Bytes of the arena that are not headers in `Heap`; `Program` has the bytes its blocks hold. A pointer is freed
  only if malloc gave it and the bytes of its header are not another client's: freeing anything
  else is undefined in the code too.
* What lies beside the driver's arrays: reading there (an index below the buffer, a row past `asciiMap`) gives any
  byte, 0 included, and writing below the buffer changes nothing that is in the model.
* What inforeg and printMem print of registers and memory: `Exceptions` has the copy of the registers,
  `Shell` the address, and both outputs are texts.
* `getChar`, `draw_string_personalized` and all of `naiveConsole.c` but `uintToBase`: never called.
* `GetUint` of `test_util.c`: the sizes are any it may give.
* In `Exceptions`, the tables and masks of the interrupt controller: both lines are taken as `loadIDT`
  leaves them. (`idt.c:69-70` says it disables the slave's interrupts but writes 0, which enables
  them; they stay off because the master masks line 2.)
* BMFS: a kernel too long for block 0, names that are empty or longer than 31 characters, and the
  order of bytes inside a block; `list` and `read` change nothing on the image. In `Initialize`
  both the boot loader and the kernel are given, as `Image/Makefile` does.
* The packer's array of 128 paths, and a payload of more than two modules or longer than Pure64's window: the
  steps are in the model, and `ModulesArrive` leaves such images out.
* Pure64 itself, vendored assembly, but for that copy. The other processors it starts run nothing of this kernel.

## 6. Plan

1. `BMFS` further: a full directory as a question of its own; the kernel's length against block 0.
2. `Exceptions` with `Console`: what an exception does to the margins and the saved cursor.
3. What `get_Memory` copies, with interrupts on, while another call may come after an exception.
4. Proofs: the two refuted statements under the assumption that would make them true (no key inside a call; no
   deletion before a file that is created).
