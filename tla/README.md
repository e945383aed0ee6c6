# A TLA+ model of the JOS lab 1 kernel

The repository is the first lab of MIT's JOS: a boot loader, a kernel that turns
paging on, prints through a text-mode console and ends in an interactive
monitor, the small C library both use, and a Python harness that boots the
kernel in QEMU and grades what it prints. There is one processor and interrupts
are never enabled (`boot/boot.S` runs `cli`, nothing runs `sti`), so inside the
kernel there is one thread of control. What makes the code hard is not threads
but devices that move while the kernel polls them, buffers with two positions,
call-backs and recursion between the layers of the console, arithmetic at the
boundaries of buffers, disk sectors and symbol tables, and state left over from
an earlier call.

## Inventory

| part | source | state | operations | interacts through |
|---|---|---|---|---|
| Keyboard decoding | `kern/console.c` 226-380 | static `shift` word, three character tables | `kbd_proc_data` | reads the i8042, called by `cons_intr`, prints through `cprintf` on Ctrl-Alt-Del |
| Console input buffer | `kern/console.c` 48-63, 382-444, 476-484 | `cons.buf/rpos/wpos`, `serial_exists` | `serial_intr`, `kbd_intr`, `cons_intr`, `cons_getc`, `getchar` | polls UART and i8042 through a function pointer; `readline` consumes |
| Console output | `kern/console.c` 65-224, 446-474 | `crt_buf`, `crt_pos`, `cga_bg/fg`, port registers | `cons_init`, `serial_putc`, `lpt_putc`, `cga_putc`, `cons_putc`, colour setters | `cga_putc` calls `cons_putc` again for a tab |
| Line editing | `lib/readline.c` | static `buf`, `i` | `readline` | `getchar`, `cputchar`, called by the monitor |
| Formatted output | `lib/printfmt.c`, `kern/printf.c` | the parse state of a directive, `sprintbuf` | `vprintfmt`, `printnum`, `vsnprintf`, `vcprintf` | calls `putch` for each character |
| Monitor | `kern/monitor.c` | `argv`, the stack it walks | `monitor`, `runcmd`, the three commands | `readline`, `debuginfo_eip`, colours |
| Start and panic | `kern/init.c` | `panicstr` | `i386_init`, `_panic`, `_warn`, `test_backtrace` | `cons_init`, then `monitor` for ever |
| Debug information | `kern/kdebug.c` | none (reads the stab tables) | `stab_binsearch`, `debuginfo_eip` | called by `mon_backtrace` |
| C library | `lib/string.c` | none | string and memory functions, `strtol` | used everywhere |
| Image build | `boot/Makefrag`, `boot/sign.pl`, `kern/Makefrag` 67-81 | the files under `obj/` | the recipes' lines, `sign.pl`, make's rule about half-made targets | writes the disk the boot loader reads |
| Boot loader | `boot/main.c`, `boot/boot.S` | CPU mode, physical memory, the IDE registers | `bootmain`, `readseg`, `readsect`, `waitdisk` | disk; jumps to `kern/entry.S` |
| Kernel entry | `kern/entry.S`, `kern/entrypgdir.c` | `cr0`, `cr3`, `eip`, `esp`, the static page tables | `_start` | switches paging on under its own feet |
| Test harness | `gradelib.py`, `grade-lab1` | the QEMU process, GDB connection, monitors, scores | `run_tests`, `Runner.run_qemu` and its reactor | drives the kernel in QEMU |

What each must get right:

- *Keyboard*: characters come out as typed; the shift word follows the keys.
- *Input buffer*: a FIFO queue however arrivals interleave with polling; positions
  in range; neither device starved.
- *Output*: the cursor stays on the screen; the display is a scrolling terminal;
  each port gets every character once; a dead port cannot hang the kernel.
- *Line editing*: the screen shows the line that will be returned; it fits its
  buffer with its NUL.
- *Formatted output*, *C library*: agreement with a reference definition;
  never a byte outside the buffer given.
- *Monitor*, *start and panic*: the words of a line become the arguments of a
  command, the backtrace lists the active calls and ends, colours are reset.
- *Debug information*: the binary search finds what its comment says.
- *Console set-up*: whatever the firmware left, the display in use is there and
  unchanged, and the serial port is found and set up.
- *Image build*: what make leaves is never taken for finished when it is not.
- *Boot loader*, *entry*: every byte of every segment at its place before the
  jump, no instruction fetched from an unmapped address.
- *Harness*: every verdict counted once, the output of a run complete, no QEMU
  left running.

Not modelled: of the build, all but the recipes of `obj/boot/boot`, `obj/kern/kernel`
and `obj/kern/kernel.img` (the compiler's rules, the choice of tools, `mergedep.pl`, the
targets for handing in run once over files and keep no state the kernel sees);
`fs/test.c` and `user/sendpage.c` (tests of later labs: nothing here can load them, and
they call functions the repository does not have); headers beyond the constants and
wrappers that a definition uses; `_panic` and `_warn` (see below); of the harness
`reset_fs()` and `user_test()`, which need a file system and user programs.

## Modules

| module | models | state and actions |
|---|---|---|
| `Keyboard` | `kbd_proc_data()` and its tables | operators on the `shift` word (`Pressed`, `Released`, `CapsFold`, `Decode`, `Reboots`), and `KbdReadByte`/`KbdNoData`, one call |
| `Typing` | `Keyboard` under a person's fingers | `Press`, `Release` (external), `ControllerLoad` (the i8042), `KbdProcData` |
| `InputQueue` | what the input buffer promises | a FIFO queue that a full buffer empties |
| `ConsInput` | `serial_intr`, `kbd_intr`, `cons_intr`, `cons_getc` | one action per turn of the two `cons_intr` loops and per step of `cons_getc`; `SerialReceive`, `KeyboardReceive`, `MouseReceive` happen between any two of them |
| `ConsInit` | `cons_init()`: `cga_init()` and `serial_init()` | `CgaProbe`, `CgaDetect`, `CgaCursor`; `SerialOut`, one `outb()` at a time, `SerialStatus`, `SerialDrain`; `Receive` is the line |
| `Cga` | the cells and cursor position of `cga_putc()` | operators `Written`, `Scrolled`, `CgaPutc`, `Attribute` |
| `Terminal` | what the display promises | rows and columns: `Draw`, `Newline`, `Return`, `Backspace` |
| `ConsOutput` | `cons_putc()`: both ports, the display, the recursion for a tab, the colours | `Poll`, `PortWrite`, `CgaChar`, `CgaTab`, `TabSpace`, `TabEnd`; `PortSends` is the hardware |
| `Readline` | `lib/readline.c` on the display of `Cga` | `Call`, `PrintPrompt`, and one action for each branch: `Rubout`, `Store`, `Finish` |
| `LineEditor` | what `readline()` promises | a sequence of characters that is edited and returned |
| `Monitor` | `kern/monitor.c` and the C part of `kern/init.c`, over `Readline` | the first line and `test_backtrace()`; `runcmd()` turn by turn on the buffer (`Gobble`, `Scan`, `Lookup`); the commands; `mon_backtrace()` frame by frame; `Output` executes the output statements that are next, one at a time, where each colour is set by a statement of its own and a statement may leave the other colour alone |
| `StabLoop` | `stab_binsearch()` | one action for each outcome of a turn (`NoMatch`, `Below`, `Above`, `Exact`) and `Return` |
| `StabSearch` | any call of it on any table | the call's arguments, and what its comment promises |
| `DebugInfo` | `debuginfo_eip()` | its three calls of `StabLoop`'s search, one inside the region of the one before; `NameOr` is the check that a name lies in the string table |
| `BootLoader` | `boot/main.c`, and `memset()` of the bss | `NextHeader`, `NextSector`, `WaitDisk`, `Command`, `Insl`; `DiskReady` is the disk, which takes no command while it is busy; a loader that finds other things in the scratch space than what it read there is "lost" |
| `Startup` | `boot/boot.S`, `kern/entry.S`, `kern/entrypgdir.c` | one action per instruction that changes the machine's state; `KbcTakes` is the keyboard controller, which loses a byte written too early and opens the A20 gate |
| `KernelImage` | `boot/sign.pl`, the recipes that make the disk image, and `.DELETE_ON_ERROR` | one action per line of a recipe; `Fail` stops make at any of them, `Make` runs it again; `Edit` is the programmer |
| `Boot` | from make to a console that is ready | `PowerOn` once make has succeeded; `bootmain()` runs where `boot.S` calls it, then `i386_init()` up to the end of `cons_init()`; `Controller`, `Disk` and `Wire` are the devices; `Bus` is where the address lines lead while the A20 gate is shut |
| `Loops` | the loops of the two files below | `Turns`, how many turns a loop makes; `Iterated`, its variables after each of them |
| `Printfmt`, `StringLib` | `lib/printfmt.c` with `strtol()`, `lib/string.c` | operators on sequences of characters and on memories, a loop by what one turn does |
| `Library` | one call of a function of these | every call of `Calls`, with reference definitions for the result |
| `GradeRunner` | `Runner.run_qemu()` and its reactor, with make, QEMU and the kernel as processes | one action per turn of a `select()` loop and per step of the start and the shutdown; `Interrupt` is Ctrl-C, `Tick` the clock |
| `GradeTests` | the `test` decorator, `run_tests()`, the scores, the failure logs and the exit status, around `GradeRunner` | `Build`, `Enter`, `Body`, `Judge`, `Finish`, ...; `CtrlC` |
| `KeyboardProofs`, `CgaProofs`, `ConsOutputProofs`, `DebugInfoProofs`, `BootProofs`, `MonitorProofs`, `GradeProofs`, `LibraryProofs` | theorems | each about the module it is named after, with the lemmas it rests on; `KeyboardProofs` is about `ConsInput` and `Typing`, which share the keyboard's decoding; `CgaProofs` has the lemmas about the display that `ConsOutputProofs` and `MonitorProofs` share |
| `MC*` | instances | |

Operators named as mutants in their comments are variants of a small definition with
one plausible mistake. No specification uses them: they show that each property
can fail. What a mistake can be made in has a name of its own (`NoChar`, `Bottom`,
`Kept`, ...), so that the variant is as short as the mistake.

## Runs

Twelve runs. Eight pass, four look for a counterexample to one sentence of a
comment or message in the source and find it.

| run | bounds | what it shows |
|---|---|---|
| `typing` | 7 keys, 5 presses and releases | `ModifiersFollow`: once every byte is read the shift word is what the keyboard looks like. `CharsAsTyped`: what is decoded is what the keys mean, Ctrl-Alt-Del included |
| `cons_input` | 3 slots, 5 bytes, one of them from the mouse | `ImplementsQueue` (refinement of `InputQueue`), `InputDrains` (liveness) |
| `cons_output` | 2 by 2 cells, 4 puts (one less per port), one poll | `ImplementsTerminal` (refinement of `Terminal`), `PortsCarryPuts`, `PutReturns` (liveness) |
| `monitor` | lines of 5 characters, 3 arguments with the NULL, an `argv` that holds anything before, 3 by 3 cells, any number of lines | `LineOnScreen`, `ImplementsEditor` (refinement of `LineEditor`), `ArgvIsWords`, `Responds`, `BacktraceLists`, `InOwnColours`, `Prompts` (liveness) |
| `debug_info` | every table of 4 stabs; linked tables of one assembler and one C file with one or two functions, some with a name outside the string table | `FindsStab`, `CallsAreSound`, `InfoCorrect`, `Answers` (liveness) |
| `boot` | boot blocks of 0 to 2 bytes where 1 is the limit; every state the firmware may leave; page tables of 4 entries, sectors of 3 bytes, one or two segments of up to 3, packed ones too, and some over the scratch space; an A20 line worth three sectors; three machines | `ImageWhole`, `ReachesMemory`, `Loaded`, `ConsoleReady`, `Boots` (liveness) |
| `library` | ints of 5 bits and long longs of 7, memories of up to 12 bytes | `Formatted`, `BufferBounded`, `ReadsBack`, `StringLibExact` |
| `grade` | three tests, two with a QEMU of their own, three scripts of a kernel, one Ctrl-C at any step, an old log of each test | `OutputComplete`, `NoOrphan`, `ScoreAddsUp`, `ParentFirst`, `FailureLogs`, `FreshTimes`, `Graded` (liveness) |
| `cons_input_overflow` | 3 slots, 3 bytes | "0 if none waiting" (`console.c:424`) fails: the third character fills the buffer, and the call that takes it up returns 0 with three unread |
| `cons_output_attr` | one put | "if no attribute given, then use black on white" (`console.c:176`) fails for a negative char |
| `debug_info_next` | as `debug_info` | "the matching stab that contains 'addr'" (`kdebug.c:31`) fails for an exact match with a neighbour |
| `grade_shutdown` | as `grade` | "Shutdown QEMU" (`gradelib.py:421`) fails when no connection was made |

Each run but `typing`, `library` and the violations also checks a type invariant,
which says where the indices of its buffers and tables stay.

Why the bounds are enough. The circular buffer wraps and overflows in five bytes,
and nothing in the code looks further than one slot ahead. A tab on two rows of two
scrolls more than a whole screen, which is more than it can do on 25 rows of 80. A
line of five wraps twice on rows of three and fills the screen up to the limit
`FitsAssumption` states (80 columns, 25 rows and a line of 1024 satisfy it). Six
bytes of buffer hold the empty line, a full one, leading, trailing and doubled
white space, and one word more than `argv` has room for. Five key events are
enough for a pair of modifier keys in either order and a key after them. Tables
of four stabs have every combination of neighbours, gaps and other types around
an exact match, and for tables of any length the search and the call are proved. Segments of up
to three bytes with sectors of three start and end at every position of a sector, and
two of them meet in a sector with and without a gap between them in the file. Of the segments
over the scratch space one comes over the ELF header, one over the program header in use, one
over the next, and some over none that is still needed. Two leftovers on the stack, one of them
a pointer into the line, are enough to tell what `runcmd()` stores in `argv` from what it
finds there. The three
machines have either display and both, no port, a port whose latch is open and whose FIFO
is on and full, and one that holds a byte; the cursor is at positions that need both
halves of the 6845's registers. A boot block shorter than the limit, as long and longer
is all that `sign.pl` tells apart, and each line of a recipe is stopped at in each state
an earlier make can have left.
Words of two bytes make every alignment of source, destination and size possible.
Integers have a least value without a positive counterpart at any width.

## Fairness

The processor never stops and interrupts are off, so a call that has begun goes on:
weak fairness of the kernel's own steps in `ConsInput`, `ConsOutput`, `Monitor`,
`DebugInfo` and `Boot`. Of devices nothing is assumed in `ConsInput` (bytes may
come or not) and `ConsOutput` (ports may never become ready). `Boot` assumes that
the disk answers a command and that the keyboard controller takes a byte (`Disk`,
`Controller`): the code waits for both without a limit. Of make and of the programmer it
assumes nothing: `Boots` begins at `PowerOn`. `Monitor` assumes no key is ever pressed; `Prompts`
says that it comes to wait for one. `GradeTests` assumes that the grader goes on,
where each `select()` may also end by its timeout, that the clock goes on (`Tick`:
`pre_make()` waits for another second) and that make and QEMU end after SIGTERM
(`Terminated`); it does not assume that they make progress of their own.

## Proofs

| theorem | of | says, for every value of the constants |
|---|---|---|
| `KeyboardProofs!ShiftFollows` | `Typing` | once every byte is read the shift word is what the keyboard looks like |
| `KeyboardProofs!TypedIsDecoded` | `Typing` | what is decoded is what the keys mean, in order, however late the bytes are read |
| `KeyboardProofs!TypeCorrect` | `ConsInput` | both positions index the buffer, the shift word holds known flags |
| `KeyboardProofs!AccountCorrect` | `ConsInput` | the two positions account for every character stored and not returned, up to whole buffers lost |
| `KeyboardProofs!QueueRefinement` | `ConsInput` | `Spec => InputQueue!Spec` under the mapping `q <- Pending`, `out <- ret` |
| `ConsOutputProofs!TypeCorrect` | `ConsOutput` | `crt_pos` is inside `crt_buf` whenever it is used, on a screen of any size |
| `ConsOutputProofs!CursorCorrect` | `ConsOutput` | between two calls the hardware cursor is at `crt_pos` |
| `ConsOutputProofs!TerminalRefinement` | `ConsOutput` | the buffer and its position implement `Terminal`'s rows and columns |
| `ConsOutputProofs!PortsCorrect` | `ConsOutput` | each port is given what the calls owe it (`due`), once and in order, unless polling it timed out |
| `DebugInfoProofs!TypeCorrect` | `StabSearch` | every index of the search is in the region it was given |
| `DebugInfoProofs!SearchCorrect` | `StabSearch` | the search ends at the last stab of the type that starts at or before the address |
| `DebugInfoProofs!CallsSound` | `DebugInfo` | each of the three nested searches is one `SearchCorrect` is about |
| `DebugInfoProofs!InfoIsCorrect` | `DebugInfo` | what `debuginfo_eip()` reports is what the table says of the address |
| `BootProofs!ImageIsWhole` | `Boot` | an image make has finished is whole and signed, wherever earlier makes were stopped |
| `BootProofs!CpuReachesMemory` | `Boot` | from the firmware to `i386_init()` every fetch and push leads to memory, and the kernel is fetched with the A20 gate open |
| `BootProofs!ConsoleIsReady` | `Boot` | `cons_init()` finds the display in use and the port, whatever state they are in |
| `BootProofs!KernelIsLoaded` | `Boot` | memory holds what the program headers say, but for the bytes `Lost` names |
| `BootProofs!BootTypes` | `Boot` | the disk is commanded and read only when it is ready, and only the sector asked for is read |
| `MonitorProofs!TypeCorrect` | `Monitor` | `runcmd()`'s pointer stays in the line, `argc` in `argv`, the stack within its depth |
| `MonitorProofs!LineIsOnScreen` | `Monitor` | the cells before the cursor show the prompt and the line |
| `MonitorProofs!EditorRefinement` | `Monitor` | `readline()` implements `LineEditor` |
| `MonitorProofs!ArgvAreWords` | `Monitor` | `argv` is the words of the line, in order, and a NULL |
| `MonitorProofs!BacktraceIsComplete` | `Monitor` | a backtrace lists each active function once, innermost first |
| `MonitorProofs!EveryLineIsAnswered` | `Monitor` | nothing, one message or all of one command, as the words of the line say |
| `MonitorProofs!ColoursAreOwn` | `Monitor` | every line is printed in its own colours |
| `GradeProofs!GradeTypes` | `GradeTests` | connection and reactors are there where `run_qemu()` uses them |
| `GradeProofs!OutputKept` | `GradeTests` | no output is lost between QEMU and `match()` |
| `GradeProofs!NoOrphanLeft` | `GradeTests` | a run that returns has ended and reaped make and QEMU |
| `GradeProofs!LogsAreOwn` | `GradeTests` | a failure log holds what was printed in that test's own run, and no verdict touches another's |
| `GradeProofs!FreshMake` | `GradeTests` | no make starts in a second in which an earlier one may have written |
| `GradeProofs!ScoresAddUp` | `GradeTests` | every test is judged at most once, scores are sums over the verdicts, status 0 means what it says |
| `GradeProofs!ParentRunsFirst` | `GradeTests` | a test is judged after its parent, and no other run comes between the two |
| `LibraryProofs!StringLibCorrect` | `Library` | `string.c` writes, leaves alone, orders and finds what definitions without loops say |
| `LibraryProofs!BufferBoundedCorrect` | `Library` | `vsnprintf()` stores what fits with its end and touches no other byte |
| `LibraryProofs!ReadsBackCorrect` | `Library` | `strtol()` reads back every int that `%d`, `%o` and `0x%x` print, and stops behind it |
| `LibraryProofs!FormattedCorrect` | `Library` | what `cprintf()` prints for a directive is what the directive says; an unknown one is printed as it stands |

*Assumptions.* They are the ASSUMEs of the modules, which TLC evaluates for the constants of
the runs; the sizes in the source satisfy them.

- `Typing`: `KeysAssumption` says of each key the person uses that the rows of the kernel's
  tables for its scan code are what is printed on its cap, and that no scan code looks like the
  prefix. It compares tables with caps only; what the two bytes, the locks, the modifiers and
  the queues make of them is proved.
- `ConsInput`: at least two slots, bytes are bytes. `ConsOutput`: a machine has some of two
  ports, colours are 0..15, ints -128..255. `Cga`: at least one row and one column.
- `Readline`: a buffer of at least one byte, keys are characters from 1 to 255 (`getchar()`
  drops 0), the prompt is printable, and the prompt with a full line fits above the last row
  (`FitsAssumption`: otherwise scrolling takes the first cells of the line and `LineOnScreen`
  is false). `Monitor`: `argv` has room for a word and the NULL, 0 is not white space, and
  the table has the three commands, each under a name of its own (`CommandsAssumption`); what
  is on the stack before `argv` is an integer (`LeftoversAssumption`).
- `StabSearch`: indices and values are integers. `DebugInfo`: `LinkedAssumption` says what the
  compiler and the linker put into `.stab`: the header entry, the stabs of each file behind
  its N_SO and of each function behind its N_FUN; each kind in increasing order within what
  encloses it and beginning at its start; parameters first; and no two of one kind at
  neighbouring addresses. The last is not true of every program (a line of one byte of code
  has a neighbour): `debug_info_next` shows what the search then does.
- `KernelImage` and `Boot`: the signature takes the last two bytes of a sector
  (`BootSectorAssumption`). `Startup`: `KERNBASE` is a multiple of what a page table maps and
  the three pages are among those (`LayoutAssumption`). `BootLoader`: `ELFHDR` begins a sector
  (`SectorAssumption`); segments lie in memory as in the file modulo a sector, memory has
  room for their sectors, and the bss is part of one of them (`ImageAssumption`: what
  `kernel.ld` makes). `Boot`: the scratch space lies below the address line of the gate, which
  is worth a number of sectors (`GateAssumption`). `GateSettled` is a guard and about time: the
  controller has taken its last byte when the header has been read; nothing in the code
  waits for it. `ConsInit`: a machine has a display with its cursor on it.
- `GradeRunner`: a read takes at least a byte. `GradeTests`: a test's parent is a test, points
  are natural numbers. `ParentRunsFirst` alone assumes `InGroups`, the order of `grade-lab1`: no
  test is registered twice, and a parent, which runs QEMU and has no parent itself, comes
  before its children with no other run in between. Without it a child that is registered
  behind another run looks at the wrong output.
- `StringLib` and `Printfmt`: a word has at least one byte and a byte at least two values; a
  long long is at least as wide as an int; there are at most 16 messages, so that one digit
  names them (`BitsAssumption`; the source has 7); the NUL is none of the characters of a
  text, and the characters that the code itself writes are (`CharsAssumption`). `Library`:
  `CallsAssumption` is what the two files ask of their callers, since C checks nothing. Blocks
  lie in memory; strings end within 2^31 - 1 bytes; a copy has room and its source is not where
  it writes (`memmove()` alone may overlap); an argument is of the type its directive names. It
  also leaves out what the source does not support: flags that pad a number with `-`, and `%e`
  of the least int. Numbers in a directive have one digit and are not 0 (a `0` is a flag), and an
  unrecognized escape is at most three characters that end no escape, since three arguments are
  passed for the stars in it; `#`, and flags in other numbers and orders, occur only there.

*Arguments.* Each theorem about states has an inductive invariant, which a run has checked,
one lemma per action, and a last step in temporal logic.

- `Typing`. Neither property is inductive: while bytes are on their way neither the shift word
  nor what is decoded agrees with the keyboard. `TypingInv` says that decoding the bytes on
  their way leads to a shift word that `Follows` the keyboard and to what was typed. `Leads`
  says this with the states in between, one per byte, rather than with a fold: a key that
  moves adds one or two bytes at the end (`LeadsByKey`), a byte that is read is one less at the
  front (`LeadsOnward`), and neither needs an induction. `CodePressed`, `CodeReleased` and
  `Means` are what the bytes of one key do, the prefix included.
- `ConsInput`. The types are inductive as they stand, once `Decode` is known to stay within
  the flags. `AccountCorrect` needs how one character more and one less change `Occupancy`,
  which wraps with the positions; the refinement adds that `Pending` gets the new character
  at its end (`StoreRefines`) and gives its first (`TakeRefines`), and that storing into a
  buffer one short of full empties it.
- `ConsOutput`. The screen's types need that a write leaves the position at most at
  `CRT_SIZE`, where the cell is not used before the scroll takes a row off (`WrittenType`,
  `ScrolledType`). For the refinement, quotient and remainder by the number of columns turn a
  position into row and column and back (`Division`, `Grid`, `Coordinates`); each kind of
  character is a step of the terminal, the spaces of a tab being steps of their own. For the
  ports, `due` records what the calls of `cons_putc()` owe a port, and `PortsInv` says of each
  moment of a call how much of it the port has still to get (`Unwritten`) and how many spaces
  are to come (`Rest`); `TabInv` says that no tab begins inside a tab.
- `DebugInfo`. `FindsStab` speaks of the end of a search only; its inductive form `SearchInv`
  says that below `l` every stab of the type starts before the address, above `r` every one
  after it, that `region_left` is the last one seen below `l`, and that the address has moved
  by at most one and only past an exact match (`AddrMoved`): this is where `NoNeighbour` is
  needed, and why the code's trick of adding one terminates. `InfoInv` then says, for each of
  the three calls, that it runs in the stabs of what the call before has found (`FileHere`,
  `FunctionHere`) or in the file if it found nothing (`NoFunction`), and that `*info` holds
  what is known by then. `Found` and `NoneFound` read `FindsStab` as what `InfoCorrect` means
  by the stab of an address; that every kind begins where its file or function does is what
  makes "none found" visible to the code.
- `Boot`. Its parts share no variable, so each has an invariant of its own: `ImageInv` tells at
  which line of a recipe the boot sector may be unsigned and what the temporary image holds
  there; `CpuInv` what each instruction relies on (page tables before
  paging, both mappings until `eip` is high), and with `GateInv` which byte the keyboard
  controller has or has taken at each instruction, so that the gate is open once the last one
  is taken (`Opened`); what has been read by then is the header, below the gate's line
  (`BusLeads`), which is why every segment goes where its header says; `DisplayInv` and `SerialInv` what `cons_init()`
  has found and written at each `outb()`, when a byte may come in at any of them.
- `BootLoader`. `DiskInv` says at which places the disk is known to be ready and to have the
  sector asked for, which is what the two waits are for; `ReadInv` ties `readseg()`'s three variables to the segment being read,
  `CopyInv` says that what is below `pa` and what the segments before filled is in memory
  unless a later segment's first sector has overwritten it (`Lost`), `TouchInv` that nothing
  outside these sectors is written.
- `Monitor`. `ColourInv` follows the two colour variables through the output statements that
  are still to be executed: there are hues (`Passes`), one before each of them, that the statements
  lead through and that fit what is printed, and the last is the reset one; `StackInv` and `PlaceInv` say which functions are active at each
  place, `WalkInv` how much of them the walk has listed; `ReadInv` what `readline()`'s `i`,
  `buf` and prompt have to do with the line (it gives `LineOnScreen`, whose lemmas about cells
  are in `CgaProofs`, and the refinement of `LineEditor`); `ParseInv` how far the line has been
  cut into words, of whose places in `argv` the first `argc` are known and the others hold
  anything. `AnswerInv` says what the monitor's answer to a line consists of, printed and
  still to be printed, counting a backtrace as it walks; `ArgvString` and `FirstWordFound` that
  `runcmd()` looks up the first word, `AllWords` and `OneWordMore` that `argc` is the number of
  words or that there are too many, by an injection of the places of `argv` into the words.
- `GradeTests`. `LinksInv`, `ChildInv`, `ClockInv`, `StopInv`, `PipeInv` and `TestInv` say at
  each place of a run which of process, connection, reactors and data in the pipe there may
  be, with Ctrl-C and the timeout striking anywhere. `FailureLogs` is an action property: it
  needs that before the kernel is told to go on only make has printed (`EarlyInv`), that the
  running test is the innermost call (`CallInv`), and that `save()` has had everything read
  since its run began (`SaveInv`). For `ScoreAddsUp`, `JudgeInv` says that a test marked
  complete is an active call or was judged, never both and never twice; `SumInv` that the
  scores are sums over the verdicts, and `StatusInv` that a status of 0 was given at the end of
  the list or by Ctrl-C. For `ParentFirst`, `OrderInv` says that at most two calls are active, a
  test of the list and its parent; that runs are judged in the order of the list; and that once
  the parent has returned its run is the last one judged (`Ready`).
- `Library`. A call is one step, so its invariant only says that the result is `Do(call)`
  (`Returned`); the work is in what the functions compute. `Iterated` is a recursive function on
  the natural numbers: that it exists (`IteratedDef`) is proved from finite chains of states
  (`ChainExists`, `ChainUnique`) by a least counterexample, and so is every induction
  (`AllNumbers`), since the library's rules cannot be instantiated. `Turns` ends at the first turn
  whose condition is false (`TurnsIs`). Each loop then has
  a closed form, an invariant of the number of its turns: what memory is after k turns of
  a copy (`CopyingAt`), of `rep movsb` or `movsl` in either direction (`MovsForward`,
  `MovsBackward`), of `stosl`, whose word is c in each of its bytes. `printnum()`'s digits are the
  quotients by the powers of the base; there are as many as make the quotient less than the base,
  and evaluating them gives the number back, of which `strtol()` keeps the low bits at every
  digit. 2^n is the number of subsets of n elements to the prover, so the facts about it
  (`PowersOfTwo` and what follows) come from counting subsets. The switch of `vprintfmt()` is followed one
  character at a time: `Reaches` says with which flags, width, precision and arguments it is at a place of the
  format; each kind of character leads from one such state to the next, and the parts of a
  directive are joined in the order in which `Written` has them.
- Sums. The library's folds are recursive functions on the subsets of a finite set. That the
  sum of a set and one element more is the sum and the element (`TotalWith`) is an induction on
  finite sets; it is proved without an induction rule, from a least counterexample, which
  exists since the strict subsets of a finite set are well-founded (`LeastSubset`).

*Only model-checked.*

Liveness (`InputDrains`, `PutReturns`, `Prompts`, `Answers`, `Boots`, `Graded`) depends on
fairness, which the prover does not handle. Every other property of a passing run is the
statement of a theorem.

## What the model says about the code

Four findings have a run (see above). Other things the models show or take into account:

- `kern/console.c:341`: a byte from the mouse is left in the controller, although
  line 340 says to ignore it. Bytes of the keyboard wait behind it. `InputDrains`
  allows for it; mice are disabled until something enables them.
- The two Shift (Ctrl, Alt) keys share one bit. With both down, releasing one drops the
  modifier. `CharsAsTyped` is about keyboards on which no two of a pair are down together;
  `ModifiersFollow` is about all, and says what such a pair can cost.
- A tab is sent to the ports as six bytes, the tab itself and the five spaces.
- `boot/boot.S:42`: nothing waits for the controller after the last byte. The first
  access to memory above 1 MB is many disk accesses later, and `Boot` assumes that this is
  long enough (`GateSettled`). Without it the first sectors of the kernel go to addresses 1 MB lower.
- `boot/main.c:60`: the program headers and the entry point are read from the scratch space
  while segments are loaded. An image that comes over what is still to be read leads the loader
  astray; `HeadersKept` says which images do not, and `Boots` that those alone come to run.
  `kernel.ld` loads above 1 MB.
- `gradelib.py:426`: a run that has timed out in the main loop and hits its breakpoint while
  it is shut down is killed by that packet, and what is still in the pipe is not read. Nothing
  promises otherwise; `OutputComplete` allows for it, and no property is about it.
- `boot/main.c:85` says writing more than asked does not matter. It does if a segment
  begins in a sector in which the one before it ends, unless the file holds the two back to
  back: `Loaded` says exactly which bytes are lost (`Lost`). `kernel.ld` makes no such pair.
- `GNUmakefile:119` makes the object files precious, which exempts them from the rule in
  line 116; that half an object file does not stay is left to the compiler. A make that is
  killed outright between two lines leaves an unsigned boot sector that the next make takes
  for finished. Neither is in the model.
- `kern/console.c:142`: with no display at all the probe reads what is not there and falls
  back to the monochrome one. The machines of `boot` have a display.
- `boot/main.c:102`: `waitdisk()` does not look at the disk's error bit. No error is modelled.
- `kern/console.c:157`: `cga_init` believes the 6845; the models start with a cursor on
  the screen. Bytes that come in before `serial_init` has ended are dropped, one of them by
  a read, the others by switching the FIFO off.
- `kern/kdebug.c:73`: an address below every function of a region leaves `region_left`
  where it was, at an entry of another type in a region that is not empty, which
  `debuginfo_eip()` takes for a function. `FindsStab` says so; for the search for the file the
  code looks for it (line 153). Linked tables start each file with its first function.
- `kern/monitor.c:137`: "Too many arguments (max 16)" is printed for 16 words; 15 is the
  most a command can get, since `argv` keeps a place for the NULL.
- `kern/printf.c:13`: `*cnt++` moves the pointer; `cprintf()` always returns 0 (`cprintf` in
  `Printfmt` has it so). Nothing uses it.
- `lib/printfmt.c:107`: with `-`, numbers are padded on the left, with `-` characters.
  `lib/printfmt.c:167`: `%e` of the least int indexes in front of the table. Nothing prints
  either; the runs leave both out.
- Ctrl-C: between the start of make and the `try` of `run_qemu()` nothing shuts make down
  (`NoOrphan` leaves out this one place). A run it cuts short before anything has failed
  ends with status 0, although not all tests were judged: `ScoreAddsUp` says what the status
  means then. Between the scores of a test and its callbacks it leaves the old failure log.
- `gradelib.py:317`: if make fails, `GDBClient` still tries for 30 seconds before the run
  fails. `gradelib.py:117`: a test worth no points may fail without changing the exit
  status; of `grade-lab1`, that is the only one that runs QEMU.

Abstractions to know about: `_panic` and `_warn` are not modelled (the one call, at
`kern/kdebug.c:127`, is for return addresses below `ULIM`, which this kernel does not
have; `DebugInfo` ends there with "panic"). In `Monitor` a line of output is one character
and a newline, an address in a backtrace is a depth, and `runcmd()` has a frame of its own,
which a compiler that inlines it leaves out. In `KernelImage` no edit happens while make
runs, and `PowerOn` chooses the kernel (`image`) that the token in the image stands for.
In `ConsInit` a display is its first cell, and bytes are only counted. `BootLoader` copies whole sectors in one step,
and a byte of memory is the offset of the file byte it holds. In `GradeRunner` a timeout
may strike whenever the grader waits, since no step of the grader takes as long as one.
Ctrl-C strikes once, between two steps, and may or may not reach make and QEMU. Of the time
stamps two facts are kept: has make written a file in this second, and is this second
`MAKE_TIMESTAMP`; the clock is never set back. An uncaught exception is exit status 1.

## Plan

Done: the modules above, the refinements to `InputQueue`, `Terminal` and `LineEditor` checked
and proved, and every safety property proved except what "Only model-checked" names. Every
part of the inventory is modelled except what "Not modelled" names.

Next, in this order:

1. A panic in the middle of a command.
2. Directives with numbers of several digits and unrecognized escapes of any length in
   `FormattedCorrect`; the lemmas about single characters of the switch are about any format.
